---------------------------- MODULE HistoryPasses ----------------------------
(***************************************************************************)
(* What rewrites Entries behind the reader's back on one Device: the Tasks *)
(* backfill (apps/web/src/lib/backfill-tasks.ts), which EntryStoreLayout   *)
(* starts on each of its mounts, next to Promotion in the Composer         *)
(* (use-history.ts), to the refresh of Task References                     *)
(* (lib/task-reference-sync.ts), and to the rows that Sync, Merge and      *)
(* Restore bring.                                                          *)
(*                                                                         *)
(* Leaving the Composer for the chat list or Settings unmounts the layout; *)
(* a pass it started goes on, and coming back starts another, with refs of *)
(* its own.  Every await of a pass is a point at which anything else may   *)
(* run, a statement may throw, or the app may be closed.                   *)
(*                                                                         *)
(* Of a body the model keeps its checkbox line; there is at most one.  The *)
(* rest of it, which the round trip through the editor's document          *)
(* normalises, no property reads.  The pass that follows the backfill,     *)
(* lib/soft-break-migration.ts, reads Entries and rewrites none: since     *)
(* #234 the document has a paragraph wherever the text has newlines, so    *)
(* there is no run left in it to halve (ADR 0069).                         *)
(***************************************************************************)
EXTENDS Integers, FiniteSets

CONSTANTS
  Entries,      \* by age: ids are numbers, a larger one was captured later
  TaskIds,      \* what mintId can draw
  Theirs,       \* a Reference to a Task that another Device minted
  None,         \* no row, no Entry, no Task
  Gone,         \* a tombstone
  MaxMounts,    \* bound: mounts of the layout
  MaxMishaps,   \* bound: statements that throw, and closings
  MaxWrites,    \* bound: writes of the reader and of others, and Backups
  MaxRestores   \* bound: Restores

ASSUME PassesAssumption ==
  /\ Entries \subseteq Nat
  /\ IsFiniteSet(Entries)
  /\ {MaxMounts, MaxMishaps, MaxWrites, MaxRestores} \subseteq Nat
  /\ Theirs \notin TaskIds /\ "none" \notin TaskIds /\ "bare" \notin TaskIds
  /\ Theirs # "none" /\ Theirs # "bare"
  /\ None \notin TaskIds /\ None \notin Entries

Mounts == 1 .. MaxMounts

\* A checkbox line: absent, bare, or a Reference.  It stands for its body.
Lines == {"none", "bare", Theirs} \cup TaskIds

ASSUME SpecialRows == None \notin Lines /\ Gone \notin Lines /\ None # Gone

Table == [Entries -> Lines \cup {None, Gone}]

Live(t) == {e \in Entries : t[e] \in Lines}

VARIABLES
  rows,        \* the entries table
  tasks,       \* the tasks table: the Entry whose line each Task was minted for
  backfilled,  \* BACKFILLED_KEY, in localStorage
  layout,      \* how many mounts of EntryStoreLayout there have been
  pass,        \* the backfill of each mount
  draft,       \* a Send or an edit in the Composer, up to its last statement
  refresh,     \* a run of syncTaskReferenceLabel or syncTaskReferenceChecked
  backup,      \* the last Backup taken
  untouched,   \* history: Entries only the passes have written
  lost,        \* history: Tasks a Restore took
  count        \* history: mishaps, writes and Restores, for the bounds

vars == <<rows, tasks, backfilled, layout, pass, draft, refresh, backup,
          untouched, lost, count>>

store == <<rows, tasks>>
history == <<untouched, lost>>

Pcs == {"unborn", "list", "fill", "edit", "end"}

\* Bodies a scan or a search found and has yet to rewrite, as it found them.
Found == [Entries -> Lines \cup {None}]

Nothing == [e \in Entries |-> None]

Left(found) == {e \in Entries : found[e] # None}

Find(es) == [e \in Entries |-> IF e \in es THEN rows[e] ELSE None]

\* found: the part of what store.list() returned that is still to be rewritten.
\* id: the Task upserted for the Entry whose edit comes next.
Pass == [pc : Pcs, found : Found, id : TaskIds \cup {None}]

PassAt(pc) == [pc |-> pc, found |-> Nothing, id |-> None]

\* step: "open" until the Tasks are upserted, then "save".
Draft == [step : {"open", "save"}, send : BOOLEAN, of : Entries, line : Lines]

NoDraft == None

-----------------------------------------------------------------------------
\* A Device that opens the first build with a backfill: a History, checkboxes
\* in some of it, and a Backup of it.
Init ==
  /\ rows \in [Entries -> {None, "none", "bare"}]
  /\ tasks = [id \in TaskIds |-> None]
  /\ backfilled = FALSE
  /\ layout = 0
  /\ pass = [m \in Mounts |-> PassAt("unborn")]
  /\ draft = NoDraft
  /\ refresh = Nothing
  /\ backup = [rows |-> rows, tasks |-> tasks, flag |-> FALSE]
  /\ untouched = Live(rows)
  /\ lost = {}
  /\ count = [mishaps |-> 0, writes |-> 0, restores |-> 0]

-----------------------------------------------------------------------------
(* The stores.                                                             *)

\* store.edit: the whole body.  A tombstone, or an id that is not here, stays.
EditRow(e, line) == rows' = [rows EXCEPT ![e] = IF @ \in Lines THEN line ELSE @]

\* promoteBareCheckboxes mints an id for the bare line; taskStore.upsert
\* stores the Task, in one statement.
MintTask(e, id) ==
  /\ tasks[id] = None /\ id \notin lost
  /\ tasks' = [tasks EXCEPT ![id] = e]

-----------------------------------------------------------------------------
(* The backfill of a mount.                                                *)

\* EntryStoreLayout mounts with the stores open: its effect reads the flag, which
\* may fail and then says no, and starts the backfill.
Mount ==
  /\ layout < MaxMounts
  /\ layout' = layout + 1
  /\ \E known \in {backfilled, FALSE} :
       pass' = [pass EXCEPT ![layout + 1] = PassAt(IF known THEN "end" ELSE "list")]
  /\ UNCHANGED <<store, backfilled, draft, refresh, backup, history, count>>

\* Defect: the flag is set before the work is done.
ListForBackfillMarks(m) ==
  /\ pass[m].pc = "list"
  /\ backfilled' = TRUE
  /\ pass' = [pass EXCEPT ![m] =
       [PassAt("fill") EXCEPT !.found = Find({e \in Live(rows) : rows[e] = "bare"})]]
  /\ UNCHANGED <<store, layout, draft, refresh, backup, history, count>>

\* store.list(), once for the whole scan.  What it returned decides which
\* Entries are rewritten, and to what.
ListForBackfill(m) ==
  /\ pass[m].pc = "list"
  /\ pass' = [pass EXCEPT ![m] =
       [PassAt("fill") EXCEPT !.found = Find({e \in Live(rows) : rows[e] = "bare"})]]
  /\ UNCHANGED <<store, backfilled, layout, draft, refresh, backup, history, count>>

\* Defect: the Tasks are kept in memory for one batch at the end.
BackfillTaskInBatch(m) ==
  /\ pass[m].pc = "fill"
  /\ \E e \in Left(pass[m].found), id \in TaskIds :
       /\ \A other \in Left(pass[m].found) : e <= other
       /\ tasks[id] = None /\ id \notin lost
       /\ pass' = [pass EXCEPT ![m].pc = "edit", ![m].id = id]
  /\ UNCHANGED <<store, backfilled, layout, draft, refresh, backup, history, count>>

\* The oldest Entry left: its Task is upserted before the Entry refers to it.
BackfillTask(m) ==
  /\ pass[m].pc = "fill"
  /\ \E e \in Left(pass[m].found), id \in TaskIds :
       /\ \A other \in Left(pass[m].found) : e <= other
       /\ MintTask(e, id)
       /\ pass' = [pass EXCEPT ![m].pc = "edit", ![m].id = id]
  /\ UNCHANGED <<rows, backfilled, layout, draft, refresh, backup, history, count>>

\* Then its body, as it was listed but for the Reference in its checkbox line.
BackfillEdit(m) ==
  /\ pass[m].pc = "edit"
  /\ \E e \in Left(pass[m].found) :
       /\ \A other \in Left(pass[m].found) : e <= other
       /\ EditRow(e, pass[m].id)
       /\ pass' = [pass EXCEPT ![m].pc = "fill", ![m].found[e] = None, ![m].id = None]
  /\ UNCHANGED <<tasks, backfilled, layout, draft, refresh, backup, history, count>>

\* markBackfilled, which may fail in silence.
BackfillDone(m) ==
  /\ pass[m].pc = "fill" /\ pass[m].found = Nothing
  /\ backfilled' \in {backfilled, TRUE}
  /\ pass' = [pass EXCEPT ![m] = PassAt("end")]
  /\ UNCHANGED <<store, layout, draft, refresh, backup, history, count>>

-----------------------------------------------------------------------------
(* The reader.                                                             *)

Writes(e) ==
  /\ count.writes < MaxWrites
  /\ count' = [count EXCEPT !.writes = @ + 1]
  /\ untouched' = untouched \ {e}

\* An edit starts from the row as it is, a Send from nothing; editEntry, which
\* ticks a checkbox in History, saves without Promotion.
Compose(e) ==
  /\ draft = NoDraft
  /\ \/ /\ e \in Live(rows)
        /\ \E line \in {rows[e], "none", "bare"} :
             draft' = [step |-> "open", send |-> FALSE, of |-> e, line |-> line]
     \/ /\ e \in Live(rows)
        /\ draft' = [step |-> "save", send |-> FALSE, of |-> e, line |-> rows[e]]
     \/ /\ rows[e] = None
        /\ \E line \in {"none", "bare"} :
             draft' = [step |-> "open", send |-> TRUE, of |-> e, line |-> line]
  /\ Writes(e)
  /\ UNCHANGED <<store, backfilled, layout, pass, refresh, backup, lost>>

\* sendEntry, commitEntryEdit: upsertPromotedTasks.
PromoteDraft ==
  /\ draft # NoDraft /\ draft.step = "open"
  /\ \/ /\ draft.line = "bare"
        /\ \E id \in TaskIds :
             /\ MintTask(draft.of, id)
             /\ draft' = [draft EXCEPT !.step = "save", !.line = id]
     \/ /\ draft.line # "bare"
        /\ draft' = [draft EXCEPT !.step = "save"]
        /\ UNCHANGED tasks
  /\ UNCHANGED <<rows, backfilled, layout, pass, refresh, backup, history, count>>

\* Then store.upsert of the new row, or store.edit.
SaveDraft ==
  /\ draft # NoDraft /\ draft.step = "save"
  /\ IF draft.send
       THEN rows' = [rows EXCEPT ![draft.of] = draft.line]
       ELSE EditRow(draft.of, draft.line)
  /\ draft' = NoDraft
  /\ UNCHANGED <<tasks, backfilled, layout, pass, refresh, backup, history, count>>

\* store.remove.
Remove(e) ==
  /\ e \in Live(rows)
  /\ rows' = [rows EXCEPT ![e] = Gone]
  /\ Writes(e)
  /\ UNCHANGED <<tasks, backfilled, layout, pass, draft, refresh, backup, lost>>

\* A Task is renamed or completed in Todo: the Entries that refer to it, ...
FindReferences(id) ==
  /\ refresh = Nothing
  /\ tasks[id] # None
  /\ count.writes < MaxWrites
  /\ count' = [count EXCEPT !.writes = @ + 1]
  /\ refresh' = Find({e \in Live(rows) : rows[e] = id})
  /\ UNCHANGED <<store, backfilled, layout, pass, draft, backup, history>>

\* ... each written back with the new label or marker, as it was found.
RefreshReference ==
  /\ \E e \in Left(refresh) :
       /\ EditRow(e, refresh[e])
       /\ refresh' = [refresh EXCEPT ![e] = None]
  /\ UNCHANGED <<tasks, backfilled, layout, pass, draft, backup, history, count>>

-----------------------------------------------------------------------------
(* Other Devices, Backups, and what goes wrong.                            *)

\* Rows of other Devices and of other files, which may never have promoted.
Foreign == {"none", "bare", Theirs}

\* applyPulled of a row that wins, which EntrySync decides.
Pull(e) ==
  /\ rows[e] # Gone
  /\ \E row \in Foreign \cup {Gone} : rows' = [rows EXCEPT ![e] = row]
  /\ Writes(e)
  /\ UNCHANGED <<tasks, backfilled, layout, pass, draft, refresh, backup, lost>>

\* mergeBackupIntoDevice: a row of the file.
MergeRow(e) ==
  /\ rows[e] # Gone
  /\ \E row \in Foreign : rows' = [rows EXCEPT ![e] = row]
  /\ Writes(e)
  /\ UNCHANGED <<tasks, backfilled, layout, pass, draft, refresh, backup, lost>>

\* createBackup: what localStorage holds is read first, so the flag may be older
\* than the tables, and missing if the read fails.
TakeBackup ==
  /\ count.writes < MaxWrites
  /\ count' = [count EXCEPT !.writes = @ + 1]
  /\ \E flag \in {backfilled, FALSE} :
       backup' = [rows |-> rows, tasks |-> tasks, flag |-> flag]
  /\ UNCHANGED <<store, backfilled, layout, pass, draft, refresh, history>>

\* restoreFromBackup, its transaction in one step: both tables become the
\* file's.  Then applyDeviceSettings sets the keys the file has, the flag's
\* among them, and clears none; that write may fail, or never be reached.
\* The reload it ends with is Close: until then what runs goes on.
Restore ==
  /\ count.restores < MaxRestores
  /\ count' = [count EXCEPT !.restores = @ + 1]
  /\ rows' = backup.rows
  /\ tasks' = backup.tasks
  /\ lost' = lost \cup {id \in TaskIds : tasks[id] # None /\ backup.tasks[id] = None}
  /\ untouched' = {}
  /\ \/ UNCHANGED backfilled
     \/ backup.flag /\ backfilled' = TRUE
  /\ UNCHANGED <<layout, pass, draft, refresh, backup>>

Mishap ==
  /\ count.mishaps < MaxMishaps
  /\ count' = [count EXCEPT !.mishaps = @ + 1]

\* A statement throws: the pass is over, and with it what waits for it.
Throw(m) ==
  /\ pass[m].pc \notin {"unborn", "end"}
  /\ pass' = [pass EXCEPT ![m] = PassAt("end")]
  /\ Mishap
  /\ UNCHANGED <<store, backfilled, layout, draft, refresh, backup, history>>

\* The tab is closed: only what is stored is left.
Close ==
  /\ pass' = [m \in Mounts |-> PassAt(IF m <= layout THEN "end" ELSE "unborn")]
  /\ draft' = NoDraft
  /\ refresh' = Nothing
  /\ Mishap
  /\ UNCHANGED <<store, backfilled, layout, backup, history>>

-----------------------------------------------------------------------------
PassStep(m) ==
  \/ ListForBackfill(m)
  \/ BackfillTask(m)
  \/ BackfillEdit(m)
  \/ BackfillDone(m)
  \/ Throw(m)

EntryStep(e) ==
  \/ Compose(e)
  \/ Remove(e)
  \/ Pull(e)
  \/ MergeRow(e)

Next ==
  \/ Mount
  \/ \E m \in Mounts : PassStep(m)
  \/ \E e \in Entries : EntryStep(e)
  \/ PromoteDraft
  \/ SaveDraft
  \/ \E id \in TaskIds : FindReferences(id)
  \/ RefreshReference
  \/ TakeBackup
  \/ Restore
  \/ Close

Spec == Init /\ [][Next]_vars

-----------------------------------------------------------------------------
(* Properties                                                              *)

TypeOK ==
  /\ rows \in Table
  /\ tasks \in [TaskIds -> Entries \cup {None}]
  /\ backfilled \in BOOLEAN
  /\ layout \in 0 .. MaxMounts
  /\ pass \in [Mounts -> Pass]
  /\ draft \in Draft \cup {NoDraft}
  /\ refresh \in Found
  /\ backup \in [rows : Table, tasks : [TaskIds -> Entries \cup {None}], flag : BOOLEAN]
  /\ untouched \in SUBSET Entries
  /\ lost \in SUBSET TaskIds
  /\ count \in [mishaps : Nat, writes : Nat, restores : Nat]

\* backfill-tasks.ts: nothing ever observes a Reference whose Task has not been
\* written yet - by the backfill, a Send, an edit, or a body one of them kept
\* while the other wrote.  Only a Restore, which drops Tasks, can leave one.
ReferencesHaveTasks ==
  \A e \in Live(rows) :
    rows[e] \in TaskIds => tasks[rows[e]] # None \/ rows[e] \in lost

\* ADR 0053: once the flag says so, every checkbox the Device had when it got
\* this build is a Task, unless its Entry was rewritten by someone else since.
CheckboxesPromoted ==
  backfilled => \A e \in untouched \cap Live(rows) : rows[e] # "bare"

\* ADR 0053: interrupting the backfill and running it again does no harm.  What
\* the code does violates it: the Task of an Entry whose edit did not happen is
\* minted again.
OneTaskPerCheckbox ==
  \A e \in untouched : Cardinality({id \in TaskIds : tasks[id] = e}) <= 1

\* backfill-tasks.ts: the flag is a performance optimisation, never the source
\* of correctness.  What the code does violates it: a Restore brings bodies that
\* were never promoted and leaves the flag, so no later pass looks at them.
RestoredIsBackfilled ==
  backfilled /\ count.writes = 0 => \A e \in Live(rows) : rows[e] # "bare"

-----------------------------------------------------------------------------
(* The inductive invariant behind the first two.                           *)

\* A line kept anywhere refers to no Task that was never upserted.
Known(line) == line \in TaskIds => tasks[line] # None \/ line \in lost

KnownTable(t) == \A e \in Entries : t[e] \in Lines => Known(t[e])

ReferencesKnown ==
  /\ KnownTable(rows) /\ KnownTable(refresh)
  /\ \A m \in Mounts : Known(pass[m].id)
  /\ draft # NoDraft => Known(draft.line)
  /\ \A e \in Entries : \A id \in TaskIds :
       backup.rows[e] = id =>
         backup.tasks[id] # None \/ id \in lost

Bare(e) == e \in Live(rows) /\ rows[e] = "bare"

\* What a scan has left covers the bare lines of the Entries only passes wrote;
\* after it there are none, and no stale body brings one back.
ScansComplete ==
  /\ backfilled => \A e \in untouched : ~Bare(e)
  /\ \A m \in Mounts :
       /\ pass[m].pc \in {"fill", "edit"} =>
            \A e \in untouched : Bare(e) => pass[m].found[e] # None
       /\ pass[m].pc = "edit" => pass[m].id # None
  /\ \A e \in Left(refresh) : refresh[e] \in TaskIds
  /\ draft # NoDraft => draft.of \notin untouched

IInv == TypeOK /\ ReferencesKnown /\ ScansComplete

=============================================================================
