------------------------ MODULE HistoryPassesProofs ------------------------
(***************************************************************************)
(* HistoryPasses, proved: however many mounts, crashes, Restores and       *)
(* foreign rows there are, the passes leave no Reference without a Task,   *)
(* and miss no checkbox once the flag is set.                              *)
(***************************************************************************)
EXTENDS HistoryPasses, TLAPS

\* The tables a scan keeps hold rows as they were, or nothing.
LEMMA FindType ==
  ASSUME rows \in Table, NEW es \in SUBSET Live(rows)
  PROVE  /\ Find(es) \in Found
         /\ \A e \in Entries : Find(es)[e] = IF e \in es THEN rows[e] ELSE None
         /\ Left(Find(es)) = es
<1>1. \A e \in es : e \in Entries /\ rows[e] \in Lines /\ rows[e] # None
  BY SpecialRows DEF Live
<1>. QED  BY <1>1 DEF Find, Found, Left

\* store.edit changes one live row.
LEMMA EditType ==
  ASSUME rows \in Table, NEW e \in Entries, NEW line \in Lines, EditRow(e, line)
  PROVE  /\ rows' \in Table
         /\ \A f \in Entries : f # e => rows'[f] = rows[f]
         /\ rows[e] \in Lines => rows'[e] = line
         /\ rows[e] \notin Lines => rows'[e] = rows[e]
<1>1. CASE rows[e] \in Lines
  <2>1. rows' = [rows EXCEPT ![e] = line]  BY <1>1 DEF EditRow
  <2>. QED  BY <1>1, <2>1 DEF Table
<1>2. CASE rows[e] \notin Lines
  <2>1. rows' = [rows EXCEPT ![e] = rows[e]]  BY <1>2 DEF EditRow
  <2>. QED  BY <1>2, <2>1 DEF Table
<1>. QED  BY <1>1, <1>2

\* A pass at the start of a phase.
LEMMA PassShape ==
  ASSUME NEW pc \in Pcs, NEW F \in Found
  PROVE  /\ PassAt(pc) \in Pass
         /\ PassAt(pc).pc = pc /\ PassAt(pc).found = Nothing /\ PassAt(pc).id = None
         /\ [PassAt(pc) EXCEPT !.found = F] \in Pass
         /\ [PassAt(pc) EXCEPT !.found = F].pc = pc
         /\ [PassAt(pc) EXCEPT !.found = F].found = F
         /\ [PassAt(pc) EXCEPT !.found = F].id = None
<1>1. Nothing \in Found  BY DEF Nothing, Found
<1>. QED  BY <1>1 DEF PassAt, Pass

\* An Entry of a scan has its line as it was.
LEMMA LeftIsLine ==
  ASSUME NEW F \in Found, NEW e \in Left(F)
  PROVE  e \in Entries /\ F[e] \in Lines
BY DEF Found, Left

-----------------------------------------------------------------------------
(* Types.                                                                  *)

LEMMA TypePass ==
  ASSUME IInv, NEW m \in Mounts, PassStep(m)
  PROVE  TypeOK'
<1>. USE DEF TypeOK, store, history
<1>. TypeOK  BY DEF IInv
<1>0. pass[m] \in Pass /\ pass[m].found \in Found  BY DEF Pass
<1>1. CASE ListForBackfill(m)
  <2>1. Find({e \in Live(rows) : rows[e] = "bare"}) \in Found  BY FindType
  <2>2. [PassAt("fill") EXCEPT !.found = Find({e \in Live(rows) : rows[e] = "bare"})] \in Pass
    BY <2>1, PassShape DEF Pcs
  <2>. QED  BY <1>1, <2>2 DEF ListForBackfill
<1>2. CASE BackfillTask(m)
  <2>1. PICK e \in Left(pass[m].found), id \in TaskIds :
          MintTask(e, id) /\ pass' = [pass EXCEPT ![m].pc = "edit", ![m].id = id]
    BY <1>2 DEF BackfillTask
  <2>2. e \in Entries  BY <1>0, LeftIsLine
  <2>3. pass' \in [Mounts -> Pass]  BY <1>0, <2>1 DEF Pass, Pcs
  <2>4. tasks' \in [TaskIds -> Entries \cup {None}]  BY <2>1, <2>2 DEF MintTask
  <2>. QED  BY <1>2, <2>3, <2>4 DEF BackfillTask
<1>3. CASE BackfillEdit(m)
  <2>1. PICK e \in Left(pass[m].found) :
          /\ EditRow(e, pass[m].id)
          /\ pass' = [pass EXCEPT ![m].pc = "fill", ![m].found[e] = None, ![m].id = None]
    BY <1>3 DEF BackfillEdit
  <2>2. e \in Entries /\ pass[m].found[e] \in Lines  BY <1>0, LeftIsLine
  <2>3. pass[m].id \in TaskIds  BY <1>0, <1>3 DEF IInv, ScansComplete, BackfillEdit, Pass
  <2>4. pass[m].id \in Lines  BY <2>3 DEF Lines
  <2>5. rows' \in Table  BY <2>1, <2>2, <2>4, EditType
  <2>6. pass' \in [Mounts -> Pass]  BY <1>0, <2>1, <2>2 DEF Pass, Found, Pcs
  <2>. QED  BY <1>3, <2>5, <2>6 DEF BackfillEdit
<1>4. CASE BackfillDone(m)
  BY <1>4, PassShape, <1>0 DEF BackfillDone, Pcs
<1>5. CASE Throw(m)
  <2>1. pass' = [pass EXCEPT ![m] = PassAt("end")]  BY <1>5 DEF Throw
  <2>2. pass' \in [Mounts -> Pass]  BY <2>1, PassShape DEF Pcs
  <2>3. count' \in [mishaps : Nat, writes : Nat, restores : Nat]  BY <1>5 DEF Throw, Mishap
  <2>. QED  BY <1>5, <2>2, <2>3 DEF Throw
<1>. QED  BY <1>1, <1>2, <1>3, <1>4, <1>5 DEF PassStep

\* A foreign row is a row, and refers to no Task of ours.
LEMMA ForeignRows == Foreign \subseteq Lines \ TaskIds
BY PassesAssumption DEF Foreign, Lines

LEMMA TypeEntry ==
  ASSUME TypeOK, NEW e \in Entries, EntryStep(e)
  PROVE  TypeOK'
<1>. USE DEF TypeOK, store, history
<1>1. ASSUME Writes(e)
      PROVE  /\ count' \in [mishaps : Nat, writes : Nat, restores : Nat]
             /\ untouched' \in SUBSET Entries
  BY <1>1 DEF Writes
<1>3. Foreign \subseteq Lines  BY ForeignRows
<1>4. CASE Compose(e)
  <2>1. Live(rows) \subseteq {f \in Entries : rows[f] \in Lines} /\ {"none", "bare"} \subseteq Lines
    BY DEF Live, Lines
  <2>3. PICK step \in {"open", "save"}, send \in BOOLEAN, line \in Lines :
          draft' = [step |-> step, send |-> send, of |-> e, line |-> line]
    BY <1>4, <2>1 DEF Compose
  <2>4. draft' \in Draft  BY <2>3 DEF Draft
  <2>. QED  BY <1>1, <1>4, <2>4 DEF Compose
<1>5. CASE Remove(e)
  <2>1. rows' \in Table  BY <1>5 DEF Remove, Table
  <2>. QED  BY <1>1, <1>5, <2>1 DEF Remove
<1>6. CASE Pull(e)
  <2>1. rows' \in Table  BY <1>3, <1>6 DEF Pull, Table
  <2>. QED  BY <1>1, <1>6, <2>1 DEF Pull
<1>7. CASE MergeRow(e)
  <2>1. rows' \in Table  BY <1>3, <1>7 DEF MergeRow, Table
  <2>. QED  BY <1>1, <1>7, <2>1 DEF MergeRow
<1>. QED  BY <1>4, <1>5, <1>6, <1>7 DEF EntryStep

LEMMA TypeStep == IInv /\ [Next]_vars => TypeOK'
<1>. SUFFICES ASSUME IInv, [Next]_vars PROVE TypeOK'  OBVIOUS
<1>. TypeOK  BY DEF IInv
<1>1. CASE Mount
  <2>1. PassAt("end") \in Pass /\ PassAt("list") \in Pass
    BY DEF Pcs, Nothing, Found, PassAt, Pass
  <2>2. \/ pass' = [pass EXCEPT ![layout + 1] = PassAt("end")]
        \/ pass' = [pass EXCEPT ![layout + 1] = PassAt("list")]
    BY <1>1 DEF Mount
  <2>3. pass' \in [Mounts -> Pass]  BY <2>1, <2>2 DEF TypeOK
  <2>4. layout' \in 0 .. MaxMounts  BY <1>1, PassesAssumption DEF Mount, TypeOK
  <2>. QED  BY <1>1, <2>3, <2>4 DEF Mount, TypeOK, store, history
<1>2. CASE \E m \in Mounts : PassStep(m)  BY <1>2, TypePass
<1>3. CASE \E e \in Entries : EntryStep(e)  BY <1>3, TypeEntry
<1>. USE DEF TypeOK, store, history
<1>4. CASE PromoteDraft
  <2>1. draft \in Draft  BY <1>4 DEF PromoteDraft
  <2>2. TaskIds \subseteq Lines  BY DEF Lines
  <2>3. draft' \in Draft  BY <1>4, <2>1, <2>2 DEF PromoteDraft, Draft
  <2>4. draft.of \in Entries  BY <2>1 DEF Draft
  <2>5. tasks' \in [TaskIds -> Entries \cup {None}]
    <3>1. CASE tasks' = tasks  BY <3>1
    <3>2. CASE \E id \in TaskIds : tasks' = [tasks EXCEPT ![id] = draft.of]  BY <2>4, <3>2
    <3>. QED  BY <1>4, <3>1, <3>2 DEF PromoteDraft, MintTask
  <2>. QED  BY <1>4, <2>3, <2>5 DEF PromoteDraft
<1>5. CASE SaveDraft
  <2>1. draft \in Draft  BY <1>5 DEF SaveDraft
  <2>2. draft.of \in Entries /\ draft.line \in Lines  BY <2>1 DEF Draft
  <2>3. rows' \in Table
    <3>1. CASE draft.send  BY <1>5, <2>2, <3>1 DEF SaveDraft, Table
    <3>2. CASE ~draft.send  BY <1>5, <2>2, <3>2, EditType DEF SaveDraft
    <3>. QED  BY <3>1, <3>2
  <2>. QED  BY <1>5, <2>3 DEF SaveDraft
<1>6. CASE \E id \in TaskIds : FindReferences(id)
  <2>1. PICK id \in TaskIds : FindReferences(id)  BY <1>6
  <2>2. Find({e \in Live(rows) : rows[e] = id}) \in Found  BY FindType
  <2>. QED  BY <2>1, <2>2 DEF FindReferences
<1>7. CASE RefreshReference
  <2>1. PICK e \in Left(refresh) :
          /\ EditRow(e, refresh[e])
          /\ refresh' = [refresh EXCEPT ![e] = None]
    BY <1>7 DEF RefreshReference
  <2>2. e \in Entries /\ refresh[e] \in Lines  BY LeftIsLine
  <2>4. rows' \in Table  BY <2>1, <2>2, EditType
  <2>5. refresh' \in Found  BY <2>1 DEF Found
  <2>. QED  BY <1>7, <2>4, <2>5 DEF RefreshReference
<1>8. CASE TakeBackup
  <2>1. PICK flag \in BOOLEAN : backup' = [rows |-> rows, tasks |-> tasks, flag |-> flag]
    BY <1>8 DEF TakeBackup
  <2>2. backup' \in [rows : Table, tasks : [TaskIds -> Entries \cup {None}], flag : BOOLEAN]
    BY <2>1
  <2>. QED  BY <1>8, <2>2 DEF TakeBackup
<1>9. CASE Restore
  <2>1. rows' \in Table /\ tasks' \in [TaskIds -> Entries \cup {None}]  BY <1>9 DEF Restore
  <2>2. count' \in [mishaps : Nat, writes : Nat, restores : Nat]  BY <1>9 DEF Restore
  <2>3. backfilled' \in BOOLEAN  BY <1>9 DEF Restore
  <2>. QED  BY <1>9, <2>1, <2>2, <2>3 DEF Restore
<1>10. CASE Close
  <2>1. PassAt("end") \in Pass /\ PassAt("unborn") \in Pass
    BY PassShape DEF Pcs, Nothing, Found, PassAt, Pass
  <2>2. pass' \in [Mounts -> Pass]  BY <1>10, <2>1 DEF Close
  <2>3. count' \in [mishaps : Nat, writes : Nat, restores : Nat]  BY <1>10 DEF Close, Mishap
  <2>4. refresh' \in Found  BY <1>10 DEF Close, Nothing, Found
  <2>. QED  BY <1>10, <2>2, <2>3, <2>4 DEF Close
<1>11. CASE UNCHANGED vars  BY <1>11 DEF vars
<1>. QED  BY <1>1, <1>2, <1>3, <1>4, <1>5, <1>6, <1>7, <1>8, <1>9, <1>10, <1>11 DEF Next

-----------------------------------------------------------------------------
(* What a step of a pass does to the pass.                                 *)

LEMMA BackfillEffects ==
  ASSUME IInv, NEW m \in Mounts
  PROVE  /\ ListForBackfill(m) =>
              /\ pass'[m].pc = "fill" /\ pass'[m].id = None
              /\ pass'[m].found = Find({e \in Live(rows) : rows[e] = "bare"})
         /\ BackfillTask(m) =>
              \E id \in TaskIds, e \in Entries :
                /\ pass'[m].pc = "edit" /\ pass'[m].id = id
                /\ pass'[m].found = pass[m].found
                /\ MintTask(e, id)
         /\ BackfillEdit(m) =>
              \E e \in Left(pass[m].found) :
                /\ EditRow(e, pass[m].id)
                /\ pass'[m].pc = "fill" /\ pass'[m].id = None
                /\ pass'[m].found = [pass[m].found EXCEPT ![e] = None]
         /\ BackfillDone(m) =>
              pass'[m].pc = "end" /\ pass'[m].id = None
<1>. pass \in [Mounts -> Pass] /\ pass[m].found \in Found /\ rows \in Table
  BY DEF IInv, TypeOK, Pass
<1>. "fill" \in Pcs /\ "end" \in Pcs  BY DEF Pcs
<1>1. ASSUME ListForBackfill(m)
      PROVE  /\ pass'[m].pc = "fill" /\ pass'[m].id = None
             /\ pass'[m].found = Find({e \in Live(rows) : rows[e] = "bare"})
  <2>. DEFINE F == Find({e \in Live(rows) : rows[e] = "bare"})
  <2>1. F \in Found  BY FindType
  <2>2. pass'[m] = [PassAt("fill") EXCEPT !.found = F]  BY <1>1 DEF ListForBackfill
  <2>. HIDE DEF F
  <2>3. pass'[m].pc = "fill" /\ pass'[m].id = None /\ pass'[m].found = F
    BY <2>1, <2>2, PassShape
  <2>. QED  BY <2>3 DEF F
<1>2. ASSUME BackfillTask(m)
      PROVE  \E id \in TaskIds, e \in Entries :
               /\ pass'[m].pc = "edit" /\ pass'[m].id = id
               /\ pass'[m].found = pass[m].found
               /\ MintTask(e, id)
  <2>1. PICK e \in Left(pass[m].found), id \in TaskIds :
          MintTask(e, id) /\ pass' = [pass EXCEPT ![m].pc = "edit", ![m].id = id]
    BY <1>2 DEF BackfillTask
  <2>2. e \in Entries  BY LeftIsLine
  <2>3. pass'[m].pc = "edit" /\ pass'[m].id = id /\ pass'[m].found = pass[m].found
    BY <2>1 DEF Pass
  <2>. QED  BY <2>1, <2>2, <2>3
<1>3. ASSUME BackfillEdit(m)
      PROVE  \E e \in Left(pass[m].found) :
               /\ EditRow(e, pass[m].id)
               /\ pass'[m].pc = "fill" /\ pass'[m].id = None
               /\ pass'[m].found = [pass[m].found EXCEPT ![e] = None]
  <2>1. PICK e \in Left(pass[m].found) :
          /\ EditRow(e, pass[m].id)
          /\ pass' = [pass EXCEPT ![m].pc = "fill", ![m].found[e] = None, ![m].id = None]
    BY <1>3 DEF BackfillEdit
  <2>2. /\ pass'[m].pc = "fill" /\ pass'[m].id = None
        /\ pass'[m].found = [pass[m].found EXCEPT ![e] = None]
    BY <2>1 DEF Pass
  <2>. QED  BY <2>1, <2>2
<1>4. ASSUME BackfillDone(m)
      PROVE  pass'[m].pc = "end" /\ pass'[m].id = None
  <2>1. pass'[m] = PassAt("end")  BY <1>4 DEF BackfillDone
  <2>. QED  BY <2>1 DEF PassAt
<1>. QED  BY <1>1, <1>2, <1>3, <1>4

LEMMA ThrowEffects ==
  ASSUME IInv, NEW m \in Mounts, Throw(m)
  PROVE  pass'[m].pc = "end" /\ pass'[m].id = None
<1>1. pass'[m] = PassAt("end")  BY DEF Throw, IInv, TypeOK
<1>. QED  BY <1>1 DEF PassAt

\* A pass changes no other pass, and a step of one nothing of what is below.
LEMMA OnlyPass ==
  ASSUME IInv, NEW m \in Mounts, PassStep(m)
  PROVE  /\ \A k \in Mounts : k # m => pass'[k] = pass[k]
         /\ UNCHANGED <<draft, refresh, backup, untouched, lost>>
<1>. pass \in [Mounts -> Pass]  BY DEF IInv, TypeOK
<1>1. UNCHANGED <<draft, refresh, backup, untouched, lost>>
  BY DEF PassStep, ListForBackfill, BackfillTask, BackfillEdit, BackfillDone, Throw, history
<1>2. \A k \in Mounts : k # m => pass'[k] = pass[k]
  BY DEF PassStep, ListForBackfill, BackfillTask, BackfillEdit, BackfillDone, Throw
<1>. QED  BY <1>1, <1>2

\* A mount begins a pass, or finds it done; closing the tab ends them.
LEMMA OtherPasses ==
  ASSUME IInv, [Next]_vars, NEW k \in Mounts,
         ~ \E m \in Mounts : PassStep(m)
  PROVE  \/ pass'[k] = pass[k]
         \/ pass'[k].id = None /\ pass'[k].pc \in {"unborn", "list", "end"}
<1>. pass \in [Mounts -> Pass]  BY DEF IInv, TypeOK
<1>1. CASE Mount
  <2>1. CASE k = layout + 1
    <3>1. pass'[k] = PassAt("end") \/ pass'[k] = PassAt("list")  BY <1>1, <2>1 DEF Mount
    <3>. QED  BY <3>1 DEF PassAt
  <2>2. CASE k # layout + 1  BY <1>1, <2>2 DEF Mount
  <2>. QED  BY <2>1, <2>2
<1>2. CASE Close
  <2>1. pass'[k] = PassAt("end") \/ pass'[k] = PassAt("unborn")  BY <1>2 DEF Close
  <2>. QED  BY <2>1 DEF PassAt
<1>3. CASE ~Mount /\ ~Close
  <2>1. pass' = pass
    BY <1>3 DEF Next, vars, EntryStep, Compose, Remove, Pull, MergeRow, PromoteDraft, SaveDraft,
                FindReferences, RefreshReference, TakeBackup, Restore
  <2>. QED  BY <2>1
<1>. QED  BY <1>1, <1>2, <1>3

-----------------------------------------------------------------------------
(* What a step does to the refresh and to the draft.                       *)

\* The refresh keeps what it held, less a row, or what it finds in the table.
LEMMA RefreshStep ==
  ASSUME IInv, [Next]_vars
  PROVE  \/ refresh' = refresh
         \/ refresh' = Nothing
         \/ \E e \in Entries : refresh' = [refresh EXCEPT ![e] = None]
         \/ \E id \in TaskIds : refresh' = Find({e \in Live(rows) : rows[e] = id})
<1>1. ASSUME NEW m \in Mounts, PassStep(m) PROVE refresh' = refresh  BY <1>1, OnlyPass
<1>2. ASSUME NEW e \in Entries, EntryStep(e) PROVE refresh' = refresh
  BY <1>2 DEF EntryStep, Compose, Remove, Pull, MergeRow
<1>3. CASE RefreshReference  BY <1>3 DEF RefreshReference, Left
<1>. QED  BY <1>1, <1>2, <1>3 DEF Next, vars, Mount, PromoteDraft, SaveDraft, FindReferences,
       TakeBackup, Restore, Close

\* The same of the draft.
LEMMA DraftStep ==
  ASSUME IInv, [Next]_vars
  PROVE  \/ draft' = draft
         \/ draft' = NoDraft
         \/ \E e \in Entries : Compose(e)
         \/ PromoteDraft
<1>1. ASSUME NEW m \in Mounts, PassStep(m) PROVE draft' = draft  BY <1>1, OnlyPass
<1>2. ASSUME NEW e \in Entries, EntryStep(e) PROVE draft' = draft \/ Compose(e)
  BY <1>2 DEF EntryStep, Remove, Pull, MergeRow
<1>. QED  BY <1>1, <1>2 DEF Next, vars, Mount, SaveDraft, FindReferences, RefreshReference,
       TakeBackup, Restore, Close

\* Composing takes its line from the row, or from the reader.
LEMMA Composed ==
  ASSUME TypeOK, NEW e \in Entries, Compose(e)
  PROVE  \E line \in Lines, send \in BOOLEAN, step \in {"open", "save"} :
           /\ draft' = [step |-> step, send |-> send, of |-> e, line |-> line]
           /\ line \notin TaskIds \/ (rows[e] \in Lines /\ line = rows[e])
<1>1. "none" \in Lines \ TaskIds /\ "bare" \in Lines \ TaskIds
  BY PassesAssumption DEF Lines
<1>2. CASE rows[e] \in Lines  BY <1>1, <1>2, SpecialRows DEF Compose
<1>3. CASE rows[e] \notin Lines  BY <1>1, <1>3 DEF Compose, Live
<1>. QED  BY <1>2, <1>3

-----------------------------------------------------------------------------
(* ReferencesKnown.                                                        *)

\* A Task that is upserted stays, or a Restore is known to have taken it.
LEMMA KnownGrows ==
  ASSUME IInv, [Next]_vars
  PROVE  /\ \A id \in lost : id \in lost'
         /\ \A id \in TaskIds : tasks[id] # None => tasks'[id] # None \/ id \in lost'
         /\ backup' = backup \/ TakeBackup
<1>. TypeOK /\ None \notin Entries  BY PassesAssumption DEF IInv
<1>1. ASSUME NEW m \in Mounts, PassStep(m)
      PROVE  /\ lost' = lost /\ backup' = backup
             /\ \A id \in TaskIds : tasks[id] # None => tasks'[id] # None
  <2>1. lost' = lost /\ backup' = backup  BY <1>1, OnlyPass
  <2>2. CASE BackfillTask(m)
    <3>1. PICK id \in TaskIds, e \in Entries : MintTask(e, id)  BY <2>2, BackfillEffects
    <3>. QED  BY <2>1, <3>1 DEF MintTask, TypeOK
  <2>3. CASE ~BackfillTask(m)
    <3>1. tasks' = tasks
      BY <1>1, <2>3 DEF PassStep, ListForBackfill, BackfillEdit, BackfillDone, Throw, store
    <3>. QED  BY <2>1, <3>1
  <2>. QED  BY <2>2, <2>3
<1>2. ASSUME NEW e \in Entries, EntryStep(e)
      PROVE  lost' = lost /\ backup' = backup /\ tasks' = tasks
  BY <1>2 DEF EntryStep, Compose, Remove, Pull, MergeRow, store
<1>3. ASSUME PromoteDraft
      PROVE  /\ lost' = lost /\ backup' = backup
             /\ \A id \in TaskIds : tasks[id] # None => tasks'[id] # None
  <2>1. lost' = lost /\ backup' = backup  BY <1>3 DEF PromoteDraft, history
  <2>2. draft.of # None  BY <1>3 DEF PromoteDraft, TypeOK, Draft
  <2>3. tasks' = tasks \/ \E id \in TaskIds : tasks' = [tasks EXCEPT ![id] = draft.of]
    BY <1>3 DEF PromoteDraft, MintTask
  <2>. QED  BY <2>1, <2>2, <2>3 DEF TypeOK
<1>4. CASE Restore  BY <1>4 DEF Restore, TypeOK
<1>5. CASE TakeBackup  BY <1>5 DEF TakeBackup, store, history
<1>6. CASE \/ Mount \/ SaveDraft \/ RefreshReference \/ Close \/ UNCHANGED vars
           \/ \E id \in TaskIds : FindReferences(id)
  BY <1>6 DEF vars, Mount, SaveDraft, FindReferences, RefreshReference, Close, store, history
<1>. QED  BY <1>1, <1>2, <1>3, <1>4, <1>5, <1>6 DEF Next

LEMMA KnownStays ==
  ASSUME IInv, [Next]_vars, NEW line, Known(line)
  PROVE  Known(line)'
BY KnownGrows DEF Known

LEMMA KnownFind ==
  ASSUME IInv, NEW es \in SUBSET Live(rows)
  PROVE  KnownTable(Find(es))
BY FindType, SpecialRows DEF KnownTable, IInv, TypeOK, ReferencesKnown

LEMMA KnownNothing == KnownTable(Nothing)
BY SpecialRows DEF KnownTable, Nothing

\* An edit with a known line keeps the table's lines known.
LEMMA KnownEdit ==
  ASSUME IInv, [Next]_vars,
         NEW e \in Entries, NEW line \in Lines, Known(line),
         EditRow(e, line)
  PROVE  KnownTable(rows)'
<1>1. rows \in Table /\ KnownTable(rows)  BY DEF IInv, TypeOK, ReferencesKnown
<1>2. /\ \A f \in Entries : f # e => rows'[f] = rows[f]
      /\ rows[e] \in Lines => rows'[e] = line
      /\ rows[e] \notin Lines => rows'[e] = rows[e]
  BY <1>1, EditType
<1>3. Known(line)'  BY KnownStays
<1>4. ASSUME NEW f \in Entries, rows'[f] \in Lines, f # e PROVE Known(rows[f])'
  <2>1. rows'[f] = rows[f] /\ Known(rows[f])  BY <1>1, <1>2, <1>4 DEF KnownTable
  <2>. QED  BY <2>1, KnownGrows DEF Known
<1>5. ASSUME rows'[e] \in Lines PROVE Known(rows[e])'
  <2>1. CASE rows[e] \in Lines  BY <1>2, <1>3, <2>1 DEF Known
  <2>2. CASE rows[e] \notin Lines  BY <1>2, <1>5, <2>2
  <2>. QED  BY <2>1, <2>2
<1>. QED  BY <1>4, <1>5 DEF KnownTable

LEMMA KnownRows ==
  ASSUME IInv, [Next]_vars
  PROVE  KnownTable(rows)'
<1>. /\ rows \in Table /\ KnownTable(rows) /\ pass \in [Mounts -> Pass]
  BY DEF IInv, TypeOK, ReferencesKnown
<1>1. CASE UNCHANGED rows
  <2>1. ASSUME NEW e \in Entries, rows'[e] \in Lines PROVE Known(rows[e])'
    <3>1. rows'[e] = rows[e] /\ Known(rows[e])  BY <1>1, <2>1 DEF KnownTable
    <3>. QED  BY <3>1, KnownGrows DEF Known
  <2>. QED  BY <2>1 DEF KnownTable
<1>2. ASSUME NEW m \in Mounts, PassStep(m) PROVE KnownTable(rows)'
  <2>. /\ pass[m].found \in Found /\ Known(pass[m].id)
    BY DEF Pass, IInv, ReferencesKnown
  <2>1. CASE BackfillEdit(m)
    <3>1. PICK e \in Left(pass[m].found) : EditRow(e, pass[m].id)
      BY <2>1 DEF BackfillEdit
    <3>2. e \in Entries /\ pass[m].found[e] \in Lines  BY LeftIsLine
    <3>3. pass[m].id \in Lines
      BY <2>1 DEF BackfillEdit, IInv, ScansComplete, Pass, Lines
    <3>. QED  BY <3>1, <3>2, <3>3, KnownEdit
  <2>2. CASE ~BackfillEdit(m)
    <3>1. rows' = rows
      BY <1>2, <2>2 DEF PassStep, ListForBackfill, BackfillTask, BackfillDone, Throw, store
    <3>. QED  BY <1>1, <3>1
  <2>. QED  BY <2>1, <2>2
<1>3. ASSUME NEW e \in Entries, EntryStep(e) PROVE KnownTable(rows)'
  <2>1. CASE UNCHANGED rows  BY <1>1, <2>1
  <2>2. CASE rows' = [rows EXCEPT ![e] = Gone]
    <3>1. \A f \in Entries : rows'[f] \in Lines => rows'[f] = rows[f] /\ Known(rows[f])
      BY <2>2, SpecialRows DEF KnownTable, Table
    <3>2. \A f \in Entries : rows'[f] \in Lines => Known(rows[f])'
      BY <3>1, KnownGrows DEF Known
    <3>. QED  BY <3>2 DEF KnownTable
  <2>3. ASSUME NEW row \in Foreign, rows' = [rows EXCEPT ![e] = row]
        PROVE  KnownTable(rows)'
    <3>1. row \notin TaskIds  BY ForeignRows
    <3>2. \A f \in Entries : f # e => rows'[f] = rows[f]  BY <2>3 DEF Table
    <3>3. rows'[e] = row  BY <2>3 DEF Table
    <3>4. \A f \in Entries : f # e /\ rows'[f] \in Lines => Known(rows[f])
      BY <3>2 DEF KnownTable
    <3>5. \A f \in Entries : f # e /\ rows'[f] \in Lines => Known(rows[f])'
      BY <3>2, <3>4, KnownGrows DEF Known
    <3>6. Known(rows[e])'  BY <3>1, <3>3 DEF Known
    <3>. QED  BY <3>5, <3>6 DEF KnownTable
  <2>4. \/ rows' = rows \/ rows' = [rows EXCEPT ![e] = Gone]
        \/ \E row \in Foreign : rows' = [rows EXCEPT ![e] = row]
    BY <1>3 DEF EntryStep, Compose, Remove, Pull, MergeRow, store
  <2>. QED  BY <2>1, <2>2, <2>3, <2>4
<1>4. CASE SaveDraft
  <2>1. draft \in Draft /\ Known(draft.line)
    BY <1>4 DEF SaveDraft, IInv, TypeOK, ReferencesKnown
  <2>2. draft.of \in Entries /\ draft.line \in Lines  BY <2>1 DEF Draft
  <2>3. CASE draft.send
    <3>1. rows'[draft.of] = draft.line /\ \A f \in Entries : f # draft.of => rows'[f] = rows[f]
      BY <1>4, <2>2, <2>3 DEF SaveDraft, Table
    <3>2. \A f \in Entries : f # draft.of /\ rows'[f] \in Lines => Known(rows[f])'
      BY <3>1, KnownGrows DEF Known, KnownTable
    <3>3. ASSUME NEW f \in Entries, rows'[f] \in Lines PROVE Known(rows[f])'
      <4>1. CASE f = draft.of  BY <3>1, <2>1, <4>1, KnownGrows DEF Known
      <4>. QED  BY <3>2, <3>3, <4>1
    <3>. QED  BY <3>3 DEF KnownTable
  <2>4. CASE ~draft.send  BY <1>4, <2>1, <2>2, <2>4, KnownEdit DEF SaveDraft
  <2>. QED  BY <2>3, <2>4
<1>5. CASE RefreshReference
  <2>1. PICK e \in Left(refresh) : EditRow(e, refresh[e])
    BY <1>5 DEF RefreshReference
  <2>2. refresh \in Found /\ KnownTable(refresh)  BY DEF IInv, TypeOK, ReferencesKnown
  <2>3. e \in Entries /\ refresh[e] \in Lines  BY <2>2, LeftIsLine
  <2>4. refresh[e] \in Lines /\ Known(refresh[e])
    BY <2>2, <2>3 DEF KnownTable
  <2>. QED  BY <2>1, <2>3, <2>4, KnownEdit
<1>6. CASE Restore
  <2>1. \A e \in Entries : \A id \in TaskIds :
          backup.rows[e] \in Lines /\ backup.rows[e] = id => backup.tasks[id] # None \/ id \in lost
    BY DEF IInv, ReferencesKnown
  <2>2. rows' = backup.rows /\ tasks' = backup.tasks  BY <1>6 DEF Restore
  <2>. QED  BY <2>1, <2>2, KnownGrows DEF KnownTable, Known
<1>7. CASE Mount \/ PromoteDraft \/ (\E id \in TaskIds : FindReferences(id)) \/ TakeBackup \/ Close
  <2>1. rows' = rows
    BY <1>7 DEF Mount, PromoteDraft, FindReferences, TakeBackup, Close, store
  <2>. QED  BY <1>1, <2>1
<1>8. UNCHANGED vars => rows' = rows  BY DEF vars
<1>. QED  BY <1>1, <1>2, <1>3, <1>4, <1>5, <1>6, <1>7, <1>8 DEF Next

\* The lines of t are known after the step.
KnownNext(t) ==
  \A e \in Entries :
    t[e] \in Lines /\ t[e] \in TaskIds => tasks'[t[e]] # None \/ t[e] \in lost'

LEMMA TableStays ==
  ASSUME IInv, [Next]_vars, NEW t, KnownTable(t)
  PROVE  KnownNext(t)
BY KnownGrows DEF KnownTable, Known, KnownNext

LEMMA KnownRefresh ==
  ASSUME IInv, [Next]_vars
  PROVE  KnownTable(refresh)'
<1>1. KnownTable(refresh) /\ refresh \in Found  BY DEF IInv, ReferencesKnown, TypeOK
<1>2. \A id \in TaskIds : KnownTable(Find({e \in Live(rows) : rows[e] = id}))
  BY KnownFind
<1>3. KnownTable(Nothing)  BY KnownNothing
<1>4. \A e \in Entries : KnownTable([refresh EXCEPT ![e] = None])
  BY <1>1, SpecialRows DEF KnownTable, Found
<1>5. KnownTable(refresh) /\ KnownNext(refresh')
  <2>1. KnownNext(refresh)  BY <1>1, TableStays
  <2>2. KnownNext(Nothing)  BY <1>3, TableStays
  <2>3. \A e \in Entries : KnownNext([refresh EXCEPT ![e] = None])  BY <1>4, TableStays
  <2>4. \A id \in TaskIds : KnownNext(Find({e \in Live(rows) : rows[e] = id}))
    BY <1>2, TableStays
  <2>. QED  BY <1>1, <2>1, <2>2, <2>3, <2>4, RefreshStep
<1>. QED  BY <1>5 DEF KnownNext, KnownTable, Known

LEMMA KnownIds ==
  ASSUME IInv, [Next]_vars, NEW k \in Mounts
  PROVE  Known(pass[k].id)'
<1>. None \notin TaskIds /\ None \notin Entries  BY PassesAssumption
<1>1. CASE pass'[k].id = None  BY <1>1 DEF Known
<1>2. CASE pass'[k].id = pass[k].id
  <2>1. Known(pass[k].id)  BY DEF IInv, ReferencesKnown
  <2>. QED  BY <1>2, <2>1, KnownGrows DEF Known
<1>3. CASE BackfillTask(k)
  <2>1. PICK id \in TaskIds, e \in Entries : pass'[k].id = id /\ MintTask(e, id)
    BY <1>3, BackfillEffects
  <2>2. tasks'[id] = e  BY <2>1 DEF MintTask, IInv, TypeOK
  <2>. QED  BY <2>1, <2>2 DEF Known
<1>4. CASE ~ \E m \in Mounts : PassStep(m)  BY <1>1, <1>2, <1>4, OtherPasses
<1>5. ASSUME NEW m \in Mounts, PassStep(m), m # k PROVE pass'[k].id = pass[k].id
  BY <1>5, OnlyPass
<1>6. ASSUME PassStep(k), ~BackfillTask(k) PROVE pass'[k].id = None \/ pass'[k].id = pass[k].id
  BY <1>6, BackfillEffects, ThrowEffects DEF PassStep
<1>. QED  BY <1>1, <1>2, <1>3, <1>4, <1>5, <1>6

LEMMA KnownDraft ==
  ASSUME IInv, [Next]_vars
  PROVE  (draft # NoDraft => Known(draft.line))'
<1>. TypeOK /\ None \notin Entries  BY PassesAssumption DEF IInv
<1>1. CASE draft' = draft
  <2>1. draft # NoDraft => Known(draft.line)  BY DEF IInv, ReferencesKnown
  <2>. QED  BY <1>1, <2>1, KnownGrows DEF Known, NoDraft
<1>2. CASE draft' = NoDraft  BY <1>2 DEF NoDraft
<1>3. ASSUME NEW e \in Entries, Compose(e) PROVE Known(draft.line)'
  <2>1. PICK line \in Lines :
          /\ draft'.line = line
          /\ line \notin TaskIds \/ (rows[e] \in Lines /\ line = rows[e])
    BY <1>3, Composed
  <2>2. KnownTable(rows)  BY DEF IInv, ReferencesKnown
  <2>3. Known(line)  BY <2>1, <2>2 DEF KnownTable, Known
  <2>. QED  BY <2>1, <2>3, KnownGrows DEF Known
<1>4. ASSUME PromoteDraft PROVE Known(draft.line)'
  <2>1. draft \in Draft /\ draft # NoDraft /\ Known(draft.line)
    BY <1>4 DEF PromoteDraft, TypeOK, IInv, ReferencesKnown
  <2>2. CASE draft.line = "bare"
    <3>1. PICK id \in TaskIds :
            MintTask(draft.of, id) /\ draft' = [draft EXCEPT !.step = "save", !.line = id]
      BY <1>4, <2>2 DEF PromoteDraft
    <3>2. draft.of # None /\ draft'.line = id  BY <2>1, <3>1 DEF Draft
    <3>3. tasks'[id] = draft.of  BY <3>1 DEF MintTask, TypeOK
    <3>. QED  BY <3>2, <3>3 DEF Known
  <2>3. CASE draft.line # "bare"
    <3>1. draft'.line = draft.line  BY <1>4, <2>1, <2>3 DEF PromoteDraft, Draft
    <3>. QED  BY <2>1, <3>1, KnownGrows DEF Known
  <2>. QED  BY <2>2, <2>3
<1>. QED  BY <1>1, <1>2, <1>3, <1>4, DraftStep

LEMMA KnownBackup ==
  ASSUME IInv, [Next]_vars, NEW e \in Entries, NEW id \in TaskIds,
         backup'.rows[e] = id
  PROVE  backup'.tasks[id] # None \/ id \in lost'
<1>1. CASE backup' = backup
  <2>1. backup.tasks[id] # None \/ id \in lost  BY <1>1 DEF IInv, ReferencesKnown
  <2>. QED  BY <1>1, <2>1, KnownGrows
<1>2. CASE TakeBackup
  <2>1. backup'.rows = rows /\ backup'.tasks = tasks  BY <1>2 DEF TakeBackup
  <2>2. Known(rows[e]) /\ rows[e] = id
    BY <2>1 DEF IInv, ReferencesKnown, KnownTable, Lines
  <2>. QED  BY <2>1, <2>2, KnownGrows DEF Known
<1>. QED  BY <1>1, <1>2, KnownGrows

LEMMA KnownStep == IInv /\ [Next]_vars => ReferencesKnown'
BY KnownRows, KnownRefresh, KnownIds, KnownDraft, KnownBackup DEF ReferencesKnown

-----------------------------------------------------------------------------
(* ScansComplete.                                                          *)

\* An edit leaves no bare line unless it writes one.
LEMMA BareEdit ==
  ASSUME rows \in Table,
         NEW e \in Entries, NEW line \in Lines, EditRow(e, line)
  PROVE  /\ \A f \in Entries : f # e /\ Bare(f)' => Bare(f)
         /\ line # "bare" => ~Bare(e)'
<1>1. /\ \A f \in Entries : f # e => rows'[f] = rows[f]
      /\ rows[e] \in Lines => rows'[e] = line
      /\ rows[e] \notin Lines => rows'[e] \notin Lines
  BY EditType
<1>. QED  BY <1>1 DEF Bare, Live

\* Nothing brings a bare line back to an Entry that only passes have written.
LEMMA NoneBack ==
  ASSUME IInv, [Next]_vars
  PROVE  \A e \in untouched' : e \in untouched /\ (Bare(e)' => Bare(e))
<1>. /\ TypeOK /\ ScansComplete /\ rows \in Table /\ pass \in [Mounts -> Pass]
     /\ untouched \subseteq Entries /\ "bare" \notin TaskIds
  BY PassesAssumption DEF IInv, TypeOK
<1>1. ASSUME rows' = rows, untouched' = untouched
      PROVE  \A e \in untouched' : e \in untouched /\ (Bare(e)' => Bare(e))
  BY <1>1 DEF Bare, Live
<1>2. ASSUME NEW m \in Mounts, PassStep(m)
      PROVE  \A e \in untouched' : e \in untouched /\ (Bare(e)' => Bare(e))
  <2>. /\ pass[m].found \in Found /\ untouched' = untouched
    BY <1>2, OnlyPass DEF Pass
  <2>1. CASE BackfillEdit(m)
    <3>1. PICK e \in Left(pass[m].found) : EditRow(e, pass[m].id)
      BY <2>1 DEF BackfillEdit
    <3>2. e \in Entries /\ pass[m].found[e] \in Lines  BY LeftIsLine
    <3>3. pass[m].id \in TaskIds  BY <2>1 DEF BackfillEdit, ScansComplete, Pass
    <3>4. pass[m].id \in Lines /\ pass[m].id # "bare"
      BY <3>2, <3>3 DEF Lines
    <3>. QED  BY <3>1, <3>2, <3>4, BareEdit
  <2>2. CASE ~BackfillEdit(m)
    <3>1. rows' = rows
      BY <1>2, <2>2 DEF PassStep, ListForBackfill, BackfillTask, BackfillDone, Throw, store
    <3>. QED  BY <1>1, <3>1
  <2>. QED  BY <2>1, <2>2
<1>3. ASSUME NEW e \in Entries, EntryStep(e)
      PROVE  \A f \in untouched' : f \in untouched /\ (Bare(f)' => Bare(f))
  <2>1. untouched' = untouched \ {e}
    BY <1>3 DEF EntryStep, Compose, Remove, Pull, MergeRow, Writes
  <2>2. \A f \in Entries : f # e => rows'[f] = rows[f]
    BY <1>3 DEF EntryStep, Compose, Remove, Pull, MergeRow, store, Table
  <2>. QED  BY <2>1, <2>2 DEF Bare, Live
<1>4. CASE SaveDraft
  <2>1. draft \in Draft /\ draft.of \notin untouched
    BY <1>4 DEF SaveDraft, TypeOK, ScansComplete
  <2>2. draft.of \in Entries /\ draft.line \in Lines  BY <2>1 DEF Draft
  <2>3. untouched' = untouched  BY <1>4 DEF SaveDraft, history
  <2>4. CASE draft.send
    <3>1. \A f \in Entries : f # draft.of => rows'[f] = rows[f]
      BY <1>4, <2>4 DEF SaveDraft, Table
    <3>. QED  BY <2>1, <2>3, <3>1 DEF Bare, Live
  <2>5. CASE ~draft.send
    <3>1. EditRow(draft.of, draft.line)  BY <1>4, <2>5 DEF SaveDraft
    <3>. QED  BY <2>1, <2>2, <2>3, <3>1, BareEdit
  <2>. QED  BY <2>4, <2>5
<1>5. CASE RefreshReference
  <2>1. PICK e \in Left(refresh) : EditRow(e, refresh[e])
    BY <1>5 DEF RefreshReference
  <2>2. refresh \in Found /\ untouched' = untouched
    BY <1>5 DEF TypeOK, RefreshReference, history
  <2>3. e \in Entries /\ refresh[e] \in Lines /\ refresh[e] \in TaskIds
    BY <2>2, LeftIsLine DEF ScansComplete
  <2>. QED  BY <2>1, <2>2, <2>3, PassesAssumption, BareEdit
<1>6. CASE Restore  BY <1>6 DEF Restore
<1>7. CASE \/ Mount \/ PromoteDraft \/ (\E id \in TaskIds : FindReferences(id)) \/ TakeBackup
           \/ Close \/ UNCHANGED vars
  <2>1. rows' = rows /\ untouched' = untouched
    BY <1>7 DEF Mount, PromoteDraft, FindReferences, TakeBackup, Close, vars, store, history
  <2>. QED  BY <1>1, <2>1
<1>. QED  BY <1>2, <1>3, <1>4, <1>5, <1>6, <1>7 DEF Next

\* What a pass has left covers the bare lines.
PassComplete(p) ==
  /\ p.pc \in {"fill", "edit"} => \A e \in untouched : Bare(e) => p.found[e] # None
  /\ p.pc = "edit" => p.id # None

LEMMA PassStays ==
  ASSUME IInv, [Next]_vars, NEW k \in Mounts, pass'[k] = pass[k]
  PROVE  PassComplete(pass[k])'
<1>1. PassComplete(pass[k])  BY DEF IInv, ScansComplete, PassComplete
<1>2. \A e \in untouched' : e \in untouched /\ (Bare(e)' => Bare(e))  BY NoneBack
<1>. QED  BY <1>1, <1>2 DEF PassComplete, Left

LEMMA PassWorks ==
  ASSUME IInv, NEW m \in Mounts, PassStep(m)
  PROVE  PassComplete(pass[m])'
<1>. /\ TypeOK /\ rows \in Table /\ pass[m] \in Pass /\ pass[m].found \in Found
     /\ untouched \subseteq Entries /\ None \notin TaskIds /\ PassComplete(pass[m])
  BY PassesAssumption DEF IInv, TypeOK, Pass, ScansComplete, PassComplete
<1>. \A e \in untouched' : e \in untouched /\ (Bare(e)' => Bare(e))
  BY NoneBack DEF Next
<1>. Nothing \in Found /\ \A e \in Entries : Nothing[e] = None  BY DEF Nothing, Found
<1>1. CASE ListForBackfill(m)
  <2>. DEFINE es == {e \in Live(rows) : rows[e] = "bare"}
  <2>1. pass'[m].pc = "fill" /\ pass'[m].found = Find(es)  BY <1>1, BackfillEffects
  <2>2. \A e \in Entries : Bare(e) => Find(es)[e] # None
    BY FindType, SpecialRows DEF Bare, Live
  <2>. QED  BY <2>1, <2>2 DEF PassComplete
<1>2. CASE BackfillTask(m)
  <2>1. pass'[m].pc = "edit" /\ pass'[m].id \in TaskIds /\ pass'[m].found = pass[m].found
    BY <1>2, BackfillEffects
  <2>2. pass[m].pc = "fill"  BY <1>2 DEF BackfillTask
  <2>. QED  BY <2>1, <2>2 DEF PassComplete
<1>3. CASE BackfillEdit(m)
  <2>1. PICK e \in Left(pass[m].found) :
          /\ EditRow(e, pass[m].id)
          /\ pass'[m].pc = "fill" /\ pass'[m].found = [pass[m].found EXCEPT ![e] = None]
    BY <1>3, BackfillEffects
  <2>2. e \in Entries /\ pass[m].found[e] \in Lines  BY LeftIsLine
  <2>3. pass[m].pc = "edit"  BY <1>3 DEF BackfillEdit
  <2>4. pass[m].id \in Lines /\ pass[m].id # "bare"
    BY <2>2, <2>3, PassesAssumption DEF PassComplete, Pass, Lines
  <2>5. ~Bare(e)'  BY <2>1, <2>2, <2>4, BareEdit
  <2>6. \A f \in Entries : f # e => pass'[m].found[f] = pass[m].found[f]
    BY <2>1 DEF Found
  <2>. QED  BY <2>1, <2>3, <2>5, <2>6 DEF PassComplete
<1>4. CASE BackfillDone(m)
  <2>1. pass'[m].pc = "end"  BY <1>4, BackfillEffects
  <2>. QED  BY <2>1 DEF PassComplete
<1>5. CASE Throw(m)
  <2>1. pass'[m].pc = "end"  BY <1>5, ThrowEffects
  <2>. QED  BY <2>1 DEF PassComplete
<1>. QED  BY <1>1, <1>2, <1>3, <1>4, <1>5 DEF PassStep

LEMMA FlagStep ==
  ASSUME IInv, [Next]_vars, backfilled'
  PROVE  \A e \in untouched' : ~Bare(e)'
<1>1. \A e \in untouched' : e \in untouched /\ (Bare(e)' => Bare(e))  BY NoneBack
<1>2. CASE backfilled  BY <1>1, <1>2 DEF IInv, ScansComplete
<1>3. ASSUME NEW m \in Mounts, BackfillDone(m) PROVE \A e \in untouched : ~Bare(e)
  <2>1. pass[m].pc = "fill" /\ pass[m].found = Nothing  BY <1>3 DEF BackfillDone
  <2>2. untouched \subseteq Entries  BY DEF IInv, TypeOK
  <2>. QED  BY <2>1, <2>2 DEF IInv, ScansComplete, Nothing
<1>4. ASSUME NEW m \in Mounts, PassStep(m), ~BackfillDone(m) PROVE backfilled' = backfilled
  BY <1>4 DEF PassStep, ListForBackfill, BackfillTask, BackfillEdit, Throw
<1>5. ASSUME NEW e \in Entries, EntryStep(e) PROVE backfilled' = backfilled
  BY <1>5 DEF EntryStep, Compose, Remove, Pull, MergeRow
<1>6. CASE \/ Mount \/ PromoteDraft \/ SaveDraft \/ (\E id \in TaskIds : FindReferences(id))
           \/ RefreshReference \/ TakeBackup \/ Close \/ UNCHANGED vars
  <2>1. backfilled' = backfilled
    BY <1>6 DEF Mount, PromoteDraft, SaveDraft, FindReferences, RefreshReference, TakeBackup,
                Close, vars
  <2>. QED  BY <1>2, <2>1
<1>7. CASE Restore  BY <1>7 DEF Restore
<1>. QED  BY <1>1, <1>2, <1>3, <1>4, <1>5, <1>6, <1>7 DEF Next

LEMMA ScansStep == IInv /\ [Next]_vars => ScansComplete'
<1>. SUFFICES ASSUME IInv, [Next]_vars PROVE ScansComplete'  OBVIOUS
<1>0. \A e \in untouched' : e \in untouched /\ (Bare(e)' => Bare(e))  BY NoneBack
<1>1. (backfilled => \A e \in untouched : ~Bare(e))'  BY FlagStep
<1>2. ASSUME NEW k \in Mounts PROVE PassComplete(pass[k])'
  <2>1. CASE ~ \E m \in Mounts : PassStep(m)
    <3>1. CASE pass'[k] = pass[k]  BY <3>1, PassStays
    <3>2. CASE pass'[k].pc \in {"unborn", "list", "end"}  BY <3>2 DEF PassComplete
    <3>. QED  BY <2>1, <3>1, <3>2, OtherPasses
  <2>2. ASSUME NEW m \in Mounts, PassStep(m), m # k PROVE PassComplete(pass[k])'
    <3>1. pass'[k] = pass[k]  BY <2>2, OnlyPass
    <3>. QED  BY <3>1, PassStays
  <2>3. CASE PassStep(k)  BY <2>3, PassWorks
  <2>. QED  BY <2>1, <2>2, <2>3
<1>3. (\A e \in Left(refresh) : refresh[e] \in TaskIds)'
  <2>1. \A e \in Left(refresh) : refresh[e] \in TaskIds  BY DEF IInv, ScansComplete
  <2>2. refresh \in Found /\ rows \in Table  BY DEF IInv, TypeOK
  <2>3. CASE refresh' = refresh  BY <2>1, <2>3 DEF Left
  <2>4. CASE refresh' = Nothing  BY <2>4 DEF Left, Nothing
  <2>5. CASE \E e \in Entries : refresh' = [refresh EXCEPT ![e] = None]
    BY <2>1, <2>2, <2>5 DEF Left, Found
  <2>6. ASSUME NEW id \in TaskIds, refresh' = Find({e \in Live(rows) : rows[e] = id})
        PROVE  \A e \in Left(refresh') : refresh'[e] \in TaskIds
    BY <2>2, <2>6, FindType DEF Live
  <2>. QED  BY <2>3, <2>4, <2>5, <2>6, RefreshStep DEF Left
<1>4. (draft # NoDraft => draft.of \notin untouched)'
  <2>1. draft # NoDraft => draft.of \notin untouched  BY DEF IInv, ScansComplete
  <2>2. CASE draft' = draft  BY <1>0, <2>1, <2>2 DEF NoDraft
  <2>3. CASE draft' = NoDraft  BY <2>3 DEF NoDraft
  <2>4. ASSUME NEW e \in Entries, Compose(e) PROVE draft'.of \notin untouched'
    <3>1. draft'.of = e  BY <2>4, Composed DEF IInv
    <3>2. untouched' = untouched \ {e}  BY <2>4 DEF Compose, Writes
    <3>. QED  BY <3>1, <3>2
  <2>5. ASSUME PromoteDraft PROVE draft'.of \notin untouched'
    <3>1. draft \in Draft /\ draft # NoDraft  BY <2>5 DEF PromoteDraft, IInv, TypeOK
    <3>2. draft'.of = draft.of  BY <2>5, <3>1 DEF PromoteDraft, Draft
    <3>. QED  BY <1>0, <2>1, <3>1, <3>2
  <2>. QED  BY <2>2, <2>3, <2>4, <2>5, DraftStep
<1>. QED  BY <1>1, <1>2, <1>3, <1>4 DEF ScansComplete, PassComplete

-----------------------------------------------------------------------------
(* The invariant, and what follows.                                        *)

LEMMA InitInv == Init => IInv
<1>. SUFFICES ASSUME Init PROVE IInv  OBVIOUS
<1>. USE DEF Init
<1>0. /\ 0 \in 0 .. MaxMounts /\ 0 \in Nat /\ None \notin TaskIds
      /\ {"none", "bare"} \subseteq Lines \ TaskIds
  BY PassesAssumption DEF Lines
<1>3. \A e \in Entries : rows[e] # None => rows[e] \in Lines \ TaskIds  BY <1>0
<1>4. rows \in Table  BY <1>0 DEF Table
<1>5. PassAt("unborn") \in Pass /\ Nothing \in Found
      /\ PassAt("unborn").found = Nothing /\ PassAt("unborn").id = None
      /\ PassAt("unborn").pc = "unborn"
  BY DEF PassAt, Pass, Pcs, Nothing, Found
<1>6. \A m \in Mounts : pass[m] = PassAt("unborn")  OBVIOUS
<1>7. backup.rows = rows /\ backup.tasks = tasks  OBVIOUS
<1>8. TypeOK
  <2>1. pass \in [Mounts -> Pass]  BY <1>5
  <2>2. count \in [mishaps : Nat, writes : Nat, restores : Nat]  BY <1>0
  <2>3. tasks \in [TaskIds -> Entries \cup {None}]  OBVIOUS
  <2>4. backup \in [rows : Table, tasks : [TaskIds -> Entries \cup {None}], flag : BOOLEAN]
    BY <1>4, <2>3
  <2>5. untouched \in SUBSET Entries  BY DEF Live
  <2>. QED  BY <1>0, <1>4, <1>5, <2>1, <2>2, <2>3, <2>4, <2>5 DEF TypeOK
<1>10. ReferencesKnown
  <2>1. KnownTable(rows)  BY <1>3, SpecialRows DEF KnownTable, Known
  <2>2. KnownTable(Nothing)  BY KnownNothing
  <2>3. Known(None)  BY <1>0 DEF Known
  <2>4. \A e \in Entries : \A id \in TaskIds : rows[e] # id  BY <1>0, <1>3
  <2>. QED  BY <1>5, <1>6, <1>7, <2>1, <2>2, <2>3, <2>4 DEF ReferencesKnown, NoDraft
<1>11. ScansComplete
  <2>1. Left(Nothing) = {}  BY DEF Left, Nothing
  <2>. QED  BY <1>5, <1>6, <2>1 DEF ScansComplete, NoDraft
<1>. QED  BY <1>8, <1>10, <1>11 DEF IInv

\* The inductive invariant of the passes.
THEOREM Invariance == Spec => []IInv
<1>1. IInv /\ [Next]_vars => IInv'
  BY TypeStep, KnownStep, ScansStep DEF IInv
<1>. QED  BY InitInv, <1>1, PTL DEF Spec

\* Every variable stays in its type.
THEOREM TypeCorrect == Spec => []TypeOK
<1>1. IInv => TypeOK  BY DEF IInv
<1>. QED  BY Invariance, <1>1, PTL

\* backfill-tasks.ts: a Reference is never without its Task, unless a Restore
\* took it.
THEOREM ReferencesResolve == Spec => []ReferencesHaveTasks
<1>1. IInv => ReferencesHaveTasks
  BY DEF IInv, ReferencesKnown, KnownTable, Known, Live, ReferencesHaveTasks
<1>. QED  BY Invariance, <1>1, PTL

\* ADR 0053: the flag tells the truth of every Entry left to the passes.
THEOREM Promoted == Spec => []CheckboxesPromoted
<1>1. IInv => CheckboxesPromoted
  BY DEF IInv, ScansComplete, Bare, CheckboxesPromoted
<1>. QED  BY Invariance, <1>1, PTL

=============================================================================
