------------------------------ MODULE Backups ------------------------------
(***************************************************************************)
(* Backup, Restore and Merge (packages/core/src/backup) while Sync and the *)
(* user go on.  All of them execute their statements one by one on the one *)
(* connection of the app, and nothing pauses Sync: whatever is executed    *)
(* between BEGIN and COMMIT, by anybody, belongs to that transaction.      *)
(*                                                                         *)
(* The web build's connection is meant (SqliteWorkerDriver); the pooled    *)
(* one of macOS has no transactions at all.  The safety Backup that comes  *)
(* first only reads.  The search index is not modelled.                    *)
(***************************************************************************)
EXTENDS SyncStreams

CONSTANTS
  TableOrder,   \* the streams' tables and kv, by name
  Kv,           \* the kv table
  NoFile        \* no Backup has been taken

\* Besides the bounds of SyncStreams: the jobs each Device may still start.
Bound ==
  [devices : SUBSET Devices, online : SUBSET Devices, streams : SUBSET Streams,
   ids : SUBSET Ids, bodies : SUBSET Bodies, shared : BOOLEAN, clock : [Devices -> Nat],
   jobs : [Devices -> SUBSET {"backup", "restore", "merge"}], fails : Nat]

ASSUME BackupsAssumption ==
  /\ Kv \notin Streams
  /\ TableOrder \in Seq(Streams \cup {Kv})
  /\ Range(TableOrder) = Streams \cup {Kv}
  /\ IsInjective(TableOrder)
  /\ NoFile \notin Database
  /\ Bounds \subseteq Bound

VARIABLES
  file,    \* the last Backup taken
  job,     \* what the Data section of each Device's settings is doing
  saved,   \* each Device's database at BEGIN: what ROLLBACK goes back to
  torn     \* history: streams whose Cursor a run may have carried over a
           \* Restore's reset or a ROLLBACK

backupVars == <<file, job, saved, torn>>
vars == <<syncVars, backupVars>>

\* todo: tables to read (op "read", by name) and statements.  open: between
\* BEGIN and COMMIT.  copy: what a Backup has read so far, or the file a
\* Restore or Merge was given.  alone: history, nobody else has written since
\* BEGIN.
None == [kind |-> "none", todo |-> <<>>, open |-> FALSE, copy |-> NewDatabase, alone |-> TRUE]

ReadTable(name) == [op |-> "read", name |-> name]

Job == [kind : {"none", "backup", "restore", "merge"},
        todo : Seq(Statements \cup [op : {"read"}, name : Streams \cup {Kv}]),
        open : BOOLEAN, copy : Database, alone : BOOLEAN]

ReadAll == [i \in DOMAIN TableOrder |-> ReadTable(TableOrder[i])]

Init ==
  /\ SyncInit
  /\ file = NoFile
  /\ job = [d \in Devices |-> None]
  /\ saved = store
  /\ torn = [d \in Devices |-> {}]

\* The database a crash would leave behind.
Durable(d) == IF job[d].open THEN saved[d] ELSE store[d]

NextIs(d, op) == job[d].todo # <<>> /\ (Head(job[d].todo).op = "read") = (op = "read")

-----------------------------------------------------------------------------
(* Backup: dumpDatabase, one select per table, outside any transaction.    *)

Start(d, kind, todo, copy) ==
  /\ job[d].kind = "none"
  /\ kind \in bound.jobs[d]
  /\ bound' = [bound EXCEPT !.jobs[d] = @ \ {kind}]
  /\ job' = [job EXCEPT ![d] = [kind |-> kind, todo |-> todo, open |-> kind # "backup",
                               copy |-> copy, alone |-> TRUE]]

StartBackup(d) ==
  /\ Start(d, "backup", ReadAll, NewDatabase)
  /\ UNCHANGED <<rows, store, minted, clock, run, file, saved, torn>>

Dump(d) ==
  /\ job[d].kind = "backup"
  /\ NextIs(d, "read")
  /\ LET name == Head(job[d].todo).name
         db == store[d]
     IN  job' = [job EXCEPT ![d].todo = Tail(@),
           ![d].copy = IF name = Kv THEN [@ EXCEPT !.cursor = db.cursor, !.epoch = db.epoch]
                                    ELSE [@ EXCEPT !.rows[name] = db.rows[name]]]
  /\ UNCHANGED <<syncVars, file, saved, torn>>

FinishBackup(d) ==
  /\ job[d].kind = "backup"
  /\ job[d].todo = <<>>
  /\ file' = job[d].copy
  /\ job' = [job EXCEPT ![d] = None]
  /\ UNCHANGED <<syncVars, saved, torn>>

-----------------------------------------------------------------------------
(* Restore and Merge.                                                      *)

\* Defect: the Cursors reset, the row-shape epochs left as they are.
ResetCursorsOnly == InOrder([s \in Streams |-> <<Key("cursor", s, 0)>>])

\* resetCursorsAndEpochs: an update per key.
ResetAll == InOrder([s \in Streams |-> <<Key("cursor", s, 0), Key("epoch", s, 0)>>])

Begin(d, kind) ==
  /\ file # NoFile
  /\ Start(d, kind, ReadAll \o IF kind = "restore" THEN ResetAll ELSE <<>>, file)
  /\ saved' = [saved EXCEPT ![d] = store[d]]
  /\ UNCHANGED <<rows, store, minted, clock, run, file, torn>>

\* rowContentUnchanged: everything but seq and synced_at; a Merge leaves
\* updated_at out too.
SameRow(old, new) == old # NoRow /\ [old EXCEPT !.seq = 0] = [new EXCEPT !.seq = 0]

SameContent(old, new) == old # NoRow /\ old.body = new.body /\ old.deleted = new.deleted

Writes(s, table, ids) ==
  LET ordered == Seqs!SetToSeq(ids)
  IN  [i \in DOMAIN ordered |-> Rows("write", s, Only(table, {ordered[i]}), EmptyTable)]

\* Defect: a Restore that leaves the rows the file does not name.
RestoreTableKeepsRows(db, backup, s) ==
  Writes(s, backup.rows[s],
         {id \in Held(backup.rows[s]) : ~SameRow(db.rows[s][id], backup.rows[s][id])})

\* restoreTable: the rows of the file as they are, seq included; then every
\* row the file does not name goes.
RestoreTable(db, backup, s) ==
  LET gone == Seqs!SetToSeq(Held(db.rows[s]) \ Held(backup.rows[s]))
  IN  Writes(s, backup.rows[s],
             {id \in Held(backup.rows[s]) : ~SameRow(db.rows[s][id], backup.rows[s][id])})
      \o [i \in DOMAIN gone |-> Rows("delete", s, Only(db.rows[s], {gone[i]}), EmptyTable)]

\* The same for kv, which loses no key and keeps this Device's device_id.
RestoreKv(db, backup) ==
  InOrder([s \in Streams |->
    (IF backup.cursor[s] = db.cursor[s] THEN <<>> ELSE <<Key("cursor", s, backup.cursor[s])>>)
    \o (IF backup.epoch[s] = db.epoch[s] THEN <<>> ELSE <<Key("epoch", s, backup.epoch[s])>>)])

\* Defect: a tombstone of the file is compared by updated_at like any row.
MergesByAge(s, old, new) ==
  \/ old = NoRow
  \/ /\ ~SameContent(old, new)
     /\ s \notin AppendOnly
     /\ ~old.deleted
     /\ new.upd > old.upd

\* mergeTable's six cases: which rows of the file are written.
Merges(s, old, new) ==
  \/ old = NoRow
  \/ /\ ~SameContent(old, new)
     /\ s \notin AppendOnly
     /\ ~old.deleted
     /\ new.deleted \/ new.upd > old.upd

\* writeRow blanks seq, which marks the row pending.
MergeTable(db, backup, s) ==
  LET unsynced == [id \in Ids |-> IF backup.rows[s][id] = NoRow THEN NoRow
                                  ELSE [backup.rows[s][id] EXCEPT !.seq = Pending]]
  IN  Writes(s, unsynced, {id \in Held(unsynced) : Merges(s, db.rows[s][id], unsynced[id])})

\* A table is read whole, and what to do with it is decided from that read.
Plan(d) ==
  /\ job[d].open
  /\ NextIs(d, "read")
  /\ LET name == Head(job[d].todo).name
         db == store[d]
         backup == job[d].copy
         plan == IF job[d].kind = "merge"
                   THEN IF name = Kv THEN <<>> ELSE MergeTable(db, backup, name)
                   ELSE IF name = Kv THEN RestoreKv(db, backup) ELSE RestoreTable(db, backup, name)
     IN  job' = [job EXCEPT ![d].todo = plan \o Tail(@)]
  /\ UNCHANGED <<syncVars, file, saved, torn>>

\* The next statement of the plan.  A run in flight may write a Cursor it read
\* before over what is written to kv here.
JobStatement(d) ==
  /\ job[d].open
  /\ NextIs(d, "write")
  /\ LET w == Head(job[d].todo)
     IN  /\ store' = [store EXCEPT ![d] = Execute(@, w)]
         /\ torn' = [torn EXCEPT ![d] =
              IF w.op = "cursor" /\ run[d].pc # "idle" /\ w.stream \notin Bumped
                THEN @ \cup {w.stream} ELSE @]
  /\ job' = [job EXCEPT ![d].todo = Tail(@)]
  /\ UNCHANGED <<rows, minted, clock, run, bound, file, saved>>

CommitJob(d) ==
  /\ job[d].open
  /\ job[d].todo = <<>>
  /\ job' = [job EXCEPT ![d].open = FALSE]
  /\ UNCHANGED <<syncVars, file, saved, torn>>

\* The page reloads 1.2 s after COMMIT, and whatever runs in it is gone.
Reload(d) ==
  /\ job[d].kind \in {"restore", "merge"}
  /\ ~job[d].open
  /\ run' = [run EXCEPT ![d] = Idle]
  /\ job' = [job EXCEPT ![d] = None]
  /\ UNCHANGED <<rows, store, minted, clock, bound, file, saved, torn>>

\* A statement of the job throws: ROLLBACK, and no reload.  After COMMIT, where
\* the search index is rebuilt, there is nothing to roll back.
FailJob(d) ==
  /\ bound.fails > 0
  /\ bound' = [bound EXCEPT !.fails = @ - 1]
  /\ job[d].kind \in {"restore", "merge"}
  /\ store' = [store EXCEPT ![d] = Durable(d)]
  /\ torn' = [torn EXCEPT ![d] =
       IF job[d].open /\ run[d].pc # "idle" THEN Streams ELSE @]
  /\ job' = [job EXCEPT ![d] = None]
  /\ UNCHANGED <<rows, minted, clock, run, file, saved>>

\* The tab is closed and opened again.
Crash(d) ==
  /\ bound.fails > 0
  /\ bound' = [bound EXCEPT !.fails = @ - 1]
  /\ store' = [store EXCEPT ![d] = Durable(d)]
  /\ run' = [run EXCEPT ![d] = Idle]
  /\ job' = [job EXCEPT ![d] = None]
  /\ UNCHANGED <<rows, minted, clock, file, saved, torn>>

JobStep(d) ==
  \/ Dump(d)
  \/ FinishBackup(d)
  \/ Plan(d)
  \/ JobStatement(d)
  \/ CommitJob(d)
  \/ Reload(d)

-----------------------------------------------------------------------------
\* Sync and the user, who know nothing of the job.
Beside(d, step) ==
  /\ step
  /\ job' = [job EXCEPT ![d].alone = @ /\ store'[d] = store[d]]
  /\ UNCHANGED <<file, saved, torn>>

Next ==
  \E d \in bound.devices :
    \/ Beside(d, SyncNext(d))
    \/ StartBackup(d)
    \/ \E kind \in {"restore", "merge"} : Begin(d, kind)
    \/ JobStep(d)
    \/ FailJob(d)
    \/ Crash(d)

Spec == Init /\ [][Next]_vars

\* The interval tick of Sync, a run's own next statement or answer, a job's own
\* next statement.  Nobody has to write, to start a job or to fail.
Fairness ==
  \A d \in Devices :
    /\ WF_vars(Beside(d, StartSync(d) \/ RunStep(d)))
    /\ WF_vars(JobStep(d))

FairSpec == Spec /\ Fairness

-----------------------------------------------------------------------------
(* Properties                                                              *)

TypeOK ==
  /\ rows \in Tables
  /\ store \in [Devices -> Database]
  /\ minted \subseteq Streams \X Ids
  /\ clock \in [Devices -> Nat]
  /\ run \in [Devices -> Run]
  /\ bound \in Bound
  /\ job \in [Devices -> Job]
  /\ file \in Database \cup {NoFile}
  /\ saved \in [Devices -> Database]
  /\ torn \in [Devices -> SUBSET Streams]

\* Where the next run of sync() will read a stream from.
Position(db, s) == IF s \in Behind(db) THEN 0 ELSE db.cursor[s]

\* The Server's row is there, or a change the Server has yet to see.
Has(db, s, id) ==
  /\ id \in Held(db.rows[s])
  /\ id \in PendingRows(db, s) \/ db.rows[s][id] = rows[s][id]

Covers(db, s) ==
  \A id \in Held(rows[s]) : rows[s][id].seq <= Position(db, s) => Has(db, s, id)

Covered(d, s) == Covers(Durable(d), s)

\* restoreFromBackup and catchUpRowShapeEpoch: whatever a Backup was torn by,
\* whatever Sync wrote while a Restore replaced the tables under it, and
\* wherever the app was closed, the next run of sync() reads every row of the
\* Server this Device lacks.  Resetting the Cursors alone would not do; it is
\* the epochs, reset with them, that undo a Cursor an older run puts back.
CursorsCover == \A d \in Devices : \A s \in Streams \ torn[d] : Covered(d, s)

\* restore.ts: every Cursor and epoch is reset "so the restored state
\* reconciles against the Server honestly".  For Events, whose epoch is 0 in
\* every build, what the code does violates it.
RestoreReconciles == \A d \in Devices : \A s \in Streams : Covered(d, s)

\* restoreTable: a Restore nobody wrote into leaves the rows of the file, every
\* one and no other, whatever this Device held, and the next run of sync()
\* reads every stream from 0.
RestoreIsTheBackup ==
  \A d \in Devices : job[d].kind = "restore" /\ ~job[d].open /\ job[d].alone =>
    \A s \in Streams :
      /\ Held(store[d].rows[s]) = Held(job[d].copy.rows[s])
      /\ \A id \in Held(store[d].rows[s]) : SameRow(store[d].rows[s][id], job[d].copy.rows[s][id])
      /\ Position(store[d], s) = 0

\* What merge.ts promises of a Merge nobody wrote into: no row is lost, a
\* deletion on either side stays a deletion, an older row never replaces a
\* newer one, and what came from the file goes to the Server as a local edit.
MergeLosesNothing ==
  \A d \in Devices : job[d].kind = "merge" /\ ~job[d].open /\ job[d].alone =>
    \A s \in Streams, id \in Ids :
      LET old == saved[d].rows[s][id]
          backup == job[d].copy.rows[s][id]
          new == store[d].rows[s][id]
      IN  /\ new = NoRow <=> old = NoRow /\ backup = NoRow
          /\ new # old => SameRow(backup, new) /\ new.seq = Pending
          /\ (old # NoRow /\ new # NoRow) =>
               /\ old.deleted => new = old
               /\ new.deleted \/ new.upd >= old.upd
          /\ (backup # NoRow /\ new # NoRow /\ s \notin AppendOnly) =>
               /\ backup.deleted => new.deleted
               /\ new.deleted \/ SameContent(new, backup) \/ new.upd >= backup.upd

-----------------------------------------------------------------------------
(* What the properties rest on.                                            *)

\* No Cursor, kept, copied or on its way, is beyond the Server's log.
InLog(s, n) == n = 0 \/ \E id \in Held(rows[s]) : n <= rows[s][id].seq

Sets(w, op, s) == w.op = op /\ w.stream = s

LogFits ==
  \A s \in Streams :
    /\ \A id \in Held(rows[s]) : rows[s][id].seq # Pending
    /\ file # NoFile => InLog(s, file.cursor[s])

CursorsInLog(d, s) ==
  /\ InLog(s, store[d].cursor[s])
  /\ InLog(s, saved[d].cursor[s])
  /\ InLog(s, job[d].copy.cursor[s])
  /\ \A k \in DOMAIN job[d].todo :
       Sets(job[d].todo[k], "cursor", s) => InLog(s, job[d].todo[k].value)

AnswerInLog(d, s) ==
  /\ InLog(s, run[d].since[s])
  /\ \A id \in Held(run[d].page[s]) : InLog(s, run[d].page[s][id].seq)
  /\ \A k \in DOMAIN run[d].todo :
       Sets(run[d].todo[k], "cursor", s) => InLog(s, run[d].todo[k].value)

\* The statements of a run are those of its place in the loop.
RunFits(d) ==
  LET r == run[d]
  IN  /\ r.pc \in {"idle", "server"} => r.todo = <<>>
      /\ r.pc = "server" => r.at \in DOMAIN Order
      /\ \A k \in DOMAIN r.todo :
           /\ r.pc = "loop" => \/ r.todo[k].op = "cursor" /\ r.todo[k].value = 0
                              \/ r.todo[k].op = "epoch"
           /\ r.pc = "apply" => r.todo[k].op \in {"ack", "pull", "write", "cursor"}

\* The statements of a job are those of its kind; a Merge only adds rows that
\* are pending.
JobFits(d) ==
  LET j == job[d]
  IN  /\ j.open => j.kind \in {"restore", "merge"}
      /\ ~j.open /\ j.kind # "backup" => j.todo = <<>>
      /\ \A k \in DOMAIN j.todo : LET w == j.todo[k] IN
           w.op # "read" =>
             \/ j.kind = "restore" /\ w.op \in {"write", "delete", "cursor", "epoch"}
             \/ /\ j.kind = "merge" /\ w.op = "write"
                /\ \A id \in Held(w.table) : w.table[id].seq = Pending

ResetAhead(todo, k, op, s) ==
  \E l \in DOMAIN todo : l > k /\ Sets(todo[l], op, s) /\ todo[l].value = 0

\* Whatever a Restore writes of a stream, it resets the Cursor afterwards, and
\* the epoch after that.
ResetsFollow(todo, k, s) ==
  LET w == todo[k]
  IN  /\ w.op = "read" \/ Sets(w, "write", s) \/ Sets(w, "delete", s) =>
           ResetAhead(todo, k, "cursor", s)
      /\ Sets(w, "cursor", s) => /\ w.value = 0 \/ ResetAhead(todo, k, "cursor", s)
                                /\ ResetAhead(todo, k, "epoch", s)
      /\ Sets(w, "epoch", s) => w.value = 0 \/ ResetAhead(todo, k, "epoch", s)

ResetsComeLast(d) ==
  job[d].kind = "restore" =>
    \A k \in DOMAIN job[d].todo, s \in Streams : ResetsFollow(job[d].todo, k, s)

\* A Restore is under way, and has yet to reset what the next run goes by.
Restoring(d, s) ==
  /\ job[d].open
  /\ job[d].kind = "restore"
  /\ \E k \in DOMAIN job[d].todo :
       Sets(job[d].todo[k], IF s \in Bumped THEN "epoch" ELSE "cursor", s)

\* The Server has moved the row beyond n.
Beyond(s, id, n) == id \in Held(rows[s]) /\ rows[s][id].seq > n

\* A run at the Server: its page has every row up to the next Cursor, and a row
\* of the answer that is no longer the Server's is in the page or beyond it.
AnswerIsWhole(d, s) ==
  LET since == run[d].since[s]
      page == run[d].page[s]
      acked == run[d].acked[s]
  IN  /\ since = store[d].cursor[s]
      /\ \A next \in Last(page, since) :
           /\ \A id \in Held(rows[s]) :
                rows[s][id].seq <= next =>
                  rows[s][id].seq <= since \/ page[id] = rows[s][id]
           /\ \A id \in Held(page) : page[id] = rows[s][id] \/ Beyond(s, id, next)
           /\ \A id \in Held(acked) :
                \/ acked[id] = rows[s][id]
                \/ /\ Beyond(s, id, since)
                   /\ page[id] = rows[s][id] \/ Beyond(s, id, next)

\* One of the statements between j and l writes the Server's row.
Brings(todo, j, l, s, id) ==
  \E k \in DOMAIN todo :
    /\ j < k /\ k < l
    /\ Sets(todo[k], "pull", s) \/ Sets(todo[k], "write", s)
    /\ todo[k].table[id] = rows[s][id]

WritesRows(w, s) == Sets(w, "ack", s) \/ Sets(w, "pull", s) \/ Sets(w, "write", s)

\* The same of the statements the answer became.
StatementsAreWhole(d, s) ==
  LET todo == run[d].todo
  IN  /\ \A l \in DOMAIN todo : Sets(todo[l], "cursor", s) =>
           \A id \in Held(rows[s]) :
             rows[s][id].seq <= todo[l].value =>
               Has(store[d], s, id) \/ Brings(todo, 0, l, s, id)
      /\ \A j \in DOMAIN todo : WritesRows(todo[j], s) =>
           \A id \in Held(todo[j].table) :
             \/ todo[j].table[id] = rows[s][id]
             \/ /\ Beyond(s, id, store[d].cursor[s])
                /\ \A l \in DOMAIN todo : Sets(todo[l], "cursor", s) =>
                     Beyond(s, id, todo[l].value) \/ Brings(todo, j, l, s, id)

Tracked(d, s) ==
  /\ Covers(store[d], s)
  /\ run[d].pc = "server" => AnswerIsWhole(d, s)
  /\ run[d].pc = "apply" => StatementsAreWhole(d, s)

\* A run that is going to record an epoch finds the Cursor reset, by itself or
\* by a Restore.
EpochFollowsCursor(d, s) ==
  LET todo == run[d].todo
  IN  \A k \in DOMAIN todo :
        Sets(todo[k], "epoch", s) /\ (\A j \in DOMAIN todo : j < k => ~Sets(todo[j], "cursor", s)) =>
          store[d].cursor[s] = 0 \/ ResetAhead(job[d].todo, 0, "cursor", s)

StreamFits(d, s) ==
  /\ EpochFollowsCursor(d, s)
  /\ ~Restoring(d, s) /\ s \notin Behind(store[d]) => Tracked(d, s)
  /\ job[d].open => Covers(saved[d], s)

\* What a Restore that nobody writes into has still to do.
RestoreFollowsFile(d, s) ==
  LET todo == job[d].todo
      db == store[d].rows[s]
      backup == job[d].copy.rows[s]
  IN  job[d].kind = "restore" /\ job[d].alone =>
        /\ store[d].cursor[s] = 0 \/ ResetAhead(todo, 0, "cursor", s)
        /\ \A k \in DOMAIN todo :
             /\ Sets(todo[k], "write", s) =>
                  \A id \in Held(todo[k].table) : todo[k].table[id] = backup[id]
             /\ Sets(todo[k], "delete", s) =>
                  \A id \in Held(todo[k].table) : backup[id] = NoRow
        /\ \/ \E k \in DOMAIN todo : todo[k] = ReadTable(s)
           \/ \A id \in Ids :
                \/ backup[id] = NoRow /\ db[id] = NoRow
                \/ backup[id] # NoRow /\ SameRow(db[id], backup[id])
                \/ \E k \in DOMAIN todo :
                     /\ Sets(todo[k], "write", s) \/ Sets(todo[k], "delete", s)
                     /\ id \in Held(todo[k].table)

\* What a Merge that nobody writes into has still to do.
MergeFollowsRules(d, s, id) ==
  LET todo == job[d].todo
      old == saved[d].rows[s][id]
      new == store[d].rows[s][id]
      backup == job[d].copy.rows[s][id]
      merged == [backup EXCEPT !.seq = Pending]
      wins == backup # NoRow /\ Merges(s, old, merged)
      Comes(k) == Sets(todo[k], "write", s) /\ id \in Held(todo[k].table)
  IN  job[d].kind = "merge" /\ job[d].alone =>
        /\ \A k \in DOMAIN todo : Comes(k) => wins /\ todo[k].table[id] = merged
        /\ \/ wins /\ new = merged
           \/ /\ new = old
              /\ wins => \E k \in DOMAIN todo : todo[k] = ReadTable(s) \/ Comes(k)

RunSide(d) ==
  /\ RunFits(d)
  /\ \A s \in Streams : AnswerInLog(d, s)

JobSide(d) ==
  /\ JobFits(d)
  /\ ResetsComeLast(d)
  /\ \A s \in Streams : RestoreFollowsFile(d, s)
  /\ \A s \in Streams, id \in Ids : MergeFollowsRules(d, s, id)

DeviceFits(d) ==
  /\ RunSide(d)
  /\ JobSide(d)
  /\ \A s \in Streams : CursorsInLog(d, s)
  /\ \A s \in Streams \ torn[d] : StreamFits(d, s)

\* The inductive invariant.
IInv == TypeOK /\ LogFits /\ \A d \in Devices : DeviceFits(d)

\* sync() and run_sync, stream by stream: when writes, jobs and failures stop,
\* every Device that syncs holds the Server's rows in every stream, Backups
\* restored and merged in between or not.
StreamsConverge ==
  <>[](\A d \in bound.online : \A s \in Streams \ torn[d] : store[d].rows[s] = rows[s])

=============================================================================
