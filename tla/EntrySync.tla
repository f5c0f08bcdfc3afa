------------------------------ MODULE EntrySync ------------------------------
(***************************************************************************)
(* Devices keeping Entries in their own SQLite store and reconciling them  *)
(* with one Server: sync() (packages/core/src/sync-engine.ts) over the     *)
(* write paths of SqliteEntryStore, statement by statement.  Every await   *)
(* of sync() is a point at which the user may capture, edit or delete, the *)
(* request or the response may be lost, and the app may be closed or       *)
(* replaced by a newer build.                                              *)
(*                                                                         *)
(* The Server is the change log of ChangeLog: one step per push, which     *)
(* SyncServer shows its transactions to be, and a later Cursor read that   *)
(* runs outside the lock.  Seqs are taken to be drawn without gaps: only   *)
(* their order is ever read.  The other six streams carry no rows, so      *)
(* neither the loop decision nor the no-progress guard depends on them.    *)
(***************************************************************************)
EXTENDS EntryRows, Functions

CONSTANTS
  Devices,
  BatchSize,    \* SYNC_BATCH_SIZE: rows pushed or pulled per round trip
  MaxClock,     \* bound: the latest updated_at a Device stamps
  MaxFails,     \* bound: runs cut short
  MaxUpgrades   \* bound: new builds

ASSUME SyncAssumption ==
  /\ IsFiniteSet(Ids)
  /\ BatchSize \in Nat \ {0}
  /\ MaxClock \in Nat
  /\ MaxFails \in Nat
  /\ MaxUpgrades \in Nat

VARIABLES
  rows,      \* the Server's committed entries table
  local,     \* each Device's entries table
  cursor,    \* each Device's Cursor, in its kv table
  stale,     \* the row-shape epoch in the kv table is behind the build's
  outdated,  \* history: ids whose local row an older build wrote
  clock,     \* each Device's clock at its last local write
  sync,      \* each Device's sync() run: its locals, and what is in flight
  late,      \* a push its Device gave up on, that may still reach the Server
  unsent,    \* history: the user's last write, while no push carried it yet
  mishaps    \* history: how many fails and upgrades so far, for the bounds

vars == <<rows, local, cursor, stale, outdated, clock, sync, late, unsent, mishaps>>

user == <<clock, unsent>>
kv == <<cursor, stale>>

Pcs == {"idle", "epoch", "stamp", "loop", "sent", "committed", "apply", "cursor"}

\* push, since: entriesToPush and the Cursor read with it.  acked, page, next:
\* acknowledged_entries still to apply, entries, and the response's cursor.
\* total, backlog: pending.length and pushWasFull.  stalledAt: the previous
\* iteration's pending.length when that iteration pushed something and its
\* response was short, 0 otherwise.
Run == [pc : Pcs, push : Table, since : Nat, acked : Table, page : Table,
        next : Nat, total : Nat, backlog : BOOLEAN, stalledAt : Nat]

At(pc, stalledAt) ==
  [pc |-> pc, push |-> EmptyTable, since |-> 0, acked |-> EmptyTable,
   page |-> EmptyTable, next |-> 0, total |-> 0, backlog |-> FALSE,
   stalledAt |-> stalledAt]

PendingIds(d) == {id \in Held(local[d]) : local[d][id].seq = Pending}

-----------------------------------------------------------------------------
\* Fresh installs: no row, and neither key in the kv table.
Init ==
  /\ rows = EmptyTable
  /\ local = [d \in Devices |-> EmptyTable]
  /\ cursor = [d \in Devices |-> 0]
  /\ stale = [d \in Devices |-> TRUE]
  /\ outdated = [d \in Devices |-> {}]
  /\ clock = [d \in Devices |-> 0]
  /\ sync = [d \in Devices |-> At("idle", 0)]
  /\ late = [d \in Devices |-> EmptyTable]
  /\ unsent = [d \in Devices |-> EmptyTable]
  /\ mishaps = [fails |-> 0, upgrades |-> 0]

-----------------------------------------------------------------------------
(* The user.  Clocks of different Devices are unrelated; one Device never  *)
(* stamps two of its own writes alike (see the README on this assumption). *)

Write(d, id, row) ==
  /\ local' = [local EXCEPT ![d][id] = row]
  /\ unsent' = [unsent EXCEPT ![d][id] = row]
  /\ clock' = [clock EXCEPT ![d] = row.upd]
  /\ UNCHANGED <<rows, kv, outdated, sync, late, mishaps>>

Create(d, id, body, now) ==
  /\ \A other \in Devices : local[other][id] = NoRow
  /\ Write(d, id, Captured(body, now))

Edit(d, id, body, now) ==
  /\ id \in Held(local[d])
  /\ ~local[d][id].deleted
  /\ Write(d, id, Edited(local[d][id], body, now))

Remove(d, id, now) ==
  /\ id \in Held(local[d])
  /\ Write(d, id, Removed(local[d][id], now))

UserWrite(d) ==
  \E id \in Ids, now \in (clock[d] + 1) .. MaxClock :
    \/ \E body \in Bodies : Create(d, id, body, now) \/ Edit(d, id, body, now)
    \/ Remove(d, id, now)

-----------------------------------------------------------------------------
(* sync().                                                                 *)

\* requestSync calls sync(), whose first read is the stored epoch.
StartSync(d) ==
  /\ sync[d].pc = "idle"
  /\ sync' = [sync EXCEPT ![d] = At(IF stale[d] THEN "epoch" ELSE "loop", 0)]
  /\ UNCHANGED <<rows, local, kv, outdated, user, late, mishaps>>

\* Defect: the epoch recorded before the Cursor is reset.
CatchUpRecordsFirst(d) ==
  /\ \/ /\ sync[d].pc = "epoch"
        /\ stale' = [stale EXCEPT ![d] = FALSE]
        /\ sync' = [sync EXCEPT ![d].pc = "stamp"]
        /\ UNCHANGED cursor
     \/ /\ sync[d].pc = "stamp"
        /\ cursor' = [cursor EXCEPT ![d] = 0]
        /\ sync' = [sync EXCEPT ![d].pc = "loop"]
        /\ UNCHANGED stale
  /\ UNCHANGED <<rows, local, outdated, user, late, mishaps>>

\* catchUpRowShapeEpoch: reset the Cursor, then - a second statement - record
\* the epoch.
CatchUp(d) ==
  /\ \/ /\ sync[d].pc = "epoch"
        /\ cursor' = [cursor EXCEPT ![d] = 0]
        /\ sync' = [sync EXCEPT ![d].pc = "stamp"]
        /\ UNCHANGED stale
     \/ /\ sync[d].pc = "stamp"
        /\ stale' = [stale EXCEPT ![d] = FALSE]
        /\ sync' = [sync EXCEPT ![d].pc = "loop"]
        /\ UNCHANGED cursor
  /\ UNCHANGED <<rows, local, outdated, user, late, mishaps>>

\* The no-progress guard: the last push confirmed nothing.
Stalled(d) ==
  /\ sync[d].stalledAt # 0
  /\ Cardinality(PendingIds(d)) >= sync[d].stalledAt

GiveUp(d) ==
  /\ sync[d].pc = "loop"
  /\ Stalled(d)
  /\ sync' = [sync EXCEPT ![d] = At("idle", 0)]
  /\ UNCHANGED <<rows, local, kv, outdated, user, late, mishaps>>

\* The top of the loop: pending() and getCursor(), then the request.  No
\* order by: a batch is any BatchSize of the pending rows.
Push(d) ==
  /\ sync[d].pc = "loop"
  /\ ~Stalled(d)
  /\ LET total == Cardinality(PendingIds(d))
     IN  \E batch \in SUBSET PendingIds(d) :
           /\ Cardinality(batch) = IF total > BatchSize THEN BatchSize ELSE total
           /\ sync' = [sync EXCEPT ![d] =
                [At("sent", 0) EXCEPT !.push = Only(local[d], batch),
                                      !.since = cursor[d],
                                      !.total = total,
                                      !.backlog = total > BatchSize]]
  /\ UNCHANGED <<rows, local, kv, outdated, user, late, mishaps>>

\* Defect: an update leaves the row where it was in the log.
InsertKeepsSeq(push) ==
  \E last \in Last(rows, 0) :
    rows' = [id \in Ids |->
      IF id \in Held(push) /\ Changes(rows[id], push[id])
        THEN Stored(push[id], IF rows[id] = NoRow THEN last + 1 ELSE rows[id].seq)
        ELSE rows[id]]

\* insert_entries, in one step.
Insert(push) ==
  LET changed == {id \in Held(push) : Changes(rows[id], push[id])}
  IN  \E last \in Last(rows, 0) :
      \E seqs \in Bijection(changed, (last + 1) .. (last + Cardinality(changed))) :
        rows' = [id \in Ids |-> IF id \in changed THEN Stored(push[id], seqs[id])
                                                  ELSE rows[id]]

\* The write a push carries is unsent no more.
Carried(d, push) ==
  unsent' = [unsent EXCEPT ![d] =
    [id \in Ids |-> IF push[id] = unsent[d][id] THEN NoRow ELSE unsent[d][id]]]

\* The Server inserts the push; acknowledged_entries is every pushed row as
\* the Server now holds it, changed or not.
Commit(d) ==
  /\ sync[d].pc = "sent"
  /\ Insert(sync[d].push)
  /\ Carried(d, sync[d].push)
  /\ sync' = [sync EXCEPT ![d].pc = "committed",
                          ![d].acked = Only(rows', Held(sync[d].push))]
  /\ UNCHANGED <<local, kv, outdated, clock, late, mishaps>>

\* The Cursor read, and the response on its way back.
Respond(d) ==
  /\ sync[d].pc = "committed"
  /\ LET page == Only(rows, Page(rows, sync[d].since, BatchSize))
     IN  \E next \in Last(page, sync[d].since) :
           sync' = [sync EXCEPT ![d].pc = "apply", ![d].page = page, ![d].next = next]
  /\ UNCHANGED <<rows, local, kv, outdated, user, late, mishaps>>

\* Defect: an acknowledgement moves the Cursor, which ADR 0059 forbids.
ApplyAckMovesCursor(d, id) ==
  /\ sync[d].pc = "apply"
  /\ id \in Held(sync[d].acked)
  /\ local' = [local EXCEPT ![d][id] =
       Acknowledged(@, sync[d].acked[id], sync[d].push[id])]
  /\ outdated' = [outdated EXCEPT ![d] = @ \ {id}]
  /\ cursor' = [cursor EXCEPT ![d] = IF sync[d].acked[id].seq > @ THEN sync[d].acked[id].seq ELSE @]
  /\ sync' = [sync EXCEPT ![d].acked[id] = NoRow]
  /\ UNCHANGED <<rows, stale, user, late, mishaps>>

\* applyAcknowledged: one guarded statement per row.
ApplyAck(d, id) ==
  /\ sync[d].pc = "apply"
  /\ id \in Held(sync[d].acked)
  /\ LET confirmed == sync[d].acked[id]
         asPushed == sync[d].push[id]
     IN  /\ local' = [local EXCEPT ![d][id] = Acknowledged(@, confirmed, asPushed)]
         /\ outdated' = [outdated EXCEPT ![d] =
              IF AckApplies(local[d][id], asPushed) THEN @ \ {id} ELSE @]
  /\ sync' = [sync EXCEPT ![d].acked[id] = NoRow]
  /\ UNCHANGED <<rows, kv, user, late, mishaps>>

\* applyPulled: one statement for the whole page, after every ack.  A pending
\* write that a newer row or a tombstone replaces has lost its conflict.
ApplyPulled(d) ==
  /\ sync[d].pc = "apply"
  /\ Held(sync[d].acked) = {}
  /\ LET page == sync[d].page
         applied == {id \in Held(page) : PullApplies(local[d][id], page[id])}
     IN  /\ local' = [local EXCEPT ![d] =
              [id \in Ids |-> IF id \in applied THEN page[id] ELSE @[id]]]
         /\ outdated' = [outdated EXCEPT ![d] = @ \ applied]
         /\ unsent' = [unsent EXCEPT ![d] =
              [id \in Ids |-> IF /\ id \in applied \cap Held(@)
                                 /\ page[id].deleted \/ page[id].upd >= @[id].upd
                                THEN NoRow ELSE @[id]]]
  /\ sync' = [sync EXCEPT ![d].pc = "cursor", ![d].push = EmptyTable]
  /\ UNCHANGED <<rows, kv, clock, late, mishaps>>

\* Defect: setCursor forgotten.
EndIterationKeepsCursor(d) ==
  /\ sync[d].pc = "cursor"
  /\ LET full == Cardinality(Held(sync[d].page)) >= BatchSize
     IN  sync' = [sync EXCEPT ![d] =
           IF full \/ sync[d].backlog
             THEN At("loop", IF full THEN 0 ELSE sync[d].total)
             ELSE At("idle", 0)]
  /\ UNCHANGED <<rows, local, kv, outdated, user, late, mishaps>>

\* setCursor, and - the other streams being empty - the loop decision.
EndIteration(d) ==
  /\ sync[d].pc = "cursor"
  /\ cursor' = [cursor EXCEPT ![d] = IF sync[d].next > sync[d].since THEN sync[d].next ELSE @]
  /\ LET full == Cardinality(Held(sync[d].page)) >= BatchSize
     IN  sync' = [sync EXCEPT ![d] =
           IF full \/ sync[d].backlog
             THEN At("loop", IF full THEN 0 ELSE sync[d].total)
             ELSE At("idle", 0)]
  /\ UNCHANGED <<rows, local, stale, outdated, user, late, mishaps>>

-----------------------------------------------------------------------------
(* What goes wrong.                                                        *)

\* The run is cut short wherever it is: fetch() rejects, a statement throws,
\* or the tab closes.  A request that was on its way may arrive later all the
\* same.
Fail(d) ==
  /\ mishaps.fails < MaxFails
  /\ mishaps' = [mishaps EXCEPT !.fails = @ + 1]
  /\ sync[d].pc # "idle"
  /\ sync' = [sync EXCEPT ![d] = At("idle", 0)]
  /\ \/ UNCHANGED late
     \/ sync[d].pc = "sent" /\ late' = [late EXCEPT ![d] = sync[d].push]
  /\ UNCHANGED <<rows, local, kv, outdated, user>>

\* The Server gets to a request whose Device has moved on.
CommitLate(d) ==
  /\ late[d] # EmptyTable
  /\ Insert(late[d])
  /\ Carried(d, late[d])
  /\ late' = [late EXCEPT ![d] = EmptyTable]
  /\ UNCHANGED <<local, kv, outdated, clock, sync, mishaps>>

\* The app comes back as a build with a newer ROW_SHAPE_EPOCH.entries: its
\* rows were all written by a build that did not know the new column.
Upgrade(d) ==
  /\ mishaps.upgrades < MaxUpgrades
  /\ mishaps' = [mishaps EXCEPT !.upgrades = @ + 1]
  /\ stale' = [stale EXCEPT ![d] = TRUE]
  /\ outdated' = [outdated EXCEPT ![d] = Held(local[d])]
  /\ sync' = [sync EXCEPT ![d] = At("idle", 0)]
  /\ UNCHANGED <<rows, local, cursor, user, late>>

-----------------------------------------------------------------------------
SyncStep(d) ==
  \/ CatchUp(d)
  \/ GiveUp(d)
  \/ Push(d)
  \/ Commit(d)
  \/ Respond(d)
  \/ \E id \in Ids : ApplyAck(d, id)
  \/ ApplyPulled(d)
  \/ EndIteration(d)

Next ==
  \E d \in Devices :
    \/ UserWrite(d)
    \/ StartSync(d)
    \/ SyncStep(d)
    \/ Fail(d)
    \/ CommitLate(d)
    \/ Upgrade(d)

Spec == Init /\ [][Next]_vars

\* The interval tick keeps calling requestSync, and a run that is not cut
\* short gets through its awaits.  Nothing obliges anybody to write, to fail
\* or to deliver an abandoned request.
Fairness ==
  \A d \in Devices : WF_vars(StartSync(d)) /\ WF_vars(SyncStep(d))

FairSpec == Spec /\ Fairness

-----------------------------------------------------------------------------
(* Properties                                                              *)

TypeOK ==
  /\ rows \in Table
  /\ local \in [Devices -> Table]
  /\ cursor \in [Devices -> Nat]
  /\ stale \in [Devices -> BOOLEAN]
  /\ outdated \in [Devices -> SUBSET Ids]
  /\ clock \in [Devices -> Nat]
  /\ sync \in [Devices -> Run]
  /\ late \in [Devices -> Table]
  /\ unsent \in [Devices -> Table]
  /\ mishaps \in [fails : Nat, upgrades : Nat]

\* ADR 0068: what the user last wrote is still in the store, marked pending,
\* until a push has carried it or a newer row or a deletion has beaten it.  No
\* acknowledgement, pull, lost message or restart loses it in silence.
NoSilentLoss ==
  \A d \in Devices : \A id \in Held(unsent[d]) : local[d][id] = unsent[d][id]

\* Every row of the Server up to n is on the Device, or a change of its own is
\* that is still to be pushed.
Covers(d, n) ==
  \A id \in Held(rows) :
    rows[id].seq <= n =>
      /\ id \in Held(local[d])
      /\ id \in PendingIds(d) \/ local[d][id] = rows[id]

\* A Device never needs a row at or below its Cursor again.
CursorCovers == \A d \in Devices : Covers(d, cursor[d])

\* Every row an older build wrote comes after n, or is on its way out.
Renews(d, n) ==
  \A id \in outdated[d] :
    \/ id \in PendingIds(d)
    \/ id \in Held(rows) /\ rows[id].seq > n

\* ADR 0057: once the epoch is recorded as caught up, every row an older build
\* wrote is still ahead of the Cursor or on its way out, whenever the tab dies.
EpochCovers == \A d \in Devices : ~stale[d] => Renews(d, cursor[d])

\* ADR 0028: a tombstone the Server has confirmed to a Device is never undone
\* there, by anybody's edit, delayed push, replayed page or Cursor reset.
ConfirmedDeleteIsFinal ==
  [][\A d \in Devices : \A id \in Held(local[d]) \ PendingIds(d) :
       local[d][id].deleted => local'[d][id].deleted]_vars

\* The remove() doc and ADR 0065: a deleted row cannot be resurrected, whether
\* or not the tombstone has been pushed yet.  What the code does violates it.
DeleteIsFinal ==
  [][\A d \in Devices : \A id \in Held(local[d]) :
       local[d][id].deleted => local'[d][id].deleted]_vars

\* When users stop writing and the network recovers, every Device ends up with
\* the Server's table, nothing pending, whatever was lost on the way.
Converges == <>[](\A d \in Devices : local[d] = rows)

\* sync() returns: neither a backlog, nor a refused push, nor full pages keep
\* the loop going for ever.
SyncEnds == \A d \in Devices : sync[d].pc # "idle" ~> sync[d].pc = "idle"

\* What Devices push is what a change log takes pushes of, one at a time.
Log == INSTANCE ChangeLog WITH
  Pushes <- [Ids -> Maybe([body : Bodies \cup {Blank}, deleted : BOOLEAN,
                           upd : 0 .. MaxClock, seq : {Pending}])]

PushesAreAtomic == Log!Spec

-----------------------------------------------------------------------------
(* The inductive invariant behind NoSilentLoss.                            *)

\* A row the Server holds, or has answered with, carries a seq.
ServerRowsHaveSeq ==
  /\ \A id \in Held(rows) : rows[id].seq # Pending
  /\ \A d \in Devices :
       /\ \A id \in Held(sync[d].acked) : sync[d].acked[id].seq # Pending
       /\ \A id \in Held(sync[d].page) : sync[d].page[id].seq # Pending

\* A pending row was written here, so no later than this Device's clock; the
\* same goes for the rows of a push, which were pending when it was built.
PendingIsOwn ==
  \A d \in Devices :
    /\ \A id \in PendingIds(d) : local[d][id].upd <= clock[d]
    /\ \A id \in Held(sync[d].push) : sync[d].push[id].upd <= clock[d]

\* A write no push has carried is either in the request on its way, or later
\* than what the request says of the row - and never what an answer is about.
PushIsOlder ==
  \A d \in Devices : \A id \in Held(unsent[d]) \cap Held(sync[d].push) :
    \/ sync[d].pc = "sent" /\ sync[d].push[id] = unsent[d][id]
    \/ sync[d].push[id].upd < unsent[d][id].upd

AcksFollowPush ==
  \A d \in Devices :
    /\ Held(sync[d].acked) \subseteq Held(sync[d].push)
    /\ Held(sync[d].acked) # {} => sync[d].pc \in {"committed", "apply"}

IInv ==
  /\ TypeOK
  /\ NoSilentLoss
  /\ \A d \in Devices : \A id \in Held(unsent[d]) : unsent[d][id].seq = Pending
  /\ ServerRowsHaveSeq
  /\ PendingIsOwn
  /\ PushIsOlder
  /\ AcksFollowPush

-----------------------------------------------------------------------------
(* What CursorCovers, EpochCovers, ConfirmedDeleteIsFinal and              *)
(* PushesAreAtomic rest on: how a Device, and what is on its way to it,    *)
(* stand to the Server's log.                                              *)

\* The log has got as far as n.
Reached(n) == n = 0 \/ \E id \in Held(rows) : n <= rows[id].seq

\* A run moves the Cursor only at its ends.
CursorHolds(d) ==
  /\ sync[d].pc = "stamp" => cursor[d] = 0
  /\ sync[d].pc \in {"sent", "committed", "apply", "cursor"} => sync[d].since = cursor[d]
  /\ sync[d].pc \in {"apply", "cursor"} => sync[d].next >= sync[d].since
  /\ Reached(cursor[d]) /\ Reached(sync[d].next)

\* What is not pending here, or in an answer, the Server holds.
RowsAreKnown(d) ==
  /\ Held(sync[d].acked) \cup Held(sync[d].page) \subseteq Held(rows)
  /\ Held(local[d]) \ PendingIds(d) \subseteq Held(rows)
  /\ outdated[d] \subseteq Held(local[d])

\* A row that has moved since it was put in an answer is ahead of the Cursor
\* that goes with the answer.
AnswersAreFresh(d) ==
  /\ \A id \in Held(sync[d].acked) :
       sync[d].acked[id] = rows[id] \/ rows[id].seq > cursor[d]
  /\ \A id \in Held(sync[d].page) :
       sync[d].page[id] = rows[id] \/ rows[id].seq > sync[d].next

\* A page has every row between the Cursor and the next one; once it has been
\* applied, the Device has.
PageIsWhole(d) ==
  /\ sync[d].pc \notin {"apply", "cursor"} => Held(sync[d].page) = {}
  /\ sync[d].pc = "apply" =>
       \A id \in Held(rows) :
         rows[id].seq > sync[d].since /\ rows[id].seq <= sync[d].next =>
           id \in Held(sync[d].page)
  /\ sync[d].pc = "cursor" =>
       Covers(d, sync[d].next) /\ (~stale[d] => Renews(d, sync[d].next))

\* What is pushed stays pending until its acknowledgement.
PushIsPending(d) ==
  /\ sync[d].pc \in {"sent", "committed"} => Held(sync[d].push) \subseteq PendingIds(d)
  /\ Held(sync[d].acked) \subseteq PendingIds(d)

\* A deletion the Device has been told of is in the Server's table, and in
\* whatever the Device is told next.
Buried(d, id) ==
  /\ rows[id].deleted
  /\ id \in Held(sync[d].page) => sync[d].page[id].deleted

DeletionsAreKnown(d) ==
  /\ \A id \in Held(local[d]) \ PendingIds(d) : local[d][id].deleted => Buried(d, id)
  /\ \A id \in Held(sync[d].acked) : sync[d].acked[id].deleted => Buried(d, id)
  /\ \A id \in Held(sync[d].page) : sync[d].page[id].deleted => Buried(d, id)

\* Requests carry pending rows, stamped by a clock within its bound.
RequestsFit(d) ==
  /\ clock[d] <= MaxClock
  /\ \A id \in Held(sync[d].push) : sync[d].push[id].seq = Pending
  /\ \A id \in Held(late[d]) : late[d][id].seq = Pending /\ late[d][id].upd <= clock[d]

LogInvAt(d) ==
  /\ CursorHolds(d) /\ RowsAreKnown(d) /\ AnswersAreFresh(d) /\ PageIsWhole(d)
  /\ Covers(d, cursor[d])
  /\ ~stale[d] => Renews(d, cursor[d])
  /\ PushIsPending(d) /\ DeletionsAreKnown(d)

LogInv == \A d \in Devices : LogInvAt(d) /\ RequestsFit(d)

=============================================================================
