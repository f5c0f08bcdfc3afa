--------------------------- MODULE EntrySyncProofs ---------------------------
(***************************************************************************)
(* For any number of Devices and Entries, any clocks, failures and builds: *)
(* what the user wrote is never lost in silence (ADR 0068), and how a      *)
(* Device stands to the Server's log.  Nothing at or below its Cursor is   *)
(* missing, a deletion it has been told of stays, and what it pushes is    *)
(* what a change log takes.                                                *)
(***************************************************************************)
EXTENDS EntrySync, FiniteSetTheorems, TLAPS

-----------------------------------------------------------------------------
(* Rows and tables.                                                        *)

LEMMA HeldRow ==
  ASSUME NEW t \in Table, NEW id \in Held(t)
  PROVE  /\ id \in Ids /\ t[id] \in Row /\ t[id] # NoRow
         /\ t[id].seq \in Nat /\ t[id].upd \in Nat
BY DEF Held, Table, Maybe, Row

LEMMA EmptyTableIsTable == EmptyTable \in Table /\ Held(EmptyTable) = {}
BY DEF EmptyTable, Table, Maybe, Held

LEMMA OnlyIsTable ==
  ASSUME NEW t \in Table, NEW ids
  PROVE  /\ Only(t, ids) \in Table
         /\ Held(Only(t, ids)) = Held(t) \cap ids
         /\ \A id \in Held(t) \cap ids : Only(t, ids)[id] = t[id]
BY DEF Only, Held, Table, Maybe

LEMMA LastIsNat ==
  ASSUME NEW t \in Table, NEW floor \in Nat, NEW n \in Last(t, floor)
  PROVE  n \in Nat
BY HeldRow DEF Last

LEMMA StoredIsRow ==
  ASSUME NEW row \in Row, NEW seq \in Nat
  PROVE  Stored(row, seq) \in Row /\ Stored(row, seq).seq = seq
BY DEF Stored, Row

\* A finite table has a number of pending rows and of held rows.
LEMMA CountIsNat ==
  ASSUME NEW S \in SUBSET Ids
  PROVE  Cardinality(S) \in Nat
<1>1. IsFiniteSet(S)
  BY SyncAssumption, FS_Subset
<1>2. QED
  BY <1>1, FS_CardinalityType

\* An insert leaves a table of rows that all carry a seq.
LEMMA InsertKeepsTable ==
  ASSUME rows \in Table, NEW push \in Table, Insert(push),
         \A id \in Held(rows) : rows[id].seq # Pending
  PROVE  rows' \in Table /\ \A id \in Held(rows') : rows'[id].seq # Pending
<1> DEFINE changed == {id \in Held(push) : Changes(rows[id], push[id])}
<1>1. PICK last \in Last(rows, 0) :
        \E seqs \in Bijection(changed, (last + 1) .. (last + Cardinality(changed))) :
          rows' = [id \in Ids |-> IF id \in changed THEN Stored(push[id], seqs[id])
                                                    ELSE rows[id]]
  BY DEF Insert
<1>2. PICK seqs \in Bijection(changed, (last + 1) .. (last + Cardinality(changed))) :
        rows' = [id \in Ids |-> IF id \in changed THEN Stored(push[id], seqs[id])
                                                  ELSE rows[id]]
  BY <1>1
<1>3. last \in Nat
  BY LastIsNat
<1>4. \A id \in changed : seqs[id] \in (last + 1) .. (last + Cardinality(changed))
  BY DEF Bijection, Injection
<1>5. changed \in SUBSET Ids
  BY DEF Held
<1>6. Cardinality(changed) \in Nat
  BY <1>5, CountIsNat
<1>7. \A id \in changed : seqs[id] \in Nat \ {Pending}
  BY <1>3, <1>4, <1>6 DEF Pending
<1>8. \A id \in changed : /\ Stored(push[id], seqs[id]) \in Row
                          /\ Stored(push[id], seqs[id]).seq # Pending
  BY <1>7, HeldRow, StoredIsRow
<1> HIDE DEF changed
<1>9. rows' \in Table
  BY <1>2, <1>5, <1>8 DEF Table, Maybe
<1>10. QED
  BY <1>2, <1>5, <1>8, <1>9 DEF Held

LEMMA AtFields ==
  ASSUME NEW pc \in Pcs, NEW stalledAt \in Nat
  PROVE  /\ At(pc, stalledAt) \in Run
         /\ At(pc, stalledAt).pc = pc
         /\ Held(At(pc, stalledAt).push) = {}
         /\ Held(At(pc, stalledAt).acked) = {}
         /\ Held(At(pc, stalledAt).page) = {}
BY EmptyTableIsTable DEF At, Run

LEMMA RunFields ==
  ASSUME TypeOK, NEW d \in Devices
  PROVE  /\ sync[d] \in Run
         /\ sync[d].pc \in Pcs /\ sync[d].push \in Table /\ sync[d].since \in Nat
         /\ sync[d].acked \in Table /\ sync[d].page \in Table /\ sync[d].next \in Nat
         /\ sync[d].total \in Nat
         /\ local[d] \in Table /\ unsent[d] \in Table /\ clock[d] \in Nat
BY DEF TypeOK, Run

-----------------------------------------------------------------------------
(* Init and the steps that leave tables, clocks and unsent writes alone.   *)

LEMMA InitIInv == Init => IInv
<1> SUFFICES ASSUME Init PROVE IInv
  OBVIOUS
<1>1. At("idle", 0) \in Run
  BY AtFields DEF Pcs
<1>2. TypeOK
  BY <1>1, EmptyTableIsTable DEF Init, TypeOK
<1>3. /\ Held(rows) = {}
      /\ \A d \in Devices : /\ Held(local[d]) = {} /\ Held(unsent[d]) = {}
                            /\ Held(sync[d].push) = {} /\ Held(sync[d].acked) = {}
                            /\ Held(sync[d].page) = {}
  BY AtFields, EmptyTableIsTable DEF Init, Pcs
<1>4. QED
  BY <1>2, <1>3 DEF IInv, NoSilentLoss, ServerRowsHaveSeq, PendingIsOwn, PendingIds,
                    PushIsOlder, AcksFollowPush

\* A run that starts, ends or goes round again holds nothing in flight.
LEMMA FreshRun ==
  ASSUME IInv, TypeOK', NEW d \in Devices, NEW pc \in Pcs, NEW stalledAt \in Nat,
         sync' = [sync EXCEPT ![d] = At(pc, stalledAt)],
         UNCHANGED <<rows, local, clock, unsent>>
  PROVE  IInv'
<1>1. /\ \A e \in Devices \ {d} : sync'[e] = sync[e]
      /\ Held(sync'[d].push) = {} /\ Held(sync'[d].acked) = {} /\ Held(sync'[d].page) = {}
  BY AtFields DEF IInv, TypeOK
<1>2. (NoSilentLoss /\ \A e \in Devices : \A id \in Held(unsent[e]) : unsent[e][id].seq = Pending)'
  BY DEF IInv, NoSilentLoss
<1>3. ServerRowsHaveSeq'
  BY <1>1 DEF IInv, ServerRowsHaveSeq
<1>4. PendingIsOwn'
  BY <1>1 DEF IInv, PendingIsOwn, PendingIds
<1>5. PushIsOlder'
  BY <1>1 DEF IInv, PushIsOlder
<1>6. AcksFollowPush'
  BY <1>1 DEF IInv, AcksFollowPush
<1>7. QED
  BY <1>2, <1>3, <1>4, <1>5, <1>6 DEF IInv

\* The user writes: the row is pending, later than anything stamped before,
\* and not what any request in flight carries.
LEMMA UserWriteIInv ==
  ASSUME IInv, NEW d \in Devices, UserWrite(d)
  PROVE  IInv'
<1>1. PICK id \in Ids, row \in Row :
        /\ Write(d, id, row)
        /\ row.seq = Pending /\ row.upd \in Nat /\ row.upd > clock[d]
  <2>1. PICK id \in Ids, now \in (clock[d] + 1) .. MaxClock :
          \/ \E body \in Bodies : Create(d, id, body, now) \/ Edit(d, id, body, now)
          \/ Remove(d, id, now)
    BY DEF UserWrite
  <2>2. now \in Nat /\ now > clock[d]
    BY RunFields, SyncAssumption DEF IInv
  <2>3. ASSUME NEW body \in Bodies, Create(d, id, body, now)
        PROVE  \E row \in Row : Write(d, id, row) /\ row.seq = Pending /\ row.upd = now
    <3>1. Captured(body, now) \in Row
      BY <2>2 DEF Captured, Row, Pending
    <3>2. Captured(body, now).seq = Pending /\ Captured(body, now).upd = now
      BY DEF Captured
    <3>3. QED
      BY <2>3, <3>1, <3>2 DEF Create
  <2>4. ASSUME NEW body \in Bodies, Edit(d, id, body, now)
        PROVE  \E row \in Row : Write(d, id, row) /\ row.seq = Pending /\ row.upd = now
    <3>1. local[d][id] \in Row /\ ~local[d][id].deleted
      BY <2>4, RunFields, HeldRow DEF Edit, IInv
    <3>2. Edited(local[d][id], body, now) \in Row
      BY <2>2, <3>1 DEF Edited, Row, Pending
    <3>3. /\ Edited(local[d][id], body, now).seq = Pending
          /\ Edited(local[d][id], body, now).upd = now
      BY <3>1 DEF Edited, Row
    <3>4. QED
      BY <2>4, <3>2, <3>3 DEF Edit
  <2>5. ASSUME Remove(d, id, now)
        PROVE  \E row \in Row : Write(d, id, row) /\ row.seq = Pending /\ row.upd = now
    <3>1. local[d][id] \in Row
      BY <2>5, RunFields, HeldRow DEF Remove, IInv
    <3>2. Removed(local[d][id], now) \in Row
      BY <2>2, <3>1 DEF Removed, Row, Pending
    <3>3. /\ Removed(local[d][id], now).seq = Pending
          /\ Removed(local[d][id], now).upd = now
      BY <3>1 DEF Removed, Row
    <3>4. QED
      BY <2>5, <3>2, <3>3 DEF Remove
  <2>6. QED
    BY <2>1, <2>2, <2>3, <2>4, <2>5
<1>2. /\ UNCHANGED <<rows, sync>>
      /\ local' = [local EXCEPT ![d] = [local[d] EXCEPT ![id] = row]]
      /\ unsent' = [unsent EXCEPT ![d] = [unsent[d] EXCEPT ![id] = row]]
      /\ clock' = [clock EXCEPT ![d] = row.upd]
  BY <1>1 DEF Write
<1>3. /\ \A e \in Devices \ {d} : /\ local'[e] = local[e] /\ unsent'[e] = unsent[e]
                                  /\ clock'[e] = clock[e]
      /\ \A other \in Ids \ {id} : /\ local'[d][other] = local[d][other]
                                   /\ unsent'[d][other] = unsent[d][other]
      /\ local'[d][id] = row /\ unsent'[d][id] = row /\ clock'[d] = row.upd
      /\ local'[d] \in Table /\ unsent'[d] \in Table
  BY <1>1, <1>2, RunFields DEF IInv, TypeOK, Table, Maybe
<1>4. TypeOK'
  BY <1>1, <1>2, <1>3 DEF IInv, TypeOK, Write, kv
<1>5. row # NoRow
  BY NoRowIsNoRow
<1>6. NoSilentLoss' /\ \A e \in Devices : \A other \in Held(unsent'[e]) :
                         unsent'[e][other].seq = Pending
  BY <1>1, <1>3 DEF IInv, NoSilentLoss, Held
<1>7. ServerRowsHaveSeq'
  BY <1>2 DEF IInv, ServerRowsHaveSeq
<1>8. PendingIsOwn'
  <2>1. ASSUME NEW other \in PendingIds(d)'
        PROVE  local'[d][other].upd <= clock'[d]
    <3>1. CASE other = id
      BY <1>1, <1>3, <3>1
    <3>2. CASE other # id
      BY <1>1, <1>3, <3>2, RunFields, HeldRow DEF IInv, PendingIsOwn, PendingIds, Held
    <3>3. QED
      BY <3>1, <3>2
  <2>2. ASSUME NEW other \in Held(sync[d].push)
        PROVE  sync[d].push[other].upd <= clock'[d]
    BY <1>1, <1>3, RunFields, HeldRow DEF IInv, PendingIsOwn
  <2>3. QED
    BY <1>2, <1>3, <2>1, <2>2 DEF IInv, PendingIsOwn, PendingIds
<1>9. PushIsOlder'
  <2>1. ASSUME NEW other \in Held(unsent'[d]) \cap Held(sync[d].push)
        PROVE  \/ sync[d].pc = "sent" /\ sync[d].push[other] = unsent'[d][other]
               \/ sync[d].push[other].upd < unsent'[d][other].upd
    <3>1. CASE other = id
      BY <1>1, <1>3, <3>1, RunFields, HeldRow DEF IInv, PendingIsOwn
    <3>2. CASE other # id
      BY <1>3, <3>2 DEF IInv, PushIsOlder, Held
    <3>3. QED
      BY <3>1, <3>2
  <2>2. QED
    BY <1>2, <1>3, <2>1 DEF IInv, PushIsOlder
<1>10. AcksFollowPush'
  BY <1>2 DEF IInv, AcksFollowPush
<1>11. QED
  BY <1>4, <1>6, <1>7, <1>8, <1>9, <1>10 DEF IInv

-----------------------------------------------------------------------------
(* The steps of sync().                                                    *)

LEMMA CatchUpIInv ==
  ASSUME IInv, NEW d \in Devices, CatchUp(d)
  PROVE  IInv'
<1>1. /\ UNCHANGED <<rows, local, clock, unsent>>
      /\ \A e \in Devices \ {d} : sync'[e] = sync[e]
      /\ sync[d].pc \in {"epoch", "stamp"} /\ sync'[d].pc \in {"stamp", "loop"}
      /\ sync'[d].push = sync[d].push /\ sync'[d].acked = sync[d].acked
      /\ sync'[d].page = sync[d].page
  <2>1. CASE sync[d].pc = "epoch" /\ sync' = [sync EXCEPT ![d].pc = "stamp"]
    BY <2>1 DEF CatchUp, user, IInv, TypeOK, Run
  <2>2. CASE sync[d].pc = "stamp" /\ sync' = [sync EXCEPT ![d].pc = "loop"]
    BY <2>2 DEF CatchUp, user, IInv, TypeOK, Run
  <2>3. QED
    BY <2>1, <2>2 DEF CatchUp
<1>2. TypeOK'
  <2>1. cursor' \in [Devices -> Nat] /\ stale' \in [Devices -> BOOLEAN]
    <3>1. CASE cursor' = [cursor EXCEPT ![d] = 0] /\ UNCHANGED stale
      BY <3>1 DEF IInv, TypeOK
    <3>2. CASE stale' = [stale EXCEPT ![d] = FALSE] /\ UNCHANGED cursor
      BY <3>2 DEF IInv, TypeOK
    <3>3. QED
      BY <3>1, <3>2 DEF CatchUp
  <2>2. sync' \in [Devices -> Run]
    <3>1. PICK pc \in {"stamp", "loop"} : sync' = [sync EXCEPT ![d].pc = pc]
      BY DEF CatchUp
    <3>2. QED
      BY <3>1 DEF IInv, TypeOK, Run, Pcs
  <2>3. QED
    BY <2>1, <2>2 DEF CatchUp, user, IInv, TypeOK
<1>3. ServerRowsHaveSeq' /\ PendingIsOwn'
  BY <1>1 DEF IInv, ServerRowsHaveSeq, PendingIsOwn, PendingIds
<1>4. PushIsOlder'
  BY <1>1 DEF IInv, PushIsOlder
<1>5. AcksFollowPush'
  BY <1>1 DEF IInv, AcksFollowPush
<1>6. QED
  BY <1>1, <1>2, <1>3, <1>4, <1>5 DEF IInv, NoSilentLoss

\* The batch is cut from the pending rows, so an unsent write in it is in it
\* as the user left it.
LEMMA PushIInv ==
  ASSUME IInv, NEW d \in Devices, Push(d)
  PROVE  IInv'
<1>1. PICK batch \in SUBSET PendingIds(d) :
        sync' = [sync EXCEPT ![d] =
          [At("sent", 0) EXCEPT !.push = Only(local[d], batch),
                                !.since = cursor[d],
                                !.total = Cardinality(PendingIds(d)),
                                !.backlog = Cardinality(PendingIds(d)) > BatchSize]]
  BY DEF Push
<1> DEFINE total == Cardinality(PendingIds(d))
           more == total > BatchSize
           run == [At("sent", 0) EXCEPT !.push = Only(local[d], batch),
                                        !.since = cursor[d],
                                        !.total = total,
                                        !.backlog = more]
<1>2. UNCHANGED <<rows, local, clock, unsent>>
  BY DEF Push, user
<1>3. total \in Nat
  BY CountIsNat DEF PendingIds, Held
<1>4. Only(local[d], batch) \in Table
  BY OnlyIsTable, RunFields DEF IInv
<1>99. more \in BOOLEAN
  OBVIOUS
<1> HIDE DEF total, more
<1>5. /\ run \in Run /\ run.pc = "sent" /\ run.push = Only(local[d], batch)
      /\ Held(run.acked) = {} /\ Held(run.page) = {}
  <2> DEFINE start == At("sent", 0)
  <2>1. /\ start \in Run /\ start.pc = "sent"
        /\ Held(start.acked) = {} /\ Held(start.page) = {}
    BY AtFields DEF Pcs
  <2>2. cursor[d] \in Nat
    BY DEF IInv, TypeOK
  <2> HIDE DEF start
  <2>3. run = [start EXCEPT !.push = Only(local[d], batch), !.since = cursor[d],
                            !.total = total, !.backlog = more]
    BY DEF start
  <2> HIDE DEF run
  <2>4. QED
    BY <1>3, <1>4, <1>99, <2>1, <2>2, <2>3 DEF Run
<1> HIDE DEF run
<1>6. sync' = [sync EXCEPT ![d] = run]
  BY <1>1 DEF run, total, more
<1>7. /\ \A e \in Devices \ {d} : sync'[e] = sync[e]
      /\ sync'[d] = run
  BY <1>6 DEF IInv, TypeOK
<1>8. TypeOK'
  BY <1>5, <1>6 DEF Push, user, kv, IInv, TypeOK
<1>9. ASSUME NEW id \in Held(run.push)
      PROVE  id \in PendingIds(d) /\ run.push[id] = local[d][id]
  BY <1>5, OnlyIsTable, RunFields DEF IInv
<1>10. ServerRowsHaveSeq'
  BY <1>2, <1>5, <1>7 DEF IInv, ServerRowsHaveSeq
<1>11. PendingIsOwn'
  BY <1>2, <1>7, <1>9 DEF IInv, PendingIsOwn, PendingIds
<1>12. PushIsOlder'
  BY <1>2, <1>5, <1>7, <1>9 DEF IInv, PushIsOlder, NoSilentLoss
<1>13. AcksFollowPush'
  BY <1>5, <1>7 DEF IInv, AcksFollowPush
<1>14. QED
  BY <1>2, <1>8, <1>10, <1>11, <1>12, <1>13 DEF IInv, NoSilentLoss

\* What a committed push carried is unsent no more; the rest is later.
LEMMA CarriedFields ==
  ASSUME TypeOK, NEW d \in Devices, NEW push \in Table, Carried(d, push)
  PROVE  /\ unsent' \in [Devices -> Table]
         /\ \A e \in Devices \ {d} : unsent'[e] = unsent[e]
         /\ \A id \in Held(unsent'[d]) : /\ id \in Held(unsent[d])
                                         /\ unsent'[d][id] = unsent[d][id]
                                         /\ push[id] # unsent[d][id]
<1>1. unsent[d] \in Table
  BY DEF TypeOK
<1>2. unsent'[d] = [id \in Ids |-> IF push[id] = unsent[d][id] THEN NoRow ELSE unsent[d][id]]
  BY DEF Carried, TypeOK
<1>3. unsent'[d] \in Table
  BY <1>1, <1>2 DEF Table, Maybe
<1>4. unsent' \in [Devices -> Table] /\ \A e \in Devices \ {d} : unsent'[e] = unsent[e]
  BY <1>2, <1>3 DEF Carried, TypeOK
<1>5. QED
  BY <1>2, <1>4 DEF Held

LEMMA CommitIInv ==
  ASSUME IInv, NEW d \in Devices, Commit(d)
  PROVE  IInv'
<1>1. /\ Insert(sync[d].push) /\ Carried(d, sync[d].push) /\ sync[d].pc = "sent"
      /\ UNCHANGED <<local, clock>> /\ sync[d].push \in Table
  BY RunFields DEF Commit, IInv
<1>2. rows' \in Table /\ \A id \in Held(rows') : rows'[id].seq # Pending
  BY <1>1, InsertKeepsTable DEF IInv, TypeOK, ServerRowsHaveSeq
<1> DEFINE acked == Only(rows', Held(sync[d].push))
<1>3. /\ acked \in Table /\ Held(acked) \subseteq Held(sync[d].push)
      /\ \A id \in Held(acked) : acked[id].seq # Pending
  BY <1>2, OnlyIsTable
<1> HIDE DEF acked
<1>4. sync' = [sync EXCEPT ![d].pc = "committed", ![d].acked = acked]
  BY DEF Commit, acked
<1>5. /\ \A e \in Devices \ {d} : sync'[e] = sync[e]
      /\ sync'[d].pc = "committed" /\ sync'[d].acked = acked
      /\ sync'[d].push = sync[d].push /\ sync'[d].page = sync[d].page
  BY <1>4 DEF IInv, TypeOK, Run
<1>6. /\ unsent' \in [Devices -> Table]
      /\ \A e \in Devices \ {d} : unsent'[e] = unsent[e]
      /\ \A id \in Held(unsent'[d]) : /\ id \in Held(unsent[d])
                                      /\ unsent'[d][id] = unsent[d][id]
                                      /\ sync[d].push[id] # unsent[d][id]
  BY <1>1, CarriedFields DEF IInv
<1>7. sync' \in [Devices -> Run]
  <2>1. sync' = [sync EXCEPT ![d] = [sync[d] EXCEPT !.pc = "committed", !.acked = acked]]
    BY <1>4 DEF IInv, TypeOK
  <2>2. [sync[d] EXCEPT !.pc = "committed", !.acked = acked] \in Run
    BY <1>3, RunFields DEF IInv, Run, Pcs
  <2>3. QED
    BY <2>1, <2>2 DEF IInv, TypeOK
<1>8. TypeOK'
  BY <1>2, <1>6, <1>7 DEF Commit, kv, IInv, TypeOK
<1>9. NoSilentLoss' /\ \A e \in Devices : \A id \in Held(unsent'[e]) : unsent'[e][id].seq = Pending
  BY <1>1, <1>6 DEF IInv, NoSilentLoss
<1>10. ServerRowsHaveSeq'
  BY <1>2, <1>3, <1>5 DEF IInv, ServerRowsHaveSeq
<1>11. PendingIsOwn'
  BY <1>1, <1>5 DEF IInv, PendingIsOwn, PendingIds
<1>12. PushIsOlder'
  BY <1>5, <1>6 DEF IInv, PushIsOlder
<1>13. AcksFollowPush'
  BY <1>3, <1>5 DEF IInv, AcksFollowPush
<1>14. QED
  BY <1>8, <1>9, <1>10, <1>11, <1>12, <1>13 DEF IInv

\* The same for a request whose Device has moved on.
LEMMA CommitLateIInv ==
  ASSUME IInv, NEW d \in Devices, CommitLate(d)
  PROVE  IInv'
<1>1. /\ Insert(late[d]) /\ Carried(d, late[d]) /\ late[d] \in Table
      /\ UNCHANGED <<local, clock, sync>>
  BY DEF CommitLate, IInv, TypeOK
<1>2. rows' \in Table /\ \A id \in Held(rows') : rows'[id].seq # Pending
  BY <1>1, InsertKeepsTable DEF IInv, TypeOK, ServerRowsHaveSeq
<1>3. /\ unsent' \in [Devices -> Table]
      /\ \A e \in Devices \ {d} : unsent'[e] = unsent[e]
      /\ \A id \in Held(unsent'[d]) : /\ id \in Held(unsent[d])
                                      /\ unsent'[d][id] = unsent[d][id]
  BY <1>1, CarriedFields DEF IInv
<1>4. TypeOK'
  BY <1>2, <1>3, EmptyTableIsTable DEF CommitLate, kv, IInv, TypeOK
<1>5. NoSilentLoss' /\ \A e \in Devices : \A id \in Held(unsent'[e]) : unsent'[e][id].seq = Pending
  BY <1>1, <1>3 DEF IInv, NoSilentLoss
<1>6. ServerRowsHaveSeq'
  BY <1>1, <1>2 DEF IInv, ServerRowsHaveSeq
<1>7. PendingIsOwn'
  BY <1>1 DEF IInv, PendingIsOwn, PendingIds
<1>8. PushIsOlder'
  BY <1>1, <1>3 DEF IInv, PushIsOlder
<1>9. AcksFollowPush'
  BY <1>1 DEF IInv, AcksFollowPush
<1>10. QED
  BY <1>4, <1>5, <1>6, <1>7, <1>8, <1>9 DEF IInv

LEMMA RespondIInv ==
  ASSUME IInv, NEW d \in Devices, Respond(d)
  PROVE  IInv'
<1> DEFINE page == Only(rows, Page(rows, sync[d].since, BatchSize))
<1>1. PICK next \in Last(page, sync[d].since) :
        sync' = [sync EXCEPT ![d].pc = "apply", ![d].page = page, ![d].next = next]
  BY DEF Respond
<1>2. /\ page \in Table /\ Held(page) \subseteq Held(rows)
      /\ \A id \in Held(page) : page[id] = rows[id]
  BY OnlyIsTable DEF IInv, TypeOK
<1>3. next \in Nat
  BY <1>2, LastIsNat, RunFields DEF IInv
<1> HIDE DEF page
<1>4. UNCHANGED <<rows, local, clock, unsent>> /\ sync[d].pc = "committed"
  BY DEF Respond, user
<1>5. /\ \A e \in Devices \ {d} : sync'[e] = sync[e]
      /\ sync'[d].pc = "apply" /\ sync'[d].page = page
      /\ sync'[d].push = sync[d].push /\ sync'[d].acked = sync[d].acked
  BY <1>1 DEF IInv, TypeOK, Run
<1>6. TypeOK'
  <2>1. sync' = [sync EXCEPT ![d] = [sync[d] EXCEPT !.pc = "apply", !.page = page, !.next = next]]
    BY <1>1 DEF IInv, TypeOK
  <2>2. [sync[d] EXCEPT !.pc = "apply", !.page = page, !.next = next] \in Run
    BY <1>2, <1>3, RunFields DEF IInv, Run, Pcs
  <2>3. QED
    BY <2>1, <2>2 DEF Respond, user, kv, IInv, TypeOK
<1>7. ServerRowsHaveSeq'
  BY <1>2, <1>4, <1>5 DEF IInv, ServerRowsHaveSeq
<1>8. PendingIsOwn'
  BY <1>4, <1>5 DEF IInv, PendingIsOwn, PendingIds
<1>9. PushIsOlder'
  BY <1>4, <1>5 DEF IInv, PushIsOlder
<1>10. AcksFollowPush'
  BY <1>5 DEF IInv, AcksFollowPush
<1>11. QED
  BY <1>4, <1>6, <1>7, <1>8, <1>9, <1>10 DEF IInv, NoSilentLoss

\* An acknowledgement leaves an unsent write alone: the write is pending and
\* later than the row as pushed.  What it does apply carries a seq.
LEMMA ApplyAckIInv ==
  ASSUME IInv, NEW d \in Devices, NEW id \in Ids, ApplyAck(d, id)
  PROVE  IInv'
<1> DEFINE confirmed == sync[d].acked[id]
           asPushed == sync[d].push[id]
           row == Acknowledged(local[d][id], confirmed, asPushed)
<1>1. /\ UNCHANGED <<rows, clock, unsent>> /\ sync[d].pc = "apply"
      /\ id \in Held(sync[d].acked) /\ id \in Held(sync[d].push)
  BY DEF ApplyAck, user, IInv, AcksFollowPush
<1>2. confirmed \in Row /\ confirmed.seq # Pending /\ confirmed # NoRow
  BY <1>1, RunFields, HeldRow DEF IInv, ServerRowsHaveSeq
<1>3. row = local[d][id] \/ row = confirmed
  BY DEF Acknowledged
<1>4. local' = [local EXCEPT ![d] = [local[d] EXCEPT ![id] = row]]
  BY DEF ApplyAck
<1>5. id \in Held(unsent[d]) => row = local[d][id]
  <2>1. SUFFICES ASSUME id \in Held(unsent[d]) PROVE ~AckApplies(local[d][id], asPushed)
    BY DEF Acknowledged
  <2>2. /\ local[d][id] = unsent[d][id] /\ unsent[d][id] # NoRow
        /\ unsent[d][id].seq = Pending
    BY <2>1 DEF IInv, NoSilentLoss, Held
  <2>3. asPushed.upd < unsent[d][id].upd
    BY <1>1, <2>1 DEF IInv, PushIsOlder
  <2>4. asPushed.upd \in Nat /\ unsent[d][id].upd \in Nat
    BY <1>1, <2>1, RunFields, HeldRow DEF IInv
  <2>5. QED
    BY <2>2, <2>3, <2>4 DEF AckApplies
<1> HIDE DEF row, confirmed, asPushed
<1>6. /\ \A e \in Devices \ {d} : local'[e] = local[e] /\ sync'[e] = sync[e]
      /\ \A other \in Ids \ {id} : local'[d][other] = local[d][other]
      /\ local'[d][id] = row
  BY <1>4, RunFields DEF ApplyAck, IInv, TypeOK, Table
<1>7. [sync[d].acked EXCEPT ![id] = NoRow] \in Table
  BY RunFields DEF IInv, Table, Maybe
<1>8. sync' = [sync EXCEPT ![d] = [sync[d] EXCEPT !.acked = [sync[d].acked EXCEPT ![id] = NoRow]]]
  BY DEF ApplyAck, IInv, TypeOK
<1>9. /\ sync'[d] = [sync[d] EXCEPT !.acked = [sync[d].acked EXCEPT ![id] = NoRow]]
      /\ sync'[d] \in Run
  BY <1>7, <1>8, RunFields DEF IInv, TypeOK, Run
<1>10. /\ sync'[d].pc = sync[d].pc /\ sync'[d].push = sync[d].push
       /\ sync'[d].page = sync[d].page
       /\ sync'[d].acked = [sync[d].acked EXCEPT ![id] = NoRow]
  BY <1>9, RunFields DEF IInv, Run
<1>11. /\ Held(sync'[d].acked) \subseteq Held(sync[d].acked)
       /\ \A other \in Held(sync'[d].acked) : sync'[d].acked[other] = sync[d].acked[other]
  BY <1>10, RunFields DEF IInv, Held, Table
<1>12. TypeOK'
  <2>1. [local[d] EXCEPT ![id] = row] \in Table
    BY <1>2, <1>3, RunFields DEF IInv, Table, Maybe
  <2>2. local' \in [Devices -> Table] /\ sync' \in [Devices -> Run]
    BY <1>4, <1>8, <1>9, <2>1 DEF IInv, TypeOK
  <2>3. outdated' \in [Devices -> SUBSET Ids]
    BY DEF ApplyAck, IInv, TypeOK
  <2>4. QED
    BY <2>2, <2>3 DEF ApplyAck, user, kv, IInv, TypeOK
<1>13. NoSilentLoss'
  BY <1>1, <1>5, <1>6 DEF IInv, NoSilentLoss, Held
<1>14. ServerRowsHaveSeq'
  <2>1. /\ \A other \in Held(sync'[d].acked) : sync'[d].acked[other].seq # Pending
        /\ \A other \in Held(sync'[d].page) : sync'[d].page[other].seq # Pending
    BY <1>10, <1>11 DEF IInv, ServerRowsHaveSeq
  <2>2. QED
    BY <1>1, <1>6, <2>1 DEF IInv, ServerRowsHaveSeq
<1>15. PendingIsOwn'
  <2>1. ASSUME NEW other \in PendingIds(d)'
        PROVE  other \in PendingIds(d) /\ local'[d][other] = local[d][other]
    BY <1>2, <1>3, <1>6 DEF PendingIds, Held
  <2>2. QED
    BY <1>1, <1>6, <1>10, <2>1 DEF IInv, PendingIsOwn, PendingIds
<1>16. PushIsOlder'
  BY <1>1, <1>6, <1>10 DEF IInv, PushIsOlder
<1>17. AcksFollowPush'
  BY <1>1, <1>6, <1>10, <1>11 DEF IInv, AcksFollowPush
<1>18. QED
  BY <1>1, <1>12, <1>13, <1>14, <1>15, <1>16, <1>17 DEF IInv

\* A page replaces an unsent write only when it beats it, and the ghost says
\* so; whatever it applies carries a seq.
LEMMA ApplyPulledIInv ==
  ASSUME IInv, NEW d \in Devices, ApplyPulled(d)
  PROVE  IInv'
<1> DEFINE page == sync[d].page
           applied == {id \in Held(page) : PullApplies(local[d][id], page[id])}
           table == [id \in Ids |-> IF id \in applied THEN page[id] ELSE local[d][id]]
           left == [id \in Ids |-> IF /\ id \in applied \cap Held(unsent[d])
                                      /\ page[id].deleted \/ page[id].upd >= unsent[d][id].upd
                                     THEN NoRow ELSE unsent[d][id]]
<1>1. /\ local' = [local EXCEPT ![d] = table]
      /\ unsent' = [unsent EXCEPT ![d] = left]
      /\ sync' = [sync EXCEPT ![d].pc = "cursor", ![d].push = EmptyTable]
      /\ UNCHANGED <<rows, clock>> /\ Held(sync[d].acked) = {}
  BY DEF ApplyPulled, IInv, TypeOK
<1>2. /\ page \in Table /\ local[d] \in Table /\ unsent[d] \in Table
      /\ \A id \in Held(page) : page[id] \in Row /\ page[id].seq # Pending
  BY RunFields, HeldRow DEF IInv, ServerRowsHaveSeq
<1>3. table \in Table
  BY <1>2 DEF Table, Maybe, Held
<1>4. left \in Table
  BY <1>2 DEF Table, Maybe
<1>5. ASSUME NEW id \in Held(left)
      PROVE  /\ id \in Held(unsent[d]) /\ left[id] = unsent[d][id]
             /\ table[id] = local[d][id]
  <2>1. id \in Held(unsent[d]) /\ left[id] = unsent[d][id]
    BY <1>5 DEF Held
  <2>2. /\ local[d][id] = unsent[d][id] /\ local[d][id] # NoRow
        /\ local[d][id].seq = Pending
    BY <2>1 DEF IInv, NoSilentLoss, Held
  <2>3. id \notin applied
    <3>1. SUFFICES ASSUME id \in applied PROVE FALSE
      OBVIOUS
    <3>2. page[id].deleted \/ page[id].upd >= unsent[d][id].upd
      BY <2>2, <3>1 DEF PullApplies
    <3>3. left[id] = NoRow
      BY <2>1, <3>1, <3>2 DEF Held
    <3>4. QED
      BY <2>1, <3>3 DEF Held
  <2>4. QED
    BY <2>1, <2>3 DEF Held
<1>6. ASSUME NEW id \in Held(table), table[id].seq = Pending
      PROVE  id \in PendingIds(d) /\ table[id] = local[d][id]
  <2>1. id \in Ids /\ table[id] # NoRow
    BY DEF Held
  <2>2. id \notin applied
    BY <1>2, <1>6, <2>1
  <2>3. QED
    BY <1>6, <2>1, <2>2 DEF PendingIds, Held
<1> HIDE DEF page, applied, table, left
<1>7. /\ \A e \in Devices \ {d} : /\ sync'[e] = sync[e] /\ local'[e] = local[e]
                                  /\ unsent'[e] = unsent[e]
      /\ local'[d] = table /\ unsent'[d] = left
      /\ rows' = rows /\ clock' = clock
  BY <1>1 DEF IInv, TypeOK
<1>8. /\ sync'[d] = [sync[d] EXCEPT !.pc = "cursor", !.push = EmptyTable]
      /\ sync' \in [Devices -> Run]
  <2>1. sync' = [sync EXCEPT ![d] = [sync[d] EXCEPT !.pc = "cursor", !.push = EmptyTable]]
    BY <1>1 DEF IInv, TypeOK
  <2>2. [sync[d] EXCEPT !.pc = "cursor", !.push = EmptyTable] \in Run
    BY EmptyTableIsTable, RunFields DEF IInv, Run, Pcs
  <2>3. QED
    BY <2>1, <2>2 DEF IInv, TypeOK
<1>9. /\ sync'[d].pc = "cursor" /\ Held(sync'[d].push) = {}
      /\ sync'[d].acked = sync[d].acked /\ sync'[d].page = sync[d].page
  BY <1>8, EmptyTableIsTable, RunFields DEF IInv, Run
<1>10. TypeOK'
  <2>1. local' \in [Devices -> Table] /\ unsent' \in [Devices -> Table]
    BY <1>1, <1>3, <1>4 DEF IInv, TypeOK
  <2>2. outdated' \in [Devices -> SUBSET Ids]
    BY DEF ApplyPulled, IInv, TypeOK
  <2>3. QED
    BY <1>8, <2>1, <2>2 DEF ApplyPulled, kv, IInv, TypeOK
<1>11. NoSilentLoss' /\ \A e \in Devices : \A id \in Held(unsent'[e]) : unsent'[e][id].seq = Pending
  BY <1>5, <1>7 DEF IInv, NoSilentLoss
<1>12. ServerRowsHaveSeq'
  <2>1. /\ \A id \in Held(sync'[d].acked) : sync'[d].acked[id].seq # Pending
        /\ \A id \in Held(sync'[d].page) : sync'[d].page[id].seq # Pending
    BY <1>9 DEF IInv, ServerRowsHaveSeq
  <2>2. QED
    BY <1>7, <2>1 DEF IInv, ServerRowsHaveSeq
<1>13. PendingIsOwn'
  <2>1. ASSUME NEW id \in PendingIds(d)'
        PROVE  id \in PendingIds(d) /\ local'[d][id] = local[d][id]
    BY <1>6, <1>7 DEF PendingIds
  <2>2. \A id \in PendingIds(d)' : local'[d][id].upd <= clock'[d]
    BY <1>7, <2>1 DEF IInv, PendingIsOwn
  <2>3. \A e \in Devices \ {d} : PendingIds(e)' = PendingIds(e)
    BY <1>7 DEF PendingIds
  <2>4. QED
    BY <1>7, <1>9, <2>2, <2>3 DEF IInv, PendingIsOwn
<1>14. PushIsOlder'
  BY <1>7, <1>9 DEF IInv, PushIsOlder
<1>15. AcksFollowPush'
  BY <1>1, <1>7, <1>9 DEF IInv, AcksFollowPush
<1>16. QED
  BY <1>10, <1>11, <1>12, <1>13, <1>14, <1>15 DEF IInv

-----------------------------------------------------------------------------
(* The starts and ends of a run, and the whole.                            *)

LEMMA StartSyncIInv ==
  ASSUME IInv, NEW d \in Devices, StartSync(d)
  PROVE  IInv'
<1>1. PICK pc \in {"epoch", "loop"} : sync' = [sync EXCEPT ![d] = At(pc, 0)]
  BY DEF StartSync
<1>2. pc \in Pcs /\ At(pc, 0) \in Run
  BY AtFields DEF Pcs
<1>3. TypeOK'
  BY <1>1, <1>2 DEF StartSync, user, kv, IInv, TypeOK
<1>4. UNCHANGED <<rows, local, clock, unsent>> /\ 0 \in Nat
  BY DEF StartSync, user
<1>5. QED
  BY <1>1, <1>2, <1>3, <1>4, FreshRun

LEMMA GiveUpIInv ==
  ASSUME IInv, NEW d \in Devices, GiveUp(d)
  PROVE  IInv'
<1>1. "idle" \in Pcs /\ At("idle", 0) \in Run
  BY AtFields DEF Pcs
<1>2. TypeOK'
  BY <1>1 DEF GiveUp, user, kv, IInv, TypeOK
<1>3. QED
  BY <1>1, <1>2, FreshRun DEF GiveUp, user

LEMMA EndIterationIInv ==
  ASSUME IInv, NEW d \in Devices, EndIteration(d)
  PROVE  IInv'
<1>1. PICK pc \in {"loop", "idle"}, stalledAt \in Nat :
        sync' = [sync EXCEPT ![d] = At(pc, stalledAt)]
  <2>1. sync[d].total \in Nat /\ 0 \in Nat
    BY RunFields DEF IInv
  <2>2. QED
    BY <2>1 DEF EndIteration
<1>2. pc \in Pcs /\ At(pc, stalledAt) \in Run
  BY AtFields DEF Pcs
<1>3. cursor' \in [Devices -> Nat]
  BY RunFields DEF EndIteration, IInv, TypeOK
<1>4. TypeOK'
  BY <1>1, <1>2, <1>3 DEF EndIteration, user, IInv, TypeOK
<1>5. QED
  BY <1>1, <1>2, <1>4, FreshRun DEF EndIteration, user

LEMMA FailIInv ==
  ASSUME IInv, NEW d \in Devices, Fail(d)
  PROVE  IInv'
<1>1. "idle" \in Pcs /\ At("idle", 0) \in Run
  BY AtFields DEF Pcs
<1>2. late' \in [Devices -> Table] /\ mishaps' \in [fails : Nat, upgrades : Nat]
  BY RunFields DEF Fail, IInv, TypeOK
<1>3. TypeOK'
  BY <1>1, <1>2 DEF Fail, user, kv, IInv, TypeOK
<1>4. QED
  BY <1>1, <1>3, FreshRun DEF Fail, user

LEMMA UpgradeIInv ==
  ASSUME IInv, NEW d \in Devices, Upgrade(d)
  PROVE  IInv'
<1>1. "idle" \in Pcs /\ At("idle", 0) \in Run
  BY AtFields DEF Pcs
<1>2. /\ outdated' \in [Devices -> SUBSET Ids] /\ stale' \in [Devices -> BOOLEAN]
      /\ mishaps' \in [fails : Nat, upgrades : Nat]
  BY DEF Upgrade, Held, IInv, TypeOK
<1>3. TypeOK'
  BY <1>1, <1>2 DEF Upgrade, user, IInv, TypeOK
<1>4. QED
  BY <1>1, <1>3, FreshRun DEF Upgrade, user

LEMMA NextIInv == IInv /\ [Next]_vars => IInv'
<1> SUFFICES ASSUME IInv, [Next]_vars PROVE IInv'
  OBVIOUS
<1>1. CASE UNCHANGED vars
  BY <1>1 DEF vars, IInv, TypeOK, NoSilentLoss, ServerRowsHaveSeq, PendingIsOwn, PendingIds,
              PushIsOlder, AcksFollowPush
<1>2. ASSUME NEW d \in Devices, SyncStep(d) PROVE IInv'
  BY <1>2, CatchUpIInv, GiveUpIInv, PushIInv, CommitIInv, RespondIInv, ApplyAckIInv,
     ApplyPulledIInv, EndIterationIInv DEF SyncStep
<1>3. QED
  BY <1>1, <1>2, UserWriteIInv, StartSyncIInv, FailIInv, CommitLateIInv, UpgradeIInv DEF Next

\* The invariant the theorems below rest on: a write no push has carried is
\* newer than anything in flight about its row.
THEOREM Invariance == Spec => []IInv
<1> QED
  BY InitIInv, NextIInv, PTL DEF Spec

\* Every variable keeps its type, and a tombstone never keeps its body.
THEOREM TypeCorrect == Spec => []TypeOK
<1>1. IInv => TypeOK
  BY DEF IInv
<1>2. QED
  BY <1>1, InitIInv, NextIInv, PTL DEF Spec

\* What the user last wrote stays in the store, pending, until a push carries
\* it or a newer row or a deletion beats it: for any number of Devices, any
\* skew between their clocks, any loss, delay and restart.
THEOREM NothingLostSilently == Spec => []NoSilentLoss
<1>1. IInv => NoSilentLoss
  BY DEF IInv
<1>2. QED
  BY <1>1, InitIInv, NextIInv, PTL DEF Spec

-----------------------------------------------------------------------------
(* A Device and the log                                                    *)

\* All that LogInvAt says of a Device but the Server's rows.
Untouched(d) ==
  /\ local'[d] = local[d]
  /\ cursor'[d] = cursor[d]
  /\ stale'[d] = stale[d]
  /\ outdated'[d] = outdated[d]
  /\ sync'[d] = sync[d]

\* What an insert does to the log: no row leaves it, a row that moves goes
\* beyond everything reached so far, and a tombstone stays one.
LogMoves ==
  /\ \A id \in Held(rows) :
       /\ id \in Held(rows')
       /\ rows'[id].seq >= rows[id].seq
       /\ rows[id].deleted => rows'[id].deleted
  /\ \A id \in Held(rows') :
       \/ id \in Held(rows) /\ rows'[id] = rows[id]
       \/ \A n \in Nat : Reached(n) => rows'[id].seq > n
  /\ \A n \in Nat : Reached(n) => Reached(n)'

-----------------------------------------------------------------------------
(* Inserting.                                                              *)

LEMMA LogVocabulary ==
  /\ Log!EmptyTable = EmptyTable
  /\ Log!Table = Table
  /\ Log!Pending = Pending
  /\ \A t : Log!Held(t) = Held(t)
  /\ \A old, pushed : Log!Changes(old, pushed) <=> Changes(old, pushed)
  /\ \A pushed, seq : Log!Stored(pushed, seq) = Stored(pushed, seq)
BY DEF Log!EmptyTable, EmptyTable, Log!Table, Table, Log!Maybe, Maybe, Log!Row, Row,
       Log!Pending, Pending, Log!Held, Held, Log!Changes, Changes, Log!Stored, Stored

\* An insert is one push of a change log.
LEMMA InsertIsAPush ==
  ASSUME rows \in Table, NEW push \in Table, Insert(push)
  PROVE  Log!Commit(push)
<1> DEFINE changed == {id \in Held(push) : Changes(rows[id], push[id])}
<1>1. PICK last \in Last(rows, 0) :
        \E seqs \in Bijection(changed, (last + 1) .. (last + Cardinality(changed))) :
          rows' = [id \in Ids |-> IF id \in changed THEN Stored(push[id], seqs[id])
                                                    ELSE rows[id]]
  BY DEF Insert
<1>2. PICK seqs \in Bijection(changed, (last + 1) .. (last + Cardinality(changed))) :
        rows' = [id \in Ids |-> IF id \in changed THEN Stored(push[id], seqs[id])
                                                  ELSE rows[id]]
  BY <1>1
<1>3. last \in Nat
  BY LastIsNat
<1>4. changed \in SUBSET Ids
  BY DEF Held
<1>5. Cardinality(changed) \in Nat
  BY <1>4, CountIsNat
<1>6. \A id \in changed : seqs[id] \in (last + 1) .. (last + Cardinality(changed))
  BY DEF Bijection, Injection
<1>7. \A id, other \in changed : id # other => seqs[id] # seqs[other]
  BY DEF Bijection, Injection, IsInjective
<1>8. \A id \in changed : seqs[id] \in Nat /\ seqs[id] > last
  BY <1>3, <1>5, <1>6
<1>9. \A other \in Held(rows) : rows[other].seq \in Nat /\ rows[other].seq <= last
  BY HeldRow DEF Last
<1>10. \A id \in changed : push[id] \in Row
  BY HeldRow
<1>11. \A id \in changed : /\ rows'[id] = Stored(push[id], seqs[id])
                           /\ rows'[id].seq = seqs[id]
  BY <1>2, <1>4, <1>8, <1>10, StoredIsRow
<1>12. \A id \in Ids \ changed : rows'[id] = rows[id]
  BY <1>2
<1> HIDE DEF changed
<1>13. \A id \in changed :
         /\ rows'[id] = Stored(push[id], rows'[id].seq)
         /\ rows'[id].seq \in Nat \ {Pending}
         /\ \A other \in Held(rows) : rows[other].seq < rows'[id].seq
         /\ \A other \in changed \ {id} : rows'[other].seq # rows'[id].seq
  BY <1>3, <1>7, <1>8, <1>9, <1>11 DEF Pending
<1>14. QED
  BY <1>12, <1>13, LogVocabulary DEF Log!Commit, changed

LEMMA InsertMoves ==
  ASSUME rows \in Table, rows' \in Table, NEW push \in Table, Insert(push)
  PROVE  LogMoves
<1> DEFINE changed == {id \in Held(push) : Changes(rows[id], push[id])}
<1>1. /\ \A id \in Ids \ changed : rows'[id] = rows[id]
      /\ \A id \in changed :
           /\ rows'[id] = Stored(push[id], rows'[id].seq)
           /\ rows'[id].seq \in Nat \ {Pending}
           /\ \A other \in Held(rows) : rows[other].seq < rows'[id].seq
  BY InsertIsAPush, LogVocabulary DEF Log!Commit
<1>2. \A id \in changed : id \in Ids /\ push[id] \in Row
  BY HeldRow
<1>3. \A id \in changed : rows'[id] \in Row /\ id \in Held(rows')
  BY <1>1, <1>2, StoredIsRow, NoRowIsNoRow DEF Held
<1>4. \A id \in changed : \A n \in Nat : Reached(n) => rows'[id].seq > n
  <2>1. SUFFICES ASSUME NEW id \in changed, NEW n \in Nat, Reached(n)
                 PROVE  rows'[id].seq > n
    OBVIOUS
  <2>2. CASE n = 0
    BY <1>1, <2>2 DEF Pending
  <2>3. CASE \E other \in Held(rows) : n <= rows[other].seq
    <3>1. PICK other \in Held(rows) : n <= rows[other].seq
      BY <2>3
    <3>2. rows[other].seq < rows'[id].seq /\ rows[other].seq \in Nat /\ rows'[id].seq \in Nat
      BY <1>1, HeldRow
    <3>3. QED
      BY <3>1, <3>2
  <2>4. QED
    BY <2>1, <2>2, <2>3 DEF Reached
<1>5. \A id \in Held(rows) : rows[id].deleted => id \notin changed
  BY DEF Changes, Held
<1>6. \A id \in Held(rows) : /\ id \in Held(rows') /\ rows'[id].seq >= rows[id].seq
                             /\ rows[id].deleted => rows'[id].deleted
  <2>1. SUFFICES ASSUME NEW id \in Held(rows)
                 PROVE  /\ id \in Held(rows') /\ rows'[id].seq >= rows[id].seq
                        /\ rows[id].deleted => rows'[id].deleted
    OBVIOUS
  <2>2. rows[id].seq \in Nat /\ id \in Ids /\ rows[id] # NoRow
    BY HeldRow
  <2>3. CASE id \in changed
    <3>1. rows'[id].seq > rows[id].seq /\ rows'[id].seq \in Nat
      BY <1>1, <2>3
    <3>2. QED
      BY <1>3, <1>5, <2>2, <2>3, <3>1
  <2>4. CASE id \notin changed
    BY <1>1, <2>2, <2>4 DEF Held
  <2>5. QED
    BY <2>3, <2>4
<1>7. \A id \in Held(rows') : \/ id \in Held(rows) /\ rows'[id] = rows[id]
                              \/ \A n \in Nat : Reached(n) => rows'[id].seq > n
  BY <1>1, <1>4 DEF Held
<1>8. ASSUME NEW n \in Nat, Reached(n) PROVE Reached(n)'
  <2>1. CASE n = 0
    BY <2>1 DEF Reached
  <2>2. ASSUME NEW id \in Held(rows), n <= rows[id].seq PROVE Reached(n)'
    <3>1. rows[id].seq \in Nat /\ rows'[id].seq \in Nat
      BY <1>6, HeldRow
    <3>2. id \in Held(rows') /\ n <= rows'[id].seq
      BY <1>6, <2>2, <3>1
    <3>3. QED
      BY <3>2 DEF Reached, Held
  <2>3. QED
    BY <1>8, <2>1, <2>2 DEF Reached
<1> HIDE DEF changed
<1>9. QED
  BY <1>6, <1>7, <1>8 DEF LogMoves

\* What the steps below need to know of types.
LEMMA LogFields ==
  ASSUME TypeOK, NEW d \in Devices
  PROVE  /\ rows \in Table /\ local[d] \in Table /\ cursor[d] \in Nat
         /\ sync[d].pc \in Pcs /\ sync[d].push \in Table /\ sync[d].since \in Nat
         /\ sync[d].acked \in Table /\ sync[d].page \in Table /\ sync[d].next \in Nat
         /\ late[d] \in Table /\ clock[d] \in Nat
         /\ \A id \in Held(rows) : rows[id].seq \in Nat
BY RunFields, HeldRow DEF TypeOK

\* Nobody but the Server has done anything.
LEMMA InsertKeeps ==
  ASSUME TypeOK, TypeOK', LogMoves, NEW d \in Devices, LogInvAt(d), Untouched(d)
  PROVE  LogInvAt(d)'
<1>1. /\ cursor[d] \in Nat /\ sync[d].next \in Nat /\ sync[d].since \in Nat
      /\ Reached(cursor[d]) /\ Reached(sync[d].next)
      /\ \A id \in Held(rows) : rows[id].seq \in Nat
      /\ \A id \in Held(rows') : rows'[id].seq \in Nat
  BY LogFields DEF LogInvAt, CursorHolds, TypeOK, Table, Held, Maybe, Row
<1>2. PendingIds(d)' = PendingIds(d)
  BY DEF Untouched, PendingIds
<1>3. CursorHolds(d)'
  BY <1>1 DEF LogInvAt, CursorHolds, LogMoves, Untouched
<1>4. RowsAreKnown(d)'
  BY <1>2 DEF LogInvAt, RowsAreKnown, LogMoves, Untouched
<1>5. AnswersAreFresh(d)'
  <2>1. ASSUME NEW id \in Held(rows), NEW n \in Nat, Reached(n), rows[id].seq > n
        PROVE  rows'[id].seq > n
    <3>1. rows'[id].seq >= rows[id].seq /\ id \in Held(rows')
      BY DEF LogMoves
    <3>2. QED
      BY <1>1, <2>1, <3>1
  <2>2. \A id \in Held(sync[d].acked) :
          sync[d].acked[id] = rows'[id] \/ rows'[id].seq > cursor[d]
    BY <1>1, <2>1 DEF LogInvAt, RowsAreKnown, AnswersAreFresh, LogMoves
  <2>3. \A id \in Held(sync[d].page) :
          sync[d].page[id] = rows'[id] \/ rows'[id].seq > sync[d].next
    BY <1>1, <2>1 DEF LogInvAt, RowsAreKnown, AnswersAreFresh, LogMoves
  <2>4. QED
    BY <2>2, <2>3 DEF AnswersAreFresh, Untouched
<1>6. ASSUME NEW n \in Nat, Reached(n), Covers(d, n)
      PROVE  Covers(d, n)'
  <2>1. SUFFICES ASSUME NEW id \in Held(rows'), rows'[id].seq <= n
                 PROVE  /\ id \in Held(local[d])
                        /\ id \in PendingIds(d) \/ local[d][id] = rows'[id]
    BY <1>2 DEF Covers, Untouched
  <2>2. id \in Held(rows) /\ rows'[id] = rows[id]
    BY <1>1, <1>6, <2>1 DEF LogMoves
  <2>3. QED
    BY <1>6, <2>1, <2>2 DEF Covers
<1>7. ASSUME NEW n \in Nat, Renews(d, n)
      PROVE  Renews(d, n)'
  <2>1. SUFFICES ASSUME NEW id \in Held(rows), rows[id].seq > n
                 PROVE  id \in Held(rows') /\ rows'[id].seq > n
    BY <1>2, <1>7 DEF Renews, Untouched
  <2>2. id \in Held(rows') /\ rows'[id].seq >= rows[id].seq
    BY DEF LogMoves
  <2>3. QED
    BY <1>1, <2>1, <2>2
<1>8. PageIsWhole(d)'
  <2>1. ASSUME sync[d].pc = "apply", NEW id \in Held(rows'),
               rows'[id].seq > sync[d].since, rows'[id].seq <= sync[d].next
        PROVE  id \in Held(sync[d].page)
    <3>1. id \in Held(rows) /\ rows'[id] = rows[id]
      BY <1>1, <2>1 DEF LogMoves
    <3>2. QED
      BY <2>1, <3>1 DEF LogInvAt, PageIsWhole
  <2>2. sync[d].pc = "cursor" =>
          Covers(d, sync[d].next)' /\ (~stale[d] => Renews(d, sync[d].next)')
    <3>1. (Covers(d, sync[d].next) => Covers(d, sync[d].next)') /\
          (Renews(d, sync[d].next) => Renews(d, sync[d].next)')
      <4>1. sync'[d].next = sync[d].next
        BY DEF Untouched
      <4>2. QED
        BY <1>1, <1>6, <1>7, <4>1 DEF Covers, Renews
    <3>2. QED
      BY <3>1 DEF LogInvAt, PageIsWhole
  <2>3. QED
    BY <2>1, <2>2 DEF LogInvAt, PageIsWhole, Untouched
<1>9. Covers(d, cursor[d])' /\ (~stale[d] => Renews(d, cursor[d]))'
  BY <1>1, <1>6, <1>7 DEF LogInvAt, Covers, Renews, Untouched
<1>10. PushIsPending(d)'
  BY <1>2 DEF LogInvAt, PushIsPending, Untouched
<1>11. DeletionsAreKnown(d)'
  <2>1. \A id \in Held(rows) : Buried(d, id) => Buried(d, id)'
    BY DEF Buried, LogMoves, Untouched
  <2>2. QED
    BY <1>2, <2>1 DEF LogInvAt, RowsAreKnown, DeletionsAreKnown, Untouched
<1>12. QED
  BY <1>3, <1>4, <1>5, <1>8, <1>9, <1>10, <1>11 DEF LogInvAt

LEMMA SameRowsKeep ==
  ASSUME NEW d \in Devices, LogInvAt(d), Untouched(d), rows' = rows
  PROVE  LogInvAt(d)'
BY DEF LogInvAt, Untouched, CursorHolds, Reached, RowsAreKnown, AnswersAreFresh, PageIsWhole,
       Covers, Renews, PushIsPending, PendingIds, DeletionsAreKnown, Buried

-----------------------------------------------------------------------------
(* The user, and the steps of sync(): what each does to its own Device.    *)

\* A row the user writes is pending, and pending rows are asked for nothing.
LEMMA WrittenLog ==
  ASSUME IInv, IInv', NEW d \in Devices, LogInvAt(d), NEW id \in Ids, NEW row \in Row,
         row.seq = Pending, Write(d, id, row)
  PROVE  LogInvAt(d)'
<1>1. /\ \A other \in Ids \ {id} : local'[d][other] = local[d][other]
      /\ local'[d][id] = row /\ row # NoRow
      /\ rows' = rows /\ cursor' = cursor /\ stale' = stale /\ outdated' = outdated
      /\ sync' = sync
  BY RunFields, NoRowIsNoRow DEF Write, kv, IInv, TypeOK, Table
<1>2. /\ id \in Held(local[d])' /\ id \in PendingIds(d)'
      /\ Held(local[d]) \subseteq Held(local[d])' /\ PendingIds(d) \subseteq PendingIds(d)'
      /\ \A other \in Held(local[d])' \ PendingIds(d)' :
           /\ other \in Held(local[d]) \ PendingIds(d)
           /\ local'[d][other] = local[d][other]
  BY <1>1 DEF Held, PendingIds
<1>3. \A n : Covers(d, n) => Covers(d, n)'
  BY <1>1, <1>2 DEF Covers, Held, PendingIds
<1>4. \A n : Renews(d, n) => Renews(d, n)'
  BY <1>1, <1>2 DEF Renews
<1>5. CursorHolds(d)' /\ AnswersAreFresh(d)'
  BY <1>1 DEF LogInvAt, CursorHolds, AnswersAreFresh, Reached
<1>6. RowsAreKnown(d)'
  BY <1>1, <1>2 DEF LogInvAt, RowsAreKnown
<1>7. PageIsWhole(d)'
  BY <1>1, <1>3, <1>4 DEF LogInvAt, PageIsWhole, Covers, Renews
<1>8. Covers(d, cursor[d])' /\ (~stale[d] => Renews(d, cursor[d]))'
  BY <1>1, <1>3, <1>4 DEF LogInvAt, Covers, Renews
<1>9. PushIsPending(d)'
  BY <1>1, <1>2 DEF LogInvAt, PushIsPending
<1>10. DeletionsAreKnown(d)'
  BY <1>1, <1>2 DEF LogInvAt, DeletionsAreKnown, Buried
<1>11. QED
  BY <1>5, <1>6, <1>7, <1>8, <1>9, <1>10 DEF LogInvAt

\* What a user's write is: captured, edited or removed, it is pending, and of
\* a row that is deleted here it is deleted.
LEMMA UserWritesRows ==
  ASSUME IInv, NEW d \in Devices, UserWrite(d)
  PROVE  \E id \in Ids, row \in Row :
           /\ Write(d, id, row) /\ row.seq = Pending /\ row.upd <= MaxClock
           /\ row.upd > clock[d]
           /\ id \in Held(local[d]) /\ local[d][id].deleted => row.deleted
<1>1. PICK id \in Ids, now \in (clock[d] + 1) .. MaxClock :
        \/ \E body \in Bodies : Create(d, id, body, now) \/ Edit(d, id, body, now)
        \/ Remove(d, id, now)
  BY DEF UserWrite
<1>2. now \in Nat /\ now > clock[d] /\ now <= MaxClock
  BY RunFields, SyncAssumption DEF IInv
<1>3. ASSUME NEW body \in Bodies, Create(d, id, body, now)
      PROVE  /\ Captured(body, now) \in Row /\ Write(d, id, Captured(body, now))
             /\ Captured(body, now).seq = Pending /\ Captured(body, now).upd = now
             /\ id \notin Held(local[d])
  BY <1>2, <1>3 DEF Create, Captured, Row, Pending, Held
<1>4. ASSUME NEW body \in Bodies, Edit(d, id, body, now)
      PROVE  LET row == Edited(local[d][id], body, now)
             IN  /\ row \in Row /\ Write(d, id, row) /\ row.seq = Pending /\ row.upd = now
                 /\ ~local[d][id].deleted
  <2>1. local[d][id] \in Row /\ ~local[d][id].deleted
    BY <1>4, RunFields, HeldRow DEF Edit, IInv
  <2>2. QED
    BY <1>2, <1>4, <2>1 DEF Edit, Edited, Row, Pending
<1>5. ASSUME Remove(d, id, now)
      PROVE  LET row == Removed(local[d][id], now)
             IN  /\ row \in Row /\ Write(d, id, row) /\ row.seq = Pending /\ row.upd = now
                 /\ row.deleted
  <2>1. local[d][id] \in Row
    BY <1>5, RunFields, HeldRow DEF Remove, IInv
  <2>2. QED
    BY <1>2, <1>5, <2>1 DEF Remove, Removed, Row, Pending
<1>6. QED
  BY <1>1, <1>2, <1>3, <1>4, <1>5

\* A run that starts, ends or goes round again, with a Cursor the Device covers.
LEMMA FreshRunLog ==
  ASSUME IInv, NEW d \in Devices, LogInvAt(d), NEW pc \in {"idle", "epoch", "loop"},
         NEW stalledAt \in Nat, sync' = [sync EXCEPT ![d] = At(pc, stalledAt)],
         rows' = rows, local' = local,
         Reached(cursor'[d]), Covers(d, cursor'[d]), outdated'[d] \subseteq Held(local[d]),
         stale'[d] \/ (outdated'[d] = outdated[d] /\ Renews(d, cursor'[d]))
  PROVE  LogInvAt(d)'
<1>1. /\ sync'[d].pc = pc /\ sync'[d].next = 0
      /\ Held(sync'[d].push) = {} /\ Held(sync'[d].acked) = {} /\ Held(sync'[d].page) = {}
  BY AtFields DEF IInv, TypeOK, At, Pcs
<1>2. PendingIds(d)' = PendingIds(d)
  BY DEF PendingIds
<1>3. CursorHolds(d)' /\ AnswersAreFresh(d)' /\ PageIsWhole(d)'
  BY <1>1 DEF CursorHolds, AnswersAreFresh, PageIsWhole, Reached
<1>4. RowsAreKnown(d)' /\ PushIsPending(d)' /\ DeletionsAreKnown(d)'
  BY <1>1, <1>2 DEF LogInvAt, RowsAreKnown, PushIsPending, DeletionsAreKnown, Buried
<1>5. Covers(d, cursor[d])' /\ (~stale[d] => Renews(d, cursor[d]))'
  BY <1>2 DEF Covers, Renews
<1>6. QED
  BY <1>3, <1>4, <1>5 DEF LogInvAt

\* The reset Cursor covers everything, and the epoch is recorded only after it.
LEMMA CatchUpLog ==
  ASSUME IInv, NEW d \in Devices, LogInvAt(d), CatchUp(d)
  PROVE  LogInvAt(d)'
<1>1. /\ rows' = rows /\ local' = local /\ outdated' = outdated
      /\ sync[d].pc \in {"epoch", "stamp"}
      /\ cursor'[d] = 0
      /\ sync'[d].pc \in {"stamp", "loop"}
      /\ sync'[d].push = sync[d].push /\ sync'[d].acked = sync[d].acked
      /\ sync'[d].page = sync[d].page /\ sync'[d].next = sync[d].next
      /\ sync'[d].since = sync[d].since
  BY DEF CatchUp, LogInvAt, CursorHolds, IInv, TypeOK, Run
<1>2. /\ Held(sync[d].page) = {} /\ Held(sync[d].acked) = {}
  BY <1>1 DEF LogInvAt, PageIsWhole, IInv, AcksFollowPush
<1>3. PendingIds(d)' = PendingIds(d)
  BY <1>1 DEF PendingIds
<1>4. \A id \in Held(rows) : rows[id].seq > 0
  BY LogFields DEF IInv, ServerRowsHaveSeq, Pending
<1>5. Covers(d, cursor[d])' /\ Renews(d, cursor[d])'
  <2>1. Covers(d, cursor[d])'
    BY <1>1, <1>4, LogFields DEF Covers, IInv
  <2>2. \A id \in outdated[d] : id \in PendingIds(d) \/ id \in Held(rows)
    BY DEF LogInvAt, RowsAreKnown
  <2>3. QED
    BY <1>1, <1>3, <1>4, <2>1, <2>2 DEF Renews
<1>6. CursorHolds(d)' /\ AnswersAreFresh(d)' /\ PageIsWhole(d)'
  BY <1>1, <1>2 DEF LogInvAt, CursorHolds, AnswersAreFresh, PageIsWhole, Reached
<1>7. RowsAreKnown(d)' /\ PushIsPending(d)' /\ DeletionsAreKnown(d)'
  BY <1>1, <1>2, <1>3 DEF LogInvAt, RowsAreKnown, PushIsPending, DeletionsAreKnown, Buried
<1>8. QED
  BY <1>5, <1>6, <1>7 DEF LogInvAt

LEMMA PushLog ==
  ASSUME IInv, NEW d \in Devices, LogInvAt(d), Push(d)
  PROVE  LogInvAt(d)' /\ \A id \in Held(sync'[d].push) : sync'[d].push[id].seq = Pending
<1>1. PICK batch \in SUBSET PendingIds(d) : \E total, backlog :
        sync' = [sync EXCEPT ![d] =
          [At("sent", 0) EXCEPT !.push = Only(local[d], batch), !.since = cursor[d],
                                !.total = total, !.backlog = backlog]]
  BY DEF Push
<1>2. /\ sync'[d].pc = "sent" /\ sync'[d].push = Only(local[d], batch)
      /\ sync'[d].since = cursor[d] /\ sync'[d].next = 0
      /\ sync'[d].acked = EmptyTable /\ sync'[d].page = EmptyTable
  BY <1>1 DEF At, IInv, TypeOK
<1>3. /\ rows' = rows /\ local' = local /\ cursor' = cursor /\ stale' = stale
      /\ outdated' = outdated /\ PendingIds(d)' = PendingIds(d)
  BY DEF Push, kv, PendingIds
<1>4. /\ Held(sync'[d].push) \subseteq PendingIds(d)
      /\ \A id \in Held(sync'[d].push) : sync'[d].push[id].seq = Pending
  BY <1>2, LogFields, OnlyIsTable DEF PendingIds, IInv
<1>5. Held(sync'[d].acked) = {} /\ Held(sync'[d].page) = {}
  BY <1>2, EmptyTableIsTable
<1>6. CursorHolds(d)' /\ AnswersAreFresh(d)' /\ PageIsWhole(d)'
  BY <1>2, <1>3, <1>5 DEF LogInvAt, CursorHolds, AnswersAreFresh, PageIsWhole, Reached
<1>7. RowsAreKnown(d)' /\ PushIsPending(d)' /\ DeletionsAreKnown(d)'
  BY <1>3, <1>4, <1>5 DEF LogInvAt, RowsAreKnown, PushIsPending, DeletionsAreKnown, Buried
<1>8. Covers(d, cursor[d])' /\ (~stale[d] => Renews(d, cursor[d]))'
  BY <1>3 DEF LogInvAt, Covers, Renews
<1>9. QED
  BY <1>4, <1>6, <1>7, <1>8 DEF LogInvAt

\* The acknowledgement is the rows as they are after the insert.
LEMMA CommitLog ==
  ASSUME IInv, IInv', NEW d \in Devices, LogInvAt(d), Commit(d)
  PROVE  LogInvAt(d)'
<1>1. /\ Insert(sync[d].push) /\ sync[d].push \in Table /\ sync[d].pc = "sent"
      /\ rows \in Table /\ rows' \in Table
      /\ local' = local /\ cursor' = cursor /\ stale' = stale /\ outdated' = outdated
  BY LogFields DEF Commit, kv, IInv, TypeOK
<1>2. LogMoves
  BY <1>1, InsertMoves
<1>3. /\ sync'[d].pc = "committed" /\ sync'[d].acked = Only(rows', Held(sync[d].push))
      /\ sync'[d].push = sync[d].push /\ sync'[d].page = sync[d].page
      /\ sync'[d].since = sync[d].since /\ sync'[d].next = sync[d].next
  BY DEF Commit, IInv, TypeOK, Run
<1>4. /\ Held(sync'[d].acked) \subseteq Held(rows') \cap Held(sync[d].push)
      /\ \A id \in Held(sync'[d].acked) : sync'[d].acked[id] = rows'[id]
      /\ Held(sync[d].page) = {}
  BY <1>1, <1>3, OnlyIsTable DEF LogInvAt, PageIsWhole
<1>5. PendingIds(d)' = PendingIds(d) /\ Held(sync[d].push) \subseteq PendingIds(d)
  BY <1>1 DEF PendingIds, LogInvAt, PushIsPending
<1>6. /\ cursor[d] \in Nat /\ sync[d].next \in Nat
      /\ Reached(cursor[d]) /\ Reached(sync[d].next)
      /\ \A id \in Held(rows) : rows[id].seq \in Nat
      /\ \A id \in Held(rows') : rows'[id].seq \in Nat
  BY <1>1, LogFields, HeldRow DEF IInv, LogInvAt, CursorHolds
<1>7. CursorHolds(d)'
  BY <1>1, <1>2, <1>3, <1>6 DEF LogInvAt, CursorHolds, LogMoves
<1>8. AnswersAreFresh(d)' /\ PageIsWhole(d)'
  BY <1>3, <1>4 DEF AnswersAreFresh, PageIsWhole
<1>9. RowsAreKnown(d)' /\ PushIsPending(d)'
  BY <1>1, <1>2, <1>3, <1>4, <1>5 DEF LogInvAt, RowsAreKnown, PushIsPending, LogMoves
<1>10. DeletionsAreKnown(d)'
  <2>1. ASSUME NEW id \in Held(local[d]) \ PendingIds(d), local[d][id].deleted
        PROVE  rows'[id].deleted
    BY <1>2, <2>1 DEF LogInvAt, RowsAreKnown, DeletionsAreKnown, Buried, LogMoves
  <2>2. QED
    BY <1>1, <1>3, <1>4, <1>5, <2>1 DEF DeletionsAreKnown, Buried
<1>11. Covers(d, cursor[d])'
  <2>1. \A id \in Held(rows') : rows'[id].seq <= cursor[d] =>
          id \in Held(rows) /\ rows'[id] = rows[id]
    BY <1>2, <1>6 DEF LogMoves
  <2>2. QED
    BY <1>1, <1>5, <2>1 DEF LogInvAt, Covers
<1>12. (~stale[d] => Renews(d, cursor[d]))'
  <2>1. \A id \in Held(rows) : rows[id].seq > cursor[d] =>
          id \in Held(rows') /\ rows'[id].seq > cursor[d]
    BY <1>2, <1>6 DEF LogMoves
  <2>2. QED
    BY <1>1, <1>5, <2>1 DEF LogInvAt, Renews
<1>13. QED
  BY <1>7, <1>8, <1>9, <1>10, <1>11, <1>12 DEF LogInvAt

\* The page ends where a batch ends, and skips nothing before that.
LEMMA PageSkipsNothing ==
  ASSUME rows \in Table, NEW since \in Nat, NEW page, NEW next \in Last(page, since),
         page = Only(rows, Page(rows, since, BatchSize)),
         NEW id \in Held(rows), rows[id].seq > since, rows[id].seq <= next
  PROVE  id \in Held(page)
<1> DEFINE before(row) == {other \in Newer(rows, since) : rows[other].seq < row.seq}
<1>1. /\ page \in Table /\ Held(page) = Held(rows) \cap Page(rows, since, BatchSize)
      /\ \A other \in Held(page) : page[other] = rows[other]
  BY OnlyIsTable
<1>2. PICK last \in Held(page) : next = page[last].seq
  BY HeldRow DEF Last
<1>3. rows[id].seq <= rows[last].seq /\ last \in Held(rows) /\ last \in Page(rows, since, BatchSize)
  BY <1>1, <1>2
<1>4. \A other \in Held(rows) : rows[other].seq \in Nat
  BY HeldRow
<1>5. before(rows[id]) \subseteq before(rows[last])
  BY <1>3, <1>4 DEF Newer
<1>6. /\ before(rows[last]) \in SUBSET Ids /\ before(rows[id]) \in SUBSET Ids
      /\ IsFiniteSet(before(rows[last]))
  BY SyncAssumption, FS_Subset DEF Newer, Held
<1>7. Cardinality(before(rows[id])) <= Cardinality(before(rows[last]))
  BY <1>5, <1>6, FS_Subset
<1>8. Cardinality(before(rows[last])) < BatchSize
  BY <1>3 DEF Page
<1>9. /\ Cardinality(before(rows[id])) \in Nat /\ Cardinality(before(rows[last])) \in Nat
      /\ BatchSize \in Nat
  BY <1>6, CountIsNat, SyncAssumption
<1>10. Cardinality(before(rows[id])) < BatchSize
  BY <1>7, <1>8, <1>9
<1>11. id \in Page(rows, since, BatchSize)
  BY <1>10 DEF Page, Newer
<1>12. QED
  BY <1>1, <1>11

LEMMA RespondLog ==
  ASSUME IInv, NEW d \in Devices, LogInvAt(d), Respond(d)
  PROVE  LogInvAt(d)'
<1> DEFINE page == Only(rows, Page(rows, sync[d].since, BatchSize))
<1>1. PICK next \in Last(page, sync[d].since) :
        sync' = [sync EXCEPT ![d].pc = "apply", ![d].page = page, ![d].next = next]
  BY DEF Respond
<1>2. /\ page \in Table /\ Held(page) \subseteq Held(rows)
      /\ \A id \in Held(page) : page[id] = rows[id] /\ rows[id].seq > sync[d].since
      /\ sync[d].since \in Nat
  <2>1. rows \in Table /\ sync[d].since \in Nat
    BY LogFields DEF IInv
  <2>2. /\ page \in Table
        /\ Held(page) = Held(rows) \cap Page(rows, sync[d].since, BatchSize)
        /\ \A id \in Held(page) : page[id] = rows[id]
    BY <2>1, OnlyIsTable
  <2>3. \A id \in Page(rows, sync[d].since, BatchSize) : rows[id].seq > sync[d].since
    BY DEF Page, Newer
  <2>4. QED
    BY <2>1, <2>2, <2>3
<1>3. /\ next \in Nat /\ next >= sync[d].since
      /\ next = sync[d].since \/ \E id \in Held(page) : next = page[id].seq
      /\ \A id \in Held(page) : page[id].seq <= next
  BY <1>2, HeldRow DEF Last
<1>4. \A id \in Held(rows) : rows[id].seq > sync[d].since /\ rows[id].seq <= next =>
        id \in Held(page)
  BY <1>2, PageSkipsNothing, LogFields DEF IInv
<1> HIDE DEF page
<1>5. /\ rows' = rows /\ local' = local /\ cursor' = cursor /\ stale' = stale
      /\ outdated' = outdated /\ PendingIds(d)' = PendingIds(d)
      /\ sync[d].pc = "committed" /\ sync[d].since = cursor[d]
  BY DEF Respond, kv, PendingIds, LogInvAt, CursorHolds
<1>6. /\ sync'[d].pc = "apply" /\ sync'[d].page = page /\ sync'[d].next = next
      /\ sync'[d].push = sync[d].push /\ sync'[d].acked = sync[d].acked
      /\ sync'[d].since = sync[d].since
  BY <1>1 DEF IInv, TypeOK, Run
<1>7. Reached(next)
  <2>1. CASE next = sync[d].since
    BY <1>5, <2>1 DEF LogInvAt, CursorHolds
  <2>2. ASSUME NEW id \in Held(page), next = page[id].seq PROVE Reached(next)
    <3>1. id \in Held(rows) /\ next = rows[id].seq
      BY <1>2, <2>2
    <3>2. QED
      BY <1>3, <3>1 DEF Reached
  <2>3. QED
    BY <1>3, <2>1, <2>2
<1>8. CursorHolds(d)'
  BY <1>3, <1>5, <1>6, <1>7 DEF LogInvAt, CursorHolds, Reached
<1>9. RowsAreKnown(d)' /\ AnswersAreFresh(d)' /\ PushIsPending(d)'
  BY <1>2, <1>5, <1>6 DEF LogInvAt, RowsAreKnown, AnswersAreFresh, PushIsPending
<1>10. PageIsWhole(d)'
  BY <1>4, <1>5, <1>6 DEF PageIsWhole
<1>11. DeletionsAreKnown(d)'
  <2>1. \A id \in Ids : rows[id].deleted => Buried(d, id)'
    BY <1>2, <1>5, <1>6 DEF Buried
  <2>2. QED
    BY <1>2, <1>5, <1>6, <2>1 DEF LogInvAt, DeletionsAreKnown, Buried, Held
<1>12. Covers(d, cursor[d])' /\ (~stale[d] => Renews(d, cursor[d]))'
  BY <1>5 DEF LogInvAt, Covers, Renews
<1>13. QED
  BY <1>8, <1>9, <1>10, <1>11, <1>12 DEF LogInvAt

\* An acknowledgement finds its row pending, and if it is behind the log, the
\* row is still ahead of the Cursor.
LEMMA ApplyAckLog ==
  ASSUME IInv, NEW d \in Devices, LogInvAt(d), NEW id \in Ids, ApplyAck(d, id)
  PROVE  LogInvAt(d)'
<1> DEFINE confirmed == sync[d].acked[id]
           applies == AckApplies(local[d][id], sync[d].push[id])
<1>1. /\ rows' = rows /\ cursor' = cursor /\ stale' = stale
      /\ sync[d].pc = "apply" /\ id \in Held(sync[d].acked)
      /\ id \in PendingIds(d) /\ id \in Held(rows)
  BY DEF ApplyAck, kv, LogInvAt, PushIsPending, RowsAreKnown
<1>2. confirmed \in Row /\ confirmed # NoRow /\ confirmed.seq # Pending
  BY <1>1, LogFields, HeldRow DEF IInv, ServerRowsHaveSeq
<1>3. /\ \A other \in Ids \ {id} : local'[d][other] = local[d][other]
      /\ local'[d][id] = IF applies THEN confirmed ELSE local[d][id]
      /\ outdated'[d] = IF applies THEN outdated[d] \ {id} ELSE outdated[d]
  BY LogFields DEF ApplyAck, Acknowledged, IInv, TypeOK, Table
<1>4. /\ sync'[d].pc = "apply" /\ sync'[d].push = sync[d].push
      /\ sync'[d].page = sync[d].page /\ sync'[d].since = sync[d].since
      /\ sync'[d].next = sync[d].next
      /\ Held(sync'[d].acked) = Held(sync[d].acked) \ {id}
      /\ \A other \in Ids \ {id} : sync'[d].acked[other] = sync[d].acked[other]
  <2>1. sync'[d] = [sync[d] EXCEPT !.acked = [sync[d].acked EXCEPT ![id] = NoRow]]
    BY DEF ApplyAck, IInv, TypeOK
  <2>2. /\ sync'[d].acked = [sync[d].acked EXCEPT ![id] = NoRow]
        /\ sync'[d].pc = sync[d].pc /\ sync'[d].push = sync[d].push
        /\ sync'[d].page = sync[d].page /\ sync'[d].since = sync[d].since
        /\ sync'[d].next = sync[d].next
    BY <2>1, RunFields DEF IInv, Run
  <2>3. QED
    BY <1>1, <2>2, LogFields DEF IInv, Table, Held
<1>5. /\ Held(local[d])' = Held(local[d])
      /\ PendingIds(d)' = IF applies THEN PendingIds(d) \ {id} ELSE PendingIds(d)
  BY <1>1, <1>2, <1>3 DEF Held, PendingIds
<1> HIDE DEF confirmed, applies
<1>6. CursorHolds(d)'
  BY <1>1, <1>4 DEF LogInvAt, CursorHolds, Reached
<1>7. RowsAreKnown(d)' /\ AnswersAreFresh(d)' /\ PushIsPending(d)'
  <2>1. RowsAreKnown(d)'
    BY <1>1, <1>3, <1>4, <1>5 DEF LogInvAt, RowsAreKnown
  <2>2. \A other \in Held(sync'[d].acked) : other \in Ids \ {id}
    BY <1>4 DEF Held
  <2>3. AnswersAreFresh(d)'
    BY <1>1, <1>4, <2>2 DEF LogInvAt, AnswersAreFresh
  <2>4. PushIsPending(d)'
    BY <1>4, <1>5 DEF LogInvAt, PushIsPending
  <2>5. QED
    BY <2>1, <2>3, <2>4
<1>8. PageIsWhole(d)'
  BY <1>1, <1>4 DEF LogInvAt, PageIsWhole
<1>9. DeletionsAreKnown(d)'
  <2>1. \A other : Buried(d, other) => Buried(d, other)'
    BY <1>1, <1>4 DEF Buried
  <2>2. confirmed.deleted => Buried(d, id)
    BY <1>1 DEF confirmed, LogInvAt, DeletionsAreKnown
  <2>3. ASSUME NEW other \in Held(local[d])' \ PendingIds(d)', local'[d][other].deleted
        PROVE  Buried(d, other)'
    <3>1. CASE other = id
      BY <1>1, <1>3, <1>5, <2>1, <2>2, <2>3, <3>1
    <3>2. CASE other # id
      <4>1. other \in Held(local[d]) \ PendingIds(d) /\ local[d][other].deleted
        BY <1>3, <1>5, <2>3, <3>2 DEF Held
      <4>2. QED
        BY <2>1, <4>1 DEF LogInvAt, DeletionsAreKnown
    <3>3. QED
      BY <3>1, <3>2
  <2>4. \A other \in Held(sync'[d].acked) : sync'[d].acked[other].deleted => Buried(d, other)'
    BY <1>4, <2>1 DEF LogInvAt, DeletionsAreKnown, Held
  <2>5. \A other \in Held(sync'[d].page) : sync'[d].page[other].deleted => Buried(d, other)'
    BY <1>4, <2>1 DEF LogInvAt, DeletionsAreKnown
  <2>6. QED
    BY <2>3, <2>4, <2>5 DEF DeletionsAreKnown
<1>10. Covers(d, cursor[d])'
  <2>1. SUFFICES ASSUME NEW other \in Held(rows), rows[other].seq <= cursor[d]
                 PROVE  /\ other \in Held(local[d])'
                        /\ other \in PendingIds(d)' \/ local'[d][other] = rows[other]
    BY <1>1 DEF Covers
  <2>2. CASE other = id
    <3>1. confirmed = rows[id]
      BY <1>1, <2>1, <2>2, LogFields DEF confirmed, LogInvAt, AnswersAreFresh, IInv
    <3>2. QED
      BY <1>1, <1>3, <1>5, <2>2, <3>1 DEF PendingIds
  <2>3. CASE other # id
    BY <1>3, <1>5, <2>1, <2>3 DEF LogInvAt, Covers, Held
  <2>4. QED
    BY <2>2, <2>3
<1>11. (~stale[d] => Renews(d, cursor[d]))'
  BY <1>1, <1>3, <1>5 DEF LogInvAt, Renews
<1>12. QED
  BY <1>6, <1>7, <1>8, <1>9, <1>10, <1>11 DEF LogInvAt

\* Applying the page brings the Device up to the next Cursor.
LEMMA ApplyPulledLog ==
  ASSUME IInv, NEW d \in Devices, LogInvAt(d), ApplyPulled(d)
  PROVE  LogInvAt(d)'
<1> DEFINE page == sync[d].page
           applied == {id \in Held(page) : PullApplies(local[d][id], page[id])}
<1>1. /\ rows' = rows /\ cursor' = cursor /\ stale' = stale
      /\ sync[d].pc = "apply" /\ Held(sync[d].acked) = {}
      /\ local'[d] = [id \in Ids |-> IF id \in applied THEN page[id] ELSE local[d][id]]
      /\ outdated'[d] = outdated[d] \ applied
  BY DEF ApplyPulled, kv, IInv, TypeOK
<1>2. /\ sync'[d].pc = "cursor" /\ sync'[d].page = page
      /\ sync'[d].acked = sync[d].acked /\ sync'[d].since = sync[d].since
      /\ sync'[d].next = sync[d].next /\ Held(sync'[d].push) = {}
  BY EmptyTableIsTable DEF ApplyPulled, IInv, TypeOK, Run
<1>3. /\ applied \subseteq Held(page) /\ Held(page) \subseteq Ids
      /\ Held(page) \subseteq Held(rows)
      /\ \A id \in Held(page) : page[id] # NoRow /\ page[id].seq # Pending
  BY LogFields DEF IInv, ServerRowsHaveSeq, LogInvAt, RowsAreKnown, Held
<1>4. \A id \in Held(page) \ applied : id \in PendingIds(d)
  BY <1>3 DEF PullApplies, PendingIds, Held
<1>5. /\ Held(local[d])' = Held(local[d]) \cup applied
      /\ PendingIds(d)' = PendingIds(d) \ applied
      /\ \A id \in Ids \ applied : local'[d][id] = local[d][id]
      /\ \A id \in applied : local'[d][id] = page[id]
  BY <1>1, <1>3 DEF Held, PendingIds
<1>6. /\ \A id \in Held(page) : page[id] = rows[id] \/ rows[id].seq > sync[d].next
      /\ sync[d].next \in Nat /\ sync[d].since \in Nat /\ sync[d].since = cursor[d]
      /\ sync[d].next >= sync[d].since
      /\ \A id \in Held(rows) : rows[id].seq \in Nat
      /\ \A id \in Held(rows) : rows[id].seq > sync[d].since /\ rows[id].seq <= sync[d].next =>
           id \in Held(page)
  BY <1>1, LogFields DEF LogInvAt, AnswersAreFresh, CursorHolds, PageIsWhole, IInv
<1> HIDE DEF page, applied
<1>7. ASSUME NEW id \in Held(rows), rows[id].seq <= sync[d].next
      PROVE  /\ id \in Held(local[d])'
             /\ id \in PendingIds(d)' \/ local'[d][id] = rows[id]
  <2>1. CASE id \in applied
    <3>1. page[id] = rows[id]
      BY <1>3, <1>6, <1>7, <2>1
    <3>2. QED
      BY <1>5, <2>1, <3>1
  <2>2. CASE id \in Held(page) \ applied
    BY <1>4, <1>5, <2>2 DEF PendingIds
  <2>3. CASE id \notin Held(page)
    <3>1. rows[id].seq <= cursor[d] /\ id \notin applied /\ id \in Ids
      BY <1>3, <1>6, <1>7, <2>3 DEF Held
    <3>2. /\ id \in Held(local[d])
          /\ id \in PendingIds(d) \/ local[d][id] = rows[id]
      BY <3>1 DEF LogInvAt, Covers
    <3>3. QED
      BY <1>5, <3>1, <3>2
  <2>4. QED
    BY <2>1, <2>2, <2>3
<1>8. Covers(d, sync[d].next)' /\ Covers(d, cursor[d])'
  BY <1>1, <1>2, <1>6, <1>7, LogFields DEF Covers, IInv
<1>9. ASSUME ~stale[d], NEW id \in outdated'[d]
      PROVE  \/ id \in PendingIds(d)'
             \/ id \in Held(rows) /\ rows[id].seq > sync[d].next
  <2>1. id \in outdated[d] /\ id \notin applied
    BY <1>1, <1>9
  <2>2. id \in PendingIds(d) \/ (id \in Held(rows) /\ rows[id].seq > cursor[d])
    BY <1>9, <2>1 DEF LogInvAt, Renews
  <2>3. CASE id \in PendingIds(d)
    BY <1>5, <2>1, <2>3
  <2>4. CASE id \in Held(rows) /\ rows[id].seq > cursor[d] /\ id \notin PendingIds(d)
    <3>1. id \notin Held(page)
      BY <1>4, <2>1, <2>4
    <3>2. QED
      BY <1>6, <2>4, <3>1
  <2>5. QED
    BY <2>2, <2>3, <2>4
<1>10. (~stale[d] => Renews(d, sync[d].next))' /\ (~stale[d] => Renews(d, cursor[d]))'
  BY <1>1, <1>2, <1>6, <1>9, LogFields DEF Renews, IInv
<1>11. CursorHolds(d)'
  BY <1>1, <1>2 DEF LogInvAt, CursorHolds, Reached
<1>12. RowsAreKnown(d)' /\ AnswersAreFresh(d)' /\ PushIsPending(d)'
  <2>1. RowsAreKnown(d)'
    BY <1>1, <1>2, <1>3, <1>5 DEF LogInvAt, RowsAreKnown, page
  <2>2. QED
    BY <1>1, <1>2, <2>1 DEF LogInvAt, AnswersAreFresh, PushIsPending, page
<1>13. PageIsWhole(d)'
  BY <1>2, <1>8, <1>10 DEF PageIsWhole
<1>14. DeletionsAreKnown(d)'
  <2>1. \A id : Buried(d, id) => Buried(d, id)'
    BY <1>1, <1>2 DEF Buried, page
  <2>2. ASSUME NEW id \in Held(local[d])' \ PendingIds(d)', local'[d][id].deleted
        PROVE  Buried(d, id)'
    <3>1. CASE id \in applied
      BY <1>3, <1>5, <2>1, <2>2, <3>1 DEF LogInvAt, DeletionsAreKnown, page
    <3>2. CASE id \notin applied
      <4>1. id \in Held(local[d]) \ PendingIds(d) /\ local[d][id].deleted
        BY <1>5, <2>2, <3>2 DEF Held
      <4>2. QED
        BY <2>1, <4>1 DEF LogInvAt, DeletionsAreKnown
    <3>3. QED
      BY <3>1, <3>2
  <2>3. QED
    BY <1>1, <1>2, <2>1, <2>2 DEF LogInvAt, DeletionsAreKnown, page
<1>15. QED
  BY <1>8, <1>10, <1>11, <1>12, <1>13, <1>14 DEF LogInvAt

LEMMA EndIterationLog ==
  ASSUME IInv, NEW d \in Devices, LogInvAt(d), EndIteration(d)
  PROVE  LogInvAt(d)'
<1>1. PICK pc \in {"loop", "idle"}, stalledAt \in Nat :
        sync' = [sync EXCEPT ![d] = At(pc, stalledAt)]
  <2>1. sync[d].total \in Nat /\ 0 \in Nat
    BY RunFields DEF IInv
  <2>2. QED
    BY <2>1 DEF EndIteration
<1>2. /\ rows' = rows /\ local' = local /\ stale' = stale /\ outdated' = outdated
      /\ sync[d].pc = "cursor"
  BY DEF EndIteration
<1>3. cursor'[d] = sync[d].next
  <2>1. sync[d].since = cursor[d] /\ sync[d].next >= sync[d].since
    BY <1>2 DEF LogInvAt, CursorHolds
  <2>2. sync[d].next \in Nat /\ sync[d].since \in Nat
    BY LogFields DEF IInv
  <2>3. cursor'[d] = IF sync[d].next > sync[d].since THEN sync[d].next ELSE cursor[d]
    BY DEF EndIteration, IInv, TypeOK
  <2>4. QED
    BY <2>1, <2>2, <2>3
<1>4. /\ Reached(cursor'[d]) /\ Covers(d, cursor'[d])
      /\ outdated'[d] \subseteq Held(local[d])
      /\ stale'[d] \/ Renews(d, cursor'[d])
  BY <1>2, <1>3 DEF LogInvAt, CursorHolds, PageIsWhole, RowsAreKnown
<1>5. QED
  BY <1>1, <1>2, <1>4, FreshRunLog

-----------------------------------------------------------------------------
(* The whole.                                                              *)

\* What a step of d leaves alone, of the other Devices.
OthersUntouched(d) ==
  \A e \in Devices \ {d} : Untouched(e) /\ clock'[e] = clock[e] /\ late'[e] = late[e]

\* What a step of d needs to show.
DeviceStep(d) ==
  /\ LogInvAt(d)' /\ RequestsFit(d)'
  /\ OthersUntouched(d)
  /\ rows' = rows \/ LogMoves

LEMMA StepsAreEnough ==
  ASSUME IInv, IInv', LogInv, NEW d \in Devices, DeviceStep(d)
  PROVE  LogInv'
<1>1. ASSUME NEW e \in Devices \ {d} PROVE LogInvAt(e)' /\ RequestsFit(e)'
  <2>1. LogInvAt(e) /\ Untouched(e)
    BY DEF LogInv, DeviceStep, OthersUntouched
  <2>2. LogInvAt(e)'
    BY <2>1, InsertKeeps, SameRowsKeep DEF DeviceStep, IInv
  <2>3. RequestsFit(e)'
    BY DEF LogInv, DeviceStep, OthersUntouched, Untouched, RequestsFit
  <2>4. QED
    BY <2>2, <2>3
<1>2. QED
  BY <1>1 DEF LogInv, DeviceStep

LEMMA UserWriteStep ==
  ASSUME IInv, IInv', LogInv, NEW d \in Devices, UserWrite(d)
  PROVE  DeviceStep(d)
<1>1. PICK id \in Ids, row \in Row :
        /\ Write(d, id, row) /\ row.seq = Pending /\ row.upd <= MaxClock
        /\ row.upd > clock[d]
  BY UserWritesRows
<1>2. LogInvAt(d)'
  BY <1>1, WrittenLog DEF LogInv
<1>3. /\ clock'[d] = row.upd /\ sync' = sync /\ late' = late /\ rows' = rows
      /\ OthersUntouched(d)
  BY <1>1 DEF Write, kv, OthersUntouched, Untouched, IInv, TypeOK
<1>4. ASSUME NEW other \in Held(late[d]) PROVE late[d][other].upd <= row.upd
  <2>1. late[d][other].upd <= clock[d] /\ late[d][other].upd \in Nat
    BY LogFields, HeldRow DEF LogInv, RequestsFit, IInv
  <2>2. clock[d] \in Nat /\ row.upd \in Nat
    BY LogFields DEF IInv, Row
  <2>3. QED
    BY <1>1, <2>1, <2>2
<1>5. RequestsFit(d)'
  BY <1>1, <1>3, <1>4 DEF LogInv, RequestsFit
<1>6. QED
  BY <1>2, <1>3, <1>5 DEF DeviceStep

\* A step that neither writes, pushes nor gives up on a push.
LEMMA QuietStep ==
  ASSUME LogInv, NEW d \in Devices, LogInvAt(d)', OthersUntouched(d),
         rows' = rows \/ LogMoves, clock' = clock, late' = late,
         sync'[d].push = sync[d].push \/ Held(sync'[d].push) = {}
  PROVE  DeviceStep(d)
BY DEF DeviceStep, LogInv, RequestsFit

LEMMA FreshRunPushesNothing ==
  ASSUME IInv, NEW d \in Devices, NEW pc \in {"idle", "epoch", "loop"}, NEW stalledAt \in Nat,
         sync' = [sync EXCEPT ![d] = At(pc, stalledAt)]
  PROVE  Held(sync'[d].push) = {}
<1>1. sync'[d] = At(pc, stalledAt)
  BY DEF IInv, TypeOK
<1>2. Held(At(pc, stalledAt).push) = {}
  BY AtFields DEF Pcs
<1>3. QED
  BY <1>1, <1>2

LEMMA StartSyncStep ==
  ASSUME IInv, LogInv, NEW d \in Devices, StartSync(d)
  PROVE  DeviceStep(d)
<1>1. PICK pc \in {"epoch", "loop"} : sync' = [sync EXCEPT ![d] = At(pc, 0)]
  BY DEF StartSync
<1>2. /\ rows' = rows /\ local' = local /\ cursor' = cursor /\ stale' = stale
      /\ outdated' = outdated /\ clock' = clock /\ late' = late
  BY DEF StartSync, kv, user
<1>3. LogInvAt(d) /\ 0 \in Nat
  BY DEF LogInv
<1>4. LogInvAt(d)'
  BY <1>1, <1>2, <1>3, FreshRunLog DEF LogInvAt, CursorHolds, RowsAreKnown
<1>5. Held(sync'[d].push) = {}
  BY <1>1, <1>3, FreshRunPushesNothing
<1>6. OthersUntouched(d)
  BY <1>1, <1>2 DEF OthersUntouched, Untouched, IInv, TypeOK
<1>7. QED
  BY <1>2, <1>4, <1>5, <1>6, QuietStep

LEMMA GiveUpStep ==
  ASSUME IInv, LogInv, NEW d \in Devices, GiveUp(d)
  PROVE  DeviceStep(d)
<1>1. sync' = [sync EXCEPT ![d] = At("idle", 0)]
  BY DEF GiveUp
<1>2. /\ rows' = rows /\ local' = local /\ cursor' = cursor /\ stale' = stale
      /\ outdated' = outdated /\ clock' = clock /\ late' = late
  BY DEF GiveUp, kv, user
<1>3. LogInvAt(d) /\ 0 \in Nat
  BY DEF LogInv
<1>4. LogInvAt(d)'
  BY <1>1, <1>2, <1>3, FreshRunLog DEF LogInvAt, CursorHolds, RowsAreKnown
<1>5. Held(sync'[d].push) = {}
  BY <1>1, <1>3, FreshRunPushesNothing
<1>6. OthersUntouched(d)
  BY <1>1, <1>2 DEF OthersUntouched, Untouched, IInv, TypeOK
<1>7. QED
  BY <1>2, <1>4, <1>5, <1>6, QuietStep

LEMMA CatchUpStep ==
  ASSUME IInv, LogInv, NEW d \in Devices, CatchUp(d)
  PROVE  DeviceStep(d)
<1>1. LogInvAt(d)'
  BY CatchUpLog DEF LogInv
<1>2. rows' = rows /\ clock' = clock /\ late' = late /\ sync'[d].push = sync[d].push
  BY DEF CatchUp, user, IInv, TypeOK, Run
<1>3. OthersUntouched(d)
  BY DEF CatchUp, user, OthersUntouched, Untouched, IInv, TypeOK
<1>4. QED
  BY <1>1, <1>2, <1>3, QuietStep

LEMMA PushStep ==
  ASSUME IInv, LogInv, NEW d \in Devices, Push(d)
  PROVE  DeviceStep(d)
<1>1. LogInvAt(d)' /\ \A id \in Held(sync'[d].push) : sync'[d].push[id].seq = Pending
  BY PushLog DEF LogInv
<1>2. rows' = rows /\ clock' = clock /\ late' = late
  BY DEF Push, user
<1>3. OthersUntouched(d)
  BY DEF Push, user, kv, OthersUntouched, Untouched, IInv, TypeOK
<1>4. RequestsFit(d)'
  BY <1>1, <1>2 DEF LogInv, RequestsFit
<1>5. QED
  BY <1>1, <1>2, <1>3, <1>4 DEF DeviceStep

LEMMA CommitStep ==
  ASSUME IInv, IInv', LogInv, NEW d \in Devices, Commit(d)
  PROVE  DeviceStep(d)
<1>1. LogInvAt(d)'
  BY CommitLog DEF LogInv
<1>2. clock' = clock /\ late' = late /\ sync'[d].push = sync[d].push
  BY DEF Commit, IInv, TypeOK, Run
<1>3. LogMoves
  <2>1. rows \in Table /\ rows' \in Table /\ sync[d].push \in Table
    BY LogFields DEF IInv, TypeOK
  <2>2. Insert(sync[d].push)
    BY DEF Commit
  <2>3. QED
    BY <2>1, <2>2, InsertMoves
<1>4. OthersUntouched(d)
  BY DEF Commit, kv, OthersUntouched, Untouched, IInv, TypeOK
<1>5. QED
  BY <1>1, <1>2, <1>3, <1>4, QuietStep

LEMMA RespondStep ==
  ASSUME IInv, LogInv, NEW d \in Devices, Respond(d)
  PROVE  DeviceStep(d)
<1>1. LogInvAt(d)'
  BY RespondLog DEF LogInv
<1>2. PICK page, next :
        sync' = [sync EXCEPT ![d].pc = "apply", ![d].page = page, ![d].next = next]
  BY DEF Respond
<1>3. /\ rows' = rows /\ clock' = clock /\ late' = late
      /\ sync'[d].push = sync[d].push
  BY <1>2 DEF Respond, user, IInv, TypeOK, Run
<1>4. OthersUntouched(d)
  BY <1>2 DEF Respond, user, kv, OthersUntouched, Untouched, IInv, TypeOK
<1>5. QED
  BY <1>1, <1>3, <1>4, QuietStep

LEMMA ApplyAckStep ==
  ASSUME IInv, LogInv, NEW d \in Devices, NEW id \in Ids, ApplyAck(d, id)
  PROVE  DeviceStep(d)
<1>1. LogInvAt(d)'
  BY ApplyAckLog DEF LogInv
<1>2. sync' = [sync EXCEPT ![d].acked[id] = NoRow]
  BY DEF ApplyAck
<1>3. /\ rows' = rows /\ clock' = clock /\ late' = late
      /\ sync'[d].push = sync[d].push
  BY <1>2 DEF ApplyAck, user, IInv, TypeOK, Run
<1>4. OthersUntouched(d)
  BY <1>2 DEF ApplyAck, user, kv, OthersUntouched, Untouched, IInv, TypeOK
<1>5. QED
  BY <1>1, <1>3, <1>4, QuietStep

LEMMA ApplyPulledStep ==
  ASSUME IInv, LogInv, NEW d \in Devices, ApplyPulled(d)
  PROVE  DeviceStep(d)
<1>1. LogInvAt(d)'
  BY ApplyPulledLog DEF LogInv
<1>2. sync' = [sync EXCEPT ![d].pc = "cursor", ![d].push = EmptyTable]
  BY DEF ApplyPulled
<1>3. /\ rows' = rows /\ clock' = clock /\ late' = late
      /\ Held(sync'[d].push) = {}
  BY <1>2, EmptyTableIsTable DEF ApplyPulled, IInv, TypeOK, Run
<1>4. OthersUntouched(d)
  BY <1>2 DEF ApplyPulled, kv, OthersUntouched, Untouched, IInv, TypeOK
<1>5. QED
  BY <1>1, <1>3, <1>4, QuietStep

LEMMA EndIterationStep ==
  ASSUME IInv, LogInv, NEW d \in Devices, EndIteration(d)
  PROVE  DeviceStep(d)
<1>1. LogInvAt(d)'
  BY EndIterationLog DEF LogInv
<1>2. PICK pc \in {"loop", "idle"}, stalledAt \in Nat :
        sync' = [sync EXCEPT ![d] = At(pc, stalledAt)]
  <2>1. sync[d].total \in Nat /\ 0 \in Nat
    BY RunFields DEF IInv
  <2>2. QED
    BY <2>1 DEF EndIteration
<1>3. /\ rows' = rows /\ clock' = clock /\ late' = late
      /\ Held(sync'[d].push) = {}
  <2>1. Held(sync'[d].push) = {}
    BY <1>2, FreshRunPushesNothing
  <2>2. QED
    BY <2>1 DEF EndIteration, user
<1>4. OthersUntouched(d)
  BY <1>2 DEF EndIteration, user, OthersUntouched, Untouched, IInv, TypeOK
<1>5. QED
  BY <1>1, <1>3, <1>4, QuietStep

\* A push given up on goes on its way as it was built.
LEMMA FailStep ==
  ASSUME IInv, LogInv, NEW d \in Devices, Fail(d)
  PROVE  DeviceStep(d)
<1>1. sync' = [sync EXCEPT ![d] = At("idle", 0)]
  BY DEF Fail
<1>2. /\ rows' = rows /\ local' = local /\ cursor' = cursor /\ stale' = stale
      /\ outdated' = outdated /\ clock' = clock
  BY DEF Fail, kv, user
<1>3. LogInvAt(d) /\ 0 \in Nat
  BY DEF LogInv
<1>4. LogInvAt(d)'
  BY <1>1, <1>2, <1>3, FreshRunLog DEF LogInvAt, CursorHolds, RowsAreKnown
<1>5. Held(sync'[d].push) = {}
  BY <1>1, <1>3, FreshRunPushesNothing
<1>6. late'[d] = late[d] \/ late'[d] = sync[d].push
  BY DEF Fail, IInv, TypeOK
<1>7. RequestsFit(d)'
  BY <1>2, <1>5, <1>6 DEF LogInv, RequestsFit, IInv, PendingIsOwn
<1>8. OthersUntouched(d)
  BY <1>1, <1>2 DEF Fail, OthersUntouched, Untouched, IInv, TypeOK
<1>9. QED
  BY <1>2, <1>4, <1>7, <1>8 DEF DeviceStep

LEMMA CommitLateStep ==
  ASSUME IInv, IInv', LogInv, NEW d \in Devices, CommitLate(d)
  PROVE  DeviceStep(d)
<1>1. rows \in Table /\ rows' \in Table /\ late[d] \in Table /\ Insert(late[d])
  BY LogFields DEF CommitLate, IInv, TypeOK
<1>2. LogMoves
  BY <1>1, InsertMoves
<1>3. Untouched(d) /\ OthersUntouched(d) /\ clock' = clock /\ Held(late'[d]) = {}
  BY EmptyTableIsTable DEF CommitLate, kv, OthersUntouched, Untouched, IInv, TypeOK
<1>4. LogInvAt(d)'
  BY <1>2, <1>3, InsertKeeps DEF LogInv, IInv
<1>5. RequestsFit(d)'
  BY <1>3 DEF LogInv, RequestsFit, Untouched
<1>6. QED
  BY <1>2, <1>3, <1>4, <1>5 DEF DeviceStep

LEMMA UpgradeStep ==
  ASSUME IInv, LogInv, NEW d \in Devices, Upgrade(d)
  PROVE  DeviceStep(d)
<1>1. sync' = [sync EXCEPT ![d] = At("idle", 0)]
  BY DEF Upgrade
<1>2. /\ rows' = rows /\ local' = local /\ cursor' = cursor /\ stale'[d]
      /\ outdated'[d] = Held(local[d]) /\ clock' = clock /\ late' = late
  BY DEF Upgrade, user, IInv, TypeOK
<1>3. LogInvAt(d) /\ 0 \in Nat
  BY DEF LogInv
<1>4. LogInvAt(d)'
  BY <1>1, <1>2, <1>3, FreshRunLog DEF LogInvAt, CursorHolds
<1>5. Held(sync'[d].push) = {}
  BY <1>1, <1>3, FreshRunPushesNothing
<1>6. OthersUntouched(d)
  BY <1>1, <1>2 DEF Upgrade, OthersUntouched, Untouched, IInv, TypeOK
<1>7. QED
  BY <1>2, <1>4, <1>5, <1>6, QuietStep

LEMMA InitLogInv == Init => LogInv
<1> SUFFICES ASSUME Init, NEW d \in Devices PROVE LogInvAt(d) /\ RequestsFit(d)
  BY DEF LogInv
<1>1. /\ sync[d].pc = "idle" /\ sync[d].next = 0
      /\ Held(sync[d].push) = {} /\ Held(sync[d].acked) = {} /\ Held(sync[d].page) = {}
  BY AtFields DEF Init, Pcs, At
<1>2. /\ Held(rows) = {} /\ Held(local[d]) = {} /\ Held(late[d]) = {}
      /\ outdated[d] = {} /\ cursor[d] = 0 /\ clock[d] = 0 /\ PendingIds(d) = {}
  BY EmptyTableIsTable DEF Init, PendingIds
<1>3. CursorHolds(d) /\ RowsAreKnown(d) /\ AnswersAreFresh(d) /\ PageIsWhole(d)
  BY <1>1, <1>2 DEF CursorHolds, Reached, RowsAreKnown, AnswersAreFresh, PageIsWhole
<1>4. Covers(d, cursor[d]) /\ Renews(d, cursor[d]) /\ PushIsPending(d) /\ DeletionsAreKnown(d)
  BY <1>1, <1>2 DEF Covers, Renews, PushIsPending, DeletionsAreKnown
<1>5. RequestsFit(d)
  BY <1>1, <1>2, SyncAssumption DEF RequestsFit
<1>6. QED
  BY <1>3, <1>4, <1>5 DEF LogInvAt

LEMMA NextLogInv == IInv /\ IInv' /\ LogInv /\ [Next]_vars => LogInv'
<1> SUFFICES ASSUME IInv, IInv', LogInv, [Next]_vars PROVE LogInv'
  OBVIOUS
<1>1. CASE UNCHANGED vars
  <2>1. ASSUME NEW d \in Devices PROVE LogInvAt(d)' /\ RequestsFit(d)'
    <3>1. Untouched(d) /\ rows' = rows
      BY <1>1 DEF vars, Untouched
    <3>2. LogInvAt(d)'
      BY <3>1, SameRowsKeep DEF LogInv
    <3>3. QED
      BY <1>1, <3>2 DEF vars, LogInv, RequestsFit
  <2>2. QED
    BY <2>1 DEF LogInv
<1>2. ASSUME NEW d \in Devices, SyncStep(d) PROVE DeviceStep(d)
  BY <1>2, CatchUpStep, GiveUpStep, PushStep, CommitStep, RespondStep, ApplyAckStep,
     ApplyPulledStep, EndIterationStep DEF SyncStep
<1>3. CASE Next
  <2>1. PICK d \in Devices : \/ UserWrite(d) \/ StartSync(d) \/ SyncStep(d)
                             \/ Fail(d) \/ CommitLate(d) \/ Upgrade(d)
    BY <1>3 DEF Next
  <2>2. DeviceStep(d)
    BY <1>2, <2>1, UserWriteStep, StartSyncStep, FailStep, CommitLateStep, UpgradeStep
  <2>3. QED
    BY <2>2, StepsAreEnough
<1>4. QED
  BY <1>1, <1>3

\* How every Device stands to the Server's log, at every instant: its Cursor,
\* the answers on their way to it, and the rows of its own store.
THEOREM LogInvariance == Spec => []LogInv
<1> QED
  BY InitIInv, NextIInv, InitLogInv, NextLogInv, PTL DEF Spec

\* No Device ever needs a row at or below its Cursor again: whatever the
\* losses, delays, clock skews and Cursor resets, it has the row as the Server
\* has it, or a change of its own to send.
THEOREM CursorsCovered == Spec => []CursorCovers
<1>1. LogInv => CursorCovers
  BY DEF LogInv, LogInvAt, CursorCovers
<1>2. QED
  BY <1>1, InitIInv, NextIInv, InitLogInv, NextLogInv, PTL DEF Spec

\* A recorded epoch means what it says: every row an older build wrote is ahead
\* of the Cursor or on its way out, wherever the catch-up or a run was cut.
THEOREM EpochsCovered == Spec => []EpochCovers
<1>1. LogInv => EpochCovers
  BY DEF LogInv, LogInvAt, EpochCovers
<1>2. QED
  BY <1>1, InitIInv, NextIInv, InitLogInv, NextLogInv, PTL DEF Spec

-----------------------------------------------------------------------------
(* Two action properties: what no step ever does.                          *)

\* A tombstone that is not pending has a tombstone on the Server, so what the
\* Device is told of the row next is a tombstone too; a user's write keeps it.
LEMMA DeletionsStay ==
  ASSUME IInv, LogInv, [Next]_vars, NEW d \in Devices,
         NEW id \in Held(local[d]) \ PendingIds(d), local[d][id].deleted
  PROVE  local'[d][id].deleted
<1>1. local[d] \in Table /\ id \in Ids /\ sync[d].page \in Table
  BY LogFields DEF IInv, Held
<1>2. CASE local'[d] = local[d]
  BY <1>2
<1>3. ASSUME NEW e \in Devices, UserWrite(e) PROVE local'[d][id].deleted
  <2>1. PICK other \in Ids, row \in Row :
          /\ Write(e, other, row)
          /\ other \in Held(local[e]) /\ local[e][other].deleted => row.deleted
    BY <1>3, UserWritesRows
  <2>2. local' = [local EXCEPT ![e] = [local[e] EXCEPT ![other] = row]]
    BY <2>1 DEF Write
  <2>3. CASE e = d /\ other = id
    BY <1>1, <2>1, <2>2, <2>3 DEF IInv, TypeOK, Table
  <2>4. CASE ~(e = d /\ other = id)
    BY <1>1, <2>2, <2>4 DEF IInv, TypeOK, Table
  <2>5. QED
    BY <2>3, <2>4
<1>4. ASSUME NEW other \in Ids, ApplyAck(d, other) PROVE local'[d][id].deleted
  <2>1. other \in PendingIds(d)
    BY <1>4 DEF ApplyAck, LogInv, LogInvAt, PushIsPending
  <2>2. local'[d][id] = local[d][id]
    BY <1>1, <1>4, <2>1 DEF ApplyAck, IInv, TypeOK, Table
  <2>3. QED
    BY <2>2
<1>5. ASSUME ApplyPulled(d) PROVE local'[d][id].deleted
  <2>1. local'[d][id] = local[d][id] \/ (id \in Held(sync[d].page) /\ local'[d][id] = sync[d].page[id])
    BY <1>1, <1>5 DEF ApplyPulled, IInv, TypeOK
  <2>2. id \in Held(sync[d].page) => sync[d].page[id].deleted
    BY DEF LogInv, LogInvAt, DeletionsAreKnown, Buried
  <2>3. QED
    BY <2>1, <2>2
<1>6. ASSUME NEW e \in Devices, \/ \E other \in Ids : ApplyAck(e, other)
                                \/ ApplyPulled(e)
      PROVE  e = d \/ local'[d] = local[d]
  BY <1>6 DEF ApplyAck, ApplyPulled, IInv, TypeOK
<1>7. CASE UNCHANGED vars
  BY <1>2, <1>7 DEF vars
<1>8. CASE Next
  <2>1. PICK e \in Devices : \/ UserWrite(e) \/ StartSync(e) \/ SyncStep(e)
                             \/ Fail(e) \/ CommitLate(e) \/ Upgrade(e)
    BY <1>8 DEF Next
  <2>2. CASE StartSync(e) \/ Fail(e) \/ CommitLate(e) \/ Upgrade(e)
    BY <1>2, <2>2 DEF StartSync, Fail, CommitLate, Upgrade
  <2>3. CASE CatchUp(e) \/ GiveUp(e) \/ Push(e) \/ Commit(e) \/ Respond(e) \/ EndIteration(e)
    BY <1>2, <2>3 DEF CatchUp, GiveUp, Push, Commit, Respond, EndIteration
  <2>4. QED
    BY <1>2, <1>3, <1>4, <1>5, <1>6, <2>1, <2>2, <2>3 DEF SyncStep
<1>9. QED
  BY <1>7, <1>8

\* A tombstone the Server has confirmed to a Device is never undone there, by
\* anybody's edit, delayed push, replayed page or Cursor reset.
THEOREM ConfirmedDeletesAreFinal == Spec => ConfirmedDeleteIsFinal
<1>1. ASSUME IInv, LogInv, [Next]_vars
      PROVE  \A d \in Devices : \A id \in Held(local[d]) \ PendingIds(d) :
               local[d][id].deleted => local'[d][id].deleted
  BY <1>1, DeletionsStay
<1>2. QED
  BY <1>1, InitIInv, NextIInv, InitLogInv, NextLogInv, PTL DEF Spec, ConfirmedDeleteIsFinal

\* A request is a table of pending rows, stamped within the clock's bound.
LEMMA RequestIsAPush ==
  ASSUME NEW push \in Table, NEW now \in Nat, now <= MaxClock,
         \A id \in Held(push) : push[id].seq = Pending /\ push[id].upd <= now
  PROVE  push \in [Ids -> Maybe([body : Bodies \cup {Blank}, deleted : BOOLEAN,
                                 upd : 0 .. MaxClock, seq : {Pending}])]
<1> DEFINE PendingRow == [body : Bodies \cup {Blank}, deleted : BOOLEAN,
                          upd : 0 .. MaxClock, seq : {Pending}]
<1>1. ASSUME NEW id \in Ids, push[id] # NoRow PROVE push[id] \in PendingRow
  <2>1. id \in Held(push) /\ push[id] \in Row /\ push[id].upd \in Nat
    BY <1>1, HeldRow DEF Held
  <2>2. push[id].upd \in 0 .. MaxClock /\ push[id].seq = Pending
    BY <2>1, SyncAssumption
  <2>3. QED
    BY <2>1, <2>2 DEF Row
<1>2. QED
  BY <1>1 DEF Table, Maybe

\* What reaches the Server, in time or late, is one atomic push of the log.
THEOREM ImplementsChangeLog == Spec => PushesAreAtomic
<1>1. Init => Log!Init
  BY LogVocabulary DEF Init, Log!Init
<1>2. ASSUME IInv, IInv', LogInv, [Next]_vars PROVE [Log!Next]_rows
  <2>1. ASSUME NEW push \in Table, NEW now \in Nat, now <= MaxClock, Insert(push),
               \A id \in Held(push) : push[id].seq = Pending /\ push[id].upd <= now
        PROVE  Log!Next
    <3>1. Log!Commit(push)
      BY <1>2, <2>1, InsertIsAPush DEF IInv, TypeOK
    <3>2. rows' \in Log!Table
      BY <1>2, LogVocabulary DEF IInv, TypeOK
    <3>3. QED
      BY <2>1, <3>1, <3>2, RequestIsAPush DEF Log!Next, Log!Maybe, Maybe
  <2>2. ASSUME NEW d \in Devices, Commit(d) PROVE Log!Next
    <3>1. /\ clock[d] \in Nat /\ clock[d] <= MaxClock
          /\ sync[d].push \in Table /\ Insert(sync[d].push)
          /\ \A id \in Held(sync[d].push) :
               sync[d].push[id].seq = Pending /\ sync[d].push[id].upd <= clock[d]
      BY <1>2, <2>2, LogFields DEF Commit, LogInv, RequestsFit, IInv, PendingIsOwn
    <3>2. QED
      BY <2>1, <3>1
  <2>3. ASSUME NEW d \in Devices, CommitLate(d) PROVE Log!Next
    <3>1. /\ clock[d] \in Nat /\ clock[d] <= MaxClock
          /\ late[d] \in Table /\ Insert(late[d])
          /\ \A id \in Held(late[d]) : late[d][id].seq = Pending /\ late[d][id].upd <= clock[d]
      BY <1>2, <2>3, LogFields DEF CommitLate, LogInv, RequestsFit, IInv
    <3>2. QED
      BY <2>1, <3>1
  <2>4. ASSUME NEW d \in Devices, UserWrite(d) PROVE rows' = rows
    <3>1. \E id \in Ids, row \in Row : Write(d, id, row)
      BY <1>2, <2>4, UserWritesRows
    <3>2. QED
      BY <3>1 DEF Write
  <2>5. ASSUME NEW d \in Devices, \/ StartSync(d) \/ Fail(d) \/ Upgrade(d) \/ CatchUp(d)
                                  \/ GiveUp(d) \/ Push(d) \/ Respond(d) \/ EndIteration(d)
                                  \/ ApplyPulled(d) \/ \E id \in Ids : ApplyAck(d, id)
        PROVE  rows' = rows
    BY <2>5 DEF StartSync, Fail, Upgrade, CatchUp, GiveUp, Push, Respond, EndIteration,
                ApplyPulled, ApplyAck
  <2>6. QED
    BY <1>2, <2>2, <2>3, <2>4, <2>5 DEF Next, SyncStep, vars
<1>3. QED
  BY <1>1, <1>2, InitIInv, NextIInv, InitLogInv, NextLogInv, PTL
  DEF Spec, PushesAreAtomic, Log!Spec

=============================================================================
