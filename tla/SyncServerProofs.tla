-------------------------- MODULE SyncServerProofs --------------------------
(***************************************************************************)
(* For every set of ids, requests, pushes and every batch size: the        *)
(* inductive invariant of SyncServer, ADR 0002's promise to readers, and   *)
(* that the locked transactions implement the atomic ChangeLog.            *)
(***************************************************************************)
EXTENDS SyncServer, TLAPS

\* What the on conflict statement stores is a row.
LEMMA StoredIsRow ==
  ASSUME NEW pushed \in Row, NEW seq \in Nat
  PROVE  /\ Stored(pushed, seq) \in Row
         /\ Stored(pushed, seq).seq = seq
         /\ Stored(pushed, seq) # NoRow
         /\ Stored(Stored(pushed, seq), seq) = Stored(pushed, seq)
BY NoRowIsNoRow DEF Stored, Row

\* A table holds a row for exactly its held ids.
LEMMA HeldRows ==
  ASSUME NEW t \in Table, NEW id \in Held(t)
  PROVE  id \in Ids /\ t[id] \in Row /\ t[id] # NoRow /\ t[id].seq \in Nat
BY DEF Held, Table, Maybe, Row

LEMMA EmptyTableIsTable == EmptyTable \in Table /\ Held(EmptyTable) = {}
BY DEF EmptyTable, Table, Maybe, Held

LEMMA SeenIsTable ==
  ASSUME TypeOK, NEW r \in Reqs
  PROVE  Seen(r) \in Table /\ Confirmed(r) \in Table
<1>1. Seen(r) \in Table
  BY DEF TypeOK, Request, Seen, Table, Maybe
<1>2. QED
  BY <1>1 DEF Confirmed, Only, Table, Maybe

\* A response's cursor is the one it was asked for or a committed row's seq.
LEMMA CursorIsCommitted ==
  ASSUME NEW t \in Table, NEW since \in Nat, NEW ids,
         NEW cursor \in Last(Only(t, ids), since)
  PROVE  cursor = since \/ \E id \in Held(t) : cursor = t[id].seq
BY DEF Last, Only, Held

LEMMA AskingIsRequest ==
  ASSUME NEW phase \in Phases, NEW push \in Table, NEW since \in Nat
  PROVE  Asking(phase, push, since) \in Request
BY EmptyTableIsTable DEF Asking, Request

LEMMA NoRequestIsRequest == NoRequest \in Request
BY EmptyTableIsTable, AskingIsRequest DEF NoRequest, Phases

-----------------------------------------------------------------------------
(* Types.  A pushed id is only upserted when the push holds a row for it,  *)
(* which is WritesFollowPush: the types alone are not inductive.           *)

LEMMA InitTypeOK == Init => TypeOK
BY EmptyTableIsTable, NoRequestIsRequest DEF Init, TypeOK

LEMMA NextTypeOK == TypeOK /\ WritesFollowPush /\ [Next]_vars => TypeOK'
<1> SUFFICES ASSUME TypeOK, WritesFollowPush, [Next]_vars PROVE TypeOK'
  OBVIOUS
<1> USE DEF TypeOK
<1>1. ASSUME NEW r \in Reqs, NEW push \in Pushes, NEW since \in 0 .. served,
             Receive(r, push, since)
      PROVE  TypeOK'
  <2>1. Asking(IF push = EmptyTable THEN "fetching" ELSE "locking", push, since) \in Request
    BY AskingIsRequest, ServerAssumption DEF Phases
  <2>2. QED
    BY <1>1, <2>1 DEF Receive
<1>2. ASSUME NEW r \in Reqs, AcquireLock(r)
      PROVE  TypeOK'
  BY <1>2 DEF AcquireLock, Request, Phases, Held
<1>3. ASSUME NEW r \in Reqs, NEW id \in Ids, UpsertRow(r, id)
      PROVE  TypeOK'
  <2>1. id \in Held(req[r].push) /\ req[r].push \in Table
    BY <1>3 DEF UpsertRow, WritesFollowPush, Request
  <2>2. Stored(req[r].push[id], nextSeq) \in Row
    BY <2>1, StoredIsRow, HeldRows
  <2> DEFINE row == Stored(req[r].push[id], nextSeq)
  <2>3. [req[r].writes EXCEPT ![id] = row] \in Table
    BY <2>2 DEF Request, Table, Maybe
  <2>4. CASE /\ req' = [req EXCEPT ![r].todo = @ \ {id}, ![r].writes[id] = row]
             /\ nextSeq' = nextSeq + 1
    <3>1. req' = [req EXCEPT ![r] = [req[r] EXCEPT
                    !.todo = req[r].todo \ {id},
                    !.writes = [req[r].writes EXCEPT ![id] = row]]]
      BY <2>4 DEF Request
    <3> HIDE DEF row
    <3>2. req' \in [Reqs -> Request]
      BY <2>3, <3>1 DEF Request
    <3>3. QED
      BY <1>3, <2>4, <3>2 DEF UpsertRow
  <2>5. CASE req' = [req EXCEPT ![r].todo = @ \ {id}] /\ UNCHANGED nextSeq
    BY <1>3, <2>5 DEF UpsertRow, Request
  <2>6. QED
    BY <1>3, <2>4, <2>5 DEF UpsertRow
<1>4. ASSUME NEW r \in Reqs, CommitTx(r)
      PROVE  TypeOK'
  <2>1. Seen(r) \in Table /\ Confirmed(r) \in Table
    BY SeenIsTable
  <2>2. req' \in [Reqs -> Request]
    BY <1>4, <2>1, EmptyTableIsTable DEF CommitTx, Request, Phases
  <2>3. QED
    BY <1>4, <2>1, <2>2 DEF CommitTx
<1>5. ASSUME NEW r \in Reqs, Abort(r)
      PROVE  TypeOK'
  BY <1>5, NoRequestIsRequest DEF Abort
<1>6. ASSUME NEW r \in Reqs, Fetch(r)
      PROVE  TypeOK'
  <2>1. req[r].since \in Nat
    BY DEF Request
  <2>2. ASSUME NEW cursor \in Last(Only(rows, Page(rows, req[r].since, BatchSize)), req[r].since)
        PROVE  cursor \in Nat
    BY <2>1, CursorIsCommitted, HeldRows
  <2>3. QED
    BY <1>6, <2>2, NoRequestIsRequest DEF Fetch
<1>7. CASE UNCHANGED vars
  BY <1>7 DEF vars
<1>8. QED
  BY <1>1, <1>2, <1>3, <1>4, <1>5, <1>6, <1>7 DEF Next

-----------------------------------------------------------------------------
(* The rest of the inductive invariant, action by action.                  *)

Rest == LockHeld /\ SeqsDrawn /\ WritesAhead /\ WritesFollowPush /\ CursorsServed

\* A request outside its transaction holds no uncommitted row.
LEMMA OnlyInsertingWrites ==
  ASSUME WritesFollowPush, NEW r \in Reqs, req[r].phase # "inserting"
  PROVE  Held(req[r].writes) = {}
BY DEF WritesFollowPush

LEMMA AskingFields ==
  ASSUME NEW phase, NEW push, NEW since
  PROVE  /\ Asking(phase, push, since).phase = phase
         /\ Asking(phase, push, since).push = push
         /\ Asking(phase, push, since).since = since
         /\ Held(Asking(phase, push, since).writes) = {}
BY EmptyTableIsTable DEF Asking

LEMMA InitRest == Init => Rest
<1> SUFFICES ASSUME Init PROVE Rest
  OBVIOUS
<1>1. \A r \in Reqs : /\ req[r].phase = "idle" /\ req[r].push = EmptyTable
                      /\ req[r].since = 0 /\ Held(req[r].writes) = {}
  BY AskingFields DEF Init, NoRequest
<1>2. Held(rows) = {}
  BY EmptyTableIsTable DEF Init
<1>3. LockHeld
  BY <1>1, ServerAssumption DEF Init, LockHeld
<1>4. SeqsDrawn
  BY <1>1, <1>2 DEF Init, SeqsDrawn
<1>5. WritesAhead
  BY <1>1 DEF WritesAhead
<1>6. WritesFollowPush
  BY <1>1, ServerAssumption DEF WritesFollowPush
<1>7. CursorsServed
  BY <1>1 DEF Init, CursorsServed
<1>8. QED
  BY <1>3, <1>4, <1>5, <1>6, <1>7 DEF Rest

\* A request that is not inserting is replaced by another that is not: an
\* arrival, an answer, or a failure outside the transaction.
LEMMA ReceiveRest ==
  ASSUME IInv, NEW r \in Reqs, NEW push \in Pushes, NEW since \in 0 .. served,
         Receive(r, push, since)
  PROVE  Rest'
<1>1. /\ \A q \in Reqs \ {r} : req'[q] = req[q]
      /\ req'[r].phase # "inserting" /\ req'[r].push = push
      /\ req'[r].since = since /\ Held(req'[r].writes) = {}
  BY AskingFields DEF Receive, IInv, TypeOK
<1>2. UNCHANGED <<rows, nextSeq, lock, served>> /\ req[r].phase = "idle"
  BY DEF Receive
<1>3. LockHeld'
  BY <1>1, <1>2 DEF IInv, LockHeld
<1>4. SeqsDrawn'
  BY <1>1, <1>2 DEF IInv, SeqsDrawn
<1>5. WritesAhead'
  BY <1>1, <1>2 DEF IInv, WritesAhead
<1>6. WritesFollowPush'
  BY <1>1, <1>2 DEF IInv, WritesFollowPush
<1>7. CursorsServed'
  BY <1>1, <1>2 DEF IInv, CursorsServed
<1>8. QED
  BY <1>3, <1>4, <1>5, <1>6, <1>7 DEF Rest

LEMMA AcquireLockRest ==
  ASSUME IInv, NEW r \in Reqs, AcquireLock(r)
  PROVE  Rest'
<1>1. /\ \A q \in Reqs \ {r} : req'[q] = req[q]
      /\ req'[r].phase = "inserting" /\ req'[r].push = req[r].push
      /\ req'[r].since = req[r].since /\ req'[r].writes = req[r].writes
      /\ req'[r].todo = Held(req[r].push)
  BY DEF AcquireLock, IInv, TypeOK, Request
<1>2. UNCHANGED <<rows, nextSeq, served>> /\ lock = NoReq /\ lock' = r
      /\ req[r].phase = "locking"
  BY DEF AcquireLock
<1>3. Held(req[r].writes) = {}
  BY <1>2, OnlyInsertingWrites DEF IInv
<1>4. LockHeld'
  BY <1>1, <1>2, ServerAssumption DEF IInv, LockHeld
<1>5. SeqsDrawn'
  BY <1>1, <1>2 DEF IInv, SeqsDrawn
<1>6. WritesAhead'
  BY <1>1, <1>2 DEF IInv, WritesAhead
<1>7. WritesFollowPush'
  <2>1. \A id \in Ids : req'[r].writes[id] = NoRow
    BY <1>1, <1>3 DEF Held
  <2>2. QED
    BY <1>1, <1>2, <2>1 DEF IInv, WritesFollowPush
<1>8. CursorsServed'
  BY <1>1, <1>2 DEF IInv, CursorsServed
<1>9. QED
  BY <1>4, <1>5, <1>6, <1>7, <1>8 DEF Rest

\* The loop turn: only the lock holder has writes, the row is still the
\* committed one, and the seq it draws is above everything drawn before.
LEMMA UpsertRowRest ==
  ASSUME IInv, NEW r \in Reqs, NEW id \in Ids, UpsertRow(r, id)
  PROVE  Rest'
<1>1. /\ req[r].phase = "inserting" /\ id \in req[r].todo /\ lock = r
      /\ UNCHANGED <<rows, lock, served>>
      /\ id \in Held(req[r].push) /\ req[r].push \in Table
      /\ req[r].writes \in Table /\ req[r].todo \subseteq Ids
  BY DEF UpsertRow, IInv, LockHeld, WritesFollowPush, TypeOK, Request
<1>2. /\ \A q \in Reqs \ {r} : req'[q] = req[q] /\ Held(req[q].writes) = {}
      /\ req'[r].phase = "inserting" /\ req'[r].push = req[r].push
      /\ req'[r].since = req[r].since /\ req'[r].todo = req[r].todo \ {id}
  <2>1. \A q \in Reqs \ {r} : req[q].phase # "inserting"
    BY <1>1 DEF IInv, LockHeld
  <2>2. \A q \in Reqs \ {r} : Held(req[q].writes) = {}
    BY <2>1, OnlyInsertingWrites DEF IInv
  <2>3. CASE Changes(Seen(r)[id], req[r].push[id])
    <3> DEFINE stored == Stored(req[r].push[id], nextSeq)
    <3>1. req' = [req EXCEPT ![r].todo = @ \ {id}, ![r].writes[id] = stored]
      BY <2>3 DEF UpsertRow
    <3> HIDE DEF stored
    <3>2. req' = [req EXCEPT ![r] = [req[r] EXCEPT
                    !.todo = req[r].todo \ {id},
                    !.writes = [req[r].writes EXCEPT ![id] = stored]]]
      BY <3>1 DEF IInv, TypeOK, Request
    <3>3. QED
      BY <1>1, <2>2, <3>2 DEF IInv, TypeOK, Request
  <2>4. CASE ~Changes(Seen(r)[id], req[r].push[id])
    BY <1>1, <2>2, <2>4 DEF UpsertRow, IInv, TypeOK, Request
  <2>5. QED
    BY <2>3, <2>4
<1>3. req[r].writes[id] = NoRow /\ Seen(r)[id] = rows[id]
  <2>1. req[r].writes[id] = NoRow
    BY <1>1 DEF IInv, WritesFollowPush
  <2>2. QED
    BY <2>1 DEF Seen
<1> DEFINE row == Stored(req[r].push[id], nextSeq)
<1>4. row \in Row /\ row.seq = nextSeq /\ row # NoRow /\ nextSeq \in Nat \ {0}
      /\ row = Stored(req[r].push[id], row.seq)
  BY <1>1, StoredIsRow, HeldRows DEF IInv, TypeOK
<1>5. \/ /\ Changes(rows[id], req[r].push[id])
         /\ req'[r].writes = [req[r].writes EXCEPT ![id] = row]
         /\ nextSeq' = nextSeq + 1
      \/ /\ ~Changes(rows[id], req[r].push[id])
         /\ req'[r].writes = req[r].writes
         /\ nextSeq' = nextSeq
  BY <1>3 DEF UpsertRow, IInv, TypeOK, Request
<1>6. \A other \in Ids : \/ req'[r].writes[other] = req[r].writes[other]
                         \/ other = id /\ req'[r].writes[other] = row
  BY <1>1, <1>5 DEF Table
<1> HIDE DEF row
<1>7. LockHeld'
  BY <1>1, <1>2 DEF IInv, LockHeld
<1>8. SeqsDrawn'
  <2>1. nextSeq' \in {nextSeq, nextSeq + 1}
    BY <1>5
  <2>2. ASSUME NEW other \in Held(req'[r].writes)
        PROVE  req'[r].writes[other].seq \in 1 .. (nextSeq' - 1)
    <3>1. CASE req'[r].writes[other] = req[r].writes[other]
      BY <1>1, <1>4, <2>1, <3>1 DEF IInv, SeqsDrawn, Held
    <3>2. CASE other = id /\ req'[r].writes[other] = row
      BY <1>1, <1>3, <1>4, <1>5, <3>2 DEF Held
    <3>3. QED
      BY <1>6, <3>1, <3>2 DEF Held
  <2>3. QED
    BY <1>1, <1>2, <1>4, <2>1, <2>2 DEF IInv, SeqsDrawn, TypeOK
<1>9. WritesAhead'
  <2>1. ASSUME NEW other \in Held(req'[r].writes)
        PROVE  /\ req'[r].writes[other].seq > served
               /\ \A old \in Held(rows) : req'[r].writes[other].seq > rows[old].seq
    <3>1. CASE req'[r].writes[other] = req[r].writes[other]
      BY <3>1 DEF IInv, WritesAhead, Held
    <3>2. CASE req'[r].writes[other] = row
      BY <1>4, <3>2, HeldRows DEF IInv, SeqsDrawn, TypeOK
    <3>3. QED
      BY <1>6, <3>1, <3>2 DEF Held
  <2>2. ASSUME NEW one \in Held(req'[r].writes), NEW other \in Held(req'[r].writes) \ {one}
        PROVE  req'[r].writes[one].seq # req'[r].writes[other].seq
    <3>1. \A old \in Held(req[r].writes) : req[r].writes[old].seq # row.seq
      BY <1>4 DEF IInv, SeqsDrawn
    <3>2. QED
      BY <1>6, <3>1 DEF IInv, WritesAhead, Held
  <2>3. QED
    BY <1>1, <1>2, <2>1, <2>2 DEF WritesAhead
<1>10. WritesFollowPush'
  <2>1. ASSUME NEW other \in Ids
        PROVE  IF /\ other \in Held(req[r].push) \ (req[r].todo \ {id})
                  /\ Changes(rows[other], req[r].push[other])
                 THEN /\ req'[r].writes[other] # NoRow
                      /\ req'[r].writes[other]
                           = Stored(req[r].push[other], req'[r].writes[other].seq)
                 ELSE req'[r].writes[other] = NoRow
    <3>1. CASE other = id
      BY <1>1, <1>3, <1>4, <1>5, <3>1 DEF Table
    <3>2. CASE other # id
      BY <1>1, <1>6, <3>2 DEF IInv, WritesFollowPush
    <3>3. QED
      BY <3>1, <3>2
  <2>2. QED
    BY <1>1, <1>2, <2>1 DEF IInv, WritesFollowPush
<1>11. CursorsServed'
  BY <1>1, <1>2 DEF IInv, CursorsServed
<1>12. QED
  BY <1>7, <1>8, <1>9, <1>10, <1>11 DEF Rest

\* The commit publishes the transaction's rows: they are above every Cursor,
\* and no other request has any.
LEMMA CommitTxRest ==
  ASSUME IInv, NEW r \in Reqs, CommitTx(r)
  PROVE  Rest'
<1>1. /\ req[r].phase = "inserting" /\ req[r].todo = {} /\ lock = r /\ lock' = NoReq
      /\ UNCHANGED <<nextSeq, served>> /\ rows' = Seen(r)
      /\ rows \in Table /\ req[r].writes \in Table
  BY DEF CommitTx, IInv, LockHeld, TypeOK, Request
<1>2. /\ \A q \in Reqs \ {r} : req'[q] = req[q]
      /\ req'[r].phase = "fetching" /\ req'[r].push = req[r].push
      /\ req'[r].since = req[r].since /\ req'[r].writes = EmptyTable
  BY DEF CommitTx, IInv, TypeOK, Request
<1>3. \A q \in Reqs : req'[q].phase # "inserting" /\ Held(req'[q].writes) = {}
  <2>1. \A q \in Reqs \ {r} : req[q].phase # "inserting"
    BY <1>1 DEF IInv, LockHeld
  <2>2. \A q \in Reqs \ {r} : Held(req[q].writes) = {}
    BY <2>1, OnlyInsertingWrites DEF IInv
  <2>3. QED
    BY <1>2, <2>1, <2>2, EmptyTableIsTable
<1>4. LockHeld'
  BY <1>1, <1>3, ServerAssumption DEF LockHeld
<1>5. SeqsDrawn'
  <2>1. ASSUME NEW id \in Held(rows')
        PROVE  rows'[id].seq \in 1 .. (nextSeq - 1)
    BY <1>1 DEF IInv, SeqsDrawn, Seen, Held
  <2>2. QED
    BY <1>1, <1>3, <2>1 DEF IInv, SeqsDrawn
<1>6. WritesAhead'
  BY <1>3 DEF WritesAhead
<1>7. WritesFollowPush'
  BY <1>2, <1>3 DEF IInv, WritesFollowPush
<1>8. CursorsServed'
  BY <1>1, <1>2 DEF IInv, CursorsServed
<1>9. QED
  BY <1>4, <1>5, <1>6, <1>7, <1>8 DEF Rest

LEMMA AbortRest ==
  ASSUME IInv, NEW r \in Reqs, Abort(r)
  PROVE  Rest'
<1>1. /\ \A q \in Reqs \ {r} : req'[q] = req[q]
      /\ req'[r].phase = "idle" /\ req'[r].push = EmptyTable
      /\ req'[r].since = 0 /\ Held(req'[r].writes) = {}
  BY AskingFields DEF Abort, NoRequest, IInv, TypeOK
<1>2. UNCHANGED <<rows, nextSeq, served>> /\ lock' = IF lock = r THEN NoReq ELSE lock
  BY DEF Abort
<1>3. LockHeld'
  BY <1>1, <1>2, ServerAssumption DEF IInv, LockHeld
<1>4. SeqsDrawn'
  BY <1>1, <1>2 DEF IInv, SeqsDrawn
<1>5. WritesAhead'
  BY <1>1, <1>2 DEF IInv, WritesAhead
<1>6. WritesFollowPush'
  BY <1>1, <1>2, ServerAssumption DEF IInv, WritesFollowPush
<1>7. CursorsServed'
  BY <1>1, <1>2 DEF IInv, CursorsServed, TypeOK
<1>8. QED
  BY <1>3, <1>4, <1>5, <1>6, <1>7 DEF Rest

\* A read hands out at most the highest committed seq, which is below every
\* seq a transaction has drawn and not yet committed.
LEMMA FetchRest ==
  ASSUME IInv, NEW r \in Reqs, Fetch(r)
  PROVE  Rest'
<1>1. /\ \A q \in Reqs \ {r} : req'[q] = req[q]
      /\ req'[r].phase = "idle" /\ req'[r].push = EmptyTable
      /\ req'[r].since = 0 /\ Held(req'[r].writes) = {}
  BY AskingFields DEF Fetch, NoRequest, IInv, TypeOK
<1>2. UNCHANGED <<rows, nextSeq, lock>> /\ req[r].phase = "fetching"
  BY DEF Fetch
<1>3. PICK cursor \in Last(Only(rows, Page(rows, req[r].since, BatchSize)), req[r].since) :
        served' = IF cursor > served THEN cursor ELSE served
  BY DEF Fetch
<1>4. \/ served' = served
      \/ \E id \in Held(rows) : served' = rows[id].seq /\ served' > served
  <2>1. req[r].since \in Nat /\ served \in Nat /\ req[r].since <= served
    BY DEF IInv, CursorsServed, TypeOK, Request
  <2>2. cursor = req[r].since \/ \E id \in Held(rows) : cursor = rows[id].seq
    BY <1>3, <2>1, CursorIsCommitted DEF IInv, TypeOK
  <2>3. \A id \in Held(rows) : rows[id].seq \in Nat
    BY HeldRows DEF IInv, TypeOK
  <2>4. QED
    BY <1>3, <2>1, <2>2, <2>3
<1>5. served' \in Nat /\ served' >= served
  BY <1>4, HeldRows DEF IInv, TypeOK
<1>6. LockHeld'
  BY <1>1, <1>2 DEF IInv, LockHeld
<1>7. SeqsDrawn'
  BY <1>1, <1>2, <1>4 DEF IInv, SeqsDrawn, TypeOK
<1>8. WritesAhead'
  <2>1. ASSUME NEW q \in Reqs, NEW id \in Held(req'[q].writes)
        PROVE  /\ q # r
               /\ req'[q].writes[id].seq > served'
    BY <1>1, <1>2, <1>4 DEF IInv, WritesAhead
  <2>2. QED
    BY <1>1, <1>2, <2>1 DEF IInv, WritesAhead
<1>9. WritesFollowPush'
  BY <1>1, <1>2, ServerAssumption DEF IInv, WritesFollowPush
<1>10. CursorsServed'
  BY <1>1, <1>2, <1>5 DEF IInv, CursorsServed, TypeOK, Request
<1>11. QED
  BY <1>6, <1>7, <1>8, <1>9, <1>10 DEF Rest

LEMMA InitIInv == Init => IInv
BY InitTypeOK, InitRest DEF IInv, Rest

LEMMA NextIInv == IInv /\ [Next]_vars => IInv'
<1> SUFFICES ASSUME IInv, [Next]_vars PROVE IInv'
  OBVIOUS
<1>1. TypeOK'
  BY NextTypeOK DEF IInv
<1>2. Rest'
  <2>1. CASE UNCHANGED vars
    BY <2>1 DEF vars, IInv, Rest, LockHeld, SeqsDrawn, WritesAhead, WritesFollowPush, CursorsServed
  <2>2. QED
    BY <2>1, ReceiveRest, AcquireLockRest, UpsertRowRest, CommitTxRest, AbortRest, FetchRest
       DEF Next
<1>3. QED
  BY <1>1, <1>2 DEF IInv, Rest

-----------------------------------------------------------------------------
(* The theorems.                                                           *)

\* Holding the advisory lock, the seqs drawn, and what a transaction has
\* written stay in step, whatever the interleaving.
THEOREM Invariance == Spec => []IInv
<1>1. QED
  BY InitIInv, NextIInv, PTL DEF Spec

\* Every variable keeps its type.
THEOREM TypeCorrect == Spec => []TypeOK
<1>1. IInv => TypeOK
  BY DEF IInv
<1>2. QED
  BY <1>1, Invariance, PTL

\* Only a commit makes a row visible, and what it makes visible is above
\* every Cursor handed out before it.
THEOREM NoRowArrivesLate == Spec => NoLateArrival
<1> DEFINE Late == \A id \in Ids : rows'[id] # rows[id] => rows'[id].seq > served
<1>1. ASSUME IInv, [Next]_vars PROVE Late
  <2>1. ASSUME NEW r \in Reqs, CommitTx(r) PROVE Late
    BY <1>1, <2>1 DEF CommitTx, Seen, IInv, WritesAhead, Held
  <2>2. CASE UNCHANGED rows
    BY <2>2
  <2>3. QED
    BY <1>1, <2>1, <2>2 DEF Next, vars, Receive, AcquireLock, UpsertRow, Abort, Fetch
<1>2. IInv /\ [Next]_vars => [Late]_vars
  BY <1>1
<1>3. QED
  BY <1>2, Invariance, PTL DEF Spec, NoLateArrival

\* The two modules read the row vocabulary of EntryRows alike.
LEMMA LogVocabulary ==
  /\ Log!EmptyTable = EmptyTable
  /\ Log!Table = Table
  /\ Log!Pending = Pending
  /\ \A t : Log!Held(t) = Held(t)
  /\ \A old, pushed : Log!Changes(old, pushed) <=> Changes(old, pushed)
  /\ \A pushed, seq : Log!Stored(pushed, seq) = Stored(pushed, seq)
BY DEF Log!EmptyTable, EmptyTable, Log!Table, Table, Log!Maybe, Maybe, Log!Row, Row,
       Log!Pending, Pending, Log!Held, Held, Log!Changes, Changes, Log!Stored, Stored

\* The commit of a transaction is one atomic push of the abstract log.
LEMMA CommitIsPush ==
  ASSUME IInv, IInv', NEW r \in Reqs, CommitTx(r)
  PROVE  Log!Next
<1>1. /\ req[r].phase = "inserting" /\ req[r].todo = {} /\ rows' = Seen(r)
      /\ req[r].push \in Pushes /\ req[r].push \in Table
      /\ rows \in Table /\ rows' \in Table /\ req[r].writes \in Table
  BY DEF CommitTx, IInv, WritesFollowPush, TypeOK, Request
<1> DEFINE changed == {id \in Held(req[r].push) : Changes(rows[id], req[r].push[id])}
<1>2. changed \subseteq Ids
  BY DEF Held
<1>3. ASSUME NEW id \in Ids \ changed
      PROVE  rows'[id] = rows[id]
  BY <1>1 DEF Seen, IInv, WritesFollowPush, Held
<1>4. ASSUME NEW id \in changed
      PROVE  /\ id \in Held(req[r].writes)
             /\ rows'[id] = req[r].writes[id]
             /\ rows'[id] = Stored(req[r].push[id], rows'[id].seq)
  BY <1>1 DEF Seen, IInv, WritesFollowPush, Held
<1> HIDE DEF changed
<1>5. ASSUME NEW id \in changed
      PROVE  /\ rows'[id].seq \in Nat \ {Pending}
             /\ \A other \in Held(rows) : rows[other].seq < rows'[id].seq
  BY <1>1, <1>4, HeldRows DEF IInv, SeqsDrawn, WritesAhead, Pending
<1>6. ASSUME NEW id \in changed, NEW other \in changed \ {id}
      PROVE  rows'[other].seq # rows'[id].seq
  BY <1>4, <1>6 DEF IInv, WritesAhead
<1>7. Log!Commit(req[r].push)
  BY <1>3, <1>4, <1>5, <1>6, LogVocabulary DEF changed, Log!Commit
<1>8. QED
  BY <1>1, <1>7, LogVocabulary DEF Log!Next

\* Locked, row-by-row, failing transactions implement the atomic change log.
THEOREM ImplementsChangeLog == Spec => Atomic
<1>1. Init => Log!Init
  BY LogVocabulary DEF Init, Log!Init
<1>2. ASSUME IInv, IInv', [Next]_vars PROVE [Log!Next]_rows
  <2>1. ASSUME NEW r \in Reqs, CommitTx(r) PROVE Log!Next
    BY <1>2, <2>1, CommitIsPush
  <2>2. QED
    BY <1>2, <2>1 DEF Next, vars, Receive, AcquireLock, UpsertRow, Abort, Fetch
<1>3. QED
  BY <1>1, <1>2, Invariance, PTL DEF Spec, Atomic, Log!Spec

=============================================================================
