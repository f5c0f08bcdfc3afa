----------------------------- MODULE SyncServer -----------------------------
(***************************************************************************)
(* POST /v1/sync for one entity stream (server/src/sync.rs: sync_handler,  *)
(* run_sync, insert_entries, fetch_entries_since), at the granularity      *)
(* Postgres runs it: the advisory lock, one upsert statement per pushed    *)
(* row, the commit, and - on a separate connection, outside the            *)
(* transaction and outside the lock - the Cursor read.  Several requests   *)
(* run at once and interleave at every one of those points.                *)
(*                                                                         *)
(* Statements are READ COMMITTED: a transaction reads its own writes over  *)
(* what is committed at that moment.  nextval() is never rolled back.  The *)
(* seq a conflicting insert burns without storing it is not counted: no    *)
(* row ever carries it.                                                    *)
(***************************************************************************)
EXTENDS EntryRows

CONSTANTS
  Reqs,        \* requests the Server can be working on at once
  NoReq,       \* nobody holds the advisory lock
  Pushes,      \* the batches a Device can push
  BatchSize,   \* SYNC_BATCH_SIZE, the most rows one Cursor read returns
  MaxSeq       \* bound: no push is received once nextSeq is past it

ASSUME ServerAssumption ==
  /\ NoReq \notin Reqs
  /\ Pushes \subseteq Table
  /\ EmptyTable \in Pushes
  /\ BatchSize \in Nat \ {0}
  /\ MaxSeq \in Nat

VARIABLES
  rows,      \* the committed entries table
  nextSeq,   \* the next value of the entries.seq sequence
  lock,      \* the request whose transaction holds SYNC_INSERT_LOCK_KEY
  req,       \* each request being worked on
  served     \* history: the highest Cursor any reader has been given

vars == <<rows, nextSeq, lock, req, served>>

Phases == {"idle", "locking", "inserting", "fetching"}

\* push, since: the request's rows and Cursor.  todo: pushed ids whose upsert
\* has not run yet.  writes: this transaction's uncommitted rows.  acked: the
\* rows selected by id before the commit, for acknowledged_entries.
Request == [phase : Phases, push : Table, since : Nat,
            todo : SUBSET Ids, writes : Table, acked : Table]

Asking(phase, push, since) ==
  [phase |-> phase, push |-> push, since |-> since,
   todo |-> {}, writes |-> EmptyTable, acked |-> EmptyTable]

NoRequest == Asking("idle", EmptyTable, 0)

\* What the transaction of request r sees, and the rows it reads back for
\* acknowledged_entries: `where id = any($1)` over the pushed ids.
Seen(r) == [id \in Ids |-> IF req[r].writes[id] # NoRow THEN req[r].writes[id]
                                                        ELSE rows[id]]

Confirmed(r) == Only(Seen(r), Held(req[r].push))

-----------------------------------------------------------------------------
Init ==
  /\ rows = EmptyTable
  /\ nextSeq = 1
  /\ lock = NoReq
  /\ req = [r \in Reqs |-> NoRequest]
  /\ served = 0

\* A request arrives with a Cursor some earlier response handed out.  Nothing
\* to push skips insert_entries altogether.
Receive(r, push, since) ==
  /\ req[r].phase = "idle"
  /\ push # EmptyTable => nextSeq <= MaxSeq
  /\ req' = [req EXCEPT ![r] =
       Asking(IF push = EmptyTable THEN "fetching" ELSE "locking", push, since)]
  /\ UNCHANGED <<rows, nextSeq, lock, served>>

\* Defect: acquire_insert_lock deleted from insert_entries.
AcquireNoLock(r) ==
  /\ req[r].phase = "locking"
  /\ lock' = IF lock = NoReq THEN r ELSE lock
  /\ req' = [req EXCEPT ![r].phase = "inserting", ![r].todo = Held(req[r].push)]
  /\ UNCHANGED <<rows, nextSeq, served>>

\* acquire_insert_lock: pg_advisory_xact_lock, the first statement of the
\* insert transaction.
AcquireLock(r) ==
  /\ req[r].phase = "locking"
  /\ lock = NoReq
  /\ lock' = r
  /\ req' = [req EXCEPT ![r].phase = "inserting", ![r].todo = Held(req[r].push)]
  /\ UNCHANGED <<rows, nextSeq, served>>

\* Defect: the delete-is-terminal guard left out of the on conflict clause.
UpsertRowOverTombstone(r, id) ==
  /\ req[r].phase = "inserting"
  /\ id \in req[r].todo
  /\ req' = [req EXCEPT ![r].todo = @ \ {id},
                        ![r].writes[id] = Stored(req[r].push[id], nextSeq)]
  /\ nextSeq' = nextSeq + 1
  /\ UNCHANGED <<rows, lock, served>>

\* One turn of insert_entries' loop.
UpsertRow(r, id) ==
  /\ req[r].phase = "inserting"
  /\ id \in req[r].todo
  /\ IF Changes(Seen(r)[id], req[r].push[id])
       THEN /\ req' = [req EXCEPT ![r].todo = @ \ {id},
                                  ![r].writes[id] = Stored(req[r].push[id], nextSeq)]
            /\ nextSeq' = nextSeq + 1
       ELSE /\ req' = [req EXCEPT ![r].todo = @ \ {id}]
            /\ UNCHANGED nextSeq
  /\ UNCHANGED <<rows, lock, served>>

\* Select the acknowledged rows and commit: the writes become visible and the
\* transaction-level lock is released, in one step.
CommitTx(r) ==
  /\ req[r].phase = "inserting"
  /\ req[r].todo = {}
  /\ rows' = Seen(r)
  /\ lock' = NoReq
  /\ req' = [req EXCEPT ![r].phase = "fetching",
                        ![r].writes = EmptyTable,
                        ![r].acked = Confirmed(r)]
  /\ UNCHANGED <<nextSeq, served>>

\* Defect: pg_advisory_lock, the session-level lock, in place of the
\* transaction-level one: rolling back on a pooled connection keeps it.
AbortKeepsLock(r) ==
  /\ req[r].phase # "idle"
  /\ req' = [req EXCEPT ![r] = NoRequest]
  /\ UNCHANGED <<rows, nextSeq, lock, served>>

\* A statement fails, the connection drops or the Server stops: the handler
\* returns 500 or nothing, Postgres rolls the transaction back and frees the
\* lock, and the seqs it drew stay drawn.
Abort(r) ==
  /\ req[r].phase # "idle"
  /\ req' = [req EXCEPT ![r] = NoRequest]
  /\ lock' = IF lock = r THEN NoReq ELSE lock
  /\ UNCHANGED <<rows, nextSeq, served>>

\* fetch_entries_since and the response, whose cursor is the last row's seq
\* or the Cursor that was asked for.
Fetch(r) ==
  /\ req[r].phase = "fetching"
  /\ \E cursor \in Last(Only(rows, Page(rows, req[r].since, BatchSize)), req[r].since) :
       served' = IF cursor > served THEN cursor ELSE served
  /\ req' = [req EXCEPT ![r] = NoRequest]
  /\ UNCHANGED <<rows, nextSeq, lock>>

Next ==
  \E r \in Reqs :
    \/ \E push \in Pushes, since \in 0 .. served : Receive(r, push, since)
    \/ AcquireLock(r)
    \/ \E id \in Ids : UpsertRow(r, id)
    \/ CommitTx(r)
    \/ Abort(r)
    \/ Fetch(r)

Spec == Init /\ [][Next]_vars

\* Postgres keeps running a transaction it has begun, and hands the advisory
\* lock to waiters in the order they queued, so a waiter is not passed over
\* for ever.  Nothing obliges a request to arrive or to fail.
Fairness ==
  \A r \in Reqs :
    /\ SF_vars(AcquireLock(r))
    /\ WF_vars(\E id \in Ids : UpsertRow(r, id))
    /\ WF_vars(CommitTx(r))
    /\ WF_vars(Fetch(r))

FairSpec == Spec /\ Fairness

-----------------------------------------------------------------------------
(* Properties                                                              *)

TypeOK ==
  /\ rows \in Table
  /\ nextSeq \in Nat \ {0}
  /\ lock \in Reqs \cup {NoReq}
  /\ req \in [Reqs -> Request]
  /\ served \in Nat

\* ADR 0002: once any Device has been given a Cursor, no row can become
\* visible at or below it; the next poll would never ask for that row again.
NoLateArrival ==
  [][\A id \in Ids : rows'[id] # rows[id] => rows'[id].seq > served]_vars

\* Every request is answered or fails: nobody waits for ever on the advisory
\* lock, whatever becomes of the transaction that held it.
EveryRequestEnds ==
  \A r \in Reqs : req[r].phase # "idle" ~> req[r].phase = "idle"

\* The locked transaction is one atomic step of the abstract change log: what
\* a push does is decided by the rows committed when it takes the lock.
Log == INSTANCE ChangeLog

Atomic == Log!Spec

-----------------------------------------------------------------------------
(* The inductive invariant behind NoLateArrival and Atomic.                *)

\* Holding the lock and being between its acquisition and the commit are the
\* same thing, so two transactions never insert at once.
LockHeld == \A r \in Reqs : req[r].phase = "inserting" <=> lock = r

\* Every seq in the table, in a transaction or handed out as a Cursor has been
\* drawn from the sequence.
SeqsDrawn ==
  /\ \A id \in Held(rows) : rows[id].seq \in 1 .. (nextSeq - 1)
  /\ \A r \in Reqs : \A id \in Held(req[r].writes) :
       req[r].writes[id].seq \in 1 .. (nextSeq - 1)
  /\ served < nextSeq

\* A transaction's seqs are above every committed row and every Cursor handed
\* out, however the read and the insert interleave.
WritesAhead ==
  \A r \in Reqs : \A id \in Held(req[r].writes) :
    /\ req[r].writes[id].seq > served
    /\ \A other \in Held(rows) : req[r].writes[id].seq > rows[other].seq
    /\ \A other \in Held(req[r].writes) \ {id} :
         req[r].writes[id].seq # req[r].writes[other].seq

\* A transaction has written exactly the rows of its push that differ from
\* the committed table, apart from those it has not reached yet.
WritesFollowPush ==
  \A r \in Reqs :
    /\ req[r].push \in Pushes
    /\ req[r].phase # "inserting" => Held(req[r].writes) = {}
    /\ req[r].phase = "inserting" =>
         /\ req[r].todo \subseteq Held(req[r].push)
         /\ \A id \in Ids :
              IF /\ id \in Held(req[r].push) \ req[r].todo
                 /\ Changes(rows[id], req[r].push[id])
                THEN /\ req[r].writes[id] # NoRow
                     /\ req[r].writes[id] = Stored(req[r].push[id], req[r].writes[id].seq)
                ELSE req[r].writes[id] = NoRow

\* A Cursor a request came with was handed out before.
CursorsServed == \A r \in Reqs : req[r].since <= served

IInv == TypeOK /\ LockHeld /\ SeqsDrawn /\ WritesAhead /\ WritesFollowPush /\ CursorsServed

=============================================================================
