------------------------------ MODULE EntryRows ------------------------------
(***************************************************************************)
(* The shape of one Entry row and the single-statement rules that decide   *)
(* whether a write lands on it.  The Server's rules are the `on conflict`  *)
(* clause of insert_entries (server/src/sync.rs); the Device's rules are   *)
(* the four write paths of SqliteEntryStore.  Each rule sits inside one    *)
(* SQL statement, so each is one operator here and is never split.         *)
(*                                                                         *)
(* A row keeps the columns these rules read or write: the body, whether    *)
(* deleted_at is set, updated_at at the millisecond precision both sides   *)
(* compare it at, and seq.  device_id and created_at never change after    *)
(* the insert, synced_at and embedding are never read by a rule.           *)
(***************************************************************************)
EXTENDS Naturals, FiniteSets

CONSTANTS
  Ids,      \* Entry ids (uuidv7, minted once, by one Device)
  Bodies,   \* the bodies a user can write
  Blank,    \* the empty body a tombstone carries
  NoRow     \* the id has no row in this table

\* `seq IS NULL` on a Device: the Server has not acknowledged this row.  The
\* Server's own seq is a bigserial and starts at 1.
Pending == 0

\* A tombstone that still held a body would say two things at once (ADR 0028).
Row ==
  {row \in [body : Bodies \cup {Blank}, deleted : BOOLEAN, upd : Nat, seq : Nat] :
     row.deleted => row.body = Blank}

ASSUME NoRowIsNoRow == NoRow \notin Row

Maybe(S) == S \cup {NoRow}

Table == [Ids -> Maybe(Row)]

EmptyTable == [id \in Ids |-> NoRow]

\* The ids a table or a request holds a row for.
Held(t) == {id \in Ids : t[id] # NoRow}

\* The part of a table a select by id or a slice() picks out.
Only(t, ids) == [id \in Ids |-> IF id \in ids THEN t[id] ELSE NoRow]

\* The highest seq in a table, or the floor when it holds no row: a set of one.
Last(t, floor) ==
  LET seqs == {t[id].seq : id \in Held(t)}
  IN  {n \in {floor} \cup seqs : \A seq \in seqs : seq <= n}

-----------------------------------------------------------------------------
(* The Server: insert ... on conflict (id) do update ... where.            *)

\* Defect: no `where entries.deleted_at is null`.
ChangesTombstones(old, pushed) ==
  old = NoRow \/ old.body # pushed.body \/ old.deleted # pushed.deleted

\* The statement writes: the id is new, or its row is live and the content
\* differs.  updated_at is deliberately not compared.
Changes(old, pushed) ==
  \/ old = NoRow
  \/ /\ ~old.deleted
     /\ old.body # pushed.body \/ old.deleted # pushed.deleted

\* What it writes: the pushed content under a fresh seq.
Stored(pushed, seq) == [pushed EXCEPT !.seq = seq]

\* The Cursor read: where seq > since order by seq asc limit size.
Newer(t, since) == {id \in Held(t) : t[id].seq > since}

Page(t, since, size) ==
  {id \in Newer(t, since) :
     Cardinality({other \in Newer(t, since) : t[other].seq < t[id].seq}) < size}

-----------------------------------------------------------------------------
(* The Device's store.                                                     *)

\* A local capture: upsert() of a row that has never been synced.
Captured(body, now) ==
  [body |-> body, deleted |-> FALSE, upd |-> now, seq |-> Pending]

\* edit(): stamp updated_at, clear seq (where deleted_at is null).
Edited(old, body, now) == [old EXCEPT !.body = body, !.upd = now, !.seq = Pending]

\* Defect: a tombstone that keeps the body it buries.
RemovedKeepsBody(old, now) ==
  [old EXCEPT !.deleted = TRUE, !.upd = now, !.seq = Pending]

\* remove(): tombstone and blank the body; no guard on deleted_at.
Removed(old, now) ==
  [old EXCEPT !.body = Blank, !.deleted = TRUE, !.upd = now, !.seq = Pending]

\* Defect: applyPulled still an unguarded upsert (issue #215).
PullAlways(local, incoming) == TRUE

\* applyPulled(): refused only by a pending local row that is strictly newer,
\* and never when the incoming row is a tombstone.
PullApplies(local, incoming) ==
  \/ local = NoRow
  \/ local.seq # Pending
  \/ incoming.upd >= local.upd
  \/ incoming.deleted

\* Defect: the acknowledgement still goes through upsert() (issue #216).
AckAlways(local, asPushed) == TRUE

\* applyAcknowledged(): applied unless the local row is pending and is no
\* longer the one that was pushed, told apart by updated_at alone.
AckApplies(local, asPushed) ==
  \/ local = NoRow
  \/ local.seq # Pending
  \/ local.upd = asPushed.upd

\* Defect: the pull's rule reused for acknowledgements, which ADR 0068 rejects.
AcknowledgedIfNewer(local, confirmed, asPushed) ==
  IF PullApplies(local, confirmed) THEN confirmed ELSE local

Acknowledged(local, confirmed, asPushed) ==
  IF AckApplies(local, asPushed) THEN confirmed ELSE local

=============================================================================
