---------------------------- MODULE SyncStreams ----------------------------
(***************************************************************************)
(* One request of sync() for all of its streams: Entries, Tasks, Projects, *)
(* Sections, Labels, Comments, Events.  The Server (run_sync) takes them   *)
(* one after another, a transaction and a read each; the Device applies    *)
(* the answer stream by stream, one SQL statement at a time.               *)
(*                                                                         *)
(* What a run still has to execute is a list of statements on the one      *)
(* connection the app has, so that other users of that connection can be   *)
(* put in between (see Backups).  The tables of the streams differ in      *)
(* columns no rule reads: a row is EntryRows' Row in each.  EntrySync has  *)
(* the Entry stream alone in more detail: late requests, new builds.       *)
(***************************************************************************)
EXTENDS EntryRows, Functions, Sequences

CONSTANTS
  Devices,
  Order,        \* the streams, in the order run_sync and sync() take them
  AppendOnly,   \* streams whose rows never change: Events
  Bumped,       \* streams with a ROW_SHAPE_EPOCH above 0: all but Events
  BatchSize,    \* SYNC_BATCH_SIZE
  Bounds        \* bounds, of which one is picked at the start: the Devices in
                \* use, those of them with a Server URL, the streams, ids and
                \* bodies written, whether those rows are everywhere already, the
                \* latest updated_at each Device stamps, the failures to come

\* SequencesExt has a Last of its own.
Seqs == INSTANCE SequencesExt

Streams == Range(Order)

ASSUME StreamsAssumption ==
  /\ IsFiniteSet(Ids)
  /\ Bodies # {}
  /\ Order \in Seq(Streams) \ {<<>>}
  /\ IsInjective(Order)
  /\ AppendOnly \subseteq Streams
  /\ Bumped \subseteq Streams
  /\ BatchSize \in Nat \ {0}
  /\ \A b \in Bounds :
       /\ b.devices \subseteq Devices
       /\ b.online \subseteq b.devices
       /\ b.streams \subseteq Streams
       /\ b.ids \subseteq Ids
       /\ b.bodies \subseteq Bodies
       /\ b.shared \in BOOLEAN
       /\ b.clock \in [Devices -> Nat]
       /\ b.fails \in Nat

VARIABLES
  rows,     \* the Server's committed tables
  store,    \* each Device's database: its tables and its kv table
  minted,   \* the ids created so far; uuids are never reused
  clock,    \* each Device's clock at its last local write
  run,      \* each Device's sync() run
  bound     \* what is left of the bound that was picked

syncVars == <<rows, store, minted, clock, run, bound>>

Tables == [Streams -> Table]
NoTables == [s \in Streams |-> EmptyTable]

\* epoch is 1 when the stored row-shape epoch is the build's.
Database == [rows : Tables, cursor : [Streams -> Nat], epoch : [Streams -> {0, 1}]]

NewDatabase ==
  [rows |-> NoTables, cursor |-> [s \in Streams |-> 0], epoch |-> [s \in Streams |-> 0]]

-----------------------------------------------------------------------------
(* Statements.                                                             *)

\* op: "ack" and "pull" are the guarded upserts, "write" an unguarded one,
\* "delete" a delete by id, "cursor" and "epoch" set a key of kv.  pushed is
\* the row as it was pushed, which the guard of an "ack" compares with.
Rows(op, s, table, pushed) ==
  [op |-> op, stream |-> s, table |-> table, pushed |-> pushed, value |-> 0]

Key(op, s, value) ==
  [op |-> op, stream |-> s, table |-> EmptyTable, pushed |-> EmptyTable, value |-> value]

Statements ==
  {w \in [op : {"ack", "pull", "write", "delete", "cursor", "epoch"}, stream : Streams,
          table : Table, pushed : Table, value : Nat] :
     w.op = "epoch" => w.value \in {0, 1}}

\* Defect: an acknowledgement goes by the rule of a pull.
LandsIfNewer(w, id, old) ==
  IF w.op \in {"ack", "pull"} THEN PullApplies(old, w.table[id]) ELSE TRUE

Lands(w, id, old) ==
  CASE w.op = "pull" -> PullApplies(old, w.table[id])
    [] w.op = "ack"  -> AckApplies(old, w.pushed[id])
    [] OTHER         -> TRUE

Execute(db, w) ==
  LET s == w.stream
  IN  CASE w.op = "cursor" -> [db EXCEPT !.cursor[s] = w.value]
        [] w.op = "epoch"  -> [db EXCEPT !.epoch[s] = w.value]
        [] w.op = "delete" -> [db EXCEPT !.rows[s] = Only(@, Ids \ Held(w.table))]
        [] OTHER -> [db EXCEPT !.rows[s] =
             [id \in Ids |-> IF id \in Held(w.table) /\ Lands(w, id, @[id])
                               THEN w.table[id] ELSE @[id]]]

-----------------------------------------------------------------------------
(* A Device's reads.                                                       *)

PendingRows(db, s) == {id \in Held(db.rows[s]) : db.rows[s][id].seq = Pending}

PendingTotal(db) == Cardinality({row \in Streams \X Ids : row[2] \in PendingRows(db, row[1])})

\* The streams catchUpRowShapeEpoch finds behind.  A build's epoch of 0 is
\* never ahead of a stored one, so Events never are.
Behind(db) == {s \in Bumped : db.epoch[s] = 0}

\* pc "loop": the statements of todo, then the top of the loop.  "server": the
\* Server is at stream Order[at].  "apply": the response's statements.  acked,
\* page: the answer so far.  again, stalledAt: see EntrySync.
Run == [pc : {"idle", "loop", "server", "apply"}, todo : Seq(Statements), at : Nat, push : Tables,
        since : [Streams -> Nat], acked : Tables, page : Tables, total : Nat,
        again : BOOLEAN, stalledAt : Nat]

Idle ==
  [pc |-> "idle", todo |-> <<>>, at |-> 1, push |-> NoTables,
   since |-> [s \in Streams |-> 0], acked |-> NoTables, page |-> NoTables,
   total |-> 0, again |-> FALSE, stalledAt |-> 0]

\* What a row everybody has says.
FirstBody == CHOOSE body \in Bodies : TRUE

\* Fresh installs; or each row is one that some Device made and every Device
\* has pulled since.
SyncInit ==
  /\ bound \in Bounds
  /\ \E seqs \in Bijection(bound.ids, 1 .. Cardinality(bound.ids)) :
       LET old == IF bound.shared THEN bound.streams ELSE {}
           start == [s \in Streams |-> [id \in Ids |->
             IF s \in old /\ id \in bound.ids THEN Stored(Captured(FirstBody, 1), seqs[id])
                                              ELSE NoRow]]
       IN  /\ rows = start
           /\ store = [d \in Devices |-> [NewDatabase EXCEPT
                !.rows = start,
                !.cursor = [s \in Streams |-> IF s \in old THEN Cardinality(bound.ids) ELSE 0],
                !.epoch = [s \in Streams |-> IF bound.shared /\ s \in Bumped THEN 1 ELSE 0]]]
           /\ minted = old \X bound.ids
           /\ clock = [d \in Devices |-> IF bound.shared THEN 1 ELSE 0]
  /\ run = [d \in Devices |-> Idle]

-----------------------------------------------------------------------------
(* The user.                                                               *)

UserWrite(d, s, id, row) ==
  /\ row.upd \in (clock[d] + 1) .. bound.clock[d]
  /\ clock' = [clock EXCEPT ![d] = row.upd]
  /\ store' = [store EXCEPT ![d].rows[s][id] = row]
  /\ UNCHANGED <<rows, run, bound>>

\* record() of an Event, or the upsert of a new row of another stream.
Create(d) ==
  \E s \in bound.streams, id \in bound.ids, body \in bound.bodies, now \in 1 .. bound.clock[d] :
    /\ <<s, id>> \notin minted
    /\ minted' = minted \cup {<<s, id>>}
    /\ UserWrite(d, s, id, Captured(body, now))

Change(d) ==
  \E s \in bound.streams \ AppendOnly, id \in bound.ids, now \in 1 .. bound.clock[d] :
    LET old == store[d].rows[s][id]
    IN  /\ old # NoRow
        /\ ~old.deleted
        /\ \/ \E body \in bound.bodies : UserWrite(d, s, id, Edited(old, body, now))
           \/ UserWrite(d, s, id, Removed(old, now))
        /\ UNCHANGED minted

-----------------------------------------------------------------------------
(* sync().                                                                 *)

\* The statements about each stream, in the order of the streams.
InOrder(lists) == Seqs!FlattenSeq([i \in DOMAIN Order |-> lists[Order[i]]])

\* catchUpRowShapeEpoch of every stream: the stored epochs are read, and a
\* stream that is behind has its Cursor reset and then its epoch recorded.
CatchUp(db) ==
  [s \in Streams |-> IF s \in Behind(db) THEN <<Key("cursor", s, 0), Key("epoch", s, 1)>>
                                         ELSE <<>>]

StartSync(d) ==
  /\ d \in bound.online
  /\ run[d].pc = "idle"
  /\ run' = [run EXCEPT ![d] = [Idle EXCEPT !.pc = "loop", !.todo = InOrder(CatchUp(store[d]))]]
  /\ UNCHANGED <<rows, store, minted, clock, bound>>

\* The next statement of the run.
Statement(d) ==
  /\ run[d].todo # <<>>
  /\ store' = [store EXCEPT ![d] = Execute(@, Head(run[d].todo))]
  /\ run' = [run EXCEPT ![d].todo = Tail(@)]
  /\ UNCHANGED <<rows, minted, clock, bound>>

AtTop(d) == run[d].pc = "loop" /\ run[d].todo = <<>>

\* The no-progress guard, over the pending rows of all streams.
Stalled(d) ==
  /\ run[d].stalledAt # 0
  /\ PendingTotal(store[d]) >= run[d].stalledAt

GiveUp(d) ==
  /\ AtTop(d)
  /\ Stalled(d)
  /\ run' = [run EXCEPT ![d] = Idle]
  /\ UNCHANGED <<rows, store, minted, clock, bound>>

\* The fourteen reads are issued together, and the request is built.
Push(d) ==
  /\ AtTop(d)
  /\ ~Stalled(d)
  /\ LET db == store[d]
         batches(s) == {ids \in SUBSET PendingRows(db, s) :
           \/ ids = PendingRows(db, s) /\ Cardinality(ids) <= BatchSize
           \/ Cardinality(ids) = BatchSize}
     IN  \E batch \in [Streams -> UNION {batches(s) : s \in Streams}] :
           /\ \A s \in Streams : batch[s] \in batches(s)
           /\ run' = [run EXCEPT ![d] = [Idle EXCEPT
                !.pc = "server",
                !.push = [s \in Streams |-> Only(db.rows[s], batch[s])],
                !.since = db.cursor,
                !.total = PendingTotal(db),
                !.again = \E s \in Streams :
                            Cardinality(PendingRows(db, s)) > BatchSize]]
  /\ UNCHANGED <<rows, store, minted, clock, bound>>

\* insert_<stream>: on conflict do nothing for Events, the rule of EntryRows
\* for the rest.
Inserts(s, old, pushed) ==
  IF s \in AppendOnly THEN old = NoRow ELSE Changes(old, pushed)

\* One stream's transaction; it is left out when nothing was pushed.
Commit(d) ==
  LET s == Order[run[d].at]
      push == run[d].push[s]
      changed == {id \in Held(push) : Inserts(s, rows[s][id], push[id])}
  IN  /\ run[d].pc = "server"
      /\ Held(run[d].acked[s]) # Held(push)
      /\ \E last \in Last(rows[s], 0) :
         \E seqs \in Bijection(changed, (last + 1) .. (last + Cardinality(changed))) :
           rows' = [rows EXCEPT ![s] =
             [id \in Ids |-> IF id \in changed THEN Stored(push[id], seqs[id]) ELSE @[id]]]
      /\ run' = [run EXCEPT ![d].acked[s] = Only(rows'[s], Held(push))]
      /\ UNCHANGED <<store, minted, clock, bound>>

\* What the Device does with one stream of the answer: the acknowledged rows,
\* the page, the Cursor.  eventStore.upsert writes either without a guard.
Apply(r, s) ==
  LET acks == Seqs!SetToSeq(Held(r.acked[s]))
      one(id) == Rows("ack", s, Only(r.acked[s], {id}), Only(r.push[s], {id}))
      next == CHOOSE n \in Last(r.page[s], r.since[s]) : TRUE
  IN  (IF s \in AppendOnly
         THEN IF acks = <<>> THEN <<>> ELSE <<Rows("write", s, r.acked[s], EmptyTable)>>
         ELSE [i \in DOMAIN acks |-> one(acks[i])])
      \o (IF Held(r.page[s]) = {} THEN <<>>
          ELSE <<Rows(IF s \in AppendOnly THEN "write" ELSE "pull", s, r.page[s], EmptyTable)>>)
      \o (IF next > r.since[s] THEN <<Key("cursor", s, next)>> ELSE <<>>)

Full(r) == \E s \in Streams : Cardinality(Held(r.page[s])) >= BatchSize

\* One stream's Cursor read.  After the last of them the response comes back.
Read(d) ==
  LET s == Order[run[d].at]
      page == Only(rows[s], Page(rows[s], run[d].since[s], BatchSize))
      answered == [run[d] EXCEPT !.page[s] = page, !.at = @ + 1]
  IN  /\ run[d].pc = "server"
      /\ Held(run[d].acked[s]) = Held(run[d].push[s])
      /\ run' = [run EXCEPT ![d] =
           IF run[d].at < Len(Order) THEN answered
           ELSE [Idle EXCEPT
             !.pc = "apply",
             !.todo = InOrder([z \in Streams |-> Apply(answered, z)]),
             !.again = answered.again \/ Full(answered),
             !.stalledAt = IF Full(answered) THEN 0 ELSE answered.total]]
      /\ UNCHANGED <<rows, store, minted, clock, bound>>

\* The loop decision.  total is 0 unless something was pushed.
EndIteration(d) ==
  /\ run[d].pc = "apply"
  /\ run[d].todo = <<>>
  /\ run' = [run EXCEPT ![d] =
       IF run[d].again THEN [Idle EXCEPT !.pc = "loop", !.stalledAt = run[d].stalledAt]
                       ELSE Idle]
  /\ UNCHANGED <<rows, store, minted, clock, bound>>

\* The run is cut short: a request or a statement fails.  What the Server has
\* committed stays committed, stream by stream.
Fail(d) ==
  /\ bound.fails > 0
  /\ bound' = [bound EXCEPT !.fails = @ - 1]
  /\ run[d].pc # "idle"
  /\ run' = [run EXCEPT ![d] = Idle]
  /\ UNCHANGED <<rows, store, minted, clock>>

RunStep(d) ==
  \/ Statement(d)
  \/ GiveUp(d)
  \/ Push(d)
  \/ Commit(d)
  \/ Read(d)
  \/ EndIteration(d)

SyncNext(d) ==
  \/ Create(d)
  \/ Change(d)
  \/ StartSync(d)
  \/ RunStep(d)
  \/ Fail(d)

SyncSpec == SyncInit /\ [][\E d \in bound.devices : SyncNext(d)]_syncVars

=============================================================================
