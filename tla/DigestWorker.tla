---------------------------- MODULE DigestWorker ----------------------------
(***************************************************************************)
(* The Digest worker and the regenerate route (server/src/digest.rs) for   *)
(* one Period type; the three types share nothing but the tick.  A Period  *)
(* is a number, `today` the one now() falls in, and period_bounds the      *)
(* fixed partition PeriodOf of the Entries by created_at (period.rs).      *)
(*                                                                         *)
(* A Digest body is the rows it was written from.  Which of them the       *)
(* surviving chunks cover is left open: chunk_entries may cut anywhere.    *)
(* The insert is one step with the end of the chat call that precedes it,  *)
(* and the two reads of fill_period are one step: each Period is read and  *)
(* guarded again by the steps that follow.  Task facts are left out: they  *)
(* never decide whether a Digest is written.                               *)
(***************************************************************************)
EXTENDS ServerState, Sequences

CONSTANTS
  Periods,      \* the Periods in sight, 1 .. some bound on `today`
  PeriodOf,     \* the Period an Entry's created_at falls in
  TickBudget,   \* MAX_DIGESTS_PER_TICK
  MaxTries,     \* MAX_ATTEMPTS
  Asks          \* POST .../regenerate requests handled at once

ASSUME DigestAssumption ==
  /\ Periods \subseteq Nat
  /\ 1 \in Periods
  /\ PeriodOf \in [Ids -> Periods]
  /\ TickBudget \in Nat \ {0}
  /\ MaxTries \in Nat \ {0}

VARIABLES
  today,     \* the Period under way
  digests,   \* digests: the revisions of each Period, oldest first
  scan,      \* the worker's tick
  tries,     \* the in-memory HashMap of failures
  ask        \* the regenerate requests

digestVars == <<today, digests, scan, tries, ask>>

\* read: the rows the prose is about (history, and grounding_entry_ids).
\* source: source_seq.  by: who wrote it (history).
Revision == [read : Table, source : Nat, by : {"worker", "reader"}]

\* todo: Periods of this tick still to be tried.  left: of its budget.
\* read: the rows the chat call in flight was given.
ScanState == [pc : {"idle", "next", "asked"}, todo : SUBSET Periods, left : Nat,
              period : Periods \cup {0}, read : Table]

NoScan == [pc |-> "idle", todo |-> {}, left |-> 0, period |-> 0, read |-> EmptyTable]

AskState == [pc : {"idle", "asked"}, period : Periods \cup {0}, read : Table]

NoAsk == [pc |-> "idle", period |-> 0, read |-> EmptyTable]

-----------------------------------------------------------------------------
Within(p) == {id \in Ids : PeriodOf[id] = p}

\* select_entries: the live rows of one Period.
Readable(p) == Only(rows, Within(p) \cap Live)

\* latest_digest_start, as the Periods after it; with no Digest at all only
\* the newest completed Period is eligible.
Digested == {p \in Periods : digests[p] # <<>>}

Eligible ==
  {p \in Periods :
     /\ p < today
     /\ \A q \in Digested : q < p
     /\ Digested = {} => p = today - 1}

\* ... of which those some live Entry's timestamp falls in.
Starts == {p \in Eligible : Within(p) \cap Live # {}}

\* Defect: the watermark is taken when the revision is written.
SourceAtWrite(read, covered) == Last(rows, 0)

\* generate_digest_body: source_seq_of everything that was read, or 0 when a
\* chunk was skipped.
SourceSeq(read, covered) == IF covered = Held(read) THEN Last(read, 0) ELSE {0}

Written(read, covered, by) ==
  {[read |-> Only(read, covered), source |-> source, by |-> by] :
     source \in SourceSeq(read, covered)}

\* select_is_stale: some row of the Period, a tombstone included, is newer.
IsStale(p, rev) == \E id \in Within(p) \cap Held(rows) : rows[id].seq > rev.source

Newest(p) == digests[p][Len(digests[p])]

-----------------------------------------------------------------------------
DigestInit ==
  /\ today = 1
  /\ digests = [p \in Periods |-> <<>>]
  /\ scan = NoScan
  /\ tries = [p \in Periods |-> 0]
  /\ ask = [a \in Asks |-> NoAsk]

Midnight ==
  /\ today < host.until
  /\ today + 1 \in Periods
  /\ today' = today + 1
  /\ UNCHANGED <<digests, scan, tries, ask>>

\* The tick: run's flag check and fill_period down to its loop.
Tick ==
  /\ "digest" \in host.workers
  /\ scan.pc = "idle"
  /\ flags["digest"]
  /\ Starts # {}
  /\ scan' = [NoScan EXCEPT !.pc = "next", !.todo = Starts, !.left = TickBudget]
  /\ UNCHANGED <<today, digests, tries, ask>>

\* The scan goes on to the next start, or ends with its list or its budget.
Onwards(left) ==
  IF scan.todo = {} \/ left = 0
    THEN NoScan
    ELSE [scan EXCEPT !.pc = "next", !.left = left, !.period = 0, !.read = EmptyTable]

\* write_digest_for up to the chat call, oldest Period first.
ReadPeriod(p) ==
  /\ scan.pc = "next"
  /\ p \in scan.todo
  /\ \A q \in scan.todo : p <= q
  /\ LET rest == scan.todo \ {p}
     IN  scan' = IF tries[p] < MaxTries /\ Held(Readable(p)) # {}
                   THEN [scan EXCEPT !.pc = "asked", !.todo = rest,
                                     !.period = p, !.read = Readable(p)]
                   ELSE IF rest = {} THEN NoScan ELSE [scan EXCEPT !.todo = rest]
  /\ UNCHANGED <<today, digests, tries, ask>>

\* The Period's Entries cannot be loaded.
ReadFails(p) ==
  /\ scan.pc = "next"
  /\ p \in scan.todo
  /\ \A q \in scan.todo : p <= q
  /\ tries[p] < MaxTries
  /\ tries' = [tries EXCEPT ![p] = @ + 1]
  /\ scan' = IF scan.todo = {p} THEN NoScan ELSE [scan EXCEPT !.todo = @ \ {p}]
  /\ UNCHANGED <<today, digests, ask>>

\* Defect: a revision whatever is there already.
InsertAlways(p, rev) == digests' = [digests EXCEPT ![p] = Append(@, rev)]

\* insert_digest: revision 1, only where the Period has no revision.
InsertFirst(p, rev) ==
  digests' = IF digests[p] = <<>> THEN [digests EXCEPT ![p] = <<rev>>] ELSE digests

\* At least one chunk came back and the insert ran; a Digest somebody else
\* inserted meanwhile costs nothing of the budget.
WriteDigest ==
  /\ scan.pc = "asked"
  /\ \E covered \in SUBSET Held(scan.read) \ {{}} :
       \E rev \in Written(scan.read, covered, "worker") :
         InsertFirst(scan.period, rev)
  /\ tries' = [tries EXCEPT ![scan.period] = 0]
  /\ scan' = Onwards(IF digests[scan.period] = <<>> THEN scan.left - 1 ELSE scan.left)
  /\ UNCHANGED <<today, ask>>

\* Defect: a failed Digest is not counted.
DigestFailsUncounted ==
  /\ scan.pc = "asked"
  /\ scan' = Onwards(scan.left)
  /\ UNCHANGED <<today, digests, tries, ask>>

\* Every chunk failed, or the insert did: the attempt is counted, the budget
\* is not spent, and the loop goes on with the next, later Period.
DigestFails ==
  /\ scan.pc = "asked"
  /\ tries' = [tries EXCEPT ![scan.period] = @ + 1]
  /\ scan' = Onwards(scan.left)
  /\ UNCHANGED <<today, digests, ask>>

\* regenerate_digest_handler: refused with the flag off; a Period without
\* live Entries only reads back what is there.
Regenerate(a, p) ==
  /\ "digest" \in host.workers
  /\ ask[a].pc = "idle"
  /\ flags["digest"]
  /\ Len(digests[p]) < host.maxRevs
  /\ Held(Readable(p)) # {}
  /\ ask' = [ask EXCEPT ![a] = [pc |-> "asked", period |-> p, read |-> Readable(p)]]
  /\ UNCHANGED <<today, digests, scan, tries>>

\* regenerate_insert: coalesce(max(revision), 0) + 1.
WriteRevision(a) ==
  /\ ask[a].pc = "asked"
  /\ \E covered \in SUBSET Held(ask[a].read) \ {{}} :
       \E rev \in Written(ask[a].read, covered, "reader") :
         digests' = [digests EXCEPT ![ask[a].period] = Append(@, rev)]
  /\ ask' = [ask EXCEPT ![a] = NoAsk]
  /\ UNCHANGED <<today, scan, tries>>

\* Every chunk failed, or another regenerate took the revision number.
RegenerateFails(a) ==
  /\ ask[a].pc = "asked"
  /\ ask' = [ask EXCEPT ![a] = NoAsk]
  /\ UNCHANGED <<today, digests, scan, tries>>

DigestStep ==
  \/ Midnight \/ Tick \/ WriteDigest \/ DigestFails
  \/ \E p \in Periods : ReadPeriod(p) \/ ReadFails(p)
  \/ \E a \in Asks : \/ \E p \in Periods : Regenerate(a, p)
                     \/ WriteRevision(a) \/ RegenerateFails(a)

\* The process stops: the counts and every call in flight are memory.
DigestRestart ==
  /\ scan' = NoScan
  /\ tries' = [p \in Periods |-> 0]
  /\ ask' = [a \in Asks |-> NoAsk]
  /\ UNCHANGED <<today, digests>>

=============================================================================
