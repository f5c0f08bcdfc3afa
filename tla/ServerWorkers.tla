---------------------------- MODULE ServerWorkers ----------------------------
(***************************************************************************)
(* One Server process (server/src/main.rs): pushes land in the entries     *)
(* table while the embedding worker and the Digest worker read it, readers *)
(* ask for Digests to be regenerated, settings are patched under all of    *)
(* them, and the process stops and starts again at any point.              *)
(***************************************************************************)
EXTENDS EmbeddingWorker, DigestWorker, ServerSettings

CONSTANT MaxRestarts   \* bound on restarts

ASSUME RestartsAssumption == MaxRestarts \in Nat

VARIABLE restarts

vars == <<rows, nextSeq, flags, host, embeddingVars, digestVars, settingsVars, restarts>>

Init ==
  /\ host \in Hosts
  /\ rows = EmptyTable
  /\ nextSeq = 1
  /\ restarts = 0
  /\ EmbeddingInit
  /\ DigestInit
  /\ SettingsInit

\* One row of a push commits (sync.rs), and its id is offered to the channel.
\* A Device writes no Entry of a Period that has not begun.
Push(id, pushed) ==
  /\ nextSeq <= host.maxSeq
  /\ PeriodOf[id] <= today
  /\ id \in {changed \in Ids : Changes(rows[changed], pushed)}
  /\ rows' = [rows EXCEPT ![id] = Stored(pushed, nextSeq)]
  /\ nextSeq' = nextSeq + 1
  /\ QueueChanged(id)
  /\ UNCHANGED <<flags, host, digestVars, settingsVars, restarts>>

Embed == EmbedStep /\ UNCHANGED <<rows, nextSeq, flags, host, digestVars, settingsVars, restarts>>

Digest == DigestStep /\ UNCHANGED <<rows, nextSeq, flags, host, embeddingVars, settingsVars, restarts>>

Patch == SettingsStep /\ UNCHANGED <<rows, nextSeq, host, embeddingVars, digestVars, restarts>>

Restart ==
  /\ restarts < MaxRestarts
  /\ restarts' = restarts + 1
  /\ EmbeddingRestart
  /\ DigestRestart
  /\ SettingsRestart
  /\ UNCHANGED <<rows, nextSeq, host>>

Next ==
  \/ \E id \in Ids : \E pushed \in host.pushes[id] : Push(id, pushed)
  \/ Embed
  \/ Digest
  \/ Patch
  \/ Restart

Spec == Init /\ [][Next]_vars

-----------------------------------------------------------------------------
\* tokio runs a task that can run; each worker's interval keeps firing, and
\* select! takes a ready branch at random, so neither the tick nor the hints
\* are passed over for ever.  A model call ends, one way or the other.
Run(action) == action /\ UNCHANGED <<rows, nextSeq, host, restarts>>

EmbedRun(action) == Run(action) /\ UNCHANGED <<flags, digestVars, settingsVars>>

DigestRun(action) == Run(action) /\ UNCHANGED <<flags, embeddingVars, settingsVars>>

Fairness ==
  /\ SF_vars(EmbedRun(Scan))
  /\ WF_vars(EmbedRun(\E id \in Ids : TakeHint(id)))
  /\ WF_vars(EmbedRun(\E id \in Ids : LoadBody(id) \/ LoadFails(id)))
  /\ WF_vars(EmbedRun(StoreVector \/ EmbedFails))
  /\ WF_vars(DigestRun(Tick))
  /\ WF_vars(DigestRun(\E p \in Periods : ReadPeriod(p) \/ ReadFails(p)))
  /\ WF_vars(DigestRun(WriteDigest \/ DigestFails))

FairSpec == Spec /\ Fairness

-----------------------------------------------------------------------------
(* Properties                                                              *)

TypeOK ==
  /\ host \in Hosts
  /\ rows \in Table
  /\ nextSeq \in Nat \ {0}
  /\ flags \in [Features -> BOOLEAN]
  /\ embedding \in [Ids -> Bodies \cup {NoVector, Blank}]
  /\ hints \subseteq Ids
  /\ embedder \in Embedder
  /\ attempts \in [Ids -> Nat]
  /\ overtaken \subseteq Ids
  /\ today \in Periods
  /\ digests \in [Periods -> Seq(Revision)]
  /\ scan \in ScanState
  /\ tries \in [Periods -> Nat]
  /\ ask \in [Asks -> AskState]
  /\ stored \in Settings
  /\ patch \in [Patchers -> PatchState]
  /\ restarts \in Nat

\* sync.rs nulls the vector of every row it changes so that none describes an
\* older body.  The only way to a vector that does is a model call that was in
\* flight when its row changed; nothing else leaves one, whatever is edited,
\* deleted, scanned, hinted or restarted.
VectorsAreCurrent ==
  \A id \in Live \ overtaken : embedding[id] \in {NoVector, rows[id].body}

\* ADR 0039: a Digest that is not reported stale says what its Period's live
\* Entries say now, all of them, whatever was written, edited or deleted
\* while the chat call ran and however many regenerates overlapped.
FreshIsTrue ==
  \A p \in Digested : ~IsStale(p, Newest(p)) => Newest(p).read = Readable(p)

\* The worker generates, it never regenerates: a Digest it had in the making
\* while a reader's regenerate got there first does not become a revision.
WorkerWritesFirst ==
  \A p \in Periods : \A i \in DOMAIN digests[p] : digests[p][i].by = "worker" => i = 1

\* The flags are the settings row's cache: with every PATCH answered, none of
\* them overlapped or failed, the workers are switched as the row says.
FlagsFollowRow ==
  (\A p \in Patchers : patch[p].pc \in {"due", "done"} /\ patch[p].alone)
    => flags = Resolved(stored)

-----------------------------------------------------------------------------
(* What the four above rest on.                                            *)

\* Every seq in the table has been drawn.
RowsDrawn == \A id \in Held(rows) : rows[id].seq \in 1 .. nextSeq - 1

\* A row that kept its seq since embed_one read it kept its body.
BodyAsRead ==
  embedder.pc = "asked" =>
    LET id == embedder.id
    IN  /\ id \in Held(rows)
        /\ embedder.seq < nextSeq
        /\ rows[id].seq = embedder.seq => rows[id].body = embedder.body

\* Some row of the Period is newer than everything that was read of it.
Outdated(p, read) ==
  \E id \in Within(p) \cap Held(rows) : \A e \in Held(read) : rows[id].seq > read[e].seq

\* A chat call is about the Period's live rows, unless one has changed since.
ReadHolds(p, read) ==
  /\ Held(read) # {}
  /\ Held(read) \subseteq Within(p) \cap Held(rows)
  /\ \A e \in Held(read) : read[e].seq \in 1 .. nextSeq - 1
  /\ read = Readable(p) \/ Outdated(p, read)

\* A scan that goes on has budget left.
BudgetLeft == scan.pc # "idle" => scan.left > 0

ReadsHold ==
  /\ scan.pc = "asked" => ReadHolds(scan.period, scan.read)
  /\ \A a \in Asks : ask[a].pc = "asked" => ReadHolds(ask[a].period, ask[a].read)

\* FreshIsTrue, of every revision and not only the newest.
RevisionHolds(p, rev) ==
  /\ rev.source < nextSeq
  /\ ~IsStale(p, rev) => rev.read = Readable(p)

RevisionsHold ==
  \A p \in Periods : \A i \in DOMAIN digests[p] : RevisionHolds(p, digests[p][i])

\* A PATCH in flight that nothing overlapped is the only one, and nothing
\* overlaps one that has not begun.
AloneIsAlone ==
  /\ \A p, q \in Patchers : InFlight(p) /\ patch[p].alone /\ InFlight(q) => p = q
  /\ \A p \in Patchers : patch[p].pc = "due" => patch[p].alone

\* FlagsFollowRow, between the two statements and the flags as well.
FlagsOrPatch ==
  (\A p \in Patchers : patch[p].pc # "failed" /\ patch[p].alone) =>
    \/ \E p \in Patchers : patch[p].pc = "written" /\ patch[p].row = stored
    \/ (\A p \in Patchers : patch[p].pc # "written") /\ flags = Resolved(stored)

IInv ==
  /\ TypeOK
  /\ RowsDrawn /\ BodyAsRead /\ VectorsAreCurrent
  /\ BudgetLeft /\ ReadsHold /\ RevisionsHold /\ WorkerWritesFirst
  /\ AloneIsAlone /\ FlagsOrPatch

-----------------------------------------------------------------------------
GivenUp(id) == attempts[id] = MaxAttempts

\* As many Entries as a scan takes are given up on and come before this one.
Starved(id) ==
  Cardinality({other \in Unembedded : GivenUp(other) /\ rows[other].seq < rows[id].seq})
    >= ScanBatch

\* ADR 0022: every hint may be lost and the process may die anywhere; an Entry
\* without a vector gets one, is deleted, or is given up on - unless Entries
\* given up on fill every scan before it.
EmbeddingsFill ==
  ("embeddings" \in host.workers /\ <>[]flags["embeddings"]) =>
    \A id \in Ids : id \in Unembedded ~> (id \notin Unembedded \/ GivenUp(id) \/ Starved(id))

\* ADR 0027: a completed Period with Entries that is next in line gets its
\* Digest, is passed over or emptied, or runs out of attempts; no failure,
\* restart or empty Period wedges the worker.
DigestsCatchUp ==
  ("digest" \in host.workers /\ <>[]flags["digest"]) =>
    \A p \in Periods : p \in Starts ~> (p \notin Starts \/ tries[p] = MaxTries)

\* digest.rs on its budget: a Period whose chat call fails is retried on the
\* next tick until MAX_ATTEMPTS.  What the code does violates it: a later
\* Period written in between moves the anchor past it for good.
FailedPeriodStaysDue ==
  [][\A p \in Starts :
       /\ tries[p] \in 1 .. (MaxTries - 1)
       /\ digests'[p] = <<>>
       /\ rows' = rows
       /\ today' = today
       => p \in Starts']_vars

=============================================================================
