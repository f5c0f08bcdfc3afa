--------------------------- MODULE EmbeddingWorker ---------------------------
(***************************************************************************)
(* The embedding worker (server/src/embedding.rs): one task that takes ids *)
(* from a lossy hint channel and from a periodic scan, and for each reads  *)
(* the body, waits for the model, and writes the vector back by id alone.  *)
(* The durable queue is the null embedding column, which every push that   *)
(* changes a row sets to null again.                                       *)
(*                                                                         *)
(* A vector is the body it was computed from.  The ids of one scan are     *)
(* taken in any order, where the code takes them by seq.  The store        *)
(* statement is one step with the end of the model call that precedes it:  *)
(* what it writes was fixed when the body was read.                        *)
(***************************************************************************)
EXTENDS ServerState

CONSTANTS
  NoVector,      \* embedding is null
  ScanBatch,     \* SCAN_BATCH_SIZE
  MaxAttempts,   \* MAX_ATTEMPTS
  ChannelSize    \* capacity of the hint channel main.rs creates

ASSUME EmbeddingAssumption ==
  /\ NoVector \notin Bodies
  /\ ScanBatch \in Nat \ {0}
  /\ MaxAttempts \in Nat \ {0}
  /\ ChannelSize \in Nat

VARIABLES
  embedding,   \* the embedding column: the body a vector is of, or null
  hints,       \* ids in the channel
  embedder,    \* where the worker's loop is
  attempts,    \* the in-memory HashMap of failures
  overtaken    \* history: ids whose vector was computed from a replaced row

embeddingVars == <<embedding, hints, embedder, attempts, overtaken>>

\* todo: ids still to go through embed_one.  body, seq: of the row the call in
\* flight read (seq is history).
Embedder == [pc : {"select", "load", "asked"}, todo : SUBSET Ids,
             id : Maybe(Ids), body : Bodies \cup {Blank}, seq : Nat]

AtSelect == [pc |-> "select", todo |-> {}, id |-> NoRow, body |-> Blank, seq |-> 0]

\* The rest of a scan, or back to the select! when nothing is left of it.
Rest(todo) ==
  [AtSelect EXCEPT !.todo = todo, !.pc = IF todo = {} THEN "select" ELSE "load"]

\* The rows embed_one will spend a call on.
Unembedded == {id \in Live : embedding[id] = NoVector}

\* select_unembedded: order by seq asc limit SCAN_BATCH_SIZE.
ScanResult ==
  {id \in Unembedded :
     Cardinality({other \in Unembedded : rows[other].seq < rows[id].seq}) < ScanBatch}

EmbeddingInit ==
  /\ embedding = [id \in Ids |-> NoVector]
  /\ hints = {}
  /\ embedder = AtSelect
  /\ attempts = [id \in Ids |-> 0]
  /\ overtaken = {}

\* Defect: the on conflict clause leaves the embedding column alone.
KeepVector(id) ==
  /\ hints' = hints \cup {id}
  /\ UNCHANGED <<embedding, embedder, attempts, overtaken>>

\* insert_entries nulls the embedding of a row it changes; run_sync then
\* offers its id to the channel, which drops it when full or absent.
QueueChanged(id) ==
  /\ embedding' = [embedding EXCEPT ![id] = NoVector]
  /\ hints' = IF /\ "embeddings" \in host.workers
                 /\ Cardinality(hints) < ChannelSize
                THEN hints \cup {id} ELSE hints
  /\ overtaken' = overtaken \ {id}
  /\ UNCHANGED <<embedder, attempts>>

\* The hint arm: a hint taken while the flag is off is gone.
TakeHint(id) ==
  /\ embedder.pc = "select"
  /\ id \in hints
  /\ hints' = hints \ {id}
  /\ embedder' = Rest(IF flags["embeddings"] THEN {id} ELSE {})
  /\ UNCHANGED <<embedding, attempts, overtaken>>

\* The tick arm; with the flag off it does not even query.
Scan ==
  /\ "embeddings" \in host.workers
  /\ embedder.pc = "select"
  /\ flags["embeddings"]
  /\ embedder' = Rest(ScanResult)
  /\ UNCHANGED <<embedding, hints, attempts, overtaken>>

\* embed_one up to the model call: an id past its cap, embedded meanwhile or
\* deleted is dropped.  The flag is not looked at again.
LoadBody(id) ==
  /\ embedder.pc = "load"
  /\ id \in embedder.todo
  /\ LET todo == embedder.todo \ {id}
     IN  embedder' = IF attempts[id] < MaxAttempts /\ id \in Unembedded
                       THEN [pc |-> "asked", todo |-> todo, id |-> id,
                             body |-> rows[id].body, seq |-> rows[id].seq]
                       ELSE Rest(todo)
  /\ UNCHANGED <<embedding, hints, attempts, overtaken>>

\* The body cannot be loaded.
LoadFails(id) ==
  /\ embedder.pc = "load"
  /\ id \in embedder.todo
  /\ attempts[id] < MaxAttempts
  /\ attempts' = [attempts EXCEPT ![id] = @ + 1]
  /\ embedder' = Rest(embedder.todo \ {id})
  /\ UNCHANGED <<embedding, hints, overtaken>>

\* The model answers and store_embedding runs: where id = $3, whatever has
\* become of the row since.
StoreVector ==
  /\ embedder.pc = "asked"
  /\ LET id == embedder.id
     IN  /\ embedding' = [embedding EXCEPT ![id] = embedder.body]
         /\ attempts' = [attempts EXCEPT ![id] = 0]
         /\ overtaken' = IF rows[id].seq = embedder.seq THEN overtaken
                                                        ELSE overtaken \cup {id}
  /\ embedder' = Rest(embedder.todo)
  /\ UNCHANGED hints

\* Defect: a failed call is not counted.
EmbedFailsUncounted ==
  /\ embedder.pc = "asked"
  /\ embedder' = Rest(embedder.todo)
  /\ UNCHANGED <<embedding, hints, attempts, overtaken>>

\* The model call or the update fails.
EmbedFails ==
  /\ embedder.pc = "asked"
  /\ attempts' = [attempts EXCEPT ![embedder.id] = @ + 1]
  /\ embedder' = Rest(embedder.todo)
  /\ UNCHANGED <<embedding, hints, overtaken>>

EmbedStep ==
  \/ \E id \in Ids : TakeHint(id) \/ LoadBody(id) \/ LoadFails(id)
  \/ Scan \/ StoreVector \/ EmbedFails

\* The process stops: the channel and the attempt counts are memory.
EmbeddingRestart ==
  /\ hints' = {}
  /\ embedder' = AtSelect
  /\ attempts' = [id \in Ids |-> 0]
  /\ UNCHANGED <<embedding, overtaken>>

=============================================================================
