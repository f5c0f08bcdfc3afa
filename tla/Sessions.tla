------------------------------- MODULE Sessions -------------------------------
(***************************************************************************)
(* One Session as the Server keeps it (server/src/sessions.rs): a row with *)
(* the id of its leaf, an append-only tree of entries, and the reads that  *)
(* turn the path from the leaf to the root back into a Conversation.       *)
(*                                                                         *)
(* Entries are numbered in the order they are inserted; the numbers stand  *)
(* for the uuids.  Left out are seq and the operation log: no code in the  *)
(* repository reads either one.                                            *)
(***************************************************************************)
EXTENDS Integers, Sequences, SequencesExt

CONSTANTS
  Asks,           \* the Questions: each is asked once, in one request
  Models,         \* model ids
  DefaultModel    \* ReflectState::chat_model

ASSUME DefaultIsModel == DefaultModel \in Models

VARIABLES
  exists,    \* the sessions row is there
  leaf,      \* main_leaf_id, 0 for null
  entries,   \* session_entries, by id
  nextId     \* the next id

sessionVars == <<exists, leaf, entries, nextId>>

\* What a tool call came back with: the Digest of a Period, some Entries, or
\* neither (an error, an unknown tool, an empty result).
Digests == {"day", "week"}

Results == Digests \cup {"entries", "nothing"}

\* A reply of the model: tool calls, prose, no prose, or a failed stream.
Replies == {"call", "text", "empty", "error"}

\* The payloads; a reply's text is its place among the Turn's steps.  covers:
\* the Questions a summary was written from.
UserEntry(a) == [type |-> "user", ask |-> a]
AssistantEntry(step, isAnswer) == [type |-> "assistant", text |-> step, isAnswer |-> isAnswer]
ToolEntry(result) == [type |-> "tool", result |-> result]
ModelEntry(model) == [type |-> "model", model |-> model]
CompactionEntry(covers) == [type |-> "compaction", covers |-> covers]

-----------------------------------------------------------------------------
(* Reading                                                                 *)

\* walk_to_root, reversed: the entries from the root to one of them.
PathTo(id) ==
  LET path[i \in {0} \cup DOMAIN entries] ==
        IF i = 0 THEN <<>>
        ELSE LET before == path[entries[i].parent] IN Append(before, entries[i].payload)
  IN  path[id]

LastOf(path, type) == SelectLastInSeq(path, LAMBDA entry : entry.type = type)

\* project_from_last_compaction
Projected(path) ==
  LET cut == LastOf(path, "compaction")
  IN  IF cut = 0 THEN path ELSE SubSeq(path, cut, Len(path))

\* The model_change in force at the end of a path.
ModelAfter(path, seed) ==
  LET change == LastOf(path, "model") IN IF change = 0 THEN seed ELSE path[change].model

\* Defect: what a compaction hides is not looked at for a model.
DefaultBefore(path) == DefaultModel

\* model_before_projection
ModelBefore(path) ==
  ModelAfter(SubSeq(path, 1, LastOf(path, "compaction") - 1), DefaultModel)

\* Whether any of a Turn's steps is a tool's result.
Called(steps) == \E i \in DOMAIN steps : steps[i] \in Results

\* DigestSourceTracker: the last Digest read, unless Entries came after it.
DigestSource(steps) ==
  LET last(kinds) == SelectLastInSeq(steps, LAMBDA step : step \in kinds)
  IN  IF last(Digests) > last({"entries"}) THEN steps[last(Digests)] ELSE "none"

\* Defect: the last reply is the Answer, accepted or not.
LastReply(path, from, to) ==
  CHOOSE i \in from .. to :
    /\ path[i].type = "assistant"
    /\ \A j \in (i + 1) .. to : path[j].type # "assistant"

\* The reply marked is_answer, or the last one where none is.
AnswerEntry(path, from, to) ==
  LET said == {i \in from .. to : path[i].type = "assistant"}
      marked == {i \in said : path[i].isAnswer}
  IN  Max(IF marked = {} THEN said ELSE marked)

\* entries_to_turns, for the Question at i and what follows it up to the next.
TurnAt(path, i, seed) ==
  LET later == {j \in (i + 1) .. Len(path) : path[j].type = "user"}
      to == IF later = {} THEN Len(path) ELSE Min(later) - 1
      answer == AnswerEntry(path, i + 1, to)
      steps == [k \in 1 .. answer - i |-> IF path[i + k].type = "tool" THEN path[i + k].result
                                          ELSE "reply"]
  IN  [ask |-> path[i].ask,
       answer |-> path[answer].text,
       toolCalled |-> Called(steps),
       source |-> DigestSource(steps),
       model |-> ModelAfter(SubSeq(path, 1, answer), seed)]

\* entries_to_turns.  Every Turn record_turn_from_steps appends has a reply.
TurnsOf(path, seed) ==
  LET turns[i \in 0 .. Len(path)] ==
        IF i = 0 THEN <<>>
        ELSE IF path[i].type = "user" THEN Append(turns[i - 1], TurnAt(path, i, seed))
        ELSE turns[i - 1]
  IN  turns[Len(path)]

\* load_turns: what GET /v1/sessions/{id} shows and the next ask replays.
LoadTurns == LET path == PathTo(leaf) IN TurnsOf(Projected(path), ModelBefore(path))

\* latest_compaction_summary, as what it was written from; {} for none.
LatestSummary ==
  LET path == PathTo(leaf)
      cut == LastOf(path, "compaction")
  IN  IF cut = 0 THEN {} ELSE path[cut].covers

-----------------------------------------------------------------------------
(* Writing                                                                 *)

SessionInit ==
  /\ exists = FALSE
  /\ leaf = 0
  /\ entries = <<>>
  /\ nextId = 1

\* create_session_with_id: on conflict do nothing.
CreateSession ==
  /\ exists' = TRUE
  /\ UNCHANGED <<leaf, entries, nextId>>

\* The tree once payloads are chained onto `parent`, in order.
Chained(parent, payloads) ==
  [id \in DOMAIN entries \cup (nextId .. nextId + Len(payloads) - 1) |->
     IF id < nextId THEN entries[id]
     ELSE [parent |-> IF id = nextId THEN parent ELSE id - 1,
           payload |-> payloads[id - nextId + 1]]]

\* Defect: no foreign key on the parent.
AppendUnchecked(parent, payloads) ==
  /\ exists
  /\ entries' = Chained(parent, payloads)
  /\ leaf' = nextId + Len(payloads) - 1
  /\ nextId' = nextId + Len(payloads)
  /\ UNCHANGED exists

\* append_entry for each payload, the first onto `parent`, and the new leaf.
\* The row's update is locked until the commit: one step.  A parent that is
\* no longer there fails the foreign key, a row that is not there fetch_one.
AppendChain(parent, payloads) ==
  /\ exists
  /\ parent \in {0} \cup DOMAIN entries
  /\ entries' = Chained(parent, payloads)
  /\ leaf' = nextId + Len(payloads) - 1
  /\ nextId' = nextId + Len(payloads)
  /\ UNCHANGED exists

\* delete_session_handler, and what the foreign keys cascade to.
DeleteSession ==
  /\ exists
  /\ exists' = FALSE
  /\ leaf' = 0
  /\ entries' = <<>>
  /\ UNCHANGED nextId

=============================================================================
