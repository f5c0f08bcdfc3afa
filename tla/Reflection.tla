------------------------------ MODULE Reflection ------------------------------
(***************************************************************************)
(* POST /v1/reflect (server/src/reflect.rs): requests that ask a Question  *)
(* of one Session, from its loading, through compaction and the agent loop *)
(* with its corrective turns, to the Turn that is appended.  Every database*)
(* statement and every model call is a step of its own, so requests of     *)
(* several Devices interleave between them; a Device may also delete the   *)
(* Session, and any call may fail or the process stop.                     *)
(*                                                                         *)
(* The loop (harness/agent_loop.rs) shares nothing with other requests: a  *)
(* whole run of it is one step, of the shapes LoopRun allows.  What the    *)
(* model is prompted with, retrieval and the events are left out, and so   *)
(* is transform_context, which shortens what one run replays to the model. *)
(***************************************************************************)
EXTENDS Sessions, FiniteSets

CONSTANTS
  Window,      \* CONVERSATION_WINDOW
  Scenarios    \* what Devices do, see Scenario

\* asks: the Questions that will arrive.  models: what they can name, "same"
\* for nothing.  runs: what the loop can do.  fits: the Conversation never
\* outgrows the model's context.  failures, deletes: how many of each.
Scenario == [asks : SUBSET Asks, models : SUBSET (Models \cup {"same"}),
             runs : SUBSET Seq(Replies \cup Results), fits : BOOLEAN,
             failures : Nat, deletes : Nat]

\* run_inner: replies with tool calls, each followed by their results, up to
\* the first reply without any.  No tool of the Server terminates a run.
LoopRun(steps) ==
  /\ steps # <<>>
  /\ steps[Len(steps)] \in Replies \ {"call"}
  /\ \A i \in 1 .. Len(steps) - 1 :
       \/ steps[i] = "call" /\ steps[i + 1] \in Results
       \/ steps[i] \in Results /\ i > 1

ASSUME ReflectionAssumption ==
  /\ Window \in Nat \ {0}
  /\ \A s \in Scenarios : s \in Scenario /\ \A run \in s.runs : LoopRun(run)

VARIABLES
  scenario,    \* chosen at the start, never changed
  ask,         \* each request
  passedOver,  \* history: Turns a compaction could not have summarised
  failures,
  deletes

vars == <<sessionVars, scenario, ask, passedOver, failures, deletes>>

\* turns: prior_turns.  model: the model it runs on; change: model_change.
\* summary: prior_summary.  parent: the leaf append_compaction read.  steps,
\* answer: the outcome and answer_step_index.  loops: how many runs of the
\* loop were made (history).  retried: as in the code.  cut, unseen, sure,
\* response: history; the Turns the window cut off, the Turns appended since
\* the Conversation was loaded, whether the model in force was in sight and
\* nobody else has written since, and the ReflectResponse.
NewAsk == [pc |-> "new", turns |-> <<>>, model |-> DefaultModel, change |-> FALSE,
           summary |-> {}, parent |-> 0, steps |-> <<>>, answer |-> 0, loops |-> 0,
           retried |-> FALSE, cut |-> {}, unseen |-> {}, sure |-> TRUE,
           response |-> <<>>]

Ended == {"new", "done", "failed"}

Loading == {"load", "create", "summary", "summarise", "compact", "loop"}

InFlight(a) == ask[a].pc \notin Ended

Init ==
  /\ SessionInit
  /\ scenario \in Scenarios
  /\ ask = [a \in Asks |-> NewAsk]
  /\ passedOver = {}
  /\ failures = 0
  /\ deletes = 0

Others(a) == [b \in Asks |-> IF b # a /\ InFlight(b) THEN [ask[b] EXCEPT !.sure = FALSE]
                                                     ELSE ask[b]]

Local == UNCHANGED <<sessionVars, scenario, passedOver, failures, deletes>>

-----------------------------------------------------------------------------
\* resolve_session: find_session.
Find(a) ==
  /\ a \in scenario.asks
  /\ ask[a].pc = "new"
  /\ ask' = [ask EXCEPT ![a].pc = IF exists THEN "load" ELSE "create"]
  /\ Local

\* The head of run_reflect_stream_inner, on the Turns that were loaded.
Begun(turns, model, sure) ==
  LET current == IF turns = <<>> THEN DefaultModel ELSE turns[Len(turns)].model
      resolved == IF model = "same" THEN current ELSE model
      first == Max({1, Len(turns) - Window + 1})
      asked(from, to) == {turns[i].ask : i \in from .. to}
  IN  [NewAsk EXCEPT !.pc = "summary", !.model = resolved, !.change = resolved # current,
                     !.turns = SubSeq(turns, first, Len(turns)),
                     !.cut = asked(1, first - 1), !.sure = sure]

\* resolve_session: an id no row has yet is the Device's new Session.
Create(a) ==
  /\ ask[a].pc = "create"
  /\ CreateSession
  /\ \E model \in scenario.models :
       ask' = [ask EXCEPT ![a] = Begun(<<>>, model, leaf = 0)]
  /\ UNCHANGED <<scenario, passedOver, failures, deletes>>

\* resolve_session: load_turns, of a Session that may be gone by now.
Load(a) ==
  /\ ask[a].pc = "load"
  /\ \E model \in scenario.models :
       ask' = [ask EXCEPT ![a] = Begun(LoadTurns, model, leaf = 0 \/ LoadTurns # <<>>)]
  /\ Local

\* latest_compaction_summary, and maybe_compact_prior_turns up to the call.
ReadSummary(a) ==
  /\ ask[a].pc = "summary"
  /\ \E pc \in {"loop", "summarise"} :
       /\ pc = "summarise" => ask[a].turns # <<>> /\ ~scenario.fits
       /\ ask' = [ask EXCEPT ![a].pc = pc, ![a].summary = LatestSummary]
  /\ Local

\* The summary is there; append_compaction reads the leaf, without a lock,
\* and writes nothing onto a Session that has none.
ReadLeaf(a) ==
  /\ ask[a].pc = "summarise"
  /\ ask' = [ask EXCEPT ![a].pc = IF leaf = 0 THEN "loop" ELSE "compact",
                        ![a].parent = leaf]
  /\ Local

Turns(a) == {ask[a].turns[i].ask : i \in DOMAIN ask[a].turns}

\* Defect: the new summary does not take the one before it in.
SummaryAnew(a) == Turns(a)

\* summarize_prior_turns
Summary(a) == ask[a].summary \cup Turns(a)

\* append_compaction onto the leaf it read, whatever the leaf is by now.
Compact(a) ==
  /\ ask[a].pc = "compact"
  /\ AppendChain(ask[a].parent, <<CompactionEntry(Summary(a))>>)
  /\ ask' = [Others(a) EXCEPT ![a].pc = "loop", ![a].summary = Summary(a),
                              ![a].turns = <<>>]
  /\ passedOver' = passedOver \cup ask[a].cut \cup ask[a].unseen
  /\ UNCHANGED <<scenario, failures, deletes>>

-----------------------------------------------------------------------------
Reply(a) == ask[a].steps[ask[a].answer]

\* agent_loop::run_with_events
Run(a) ==
  /\ ask[a].pc = "loop"
  /\ \E run \in scenario.runs :
       ask' = [ask EXCEPT ![a].pc = "ran", ![a].steps = run, ![a].answer = Len(run),
                          ![a].loops = 1]
  /\ Local

\* An empty reply is given one corrective turn, ...
EmptyReply(a) == ~ask[a].retried /\ Reply(a) = "empty"

\* Defect: ... and one that called no tool another.
ToollessAgain(a) == Reply(a) = "text" /\ ~Called(ask[a].steps)

\* ... and one that called no tool, unless the empty one was.
ToollessReply(a) == ~ask[a].retried /\ Reply(a) = "text" /\ ~Called(ask[a].steps)

CorrectEmpty(a) ==
  /\ ask[a].pc = "ran"
  /\ EmptyReply(a)
  /\ \E run \in scenario.runs :
       LET steps == ask[a].steps \o run
       IN  ask' = [ask EXCEPT ![a].steps = steps, ![a].answer = Len(steps),
                              ![a].retried = TRUE, ![a].loops = @ + 1]
  /\ Local

\* A corrective reply that is empty or failed leaves the one it was to correct.
CorrectToolless(a) ==
  /\ ask[a].pc = "ran"
  /\ ToollessReply(a)
  /\ \E run \in scenario.runs :
       LET steps == ask[a].steps \o run
       IN  ask' = [ask EXCEPT ![a].pc = "settled", ![a].steps = steps,
                              ![a].answer = IF run[Len(run)] = "text" THEN Len(steps) ELSE @,
                              ![a].loops = @ + 1]
  /\ Local

Settled(a) ==
  \/ ask[a].pc = "settled"
  \/ ask[a].pc = "ran" /\ ~EmptyReply(a) /\ ~ToollessReply(a)

\* No NonEmptyAnswer: nothing is written.
NoAnswer(a) ==
  /\ Settled(a)
  /\ Reply(a) # "text"
  /\ ask' = [ask EXCEPT ![a].pc = "failed"]
  /\ Local

\* Defect: every reply with prose is marked as the Answer.
MarkAll(a, i) == ask[a].steps[i] = "text"

\* build_tree_payloads: is_final_answer
IsAnswer(a, i) == i = ask[a].answer

\* build_tree_payloads: one message of the outcome
StepEntry(a, i) ==
  LET step == ask[a].steps[i]
  IN  IF step \in Results THEN ToolEntry(step) ELSE AssistantEntry(i, IsAnswer(a, i))

\* build_tree_payloads
Payloads(a) ==
  LET change == IF ask[a].change THEN <<ModelEntry(ask[a].model)>> ELSE <<>>
  IN  change \o <<UserEntry(a)>> \o [i \in DOMAIN ask[a].steps |-> StepEntry(a, i)]

\* What the reader is answered, from the steps up to the Answer.
Response(a) ==
  LET steps == SubSeq(ask[a].steps, 1, ask[a].answer)
  IN  [ask |-> a, answer |-> ask[a].answer, toolCalled |-> Called(steps),
       source |-> DigestSource(steps), model |-> ask[a].model]

\* The Turn of a is one the other asks have not loaded.
Overtaken(a) ==
  [b \in Asks |-> IF InFlight(b) THEN [ask[b] EXCEPT !.sure = FALSE, !.unseen = @ \cup {a}]
                                 ELSE ask[b]]

\* record_turn_from_steps onto the leaf as it is now, and agent_end.
Record(a) ==
  /\ Settled(a)
  /\ Reply(a) = "text"
  /\ AppendChain(leaf, Payloads(a))
  /\ ask' = [Overtaken(a) EXCEPT ![a] = [ask[a] EXCEPT !.pc = "done", !.response = Response(a)]]
  /\ UNCHANGED <<scenario, passedOver, failures, deletes>>

\* A statement or a model call fails, or the process stops: every ? of the
\* handler.  What is committed stays.  A write onto a row or a parent that is
\* no longer there always fails.
Fail(a) ==
  /\ InFlight(a)
  /\ IF \/ Settled(a) /\ Reply(a) = "text" /\ ~exists
        \/ ask[a].pc = "compact" /\ ask[a].parent \notin DOMAIN entries
       THEN UNCHANGED failures
       ELSE failures < scenario.failures /\ failures' = failures + 1
  /\ ask' = [ask EXCEPT ![a].pc = "failed"]
  /\ UNCHANGED <<sessionVars, scenario, passedOver, deletes>>

\* DELETE /v1/sessions/{id}
Delete ==
  /\ deletes < scenario.deletes
  /\ deletes' = deletes + 1
  /\ DeleteSession
  /\ ask' = [a \in Asks |-> IF InFlight(a) THEN [ask[a] EXCEPT !.sure = FALSE] ELSE ask[a]]
  /\ passedOver' = {}
  /\ UNCHANGED <<scenario, failures>>

Next ==
  \/ \E a \in Asks : \/ Find(a) \/ Create(a) \/ Load(a) \/ ReadSummary(a)
                     \/ ReadLeaf(a) \/ Compact(a)
                     \/ Run(a) \/ CorrectEmpty(a) \/ CorrectToolless(a)
                     \/ Record(a) \/ NoAnswer(a) \/ Fail(a)
  \/ Delete

Spec == Init /\ [][Next]_vars

-----------------------------------------------------------------------------
(* Properties                                                              *)

TypeOK ==
  /\ exists \in BOOLEAN
  /\ nextId \in Nat \ {0}
  /\ DOMAIN entries \subseteq 1 .. nextId - 1
  /\ leaf \in {0} \cup DOMAIN entries
  /\ scenario \in Scenarios
  /\ DOMAIN ask = Asks
  /\ \A a \in Asks :
       /\ DOMAIN ask[a] = DOMAIN NewAsk
       /\ ask[a].pc \in Ended \cup Loading \cup {"ran", "settled"}
       /\ ask[a].steps \in Seq(Replies \cup Results)
       /\ ask[a].retried \in BOOLEAN

\* sessions.rs:1139: walk_to_root always arrives.  Every parent was there
\* before its child and still is, whatever raced and whatever was deleted.
TreeWhole ==
  /\ ~exists => leaf = 0 /\ DOMAIN entries = {}
  /\ \A id \in DOMAIN entries : entries[id].parent \in 0 .. id - 1
  /\ \A id \in DOMAIN entries : entries[id].parent \in {0} \cup DOMAIN entries

\* How often the loop was run, and that `retried` tells.
TriesCounted ==
  \A a \in Asks :
    /\ ask[a].loops \in 0 .. 2
    /\ ask[a].pc \in Loading \cup {"new"} => ask[a].loops = 0 /\ ~ask[a].retried
    /\ ask[a].pc = "ran" => ask[a].loops = IF ask[a].retried THEN 2 ELSE 1

TreeInv == TypeOK /\ TreeWhole /\ TriesCounted

\* reflect.rs:1896: one reply of a Turn is marked as its Answer, also where a
\* corrective turn was rejected, so the reader never has to guess.
OneAnswer ==
  LET path == PathTo(leaf)
      marked == {i \in DOMAIN path : path[i].type = "assistant" /\ path[i].isAnswer}
      asked == {i \in DOMAIN path : path[i].type = "user"}
  IN  /\ Cardinality(marked) = Cardinality(asked)
      /\ \A i \in asked : \E j \in marked : i < j /\ ~\E k \in asked : i < k /\ k < j

Reloaded(a) == {turn \in ToSet(LoadTurns) : turn.ask = a}

\* reflect.rs:1660: the Turn a reload derives from the tree says what the
\* reader was told when it was asked: the same reply, and the same two facts
\* about the tools before it, whatever the corrective turns did and whatever
\* other asks and compactions have put around it since.
LiveEqualsReload ==
  \A a \in Asks : ask[a].pc = "done" =>
    \A turn \in Reloaded(a) :
      [turn EXCEPT !.model = "any"] = [ask[a].response EXCEPT !.model = "any"]

\* sessions.rs:1215: a Turn is read back with the model that answered it,
\* across compactions that hide the change.  Only for asks that overlapped no
\* other write and had a Turn in sight when they were loaded.
ModelAsRun ==
  \A a \in Asks : ask[a].pc = "done" /\ ask[a].sure =>
    \A turn \in Reloaded(a) : turn.model = ask[a].model

\* sessions.rs:706: a Turn that is no longer replayed is stood in for by the
\* latest summary, through any number of compactions and failures; other than
\* those a compaction passed over because the window had cut them or they
\* came in while it was under way.
Remembered ==
  LET asked == {entries[id].payload.ask :
                  id \in {i \in DOMAIN entries : entries[i].payload.type = "user"}}
      replayed == {turn.ask : turn \in ToSet(LoadTurns)}
  IN  asked \ passedOver \subseteq replayed \cup LatestSummary

\* reflect.rs:1490: one corrective turn in all: an empty reply and a reply
\* that called no tool do not each get theirs.
OneCorrection == \A a \in Asks : ask[a].loops <= 2

\* sessions.rs:959: what a Conversation holds stays in it until the Session
\* is deleted; an append of another request does not take it out.
TurnsStay ==
  [][LET asked == {entry.ask : entry \in {e \in ToSet(PathTo(leaf)) : e.type = "user"}}
     IN  exists /\ exists' => asked \subseteq asked']_vars

=============================================================================
