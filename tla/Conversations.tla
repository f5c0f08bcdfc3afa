----------------------------- MODULE Conversations -----------------------------
(***************************************************************************)
(* What the paths of a Session's tree look like, and what the asks under   *)
(* way know of them: the inductive invariant of Reflection, from which its *)
(* properties of whole Conversations follow.                               *)
(***************************************************************************)
EXTENDS Reflection

\* What an append can go onto: the leaf, and what the compactions under way
\* have read for it.
Ends ==
  {leaf} \cup ({ask[a].parent : a \in {b \in Asks : ask[b].pc = "compact"}} \cap DOMAIN entries)

\* The Question at i is of an ask that is done, and all its steps follow.
Told(path, i) ==
  LET a == path[i].ask
  IN  /\ a \in Asks /\ ask[a].pc = "done"
      /\ \A k \in DOMAIN ask[a].steps : i + k \in DOMAIN path /\ path[i + k] = StepEntry(a, k)

\* The step at i is one of a Question before it.
Belongs(path, i) ==
  \E j \in 1 .. i - 1 : path[j].type = "user" /\ i - j \in DOMAIN ask[path[j].ask].steps

InForce(path, i) == ModelAfter(SubSeq(path, 1, i), DefaultModel)

\* A path is made of whole Turns, each under the model that answered it as
\* far as its ask could know it; a model_change has its Turn.
WholeTurns(path) ==
  \A i \in DOMAIN path :
    /\ path[i].type = "user" =>
         /\ Told(path, i)
         /\ ask[path[i].ask].sure => InForce(path, i) = ask[path[i].ask].model
    /\ path[i].type \in {"assistant", "tool"} => Belongs(path, i)
    /\ path[i].type = "model" => i + 1 \in DOMAIN path /\ path[i + 1].type = "user"

ConversationsWhole == \A end \in Ends : WholeTurns(PathTo(end))

\* Past Begun, and not ended.
Begins == {"summary", "summarise", "compact", "loop", "ran", "settled"}

\* The reply an ask has settled on, and what its reader was told of it.
AnswersKnown ==
  \A a \in Asks :
    /\ ask[a].pc \in {"ran", "settled", "done"} => ask[a].answer \in DOMAIN ask[a].steps
    /\ ask[a].pc = "done" => Reply(a) = "text" /\ ask[a].response = Response(a)

\* What an ask that is sure knows of the Conversation still holds.
LeafKnown ==
  \A a \in Asks :
    /\ ask[a].pc = "compact" => ask[a].parent \in 1 .. nextId - 1
    /\ ask[a].sure /\ ask[a].pc = "compact" => ask[a].parent = leaf
    /\ ask[a].sure /\ ask[a].pc \in Begins /\ ~ask[a].change =>
         ModelAfter(PathTo(leaf), DefaultModel) = ask[a].model

Asked == {entries[id].payload.ask : id \in {i \in DOMAIN entries : entries[i].payload.type = "user"}}

\* What an ask would leave out of its summary: nothing but what it may.
SummariesCover ==
  \A a \in Asks :
    LET known == passedOver \cup ask[a].cut \cup Turns(a) \cup ask[a].unseen
    IN  /\ ask[a].pc = "summary" /\ ask[a].turns # <<>> => Asked \subseteq known \cup LatestSummary
        /\ ask[a].pc \in {"summarise", "compact"} => Asked \subseteq known \cup ask[a].summary

IInv ==
  /\ TreeInv
  /\ AnswersKnown
  /\ LeafKnown
  /\ ConversationsWhole
  /\ SummariesCover
  /\ Remembered

=============================================================================
