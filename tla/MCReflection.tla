---------------------------- MODULE MCReflection ----------------------------
(* One ask with every outcome of the loop, and asks that overlap.          *)
EXTENDS Conversations

CONSTANTS q1, q2, q3, m1, m2

MCAsks == {q1, q2, q3}

MCModels == {m1, m2}

Answered == <<"call", "entries", "text">>

Toolless == {<<reply>> : reply \in {"text", "empty", "error"}}

\* Up to two calls, then any reply.
Runs ==
  Toolless
    \cup {<<"call", r, reply>> : r \in Results, reply \in {"text", "empty", "error"}}
    \cup {<<"call", r, "call", t, "text">> : r \in Results, t \in Results}

\* Every run and every correction.
Corrected == [asks |-> {q1}, models |-> {"same", m2}, runs |-> Runs, fits |-> TRUE,
              failures |-> 0, deletes |-> 0]

\* Three asks, each of which may compact what it finds.
Overlapping == [asks |-> {q1, q2, q3}, models |-> {"same", m2}, runs |-> {Answered},
                fits |-> FALSE, failures |-> 1, deletes |-> 0]

\* A Device deletes the Session under asks, and a later one brings it back.
Deleted == [asks |-> {q1, q2, q3}, models |-> {"same"}, runs |-> {<<"text">>},
            fits |-> FALSE, failures |-> 0, deletes |-> 1]

MCScenarios == {Corrected, Overlapping, Deleted}

\* The same without failures, for the race of a compaction.
Racing == {[Overlapping EXCEPT !.models = {"same"}, !.failures = 0]}
=============================================================================
