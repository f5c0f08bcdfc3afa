------------------------------- MODULE Duties -------------------------------
(***************************************************************************)
(* What a call that cascades has still to do, read off its steps: why the  *)
(* Tasks that complete, completeForever, deleteSection and archiveSection  *)
(* owe are reached whatever runs between their statements.                 *)
(***************************************************************************)
EXTENDS Todo

Completing == {"complete", "completeForever"}

Cascading == Completing \cup {"deleteSection", "archiveSection"}

\* The steps that the call of a method consists of.
Takes(op) ==
  CASE op \in Completing -> Completing \cup {"stamp", "children"}
    [] op = "deleteSection" -> {"open", "members", "descend", "remove", "finish"}
    [] op = "archiveSection" -> {"open", "members", "descend", "finish"}
                                  \cup Completing \cup {"stamp", "children"}

StepOf(op, step) ==
  /\ step.do \in Takes(op)
  /\ step.do \in {"open", "members", "descend"} =>
       step.fate = IF op = "deleteSection" THEN "remove" ELSE "complete"

Alive(table) == {t \in Tasks : table[t] # NoRow /\ ~table[t].deleted}

Reached(table, op, t) ==
  table[t].deleted \/ (table[t].done # 0 /\ op # "deleteSection")

\* A step of todo is about t, or has found it.
Lists(step, t) ==
  \/ step.do \in Completing \cup {"stamp", "remove"} /\ step.id = t
  \/ step.do = "descend" /\ (t \in ToSet(step.found) \/ (step.fate = "remove" /\ step.id = t))

Listed(todo, t) == \E step \in todo : Lists(step, t)

\* A step of todo will ask for the children of t.
Visits(table, op, step, t) ==
  \/ op \in Completing /\ step.do \in Completing \cup {"children"} /\ step.id = t
  \/ step.do = "descend" /\ t \in step.frontier
  \/ step.do \in {"open", "members"} /\ t \in Alive(table) /\ table[t].section = step.section

\* The Tasks whose own children are asked for when they are found.
Through(table, op) ==
  {t \in Alive(table) : op \in Completing => table[t].done = 0}

\* S holds all that todo will visit, and what due has below it.
Closed(table, op, todo, due, S) ==
  /\ \A step \in todo : \A t \in Tasks : Visits(table, op, step, t) => t \in S
  /\ \A t \in due \cap Through(table, op) : table[t].parent \in S => t \in S

\* todo is going to find t.
Ahead(table, op, todo, due, t) ==
  \A S \in SUBSET Tasks : Closed(table, op, todo, due, S) => t \in S

\* What a Task that is not reached has to do with a step about its parent.
Provides(table, op, todo, step, due) ==
  /\ step.do = "descend" =>
       \A t \in due \cap step.frontier : Reached(table, op, t) \/ Listed(todo, t)
  /\ step.do = "descend" /\ step.fate = "remove" =>
       \A t \in due \cap Alive(table) :
         table[t].parent \in (ToSet(step.found) \cup {step.id}) \ step.frontier =>
           t \in ToSet(step.found)
  /\ step.do = "remove" =>
       \A t \in due \cap Alive(table) : table[t].parent = step.id =>
         \E other \in todo : other.do = "remove" /\ other.id = t
  /\ op \in Completing /\ step.do = "stamp" =>
       \E other \in todo : other.do = "children" /\ other.id = step.id
  /\ op \in Completing /\ step.do = "children" /\ step.id \in due =>
       Reached(table, op, step.id) \/ Listed(todo, step.id)
  /\ op \in Completing /\ step.do \in Completing =>
       step.id \in Alive(table) \/ \A t \in due : table[t].parent # step.id

\* Each Task of due is reached, is listed, or will be found.
Due(table, op, todo, due) ==
  /\ \A t \in due : table[t] # NoRow
  /\ op \notin Cascading => due = {}
  /\ op \in Cascading => \A step \in todo : StepOf(op, step)
  /\ \A step \in todo : Provides(table, op, todo, step, due)
  /\ \A t \in due : \/ Reached(table, op, t)
                    \/ Listed(todo, t)
                    \/ Ahead(table, op, todo, due, t)

\* A call can still keep what it promised.  Only a cascade that has just begun
\* has yet to look for its Section, and an update follows its read at once.
Able(table, its, due) ==
  /\ its.stamp # 0
  /\ Due(table, its.op, ToSet(its.steps), due)
  /\ its.op \in Cascading => \A k \in DOMAIN its.steps :
       /\ its.steps[k].do = "open" => Len(its.steps) = 1
       /\ its.steps[k].do = "stamp" => k = 1

\* Every call in flight can.
OwedIsDue == \A c \in Callers : Busy(c) => Able(task, call[c], owed[c])

\* The inductive invariant: of the rows and the walks, and of what is owed.
IInv == TasksInv /\ OwedIsDue

=============================================================================
