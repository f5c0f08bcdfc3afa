----------------------------- MODULE TaskStore -----------------------------
(***************************************************************************)
(* The Device's Task store and the Section operations over it (core/src/   *)
(* sqlite/sqlite-task-store.ts and sqlite-project-store.ts).  A method is  *)
(* a chain of awaited statements with no transaction around them, so other *)
(* methods and a pull run in between, and a tab that is closed leaves what *)
(* was done so far.                                                        *)
(*                                                                         *)
(* A call is the list of steps it has still to take.  A step is one awaited*)
(* statement with the code that follows it up to the next: it may write a  *)
(* row, and it is replaced by the steps that its result calls for.  Fields *)
(* no step reads - content, Labels, Priority, Deadline, Description, the   *)
(* order keys and the stamps - are left out with their setters, and an     *)
(* error that is thrown is a call that ends.                               *)
(***************************************************************************)
EXTENDS Recurrence, Sequences, SequencesExt

CONSTANTS
  Tasks,       \* ids of Tasks, those still to be added included
  Sections,    \* ids of Sections
  Callers,     \* calls that may be in flight at once
  NoRow,       \* no Task with this id
  NoTask,      \* parentId is null
  NoSection,   \* sectionId is null
  NoRule,      \* dateString is null
  MaxDepth     \* MAX_TASK_NESTING_DEPTH

ASSUME TaskStoreAssumption ==
  /\ IsFiniteSet(Tasks)
  /\ NoTask \notin Tasks
  /\ NoSection \notin Sections
  /\ NoRule \notin Rule
  /\ MaxDepth \in Nat

VARIABLES
  task,      \* the tasks table
  pending,   \* the Tasks whose seq is null: they wait for a push
  section,   \* the sections table
  call       \* the calls in flight

storeVars == <<task, pending, section, call>>

\* done is completedAt: when the call that completed it began, 0 if none has.
Row == [parent : Tasks \cup {NoTask}, section : Sections \cup {NoSection},
        done : Nat, deleted : BOOLEAN,
        date : Int \cup {NoDate}, rule : Rule \cup {NoRule}]

ASSUME NoRowAssumption == NoRow \notin Row

\* What deleteSection and archiveSection do with the Tasks they find.
Fates == {"remove", "complete"}

Step ==
  [do : {"complete", "completeForever", "children", "remove", "advance", "postpone"},
   id : Tasks]
    \cup [do : {"stamp"}, id : Tasks, forever : BOOLEAN]
    \cup [do : {"reparent"}, id : Tasks, to : Tasks \cup {NoTask}]
    \cup [do : {"walk"}, id : Tasks, to : Tasks, next : Tasks, seen : SUBSET Tasks,
          depth : Nat]
    \cup [do : {"link"}, id : Tasks, to : Tasks \cup {NoTask}, seen : SUBSET Tasks]
    \cup [do : {"recur"}, id : Tasks, rule : Rule]
    \cup [do : {"date"}, id : Tasks, date : Int, rule : Rule \cup {NoRule}]
    \cup [do : {"open", "members", "finish"}, section : Sections, fate : Fates]
    \cup [do : {"descend"}, id : Tasks, frontier : SUBSET Tasks, found : Seq(Tasks),
          fate : Fates]

Methods ==
  {"complete", "completeForever", "advanceRecurring", "postpone", "setParent",
   "setDateString", "deleteSection", "archiveSection"}

\* stamp: completedAt, and the now of archiveSection.  today: the local day.
Call == [op : Methods \cup {"none"}, steps : Seq(Step), stamp : Nat, today : Int]

Idle == [op |-> "none", steps |-> <<>>, stamp |-> 0, today |-> 0]

Busy(c) == call[c].steps # <<>>

-----------------------------------------------------------------------------
(* Reading                                                                 *)

Live == {t \in Tasks : task[t] # NoRow /\ ~task[t].deleted}

ActiveTasks == {t \in Live : task[t].done = 0}

ChildrenOf(parents) == {t \in Live : task[t].parent \in parents}

\* Defect: children that are already completed are listed as well.
ListChildrenAll(id) == ChildrenOf({id})

\* completeChildren's listChildren: active, and only one level.
ListChildren(id) == ChildrenOf({id}) \cap ActiveTasks

-----------------------------------------------------------------------------
(* The steps of a call.  Then(c, new) replaces the step that has just run. *)

At(c, do) == Busy(c) /\ Head(call[c].steps).do = do

Then(c, new) == call' = [call EXCEPT ![c].steps = new \o Tail(@)]

Throw(c) == call' = [call EXCEPT ![c].steps = <<>>]

\* Defect: the update has lost its "and deleted_at is null".
WriteAnyway(t, row) ==
  /\ task' = [task EXCEPT ![t] = row]
  /\ pending' = pending \cup {t}

\* updateIfLive.
UpdateIfLive(t, row) ==
  /\ task' = [task EXCEPT ![t] = IF t \in Live THEN row ELSE @]
  /\ pending' = pending \cup ({t} \cap Live)

\* remove() has no such guard: a tombstone is stamped anew and waits for a push
\* once more.
RemoveRow(id) ==
  /\ task' = [task EXCEPT ![id].deleted = TRUE]
  /\ pending' = pending \cup {id}

Does(do, order) == [k \in DOMAIN order |-> [do |-> do, id |-> order[k]]]

\* complete and completeForever read the Task, and a tombstone ends them.
Complete(c) ==
  /\ At(c, "complete") \/ At(c, "completeForever")
  /\ LET step == Head(call[c].steps)
     IN  Then(c, IF step.id \in Live
                   THEN <<[do |-> "stamp", id |-> step.id,
                           forever |-> step.do = "completeForever"],
                          [do |-> "children", id |-> step.id]>>
                   ELSE <<>>)
  /\ UNCHANGED <<task, pending, section>>

\* The update of complete, and of completeForever and an ended recurrence,
\* which clear dateString.
Stamp(c) ==
  /\ At(c, "stamp")
  /\ LET step == Head(call[c].steps)
         row == task[step.id]
     IN  UpdateIfLive(step.id, [row EXCEPT !.done = call[c].stamp,
                                           !.rule = IF step.forever THEN NoRule ELSE @])
  /\ Then(c, <<>>)
  /\ UNCHANGED section

\* completeChildren: each child that is active now goes through complete.
Children(c) ==
  /\ At(c, "children")
  /\ \E order \in SetToSeqs(ListChildren(Head(call[c].steps).id)) :
       Then(c, Does("complete", order))
  /\ UNCHANGED <<task, pending, section>>

\* setParent, up to its first decision.
Reparent(c) ==
  /\ At(c, "reparent")
  /\ LET step == Head(call[c].steps)
     IN  CASE step.id \notin Live \/ step.id = step.to -> Throw(c)
           [] step.id \in Live /\ step.to = NoTask ->
                Then(c, <<[do |-> "link", id |-> step.id, to |-> NoTask, seen |-> {}]>>)
           [] OTHER ->
                Then(c, <<[do |-> "walk", id |-> step.id, to |-> step.to,
                           next |-> step.to, seen |-> {}, depth |-> 0]>>)
  /\ UNCHANGED <<task, pending, section>>

\* assertValidNestingDepth, of the parent only.
Linking(c, step, seen, depth) ==
  IF depth >= MaxDepth
    THEN Throw(c)
    ELSE Then(c, <<[do |-> "link", id |-> step.id, to |-> step.to, seen |-> seen]>>)

\* Defect: the walk does not look for the Task itself.
WalkBlind(c) ==
  /\ At(c, "walk")
  /\ LET step == Head(call[c].steps)
         seen == step.seen \cup {step.next}
     IN  IF step.next \notin Live
           THEN IF step.seen = {} THEN Throw(c) ELSE Linking(c, step, step.seen, step.depth)
           ELSE LET above == task[step.next].parent
                IN  CASE above = NoTask -> Linking(c, step, seen, step.depth + 1)
                      [] above \in seen -> Throw(c)
                      [] OTHER ->
                           Then(c, <<[step EXCEPT !.next = above, !.seen = seen,
                                                  !.depth = @ + 1]>>)
  /\ UNCHANGED <<task, pending, section>>

\* One get() of the walk up from the new parent, which refuses a cycle and
\* stops at the top or at a Task that is gone.
Walk(c) ==
  /\ At(c, "walk")
  /\ LET step == Head(call[c].steps)
         seen == step.seen \cup {step.next}
     IN  IF step.next \notin Live
           THEN IF step.seen = {} THEN Throw(c) ELSE Linking(c, step, step.seen, step.depth)
           ELSE LET above == task[step.next].parent
                IN  CASE above = NoTask -> Linking(c, step, seen, step.depth + 1)
                      [] above = step.id \/ above \in seen -> Throw(c)
                      [] OTHER ->
                           Then(c, <<[step EXCEPT !.next = above, !.seen = seen,
                                                  !.depth = @ + 1]>>)
  /\ UNCHANGED <<task, pending, section>>

\* setParent writes what it decided when it read.
Link(c) ==
  /\ At(c, "link")
  /\ LET step == Head(call[c].steps)
     IN  UpdateIfLive(step.id, [task[step.id] EXCEPT !.parent = step.to])
  /\ Then(c, <<>>)
  /\ UNCHANGED section

\* advanceRecurring: the next date, or the end of the series.
Advance(c) ==
  /\ At(c, "advance")
  /\ LET id == Head(call[c].steps).id
         row == task[id]
         next == NextOccurrenceAfterCompletion(row.rule, row.date, call[c].today)
     IN  CASE id \notin Live \/ row.rule = NoRule -> Throw(c)
           [] id \in Live /\ row.rule # NoRule /\ next = NoDate ->
                Then(c, <<[do |-> "stamp", id |-> id, forever |-> TRUE],
                          [do |-> "children", id |-> id]>>)
           [] OTHER ->
                Then(c, <<[do |-> "date", id |-> id, date |-> next, rule |-> NoRule]>>)
  /\ UNCHANGED <<task, pending, section>>

\* setDateString with a rule: its first date, refused when there is none.
Recur(c) ==
  /\ At(c, "recur")
  /\ LET step == Head(call[c].steps)
         first == FirstOccurrence(step.rule, task[step.id].date, call[c].today)
     IN  CASE step.id \notin Live -> Throw(c)
           [] step.id \in Live /\ first = NoDate -> Throw(c)
           [] OTHER ->
                Then(c, <<[do |-> "date", id |-> step.id, date |-> first,
                           rule |-> step.rule]>>)
  /\ UNCHANGED <<task, pending, section>>

\* postpone: tomorrow, for a Task that has a date.
Postpone(c) ==
  /\ At(c, "postpone")
  /\ LET id == Head(call[c].steps).id
     IN  Then(c, IF id \in Live /\ task[id].date # NoDate
                   THEN <<[do |-> "date", id |-> id, date |-> call[c].today + 1,
                           rule |-> NoRule]>>
                   ELSE <<>>)
  /\ UNCHANGED <<task, pending, section>>

\* Their update; only setDateString writes dateString as well.
Date(c) ==
  /\ At(c, "date")
  /\ LET step == Head(call[c].steps)
     IN  UpdateIfLive(step.id, [task[step.id] EXCEPT !.date = step.date,
                                  !.rule = IF step.rule = NoRule THEN @ ELSE step.rule])
  /\ Then(c, <<>>)
  /\ UNCHANGED section

-----------------------------------------------------------------------------
(* deleteSection and archiveSection                                        *)

\* getSection, and a tombstone ends the call.
Open(c) ==
  /\ At(c, "open")
  /\ LET step == Head(call[c].steps)
     IN  Then(c, IF section[step.section] = "deleted" THEN <<>>
                   ELSE <<[step EXCEPT !.do = "members"]>>)
  /\ UNCHANGED <<task, pending, section>>

\* listInSection, then a walk from every member it listed.
Members(c) ==
  /\ At(c, "members")
  /\ LET step == Head(call[c].steps)
         Start(t) == [do |-> "descend", id |-> t, frontier |-> {t}, fate |-> step.fate,
                      found |-> IF step.fate = "complete" /\ t \in ActiveTasks
                                  THEN <<t>> ELSE <<>>]
     IN  \E order \in SetToSeqs({t \in Live : task[t].section = step.section}) :
           Then(c, [k \in DOMAIN order |-> Start(order[k])]
                     \o <<[do |-> "finish", section |-> step.section, fate |-> step.fate]>>)
  /\ UNCHANGED <<task, pending, section>>

\* What a finished walk leaves to do: descendants first when removing.
Apply(step) ==
  IF step.fate = "remove" THEN Does("remove", Append(step.found, step.id))
                          ELSE Does("complete", step.found)

\* Defect: only what the Section holds itself, not what is nested under it.
DescendOnce(c) ==
  /\ At(c, "descend")
  /\ Then(c, Apply(Head(call[c].steps)))
  /\ UNCHANGED <<task, pending, section>>

\* One query of listDescendants: the live children of the last level found.
\* archiveSection drops those that were completed when listed.  A Task met
\* again is not listed twice: removing or completing it again, later in the
\* same call, would only stamp it anew.
Descend(c) ==
  /\ At(c, "descend")
  /\ LET step == Head(call[c].steps)
         kids == ChildrenOf(step.frontier)
         fresh == (IF step.fate = "remove" THEN kids ELSE kids \cap ActiveTasks)
                    \ ToSet(step.found)
     IN  IF kids = {}
           THEN Then(c, Apply(step))
           ELSE \E order \in SetToSeqs(fresh) :
                  Then(c, <<[step EXCEPT !.frontier = kids, !.found = @ \o order]>>)
  /\ UNCHANGED <<task, pending, section>>

\* remove() of what was listed, whatever has become of it since.
RemoveStep(c) ==
  /\ At(c, "remove")
  /\ RemoveRow(Head(call[c].steps).id)
  /\ Then(c, <<>>)
  /\ UNCHANGED section

\* The Section's own row, last.
Finish(c) ==
  /\ At(c, "finish")
  /\ LET step == Head(call[c].steps)
     IN  section' = [section EXCEPT ![step.section] =
                       IF step.fate = "remove" THEN "deleted"
                       ELSE IF @ = "deleted" THEN @ ELSE "archived"]
  /\ Then(c, <<>>)
  /\ UNCHANGED <<task, pending>>

StoreStep(c) ==
  \/ Complete(c) \/ Stamp(c) \/ Children(c)
  \/ Reparent(c) \/ Walk(c) \/ Link(c)
  \/ Advance(c) \/ Recur(c) \/ Date(c) \/ Postpone(c)
  \/ Open(c) \/ Members(c) \/ Descend(c) \/ RemoveStep(c) \/ Finish(c)

=============================================================================
