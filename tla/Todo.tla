-------------------------------- MODULE Todo --------------------------------
(***************************************************************************)
(* One Device's Tasks under everything that changes them at once: the      *)
(* calls the user's clicks start (apps/web/src/hooks/use-tasks.ts and      *)
(* use-projects.ts), each a promise nobody waits for before the next; the  *)
(* single-statement setters; the Sync stream that replaces rows; the tab   *)
(* being closed halfway; and midnight.                                     *)
(*                                                                         *)
(* Which of a pulled and a pending row wins is EntrySync's subject: Tasks  *)
(* use its statement.  A pull here is of a row that wins.                  *)
(***************************************************************************)
EXTENDS TaskStore

CONSTANT Scenes   \* where a behaviour may start, and what can happen in it

VARIABLES
  today,    \* the Device's local day
  agenda,   \* what has still to happen: requests, pulls, acks, days, restarts
  clock,    \* history: requests made, and the instants they are made at
  raced,    \* history: a cycle may be due to a row written during a walk
  owed,     \* history: what each call has promised to reach
  kept      \* history: completions each call has promised to leave alone

vars == <<task, pending, section, call, today, agenda, clock, raced, owed, kept>>

\* The requests that become a call, and those that are one statement.
CallRequest ==
  [op : {"complete", "completeForever", "advanceRecurring", "postpone"}, id : Tasks]
    \cup [op : {"setParent"}, id : Tasks, to : Tasks \cup {NoTask}]
    \cup [op : {"setDateString"}, id : Tasks, rule : Rule]
    \cup [op : {"deleteSection", "archiveSection"}, section : Sections]

WriteRequest ==
  [op : {"add"}, id : Tasks, row : Row]
    \cup [op : {"remove", "uncomplete", "endRule"}, id : Tasks]
    \cup [op : {"setSection"}, id : Tasks, section : Sections \cup {NoSection}]
    \cup [op : {"setDate"}, id : Tasks, date : Int \cup {NoDate}]
    \cup [op : {"unarchiveSection"}, section : Sections]

\* pulls: rows other Devices have pushed.  acks: Tasks whose push the Server
\* answers.  days: when the app is looked at.
Scene == [task : [Tasks -> Row \cup {NoRow}],
          pending : SUBSET Tasks,
          section : [Sections -> {"live", "archived", "deleted"}],
          today : Int,
          requests : SUBSET (CallRequest \cup WriteRequest),
          pulls : SUBSET [id : Tasks, row : Row],
          acks : SUBSET Tasks,
          days : SUBSET Int,
          restarts : Nat]

\* The steps a call starts with.
Steps(r) ==
  CASE r.op = "complete" -> <<[do |-> "complete", id |-> r.id]>>
    [] r.op = "completeForever" -> <<[do |-> "completeForever", id |-> r.id]>>
    [] r.op = "advanceRecurring" -> <<[do |-> "advance", id |-> r.id]>>
    [] r.op = "postpone" -> <<[do |-> "postpone", id |-> r.id]>>
    [] r.op = "setParent" -> <<[do |-> "reparent", id |-> r.id, to |-> r.to]>>
    [] r.op = "setDateString" -> <<[do |-> "recur", id |-> r.id, rule |-> r.rule]>>
    [] r.op = "deleteSection" ->
         <<[do |-> "open", section |-> r.section, fate |-> "remove"]>>
    [] r.op = "archiveSection" ->
         <<[do |-> "open", section |-> r.section, fate |-> "complete"]>>

-----------------------------------------------------------------------------
(* History                                                                 *)

\* S and everything below it along links between Tasks in within: the least
\* set that holds S and is closed under them.
Below(S, within) ==
  {t \in Tasks : \A X \in SUBSET Tasks :
     S \subseteq X /\ (\A u \in within : task[u].parent \in X => u \in X) => t \in X}

Held == {t \in Tasks : task[t] # NoRow}

\* What a request is for: the Tasks it has to reach.  complete() goes on only
\* through Tasks that are active.
Promise(r) ==
  CASE r.op \in {"complete", "completeForever"} -> Below({r.id} \cap Live, ActiveTasks)
    [] r.op \in {"deleteSection", "archiveSection"} ->
         Below({t \in Live : task[t].section = r.section}, Live)
    [] OTHER -> {}

\* Another's write of t's place in the tree, or of its completion.
Disturbed(t) ==
  \/ task[t].parent # task'[t].parent
  \/ task[t].section # task'[t].section
  \/ task[t].deleted # task'[t].deleted
  \/ task[t].done # task'[t].done

\* Someone other than the calls in C has written.
Interfere(C) ==
  LET touched == {t \in Held : Disturbed(t)}
  IN  /\ owed' = [c \in Callers |-> IF c \in C THEN owed[c]
                                              ELSE owed[c] \ Below(touched, Held)]
      /\ kept' = [c \in Callers |-> kept[c] \ touched]

Walking(C) == \E c \in C : At(c, "walk") \/ At(c, "link")

\* No set of live Tasks is closed under parents.
Acyclic ==
  \A S \in SUBSET Live : S # {} => \E t \in S : task[t].parent \notin S

-----------------------------------------------------------------------------
\* A table that a Device holds is a forest, and the id that an "add" will write
\* is a new uuid: no row names it as a parent yet.
ASSUME ScenesAssumption ==
  /\ Scenes \subseteq Scene
  /\ \A s \in Scenes :
       LET Alive == {t \in Tasks : s.task[t] # NoRow /\ ~s.task[t].deleted}
           Rows == {s.task[t] : t \in {u \in Tasks : s.task[u] # NoRow}}
                     \cup {p.row : p \in s.pulls}
                     \cup {r.row : r \in {q \in s.requests : q.op = "add"}}
       IN  /\ \A S \in SUBSET Alive : S # {} => \E t \in S : s.task[t].parent \notin S
           /\ \A r \in s.requests : r.op = "add" => \A row \in Rows : row.parent # r.id

Init ==
  \E s \in Scenes :
    /\ task = s.task
    /\ pending = s.pending
    /\ section = s.section
    /\ call = [c \in Callers |-> Idle]
    /\ today = s.today
    /\ agenda = [requests |-> s.requests, pulls |-> s.pulls, acks |-> s.acks,
                 days |-> s.days, restarts |-> s.restarts]
    /\ clock = 1
    /\ raced = FALSE
    /\ owed = [c \in Callers |-> {}]
    /\ kept = [c \in Callers |-> {}]

Asked(r) ==
  /\ r \in agenda.requests
  /\ agenda' = [agenda EXCEPT !.requests = @ \ {r}]
  /\ clock' = clock + 1

\* A mutation function starts; its first statement is yet to run.  Callers are
\* slots, and any free one will do.
Begin(c, r) ==
  /\ r.op \in Methods
  /\ ~Busy(c)
  /\ c = CHOOSE free \in Callers : ~Busy(free)
  /\ Asked(r)
  /\ call' = [call EXCEPT ![c] =
       [op |-> r.op, steps |-> Steps(r), stamp |-> clock, today |-> today]]
  /\ owed' = [owed EXCEPT ![c] = Promise(r)]
  /\ kept' = [kept EXCEPT ![c] =
       {t \in Held : task[t].done # 0} \ (IF "id" \in DOMAIN r THEN {r.id} ELSE {})]
  /\ UNCHANGED <<task, pending, section, today, raced>>

Run(c) ==
  /\ StoreStep(c)
  /\ raced' = (raced \/ (At(c, "link") /\ Walking(Callers \ {c})))
  /\ Interfere({c})
  /\ UNCHANGED <<today, agenda, clock>>

\* upsert of a Task that is new: nothing about its parent is checked.
Add(r) ==
  /\ r.op = "add"
  /\ task[r.id] = NoRow
  /\ task' = [task EXCEPT ![r.id] = r.row]
  /\ pending' = pending \cup {r.id}
  /\ UNCHANGED section

RemoveTask(r) ==
  /\ r.op = "remove"
  /\ task[r.id] # NoRow
  /\ RemoveRow(r.id)
  /\ UNCHANGED section

Uncomplete(r) ==
  /\ r.op = "uncomplete"
  /\ UpdateIfLive(r.id, [task[r.id] EXCEPT !.done = 0])
  /\ UNCHANGED section

\* setSection, and setProject, which clears the Section.
SetSection(r) ==
  /\ r.op = "setSection"
  /\ UpdateIfLive(r.id, [task[r.id] EXCEPT !.section = r.section])
  /\ UNCHANGED section

SetDate(r) ==
  /\ r.op = "setDate"
  /\ UpdateIfLive(r.id, [task[r.id] EXCEPT !.date = r.date])
  /\ UNCHANGED section

\* setDateString with null.
EndRule(r) ==
  /\ r.op = "endRule"
  /\ UpdateIfLive(r.id, [task[r.id] EXCEPT !.rule = NoRule])
  /\ UNCHANGED section

UnarchiveSection(r) ==
  /\ r.op = "unarchiveSection"
  /\ section' = [section EXCEPT ![r.section] = IF @ = "deleted" THEN @ ELSE "live"]
  /\ UNCHANGED <<task, pending>>

\* A setter that is one statement.
Write(r) ==
  /\ r.op \notin Methods
  /\ Asked(r)
  /\ \/ Add(r) \/ RemoveTask(r) \/ Uncomplete(r) \/ SetSection(r)
     \/ SetDate(r) \/ EndRule(r) \/ UnarchiveSection(r)
  /\ Interfere({})
  /\ UNCHANGED <<call, today, raced>>

\* applyPulled of a row that wins.  It can close a cycle by itself, with what
\* another Device decided from its own copy of the tree.
Pull(p) ==
  /\ p \in agenda.pulls
  /\ agenda' = [agenda EXCEPT !.pulls = @ \ {p}]
  /\ task' = [task EXCEPT ![p.id] = p.row]
  /\ pending' = pending \ {p.id}
  /\ raced' = (raced \/ Walking(Callers) \/ ~Acyclic')
  /\ Interfere({})
  /\ UNCHANGED <<section, call, today, clock>>

\* applyAcknowledged: the row is as it was when it was pushed, and the Server
\* has it.  After a write the answer is refused, so that it never happens; a
\* row the Server answers with instead is a pull.
Acknowledge(t) ==
  /\ t \in agenda.acks \cap pending
  /\ pending' = pending \ {t}
  /\ agenda' = [agenda EXCEPT !.acks = @ \ {t}]
  /\ UNCHANGED <<task, section, call, today, clock, raced, owed, kept>>

NewDay(d) ==
  /\ d \in agenda.days
  /\ d > today
  /\ today' = d
  /\ agenda' = [agenda EXCEPT !.days = {e \in @ : e > d}]
  /\ UNCHANGED <<task, pending, section, call, clock, raced, owed, kept>>

\* The tab is closed: the calls in flight are gone, their writes are not.
Restart ==
  /\ agenda.restarts > 0
  /\ agenda' = [agenda EXCEPT !.restarts = @ - 1]
  /\ call' = [c \in Callers |-> Idle]
  /\ owed' = [c \in Callers |-> {}]
  /\ kept' = [c \in Callers |-> {}]
  /\ UNCHANGED <<task, pending, section, today, clock, raced>>

Next ==
  \/ \E c \in Callers : Run(c)
  \/ \E c \in Callers : \E r \in agenda.requests : Begin(c, r)
  \/ \E r \in agenda.requests : Write(r)
  \/ \E p \in agenda.pulls : Pull(p)
  \/ \E t \in agenda.acks : Acknowledge(t)
  \/ \E d \in agenda.days : NewDay(d)
  \/ Restart

Spec == Init /\ [][Next]_vars

\* Weak fairness of a call's steps, spelled out: a step is enabled as long as
\* the call is busy.  The database answers every statement it is asked for.
Answered(c) == []<>(~Busy(c)) \/ []<><<StoreStep(c)>>_storeVars

FairSpec == Spec /\ \A c \in Callers : Answered(c)

-----------------------------------------------------------------------------
(* Properties                                                              *)

TypeOK ==
  /\ task \in [Tasks -> Row \cup {NoRow}]
  /\ pending \in SUBSET Tasks
  /\ section \in [Sections -> {"live", "archived", "deleted"}]
  /\ call \in [Callers -> Call]
  /\ today \in Int
  /\ agenda \in [requests : SUBSET (CallRequest \cup WriteRequest),
                 pulls : SUBSET [id : Tasks, row : Row],
                 acks : SUBSET Tasks, days : SUBSET Int, restarts : Nat]
  /\ clock \in Nat \ {0}
  /\ raced \in BOOLEAN
  /\ owed \in [Callers -> SUBSET Tasks]
  /\ kept \in [Callers -> SUBSET Tasks]

\* setParent: whatever runs between its reads and its write, this Device does
\* not make a Task its own ancestor, unless another write of a parent landed
\* during the walk or the cycle came from another Device.
NoCycle == raced \/ Acyclic

\* A walk has seen whole branches upwards, and never the Task it is about.
Sound(step) ==
  /\ step.do = "walk" =>
       /\ step.id \notin step.seen \cup {step.next}
       /\ step.to \in step.seen \cup {step.next}
       /\ \A t \in step.seen \cap Live :
            task[t].parent \in step.seen \cup {step.next, NoTask}
  /\ step.do = "link" /\ step.to # NoTask =>
       /\ step.to \in step.seen
       /\ step.id \notin step.seen
       /\ \A t \in step.seen \cap Live :
            task[t].parent \in Live => task[t].parent \in step.seen

WalksAreSound == raced \/ \A c \in Callers : Busy(c) => Sound(Head(call[c].steps))

\* Of a call's steps only the first can be in the middle of setParent.
WalksComeFirst ==
  \A c \in Callers : \A k \in DOMAIN call[c].steps :
    k > 1 => call[c].steps[k].do \notin {"walk", "link"}

\* What a step has read is a row, and stays one: no row is ever purged.
Knows(step) ==
  /\ step.do = "walk" =>
       step.seen \subseteq Held /\ IF step.seen = {} THEN step.next = step.to
                                                  ELSE step.to \in step.seen
  /\ step.do = "link" => step.seen \subseteq Held /\ step.to \in step.seen \cup {NoTask}
  /\ step.do = "remove" => step.id \in Held
  /\ step.do = "descend" => step.id \in Held /\ ToSet(step.found) \subseteq Held

StepsKnow == \A c \in Callers : \A k \in DOMAIN call[c].steps : Knows(call[c].steps[k])

\* A Task that is still to be added is nobody's parent.
NewIsNoParent ==
  \A r \in agenda.requests : r.op = "add" /\ task[r.id] = NoRow =>
    /\ \A t \in Held : task[t].parent # r.id
    /\ \A p \in agenda.pulls : p.row.parent # r.id
    /\ \A q \in agenda.requests : q.op = "add" => q.row.parent # r.id

\* A step completes no Task of done.
Apart(step, done) ==
  /\ step.do \in {"complete", "completeForever", "stamp", "advance"} => step.id \notin done
  /\ step.do = "descend" /\ step.fate = "complete" => ToSet(step.found) \cap done = {}

\* The completions a call leaves alone are none that it has still to write.
KeptIsApart ==
  \A c \in Callers :
    /\ \A t \in kept[c] : t \in Held /\ task[t].done # 0
    /\ \A k \in DOMAIN call[c].steps : Apart(call[c].steps[k], kept[c])

\* The inductive invariant of the rows and the walks.
TasksInv ==
  TypeOK /\ NoCycle /\ WalksAreSound /\ WalksComeFirst /\ StepsKnow /\ NewIsNoParent
  /\ KeptIsApart

\* "Nesting is capped at four levels, enforced by TaskStore.setParent"
\* (task-types.ts).  What the code does violates it.
NestingCapped ==
  ~\E chain \in [0 .. MaxDepth -> Live] :
     \A k \in 1 .. MaxDepth : task[chain[k]].parent = chain[k - 1]

\* remove() of t is what runs.
Removes(t) ==
  \/ \E c \in Callers : At(c, "remove") /\ Head(call[c].steps).id = t /\ Run(c)
  \/ \E r \in agenda.requests : r.op = "remove" /\ r.id = t /\ Write(r)

\* Only a pull changes a tombstone, and only another remove() has it wait for a
\* push again: a method that read the row as live, and was overtaken by its
\* removal, neither brings it back nor adds to what Sync sends.
TombstonesStay ==
  [][\A t \in Held : task[t].deleted =>
       \/ \E p \in agenda.pulls : p.id = t /\ Pull(p)
       \/ task'[t] = task[t] /\ (t \in pending' => t \in pending \/ Removes(t))]_vars

\* "A local mutation against an unknown or already-tombstoned id is a no-op"
\* (sqlite-task-store.ts).  What the code does violates it: remove() of a Task
\* that is removed, which the Server knows, has the tombstone pushed again.
LateMutationsAreNoOps ==
  [][\A t \in Held : task[t].deleted =>
       \/ \E p \in agenda.pulls : p.id = t /\ Pull(p)
       \/ task'[t] = task[t] /\ (t \in pending' => t \in pending)]_vars

\* A call that ends has reached every Task it was for: those nested in a
\* Section at any depth, completed ones and their sub-tasks included, and those
\* under a completed parent - but for what others wrote in the meantime.
CallsDeliver ==
  [][\A c \in Callers :
       Busy(c) /\ ~At(c, "open") /\ call'[c].steps = <<>> =>
         \A t \in owed'[c] :
           task'[t].deleted \/ (task'[t].done # 0 /\ call[c].op # "deleteSection")]_vars

\* No cascade overwrites a completion that was there when it began, and that
\* nobody has written since: the completedAt a Task earned stays.
CompletionsKept ==
  [][\A c \in Callers : call'[c] # call[c] =>
       \A t \in kept[c] : task'[t].done = task[t].done]_vars

\* Not promised: a fifth weekday, a 29th to 31st that slips, every other
\* workday counted from a weekend, and a date that was moved off its rule.
Steady(rule, origin, given) ==
  LET f == rule.frequency
  IN  /\ f.kind \in {"monthly", "yearly"} => YmdOf(origin).day <= 28
      /\ f.kind = "ordinalWeekday" => f.ordinal # 5
      /\ f.kind = "ordinalWeekdayList" => \A e \in f.entries : e.ordinal # 5
      /\ f.kind = "workdays" => ~given \/ rule.interval = 1
      /\ f.kind \in {"ordinalWeekday", "monthlyDay", "yearlyMonthDay"} =>
           given \/ Named(rule, origin, origin)

\* date is the nearest day the rule names that is past now, or on it when the
\* rule was just given, and within the bounds; NoDate if there is no such day.
Nearest(date, rule, due, now, given) ==
  LET origin == Origin(rule, due, now)
      first == IF given THEN origin ELSE origin + 1
      start == StartBound(rule, origin)
      end == EndBound(rule, origin)
      Fits(day) == /\ Named(rule, origin, day)
                   /\ IF given THEN day >= now ELSE day > now
                   /\ start = NoDate \/ day >= start
                   /\ end = NoDate \/ day <= end
  IN  IF date = NoDate THEN \A day \in first .. end : ~Fits(day)
                       ELSE Fits(date) /\ \A day \in first .. date - 1 : ~Fits(day)

\* The Recurrence engine: a completion and a new rule date the Task with the
\* nearest day there is, missed ones skipped and none beside them, and a
\* series is ended, or a rule refused, only when no day is left.
NextIsNearest ==
  [][\A c \in Callers : \A given \in BOOLEAN :
       LET step == Head(call[c].steps)
           row == task[step.id]
           rule == IF given THEN step.rule ELSE row.rule
           now == call[c].today
           then == call'[c].steps
           date == IF then # <<>> /\ Head(then).do = "date" THEN Head(then).date ELSE NoDate
       IN  /\ At(c, IF given THEN "recur" ELSE "advance")
           /\ call'[c] # call[c] /\ call'[c].op = call[c].op
           /\ step.id \in Live
           /\ rule # NoRule
           /\ Steady(rule, Origin(rule, row.date, now), given)
           => Nearest(date, rule, row.date, now, given)]_vars

\* Every call ends: the walks of setParent and listDescendants go round no
\* circle of this Device's making.
CallsEnd == \A c \in Callers : Busy(c) ~> (~Busy(c) \/ raced)

=============================================================================
