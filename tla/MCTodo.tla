------------------------------- MODULE MCTodo -------------------------------
(***************************************************************************)
(* Todo for TLC.  A scene is a table, what the user clicks, what a pull    *)
(* brings and whether the tab is closed.                                   *)
(***************************************************************************)
EXTENDS Duties

CONSTANTS t1, t2, t3, t4, t5, s1

At1(parent) == [parent |-> parent, section |-> NoSection, done |-> 0, deleted |-> FALSE,
                date |-> NoDate, rule |-> NoRule]

Top == At1(NoTask)
InSection(row) == [row EXCEPT !.section = s1]
Done(row) == [row EXCEPT !.done = 1]
Removed(row) == [row EXCEPT !.deleted = TRUE]

\* A table of the rows given; no other Task exists.
Table(rows) == [t \in Tasks |-> IF t \in DOMAIN rows THEN rows[t] ELSE NoRow]

Quiet(rows) ==
  [task |-> Table(rows), pending |-> {}, section |-> [s \in Sections |-> "live"],
   today |-> 0, requests |-> {}, pulls |-> {}, acks |-> {}, days |-> {}, restarts |-> 0]

Ask(op, t) == [op |-> op, id |-> t]
Move(t, to) == [op |-> "setParent", id |-> t, to |-> to]
File(t, s) == [op |-> "setSection", id |-> t, section |-> s]
Whole(op) == [op |-> op, section |-> s1]

\* Three roots that are dragged under each other, and another Device's drag.
Dragged ==
  {[Quiet([t \in {t1, t2, t3} |-> Top]) EXCEPT
      !.requests = {Move(t1, t2), Move(t2, t3), Move(t3, t1), Ask("remove", t2)},
      !.pulls = {[id |-> t2, row |-> Top]}],
   [Quiet(t1 :> InSection(Top) @@ t2 :> At1(t1) @@ t3 :> At1(t2)) EXCEPT
      !.requests = {Move(t1, t3), Move(t3, NoTask), Whole("deleteSection")},
      !.pulls = {[id |-> t1, row |-> InSection(At1(t2))]}]}

Branch == t1 :> InSection(Top) @@ t2 :> At1(t1) @@ t3 :> At1(t2) @@ t4 :> At1(t1)

\* A Section goes while its Tasks are moved, added to and removed, here and
\* elsewhere.
Deleted ==
  {[Quiet(Branch) EXCEPT
      !.requests = {Whole("deleteSection"), Ask("remove", t2), File(t1, NoSection),
                    [op |-> "add", id |-> t5, row |-> At1(t3)]},
      !.acks = {t2, t5}],
   [Quiet(Branch) EXCEPT
      !.requests = {Whole("deleteSection"), Move(t3, t4), Ask("complete", t1)}]}
  \cup
  {[Quiet(Branch) EXCEPT
      !.requests = {Whole("deleteSection"), other},
      !.pending = {t4},
      !.pulls = {[id |-> t4, row |-> Removed(At1(t1))]},
      !.restarts = 1] : other \in {Move(t3, t4), Ask("complete", t1)}}

Mixed == t1 :> Done(InSection(Top)) @@ t2 :> At1(t1) @@ t3 :> Done(At1(t2)) @@ t4 :> At1(t3)

\* Completed and active Tasks under each other.
Archived ==
  {[Quiet(Mixed) EXCEPT
      !.requests = {Whole("archiveSection"), Ask("complete", t2), Ask("uncomplete", t1),
                    Whole("unarchiveSection")}],
   [Quiet(Mixed) EXCEPT
      !.requests = {Whole("archiveSection"), Ask("complete", t2), Ask("complete", t3),
                    Ask("remove", t4)}],
   [Quiet(Mixed) EXCEPT
      !.requests = {Whole("archiveSection"), Whole("deleteSection"),
                    File(t4, s1)}]}

-----------------------------------------------------------------------------
Bare(f, n) == [frequency |-> f, interval |-> n, anchor |-> "due", startBound |-> NoDate,
               endBound |-> NoDate, durationBound |-> NoDate]

ThirdFriday == [kind |-> "ordinalWeekday", ordinal |-> 3, day |-> 5, month |-> NoDate]
LastMonday == [kind |-> "ordinalWeekday", ordinal |-> -1, day |-> 1, month |-> NoDate]
JanFriday == [kind |-> "ordinalWeekday", ordinal |-> 1, day |-> 5, month |-> 1]
TwoWeekdays == [kind |-> "ordinalWeekdayList",
                entries |-> {[ordinal |-> 1, day |-> 3, month |-> 1],
                             [ordinal |-> -1, day |-> 4, month |-> 7]}]

Plain ==
  {Bare([kind |-> "daily"], 3), Bare([kind |-> "weekly"], 2), Bare([kind |-> "workdays"], 1),
   Bare([kind |-> "workdays"], 3), Bare([kind |-> "weekdays", days |-> {0, 3, 4}], 1),
   Bare([kind |-> "monthly"], 1), Bare([kind |-> "yearly"], 1),
   Bare(ThirdFriday, 1), Bare(LastMonday, 1), Bare(JanFriday, 1), Bare(TwoWeekdays, 1),
   Bare([kind |-> "monthlyDay", day |-> 31], 1),
   Bare([kind |-> "yearlyMonthDay", month |-> 2, day |-> 29], 1)}

Bounded ==
  {[Bare([kind |-> "daily"], 3) EXCEPT !.endBound = [month |-> 1, day |-> 3, year |-> NoDate]],
   [Bare([kind |-> "weekly"], 2) EXCEPT !.durationBound = [count |-> 1, unit |-> "week"]],
   [Bare([kind |-> "monthly"], 2) EXCEPT !.durationBound = [count |-> 1, unit |-> "year"],
      !.startBound = [month |-> 3, day |-> 31, year |-> 2028]],
   [Bare([kind |-> "weekdays", days |-> {2}], 1) EXCEPT !.anchor = "completion",
      !.durationBound = [count |-> 1, unit |-> "month"]],
   [Bare([kind |-> "daily"], 1) EXCEPT !.durationBound = [count |-> 0, unit |-> "day"]]}

\* Days around the ends of a month, a year and a leap February.
Days == {EpochOf(2027, 12, 31), EpochOf(2028, 1, 3), EpochOf(2028, 1, 31),
         EpochOf(2028, 2, 29), EpochOf(2028, 3, 17)}

Mornings == {EpochOf(2028, 1, 3), EpochOf(2028, 2, 29)}

Repeating(due, rule) == [Top EXCEPT !.date = due, !.rule = rule]

Recurring ==
  {[Quiet(t1 :> Repeating(due, rule) @@ t2 :> At1(t1)) EXCEPT
      !.today = day, !.days = {EpochOf(2028, 3, 17)},
      !.requests = {Ask("advanceRecurring", t1)}] :
     due \in Days, day \in Mornings, rule \in Plain \cup Bounded}

Given ==
  {[Quiet(t1 :> Repeating(due, NoRule)) EXCEPT
      !.today = day,
      !.requests = {[op |-> "setDateString", id |-> t1, rule |-> rule],
                    Ask("advanceRecurring", t1)}] :
     due \in Days \cup {NoDate}, day \in Mornings, rule \in Plain \cup Bounded}

\* The setters that end a series or clear a date, around an advance.
Series ==
  {[Quiet(t1 :> Repeating(EpochOf(2028, 1, 31), Bare([kind |-> "daily"], 3))
            @@ t2 :> Done(At1(t1)) @@ t3 :> At1(t1)) EXCEPT
      !.today = EpochOf(2028, 1, 31),
      !.requests = {Ask("completeForever", t1), Ask("advanceRecurring", t1),
                    Ask("endRule", t1), Ask("uncomplete", t2),
                    [op |-> "setDate", id |-> t1, date |-> NoDate]}],
   [Quiet(t1 :> Repeating(EpochOf(2028, 1, 31), Bare([kind |-> "weekly"], 2))) EXCEPT
      !.today = EpochOf(2028, 2, 29), !.days = {EpochOf(2028, 3, 17)},
      !.requests = {Ask("postpone", t1), Ask("advanceRecurring", t1),
                    [op |-> "setDate", id |-> t1, date |-> NoDate]}]}

AllScenes == Dragged \cup Deleted \cup Archived \cup Recurring \cup Given \cup Series

\* A branch of two put under the third level.
Deep ==
  {[Quiet([t \in {t1, t4} |-> Top] @@ t2 :> At1(t1) @@ t3 :> At1(t2) @@ t5 :> At1(t4)) EXCEPT
      !.requests = {Move(t4, t3), Move(t5, t3), Move(t1, t4), Ask("complete", t1)}]}

=============================================================================
