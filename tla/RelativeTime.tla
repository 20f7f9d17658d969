------------------------------ MODULE RelativeTime ----------------------------
(***************************************************************************)
(* The time label of a post or a comment ("3 minutes ago"): updateView of  *)
(* TimelineTableViewCell, CommentTableViewCell and DetailViewCell, which   *)
(* hold the same code.  The label is set when the cell is shown.  A text   *)
(* is its unit and its number.  The age may be negative: the timestamp is  *)
(* the clock of the author's device.  Changes of the clock for daylight    *)
(* saving, which Calendar accounts for, are left out.                      *)
(***************************************************************************)
EXTENDS Integers

CONSTANT Age   \* the ages, in seconds, at which a cell may be shown

ASSUME AgeAssumption == Age \subseteq Int

Minute == 60
Hour == 60 * Minute
Day == 24 * Hour
Week == 7 * Day

\* Mutation of Parts: the time between the two, whichever is the later.
PartsUnsigned(age) ==
  LET n == IF age < 0 THEN -age ELSE age
  IN [second |-> n % Minute, minute |-> (n \div Minute) % 60,
      hour |-> (n \div Hour) % 24, day |-> (n \div Day) % 7,
      weekOfMonth |-> n \div Week]

\* Calendar.dateComponents from the timestamp to now, asked for seconds,
\* minutes, hours, days and weeks: every component has the sign of the age.
Parts(age) ==
  LET n == IF age < 0 THEN -age ELSE age
      sign == IF age < 0 THEN -1 ELSE 1
  IN [second |-> sign * (n % Minute),
      minute |-> sign * ((n \div Minute) % 60),
      hour   |-> sign * ((n \div Hour) % 24),
      day    |-> sign * ((n \div Day) % 7),
      weekOfMonth |-> sign * (n \div Week)]

Text(unit, n) == [unit |-> unit, n |-> n]

Now == Text("now", 0)
Empty == Text("empty", 0)

\* The assignments to timeText, in their order: a later one wins.
TimeText(age) ==
  LET diff == Parts(age)
      t1 == IF diff.second <= 0 THEN Now ELSE Empty
      t2 == IF diff.second > 0 /\ diff.minute = 0
            THEN Text("second", diff.second) ELSE t1
      t3 == IF diff.minute > 0 /\ diff.hour = 0
            THEN Text("minute", diff.minute) ELSE t2
      t4 == IF diff.hour > 0 /\ diff.day = 0 THEN Text("hour", diff.hour) ELSE t3
      t5 == IF diff.day > 0 /\ diff.weekOfMonth = 0
            THEN Text("day", diff.day) ELSE t4
  IN IF diff.weekOfMonth > 0 THEN Text("week", diff.weekOfMonth) ELSE t5

-------------------------------------------------------------------------------
(* What the label should say: the age in its largest unit, rounded down *)

LargestUnit(a) ==
  IF a <= 0 THEN Now
  ELSE IF a < Minute THEN Text("second", a)
  ELSE IF a < Hour THEN Text("minute", a \div Minute)
  ELSE IF a < Day THEN Text("hour", a \div Hour)
  ELSE IF a < Week THEN Text("day", a \div Day)
  ELSE Text("week", a \div Week)

Seconds(t) == CASE t.unit = "now" -> 0
                [] t.unit = "empty" -> -1
                [] t.unit = "second" -> t.n
                [] t.unit = "minute" -> t.n * Minute
                [] t.unit = "hour" -> t.n * Hour
                [] t.unit = "day" -> t.n * Day
                [] t.unit = "week" -> t.n * Week

\* The label of a cell is never wrong, whatever the age and also when the clock
\* is behind: the six assignments of updateView leave the age in its largest
\* unit, rounded down, and an older post never has a label that stands for less
\* time than that of a younger one.
LabelsRight ==
  /\ \A a \in Age : TimeText(a) = LargestUnit(a)
  /\ \A a, b \in Age : a <= b => Seconds(TimeText(a)) <= Seconds(TimeText(b))
===============================================================================
