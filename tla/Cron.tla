-------------------------------- MODULE Cron --------------------------------
(***************************************************************************)
(* Schedules and maintenance windows, as internal/cron evaluates them: the *)
(* newest occurrence not after an instant, searched backwards day by day   *)
(* on the real calendar, and whether its grace still lasts.  No state; all *)
(* pods compute the same from the clock.                                   *)
(*                                                                         *)
(* An instant is a number of minutes since the midnight that begins        *)
(* FirstYear, a day a number of days since then.                           *)
(***************************************************************************)
EXTENDS Integers, FiniteSets, FiniteSetsExt

CONSTANTS
    FirstYear, LastYear,     \* the years of the calendar
    FirstWeekday,            \* the weekday it begins with; 0 is Sunday
    None                     \* no occurrence

ASSUME YearsAssumption == FirstYear \in Nat /\ LastYear \in Nat /\ FirstYear <= LastYear
ASSUME WeekdayAssumption == FirstWeekday \in 0..6
ASSUME NoneAssumption == None \notin Int

Hour == 60
Day  == 24 * Hour

-----------------------------------------------------------------------------
(***************************************************************************)
(* The calendar, as package time has it.                                   *)
(***************************************************************************)
Leap(y) == (y % 4 = 0 /\ y % 100 # 0) \/ y % 400 = 0

DaysIn(y, m) == CASE m = 2 -> (IF Leap(y) THEN 29 ELSE 28)
                  [] m \in {4, 6, 9, 11} -> 30
                  [] OTHER -> 31

\* The months of the calendar, counted on through the years, and the day that
\* each begins with.
Months == 0..((LastYear - FirstYear + 1) * 12 - 1)

MonthStart ==
    LET start[i \in Nat] ==
            IF i = 0 THEN 0
            ELSE start[i - 1] + DaysIn(FirstYear + ((i - 1) \div 12), ((i - 1) % 12) + 1)
    IN  [i \in Months \cup {Cardinality(Months)} |-> start[i]]

Days == 0..(MonthStart[Cardinality(Months)] - 1)

Calendar == [d \in Days |->
    LET i == CHOOSE i \in Months : MonthStart[i] <= d /\ d < MonthStart[i + 1]
    IN  [year |-> FirstYear + (i \div 12), month |-> (i % 12) + 1, day |-> d - MonthStart[i] + 1,
         weekday |-> (d + FirstWeekday) % 7]]

-----------------------------------------------------------------------------
(***************************************************************************)
(* Schedules.                                                              *)
(***************************************************************************)
\* Parse of "@every", "@<seconds>": midnight and every so many minutes.
Every(n) == [every |-> n]

\* Parse of five fields, each the set of its values or "*"; 7 is Sunday too.
Star(field, all) == IF field = {} THEN all ELSE field

Fields(minutes, hours, dom, months, dow) ==
    [every   |-> 0,
     minutes |-> Star(minutes, 0..59), hours |-> Star(hours, 0..23),
     dom     |-> Star(dom, 1..31), months |-> Star(months, 1..12),
     dow     |-> {w % 7 : w \in Star(dow, 0..7)},
     domStar |-> dom = {}, dowStar |-> dow = {}]

\* What Parse makes of any text it takes.
WellFormed(s) ==
    IF s.every # 0 THEN s.every \in Nat ELSE s.hours \subseteq 0..23 /\ s.minutes \subseteq 0..59

\* The rule of the restricted fields: either of the two is enough.
DayMatches(s, date) ==
    CASE s.domStar /\ s.dowStar -> TRUE
      [] s.domStar /\ ~s.dowStar -> date.weekday \in s.dow
      [] ~s.domStar /\ s.dowStar -> date.day \in s.dom
      [] ~s.domStar /\ ~s.dowStar -> date.day \in s.dom \/ date.weekday \in s.dow

\* isOnlyFeb29: the one schedule that is taken for sparser than yearly.
OnlyFeb29(s) == s.months = {2} /\ s.dom = {29}

Horizon(s) == IF OnlyFeb29(s) THEN 4 * 366 + 1 ELSE 366

\* Mutant: the minute limits every hour of today.
TopLimited(h, maxH, maxM) == maxM

\* The minute up to which an hour of the day is searched.
Top(h, maxH, maxM) == IF h = maxH THEN maxM ELSE 59

Before(s, maxH, maxM) ==
    {Hour * t[1] + t[2] : t \in
        {c \in s.hours \X s.minutes : c[1] <= maxH /\ c[2] <= Top(c[1], maxH, maxM)}}

\* The candidates of the day that is d days ago.
Candidates(s, t, d) ==
    IF d = 0 THEN Before(s, (t % Day) \div Hour, t % Hour) ELSE Before(s, 23, 59)

LastOfFields(s, t) ==
    LET today == t \div Day
        hits == {d \in 0..Horizon(s) : /\ Calendar[today - d].month \in s.months
                                       /\ DayMatches(s, Calendar[today - d])
                                       /\ Candidates(s, t, d) # {}}
    IN  IF hits = {} THEN None
        ELSE (today - Min(hits)) * Day + Max(Candidates(s, t, Min(hits)))

\* Go's division truncates, and t is not before midnight.
LastOfEvery(s, t) == t - (t % Day) + ((t % Day) \div s.every) * s.every

LastOccurrence(s, t) == IF s.every # 0 THEN LastOfEvery(s, t) ELSE LastOfFields(s, t)

NewestOccurrence(specs, now) ==
    LET found == {LastOccurrence(s, now) : s \in specs} \ {None}
    IN  IF found = {} THEN None ELSE Max(found)

WindowsOpen(specs, grace, now) ==
    \E s \in specs : LET o == LastOccurrence(s, now)
                     IN  o # None /\ o <= now /\ now - o < grace

-----------------------------------------------------------------------------
(***************************************************************************)
(* What a schedule means (PLAN.md 3.3), without a search.                  *)
(***************************************************************************)
Occurs(s, o) ==
    IF s.every # 0 THEN (o % Day) % s.every = 0
    ELSE LET date == Calendar[o \div Day]
         IN  /\ date.month \in s.months /\ DayMatches(s, date)
             /\ (o % Day) \div Hour \in s.hours /\ o % Hour \in s.minutes

\* The occurrences of a day.
OccurrencesOn(s, d) ==
    IF s.every # 0
    THEN {o \in (Day * d)..(Day * (d + 1) - 1) : (o % Day) % s.every = 0}
    ELSE IF Calendar[d].month \in s.months /\ DayMatches(s, Calendar[d])
         THEN {Day * d + Hour * c[1] + c[2] : c \in s.hours \X s.minutes}
         ELSE {}

\* How far back an occurrence counts, in days: a year, and four years with a day to
\* spare for the schedule of the leap day.
Remembered(s) == IF s.every = 0 /\ OnlyFeb29(s) THEN 4 * 366 + 1 ELSE 366

\* The newest occurrence that counts.
NewestMeant(specs, now) ==
    LET today == now \div Day
        on(d) == {o \in UNION {OccurrencesOn(s, d) : s \in {s \in specs : today - d <= Remembered(s)}} :
                    o <= now}
        days  == {d \in 0..today : on(d) # {}}
    IN  IF days = {} THEN None ELSE Max(on(Max(days)))

OpenMeant(specs, grace, now) ==
    \E o \in (now - grace + 1)..now : \E s \in specs : Occurs(s, o)
=============================================================================
