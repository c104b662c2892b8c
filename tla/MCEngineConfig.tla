--------------------------- MODULE MCEngineConfig ---------------------------
(***************************************************************************)
(* EngineConfig for TLC: two pods, schedules and instants that meet the    *)
(* edges of the calendar (leap days, the century without one, the ends of  *)
(* months and years, the minute before and after an occurrence).           *)
(***************************************************************************)
EXTENDS EngineConfig

CONSTANTS p1, p2

TwoPods == {p1, p2}

\* Day d of month m of year y, at h:mm.
At(y, m, d, h, mm) ==
    Day * (MonthStart[(y - FirstYear) * 12 + m - 1] + d - 1) + Hour * h + mm

EdgeTimes ==
    { At(2096, 2, 29, 0, 0),      At(2096, 3, 1, 23, 59),  At(2099, 12, 31, 22, 29),
      At(2100, 1, 1, 0, 0),       At(2100, 2, 28, 22, 30), At(2100, 3, 1, 23, 2) }

NoList  == {}
Twelfth == {Every(720)}
\* 22:30 of the 31st and of Sundays; 22:05 and 23:05 of the first.
OrRule  == {Fields({30}, {22}, {31}, {}, {7}), Fields({5}, {22, 23}, {1}, {}, {})}
\* The leap day; a day of February that never comes.
Leaps   == {Fields({0, 40}, {0}, {29}, {2}, {}), Fields({59}, {21, 22}, {30}, {2}, {})}
\* The leap day again, in another spelling.
Rare    == {Fields({0}, {0}, {29, 30}, {2}, {})}

TestLists  == {NoList, Twelfth, OrRule, Leaps, Rare}
TestGraces == {5, 90}
=============================================================================
