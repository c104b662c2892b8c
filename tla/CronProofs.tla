----------------------------- MODULE CronProofs -----------------------------
(***************************************************************************)
(* Proofs about Cron: the backward search of internal/cron finds exactly   *)
(* the newest occurrence, for every calendar, schedule and instant.  The   *)
(* search and the meaning look at the same calendar; no fact about leap    *)
(* years or months is needed.                                              *)
(***************************************************************************)
EXTENDS Cron, WellFoundedInduction, TLAPS

-----------------------------------------------------------------------------
(***************************************************************************)
(* The least and the greatest of a set of natural numbers.                 *)
(***************************************************************************)
\* The day that the search stops at.
LEMMA LeastExists ==
  ASSUME NEW S \in SUBSET Nat, S # {}
  PROVE  Min(S) \in S /\ \A y \in S : Min(S) <= y
  <1>1. PICK x \in S : \A y \in S : ~(<<y, x>> \in OpToRel(<, Nat))
    BY NatLessThanWellFounded, WFMin
  <1>2. \A y \in S : x <= y
    <2> TAKE y \in S
    <2>1. x \in Nat /\ y \in Nat
      OBVIOUS
    <2>2. y < x => <<y, x>> \in OpToRel(<, Nat)
      BY <2>1 DEF OpToRel
    <2>3. ~(<<y, x>> \in OpToRel(<, Nat))
      BY <1>1
    <2>4. ~(y < x)
      BY <2>2, <2>3
    <2> QED
      BY <2>1, <2>4
  <1> QED
    BY <1>2 DEF Min

\* The newest of the occurrences found.
LEMMA GreatestExists ==
  ASSUME NEW S \in SUBSET Nat, S # {}, NEW b \in Nat, \A y \in S : y <= b
  PROVE  Max(S) \in S /\ \A y \in S : y <= Max(S)
  <1> DEFINE T == {n \in Nat : b - n \in S}
  <1>1. PICK z \in S : TRUE
    OBVIOUS
  <1>2. b - z \in T
    <2>1. z \in Nat /\ z <= b
      OBVIOUS
    <2>2. b - z \in Nat /\ b - (b - z) = z
      BY <2>1
    <2> QED
      BY <2>2
  <1>3. Min(T) \in T /\ \A n \in T : Min(T) <= n
    BY <1>2, LeastExists
  <1> DEFINE m == b - Min(T)
  <1>4. m \in S
    BY <1>3
  <1>5. \A y \in S : y <= m
    <2> TAKE y \in S
    <2>1. y \in Nat /\ y <= b
      OBVIOUS
    <2>2. b - y \in T
      <3>1. b - y \in Nat /\ b - (b - y) = y
        BY <2>1
      <3> QED
        BY <3>1
    <2>3. Min(T) \in Nat /\ Min(T) <= b - y
      BY <1>3, <2>2
    <2> QED
      BY <2>1, <2>3
  <1>6. \E x \in S : \A y \in S : x >= y
    <2>1. \A y \in S : y \in Nat
      OBVIOUS
    <2>2. m \in Nat
      BY <1>4
    <2> QED
      BY <1>4, <1>5, <2>1, <2>2
  <1>7. Max(S) \in S /\ \A y \in S : Max(S) >= y
    <2> HIDE DEF m
    <2> QED
      BY <1>6 DEF Max
  <1> QED
    <2>1. \A y \in S : y \in Nat
      OBVIOUS
    <2> QED
      BY <1>7, <2>1

\* There is only one.
LEMMA GreatestIs ==
  ASSUME NEW S \in SUBSET Nat, NEW x \in S, \A y \in S : y <= x
  PROVE  Max(S) = x
  <1>1. x \in Nat
    OBVIOUS
  <1>2. Max(S) \in S /\ \A y \in S : y <= Max(S)
    BY <1>1, GreatestExists
  <1>3. Max(S) \in Nat /\ Max(S) <= x /\ x <= Max(S)
    BY <1>2
  <1> QED
    BY <1>1, <1>3

-----------------------------------------------------------------------------
(***************************************************************************)
(* Minutes, hours and days.                                                *)
(***************************************************************************)
\* An instant is a day and a minute of it.
LEMMA Parts ==
  ASSUME NEW t \in Nat
  PROVE  /\ t \div Day \in Nat /\ t % Day \in 0..1439
         /\ t = ((t \div Day) * Day) + (t % Day)
         /\ (t % Day) \div Hour \in 0..23 /\ (t % Day) % Hour = t % Hour
         /\ t % Hour \in 0..59
         /\ t % Day = (Hour * ((t % Day) \div Hour)) + (t % Hour)
  BY DEF Day, Hour

\* A later day is a later instant, whatever the minutes.
LEMMA LaterDay ==
  ASSUME NEW t \in Nat, NEW o \in Nat
  PROVE  /\ t \div Day < o \div Day => t < o
         /\ t \div Day = o \div Day => (t <= o <=> t % Day <= o % Day)
  <1>1. t = ((t \div Day) * Day) + (t % Day) /\ o = ((o \div Day) * Day) + (o % Day)
    BY Parts
  <1>2. t % Day \in 0..1439 /\ o % Day \in 0..1439 /\ t \div Day \in Nat /\ o \div Day \in Nat
    BY Parts
  <1> DEFINE a == t \div Day  b == o \div Day  x == t % Day  y == o % Day
  <1>3. t = (a * 1440) + x /\ o = (b * 1440) + y /\ a \in Nat /\ b \in Nat /\ x \in 0..1439 /\ y \in 0..1439
    BY <1>1, <1>2 DEF Day, Hour
  <1>4. (a < b => t < o) /\ (a = b => (t <= o <=> x <= y))
    <2> HIDE DEF a, b, x, y
    <2> QED
      BY <1>3
  <1> QED
    BY <1>4

-----------------------------------------------------------------------------
(***************************************************************************)
(* The periods of "@every".                                                *)
(***************************************************************************)
\* A multiple of a period is one, and there is none between two in a row.
LEMMA Multiples ==
  ASSUME NEW e \in Nat, e # 0, NEW x \in Nat
  PROVE  /\ (x \div e) * e \in Nat /\ (x \div e) * e <= x
         /\ ((x \div e) * e) % e = 0
         /\ \A y \in Nat : y <= x /\ y % e = 0 => y <= (x \div e) * e
  <1> DEFINE q == x \div e  r == x % e
  <1>1. q \in Nat /\ r \in Nat /\ r < e /\ x = (q * e) + r
    OBVIOUS
  <1>2. q * e \in Nat
    <2> HIDE DEF q
    <2> QED
      BY <1>1
  <1>3. (q * e) % e = 0
    <2> HIDE DEF q
    <2> QED
      BY <1>1
  <1>4. ASSUME NEW y \in Nat, y <= x, y % e = 0 PROVE y <= q * e
    <2> DEFINE k == y \div e
    <2>1. k \in Nat /\ y = k * e
      BY <1>4
    <2>2. k <= q
      <3> HIDE DEF k, q, r
      <3>1. CASE k > q
        <4>1. k >= q + 1
          BY <1>1, <2>1, <3>1
        <4>2. k * e >= (q + 1) * e
          BY <1>1, <2>1, <4>1
        <4>3. (q + 1) * e = (q * e) + e
          BY <1>1
        <4> QED
          BY <1>1, <1>2, <1>4, <2>1, <4>2, <4>3
      <3> QED
        BY <1>1, <2>1, <3>1
    <2>3. k * e <= q * e
      <3> HIDE DEF k, q
      <3> QED
        BY <1>1, <2>1, <2>2
    <2> QED
      BY <2>1, <2>3
  <1>5. q * e <= x
    <2> HIDE DEF q, r
    <2> QED
      BY <1>1, <1>2
  <1> QED
    BY <1>2, <1>3, <1>4, <1>5
\* What is found of a period: it occurs, and nothing later does.
LEMMA EveryExact ==
  ASSUME NEW s, s.every \in Nat, s.every # 0, NEW t \in Nat
  PROVE  LET o == LastOfEvery(s, t)
         IN  /\ o \in Nat /\ o <= t /\ o \div Day = t \div Day /\ Occurs(s, o)
             /\ \A p \in Nat : p <= t /\ Occurs(s, p) => p <= o
  <1> DEFINE e == s.every  x == t % Day  q == (x \div e) * e  D == t \div Day  o == t - x + q
  <1>1. /\ x \in 0..1439 /\ D \in Nat /\ t = (D * Day) + x
    BY Parts
  <1>2. /\ q \in Nat /\ q <= x /\ q % e = 0
        /\ \A y \in Nat : y <= x /\ y % e = 0 => y <= q
    <2>1. x \in Nat /\ e \in Nat /\ e # 0
      <3> HIDE DEF x
      <3> QED
        BY <1>1
    <2> HIDE DEF x, e
    <2> QED
      BY <2>1, Multiples
  <1>3. LastOfEvery(s, t) = o
    BY DEF LastOfEvery
  <1>4. o = (D * Day) + q
    <2> HIDE DEF D, x, q
    <2> QED
      BY <1>1, <1>2 DEF Day, Hour
  <1>5. o \in Nat /\ o <= t /\ o \div Day = D /\ o % Day = q
    <2> HIDE DEF D, x, q, o
    <2> QED
      BY <1>1, <1>2, <1>4 DEF Day, Hour
  <1>6. Occurs(s, o)
    BY <1>2, <1>5 DEF Occurs
  <1>7. ASSUME NEW p \in Nat, p <= t, Occurs(s, p) PROVE p <= o
    <2>1. p % Day \in Nat /\ (p % Day) % e = 0 /\ p \div Day \in Nat
      <3>1. p % Day \in 0..1439 /\ p \div Day \in Nat
        BY Parts
      <3>2. (p % Day) % e = 0
        BY <1>7 DEF Occurs
      <3> QED
        BY <3>1, <3>2
    <2>2. p \div Day <= D
      BY <1>7, <2>1, <1>1, LaterDay
    <2>3. CASE p \div Day < D
      BY <1>5, <2>3, LaterDay
    <2>4. CASE p \div Day = D
      <3>1. p % Day <= x
        BY <1>7, <2>4, LaterDay
      <3>2. p % Day <= q
        <4> HIDE DEF q, x, e
        <4> QED
          BY <1>2, <2>1, <3>1
      <3> QED
        BY <1>5, <2>4, <3>2, LaterDay
    <2> QED
      <3> HIDE DEF D, o
      <3> QED
        BY <1>1, <2>1, <2>2, <2>3, <2>4
  <1> QED
    BY <1>3, <1>5, <1>6, <1>7

-----------------------------------------------------------------------------
(***************************************************************************)
(* The backward search over hours and minutes of a day.                    *)
(***************************************************************************)
FiveFields(s) == s.every = 0 /\ s.hours \subseteq 0..23 /\ s.minutes \subseteq 0..59

\* The minutes of a day that s names.
Named(s) == {x \in 0..1439 : x \div Hour \in s.hours /\ x % Hour \in s.minutes}

\* Hours up to maxH, minutes of that hour up to maxM, all of the others: these are
\* the minutes of the day up to maxH:maxM.
LEMMA BeforeExact ==
  ASSUME NEW s, FiveFields(s), NEW maxH \in 0..23, NEW maxM \in 0..59
  PROVE  Before(s, maxH, maxM) = {x \in Named(s) : x <= (Hour * maxH) + maxM}
  <1> DEFINE C == {c \in s.hours \X s.minutes : c[1] <= maxH /\ c[2] <= Top(c[1], maxH, maxM)}
             L == {(Hour * c[1]) + c[2] : c \in C}
             R == {x \in Named(s) : x <= (Hour * maxH) + maxM}
  <1>1. ASSUME NEW c \in C PROVE (Hour * c[1]) + c[2] \in R
    <2>1. c[1] \in 0..23 /\ c[2] \in 0..59 /\ c[1] \in s.hours /\ c[2] \in s.minutes
      BY DEF FiveFields
    <2>2. c[1] <= maxH /\ c[2] <= Top(c[1], maxH, maxM)
      OBVIOUS
    <2> DEFINE h == c[1]  m == c[2]  x == (Hour * h) + m
    <2>3. x \in 0..1439 /\ x \div Hour = h /\ x % Hour = m
      <3> HIDE DEF h, m
      <3>1. h \in 0..23 /\ m \in 0..59
        BY <2>1 DEF h, m
      <3> QED
        BY <3>1 DEF Hour
    <2>4. x <= (Hour * maxH) + maxM
      <3> HIDE DEF h, m
      <3>1. h \in 0..23 /\ m \in 0..59 /\ h <= maxH /\ (h = maxH => m <= maxM)
        BY <2>1, <2>2 DEF h, m, Top
      <3> QED
        BY <3>1 DEF Hour
    <2> QED
      BY <2>1, <2>3, <2>4 DEF Named
  <1>2. ASSUME NEW x \in R PROVE \E c \in C : x = (Hour * c[1]) + c[2]
    <2> DEFINE h == x \div Hour  m == x % Hour
    <2>1. x \in 0..1439 /\ h \in s.hours /\ m \in s.minutes /\ x <= (Hour * maxH) + maxM
      BY DEF Named
    <2>2. h \in 0..23 /\ m \in 0..59 /\ x = (Hour * h) + m
      BY <2>1 DEF Hour, FiveFields
    <2>3. h <= maxH /\ m <= Top(h, maxH, maxM)
      <3> HIDE DEF h, m
      <3> QED
        BY <2>1, <2>2 DEF Top, Hour
    <2>4. <<h, m>> \in C
      <3> HIDE DEF h, m
      <3> QED
        BY <2>1, <2>3
    <2> QED
      BY <2>2, <2>4
  <1>3. Before(s, maxH, maxM) = L
    BY DEF Before
  <1> QED
    BY <1>1, <1>2, <1>3
\* The candidates d days ago are the minutes that s names, up to the present one.
LEMMA CandidatesExact ==
  ASSUME NEW s, FiveFields(s), NEW t \in Nat, NEW d \in Nat
  PROVE  Candidates(s, t, d) = {x \in Named(s) : d = 0 => x <= t % Day}
  <1>1. CASE d = 0
    <2>1. /\ (t % Day) \div Hour \in 0..23 /\ t % Hour \in 0..59
          /\ t % Day = (Hour * ((t % Day) \div Hour)) + (t % Hour)
      BY Parts
    <2>2. Before(s, (t % Day) \div Hour, t % Hour) = {x \in Named(s) : x <= t % Day}
      BY <2>1, BeforeExact
    <2> QED
      BY <1>1, <2>2 DEF Candidates
  <1>2. CASE d # 0
    <2>1. Before(s, 23, 59) = {x \in Named(s) : x <= (Hour * 23) + 59}
      BY BeforeExact
    <2>2. \A x \in Named(s) : x <= (Hour * 23) + 59
      BY DEF Named, Hour
    <2> QED
      BY <1>2, <2>1, <2>2 DEF Candidates
  <1> QED
    BY <1>1, <1>2

\* The days that s names.
OnDay(s, D) == Calendar[D].month \in s.months /\ DayMatches(s, Calendar[D])

\* An occurrence is a named minute of a named day.
LEMMA OccursNamed ==
  ASSUME NEW s, FiveFields(s), NEW o \in Nat
  PROVE  Occurs(s, o) <=> OnDay(s, o \div Day) /\ o % Day \in Named(s)
  <1>1. o % Day \in 0..1439 /\ (o % Day) % Hour = o % Hour
    BY Parts
  <1> QED
    BY <1>1 DEF Occurs, OnDay, Named, FiveFields

\* What the search over the days finds: the newest occurrence, or none if there is
\* none as far back as it looks.
LEMMA FieldsExact ==
  ASSUME NEW s, FiveFields(s), NEW t \in Nat, t \div Day >= 4 * 366 + 1
  PROVE  LET o == LastOfFields(s, t)
             near(p) == p <= t /\ Occurs(s, p) /\ (t \div Day) - (p \div Day) <= Horizon(s)
         IN  \/ o = None /\ ~\E p \in Nat : near(p)
             \/ o \in Nat /\ near(o) /\ \A p \in Nat : near(p) => p <= o
  <1> DEFINE D == t \div Day
             H == Horizon(s)
             C(d) == Candidates(s, t, d)
             hits == {d \in 0..H : OnDay(s, D - d) /\ C(d) # {}}
             near(p) == p <= t /\ Occurs(s, p) /\ D - (p \div Day) <= H
  <1>1. D \in Nat /\ H \in Nat /\ H <= D
    <2>1. H \in {4 * 366 + 1, 366}
      BY DEF Horizon
    <2>2. D \in Nat
      BY Parts
    <2> HIDE DEF H, D
    <2> QED
      BY <2>1, <2>2 DEF D
  <1>2. LastOfFields(s, t) = IF hits = {} THEN None ELSE (D - Min(hits)) * Day + Max(C(Min(hits)))
    BY DEF LastOfFields, OnDay
  <1>3. ASSUME NEW d \in Nat PROVE C(d) = {x \in Named(s) : d = 0 => x <= t % Day}
    BY CandidatesExact
  \* An occurrence near enough is a candidate of a day that hits.
  <1>4. ASSUME NEW p \in Nat, near(p)
        PROVE  D - (p \div Day) \in hits /\ p % Day \in C(D - (p \div Day))
    <2> DEFINE d == D - (p \div Day)
    <2>1. OnDay(s, p \div Day) /\ p % Day \in Named(s)
      BY <1>4, OccursNamed
    <2>2. p \div Day \in Nat /\ p \div Day <= D
      <3>1. p \div Day \in Nat
        BY Parts
      <3>2. ~(D < p \div Day)
        BY <1>4, LaterDay
      <3> QED
        BY <1>1, <3>1, <3>2
    <2>3. d \in 0..H /\ D - d = p \div Day
      <3> HIDE DEF H, D
      <3> QED
        BY <1>1, <1>4, <2>2
    <2>4. d = 0 => p % Day <= t % Day
      BY <1>4, <2>3, <1>1, <2>2, LaterDay
    <2>5. p % Day \in C(d)
      <3> HIDE DEF C, d
      <3> QED
        BY <1>3, <2>1, <2>3, <2>4, <1>1
    <2> QED
      BY <2>1, <2>3, <2>5
  <1>5. CASE hits = {}
    BY <1>2, <1>4, <1>5
  <1>6. CASE hits # {}
    <2> DEFINE m == Min(hits)  x == Max(C(m))  o == (D - m) * Day + x
    <2>1. m \in hits /\ \A d \in hits : m <= d
      <3>1. hits \in SUBSET Nat
        BY <1>1
      <3> HIDE DEF hits
      <3> QED
        BY <1>6, <3>1, LeastExists
    <2>2. m \in 0..H /\ m \in Nat /\ OnDay(s, D - m) /\ C(m) # {}
      <3> HIDE DEF m, D, H, C
      <3> QED
        BY <2>1, <1>1
    <2>3. x \in C(m) /\ \A y \in C(m) : y <= x
      <3> DEFINE S == C(m)
      <3>1. S = {y \in Named(s) : m = 0 => y <= t % Day} /\ S # {}
        <4> HIDE DEF m, C
        <4> QED
          BY <1>3, <2>2
      <3>2. Max(S) \in S /\ \A y \in S : y <= Max(S)
        <4> HIDE DEF S, m
        <4>1. S \subseteq 0..1439
          BY <3>1 DEF Named
        <4>2. S \in SUBSET Nat
          BY <4>1
        <4>3. \E b \in Nat : \A y \in S : y <= b
          <5>1. 1439 \in Nat
            OBVIOUS
          <5>2. \A y \in S : y <= 1439
            BY <4>1
          <5> QED
            BY <5>1, <5>2
        <4>4. S # {}
          BY <3>1
        <4> QED
          BY <4>2, <4>3, <4>4, GreatestExists
      <3> QED
        BY <3>2
    <2>4. x \in Named(s) /\ x \in 0..1439 /\ (m = 0 => x <= t % Day)
      <3> HIDE DEF C, m, x
      <3> QED
        BY <1>3, <2>2, <2>3 DEF Named
    <2>5. o \in Nat /\ o \div Day = D - m /\ o % Day = x
      <3> HIDE DEF m, x, D, H
      <3> QED
        BY <1>1, <2>2, <2>4 DEF Day, Hour
    <2>6. near(o)
      <3>1. Occurs(s, o)
        <4> HIDE DEF o, m, x
        <4> QED
          BY <2>2, <2>4, <2>5, OccursNamed
      <3>2. D - (o \div Day) <= H
        <4> HIDE DEF o, m, x, D, H
        <4> QED
          BY <1>1, <2>2, <2>5
      <3>3. o <= t
        <4>1. o \div Day < t \div Day \/ (o \div Day = t \div Day /\ m = 0)
          <5> HIDE DEF o, m, x, H
          <5> QED
            BY <1>1, <2>2, <2>5
        <4> HIDE DEF o, m, x
        <4> QED
          BY <2>4, <2>5, <4>1, LaterDay
      <3> QED
        BY <3>1, <3>2, <3>3
    <2>7. ASSUME NEW p \in Nat, near(p) PROVE p <= o
      <3> DEFINE d == D - (p \div Day)
      <3>1. d \in hits /\ p % Day \in C(d)
        BY <1>4, <2>7
      <3>2. m <= d /\ p \div Day \in Nat
        <4>1. p \div Day \in Nat
          BY Parts
        <4> HIDE DEF m, hits, d
        <4> QED
          BY <2>1, <3>1, <4>1
      <3>3. CASE m = d
        <4>1. p \div Day = o \div Day
          <5> HIDE DEF o, m, x, D, H
          <5> QED
            BY <1>1, <2>2, <2>5, <3>2, <3>3 DEF d
        <4>2. p % Day <= x
          <5> HIDE DEF C, m, x, d
          <5> QED
            BY <2>3, <3>1, <3>3
        <4> HIDE DEF o, x
        <4> QED
          BY <2>5, <4>1, <4>2, LaterDay
      <3>4. CASE m # d
        <4>1. p \div Day < o \div Day
          <5> HIDE DEF o, m, x, D, H
          <5> QED
            BY <1>1, <2>2, <2>5, <3>2, <3>4 DEF d
        <4>2. p < o
          <5> HIDE DEF o
          <5> QED
            BY <2>5, <4>1, LaterDay
        <4> HIDE DEF o
        <4> QED
          BY <2>5, <4>2
      <3> QED
        BY <3>3, <3>4
    <2> QED
      BY <1>2, <1>6, <2>5, <2>6, <2>7
  <1> QED
    BY <1>5, <1>6
\* An occurrence that counts at the instant t.
Counts(s, p, t) == p <= t /\ Occurs(s, p) /\ (t \div Day) - (p \div Day) <= Remembered(s)

\* lastOccurrenceAtOrBefore, for every schedule that Parse takes and every instant with
\* enough calendar before it: it returns the newest occurrence that counts, or nothing
\* when there is none.
THEOREM LastOccurrenceExact ==
  ASSUME NEW s, WellFormed(s), NEW t \in Nat, t \div Day >= 4 * 366 + 1
  PROVE  LET o == LastOccurrence(s, t)
         IN  \/ o = None /\ ~\E p \in Nat : Counts(s, p, t)
             \/ o \in Nat /\ Counts(s, o, t) /\ \A p \in Nat : Counts(s, p, t) => p <= o
  <1>1. CASE s.every # 0
    <2>1. s.every \in Nat
      BY <1>1 DEF WellFormed
    <2>2. LastOccurrence(s, t) = LastOfEvery(s, t)
      BY <1>1 DEF LastOccurrence
    <2> DEFINE o == LastOfEvery(s, t)
    <2>3. /\ o \in Nat /\ o <= t /\ o \div Day = t \div Day /\ Occurs(s, o)
          /\ \A p \in Nat : p <= t /\ Occurs(s, p) => p <= o
      BY <1>1, <2>1, EveryExact
    <2>4. (t \div Day) - (o \div Day) <= Remembered(s)
      <3>1. Remembered(s) = 366 /\ t \div Day \in Nat
        BY <1>1, Parts DEF Remembered
      <3> HIDE DEF o
      <3> QED
        BY <2>3, <3>1
    <2> HIDE DEF o
    <2>5. o \in Nat /\ Counts(s, o, t) /\ \A p \in Nat : Counts(s, p, t) => p <= o
      BY <2>3, <2>4 DEF Counts
    <2> QED
      BY <2>2, <2>5 DEF o
  <1>2. CASE s.every = 0
    <2>1. FiveFields(s)
      BY <1>2 DEF WellFormed, FiveFields
    <2>2. LastOccurrence(s, t) = LastOfFields(s, t) /\ Horizon(s) = Remembered(s)
      BY <1>2 DEF LastOccurrence, Horizon, Remembered
    <2> QED
      BY <2>1, <2>2, FieldsExact DEF Counts
  <1> QED
    BY <1>1, <1>2

-----------------------------------------------------------------------------
(***************************************************************************)
(* A list of schedules.                                                    *)
(***************************************************************************)
\* WindowsOpen, for any grace up to the 366 days that every schedule is searched: a
\* window is open exactly when an occurrence lies within the grace.
THEOREM OpenExact ==
  ASSUME NEW specs, \A s \in specs : WellFormed(s),
         NEW grace \in Nat \ {0}, grace <= 366 * Day, NEW now \in Nat, now \div Day >= 4 * 366 + 1
  PROVE  WindowsOpen(specs, grace, now) <=> OpenMeant(specs, grace, now)
  <1>0. Day = 1440 /\ grace \in Nat /\ grace <= 366 * 1440
    <2>1. Day = 1440
      BY DEF Day, Hour
    <2>2. 366 * Day = 366 * 1440
      BY <2>1
    <2> QED
      BY <2>1, <2>2
  <1>1. now - grace + 1 \in Nat
    <2>1. now = ((now \div Day) * Day) + (now % Day) /\ now % Day \in 0..1439 /\ now \div Day \in Nat
      BY Parts
    <2> DEFINE D == now \div Day  x == now % Day
    <2>2. now = (D * 1440) + x /\ x \in 0..1439 /\ D \in Nat /\ D >= 1465
      BY <1>0, <2>1
    <2> HIDE DEF D, x
    <2> QED
      BY <1>0, <2>2
  <1>2. ASSUME NEW s \in specs,
               LastOccurrence(s, now) # None, LastOccurrence(s, now) <= now,
               now - LastOccurrence(s, now) < grace
        PROVE  OpenMeant(specs, grace, now)
    <2> DEFINE o == LastOccurrence(s, now)
    <2>1. o \in Nat /\ Occurs(s, o)
      BY <1>2, LastOccurrenceExact DEF Counts
    <2>2. o \in (now - grace + 1)..now
      <3> HIDE DEF o
      <3>1. o <= now /\ now - o < grace
        BY <1>2 DEF o
      <3> QED
        BY <2>1, <3>1
    <2> QED
      BY <2>1, <2>2 DEF OpenMeant
  <1>3. ASSUME NEW o \in (now - grace + 1)..now, NEW s \in specs, Occurs(s, o)
        PROVE  WindowsOpen(specs, grace, now)
    <2>1. o \in Nat /\ o <= now /\ now - o < grace
      BY <1>1
    <2>2. (now \div Day) - (o \div Day) <= 366
      <3> DEFINE D == now \div Day  x == now % Day  E == o \div Day  y == o % Day
      <3>1. /\ now = (D * 1440) + x /\ x \in 0..1439 /\ D \in Nat
            /\ o = (E * 1440) + y /\ y \in 0..1439 /\ E \in Nat
        BY <1>0, <2>1, Parts
      <3>2. now - o < 366 * 1440
        BY <1>0, <2>1
      <3> HIDE DEF D, x, E, y
      <3>3. D - E <= 366
        BY <3>1, <3>2
      <3> QED
        BY <3>3 DEF D, E
    <2>3. Remembered(s) >= 366 /\ Remembered(s) \in Nat
      BY DEF Remembered
    <2>4. Counts(s, o, now)
      <3>1. now \div Day \in Nat /\ o \div Day \in Nat
        BY <2>1, Parts
      <3>2. (now \div Day) - (o \div Day) <= Remembered(s)
        BY <2>2, <2>3, <3>1
      <3> QED
        BY <1>3, <2>1, <3>2 DEF Counts
    <2> DEFINE p == LastOccurrence(s, now)
    <2>5. p \in Nat /\ p <= now /\ o <= p /\ p # None
      <3>1. p \in Nat /\ Counts(s, p, now) /\ o <= p
        BY <2>1, <2>4, LastOccurrenceExact
      <3> QED
        BY <3>1, NoneAssumption DEF Counts
    <2>6. now - p < grace
      <3> HIDE DEF p
      <3> QED
        BY <2>1, <2>5
    <2> QED
      BY <2>5, <2>6 DEF WindowsOpen
  <1>4. WindowsOpen(specs, grace, now) => OpenMeant(specs, grace, now)
    BY <1>2 DEF WindowsOpen
  <1>5. OpenMeant(specs, grace, now) => WindowsOpen(specs, grace, now)
    BY <1>3 DEF OpenMeant
  <1> QED
    BY <1>4, <1>5
\* The occurrences of a day, as they are enumerated.
LEMMA OccurrencesOnExact ==
  ASSUME NEW s, WellFormed(s), NEW d \in Nat
  PROVE  OccurrencesOn(s, d) = {o \in Nat : o \div Day = d /\ Occurs(s, o)}
  <1>1. CASE s.every # 0
    <2>1. ASSUME NEW o \in (Day * d)..(Day * (d + 1) - 1) PROVE o \in Nat /\ o \div Day = d
      BY <2>1 DEF Day, Hour
    <2>2. ASSUME NEW o \in Nat, o \div Day = d PROVE o \in (Day * d)..(Day * (d + 1) - 1)
      BY <2>2 DEF Day, Hour
    <2> QED
      BY <1>1, <2>1, <2>2 DEF OccurrencesOn, Occurs
  <1>2. CASE s.every = 0
    <2> DEFINE L == {(Day * d) + (Hour * c[1]) + c[2] : c \in s.hours \X s.minutes}
               R == {o \in Nat : o \div Day = d /\ Occurs(s, o)}
    <2>1. FiveFields(s)
      BY <1>2 DEF WellFormed, FiveFields
    <2>2. OccurrencesOn(s, d) = IF OnDay(s, d) THEN L ELSE {}
      BY <1>2 DEF OccurrencesOn, OnDay
    <2>3. ASSUME OnDay(s, d), NEW c \in s.hours \X s.minutes PROVE (Day * d) + (Hour * c[1]) + c[2] \in R
      <3> DEFINE h == c[1]  m == c[2]  o == (Day * d) + (Hour * h) + m
      <3>1. h \in 0..23 /\ m \in 0..59 /\ h \in s.hours /\ m \in s.minutes
        BY <2>1 DEF FiveFields
      <3>2. o \in Nat /\ o \div Day = d /\ (o % Day) \div Hour = h /\ o % Hour = m
        <4>1. h \in 0..23 /\ m \in 0..59
          BY <3>1
        <4> HIDE DEF h, m, L, R
        <4> QED
          BY <4>1 DEF Day, Hour
      <3>3. Occurs(s, o)
        <4> HIDE DEF h, m, o
        <4> QED
          BY <1>2, <2>3, <3>1, <3>2 DEF Occurs, OnDay
      <3> QED
        BY <3>2, <3>3
    <2>4. ASSUME NEW o \in R PROVE OnDay(s, d) /\ \E c \in s.hours \X s.minutes : o = (Day * d) + (Hour * c[1]) + c[2]
      <3> DEFINE h == (o % Day) \div Hour  m == o % Hour
      <3>1. OnDay(s, d) /\ h \in s.hours /\ m \in s.minutes
        BY <1>2 DEF Occurs, OnDay
      <3>2. o = (Day * d) + (Hour * h) + m
        BY DEF Day, Hour
      <3>3. <<h, m>> \in s.hours \X s.minutes
        BY <3>1
      <3> HIDE DEF h, m
      <3> QED
        BY <3>1, <3>2, <3>3
    <2> QED
      <3>1. CASE OnDay(s, d)
        BY <2>2, <2>3, <2>4, <3>1
      <3>2. CASE ~OnDay(s, d)
        BY <2>2, <2>4, <3>2
      <3> QED
        BY <3>1, <3>2
  <1> QED
    BY <1>1, <1>2

\* NewestOccurrence, for every list and every instant with enough calendar before it:
\* it returns the newest occurrence that counts, or nothing when there is none.
THEOREM NewestExact ==
  ASSUME NEW specs, \A s \in specs : WellFormed(s),
         NEW now \in Nat, now \div Day >= 4 * 366 + 1
  PROVE  NewestOccurrence(specs, now) = NewestMeant(specs, now)
  <1> DEFINE R == {o \in Nat : \E s \in specs : Counts(s, o, now)}
             today == now \div Day
             found == {LastOccurrence(s, now) : s \in specs} \ {None}
             on(d) == {o \in UNION {OccurrencesOn(s, d) : s \in {s \in specs : today - d <= Remembered(s)}} :
                         o <= now}
             days == {d \in 0..today : on(d) # {}}
             N == Max(on(Max(days)))
  <1>1. NewestOccurrence(specs, now) = IF found = {} THEN None ELSE Max(found)
    BY DEF NewestOccurrence
  <1>2. NewestMeant(specs, now) = IF days = {} THEN None ELSE N
    BY DEF NewestMeant
  <1>3. today \in Nat
    BY Parts
  <1>4. R \in SUBSET Nat /\ \A o \in R : o <= now
    BY DEF Counts
  \* The search.
  <1>5. found \subseteq R
    <2> SUFFICES ASSUME NEW s \in specs, LastOccurrence(s, now) # None PROVE LastOccurrence(s, now) \in R
      OBVIOUS
    <2> QED
      BY LastOccurrenceExact
  <1>6. ASSUME NEW o \in R PROVE \E f \in found : o <= f
    <2>1. PICK s \in specs : Counts(s, o, now)
      OBVIOUS
    <2> DEFINE f == LastOccurrence(s, now)
    <2>2. f \in Nat /\ o <= f
      BY <2>1, LastOccurrenceExact
    <2>3. f \in found
      BY <2>2, NoneAssumption
    <2> QED
      BY <2>2, <2>3
  \* The meaning.
  <1>7. ASSUME NEW d \in 0..today PROVE on(d) = {o \in R : o \div Day = d}
    <2>1. \A s \in specs : OccurrencesOn(s, d) = {o \in Nat : o \div Day = d /\ Occurs(s, o)}
      BY OccurrencesOnExact
    <2>2. ASSUME NEW o \in on(d) PROVE o \in R /\ o \div Day = d
      <3>1. PICK s \in specs : today - d <= Remembered(s) /\ o \in OccurrencesOn(s, d) /\ o <= now
        OBVIOUS
      <3>2. o \in Nat /\ o \div Day = d /\ Occurs(s, o)
        BY <2>1, <3>1
      <3> QED
        BY <3>1, <3>2 DEF Counts
    <2>3. ASSUME NEW o \in R, o \div Day = d PROVE o \in on(d)
      <3>1. PICK s \in specs : Counts(s, o, now)
        OBVIOUS
      <3>2. o \in OccurrencesOn(s, d) /\ today - d <= Remembered(s) /\ o <= now
        BY <2>1, <2>3, <3>1 DEF Counts
      <3> QED
        BY <3>1, <3>2
    <2> HIDE DEF on, R
    <2> QED
      <3>1. \A o : o \in on(d) => o \in R /\ o \div Day = d
        BY <2>2
      <3>2. \A o : o \in R /\ o \div Day = d => o \in on(d)
        BY <2>3
      <3> QED
        BY <3>1, <3>2
  <1>8. ASSUME NEW o \in R PROVE o \div Day \in days /\ o \in on(o \div Day)
    <2>1. o \in Nat /\ o <= now
      BY <1>4
    <2>2. o \div Day \in 0..today
      BY <1>3, <2>1, Parts, LaterDay
    <2> HIDE DEF on, R
    <2> QED
      BY <1>7, <2>2
  <1> HIDE DEF R, found, on
  <1>9. CASE R = {}
    <2>1. found = {}
      BY <1>5, <1>9
    <2>2. days = {}
      BY <1>7, <1>9
    <2> QED
      BY <1>1, <1>2, <2>1, <2>2
  <1>10. CASE R # {}
    <2>1. Max(R) \in R /\ \A o \in R : o <= Max(R)
      BY <1>4, <1>10, GreatestExists
    <2>2. found # {} /\ Max(found) = Max(R)
      <3>1. PICK f \in found : Max(R) <= f
        BY <1>6, <2>1
      <3>2. f \in R /\ f \in Nat /\ Max(R) \in Nat
        BY <1>4, <1>5, <2>1
      <3>3. f = Max(R)
        BY <2>1, <3>1, <3>2
      <3>4. found \in SUBSET Nat /\ \A g \in found : g <= f
        BY <1>4, <1>5, <2>1, <3>3
      <3> QED
        BY <3>3, <3>4, GreatestIs
    <2>3. days # {} /\ N = Max(R)
      <3> DEFINE M == Max(R) \div Day
      <3>1. M \in days /\ Max(R) \in on(M)
        BY <1>8, <2>1
      <3>2. \A d \in days : d <= M
        <4> SUFFICES ASSUME NEW d \in days PROVE d <= M
          OBVIOUS
        <4>1. PICK o \in on(d) : TRUE
          OBVIOUS
        <4>2. o \in R /\ o \div Day = d /\ d \in Nat
          BY <1>3, <1>7, <4>1
        <4>3. ~(M < d)
          <5>1. o \in Nat /\ Max(R) \in Nat /\ o <= Max(R)
            BY <1>4, <2>1, <4>2
          <5> HIDE DEF days
          <5> QED
            BY <4>2, <5>1, LaterDay
        <4> QED
          <5>1. Max(R) \in Nat
            BY <1>4, <2>1
          <5>2. M \in Nat
            BY <5>1, Parts
          <5> HIDE DEF M, days
          <5> QED
            BY <4>2, <4>3, <5>2
      <3>3. Max(days) = M
        <4>1. days \in SUBSET Nat
          BY <1>3
        <4> HIDE DEF days, M
        <4> QED
          BY <3>1, <3>2, <4>1, GreatestIs
      <3>4. on(M) \in SUBSET Nat /\ \A o \in on(M) : o <= Max(R)
        <4>1. M \in 0..today
          BY <3>1
        <4> HIDE DEF M
        <4> QED
          BY <1>4, <1>7, <2>1, <4>1
      <3>5. Max(on(M)) = Max(R)
        <4> DEFINE S == on(M)
        <4>1. S \in SUBSET Nat /\ Max(R) \in S /\ \A o \in S : o <= Max(R)
          BY <3>1, <3>4
        <4> HIDE DEF S
        <4>2. Max(S) = Max(R)
          BY <4>1, GreatestIs
        <4> QED
          BY <4>2 DEF S
      <3> QED
        BY <3>1, <3>3, <3>5
    <2> QED
      BY <1>1, <1>2, <2>2, <2>3
  <1> QED
    BY <1>9, <1>10

\* NewestOccurrence without the horizon: when any schedule of the list has occurred in
\* the last 366 days, what the bounded search returns is the newest of all occurrences
\* of all schedules, however long ago each schedule last occurred and whatever it
\* remembers.
THEOREM NewestOfAll ==
  ASSUME NEW specs, \A s \in specs : WellFormed(s),
         NEW now \in Nat, now \div Day >= 4 * 366 + 1,
         NEW q \in Nat, q <= now, (now \div Day) - (q \div Day) <= 366,
         \E s \in specs : Occurs(s, q)
  PROVE  LET o == NewestOccurrence(specs, now)
         IN  /\ o \in Nat /\ o <= now /\ \E s \in specs : Occurs(s, o)
             /\ \A s \in specs, p \in Nat : p <= now /\ Occurs(s, p) => p <= o
  <1> DEFINE today == now \div Day
             found == {LastOccurrence(s, now) : s \in specs} \ {None}
  <1>0. today \in Nat /\ q \div Day \in Nat /\ today - (q \div Day) <= 366
    BY Parts
  <1>1. ASSUME NEW s \in specs, NEW p \in Nat, p <= now, Occurs(s, p), today - (p \div Day) <= 366
        PROVE  \E f \in found : f \in Nat /\ p <= f
    <2>1. Remembered(s) \in {366, 4 * 366 + 1} /\ p \div Day \in Nat
      BY Parts DEF Remembered
    <2>2. today - (p \div Day) <= Remembered(s)
      <3> HIDE DEF today
      <3> QED
        BY <1>0, <1>1, <2>1
    <2>3. Counts(s, p, now)
      BY <1>1, <2>2 DEF Counts
    <2> DEFINE f == LastOccurrence(s, now)
    <2>4. f \in Nat /\ p <= f
      BY <2>3, LastOccurrenceExact
    <2>5. f \in found
      BY <2>4, NoneAssumption
    <2> QED
      BY <2>4, <2>5
  <1>2. PICK f0 \in found : f0 \in Nat /\ q <= f0
    BY <1>1
  <1>3. ASSUME NEW o \in found PROVE o \in Nat /\ o <= now /\ \E s \in specs : Occurs(s, o)
    <2>1. PICK s \in specs : o = LastOccurrence(s, now) /\ o # None
      OBVIOUS
    <2> QED
      BY <2>1, LastOccurrenceExact DEF Counts
  <1>4. Max(found) \in found /\ \A o \in found : o <= Max(found)
    <2> HIDE DEF found
    <2>1. found \in SUBSET Nat /\ found # {} /\ \A o \in found : o <= now
      BY <1>2, <1>3
    <2> QED
      BY <2>1, GreatestExists
  <1>5. NewestOccurrence(specs, now) = Max(found)
    BY <1>2 DEF NewestOccurrence
  <1>6. ASSUME NEW s \in specs, NEW p \in Nat, p <= now, Occurs(s, p) PROVE p <= Max(found)
    <2>1. p \div Day \in Nat /\ Max(found) \in Nat
      BY <1>3, <1>4, Parts
    <2>2. CASE today - (p \div Day) <= 366
      <3>1. PICK f \in found : f \in Nat /\ p <= f
        BY <1>1, <1>6, <2>2
      <3>2. f <= Max(found)
        BY <1>4
      <3> HIDE DEF found
      <3> QED
        BY <2>1, <3>1, <3>2
    <2>3. CASE ~(today - (p \div Day) <= 366)
      <3>1. p \div Day < q \div Day
        <4> HIDE DEF today
        <4> QED
          BY <1>0, <2>1, <2>3
      <3>2. p < q
        BY <3>1, LaterDay
      <3>3. f0 <= Max(found)
        BY <1>2, <1>4
      <3>4. f0 \in Nat /\ q <= f0 /\ p \in Nat /\ p < q
        BY <1>2, <1>6, <3>2
      <3> HIDE DEF found
      <3> QED
        BY <2>1, <3>3, <3>4
    <2> QED
      BY <2>2, <2>3
  <1> HIDE DEF found
  <1> QED
    BY <1>3, <1>4, <1>5, <1>6
=============================================================================
