--------------------------- MODULE GatewayPipeProofs ---------------------------
(* A gateway under requests, reloads, sessions and shutdown, for any of       *)
(* them: proofs about GatewayPipe, ConfigReload and CaptureLog.               *)
EXTENDS GatewayPipe, FiniteSetTheorems, SequenceTheorems, TLAPS

-----------------------------------------------------------------------------
(* The calendar: daily_name keeps the order of the days.                    *)

Era(day)        == (day + 719468) \div 146097
DayOfEra(day)   == (day + 719468) % 146097
YearOfEra(at)   == (at - at \div 1460 + at \div 36524 - at \div 146096) \div 365
YearBegins(year) == 365 * year + year \div 4 - year \div 100
DayOfYear(at)   == at - YearBegins(YearOfEra(at))
MonthOf(at)     == (5 * at + 2) \div 153
MonthBegins(month) == (153 * month + 2) \div 5
DaysOfEra == {n \in Nat : n <= 146096}

\* The eras are of one length, and days of one era keep their order in it.
LEMMA ErasInOrder ==
    ASSUME NEW d \in Nat, NEW x \in Nat, d < x
    PROVE  /\ Era(d) \in Nat /\ Era(x) \in Nat
           /\ DayOfEra(d) \in DaysOfEra /\ DayOfEra(x) \in DaysOfEra
           /\ Era(d) <= Era(x)
           /\ Era(d) = Era(x) => DayOfEra(d) < DayOfEra(x)
  <1> DEFINE a == d + 719468
             b == x + 719468
  <1>1. a \in Nat /\ b \in Nat /\ a < b
    BY SMT
  <1> HIDE DEF a, b
  <1>2. /\ a \div 146097 \in Nat /\ a % 146097 \in Nat /\ a % 146097 <= 146096
        /\ b \div 146097 \in Nat /\ b % 146097 \in Nat /\ b % 146097 <= 146096
    BY <1>1, SMT
  <1>3. /\ a = 146097 * (a \div 146097) + (a % 146097)
        /\ b = 146097 * (b \div 146097) + (b % 146097)
    BY <1>1, SMT
  <1> DEFINE q == a \div 146097
             r == a % 146097
             s == b \div 146097
             t == b % 146097
  <1> HIDE DEF q, r, s, t
  <1>4. q <= s /\ (q = s => r < t)
    <2>1. /\ q \in Nat /\ s \in Nat /\ r \in Nat /\ r <= 146096 /\ t \in Nat /\ t <= 146096
          /\ a = 146097 * q + r /\ b = 146097 * s + t
      BY <1>2, <1>3, SMT DEF q, r, s, t
    <2> QED BY <1>1, <2>1, SMT
  <1> QED BY <1>2, <1>4, SMT DEF a, b, q, r, s, t, Era, DayOfEra, DaysOfEra

LEMMA Quotients ==
    ASSUME NEW at \in DaysOfEra
    PROVE  /\ at \div 1460 \in Nat /\ 1460 * (at \div 1460) <= at /\ at < 1460 * (at \div 1460) + 1460
           /\ at \div 36524 \in Nat /\ 36524 * (at \div 36524) <= at /\ at < 36524 * (at \div 36524) + 36524
           /\ at \div 146096 \in Nat /\ 146096 * (at \div 146096) <= at /\ at < 146096 * (at \div 146096) + 146096
  <1>1. at \in Nat
    BY SMT DEF DaysOfEra
  <1>2. at \div 1460 \in Nat /\ 1460 * (at \div 1460) <= at /\ at < 1460 * (at \div 1460) + 1460
    BY <1>1, SMT
  <1>3. at \div 36524 \in Nat /\ 36524 * (at \div 36524) <= at /\ at < 36524 * (at \div 36524) + 36524
    BY <1>1, SMT
  <1>4. at \div 146096 \in Nat /\ 146096 * (at \div 146096) <= at /\ at < 146096 * (at \div 146096) + 146096
    BY <1>1, SMT
  <1> QED BY <1>2, <1>3, <1>4, SMT

\* The years of one era, from the quotients that correct for the leap days.
LEMMA YearQuotient ==
    ASSUME NEW at \in DaysOfEra
    PROVE  /\ YearOfEra(at) \in Nat
           /\ 365 * YearOfEra(at) <= at - at \div 1460 + at \div 36524 - at \div 146096
           /\ at - at \div 1460 + at \div 36524 - at \div 146096 < 365 * YearOfEra(at) + 365
  <1> DEFINE p == at \div 1460
             c == at \div 36524
             e == at \div 146096
             g == at - p + c - e
  <1>1. /\ p \in Nat /\ 1460 * p <= at /\ at < 1460 * p + 1460
        /\ c \in Nat /\ 36524 * c <= at /\ at < 36524 * c + 36524
        /\ e \in Nat /\ 146096 * e <= at /\ at < 146096 * e + 146096
    BY Quotients, SMT
  <1>2. YearOfEra(at) = g \div 365
    BY SMT DEF YearOfEra
  <1>3. at \in Nat /\ at <= 146096
    BY SMT DEF DaysOfEra
  <1> HIDE DEF p, c, e
  <1>4. g \in Nat
    <2>1. e <= c
      BY <1>1, <1>3, SMT
    <2>2. p <= at
      BY <1>1, <1>3, SMT
    <2> QED BY <1>1, <1>3, <2>1, <2>2, SMT
  <1> HIDE DEF g
  <1>5. g \div 365 \in Nat /\ 365 * (g \div 365) <= g /\ g < 365 * (g \div 365) + 365
    BY <1>4, SMT
  <1>6. /\ 365 * YearOfEra(at) <= g /\ g < 365 * YearOfEra(at) + 365
        /\ YearOfEra(at) \in Nat
    BY <1>2, <1>5, SMT
  <1> QED BY <1>6, SMT DEF g, p, c, e

\* A later day is not of an earlier year.
LEMMA YearsInOrder ==
    ASSUME NEW at \in DaysOfEra, NEW bt \in DaysOfEra, at < bt
    PROVE  YearOfEra(at) <= YearOfEra(bt)
  <1> DEFINE y == YearOfEra(at)
             z == YearOfEra(bt)
             p == at \div 1460
             q == bt \div 1460
             c == at \div 36524
             d == bt \div 36524
             e == at \div 146096
             f == bt \div 146096
  <1>1. /\ p \in Nat /\ 1460 * p <= at /\ at < 1460 * p + 1460
        /\ c \in Nat /\ 36524 * c <= at /\ at < 36524 * c + 36524
        /\ e \in Nat /\ 146096 * e <= at /\ at < 146096 * e + 146096
        /\ y \in Nat /\ 365 * y <= at - p + c - e
    BY Quotients, YearQuotient, SMT
  <1>2. /\ q \in Nat /\ 1460 * q <= bt /\ bt < 1460 * q + 1460
        /\ d \in Nat /\ 36524 * d <= bt /\ bt < 36524 * d + 36524
        /\ f \in Nat /\ 146096 * f <= bt /\ bt < 146096 * f + 146096
        /\ z \in Nat /\ bt - q + d - f < 365 * z + 365
    BY Quotients, YearQuotient, SMT
  <1>3. at \in Nat /\ at <= 146096 /\ bt \in Nat /\ bt <= 146096
    BY SMT DEF DaysOfEra
  <1> HIDE DEF y, z, p, q, c, d, e, f
  <1>4. at - p <= bt - q
    BY <1>1, <1>2, <1>3, SMT
  <1>5. c - e <= d - f
    <2>1. e = 0 /\ c <= 3
      BY <1>1, <1>3, SMT
    <2>2. c <= d
      BY <1>1, <1>2, <1>3, SMT
    <2>3. f = 0 \/ (f = 1 /\ d >= 4)
      BY <1>2, <1>3, SMT
    <2> QED BY <1>1, <1>2, <2>1, <2>2, <2>3, SMT
  <1>6. y <= z
    <2>1. at - p + c - e <= bt - q + d - f
      BY <1>1, <1>2, <1>3, <1>4, <1>5, SMT
    <2>2. 365 * y < 365 * z + 365
      BY <1>1, <1>2, <1>3, <2>1, SMT
    <2> QED BY <1>1, <1>2, <2>2, SMT
  <1> QED BY <1>6, SMT DEF y, z

\* A day lies in its year.
LEMMA DayLiesInYear ==
    ASSUME NEW at \in DaysOfEra
    PROVE  /\ YearOfEra(at) \in Nat /\ YearOfEra(at) <= 399
           /\ DayOfYear(at) \in Nat /\ DayOfYear(at) <= 365
  <1> DEFINE y == YearOfEra(at)
             h == y \div 100
             l == y \div 4
             p == at \div 1460
             c == at \div 36524
             e == at \div 146096
  <1>1. /\ p \in Nat /\ 1460 * p <= at /\ at < 1460 * p + 1460
        /\ c \in Nat /\ 36524 * c <= at /\ at < 36524 * c + 36524
        /\ e \in Nat /\ 146096 * e <= at /\ at < 146096 * e + 146096
        /\ y \in Nat /\ 365 * y <= at - p + c - e /\ at - p + c - e < 365 * y + 365
    BY Quotients, YearQuotient, SMT
  <1>2. DayOfYear(at) = at - (365 * y + l - h)
    <2>1. DayOfYear(at) = at - YearBegins(y)
      BY Zenon DEF DayOfYear
    <2>2. YearBegins(y) = 365 * y + l - h
      BY Zenon DEF YearBegins
    <2> QED BY <2>1, <2>2, Zenon
  <1>3. at \in Nat /\ at <= 146096
    BY SMT DEF DaysOfEra
  <1> HIDE DEF y, p, c, e
  <1>4. h \in Nat /\ l \in Nat
        /\ 100 * h <= y /\ y < 100 * h + 100 /\ 4 * l <= y /\ y < 4 * l + 4
    BY <1>1, SMT
  <1> HIDE DEF h, l
  <1>5. /\ y \in Nat /\ y <= 399
        /\ at - (365 * y + l - h) \in Nat /\ at - (365 * y + l - h) <= 365
    <2>1. CASE e >= 1
      <3>1. at = 146096 /\ e = 1 /\ p = 100 /\ c = 4
        BY <1>1, <1>3, <2>1, SMT
      <3>2. y = 399
        BY <1>1, <3>1, SMT
      <3>3. h = 3 /\ l = 99
        BY <1>4, <3>2, SMT
      <3> QED BY <3>1, <3>2, <3>3, SMT
    <2>2. CASE e = 0
      <3>1. c \in 0 .. 3
        BY <1>1, <1>3, <2>2, SMT
      <3>2. 100 * c <= y /\ y < 100 * c + 100
        <4>1. 36500 * c <= at - p + c
          BY <1>1, <1>3, <3>1, SMT
        <4>2. at - p + c < 36500 * c + 36500
          BY <1>1, <1>3, <2>2, <3>1, SMT
        <4> QED BY <1>1, <1>3, <2>2, <3>1, <4>1, <4>2, SMT
      <3>3. h = c
        <4>1. c \in Nat
          BY <3>1, SMT
        <4>2. 100 * h < 100 * c + 100 /\ 100 * c < 100 * h + 100
          BY <1>1, <1>4, <3>2, <4>1, SMT
        <4> QED BY <1>4, <4>1, <4>2, SMT
      <3>4. l <= p
        <4>1. c <= p
          BY <1>1, <1>3, <3>1, SMT
        <4>2. 1460 * l <= at - p + c
          BY <1>1, <1>3, <1>4, <2>2, <3>1, SMT
        <4> QED BY <1>1, <1>3, <1>4, <3>1, <4>1, <4>2, SMT
      <3>5. p <= l + 1
        <4>1. p <= 100
          BY <1>1, <1>3, SMT
        <4>2. at < 1460 * l + 1460 + p
          BY <1>1, <1>3, <1>4, <2>2, <3>1, SMT
        <4> QED BY <1>1, <1>3, <1>4, <3>1, <4>1, <4>2, SMT
      <3>6. y \in Nat /\ y <= 399
        BY <1>1, <3>1, <3>2, SMT
      <3>7. at - 365 * y + c \in Nat /\ p <= at - 365 * y + c /\ at - 365 * y + c <= p + 364
        BY <1>1, <1>3, <2>2, <3>1, SMT
      <3> QED BY <1>1, <1>3, <1>4, <3>1, <3>3, <3>4, <3>5, <3>6, <3>7, SMT
    <2> QED BY <1>1, <2>1, <2>2, SMT
  <1> QED BY <1>2, <1>5, SMT DEF y

\* Months are counted from March, and lie in order in the year.
LEMMA MonthsInOrder ==
    ASSUME NEW at \in Nat, NEW bt \in Nat, at <= 365, bt <= 365
    PROVE  /\ MonthOf(at) \in Nat /\ MonthOf(at) <= 11
           /\ at <= bt => MonthOf(at) <= MonthOf(bt)
           /\ MonthBegins(MonthOf(at)) \in Nat
  <1> DEFINE m == (5 * at + 2) \div 153
             n == (5 * bt + 2) \div 153
             a == 5 * at + 2
             b == 5 * bt + 2
  <1>1. a \in Nat /\ b \in Nat /\ a <= 1827 /\ b <= 1827 /\ (at <= bt => a <= b)
    BY SMT
  <1> HIDE DEF a, b
  <1>2. /\ a \div 153 \in Nat /\ 153 * (a \div 153) <= a /\ a < 153 * (a \div 153) + 153
        /\ b \div 153 \in Nat /\ 153 * (b \div 153) <= b /\ b < 153 * (b \div 153) + 153
    BY <1>1, SMT
  <1>3. m = a \div 153 /\ n = b \div 153
    BY SMT DEF a, b
  <1> HIDE DEF m, n
  <1>4. m \in Nat /\ m <= 11 /\ (at <= bt => m <= n)
    BY <1>1, <1>2, <1>3, SMT
  <1>5. (153 * m + 2) \div 5 \in Nat
    BY <1>4, SMT
  <1> QED BY <1>4, <1>5, SMT DEF m, n, MonthOf, MonthBegins

\* The name of a day, from the parts of its date.
CivilYear(day)  == YearOfEra(DayOfEra(day)) + Era(day) * 400
CivilDay(day)   == DayOfYear(DayOfEra(day))
CivilMonth(day) == MonthOf(CivilDay(day))

LEMMA CivilName ==
    ASSUME NEW day \in Nat
    PROVE  DailyName(day) =
             << CivilYear(day) + (IF (IF CivilMonth(day) < 10 THEN CivilMonth(day) + 3 ELSE CivilMonth(day) - 9) <= 2 THEN 1 ELSE 0),
                IF CivilMonth(day) < 10 THEN CivilMonth(day) + 3 ELSE CivilMonth(day) - 9,
                CivilDay(day) - MonthBegins(CivilMonth(day)) + 1 >>
  BY SMT DEF DailyName, CivilFromDays, CivilYear, CivilDay, CivilMonth, Era, DayOfEra, YearOfEra,
         DayOfYear, YearBegins, MonthOf, MonthBegins

\* A later day comes in a later year, or in the same year in a later month,
\* or in the same month later.
LEMMA DatesInOrder ==
    ASSUME NEW d \in Nat, NEW x \in Nat, d < x
    PROVE  /\ CivilYear(d) \in Nat /\ CivilYear(x) \in Nat
           /\ CivilDay(d) \in Nat /\ CivilDay(d) <= 365 /\ CivilDay(x) \in Nat /\ CivilDay(x) <= 365
           /\ CivilYear(d) <= CivilYear(x)
           /\ CivilYear(d) = CivilYear(x) => CivilDay(d) < CivilDay(x)
  <1> DEFINE y == YearOfEra(DayOfEra(d))
             z == YearOfEra(DayOfEra(x))
  <1>1. /\ Era(d) \in Nat /\ Era(x) \in Nat
        /\ DayOfEra(d) \in DaysOfEra /\ DayOfEra(x) \in DaysOfEra
        /\ Era(d) <= Era(x)
        /\ Era(d) = Era(x) => DayOfEra(d) < DayOfEra(x)
    BY ErasInOrder, SMT
  <1>2. y \in Nat /\ y <= 399 /\ z \in Nat /\ z <= 399 /\ CivilDay(d) \in Nat /\ CivilDay(d) <= 365 /\ CivilDay(x) \in Nat /\ CivilDay(x) <= 365
    BY <1>1, DayLiesInYear, SMT DEF CivilDay
  <1>3. Era(d) = Era(x) => y <= z
    BY <1>1, YearsInOrder, SMT
  <1>4. CivilYear(d) = y + Era(d) * 400 /\ CivilYear(x) = z + Era(x) * 400
    BY SMT DEF CivilYear
  <1>5. /\ CivilDay(d) = DayOfEra(d) - YearBegins(y)
        /\ CivilDay(x) = DayOfEra(x) - YearBegins(z)
    BY SMT DEF CivilDay, DayOfYear
  <1>6. y = z => YearBegins(y) = YearBegins(z)
    BY SMT
  <1>7. YearBegins(y) \in Int
    <2>1. \A i \in Nat : YearBegins(i) \in Int
      BY SMT DEF YearBegins
    <2> QED BY <1>2, <2>1, SMT
  <1> HIDE DEF y, z
  <1>8. Era(d) = Era(x) \/ Era(d) + 1 <= Era(x)
    BY <1>1, SMT
  <1>9. CASE Era(d) = Era(x)
    <2>1. CivilYear(d) = CivilYear(x) => y = z
      BY <1>1, <1>2, <1>4, <1>9, SMT
    <2>2. CivilYear(d) = CivilYear(x) => CivilDay(d) < CivilDay(x)
      BY <1>1, <1>2, <1>5, <1>6, <1>7, <1>9, <2>1, SMT DEF DaysOfEra
    <2> QED BY <1>1, <1>2, <1>3, <1>4, <1>9, <2>2, SMT
  <1>10. CASE Era(d) + 1 <= Era(x)
    <2>1. CivilYear(d) < CivilYear(x)
      BY <1>1, <1>2, <1>4, <1>10, SMT
    <2> QED BY <1>1, <1>2, <1>4, <2>1, SMT
  <1> QED BY <1>8, <1>9, <1>10, SMT

\* Names are ordered as the days they name.
LEMMA NamesInOrder ==
    ASSUME NEW d \in Nat, NEW x \in Nat, d < x
    PROVE  Before(DailyName(d), DailyName(x)) /\ ~Before(DailyName(x), DailyName(d))
  <1> DEFINE y == CivilYear(d)
             z == CivilYear(x)
             a == CivilDay(d)
             b == CivilDay(x)
             m == CivilMonth(d)
             n == CivilMonth(x)
             k == MonthBegins(m)
             l == MonthBegins(n)
  <1>1. /\ y \in Nat /\ z \in Nat /\ a \in Nat /\ a <= 365 /\ b \in Nat /\ b <= 365
        /\ y <= z /\ (y = z => a < b)
    BY DatesInOrder, SMT
  <1>2. m \in Nat /\ m <= 11 /\ n \in Nat /\ n <= 11 /\ (a <= b => m <= n) /\ k \in Nat /\ l \in Nat
    BY <1>1, MonthsInOrder, SMT DEF CivilMonth
  <1>3. m = n => k = l
    BY SMT
  <1> DEFINE dm == IF m < 10 THEN m + 3 ELSE m - 9
             xm == IF n < 10 THEN n + 3 ELSE n - 9
             dy == y + (IF dm <= 2 THEN 1 ELSE 0)
             xy == z + (IF xm <= 2 THEN 1 ELSE 0)
             dd == a - k + 1
             xd == b - l + 1
  <1>4. DailyName(d) = << dy, dm, dd >> /\ DailyName(x) = << xy, xm, xd >>
    BY CivilName, SMT
  <1> HIDE DEF y, z, a, b, m, n, k, l
  <1>5. dy \in Int /\ xy \in Int /\ dm \in Int /\ xm \in Int /\ dd \in Int /\ xd \in Int
    BY <1>1, <1>2, SMT
  <1>6. \/ dy < xy
        \/ dy = xy /\ dm < xm
        \/ dy = xy /\ dm = xm /\ dd < xd
    <2>1. y = z => (m < n \/ (m = n /\ dd < xd))
      BY <1>1, <1>2, <1>3, SMT
    <2> QED BY <1>1, <1>2, <2>1, SMT
  <1> HIDE DEF dm, xm, dy, xy, dd, xd
  <1> QED BY <1>4, <1>5, <1>6, SMT DEF Before
-----------------------------------------------------------------------------
(* The reload.                                                              *)

Applying == {"scopes", "servers", "table"}
Watchers == [at : WatcherPlaces, stamp : 0 .. MaxEdits + 1, read : Edits \cup {Absent}]

\* Nothing published is newer than what is published before it, nor than the
\* file.
PublishedInOrder ==
    table.at <= servers.at /\ servers.at <= scopes.at /\ scopes.at <= file.at /\ seen <= file.at

\* What a reload read is not older than its stamp, nor than what is in force,
\* and it is the file unless the file was written again.
ReadIsLate ==
    /\ watcher.at = "reading" => watcher.stamp <= file.at
    /\ watcher.at \in {"marking"} \cup Applying =>
          /\ watcher.read \in Edits
          /\ watcher.stamp <= watcher.read.at /\ scopes.at <= watcher.read.at /\ watcher.read.at <= file.at
          /\ watcher.read.at = file.at => watcher.read = file

\* How far the reload under way got.
ApplyGoesOn ==
    /\ watcher.at \in Applying => seen = watcher.stamp
    /\ watcher.at \in {"servers", "table"} => scopes = watcher.read
    /\ watcher.at = "table" => servers = watcher.read

\* A stamp that is the file's own was marked for a reload that is through.
NothingSkipped == watcher.at \notin Applying /\ seen = file.at => InForce

ReloadInv ==
    ReloadTypeOK /\ watcher \in Watchers /\ PublishedInOrder /\ ReadIsLate /\ ApplyGoesOn /\ NothingSkipped

LEMMA EditTypes ==
    /\ Edits = [at : 1 .. MaxEdits + 1, is : Contents]
    /\ MaxEdits \in Nat
    /\ \A edit \in Edits : edit.at \in 1 .. MaxEdits + 1 /\ edit.is \in Contents
  <1>1. \A edit : edit \in Edits <=> \E c \in Contents : edit \in [at : 1 .. MaxEdits + 1, is : {c}]
    BY Zenon DEF Edits, EditOf
  <1>2. Edits = [at : 1 .. MaxEdits + 1, is : Contents]
    <2>1. ASSUME NEW edit \in Edits PROVE edit \in [at : 1 .. MaxEdits + 1, is : Contents]
      <3>1. PICK c \in Contents : edit \in [at : 1 .. MaxEdits + 1, is : {c}]
        BY <1>1
      <3> QED
        BY <3>1
    <2>2. ASSUME NEW edit \in [at : 1 .. MaxEdits + 1, is : Contents] PROVE edit \in Edits
      <3>1. edit.is \in Contents /\ edit \in [at : 1 .. MaxEdits + 1, is : {edit.is}]
        OBVIOUS
      <3> QED
        BY <1>1, <3>1
    <2> QED
      BY <2>1, <2>2
  <1> QED
    BY <1>2, ReloadAssumption

LEMMA StampTypes ==
    ASSUME NEW edit \in Edits
    PROVE  /\ Stamp(edit) \in 0 .. MaxEdits + 1
           /\ Stamp(edit) <= edit.at
           /\ edit.is.loads => Stamp(edit) = edit.at
  <1>1. ~Missing.loads
    BY DEF Missing
  <1>2. edit.is.loads => edit.is # Missing
    BY <1>1
  <1> QED
    BY <1>2, EditTypes DEF Stamp, NoStamp

\* The steps a reload knows of.
Writes == \E content \in Contents : EditFile(content)
ReloadMoves ==
    \/ UNCHANGED reloadVars
    \/ Writes \/ HangUpSignal \/ Poll \/ Forced \/ TakeStamp \/ ReadText \/ MarkSeen
    \/ StoreScopes \/ StoreServers \/ StoreTable \/ StopWatching

LEMMA ReloadBegins == ReloadInit => ReloadInv
  <1> SUFFICES ASSUME ReloadInit PROVE ReloadInv
    OBVIOUS
  <1> DEFINE edit == [at |-> 1, is |-> Boot]
  <1>1. edit \in Edits /\ edit.at = 1
    BY ReloadAssumption, EditTypes
  <1>2. /\ file = edit /\ scopes = edit /\ servers = edit /\ table = edit
        /\ seen = 0 /\ hangup = FALSE /\ watcher = Asleep
    BY DEF ReloadInit, NoStamp
  <1>3. /\ watcher \in Watchers
        /\ watcher.at = "asleep" /\ watcher.read = Absent
    BY <1>2, EditTypes DEF Asleep, NoStamp, Watchers, WatcherPlaces
  <1> HIDE DEF edit
  <1>4. ReloadTypeOK
    <2>1. seen \in 0 .. MaxEdits + 1 /\ hangup \in BOOLEAN
      <3>1. seen = 0 /\ hangup \in BOOLEAN
        BY <1>2, Zenon
      <3>2. MaxEdits \in Nat
        BY EditTypes
      <3> QED
        BY <3>1, <3>2
    <2>2. file \in Edits /\ scopes \in Edits /\ servers \in Edits /\ table \in Edits
      BY <1>1, <1>2
    <2>3. watcher.at \in WatcherPlaces /\ watcher.read \in Edits \cup {Absent}
      BY <1>3 DEF WatcherPlaces
    <2> QED
      BY <2>1, <2>2, <2>3 DEF ReloadTypeOK
  <1>5. PublishedInOrder
    BY <1>1, <1>2 DEF PublishedInOrder
  <1>6. ReadIsLate /\ ApplyGoesOn
    BY <1>3 DEF ReadIsLate, ApplyGoesOn, Applying
  <1>7. NothingSkipped
    BY <1>1, <1>2 DEF NothingSkipped, InForce
  <1> QED
    BY <1>3, <1>4, <1>5, <1>6, <1>7 DEF ReloadInv

LEMMA ReloadGoesOn ==
    ASSUME ReloadInv, ReloadMoves
    PROVE  ReloadInv'
  <1>1. /\ file \in Edits /\ scopes \in Edits /\ servers \in Edits /\ table \in Edits
        /\ seen \in 0 .. MaxEdits + 1 /\ hangup \in BOOLEAN /\ watcher \in Watchers
        /\ PublishedInOrder /\ ReadIsLate /\ ApplyGoesOn /\ NothingSkipped
    BY DEF ReloadInv, ReloadTypeOK
  <1>2. /\ file.at \in Nat /\ scopes.at \in Nat /\ servers.at \in Nat /\ table.at \in Nat
        /\ file.at <= MaxEdits + 1 /\ MaxEdits \in Nat
    BY <1>1, EditTypes
  <1>3. /\ watcher.at \in WatcherPlaces /\ watcher.stamp \in 0 .. MaxEdits + 1
        /\ watcher.read \in Edits \cup {Absent}
    BY <1>1 DEF Watchers
  <1>4. /\ Stamp(file) \in 0 .. MaxEdits + 1 /\ Stamp(file) <= file.at
        /\ file.is.loads => Stamp(file) = file.at
    BY <1>1, StampTypes
  <1>5. ASSUME UNCHANGED reloadVars PROVE ReloadInv'
    BY <1>5 DEF ReloadInv, ReloadTypeOK, PublishedInOrder, ReadIsLate, ApplyGoesOn, NothingSkipped,
                InForce, reloadVars
  <1>6. ASSUME Writes PROVE ReloadInv'
    <2>1. PICK content \in Contents : EditFile(content)
      BY <1>6 DEF Writes
    <2>2. /\ file' = [at |-> file.at + 1, is |-> content] /\ file.at <= MaxEdits
          /\ UNCHANGED << seen, hangup, watcher, scopes, servers, table >>
      BY <2>1 DEF EditFile, published
    <2>3. file' \in Edits /\ file'.at = file.at + 1
      BY <1>2, <2>2, EditTypes
    <2>4. ReloadTypeOK' /\ watcher' \in Watchers
      BY <1>1, <1>3, <2>2, <2>3 DEF ReloadTypeOK
    <2>5. PublishedInOrder'
      BY <1>1, <1>2, <2>2, <2>3 DEF PublishedInOrder
    <2>6. ReadIsLate'
      BY <1>1, <1>2, <1>3, <2>2, <2>3, EditTypes DEF ReadIsLate, Applying
    <2>7. ApplyGoesOn'
      BY <1>1, <2>2 DEF ApplyGoesOn
    <2>8. NothingSkipped'
      BY <1>1, <1>2, <2>2, <2>3 DEF NothingSkipped, PublishedInOrder
    <2> QED
      BY <2>4, <2>5, <2>6, <2>7, <2>8 DEF ReloadInv
  <1>7. ASSUME HangUpSignal \/ Poll \/ Forced \/ StopWatching PROVE ReloadInv'
    <2>1. /\ UNCHANGED << file, seen, scopes, servers, table >>
          /\ hangup' \in BOOLEAN
          /\ \/ watcher' = watcher
             \/ /\ watcher.at = "asleep"
                /\ \E place \in {"woken", "stopped"} : watcher' = [watcher EXCEPT !.at = place]
      BY <1>1, <1>7 DEF HangUpSignal, Poll, Forced, StopWatching, published
    <2>2. CASE watcher' = watcher
      BY <1>1, <1>3, <2>1, <2>2 DEF ReloadInv, ReloadTypeOK, PublishedInOrder, ReadIsLate, ApplyGoesOn,
                                   NothingSkipped, InForce
    <2>3. ASSUME NEW place \in {"woken", "stopped"}, watcher' = [watcher EXCEPT !.at = place],
                 watcher.at = "asleep"
          PROVE  ReloadInv'
      <3>1. watcher' \in Watchers /\ watcher'.at = place /\ watcher'.read = watcher.read
        BY <1>1, <2>3 DEF Watchers, WatcherPlaces
      <3>2. ReloadTypeOK'
        BY <1>1, <1>3, <2>1, <3>1 DEF ReloadTypeOK, WatcherPlaces
      <3>3. PublishedInOrder' /\ ReadIsLate' /\ ApplyGoesOn' /\ NothingSkipped'
        BY <1>1, <2>1, <2>3, <3>1 DEF PublishedInOrder, ReadIsLate, ApplyGoesOn, NothingSkipped, InForce, Applying
      <3> QED
        BY <3>1, <3>2, <3>3 DEF ReloadInv
    <2> QED
      BY <2>1, <2>2, <2>3
  <1>8. ASSUME TakeStamp PROVE ReloadInv'
    <2>1. /\ watcher' = [watcher EXCEPT !.at = "reading", !.stamp = Stamp(file)]
          /\ watcher.at = "woken"
          /\ UNCHANGED << file, seen, hangup, scopes, servers, table >>
      BY <1>8 DEF TakeStamp, published
    <2>2. watcher' \in Watchers /\ watcher'.at = "reading" /\ watcher'.stamp = Stamp(file)
          /\ watcher'.read = watcher.read
      BY <1>1, <1>4, <2>1 DEF Watchers, WatcherPlaces
    <2>3. ReloadTypeOK'
      BY <1>1, <1>3, <2>1, <2>2 DEF ReloadTypeOK, WatcherPlaces
    <2>4. PublishedInOrder' /\ ReadIsLate' /\ ApplyGoesOn' /\ NothingSkipped'
      BY <1>1, <1>4, <2>1, <2>2 DEF PublishedInOrder, ReadIsLate, ApplyGoesOn, NothingSkipped, InForce, Applying
    <2> QED
      BY <2>2, <2>3, <2>4 DEF ReloadInv
  <1>9. ASSUME ReadText PROVE ReloadInv'
    <2>1. /\ watcher' = [watcher EXCEPT !.at = "marking", !.read = file]
          /\ watcher.at = "reading"
          /\ UNCHANGED << file, seen, hangup, scopes, servers, table >>
      BY <1>9 DEF ReadText, published
    <2>2. watcher' \in Watchers /\ watcher'.at = "marking" /\ watcher'.stamp = watcher.stamp
          /\ watcher'.read = file
      BY <1>1, <2>1 DEF Watchers, WatcherPlaces
    <2>3. ReloadTypeOK'
      BY <1>1, <1>3, <2>1, <2>2 DEF ReloadTypeOK, WatcherPlaces
    <2>4. PublishedInOrder' /\ ReadIsLate' /\ ApplyGoesOn' /\ NothingSkipped'
      BY <1>1, <1>2, <2>1, <2>2 DEF PublishedInOrder, ReadIsLate, ApplyGoesOn, NothingSkipped, InForce, Applying
    <2> QED
      BY <2>2, <2>3, <2>4 DEF ReloadInv
  <1>10. ASSUME MarkSeen PROVE ReloadInv'
    <2>1. /\ watcher.at = "marking" /\ seen' = watcher.stamp
          /\ watcher' = IF watcher.read.is.loads THEN [watcher EXCEPT !.at = "scopes"] ELSE Asleep
          /\ UNCHANGED << file, hangup, scopes, servers, table >>
      BY <1>10 DEF MarkSeen, Marked, published
    <2>2. /\ watcher.read \in Edits /\ watcher.stamp <= watcher.read.at /\ scopes.at <= watcher.read.at
          /\ watcher.read.at <= file.at /\ (watcher.read.at = file.at => watcher.read = file)
          /\ watcher.read.at \in Nat
      BY <1>1, <2>1, EditTypes DEF ReadIsLate
    <2>3. PublishedInOrder'
      BY <1>1, <1>2, <1>3, <2>1, <2>2 DEF PublishedInOrder
    <2>4. CASE watcher.read.is.loads
      <3>1. watcher' \in Watchers /\ watcher'.at = "scopes" /\ watcher'.stamp = watcher.stamp
            /\ watcher'.read = watcher.read
        BY <1>1, <2>1, <2>4 DEF Watchers, WatcherPlaces
      <3>2. ReloadTypeOK'
        BY <1>1, <1>3, <2>1, <3>1 DEF ReloadTypeOK, WatcherPlaces
      <3>3. ReadIsLate' /\ ApplyGoesOn' /\ NothingSkipped'
        BY <1>1, <2>1, <2>2, <3>1 DEF ReadIsLate, ApplyGoesOn, NothingSkipped, Applying
      <3> QED
        BY <2>3, <3>1, <3>2, <3>3 DEF ReloadInv
    <2>5. CASE ~watcher.read.is.loads
      <3>1. watcher' \in Watchers /\ watcher'.at = "asleep" /\ watcher'.read = Absent
        BY <1>2, <2>1, <2>5 DEF Asleep, NoStamp, Watchers, WatcherPlaces
      <3>2. ReloadTypeOK'
        BY <1>1, <1>3, <2>1, <3>1 DEF ReloadTypeOK, WatcherPlaces
      <3>3. ReadIsLate' /\ ApplyGoesOn'
        BY <3>1 DEF ReadIsLate, ApplyGoesOn, Applying
      <3>4. seen' = file'.at => ~file'.is.loads
        BY <1>2, <1>3, <2>1, <2>2, <2>5
      <3>5. NothingSkipped'
        BY <3>4 DEF NothingSkipped, InForce
      <3> QED
        BY <2>3, <3>1, <3>2, <3>3, <3>5 DEF ReloadInv
    <2> QED
      BY <2>4, <2>5
  <1>11. ASSUME StoreScopes PROVE ReloadInv'
    <2>1. /\ watcher.at = "scopes" /\ scopes' = watcher.read
          /\ watcher' = [watcher EXCEPT !.at = "servers"]
          /\ UNCHANGED << file, seen, hangup, servers, table >>
      BY <1>11 DEF StoreScopes
    <2>2. /\ watcher.read \in Edits /\ scopes.at <= watcher.read.at
          /\ watcher.stamp <= watcher.read.at
          /\ watcher.read.at <= file.at /\ (watcher.read.at = file.at => watcher.read = file)
          /\ watcher.read.at \in Nat /\ seen = watcher.stamp
      BY <1>1, <2>1, EditTypes DEF ReadIsLate, ApplyGoesOn, Applying
    <2>3. watcher' \in Watchers /\ watcher'.at = "servers" /\ watcher'.stamp = watcher.stamp
          /\ watcher'.read = watcher.read
      BY <1>1, <2>1 DEF Watchers, WatcherPlaces
    <2>4. ReloadTypeOK'
      BY <1>1, <1>3, <2>1, <2>2, <2>3 DEF ReloadTypeOK, WatcherPlaces
    <2>5. PublishedInOrder'
      BY <1>1, <1>2, <2>1, <2>2 DEF PublishedInOrder
    <2>6. ReadIsLate' /\ ApplyGoesOn' /\ NothingSkipped'
      BY <2>1, <2>2, <2>3 DEF ReadIsLate, ApplyGoesOn, NothingSkipped, Applying
    <2> QED
      BY <2>3, <2>4, <2>5, <2>6 DEF ReloadInv
  <1>12. ASSUME StoreServers PROVE ReloadInv'
    <2>1. /\ watcher.at = "servers" /\ servers' = watcher.read
          /\ watcher' = [watcher EXCEPT !.at = "table"]
          /\ UNCHANGED << file, seen, hangup, scopes, table >>
      BY <1>12 DEF StoreServers
    <2>2. /\ watcher.read \in Edits /\ scopes = watcher.read
          /\ watcher.stamp <= watcher.read.at
          /\ watcher.read.at <= file.at /\ (watcher.read.at = file.at => watcher.read = file)
          /\ watcher.read.at \in Nat /\ seen = watcher.stamp
      BY <1>1, <2>1, EditTypes DEF ReadIsLate, ApplyGoesOn, Applying
    <2>3. watcher' \in Watchers /\ watcher'.at = "table" /\ watcher'.stamp = watcher.stamp
          /\ watcher'.read = watcher.read
      BY <1>1, <2>1 DEF Watchers, WatcherPlaces
    <2>4. ReloadTypeOK'
      BY <1>1, <1>3, <2>1, <2>2, <2>3 DEF ReloadTypeOK, WatcherPlaces
    <2>5. PublishedInOrder'
      BY <1>1, <1>2, <2>1, <2>2 DEF PublishedInOrder
    <2>6. ReadIsLate' /\ ApplyGoesOn' /\ NothingSkipped'
      BY <2>1, <2>2, <2>3 DEF ReadIsLate, ApplyGoesOn, NothingSkipped, Applying
    <2> QED
      BY <2>3, <2>4, <2>5, <2>6 DEF ReloadInv
  <1>13. ASSUME StoreTable PROVE ReloadInv'
    <2>1. /\ watcher.at = "table" /\ table' = watcher.read
          /\ watcher' = Asleep
          /\ UNCHANGED << file, seen, hangup, scopes, servers >>
      BY <1>13 DEF StoreTable
    <2>2. /\ watcher.read \in Edits /\ scopes = watcher.read /\ servers = watcher.read
          /\ watcher.stamp <= watcher.read.at
          /\ watcher.read.at <= file.at /\ (watcher.read.at = file.at => watcher.read = file)
          /\ watcher.read.at \in Nat /\ seen = watcher.stamp
      BY <1>1, <2>1, EditTypes DEF ReadIsLate, ApplyGoesOn, Applying
    <2>3. watcher' \in Watchers /\ watcher'.at = "asleep" /\ watcher'.read = Absent
      BY <1>2, <2>1 DEF Asleep, NoStamp, Watchers, WatcherPlaces
    <2>4. ReloadTypeOK'
      BY <1>1, <1>3, <2>1, <2>2, <2>3 DEF ReloadTypeOK, WatcherPlaces
    <2>5. PublishedInOrder'
      BY <1>1, <1>2, <2>1, <2>2 DEF PublishedInOrder
    <2>6. ReadIsLate' /\ ApplyGoesOn'
      BY <2>3 DEF ReadIsLate, ApplyGoesOn, Applying
    <2>7. NothingSkipped'
      BY <1>2, <1>3, <2>1, <2>2 DEF NothingSkipped, InForce
    <2> QED
      BY <2>3, <2>4, <2>5, <2>6, <2>7 DEF ReloadInv
  <1> QED
    BY <1>5, <1>6, <1>7, <1>8, <1>9, <1>10, <1>11, <1>12, <1>13 DEF ReloadMoves

\* What is in force is only replaced by what is not older.
LEMMA ReloadGrows ==
    ASSUME ReloadInv, ReloadMoves
    PROVE  table.at <= table'.at /\ servers.at <= servers'.at
  <1>1. /\ table \in Edits /\ servers \in Edits /\ scopes \in Edits
        /\ PublishedInOrder /\ ReadIsLate /\ ApplyGoesOn
    BY DEF ReloadInv, ReloadTypeOK
  <1>2. table.at \in Nat /\ servers.at \in Nat /\ scopes.at \in Nat
    BY <1>1, EditTypes
  <1>3. ASSUME UNCHANGED << servers, table >> PROVE table.at <= table'.at /\ servers.at <= servers'.at
    BY <1>2, <1>3
  <1>4. ASSUME StoreServers PROVE table.at <= table'.at /\ servers.at <= servers'.at
    BY <1>1, <1>2, <1>4 DEF StoreServers, PublishedInOrder, ApplyGoesOn
  <1>5. ASSUME StoreTable PROVE table.at <= table'.at /\ servers.at <= servers'.at
    BY <1>1, <1>2, <1>5 DEF StoreTable, PublishedInOrder, ApplyGoesOn
  <1> QED
    BY <1>3, <1>4, <1>5 DEF ReloadMoves, reloadVars, published, Writes, EditFile, HangUpSignal, Poll, Forced,
                            TakeStamp, ReadText, MarkSeen, StoreScopes, StopWatching

-----------------------------------------------------------------------------
(* Requests: where each may be, and what one step makes of it.              *)

RequestFields == {"at", "table", "servers", "scopes", "tools", "cursor", "followed", "pages", "record", "status"}
Unread == {"never", "new", "rejected", "refusal", "refusal scope", "acquire", "calling"}
LoggedPlaces == {"filter", "filter scope", "answered"}
RequestPlaces == Unread \cup LoggedPlaces \cup {"append", "gone"}

RequestShape ==
    /\ DOMAIN req = Requests
    /\ \A r \in Requests : DOMAIN req[r] = RequestFields /\ req[r].at \in RequestPlaces

OthersStay(r) ==
    /\ DOMAIN req' = Requests /\ DOMAIN req'[r] = RequestFields
    /\ \A q \in Requests \ {r} : req'[q] = req[q]
IsNow(r, at, in, theServers, theScopes, followed, pages, record) ==
    /\ req'[r].at = at /\ req'[r].table = in /\ req'[r].servers = theServers /\ req'[r].scopes = theScopes
    /\ req'[r].followed = followed /\ req'[r].pages = pages /\ req'[r].record = record
Stays(r, at) ==
    IsNow(r, at, req[r].table, req[r].servers, req[r].scopes, req[r].followed, req[r].pages, req[r].record)

LEMMA MoveDoes ==
    ASSUME RequestShape, NEW r \in Requests, NEW to, DOMAIN to = RequestFields, Move(r, to)
    PROVE  OthersStay(r) /\ req'[r] = to
  BY DEF RequestShape, Move, OthersStay

LEMMA GoDoes ==
    ASSUME RequestShape, NEW r \in Requests, NEW place, Go(r, place)
    PROVE  OthersStay(r) /\ Stays(r, place)
  <1> DEFINE to == [req[r] EXCEPT !.at = place]
  <1>1. DOMAIN to = RequestFields
    BY DEF RequestShape
  <1>2. OthersStay(r) /\ req'[r] = to
    BY <1>1, MoveDoes DEF Go
  <1> QED
    BY <1>2 DEF RequestShape, RequestFields, Stays, IsNow

LEMMA FinishDoes ==
    ASSUME RequestShape, NEW r \in Requests, NEW place, NEW record, Finish(r, place, record)
    PROVE  OthersStay(r) /\ IsNow(r, place, req[r].table, req[r].servers, req[r].scopes, req[r].followed, req[r].pages, record)
  <1> DEFINE to == [req[r] EXCEPT !.at = place, !.record = record]
  <1>1. DOMAIN to = RequestFields
    BY DEF RequestShape
  <1>2. OthersStay(r) /\ req'[r] = to
    BY <1>1, MoveDoes DEF Finish
  <1> QED
    BY <1>2 DEF RequestShape, RequestFields, IsNow

LEMMA RejectDoes ==
    ASSUME RequestShape, NEW r \in Requests, NEW status, Reject(r, status)
    PROVE  OthersStay(r) /\ Stays(r, "rejected")
  <1> DEFINE to == [req[r] EXCEPT !.at = "rejected", !.status = status]
  <1>1. DOMAIN to = RequestFields
    BY DEF RequestShape
  <1>2. OthersStay(r) /\ req'[r] = to
    BY <1>1, MoveDoes DEF Reject
  <1> QED
    BY <1>2 DEF RequestShape, RequestFields, Stays, IsNow

\* A request is turned away, or handed to the endpoint of the table.
LEMMA ArriveDoes ==
    ASSUME RequestShape, NEW r \in Requests, Arrive(r)
    PROVE  /\ OthersStay(r) /\ serving = "yes" /\ req[r].at = "new"
           /\ \/ Stays(r, "rejected")
              \/ \E place \in {"refusal", "acquire", "answered"} :
                    /\ IsNow(r, place, table.at, req[r].servers, req[r].scopes, req[r].followed, req[r].pages, req[r].record)
                    /\ place = "refusal" <=> Asks[r].family = "call"
  <1>1. serving = "yes" /\ req[r].at = "new" /\ Dispatched(r)
    BY DEF Arrive
  <1> DEFINE place == IF Asks[r].family = "call" THEN "refusal"
                      ELSE IF Asks[r].family = "list" /\ Asks[r].cursor THEN "answered" ELSE "acquire"
             to == [req[r] EXCEPT !.table = table.at, !.at = place]
  <1>2. \/ \E status \in {"403", "probe answered", "401", "no tools here", "404"} : Reject(r, status)
        \/ Move(r, to)
    BY <1>1, Zenon DEF Dispatched
  <1>3. ASSUME NEW status, Reject(r, status) PROVE OthersStay(r) /\ Stays(r, "rejected")
    BY <1>3, RejectDoes
  <1>4. ASSUME Move(r, to)
        PROVE  /\ OthersStay(r)
               /\ IsNow(r, place, table.at, req[r].servers, req[r].scopes, req[r].followed, req[r].pages, req[r].record)
    <2>1. DOMAIN to = RequestFields
      BY DEF RequestShape
    <2> HIDE DEF place
    <2>2. OthersStay(r) /\ req'[r] = to
      BY <1>4, <2>1, MoveDoes
    <2> QED
      BY <2>2 DEF RequestShape, RequestFields, IsNow
  <1>5. place \in {"refusal", "acquire", "answered"} /\ (place = "refusal" <=> Asks[r].family = "call")
    OBVIOUS
  <1> HIDE DEF place, to
  <1> QED
    BY <1>1, <1>2, <1>3, <1>4, <1>5

LEMMA ReadServerDoes ==
    ASSUME RequestShape, NEW r \in Requests, ReadServer(r)
    PROVE  /\ OthersStay(r)
           /\ \E place \in {"refusal scope", "filter scope"} :
                 /\ req[r].at = (IF place = "filter scope" THEN "filter" ELSE "refusal")
                 /\ IsNow(r, place, req[r].table, servers, req[r].scopes, req[r].followed, req[r].pages, req[r].record)
  <1> DEFINE place == IF req[r].at = "filter" THEN "filter scope" ELSE "refusal scope"
             to == [req[r] EXCEPT !.servers = servers, !.at = place]
  <1>1. req[r].at \in {"refusal", "filter"} /\ Move(r, to)
    BY DEF ReadServer, RequestShape, RequestFields
  <1>2. DOMAIN to = RequestFields
    BY DEF RequestShape
  <1>3. OthersStay(r) /\ req'[r] = to
    BY <1>1, <1>2, MoveDoes
  <1>4. place \in {"refusal scope", "filter scope"} /\ req[r].at = (IF place = "filter scope" THEN "filter" ELSE "refusal")
    BY <1>1
  <1> HIDE DEF place
  <1>5. IsNow(r, place, req[r].table, servers, req[r].scopes, req[r].followed, req[r].pages, req[r].record)
    BY <1>3 DEF RequestShape, RequestFields, IsNow
  <1> QED
    BY <1>3, <1>4, <1>5

\* A refused call is recorded, the others go on to the upstream.
LEMMA JudgeCallDoes ==
    ASSUME RequestShape, NEW r \in Requests, JudgeCall(r)
    PROVE  /\ OthersStay(r) /\ req[r].at = "refusal scope"
           /\ \/ IsNow(r, "acquire", req[r].table, req[r].servers, scopes, req[r].followed, req[r].pages, req[r].record)
              \/ \E kind \in {"denied", "throttled"} :
                    IsNow(r, "append", req[r].table, req[r].servers, scopes, req[r].followed, req[r].pages,
                          Record(r, kind, FALSE, NoText, NoText, Asks[r].error))
  <1> DEFINE judged == [req[r] EXCEPT !.scopes = scopes]
             on == [judged EXCEPT !.at = "acquire"]
             off(kind) == [judged EXCEPT !.at = "append",
                              !.record = Record(r, kind, FALSE, NoText, NoText, Asks[r].error)]
  <1>1. req[r].at = "refusal scope" /\ (Move(r, on) \/ \E kind \in {"denied", "throttled"} : Move(r, off(kind)))
    BY DEF JudgeCall
  <1>2. ASSUME Move(r, on)
        PROVE  /\ OthersStay(r)
               /\ IsNow(r, "acquire", req[r].table, req[r].servers, scopes, req[r].followed, req[r].pages, req[r].record)
    <2>1. DOMAIN on = RequestFields
      BY DEF RequestShape
    <2>2. OthersStay(r) /\ req'[r] = on
      BY <1>2, <2>1, MoveDoes
    <2> QED
      BY <2>2 DEF RequestShape, RequestFields, IsNow
  <1>3. ASSUME NEW kind \in {"denied", "throttled"}, Move(r, off(kind))
        PROVE  /\ OthersStay(r)
               /\ IsNow(r, "append", req[r].table, req[r].servers, scopes, req[r].followed, req[r].pages,
                        Record(r, kind, FALSE, NoText, NoText, Asks[r].error))
    <2>1. DOMAIN off(kind) = RequestFields
      BY DEF RequestShape
    <2>2. OthersStay(r) /\ req'[r] = off(kind)
      BY <1>3, <2>1, MoveDoes
    <2> QED
      BY <2>2 DEF RequestShape, RequestFields, IsNow
  <1> HIDE DEF judged, on, off
  <1> QED
    BY <1>1, <1>2, <1>3

LEMMA AcquireDoes ==
    ASSUME RequestShape, NEW r \in Requests, Acquire(r)
    PROVE  /\ OthersStay(r) /\ req[r].at = "acquire"
           /\ \/ Stays(r, "calling")
              \/ IsNow(r, "append", req[r].table, req[r].servers, req[r].scopes, req[r].followed, req[r].pages, Failed(r))
  BY GoDoes, FinishDoes DEF Acquire

\* The walk goes on to a page not asked for yet, or ends with what it has.
LEMMA AnswerPageDoes ==
    ASSUME RequestShape, NEW r \in Requests, AnswerPage(r)
    PROVE  /\ OthersStay(r) /\ req[r].at = "calling"
           /\ \/ IsNow(r, "append", req[r].table, req[r].servers, req[r].scopes, req[r].followed, req[r].pages + 1,
                       Record(r, KindOf(r), TRUE, NoText, NoText, NoText))
              \/ \E next : /\ next \notin req[r].followed /\ ~(req[r].pages + 1 >= MaxToolPages)
                           /\ IsNow(r, "calling", req[r].table, req[r].servers, req[r].scopes,
                                    req[r].followed \cup {next}, req[r].pages + 1, req[r].record)
  <1> DEFINE page == Pages[req[r].cursor]
             more == [req[r] EXCEPT !.tools = @ \o page.tools, !.pages = @ + 1]
             end == [more EXCEPT !.at = "append", !.record = Record(r, KindOf(r), TRUE, NoText, NoText, NoText)]
             on == [more EXCEPT !.cursor = page.next, !.followed = @ \cup {page.next}]
  <1>1. /\ req[r].at = "calling"
        /\ IF WalkStops(r, page) THEN Move(r, end) ELSE Move(r, on)
    BY DEF AnswerPage
  <1>2. DOMAIN end = RequestFields /\ DOMAIN on = RequestFields
    BY DEF RequestShape
  <1>3. CASE WalkStops(r, page)
    <2>1. OthersStay(r) /\ req'[r] = end
      <3> HIDE DEF end
      <3> QED
        BY <1>1, <1>2, <1>3, MoveDoes
    <2> QED
      BY <1>1, <2>1 DEF RequestShape, RequestFields, IsNow
  <1>4. CASE ~WalkStops(r, page)
    <2>1. OthersStay(r) /\ req'[r] = on
      <3> HIDE DEF on
      <3> QED
        BY <1>1, <1>2, <1>4, MoveDoes
    <2>2. IsNow(r, "calling", req[r].table, req[r].servers, req[r].scopes,
                req[r].followed \cup {page.next}, req[r].pages + 1, req[r].record)
      BY <1>1, <2>1 DEF RequestShape, RequestFields, IsNow
    <2>3. page.next \notin req[r].followed /\ ~(req[r].pages + 1 >= MaxToolPages)
      BY <1>4 DEF WalkStops
    <2> HIDE DEF page
    <2> QED
      BY <1>1, <2>1, <2>2, <2>3
  <1> QED
    BY <1>3, <1>4

LEMMA AnswerCallDoes ==
    ASSUME RequestShape, NEW r \in Requests, AnswerCall(r)
    PROVE  /\ OthersStay(r) /\ req[r].at = "calling"
           /\ IsNow(r, "append", req[r].table, req[r].servers, req[r].scopes, req[r].followed, req[r].pages,
                    Record(r, KindOf(r), TRUE, Asks[r].args, Asks[r].response, NoText))
  BY FinishDoes DEF AnswerCall

LEMMA FailCallDoes ==
    ASSUME RequestShape, NEW r \in Requests, FailCall(r)
    PROVE  /\ OthersStay(r) /\ req[r].at = "calling"
           /\ IsNow(r, "append", req[r].table, req[r].servers, req[r].scopes, req[r].followed, req[r].pages, Failed(r))
  BY FinishDoes DEF FailCall

LEMMA ClientGoneDoes ==
    ASSUME RequestShape, NEW r \in Requests, ClientGone(r)
    PROVE  OthersStay(r) /\ req[r].at = "calling" /\ Stays(r, "gone")
  BY GoDoes DEF ClientGone

LEMMA RecordedDoes ==
    ASSUME RequestShape, NEW r \in Requests, Recorded(r)
    PROVE  /\ OthersStay(r) /\ req[r].at = "append" /\ AppendRecord(req[r].record)
           /\ \E place \in {"filter", "answered"} :
                 Stays(r, place) /\ (place = "filter" => Asks[r].family = "list")
  <1>1. req[r].at = "append" /\ AppendRecord(req[r].record) /\ Go(r, AfterRecord(r))
    BY DEF Recorded
  <1>2. AfterRecord(r) \in {"filter", "answered"} /\ (AfterRecord(r) = "filter" => Asks[r].family = "list")
    BY DEF AfterRecord
  <1> QED
    BY <1>1, <1>2, GoDoes

LEMMA FilterListDoes ==
    ASSUME RequestShape, NEW r \in Requests, FilterList(r)
    PROVE  /\ OthersStay(r) /\ req[r].at = "filter scope"
           /\ IsNow(r, "answered", req[r].table, req[r].servers, scopes, req[r].followed, req[r].pages, req[r].record)
  <1> DEFINE visible == SelectSeq(req[r].tools, LAMBDA t : Visible(r, t, scopes))
             to == [req[r] EXCEPT !.at = "answered", !.scopes = scopes, !.tools = visible]
  <1>1. req[r].at = "filter scope" /\ Move(r, to)
    BY DEF FilterList
  <1> HIDE DEF visible
  <1>2. DOMAIN to = RequestFields
    BY DEF RequestShape
  <1>3. OthersStay(r) /\ req'[r] = to
    BY <1>1, <1>2, MoveDoes
  <1> QED
    BY <1>1, <1>3 DEF RequestShape, RequestFields, IsNow

\* The order in which what judges a request was loaded.
Loaded(r) ==
    /\ req[r].table \in Nat /\ req[r].table <= table.at
    /\ req[r].servers \in Edits \cup {Absent} /\ req[r].scopes \in Edits \cup {Absent}
InOrder(r) ==
    /\ req[r].at \in {"refusal scope", "filter scope"} =>
          /\ req[r].servers \in Edits
          /\ req[r].table <= req[r].servers.at /\ req[r].servers.at <= servers.at
    /\ req[r].scopes # Absent =>
          /\ req[r].servers \in Edits /\ req[r].scopes \in Edits
          /\ req[r].table <= req[r].servers.at /\ req[r].servers.at <= req[r].scopes.at
\* No request is judged before its time, nor twice.
Unjudged(r) ==
    /\ req[r].at \in {"never", "new", "refusal", "refusal scope", "filter", "filter scope"} => req[r].scopes = Absent
    /\ Asks[r].family # "call" /\ req[r].at \in {"acquire", "calling", "append"} => req[r].scopes = Absent
    /\ req[r].at \in {"filter", "filter scope"} => Asks[r].family = "list"
    /\ req[r].at \in {"refusal", "refusal scope"} => Asks[r].family = "call"
Judging(r) == Loaded(r) /\ InOrder(r) /\ Unjudged(r)

\* How far the walk over the pages of a list got.
Walking(r) ==
    /\ IsFiniteSet(req[r].followed) /\ req[r].pages \in Nat
    /\ req[r].pages <= MaxToolPages /\ req[r].pages <= Cardinality(req[r].followed) + 1
    /\ req[r].at \in Unread => req[r].pages < MaxToolPages /\ req[r].pages <= Cardinality(req[r].followed)

RequestInv == RequestShape /\ \A r \in Requests : Judging(r) /\ Walking(r)

LEMMA RequestsBegin ==
    ASSUME ReloadInit, PipeInit
    PROVE  RequestInv
  <1>1. PICK w \in Workloads :
           req = [r \in Requests |-> IF r \in w.requests THEN Unasked ELSE [Unasked EXCEPT !.at = "never"]]
    BY DEF PipeInit
  <1>2. /\ table.at = 1
        /\ table \in Edits
    BY ReloadBegins DEF ReloadInit, ReloadInv, ReloadTypeOK
  <1>3. RequestShape
    BY <1>1 DEF RequestShape, RequestFields, RequestPlaces, Unread, Unasked
  <1>4. ASSUME NEW r \in Requests PROVE Judging(r) /\ Walking(r)
    <2>1. /\ req[r].at \in {"new", "never"} /\ req[r].table = 0 /\ req[r].servers = Absent /\ req[r].scopes = Absent
          /\ req[r].followed = {} /\ req[r].pages = 0
      BY <1>1, <1>4 DEF Unasked
    <2>2. Judging(r)
      <3>1. Loaded(r)
        BY <1>2, <2>1 DEF Judging, Loaded, InOrder, Unjudged
      <3>2. InOrder(r)
        BY <1>2, <2>1 DEF Judging, Loaded, InOrder, Unjudged
      <3>3. Unjudged(r)
        BY <1>2, <2>1 DEF Judging, Loaded, InOrder, Unjudged
      <3> QED
        BY <3>1, <3>2, <3>3 DEF Judging
    <2>3. Walking(r)
      BY <2>1, FS_EmptySet, PipeAssumption DEF Walking
    <2> QED
      BY <2>2, <2>3
  <1> QED
    BY <1>3, <1>4 DEF RequestInv

\* The steps of a request leave what it is judged by alone.
LEMMA RequestLeaves ==
    ASSUME NEW r \in Requests, Request(r)
    PROVE  UNCHANGED << reloadVars, info, channels, sessions, owed, serving >>
  BY DEF Request, Arrive, ReadServer, JudgeCall, Acquire, AnswerCall, AnswerPage, FailCall, ClientGone, Recorded,
         FilterList, OnlyReq

LEMMA ShapeGoesOn ==
    ASSUME RequestShape, NEW r \in Requests, Request(r)
    PROVE  RequestShape'
  <1>1. ASSUME OthersStay(r), NEW place \in RequestPlaces, req'[r].at = place PROVE RequestShape'
    BY <1>1 DEF RequestShape, OthersStay
  <1>2. CASE Arrive(r)
    BY <1>1, <1>2, ArriveDoes DEF Stays, IsNow, RequestPlaces, Unread, LoggedPlaces
  <1>3. CASE ReadServer(r)
    BY <1>1, <1>3, ReadServerDoes DEF Stays, IsNow, RequestPlaces, Unread, LoggedPlaces
  <1>4. CASE JudgeCall(r)
    BY <1>1, <1>4, JudgeCallDoes DEF Stays, IsNow, RequestPlaces, Unread, LoggedPlaces
  <1>5. CASE Acquire(r)
    BY <1>1, <1>5, AcquireDoes DEF Stays, IsNow, RequestPlaces, Unread, LoggedPlaces
  <1>6. CASE AnswerCall(r)
    BY <1>1, <1>6, AnswerCallDoes DEF Stays, IsNow, RequestPlaces, Unread, LoggedPlaces
  <1>7. CASE AnswerPage(r)
    BY <1>1, <1>7, AnswerPageDoes DEF Stays, IsNow, RequestPlaces, Unread, LoggedPlaces
  <1>8. CASE FailCall(r)
    BY <1>1, <1>8, FailCallDoes DEF Stays, IsNow, RequestPlaces, Unread, LoggedPlaces
  <1>9. CASE ClientGone(r)
    BY <1>1, <1>9, ClientGoneDoes DEF Stays, IsNow, RequestPlaces, Unread, LoggedPlaces
  <1>10. CASE Recorded(r)
    BY <1>1, <1>10, RecordedDoes DEF Stays, IsNow, RequestPlaces, Unread, LoggedPlaces
  <1>11. CASE FilterList(r)
    BY <1>1, <1>11, FilterListDoes DEF Stays, IsNow, RequestPlaces, Unread, LoggedPlaces
  <1> QED
    BY <1>2, <1>3, <1>4, <1>5, <1>6, <1>7, <1>8, <1>9, <1>10, <1>11 DEF Request

LEMMA JudgingGoesOn ==
    ASSUME ReloadInv, RequestShape, NEW r \in Requests, Judging(r), Request(r)
    PROVE  Judging(r)'
  <1>1. /\ table \in Edits /\ servers \in Edits /\ scopes \in Edits
        /\ table' = table /\ servers' = servers
        /\ table.at <= servers.at /\ servers.at <= scopes.at
        /\ table.at \in Nat /\ servers.at \in Nat /\ scopes.at \in Nat
    BY RequestLeaves, EditTypes DEF ReloadInv, ReloadTypeOK, PublishedInOrder, reloadVars
  <1>2. /\ req[r].table <= servers.at
        /\ req[r].servers \in Edits => req[r].servers.at \in Nat
    BY <1>1, EditTypes DEF Judging, Loaded
  <1>3. CASE Arrive(r)
    <2>1. req[r].at = "new" /\ req[r].scopes = Absent
      BY <1>3, ArriveDoes DEF Judging, Unjudged
    <2>2. ASSUME Stays(r, "rejected") PROVE Judging(r)'
      BY <1>1, <2>1, <2>2 DEF Judging, Loaded, InOrder, Unjudged, Stays, IsNow
    <2>3. ASSUME NEW place \in {"refusal", "acquire", "answered"}, place = "refusal" <=> Asks[r].family = "call",
                 IsNow(r, place, table.at, req[r].servers, req[r].scopes, req[r].followed, req[r].pages, req[r].record)
          PROVE  Judging(r)'
      <3>1. Loaded(r)'
        BY <1>1, <2>1, <2>3 DEF Judging, Loaded, InOrder, Unjudged, IsNow
      <3>2. InOrder(r)'
        BY <1>1, <2>1, <2>3 DEF Judging, Loaded, InOrder, Unjudged, IsNow
      <3>3. Unjudged(r)'
        BY <1>1, <2>1, <2>3 DEF Judging, Loaded, InOrder, Unjudged, IsNow
      <3> QED
        BY <3>1, <3>2, <3>3 DEF Judging
    <2> QED
      BY <1>3, <2>2, <2>3, ArriveDoes
  <1>4. CASE ReadServer(r)
    <2>1. /\ req'[r].servers = servers /\ req'[r].table = req[r].table /\ req'[r].scopes = req[r].scopes
          /\ \/ req[r].at = "filter" /\ req'[r].at = "filter scope"
             \/ req[r].at = "refusal" /\ req'[r].at = "refusal scope"
      BY <1>4, ReadServerDoes DEF IsNow
    <2>2. req'[r].scopes = Absent
      BY <2>1 DEF Judging, Unjudged
    <2>3. Loaded(r)'
      BY <1>1, <2>1 DEF Judging, Loaded
    <2>4. InOrder(r)'
      <3>1. servers' = servers /\ servers \in Edits /\ servers.at <= servers.at
        BY <1>1
      <3>2. req'[r].table <= req'[r].servers.at
        BY <1>2, <2>1
      <3>3. req'[r].servers.at <= servers'.at /\ req'[r].servers \in Edits
        BY <2>1, <3>1
      <3> QED
        BY <2>2, <3>2, <3>3 DEF InOrder
    <2>5. Unjudged(r)'
      BY <2>1, <2>2 DEF Judging, Unjudged
    <2> QED
      BY <2>3, <2>4, <2>5 DEF Judging
  <1>5. CASE JudgeCall(r)
    <2>1. /\ req[r].at = "refusal scope" /\ req'[r].at \in {"acquire", "append"}
          /\ req'[r].table = req[r].table /\ req'[r].servers = req[r].servers /\ req'[r].scopes = scopes
      BY <1>5, JudgeCallDoes DEF IsNow
    <2>2. Asks[r].family = "call"
      BY <1>5, <2>1 DEF Judging, Unjudged
    <2> QED
      <3>1. Loaded(r)'
        BY <1>1, <1>2, <2>1, <2>2 DEF Judging, Loaded, InOrder, Unjudged
      <3>2. InOrder(r)'
        <4>1. /\ req[r].servers \in Edits
              /\ req[r].table <= req[r].servers.at /\ req[r].servers.at <= servers.at
          BY <2>1 DEF Judging, InOrder
        <4>2. req[r].servers.at <= scopes.at
          BY <1>1, <1>2, <4>1
        <4> QED
          BY <1>1, <2>1, <4>1, <4>2 DEF InOrder
      <3>3. Unjudged(r)'
        BY <1>1, <1>2, <2>1, <2>2 DEF Judging, Loaded, InOrder, Unjudged
      <3> QED
        BY <3>1, <3>2, <3>3 DEF Judging
  <1>6. ASSUME req'[r].table = req[r].table, req'[r].servers = req[r].servers, req'[r].scopes = req[r].scopes,
               \/ /\ req[r].at \in {"acquire", "calling", "append"}
                  /\ req'[r].at \in {"calling", "append", "gone", "filter", "answered"}
                  /\ req'[r].at = "filter" => req[r].at = "append" /\ Asks[r].family = "list"
        PROVE  Judging(r)'
    BY <1>1, <1>6 DEF Judging, Loaded, InOrder, Unjudged
  <1>7. CASE Acquire(r)
    BY <1>6, <1>7, AcquireDoes DEF Stays, IsNow
  <1>8. CASE AnswerCall(r)
    BY <1>6, <1>8, AnswerCallDoes DEF IsNow
  <1>9. CASE AnswerPage(r)
    BY <1>6, <1>9, AnswerPageDoes DEF IsNow
  <1>10. CASE FailCall(r)
    BY <1>6, <1>10, FailCallDoes DEF IsNow
  <1>11. CASE ClientGone(r)
    BY <1>6, <1>11, ClientGoneDoes DEF Stays, IsNow
  <1>12. CASE Recorded(r)
    BY <1>6, <1>12, RecordedDoes DEF Stays, IsNow
  <1>13. CASE FilterList(r)
    <2>1. /\ req[r].at = "filter scope" /\ req'[r].at = "answered"
          /\ req'[r].table = req[r].table /\ req'[r].servers = req[r].servers /\ req'[r].scopes = scopes
      BY <1>13, FilterListDoes DEF IsNow
    <2> QED
      <3>1. Loaded(r)'
        BY <1>1, <1>2, <2>1 DEF Judging, Loaded, InOrder, Unjudged
      <3>2. InOrder(r)'
        <4>1. /\ req[r].servers \in Edits
              /\ req[r].table <= req[r].servers.at /\ req[r].servers.at <= servers.at
          BY <2>1 DEF Judging, InOrder
        <4>2. req[r].servers.at <= scopes.at
          BY <1>1, <1>2, <4>1
        <4> QED
          BY <1>1, <2>1, <4>1, <4>2 DEF InOrder
      <3>3. Unjudged(r)'
        BY <1>1, <1>2, <2>1 DEF Judging, Loaded, InOrder, Unjudged
      <3> QED
        BY <3>1, <3>2, <3>3 DEF Judging
  <1> QED
    BY <1>3, <1>4, <1>5, <1>7, <1>8, <1>9, <1>10, <1>11, <1>12, <1>13 DEF Request

LEMMA WalkingGoesOn ==
    ASSUME RequestShape, NEW r \in Requests, Walking(r), Request(r)
    PROVE  Walking(r)'
  <1>1. MaxToolPages \in Nat
    BY PipeAssumption
  <1>2. Cardinality(req[r].followed) \in Nat
    BY FS_CardinalityType DEF Walking
  <1>3. ASSUME req'[r].followed = req[r].followed, req'[r].pages = req[r].pages,
               req'[r].at \in Unread => req[r].at \in Unread
        PROVE  Walking(r)'
    BY <1>3 DEF Walking
  <1>4. CASE AnswerPage(r)
    <2>1. req[r].at = "calling" /\ req[r].at \in Unread
      BY <1>4, AnswerPageDoes DEF Unread
    <2>2. CASE IsNow(r, "append", req[r].table, req[r].servers, req[r].scopes, req[r].followed, req[r].pages + 1,
                     Record(r, KindOf(r), TRUE, NoText, NoText, NoText))
      BY <1>1, <1>2, <2>1, <2>2 DEF Walking, IsNow, Unread
    <2>3. ASSUME NEW next, next \notin req[r].followed, ~(req[r].pages + 1 >= MaxToolPages),
                 IsNow(r, "calling", req[r].table, req[r].servers, req[r].scopes,
                       req[r].followed \cup {next}, req[r].pages + 1, req[r].record)
          PROVE  Walking(r)'
      <3>1. /\ IsFiniteSet(req[r].followed \cup {next})
            /\ Cardinality(req[r].followed \cup {next}) = Cardinality(req[r].followed) + 1
        BY <2>3, FS_AddElement DEF Walking
      <3> QED
        BY <1>1, <1>2, <2>1, <2>3, <3>1 DEF Walking, IsNow
    <2> QED
      BY <1>4, <2>2, <2>3, AnswerPageDoes
  <1>5. CASE Arrive(r)
    BY <1>3, <1>5, ArriveDoes DEF Stays, IsNow, Unread
  <1>6. CASE ReadServer(r)
    <2>1. PICK place \in {"refusal scope", "filter scope"} :
              /\ req[r].at = (IF place = "filter scope" THEN "filter" ELSE "refusal")
              /\ IsNow(r, place, req[r].table, servers, req[r].scopes, req[r].followed, req[r].pages, req[r].record)
      BY <1>6, ReadServerDoes
    <2> QED
      BY <1>3, <2>1 DEF IsNow, Unread
  <1>7. CASE JudgeCall(r)
    BY <1>3, <1>7, JudgeCallDoes DEF IsNow, Unread
  <1>8. CASE Acquire(r)
    BY <1>3, <1>8, AcquireDoes DEF Stays, IsNow, Unread
  <1>9. CASE AnswerCall(r)
    BY <1>3, <1>9, AnswerCallDoes DEF IsNow, Unread
  <1>10. CASE FailCall(r)
    BY <1>3, <1>10, FailCallDoes DEF IsNow, Unread
  <1>11. CASE ClientGone(r)
    BY <1>3, <1>11, ClientGoneDoes DEF Stays, IsNow, Unread
  <1>12. CASE Recorded(r)
    BY <1>3, <1>12, RecordedDoes DEF Stays, IsNow, Unread
  <1>13. CASE FilterList(r)
    BY <1>3, <1>13, FilterListDoes DEF IsNow, Unread
  <1> QED
    BY <1>4, <1>5, <1>6, <1>7, <1>8, <1>9, <1>10, <1>11, <1>12, <1>13 DEF Request

LEMMA RequestsGoOn ==
    ASSUME ReloadInv, RequestInv, NEW r \in Requests, Request(r)
    PROVE  RequestInv'
  <1>1. RequestShape'
    BY ShapeGoesOn DEF RequestInv
  <1>2. Judging(r)' /\ Walking(r)'
    BY JudgingGoesOn, WalkingGoesOn DEF RequestInv
  <1>3. ASSUME NEW q \in Requests, q # r PROVE Judging(q)' /\ Walking(q)'
    <2>1. req'[q] = req[q]
      BY <1>3, ArriveDoes, ReadServerDoes, JudgeCallDoes, AcquireDoes, AnswerCallDoes, AnswerPageDoes, FailCallDoes,
         ClientGoneDoes, RecordedDoes, FilterListDoes DEF Request, OthersStay, RequestInv
    <2>2. table' = table /\ servers' = servers
      BY RequestLeaves DEF reloadVars
    <2> QED
      BY <2>1, <2>2 DEF RequestInv, Judging, Loaded, InOrder, Unjudged, Walking
  <1> QED
    BY <1>1, <1>2, <1>3 DEF RequestInv

\* What is published grows under the requests.
LEMMA RequestsAreLeft ==
    ASSUME ReloadInv, ReloadInv', ReloadMoves, RequestInv, UNCHANGED req
    PROVE  RequestInv'
  <1>1. table.at <= table'.at /\ servers.at <= servers'.at
    BY ReloadGrows
  <1>2. /\ table.at \in Nat /\ servers.at \in Nat /\ table'.at \in Nat /\ servers'.at \in Nat
    BY EditTypes DEF ReloadInv, ReloadTypeOK
  <1>3. RequestShape'
    BY DEF RequestInv, RequestShape
  <1>4. ASSUME NEW r \in Requests PROVE Judging(r)' /\ Walking(r)'
    <2>1. Judging(r) /\ Walking(r) /\ req'[r] = req[r]
      BY <1>4 DEF RequestInv
    <2>2. req[r].servers \in Edits => req[r].servers.at \in Nat
      BY EditTypes
    <2>3. Walking(r)'
      BY <2>1 DEF Walking
    <2>4. Judging(r)'
      <3>1. Loaded(r)'
        <4>1. Loaded(r)
          BY <2>1 DEF Judging
        <4>2. req[r].table <= table'.at
          BY <1>1, <1>2, <4>1 DEF Loaded
        <4> QED
          BY <2>1, <4>1, <4>2 DEF Loaded
      <3>2. InOrder(r)'
        <4>1. InOrder(r)
          BY <2>1 DEF Judging
        <4>2. req[r].servers \in Edits /\ req[r].servers.at <= servers.at => req[r].servers.at <= servers'.at
          BY <1>1, <1>2, <2>2
        <4> QED
          BY <2>1, <4>1, <4>2 DEF InOrder
      <3>3. Unjudged(r)'
        BY <1>1, <1>2, <2>1, <2>2 DEF Judging, Loaded, InOrder, Unjudged
      <3> QED
        BY <3>1, <3>2, <3>3 DEF Judging
    <2> QED
      BY <2>3, <2>4
  <1> QED
    BY <1>3, <1>4 DEF RequestInv

-----------------------------------------------------------------------------
(* Sessions: what each still has to be told of.                             *)

Channels == [sent : Seq(Families), closed : BOOLEAN]
SessionStates == [at : {"never", "new", "open", "listening", "idle", "gone"}, table : Nat,
                  hears : SUBSET Families, channel : Nat, next : Nat]
SessionTypes ==
    /\ info \in Infos \cup {NoInfo}
    /\ channels \in Seq(Channels) /\ channels # << >>
    /\ sessions \in [Sessions -> SessionStates]
    /\ owed \in [Sessions -> SUBSET Families]

\* A session listens within its channel, and is owed what it hears of only.
Hearing(s) ==
    /\ sessions[s].channel <= Len(channels)
    /\ sessions[s].at \in {"never", "new", "open"} => owed[s] = {}
    /\ Listening(s) => /\ sessions[s].channel \in 1 .. Len(channels)
                       /\ sessions[s].next \in 1 .. Len(Sent(s)) + 1
                       /\ owed[s] \subseteq sessions[s].hears
ToldOf(s) ==
    Listening(s) =>
        owed[s] \subseteq IF sessions[s].next < Oldest(s) THEN sessions[s].hears
                         ELSE {Sent(s)[i] : i \in sessions[s].next .. Len(Sent(s))}
SessionInv == SessionTypes /\ \A s \in Sessions : Hearing(s) /\ ToldOf(s)

LEMMA CapabilityTypes ==
    ASSUME info \in Infos \cup {NoInfo}
    PROVE  /\ Promised(Capabilities(info)) \subseteq Families
           /\ \A want : Accepted(want, Capabilities(info)) \subseteq Families
  <1>1. Capabilities(info).listChanged \subseteq Families
    <2>1. CASE info = NoInfo
      BY <2>1 DEF Capabilities, ToolsOnly
    <2>2. CASE info # NoInfo
      <3>1. info \in [families : SUBSET Families, listChanged : SUBSET Families, extras : SUBSET STRING]
        BY <2>2, PipeAssumption
      <3> QED
        BY <2>2, <3>1 DEF Capabilities, Forwarded
    <2> QED
      BY <2>1, <2>2
  <1> QED
    BY <1>1, Zenon DEF Promised, Accepted

LEMMA SessionsBegin ==
    ASSUME PipeInit
    PROVE  SessionInv
  <1>1. PICK w \in Workloads :
          /\ info = w.info /\ channels = << [sent |-> << >>, closed |-> FALSE] >>
          /\ sessions = [s \in Sessions |-> IF s \in w.sessions THEN Unopened ELSE [Unopened EXCEPT !.at = "never"]]
          /\ owed = [s \in Sessions |-> {}]
    BY DEF PipeInit
  <1>2. [sent |-> << >>, closed |-> FALSE] \in Channels
    BY DEF Channels
  <1>3. channels \in Seq(Channels) /\ channels # << >> /\ Len(channels) = 1
    BY <1>1, <1>2
  <1>4. Unopened \in SessionStates /\ [Unopened EXCEPT !.at = "never"] \in SessionStates
    BY DEF Unopened, SessionStates
  <1>5. SessionTypes
    BY <1>1, <1>3, <1>4, WorkloadAssumption DEF SessionTypes
  <1>6. ASSUME NEW s \in Sessions PROVE Hearing(s) /\ ToldOf(s)
    <2>1. sessions[s].at \in {"new", "never"} /\ sessions[s].channel = 0 /\ owed[s] = {}
      BY <1>1 DEF Unopened
    <2> QED
      BY <1>3, <2>1 DEF Hearing, ToldOf, Listening
  <1> QED
    BY <1>5, <1>6 DEF SessionInv

LEMMA SessionFacts ==
    ASSUME SessionTypes, NEW s \in Sessions
    PROVE  /\ sessions[s] \in SessionStates /\ owed[s] \subseteq Families
           /\ sessions[s].channel \in Nat /\ sessions[s].next \in Nat /\ sessions[s].hears \subseteq Families
           /\ Len(channels) \in Nat \ {0}
           /\ \A c \in 1 .. Len(channels) : channels[c] \in Channels /\ channels[c].sent \in Seq(Families)
           /\ sessions[s].channel \in 1 .. Len(channels) => Sent(s) \in Seq(Families) /\ Len(Sent(s)) \in Nat
  <1>1. sessions[s] \in SessionStates /\ owed[s] \subseteq Families
    BY DEF SessionTypes
  <1>2. sessions[s].channel \in Nat /\ sessions[s].next \in Nat /\ sessions[s].hears \subseteq Families
    BY <1>1 DEF SessionStates
  <1>3. Len(channels) \in Nat \ {0}
    BY DEF SessionTypes
  <1>4. ASSUME NEW c \in 1 .. Len(channels) PROVE channels[c] \in Channels /\ channels[c].sent \in Seq(Families)
    <2>1. channels[c] \in Channels
      BY DEF SessionTypes
    <2> QED
      BY <2>1 DEF Channels
  <1>5. sessions[s].channel \in 1 .. Len(channels) => Sent(s) \in Seq(Families) /\ Len(Sent(s)) \in Nat
    BY <1>4 DEF Sent
  <1> QED
    BY <1>1, <1>2, <1>3, <1>4, <1>5

\* A step of one session, to a state its types and what it heard of allow.
LEMMA OneSession ==
    ASSUME SessionInv, NEW s \in Sessions, NEW to \in SessionStates, Become(s, to),
           NEW due \in SUBSET Families, owed' = [owed EXCEPT ![s] = due], UNCHANGED << info, channels >>,
           Hearing(s)', ToldOf(s)'
    PROVE  SessionInv'
  <1>1. sessions' = [sessions EXCEPT ![s] = to]
    BY DEF Become
  <1>2. SessionTypes'
    BY <1>1 DEF SessionInv, SessionTypes
  <1>3. ASSUME NEW q \in Sessions, q # s PROVE Hearing(q)' /\ ToldOf(q)'
    <2>1. sessions'[q] = sessions[q] /\ owed'[q] = owed[q] /\ channels' = channels
      BY <1>1, <1>3 DEF SessionInv, SessionTypes
    <2>2. Hearing(q) /\ ToldOf(q)
      BY DEF SessionInv
    <2> QED
      BY <2>1, <2>2 DEF Hearing, ToldOf, Listening, Sent, Oldest
  <1> QED
    BY <1>2, <1>3 DEF SessionInv

\* A step that leaves a session listening to nothing keeps what it is told.
LEMMA SessionRests ==
    ASSUME SessionInv, NEW s \in Sessions, NEW to \in SessionStates, Become(s, to),
           UNCHANGED << info, channels, owed >>,
           to.at \in {"open", "idle", "gone"}, to.at = "open" => sessions[s].at = "new",
           to.channel = sessions[s].channel
    PROVE  SessionInv'
  <1>1. sessions'[s] = to /\ channels' = channels /\ owed' = owed
    BY DEF Become, SessionInv, SessionTypes
  <1>2. Hearing(s)
    BY DEF SessionInv
  <1>3. Hearing(s)' /\ ToldOf(s)'
    BY <1>1, <1>2 DEF Hearing, ToldOf, Listening
  <1>4. owed' = [owed EXCEPT ![s] = owed[s]] /\ owed[s] \in SUBSET Families
    BY <1>1 DEF SessionInv, SessionTypes
  <1> QED
    BY <1>3, <1>4, OneSession

\* One that begins to listen hears what is sent from now on.
LEMMA SessionBegins ==
    ASSUME SessionInv, NEW s \in Sessions, NEW to \in SessionStates, Become(s, to),
           UNCHANGED << info, channels, owed >>, sessions[s].at \in {"new", "open"},
           to.channel = Channel, to.next = Len(channels[Channel].sent) + 1
    PROVE  SessionInv'
  <1>1. sessions'[s] = to /\ channels' = channels /\ owed' = owed
    BY DEF Become, SessionInv, SessionTypes
  <1>2. owed[s] = {}
    BY DEF SessionInv, Hearing
  <1>3. Channel \in 1 .. Len(channels) /\ Len(channels[Channel].sent) \in Nat
    BY SessionFacts DEF SessionInv, Channel
  <1>4. Hearing(s)' /\ ToldOf(s)'
    BY <1>1, <1>2, <1>3 DEF Hearing, ToldOf, Listening, Sent, Channel
  <1>5. owed' = [owed EXCEPT ![s] = owed[s]] /\ owed[s] \in SUBSET Families
    BY <1>1 DEF SessionInv, SessionTypes
  <1> QED
    BY <1>4, <1>5, OneSession

\* What is received was owed no more than what is left of the channel says.
LEMMA ReceiveGoesOn ==
    ASSUME SessionInv, NEW s \in Sessions, Receive(s)
    PROVE  SessionInv'
  <1> DEFINE lags == sessions[s].next < Oldest(s)
             due == IF lags THEN sessions[s].hears ELSE {Sent(s)[sessions[s].next]} \cap sessions[s].hears
             next == IF lags THEN Oldest(s) ELSE sessions[s].next + 1
             to == [sessions[s] EXCEPT !.next = next]
  <1>1. Listening(s) /\ sessions[s].next <= Len(Sent(s)) /\ Told(s, due, next) /\ UNCHANGED << info, channels >>
    BY DEF Receive, OnlySession, DueOnLag
  <1>2. Hearing(s) /\ ToldOf(s)
    BY DEF SessionInv
  <1>3. /\ sessions[s] \in SessionStates /\ sessions[s].next \in Nat /\ sessions[s].channel \in 1 .. Len(channels)
        /\ Sent(s) \in Seq(Families) /\ Len(Sent(s)) \in Nat /\ owed[s] \subseteq Families
    BY <1>1, <1>2, SessionFacts DEF SessionInv, Hearing
  <1>4. Oldest(s) \in 1 .. Len(Sent(s)) + 1
    BY <1>3, PipeAssumption DEF Oldest
  <1>5. next \in 1 .. Len(Sent(s)) + 1
    BY <1>1, <1>3, <1>4
  <1>6. ASSUME Become(s, to), owed' = [owed EXCEPT ![s] = @ \ due] PROVE SessionInv'
    <2>1. to \in SessionStates
      BY <1>3, <1>5 DEF SessionStates
    <2>2. /\ sessions'[s].at = sessions[s].at /\ sessions'[s].channel = sessions[s].channel
          /\ sessions'[s].hears = sessions[s].hears /\ sessions'[s].next = next
      BY <1>3, <1>6 DEF Become, SessionInv, SessionTypes, SessionStates
    <2>3. owed'[s] = owed[s] \ due /\ channels' = channels
      BY <1>1, <1>6 DEF SessionInv, SessionTypes
    <2>4. Sent(s)' = Sent(s)
      BY <2>2, <2>3 DEF Sent
    <2>5. Oldest(s)' = Oldest(s)
      BY <2>4 DEF Oldest
    <2>6. Hearing(s)'
      BY <1>1, <1>2, <1>5, <2>2, <2>3, <2>4 DEF Hearing, Listening
    <2>7. ToldOf(s)'
      <3>1. CASE lags
        <4>1. owed'[s] = {}
          BY <1>1, <1>2, <2>3, <3>1 DEF Hearing
        <4> QED
          BY <4>1 DEF ToldOf
      <3>2. CASE ~lags
        <4>1. ~(next < Oldest(s)) /\ next = sessions[s].next + 1
          BY <1>3, <1>4, <3>2
        <4>2. \A f \in owed[s] \ due : \E i \in next .. Len(Sent(s)) : f = Sent(s)[i]
          <5>1. ASSUME NEW f \in owed[s] \ due PROVE \E i \in next .. Len(Sent(s)) : f = Sent(s)[i]
            <6>1. f \in sessions[s].hears
              BY <1>1, <1>2 DEF Hearing
            <6>2. PICK i \in sessions[s].next .. Len(Sent(s)) : f = Sent(s)[i]
              BY <1>1, <1>2, <3>2 DEF ToldOf
            <6>3. i # sessions[s].next
              BY <3>2, <6>1, <6>2
            <6> QED
              BY <1>3, <4>1, <6>2, <6>3
          <5> QED
            BY <5>1
        <4> HIDE DEF next, due
        <4> QED
          BY <2>2, <2>3, <2>4, <2>5, <4>1, <4>2 DEF ToldOf
      <3> QED
        BY <3>1, <3>2
    <2>8. owed[s] \ due \in SUBSET Families /\ owed' = [owed EXCEPT ![s] = owed[s] \ due]
      BY <1>3, <1>6
    <2> QED
      BY <1>1, <1>6, <2>1, <2>6, <2>7, <2>8, OneSession
  <1>7. ASSUME Become(s, [sessions[s] EXCEPT !.at = "gone"]), UNCHANGED owed PROVE SessionInv'
    <2>1. [sessions[s] EXCEPT !.at = "gone"] \in SessionStates
      BY <1>3 DEF SessionStates
    <2> QED
      BY <1>1, <1>3, <1>7, <2>1, SessionRests DEF SessionStates
  <1> QED
    BY <1>1, <1>6, <1>7 DEF Told

LEMMA SessionGoesOn ==
    ASSUME ReloadInv, SessionInv, NEW s \in Sessions, Session(s)
    PROVE  SessionInv'
  <1>1. /\ sessions[s] \in SessionStates /\ Len(channels) \in Nat \ {0}
        /\ channels[Channel].sent \in Seq(Families) /\ Len(channels[Channel].sent) \in Nat
    BY SessionFacts DEF SessionInv, Channel
  <1>2. table.at \in Nat
    BY EditTypes DEF ReloadInv, ReloadTypeOK
  <1>3. ASSUME NEW to \in {[sessions[s] EXCEPT !.at = "open", !.table = table.at],
                           [sessions[s] EXCEPT !.at = "idle", !.table = table.at],
                           [sessions[s] EXCEPT !.at = "idle"], [sessions[s] EXCEPT !.at = "gone"]}
        PROVE  to \in SessionStates /\ to.channel = sessions[s].channel
    BY <1>1, <1>2, <1>3 DEF SessionStates
  <1>4. ASSUME NEW hears \in SUBSET Families
        PROVE  /\ Subscribed(s, hears) \in SessionStates
               /\ [Subscribed(s, hears) EXCEPT !.table = table.at] \in SessionStates
               /\ Subscribed(s, hears).channel = Channel
               /\ Subscribed(s, hears).next = Len(channels[Channel].sent) + 1
               /\ [Subscribed(s, hears) EXCEPT !.table = table.at].channel = Channel
               /\ [Subscribed(s, hears) EXCEPT !.table = table.at].next = Len(channels[Channel].sent) + 1
    <2> DEFINE from == Len(channels[Channel].sent) + 1
               to(c, n) == [sessions[s] EXCEPT !.at = "listening", !.hears = hears, !.channel = c, !.next = n]
    <2>1. from \in Nat /\ Channel \in Nat
      BY <1>1 DEF Channel
    <2> HIDE DEF from
    <2>2. ASSUME NEW c \in Nat, NEW n \in Nat
          PROVE  /\ to(c, n) \in SessionStates /\ [to(c, n) EXCEPT !.table = table.at] \in SessionStates
                 /\ to(c, n).channel = c /\ to(c, n).next = n
                 /\ [to(c, n) EXCEPT !.table = table.at].channel = c /\ [to(c, n) EXCEPT !.table = table.at].next = n
      BY <1>1, <1>2 DEF SessionStates
    <2>3. Subscribed(s, hears) = to(Channel, from)
      BY DEF Subscribed, from
    <2> HIDE DEF to
    <2> QED
      BY <2>1, <2>2, <2>3 DEF from
  <1>5. CASE Initialize(s)
    <2>1. sessions[s].at = "new" /\ Become(s, [sessions[s] EXCEPT !.at = "open", !.table = table.at]) /\ UNCHANGED << info, channels, owed >>
      BY <1>5 DEF Initialize, OnlySession
    <2> QED
      BY <1>1, <1>3, <2>1, SessionRests DEF SessionStates
  <1>6. CASE Initialized(s)
    <2>1. sessions[s].at = "open" /\ UNCHANGED << info, channels, owed >>
      BY <1>6 DEF Initialized, OnlySession
    <2>2. CASE Become(s, [sessions[s] EXCEPT !.at = "idle"])
      BY <1>1, <1>3, <2>1, <2>2, SessionRests DEF SessionStates
    <2>3. CASE Become(s, Subscribed(s, Promised(Capabilities(info))))
      <3>1. Promised(Capabilities(info)) \in SUBSET Families
        BY CapabilityTypes DEF SessionInv, SessionTypes
      <3> QED
        BY <1>4, <2>1, <2>3, <3>1, SessionBegins
    <2> QED
      BY <1>6, <2>2, <2>3 DEF Initialized
  <1>7. CASE Listen(s)
    <2>1. sessions[s].at = "new" /\ UNCHANGED << info, channels, owed >>
      BY <1>7 DEF Listen, OnlySession
    <2>2. CASE Become(s, [sessions[s] EXCEPT !.at = "idle", !.table = table.at])
      BY <1>1, <1>3, <2>1, <2>2, SessionRests DEF SessionStates
    <2>3. CASE Become(s, [Subscribed(s, Accepted(Wants[s], Capabilities(info))) EXCEPT !.table = table.at])
      <3>1. Accepted(Wants[s], Capabilities(info)) \in SUBSET Families
        BY CapabilityTypes DEF SessionInv, SessionTypes
      <3> QED
        BY <1>4, <2>1, <2>3, <3>1, SessionBegins
    <2> QED
      BY <1>7, <2>2, <2>3 DEF Listen
  <1>8. CASE Receive(s)
    BY <1>8, ReceiveGoesOn
  <1>9. CASE ChannelEnds(s) \/ SessionEnds(s)
    <2>1. /\ \/ Become(s, [sessions[s] EXCEPT !.at = "idle"])
             \/ Become(s, [sessions[s] EXCEPT !.at = "gone"])
          /\ UNCHANGED << info, channels, owed >>
      BY <1>9 DEF ChannelEnds, SessionEnds, OnlySession
    <2> QED
      BY <1>1, <1>3, <2>1, SessionRests DEF SessionStates
  <1> QED
    BY <1>5, <1>6, <1>7, <1>8, <1>9 DEF Session

\* What is announced on a channel joins what its listeners are owed.
LEMMA Announced ==
    ASSUME SessionInv, NEW more \in Seq(Families), NEW said, said = ToSet(more),
           channels' = [channels EXCEPT ![Channel].sent = @ \o more],
           owed' = Owing(Channel, said), info' \in Infos \cup {NoInfo}, UNCHANGED sessions
    PROVE  SessionInv'
  <1>1. /\ Len(channels) \in Nat \ {0} /\ channels \in Seq(Channels)
        /\ Channel \in 1 .. Len(channels) /\ channels[Channel] \in Channels
    BY DEF SessionInv, SessionTypes, Channel
  <1>2. channels[Channel].sent \in Seq(Families) /\ Len(more) \in Nat
    BY <1>1 DEF Channels
  <1> DEFINE sent == channels[Channel].sent \o more
             now == [channels[Channel] EXCEPT !.sent = sent]
  <1>3. /\ sent \in Seq(Families)
        /\ Len(sent) = Len(channels[Channel].sent) + Len(more)
        /\ \A i \in 1 .. Len(channels[Channel].sent) : sent[i] = channels[Channel].sent[i]
        /\ \A j \in 1 .. Len(more) : sent[Len(channels[Channel].sent) + j] = more[j]
    <2> DEFINE before == channels[Channel].sent
    <2>1. before \in Seq(Families)
      BY <1>2
    <2> HIDE DEF before
    <2>2. /\ before \o more \in Seq(Families) /\ Len(before \o more) = Len(before) + Len(more)
          /\ \A i \in 1 .. Len(before) : (before \o more)[i] = before[i]
          /\ Len(before) \in Nat
      BY <2>1
    <2>3. ASSUME NEW j \in 1 .. Len(more) PROVE (before \o more)[Len(before) + j] = more[j]
      BY <2>1, ConcatProperties
    <2> QED
      BY <2>2, <2>3 DEF before
  <1> HIDE DEF sent
  <1>4. now \in Channels /\ now.sent = sent
    BY <1>1, <1>3 DEF Channels
  <1>5. channels' = [channels EXCEPT ![Channel] = now]
    BY DEF sent
  <1> HIDE DEF now
  <1>6. /\ channels' \in Seq(Channels) /\ channels' # << >> /\ Len(channels') = Len(channels)
        /\ channels'[Channel] = now
        /\ \A c \in 1 .. Len(channels) : c # Channel => channels'[c] = channels[c]
    <2>1. channels' \in Seq(Channels) /\ Len(channels') = Len(channels)
      <3> DEFINE c == Channel
      <3>1. channels \in Seq(Channels) /\ c \in 1 .. Len(channels) /\ now \in Channels
        BY <1>1, <1>4
      <3> HIDE DEF c
      <3>2. [channels EXCEPT ![c] = now] \in Seq(Channels) /\ Len([channels EXCEPT ![c] = now]) = Len(channels)
        BY <3>1, ExceptSeq
      <3>3. channels' = [channels EXCEPT ![c] = now]
        BY <1>5 DEF c
      <3> QED
        BY <3>2, <3>3
    <2>2. channels' # << >>
      BY <1>1, <2>1
    <2>3. /\ channels'[Channel] = now
          /\ \A c \in 1 .. Len(channels) : c # Channel => channels'[c] = channels[c]
      BY <1>1, <1>5
    <2> QED
      BY <2>1, <2>2, <2>3
  <1>a. Backlog \in Nat \ {0}
    BY PipeAssumption
  <1>7. SessionTypes'
    <2>1. owed' \in [Sessions -> SUBSET Families]
      BY DEF SessionInv, SessionTypes, SessionStates, Owing
    <2> QED
      BY <1>6, <2>1 DEF SessionInv, SessionTypes
  <1>8. ASSUME NEW s \in Sessions PROVE Hearing(s)' /\ ToldOf(s)'
    <2>1. Hearing(s) /\ ToldOf(s) /\ sessions' = sessions
      BY DEF SessionInv
    <2>2. owed'[s] = IF Listening(s) /\ sessions[s].channel = Channel
                     THEN owed[s] \cup (said \cap sessions[s].hears) ELSE owed[s]
      BY DEF Owing
    <2>3. CASE ~(Listening(s) /\ sessions[s].channel = Channel)
      <3>1. owed'[s] = owed[s]
        BY <2>2, <2>3
      <3>2. Listening(s) => Sent(s)' = Sent(s)
        BY <1>6, <2>1, <2>3 DEF Hearing, Sent
      <3>3. Hearing(s)'
        BY <1>6, <2>1, <3>1, <3>2 DEF Hearing, Listening
      <3>4. ToldOf(s)'
        BY <2>1, <3>1, <3>2 DEF ToldOf, Listening, Oldest
      <3> QED
        BY <3>3, <3>4
    <2>4. CASE Listening(s) /\ sessions[s].channel = Channel
      <3>1. owed'[s] = owed[s] \cup (said \cap sessions[s].hears)
        BY <2>2, <2>4
      <3>2. Sent(s) = channels[Channel].sent /\ Sent(s)' = sent
        BY <1>4, <1>6, <2>1, <2>4 DEF Sent
      <3>3. /\ sessions[s].next \in 1 .. Len(Sent(s)) + 1 /\ owed[s] \subseteq sessions[s].hears
            /\ sessions[s].channel \in 1 .. Len(channels)
        BY <2>1, <2>4 DEF Hearing
      <3>4. Len(Sent(s)) \in Nat /\ Len(sent) \in Nat /\ Len(Sent(s)) <= Len(sent)
        BY <1>2, <1>3, <3>2
      <3>5. Oldest(s) <= Oldest(s)' /\ Oldest(s) \in Nat /\ Oldest(s)' \in Nat
        <4>1. Oldest(s) = IF Len(Sent(s)) > Backlog THEN Len(Sent(s)) - Backlog + 1 ELSE 1
          BY DEF Oldest
        <4>2. Oldest(s)' = IF Len(sent) > Backlog THEN Len(sent) - Backlog + 1 ELSE 1
          BY <3>2 DEF Oldest
        <4> QED
          BY <1>a, <3>4, <4>1, <4>2
      <3>6. Hearing(s)'
        BY <1>6, <2>1, <2>4, <3>1, <3>2, <3>3, <3>4 DEF Hearing, Listening
      <3>7. ASSUME sessions[s].next >= Oldest(s)', NEW f \in owed'[s]
            PROVE  \E i \in sessions[s].next .. Len(sent) : f = sent[i]
        <4>1. CASE f \in owed[s]
          <5>1. ~(sessions[s].next < Oldest(s))
            BY <3>3, <3>4, <3>5, <3>7
          <5>2. PICK i \in sessions[s].next .. Len(Sent(s)) : f = Sent(s)[i]
            BY <2>1, <2>4, <4>1, <5>1 DEF ToldOf
          <5>3. i \in sessions[s].next .. Len(sent) /\ i \in 1 .. Len(Sent(s))
            BY <3>3, <3>4
          <5>4. f = sent[i]
            BY <1>3, <3>2, <5>2, <5>3
          <5> QED
            BY <5>3, <5>4
        <4>2. CASE f \in said
          <5>1. PICK j \in 1 .. Len(more) : f = more[j]
            BY <4>2 DEF ToSet
          <5>2. Len(Sent(s)) + j \in sessions[s].next .. Len(sent)
            <6>1. Len(sent) = Len(Sent(s)) + Len(more)
              BY <1>3, <3>2
            <6> QED
              BY <1>2, <3>3, <3>4, <6>1
          <5>3. f = sent[Len(Sent(s)) + j]
            BY <1>3, <3>2, <5>1
          <5> QED
            BY <5>2, <5>3
        <4> QED
          BY <3>1, <3>7, <4>1, <4>2
      <3>8. owed'[s] \subseteq sessions[s].hears
        BY <3>1, <3>3
      <3>9. ToldOf(s)'
        BY <2>1, <3>2, <3>3, <3>5, <3>7, <3>8 DEF ToldOf
      <3> QED
        BY <3>6, <3>9
    <2> QED
      BY <2>3, <2>4
  <1> QED
    BY <1>7, <1>8 DEF SessionInv

LEMMA PublishGoesOn ==
    ASSUME SessionInv, NEW what \in Families, Publish(what)
    PROVE  SessionInv'
  <1>1. << what >> \in Seq(Families) /\ {what} = ToSet(<< what >>)
    BY DEF ToSet
  <1>2. channels[Channel].sent \in Seq(Families)
    <2>1. channels[Channel] \in Channels
      BY DEF SessionInv, SessionTypes, Channel
    <2> QED
      BY <2>1 DEF Channels
  <1>3. Append(channels[Channel].sent, what) = channels[Channel].sent \o << what >>
    BY <1>2
  <1>4. /\ channels' = [channels EXCEPT ![Channel].sent = @ \o << what >>]
        /\ owed' = Owing(Channel, {what}) /\ info' = info /\ sessions' = sessions
    BY <1>3 DEF Publish
  <1>5. info' \in Infos \cup {NoInfo}
    BY <1>4 DEF SessionInv, SessionTypes
  <1> QED
    BY <1>1, <1>4, <1>5, Announced

\* Where nothing is announced, what is owed stays as it was.
LEMMA SessionsAreLeft ==
    ASSUME SessionInv, channels' \in Seq(Channels), Len(channels) <= Len(channels'),
           \A c \in 1 .. Len(channels) : channels'[c].sent = channels[c].sent,
           info' \in Infos \cup {NoInfo}, UNCHANGED << sessions, owed >>
    PROVE  SessionInv'
  <1>1. Len(channels) \in Nat \ {0} /\ Len(channels') \in Nat
    BY DEF SessionInv, SessionTypes
  <1>2. SessionTypes'
    <2>1. channels' # << >>
      BY <1>1
    <2> QED
      BY <2>1 DEF SessionInv, SessionTypes
  <1>3. ASSUME NEW s \in Sessions PROVE Hearing(s)' /\ ToldOf(s)'
    <2>1. Hearing(s) /\ ToldOf(s) /\ sessions[s].channel \in Nat
      BY SessionFacts DEF SessionInv
    <2>2. Listening(s) => Sent(s)' = Sent(s)
      BY <2>1 DEF Hearing, Sent
    <2> QED
      BY <1>1, <2>1, <2>2 DEF Hearing, ToldOf, Listening, Oldest
  <1> QED
    BY <1>2, <1>3 DEF SessionInv

LEMMA ApplyGoesOnForSessions ==
    ASSUME SessionInv, ApplyServers
    PROVE  SessionInv'
  <1> DEFINE old == servers.is.servers[Name]
             new == servers'.is.servers[Name]
             fresh == [sent |-> << >>, closed |-> FALSE]
  <1>1. UNCHANGED sessions /\ channels \in Seq(Channels) /\ Len(channels) \in Nat \ {0} /\ NoInfo \in Infos \cup {NoInfo}
    BY DEF ApplyServers, SessionInv, SessionTypes
  <1>2. Channel \in 1 .. Len(channels) /\ channels[Channel] \in Channels
    BY <1>1 DEF Channel
  <1>3. \/ channels' = Append(channels, fresh) /\ info' = NoInfo /\ UNCHANGED owed
        \/ channels' = [channels EXCEPT ![Channel].closed = TRUE] /\ info' = NoInfo /\ UNCHANGED owed
        \/ /\ channels' = [channels EXCEPT ![Channel].sent = @ \o AllFamilies]
           /\ info' = NoInfo /\ owed' = Owing(Channel, ToSet(AllFamilies))
        \/ UNCHANGED << channels, info, owed >>
    BY DEF ApplyServers
  <1>4. CASE channels' = Append(channels, fresh) /\ info' = NoInfo /\ UNCHANGED owed
    <2>1. fresh \in Channels
      BY DEF Channels
    <2> HIDE DEF fresh
    <2>2. /\ channels' \in Seq(Channels) /\ Len(channels') = Len(channels) + 1
          /\ \A c \in 1 .. Len(channels) : channels'[c] = channels[c]
      BY <1>1, <1>4, <2>1
    <2> QED
      BY <1>1, <1>4, <2>2, SessionsAreLeft
  <1>5. CASE channels' = [channels EXCEPT ![Channel].closed = TRUE] /\ info' = NoInfo /\ UNCHANGED owed
    <2> DEFINE closed == [channels[Channel] EXCEPT !.closed = TRUE]
    <2>1. closed \in Channels /\ closed.sent = channels[Channel].sent
      BY <1>2 DEF Channels
    <2>2. channels' = [channels EXCEPT ![Channel] = closed]
      BY <1>5
    <2> HIDE DEF closed
    <2>3. /\ channels' \in Seq(Channels) /\ Len(channels') = Len(channels)
          /\ \A c \in 1 .. Len(channels) : channels'[c].sent = channels[c].sent
      BY <1>1, <1>2, <2>1, <2>2
    <2> QED
      BY <1>1, <1>5, <2>3, SessionsAreLeft
  <1>6. CASE /\ channels' = [channels EXCEPT ![Channel].sent = @ \o AllFamilies]
             /\ info' = NoInfo /\ owed' = Owing(Channel, ToSet(AllFamilies))
    <2>1. AllFamilies \in Seq(Families)
      BY PipeAssumption DEF AllFamilies
    <2> QED
      BY <1>1, <1>6, <2>1, Announced
  <1>7. CASE UNCHANGED << channels, info, owed >>
    BY <1>1, <1>7, SessionsAreLeft DEF SessionInv, SessionTypes
  <1> QED
    BY <1>3, <1>4, <1>5, <1>6, <1>7

-----------------------------------------------------------------------------
(* What a record may keep.                                                  *)

LEMMA ExposedMeans ==
    ASSUME NEW text \in Texts, \A i \in DOMAIN text.pieces : ~Sensitive(text.pieces[i].of)
    PROVE  Exposed(text) = {}
  BY DEF Exposed

LEMMA NoTextTypes == NoText \in Texts /\ Incoming(NoText) /\ Exposed(NoText) = {}
  <1>1. NoText \in Texts /\ DOMAIN NoText.pieces = {}
    <2>1. << >> \in Seq(Pieces) /\ DOMAIN << >> = {}
      OBVIOUS
    <2>2. NoText = [form |-> "none", pieces |-> << >>]
      BY DEF NoText
    <2>3. NoText.pieces = << >>
      BY <2>2, Zenon
    <2> QED
      BY <2>1, <2>2, <2>3, Zenon DEF Texts
  <1> QED
    BY <1>1, Zenon DEF Incoming, Exposed

\* The redaction leaves nothing the rules know.
LEMMA RedactedTexts ==
    ASSUME NEW text \in Texts
    PROVE  /\ RedactBody(text) \in Texts
           /\ Incoming(text) =>
                \A i \in DOMAIN RedactBody(text).pieces : ~Sensitive(RedactBody(text).pieces[i].of)
  <1> DEFINE now == [i \in DOMAIN text.pieces |-> IF Recognised(text.form, text.pieces[i]) THEN Hidden ELSE text.pieces[i]]
  <1>1. text.pieces \in Seq(Pieces)
    BY DEF Texts, Pieces
  <1>2. Hidden \in Pieces /\ Hidden.of = "redacted"
    <2>1. Hidden = [of |-> "redacted", whole |-> TRUE] /\ TRUE \in BOOLEAN
      BY DEF Hidden, Piece
    <2> QED
      BY <2>1, Zenon DEF Pieces, Known
  <1>3. \A i \in DOMAIN text.pieces : now[i] \in Pieces
    BY <1>1, <1>2
  <1>4. now \in Seq(Pieces)
    <2>1. Len(text.pieces) \in Nat /\ DOMAIN text.pieces = 1 .. Len(text.pieces)
      BY <1>1
    <2>2. now \in [1 .. Len(text.pieces) -> Pieces]
      BY <1>3, <2>1
    <2> HIDE DEF now
    <2> QED
      BY <2>1, <2>2, IsASeq
  <1>5. RedactBody(text) = [text EXCEPT !.pieces = now]
    BY DEF RedactBody
  <1>6. DOMAIN now = DOMAIN text.pieces
    OBVIOUS
  <1>7. ASSUME Incoming(text), NEW i \in DOMAIN text.pieces PROVE ~Sensitive(now[i].of)
    <2>1. text.pieces[i].whole /\ (text.pieces[i].of = "keyed" => text.form = "json")
      BY <1>7 DEF Incoming
    <2>2. CASE Recognised(text.form, text.pieces[i])
      <3>1. now[i].of = "redacted"
        BY <1>2, <2>2
      <3> QED
        BY <3>1, CaptureAssumption DEF Sensitive
    <2>3. CASE ~Recognised(text.form, text.pieces[i])
      <3>1. now[i].of = text.pieces[i].of
        BY <2>3
      <3> QED
        BY <2>1, <2>3, <3>1 DEF Sensitive, Recognised
    <2> QED
      BY <2>2, <2>3
  <1> HIDE DEF now
  <1>8. RedactBody(text) \in Texts /\ RedactBody(text).pieces = now
    BY <1>4, <1>5, <1>1 DEF Texts, Pieces
  <1> QED
    BY <1>6, <1>7, <1>8

\* A cut shows no more than the text it is cut from.
LEMMA CutTexts ==
    ASSUME NEW text \in Texts
    PROVE  /\ Truncate(text) \in Texts
           /\ \A i \in DOMAIN Truncate(text).pieces :
                 \E j \in DOMAIN text.pieces : Truncate(text).pieces[i].of = text.pieces[j].of
  <1> DEFINE p == text.pieces
  <1>1. p \in Seq(Pieces) /\ Len(p) \in Nat /\ DOMAIN p = 1 .. Len(p)
    BY DEF Texts, Pieces
  <1>2. Room \in Nat \ {0}
    BY CaptureAssumption
  <1>3. CASE Len(p) <= Room
    BY <1>3 DEF Truncate
  <1>4. CASE ~(Len(p) <= Room)
    <2> DEFINE last == [p[Room + 1] EXCEPT !.whole = FALSE]
               kept == SubSeq(p, 1, Room)
               cut == kept \o << last >>
    <2>1. Room + 1 \in DOMAIN p /\ p[Room + 1] \in Pieces
      BY <1>1, <1>2, <1>4
    <2>2. last \in Pieces /\ last.of = p[Room + 1].of
      BY <2>1 DEF Pieces
    <2> HIDE DEF p, last
    <2>3. kept \in Seq(Pieces) /\ Len(kept) = Room /\ \A i \in 1 .. Room : kept[i] = p[i]
      BY <1>1, <1>2, <1>4, SubSeqProperties
    <2> HIDE DEF kept
    <2>4. << last >> \in Seq(Pieces) /\ Len(<< last >>) = 1 /\ << last >>[1] = last
      BY <2>2
    <2>5. /\ cut \in Seq(Pieces) /\ Len(cut) = Room + 1 /\ DOMAIN cut = 1 .. Room + 1
          /\ \A i \in 1 .. Room + 1 : cut[i] = IF i <= Room THEN kept[i] ELSE << last >>[i - Room]
      BY <1>2, <2>3, <2>4, ConcatProperties
    <2>6. ASSUME NEW i \in DOMAIN cut PROVE \E j \in DOMAIN p : cut[i].of = p[j].of
      <3>1. CASE i <= Room
        BY <1>1, <1>2, <1>4, <2>3, <2>5, <3>1
      <3>2. CASE i = Room + 1
        <4>1. cut[i] = last
          BY <1>2, <2>4, <2>5, <3>2
        <4> QED
          BY <2>1, <2>2, <4>1
      <3> QED
        BY <1>2, <2>5, <3>1, <3>2
    <2>7. Truncate(text) = [form |-> "cut", pieces |-> cut]
      BY <1>4 DEF Truncate, p, kept, last
    <2> HIDE DEF cut
    <2>8. Truncate(text) \in Texts /\ Truncate(text).pieces = cut
      <3>1. cut \in Seq(Pieces)
        BY <2>5 DEF Pieces
      <3> QED
        BY <2>7, <3>1 DEF Texts
    <2> QED
      BY <2>6, <2>8 DEF p
  <1> QED
    BY <1>3, <1>4

LEMMA StoredTexts ==
    ASSUME NEW text \in Texts, Incoming(text)
    PROVE  /\ Stored(text) \in Texts
           /\ Bodies = "redacted" => Exposed(Stored(text)) = {}
           /\ text.form # "json" => StoredError(text) = Stored(text)
  <1> DEFINE redacted == RedactBody(text)
  <1>1. redacted \in Texts /\ \A i \in DOMAIN redacted.pieces : ~Sensitive(redacted.pieces[i].of)
    BY RedactedTexts
  <1> HIDE DEF redacted
  <1>2. Truncate(redacted) \in Texts /\ Exposed(Truncate(redacted)) = {}
    <2>1. /\ Truncate(redacted) \in Texts
          /\ \A i \in DOMAIN Truncate(redacted).pieces : ~Sensitive(Truncate(redacted).pieces[i].of)
      BY <1>1, CutTexts
    <2> QED
      BY <2>1, ExposedMeans
  <1>3. Truncate(text) \in Texts
    BY CutTexts
  <1>4. text.form # "json" => RedactText(text) = RedactBody(text)
    <2>1. text.form # "json" => \A piece : Recognised("text", piece) <=> Recognised(text.form, piece)
      BY DEF Recognised
    <2> QED
      BY <2>1 DEF RedactText, RedactBody
  <1> QED
    BY <1>2, <1>3, <1>4 DEF Stored, StoredError, redacted

-----------------------------------------------------------------------------
(* Records.                                                                 *)

Kinds == {"denied", "throttled"} \cup {Asks[r].family : r \in Requests}
TrafficRecords ==
    [id : Requests \X Kinds, day : Nat, kind : Kinds, ok : BOOLEAN, client : {Client(Asks[r]) : r \in Requests},
     args : Texts, response : Texts, error : Texts, bodies : {"full", Bodies}]
Uncut(record) == record.error.form # "json" /\ \A f \in BodyFields : Incoming(record[f])
Clean(record) ==
    \A f \in BodyFields :
        /\ Bodies = "off" => record[f] = NoText
        /\ Bodies = "redacted" => Exposed(record[f]) = {}

LEMMA RecordTypes ==
    ASSUME NEW record \in TrafficRecords
    PROVE  /\ record.id \in Requests \X Kinds /\ record.id[1] \in Requests /\ record.day \in Nat
           /\ ~IsMarker(record)
           /\ record.args \in Texts /\ record.response \in Texts /\ record.error \in Texts
  BY DEF TrafficRecords, IsMarker

LEMMA MarkerIsNone == Marker \notin TrafficRecords /\ IsMarker(Marker)
  <1>1. IsMarker(Marker)
    BY DEF Marker, IsMarker
  <1> QED
    BY <1>1, RecordTypes

LEMMA RecordMakes ==
    ASSUME NEW r \in Requests, NEW kind \in Kinds, NEW ok \in BOOLEAN, today \in Nat,
           NEW args \in Texts, NEW response \in Texts, NEW error \in Texts,
           Incoming(args), Incoming(response), Incoming(error), error.form # "json"
    PROVE  /\ Record(r, kind, ok, args, response, error) \in TrafficRecords
           /\ Record(r, kind, ok, args, response, error).id = << r, kind >>
           /\ Record(r, kind, ok, args, response, error).day = today
           /\ Uncut(Record(r, kind, ok, args, response, error))
  <1> DEFINE record == Record(r, kind, ok, args, response, error)
  <1>1. record = [id |-> << r, kind >>, day |-> today, kind |-> kind, ok |-> ok, client |-> Client(Asks[r]),
                  args |-> args, response |-> response, error |-> error, bodies |-> "full"]
    BY Zenon DEF Record
  <1> HIDE DEF record
  <1>2. << r, kind >> \in Requests \X Kinds /\ Client(Asks[r]) \in {Client(Asks[q]) : q \in Requests}
    OBVIOUS
  <1>3. record \in TrafficRecords
    BY <1>1, <1>2, Zenon DEF TrafficRecords
  <1>4. record.id = << r, kind >> /\ record.day = today
    BY <1>1, Zenon
  <1>5. record.args = args /\ record.response = response /\ record.error = error
    BY <1>1, Zenon
  <1>6. Uncut(record)
    BY <1>5 DEF Uncut, BodyFields
  <1> QED
    BY <1>3, <1>4, <1>6 DEF record

\* What is queued for the writer says whose it is, and nothing it may not.
LEMMA AppliedRecords ==
    ASSUME NEW record \in TrafficRecords, Uncut(record)
    PROVE  /\ Applied(record) \in TrafficRecords
           /\ Applied(record).id = record.id /\ Applied(record).day = record.day
           /\ Clean(Applied(record))
  <1>1. CASE ~HasBody(record)
    <2>1. Applied(record) = record
      BY <1>1 DEF Applied
    <2>2. Clean(record)
      BY <1>1, NoTextTypes DEF HasBody, Clean
    <2> QED
      BY <2>1, <2>2
  <1>2. CASE HasBody(record)
    <2> DEFINE kept(text) == IF Bodies = "off" THEN NoText ELSE Stored(text)
               args == kept(record.args)
               response == kept(record.response)
               error == IF Bodies = "off" THEN NoText ELSE StoredError(record.error)
    <2>1. ASSUME NEW text \in Texts, Incoming(text)
          PROVE  /\ kept(text) \in Texts
                 /\ Bodies = "off" => kept(text) = NoText
                 /\ Bodies = "redacted" => Exposed(kept(text)) = {}
      BY <2>1, StoredTexts, NoTextTypes
    <2>2. /\ record.args \in Texts /\ record.response \in Texts /\ record.error \in Texts
          /\ Incoming(record.args) /\ Incoming(record.response) /\ Incoming(record.error)
          /\ record.error.form # "json"
      BY RecordTypes DEF Uncut, BodyFields
    <2>3. Applied(record) = [record EXCEPT !.bodies = Bodies, !.args = args, !.response = response, !.error = error]
      BY <1>2 DEF Applied
    <2>4. /\ args \in Texts /\ response \in Texts /\ error \in Texts
          /\ Bodies = "off" => args = NoText /\ response = NoText /\ error = NoText
          /\ Bodies = "redacted" => Exposed(args) = {} /\ Exposed(response) = {} /\ Exposed(error) = {}
      <3>1. error = kept(record.error)
        BY <2>2, StoredTexts
      <3> HIDE DEF kept, error
      <3> QED
        BY <2>1, <2>2, <3>1
    <2> HIDE DEF args, response, error
    <2>5. /\ Applied(record) \in TrafficRecords
          /\ Applied(record).id = record.id /\ Applied(record).day = record.day
          /\ Applied(record).args = args /\ Applied(record).response = response /\ Applied(record).error = error
      BY <2>3, <2>4 DEF TrafficRecords
    <2>6. Clean(Applied(record))
      BY <2>4, <2>5 DEF Clean, BodyFields
    <2> QED
      BY <2>5, <2>6
  <1> QED
    BY <1>1, <1>2

-----------------------------------------------------------------------------
(* The files and their retention.                                           *)

LEMMA DailyNames ==
    ASSUME NEW day \in Nat
    PROVE  IsDailyName(DailyName(day)) /\ DailyName(day) # Foreign /\ ~IsDailyName(Foreign)
  <1>1. \E y, m, d : DailyName(day) = << y, m, d >>
    BY CivilName
  <1> QED
    BY <1>1 DEF IsDailyName, Foreign

\* No day has the name of another.
LEMMA NamesDiffer ==
    ASSUME NEW d \in Nat, NEW x \in Nat, d < x
    PROVE  DailyName(d) # DailyName(x)
  BY NamesInOrder

\* The cutoff is the name of the first day the window keeps.
LEMMA Window ==
    ASSUME NEW old \in Nat, NEW day \in Nat, NEW names, RetainDays # 0, DailyName(old) \in names
    PROVE  DailyName(old) \in Prunable(names, day) <=> old + RetainDays <= day
  <1> DEFINE first == IF day < RetainDays - 1 THEN 0 ELSE day - (RetainDays - 1)
  <1>1. RetainDays \in Nat /\ RetainDays # 0
    BY CaptureAssumption
  <1>2. first \in Nat /\ (old < first <=> old + RetainDays <= day)
    BY <1>1
  <1>3. Cutoff(day) = DailyName(first)
    BY DEF Cutoff
  <1> HIDE DEF first
  <1>4. Before(DailyName(old), DailyName(first)) <=> old < first
    <2>1. CASE old < first
      BY <1>2, <2>1, NamesInOrder
    <2>2. CASE first < old
      <3>1. ~Before(DailyName(old), DailyName(first))
        BY <1>2, <2>2, NamesInOrder
      <3> QED
        BY <1>2, <2>2, <3>1
    <2>3. CASE first = old
      <3>1. \E y, m, d \in Int : DailyName(old) = << y, m, d >>
        <4>1. CivilYear(old) \in Int /\ CivilDay(old) \in Nat /\ CivilDay(old) <= 365
          BY DatesInOrder
        <4> QED
          BY <4>1, CivilName, MonthsInOrder DEF CivilMonth
      <3>2. PICK y, m, d \in Int : DailyName(old) = << y, m, d >>
        BY <3>1
      <3>3. ~Before(<< y, m, d >>, << y, m, d >>)
        BY DEF Before
      <3> QED
        BY <1>2, <2>3, <3>2, <3>3
    <2> QED
      BY <1>2, <2>1, <2>2, <2>3
  <1>5. IsDailyName(DailyName(old))
    BY DailyNames
  <1> QED
    BY <1>1, <1>2, <1>3, <1>4, <1>5 DEF Prunable

-----------------------------------------------------------------------------
(* The log: what is in it, and what it still owes.                          *)

Messages == TrafficRecords \cup {Marker}
LogTypes ==
    /\ today \in FirstDay .. FirstDay + MaxDays
    /\ queue \in Seq(Messages) /\ Len(queue) <= QueueDepth
    /\ \A n \in DOMAIN files : files[n] \in Seq(TrafficRecords)
    /\ prunedDay \in Nat /\ prunedDay <= today
    /\ pruneFailed \in BOOLEAN

\* The record of a request: built before it is appended, and then kept.
Recording(r) ==
    /\ req[r].at \in Unread => req[r].record = Absent
    /\ req[r].at = "append" =>
          /\ req[r].record \in TrafficRecords /\ Uncut(req[r].record)
          /\ req[r].record.id[1] = r /\ req[r].record.day <= today
    /\ req[r].at \in LoggedPlaces =>
          \/ req[r].record = Absent
          \/ req[r].record \in TrafficRecords /\ req[r].record.day <= today

\* What was queued or written is of a request that appended it, and its
\* place is its day's.
Entered(record) == record.day <= today /\ Clean(record) /\ req[record.id[1]].at \in LoggedPlaces
Queued == {i \in 1 .. Len(queue) : ~IsMarker(queue[i])}
Entries ==
    /\ \A i \in Queued : Entered(queue[i])
    /\ \A n \in DOMAIN files : \A i \in DOMAIN files[n] :
          Entered(files[n][i]) /\ n = DailyName(files[n][i].day)

\* No record twice, neither in the queue nor in a file nor in both.
Once ==
    /\ \A i, j \in Queued : queue[i].id = queue[j].id => i = j
    /\ \A n \in DOMAIN files : \A i \in DOMAIN files[n] :
          /\ \A j \in DOMAIN files[n] : files[n][i].id = files[n][j].id => i = j
          /\ \A j \in Queued : files[n][i].id # queue[j].id

\* A record appended was dropped, or could not be written, or is past, or is
\* on its way, or in its file.
Filed(record) ==
    LET name == DailyName(record.day)
    IN name \in DOMAIN files /\ \E i \in DOMAIN files[name] : files[name][i].id = record.id
Accounted(r) ==
    req[r].at \in LoggedPlaces /\ req[r].record # Absent =>
        \/ req[r].record.id \in dropped \cup lost
        \/ RetainDays # 0 /\ req[r].record.day + RetainDays <= today
        \/ \E i \in Queued : queue[i].id = req[r].record.id /\ queue[i].day = req[r].record.day
        \/ Filed(req[r].record)

LogInv ==
    /\ LogTypes /\ Entries /\ Once /\ RetentionHolds
    /\ \A r \in Requests : Recording(r) /\ Accounted(r)

LEMMA LogFacts ==
    ASSUME LogTypes
    PROVE  /\ today \in Nat /\ Len(queue) \in Nat /\ DOMAIN queue = 1 .. Len(queue)
           /\ \A i \in 1 .. Len(queue) : queue[i] \in Messages
           /\ \A i \in Queued : queue[i] \in TrafficRecords
           /\ \A n \in DOMAIN files : /\ files[n] \in Seq(TrafficRecords)
                                      /\ DOMAIN files[n] = 1 .. Len(files[n]) /\ Len(files[n]) \in Nat
                                      /\ \A i \in DOMAIN files[n] : files[n][i] \in TrafficRecords
           /\ queue \in Seq(Messages)
  <1>1. today \in Nat
    BY CaptureAssumption DEF LogTypes
  <1>2. queue \in Seq(Messages) /\ \A n \in DOMAIN files : files[n] \in Seq(TrafficRecords)
    BY DEF LogTypes
  <1>3. /\ Len(queue) \in Nat /\ DOMAIN queue = 1 .. Len(queue)
        /\ \A i \in 1 .. Len(queue) : queue[i] \in Messages
    BY <1>2
  <1>4. \A i \in Queued : queue[i] \in TrafficRecords
    BY <1>3, MarkerIsNone DEF Queued, Messages
  <1>5. ASSUME NEW n \in DOMAIN files
        PROVE  /\ files[n] \in Seq(TrafficRecords)
               /\ DOMAIN files[n] = 1 .. Len(files[n]) /\ Len(files[n]) \in Nat
               /\ \A i \in DOMAIN files[n] : files[n][i] \in TrafficRecords
    <2>1. files[n] \in Seq(TrafficRecords)
      BY <1>2
    <2> QED
      BY <2>1
  <1> QED
    BY <1>1, <1>2, <1>3, <1>4, <1>5

LEMMA LogBegins ==
    ASSUME CaptureInit, PipeInit
    PROVE  LogInv
  <1> DEFINE names == {DailyName(day) : day \in Leftovers} \cup {Foreign}
             kept == names \ Prunable(names, FirstDay)
  <1>1. /\ today = FirstDay /\ queue = << >> /\ prunedDay = FirstDay /\ pruneFailed = FALSE
        /\ files = [n \in kept |-> << >>]
    BY DEF CaptureInit
  <1>2. FirstDay \in Nat /\ MaxDays \in Nat /\ QueueDepth \in Nat /\ RetainDays \in Nat /\ Leftovers \subseteq Nat
    BY CaptureAssumption
  <1> HIDE DEF kept
  <1>3. Queued = {} /\ Len(queue) = 0
    BY <1>1 DEF Queued
  <1>4. DOMAIN files = kept /\ \A n \in DOMAIN files : files[n] = << >> /\ DOMAIN files[n] = {}
    BY <1>1
  <1>5. LogTypes
    <2>1. queue \in Seq(Messages)
      BY <1>1
    <2>2. \A n \in DOMAIN files : files[n] \in Seq(TrafficRecords)
      <3>1. << >> \in Seq(TrafficRecords)
        OBVIOUS
      <3> QED
        BY <1>4, <3>1, Zenon
    <2>3. /\ today \in FirstDay .. FirstDay + MaxDays /\ Len(queue) <= QueueDepth
          /\ prunedDay \in Nat /\ prunedDay <= today
      BY <1>1, <1>2, <1>3
    <2>4. pruneFailed \in BOOLEAN
      BY <1>1
    <2> QED
      BY <2>1, <2>2, <2>3, <2>4 DEF LogTypes
  <1>6. Entries /\ Once
    BY <1>3, <1>4 DEF Entries, Once
  <1>7. RetentionHolds
    <2>1. Foreign \in kept
      BY <1>2, DailyNames DEF kept, Prunable
    <2>2. ASSUME NEW old \in Leftovers \cup FirstDay .. today, RetainDays # 0, old + RetainDays <= FirstDay,
                 DailyName(old) \in kept
          PROVE  FALSE
      <3>1. old \in Nat
        BY <1>1, <1>2
      <3>2. DailyName(old) \in names /\ DailyName(old) \notin Prunable(names, FirstDay)
        BY <2>2 DEF kept
      <3> HIDE DEF names
      <3> QED
        BY <1>2, <2>2, <3>1, <3>2, Window
    <2> QED
      BY <1>1, <1>4, <2>1, <2>2 DEF RetentionHolds, Stale, Past
  <1>8. ASSUME NEW r \in Requests PROVE Recording(r) /\ Accounted(r)
    <2>1. req[r].at \in {"new", "never"} /\ req[r].record = Absent
      BY <1>8 DEF PipeInit, Unasked
    <2> QED
      BY <2>1 DEF Recording, Accounted, Unread, LoggedPlaces
  <1> QED
    BY <1>5, <1>6, <1>7, <1>8 DEF LogInv

\* A step that does not touch the log, and forgets no record.
LEMMA LogIsLeft ==
    ASSUME LogInv, UNCHANGED captureVars,
           \A r \in Requests :
              /\ Recording(r)'
              /\ IF req[r].at \in LoggedPlaces THEN req'[r].at \in LoggedPlaces /\ req'[r].record = req[r].record
                 ELSE req'[r].at \notin LoggedPlaces \/ req'[r].record = Absent
    PROVE  LogInv'
  <1>1. /\ today' = today /\ queue' = queue /\ dropped' = dropped /\ lost' = lost /\ files' = files
        /\ prunedDay' = prunedDay /\ pruneFailed' = pruneFailed
    BY DEF captureVars
  <1>2. LogTypes' /\ RetentionHolds' /\ Queued' = Queued
    BY <1>1 DEF LogInv, LogTypes, RetentionHolds, Stale, Past, Queued
  <1>3. Once'
    BY <1>1, <1>2 DEF LogInv, Once
  <1>4. ASSUME NEW record \in TrafficRecords, Entered(record) PROVE Entered(record)'
    BY <1>1, <1>4, RecordTypes DEF Entered
  <1>5. Entries'
    <2>1. \A i \in Queued : queue[i] \in TrafficRecords
      BY LogFacts DEF LogInv
    <2>2. \A n \in DOMAIN files : \A i \in DOMAIN files[n] : files[n][i] \in TrafficRecords
      BY LogFacts DEF LogInv
    <2> QED
      BY <1>1, <1>2, <1>4, <2>1, <2>2 DEF LogInv, Entries
  <1>6. ASSUME NEW r \in Requests PROVE Recording(r)' /\ Accounted(r)'
    <2>1. Accounted(r)
      BY DEF LogInv
    <2> QED
      BY <1>1, <1>2, <2>1 DEF Accounted, Filed
  <1> QED
    BY <1>2, <1>3, <1>5, <1>6 DEF LogInv

\* A step of one request, seen from the log.
KeepsTheLog(r) ==
    /\ UNCHANGED captureVars
    /\ Recording(r)'
    /\ IF req[r].at \in LoggedPlaces THEN req'[r].at \in LoggedPlaces /\ req'[r].record = req[r].record
       ELSE req'[r].at \notin LoggedPlaces \/ req'[r].record = Absent

LEMMA PassesOn ==
    ASSUME LogInv, NEW r \in Requests, UNCHANGED captureVars,
           NEW place, req'[r].at = place, req'[r].record = req[r].record,
           \/ req[r].at \in Unread /\ place \in Unread \cup LoggedPlaces
           \/ req[r].at \in LoggedPlaces /\ place \in LoggedPlaces
           \/ place = "gone" /\ req[r].at \in Unread
    PROVE  KeepsTheLog(r)
  <1>1. Recording(r) /\ today' = today
    BY DEF LogInv, captureVars
  <1> QED
    BY <1>1 DEF KeepsTheLog, Recording, Unread, LoggedPlaces

\* A record is made of what the request asked and got.
LEMMA MakesRecord ==
    ASSUME LogInv, NEW r \in Requests, UNCHANGED captureVars, req[r].at \in Unread,
           NEW kind \in Kinds, NEW ok \in BOOLEAN,
           NEW args \in {NoText, Asks[r].args}, NEW response \in {NoText, Asks[r].response},
           NEW error \in {NoText, Asks[r].error},
           req'[r].at = "append", req'[r].record = Record(r, kind, ok, args, response, error)
    PROVE  KeepsTheLog(r)
  <1>1. /\ args \in Texts /\ Incoming(args) /\ response \in Texts /\ Incoming(response)
        /\ error \in Texts /\ Incoming(error) /\ error.form # "json"
    <2>1. Asks[r].error.form # "json" /\ \A f \in BodyFields : Asks[r][f] \in Texts /\ Incoming(Asks[r][f])
      BY PipeAssumption
    <2> QED
      BY <2>1, NoTextTypes DEF BodyFields, NoText
  <1>2. today \in Nat /\ today' = today
    BY LogFacts DEF LogInv, captureVars
  <1> DEFINE record == Record(r, kind, ok, args, response, error)
  <1>3. record \in TrafficRecords /\ record.id = << r, kind >> /\ record.day = today /\ Uncut(record)
    BY <1>1, <1>2, RecordMakes
  <1> HIDE DEF record
  <1>4. record.id[1] = r
    BY <1>3
  <1>5. req'[r].at = "append" /\ req'[r].record = record
    BY DEF record
  <1>6. Recording(r)'
    <2>1. req'[r].record \in TrafficRecords /\ Uncut(req'[r].record) /\ req'[r].record.id[1] = r
      BY <1>3, <1>4, <1>5, Zenon
    <2>2. req'[r].record.day <= today'
      BY <1>2, <1>3, <1>5
    <2>3. req'[r].at = "append"
      BY <1>5
    <2> QED
      BY <2>1, <2>2, <2>3, Zenon DEF Recording, Unread, LoggedPlaces, Uncut
  <1> QED
    BY <1>5, <1>6 DEF KeepsTheLog, Unread, LoggedPlaces

LEMMA RequestKeepsTheLog ==
    ASSUME RequestInv, LogInv, NEW r \in Requests, Request(r), ~Recorded(r)
    PROVE  OthersStay(r) /\ KeepsTheLog(r)
  <1>1. RequestShape
    BY DEF RequestInv
  <1>2. UNCHANGED captureVars
    BY DEF Request, Arrive, ReadServer, JudgeCall, Acquire, AnswerCall, AnswerPage, FailCall, ClientGone, Recorded,
           FilterList, OnlyReq
  <1>3. KindOf(r) \in Kinds /\ "denied" \in Kinds /\ "throttled" \in Kinds
    BY DEF KindOf, Kinds
  <1>4. CASE Arrive(r)
    <2>1. OthersStay(r) /\ req[r].at = "new"
      BY <1>1, <1>4, ArriveDoes
    <2>2. PICK place \in {"rejected", "refusal", "acquire", "answered"} :
              req'[r].at = place /\ req'[r].record = req[r].record
      BY <1>1, <1>4, ArriveDoes DEF Stays, IsNow
    <2> QED
      BY <1>2, <2>1, <2>2, PassesOn DEF Unread, LoggedPlaces
  <1>5. CASE ReadServer(r)
    <2>1. OthersStay(r)
      BY <1>1, <1>5, ReadServerDoes
    <2>2. PICK place \in {"refusal scope", "filter scope"} :
              /\ req[r].at = (IF place = "filter scope" THEN "filter" ELSE "refusal")
              /\ req'[r].at = place /\ req'[r].record = req[r].record
      BY <1>1, <1>5, ReadServerDoes DEF IsNow
    <2> QED
      BY <1>2, <2>1, <2>2, PassesOn DEF Unread, LoggedPlaces
  <1>6. CASE JudgeCall(r)
    <2>1. OthersStay(r) /\ req[r].at = "refusal scope"
      BY <1>1, <1>6, JudgeCallDoes
    <2>2. CASE req'[r].at = "acquire" /\ req'[r].record = req[r].record
      BY <1>2, <2>1, <2>2, PassesOn DEF Unread, LoggedPlaces
    <2>3. ASSUME NEW kind \in {"denied", "throttled"}, req'[r].at = "append",
                 req'[r].record = Record(r, kind, FALSE, NoText, NoText, Asks[r].error)
          PROVE  KeepsTheLog(r)
      BY <1>2, <1>3, <2>1, <2>3, MakesRecord DEF Unread
    <2> QED
      BY <1>1, <1>6, <2>1, <2>2, <2>3, JudgeCallDoes DEF IsNow
  <1>7. ASSUME req[r].at \in {"acquire", "calling"}, req'[r].at = "append", req'[r].record = Failed(r)
        PROVE  KeepsTheLog(r)
    BY <1>2, <1>3, <1>7, MakesRecord DEF Unread, Failed
  <1>8. CASE Acquire(r)
    <2>1. OthersStay(r) /\ req[r].at = "acquire"
      BY <1>1, <1>8, AcquireDoes
    <2>2. CASE req'[r].at = "calling" /\ req'[r].record = req[r].record
      BY <1>2, <2>1, <2>2, PassesOn DEF Unread, LoggedPlaces
    <2> QED
      BY <1>1, <1>7, <1>8, <2>1, <2>2, AcquireDoes DEF Stays, IsNow
  <1>9. CASE AnswerCall(r)
    <2>1. /\ OthersStay(r) /\ req[r].at = "calling" /\ req'[r].at = "append"
          /\ req'[r].record = Record(r, KindOf(r), TRUE, Asks[r].args, Asks[r].response, NoText)
      BY <1>1, <1>9, AnswerCallDoes DEF IsNow
    <2> QED
      BY <1>2, <1>3, <2>1, MakesRecord DEF Unread
  <1>10. CASE AnswerPage(r)
    <2>1. OthersStay(r) /\ req[r].at = "calling"
      BY <1>1, <1>10, AnswerPageDoes
    <2>2. CASE req'[r].at = "calling" /\ req'[r].record = req[r].record
      BY <1>2, <2>1, <2>2, PassesOn DEF Unread, LoggedPlaces
    <2>3. CASE req'[r].at = "append" /\ req'[r].record = Record(r, KindOf(r), TRUE, NoText, NoText, NoText)
      BY <1>2, <1>3, <2>1, <2>3, MakesRecord DEF Unread
    <2> QED
      BY <1>1, <1>10, <2>1, <2>2, <2>3, AnswerPageDoes DEF IsNow
  <1>11. CASE FailCall(r)
    BY <1>1, <1>7, <1>11, FailCallDoes DEF IsNow
  <1>12. CASE ClientGone(r)
    <2>1. OthersStay(r) /\ req[r].at = "calling" /\ req'[r].at = "gone" /\ req'[r].record = req[r].record
      BY <1>1, <1>12, ClientGoneDoes DEF Stays, IsNow
    <2> QED
      BY <1>2, <2>1, PassesOn DEF Unread
  <1>13. CASE FilterList(r)
    <2>1. OthersStay(r) /\ req[r].at = "filter scope" /\ req'[r].at = "answered" /\ req'[r].record = req[r].record
      BY <1>1, <1>13, FilterListDoes DEF IsNow
    <2> QED
      BY <1>2, <2>1, PassesOn DEF LoggedPlaces
  <1> QED
    BY <1>4, <1>5, <1>6, <1>8, <1>9, <1>10, <1>11, <1>12, <1>13 DEF Request

\* A request that is not touched keeps what was entered of it.
LEMMA RequestsLogOn ==
    ASSUME RequestInv, LogInv, NEW r \in Requests, Request(r), ~Recorded(r)
    PROVE  LogInv'
  <1>1. OthersStay(r) /\ KeepsTheLog(r)
    BY RequestKeepsTheLog
  <1>2. UNCHANGED captureVars /\ today' = today
    BY <1>1 DEF KeepsTheLog, captureVars
  <1>3. ASSUME NEW q \in Requests
        PROVE  /\ Recording(q)'
               /\ IF req[q].at \in LoggedPlaces THEN req'[q].at \in LoggedPlaces /\ req'[q].record = req[q].record
                  ELSE req'[q].at \notin LoggedPlaces \/ req'[q].record = Absent
    <2>1. CASE q = r
      BY <1>1, <2>1 DEF KeepsTheLog
    <2>2. CASE q # r
      <3>1. req'[q] = req[q] /\ Recording(q)
        BY <1>1, <2>2 DEF OthersStay, LogInv
      <3> QED
        BY <1>2, <3>1 DEF Recording
    <2> QED
      BY <2>1, <2>2
  <1> QED
    BY <1>2, <1>3, LogIsLeft

\* Gateway::record: the record is queued, or counted as dropped.
LEMMA RecordedLogsOn ==
    ASSUME RequestInv, LogInv, NEW r \in Requests, Recorded(r)
    PROVE  LogInv'
  <1> DEFINE record == Applied(req[r].record)
  <1>1. /\ OthersStay(r) /\ req[r].at = "append" /\ AppendRecord(req[r].record)
        /\ req'[r].at \in LoggedPlaces /\ req'[r].record = req[r].record
    BY RecordedDoes DEF RequestInv, Stays, IsNow, LoggedPlaces
  <1>2. /\ req[r].record \in TrafficRecords /\ Uncut(req[r].record)
        /\ req[r].record.id[1] = r /\ req[r].record.day <= today
    BY <1>1 DEF LogInv, Recording
  <1>3. /\ record \in TrafficRecords /\ record.id = req[r].record.id /\ record.day = req[r].record.day
        /\ Clean(record)
    BY <1>2, AppliedRecords
  <1>4. /\ UNCHANGED << today, lost, files, prunedDay, pruneFailed, flushing >>
        /\ \/ Len(queue) < QueueDepth /\ queue' = Append(queue, record) /\ UNCHANGED dropped
           \/ dropped' = dropped \cup {req[r].record.id} /\ UNCHANGED queue
    BY <1>1 DEF AppendRecord
  <1> HIDE DEF record
  <1>5. record \in Messages /\ ~IsMarker(record)
    BY <1>3, RecordTypes DEF Messages
  <1>6. /\ Len(queue) \in Nat /\ \A i \in Queued : queue[i] \in TrafficRecords
        /\ \A n \in DOMAIN files : \A i \in DOMAIN files[n] : files[n][i] \in TrafficRecords
        /\ queue \in Seq(Messages) /\ Queued \subseteq 1 .. Len(queue)
    BY LogFacts DEF LogInv, Queued
  <1>7. /\ queue' \in Seq(Messages) /\ Len(queue') <= QueueDepth
        /\ \A i \in Queued : i \in Queued' /\ queue'[i] = queue[i]
        /\ \A i \in Queued' : (i \in Queued /\ queue'[i] = queue[i]) \/ (i = Len(queue) + 1 /\ queue'[i] = record)
    <2>1. CASE Len(queue) < QueueDepth /\ queue' = Append(queue, record)
      <3>1. /\ queue' \in Seq(Messages) /\ Len(queue') = Len(queue) + 1
            /\ \A i \in 1 .. Len(queue) : queue'[i] = queue[i]
            /\ queue'[Len(queue) + 1] = record
        BY <1>5, <1>6, <2>1, AppendProperties
      <3>2. Len(queue') <= QueueDepth
        BY <1>6, <2>1, <3>1, CaptureAssumption
      <3> QED
        BY <1>6, <3>1, <3>2 DEF Queued
    <2>2. CASE UNCHANGED queue
      BY <1>6, <2>2 DEF Queued, LogInv, LogTypes
    <2> QED
      BY <1>4, <2>1, <2>2
  <1> DEFINE stays(entry) == entry.day <= today' /\ Clean(entry) /\ req'[entry.id[1]].at \in LoggedPlaces
  <1>8. ASSUME NEW entry \in TrafficRecords, Entered(entry)
        PROVE  stays(entry) /\ entry.id # record.id
    <2>1. entry.id[1] # r /\ entry.id[1] \in Requests /\ entry.day <= today /\ Clean(entry)
          /\ req[entry.id[1]].at \in LoggedPlaces
      BY <1>1, <1>8, RecordTypes DEF Entered, LoggedPlaces
    <2>2. req'[entry.id[1]] = req[entry.id[1]]
      BY <1>1, <2>1 DEF OthersStay
    <2>3. entry.day <= today'
      BY <1>4, <2>1
    <2>4. entry.id # record.id
      BY <1>2, <1>3, <2>1
    <2> QED
      BY <2>1, <2>2, <2>3, <2>4
  <1>9. stays(record)
    <2>1. record.id[1] = r /\ record.day <= today'
      BY <1>2, <1>3, <1>4
    <2> QED
      BY <1>1, <1>3, <2>1
  <1>10. Entries'
    <2> HIDE DEF stays
    <2>1. \A i \in Queued' : stays(queue'[i])
      BY <1>6, <1>7, <1>8, <1>9 DEF LogInv, Entries
    <2>2. \A n \in DOMAIN files : \A i \in DOMAIN files[n] : stays(files[n][i]) /\ n = DailyName(files[n][i].day)
      BY <1>6, <1>8 DEF LogInv, Entries
    <2>3. \A n \in DOMAIN files' : \A i \in DOMAIN files'[n] :
            stays(files'[n][i]) /\ n = DailyName(files'[n][i].day)
      <3>1. files' = files
        BY <1>4
      <3> QED
        BY <2>2, <3>1
    <2> QED
      <3>1. (\A i \in Queued : Entered(queue[i]))'
        BY <2>1, Zenon DEF Entered, Clean, stays
      <3>2. (\A n \in DOMAIN files : \A i \in DOMAIN files[n] : Entered(files[n][i]) /\ n = DailyName(files[n][i].day))'
        BY <2>3, Zenon DEF Entered, Clean, stays
      <3> QED
        BY <3>1, <3>2, Zenon DEF Entries
  <1>11. Once'
    <2>1. \A i \in Queued : queue[i].id # record.id
      BY <1>6, <1>8 DEF LogInv, Entries
    <2>2. \A n \in DOMAIN files : \A i \in DOMAIN files[n] : files[n][i].id # record.id
      BY <1>6, <1>8 DEF LogInv, Entries
    <2>3. ASSUME NEW i \in Queued', NEW j \in Queued', queue'[i].id = queue'[j].id PROVE i = j
      BY <1>7, <2>1, <2>3 DEF LogInv, Once
    <2>4. ASSUME NEW n \in DOMAIN files, NEW i \in DOMAIN files[n]
          PROVE  /\ \A j \in DOMAIN files[n] : files[n][i].id = files[n][j].id => i = j
                 /\ \A j \in Queued' : files[n][i].id # queue'[j].id
      BY <1>7, <2>2 DEF LogInv, Once
    <2> QED
      BY <1>4, <2>3, <2>4 DEF Once
  <1>12. ASSUME NEW q \in Requests PROVE Recording(q)' /\ Accounted(q)'
    <2>1. CASE q = r
      <3>1. Recording(r)'
        BY <1>1, <1>2, <1>4 DEF Recording, Unread, LoggedPlaces
      <3>2. \/ req[r].record.id \in dropped'
            \/ \E i \in Queued' : queue'[i].id = req[r].record.id /\ queue'[i].day = req[r].record.day
        <4>1. CASE queue' = Append(queue, record)
          <5>1. Len(queue) + 1 \in Queued' /\ queue'[Len(queue) + 1] = record
            <6>1. /\ Len(queue') = Len(queue) + 1 /\ queue'[Len(queue) + 1] = record
              BY <1>5, <1>6, <4>1, AppendProperties
            <6> QED
              BY <1>5, <1>6, <6>1 DEF Queued
          <5> QED
            BY <1>3, <5>1
        <4> QED
          BY <1>4, <4>1
      <3> QED
        BY <1>1, <2>1, <3>1, <3>2 DEF Accounted
    <2>2. CASE q # r
      <3>1. req'[q] = req[q]
        BY <1>1, <2>2 DEF OthersStay
      <3>2. Recording(q)'
        BY <1>4, <3>1 DEF LogInv, Recording
      <3>3. Accounted(q)
        BY DEF LogInv
      <3>4. Filed(req[q].record) => Filed(req[q].record)'
        BY <1>4, <3>1 DEF Filed
      <3>5. dropped \cup lost \subseteq dropped' \cup lost'
        BY <1>4
      <3>6. today' = today
        BY <1>4
      <3>7. Accounted(q)'
        BY <1>7, <3>1, <3>3, <3>4, <3>5, <3>6 DEF Accounted
      <3> QED
        BY <3>2, <3>7
    <2> QED
      BY <2>1, <2>2
  <1>13. LogTypes' /\ RetentionHolds'
    BY <1>4, <1>7 DEF LogInv, LogTypes, RetentionHolds, Stale, Past
  <1> QED
    BY <1>10, <1>11, <1>12, <1>13 DEF LogInv

LEMMA TailOfQueue ==
    ASSUME LogTypes, queue # << >>, queue' = Tail(queue)
    PROVE  /\ Len(queue) \in Nat \ {0} /\ Head(queue) = queue[1]
           /\ queue' \in Seq(Messages) /\ Len(queue') = Len(queue) - 1
           /\ \A i \in 1 .. Len(queue') : queue'[i] = queue[i + 1]
           /\ Queued \subseteq 1 .. Len(queue)
           /\ \A i \in Queued' : i + 1 \in Queued /\ i \in Nat \ {0} /\ queue'[i] = queue[i + 1]
           /\ \A i \in Queued : i # 1 => i - 1 \in Queued' /\ queue'[i - 1] = queue[i]
  <1>1. queue \in Seq(Messages) /\ Len(queue) \in Nat
    BY LogFacts
  <1>2. Len(queue) \in Nat \ {0}
    BY <1>1
  <1>3. /\ queue' \in Seq(Messages) /\ Len(queue') = Len(queue) - 1 /\ Head(queue) = queue[1]
        /\ \A i \in 1 .. Len(queue') : queue'[i] = queue[i + 1]
    BY <1>1, <1>2, HeadTailProperties
  <1>4. ASSUME NEW i \in Queued' PROVE i + 1 \in Queued /\ i \in Nat \ {0} /\ queue'[i] = queue[i + 1]
    BY <1>2, <1>3 DEF Queued
  <1>5. ASSUME NEW i \in Queued, i # 1 PROVE i - 1 \in Queued' /\ queue'[i - 1] = queue[i]
    <2>1. i \in 1 .. Len(queue) /\ ~IsMarker(queue[i])
      BY DEF Queued
    <2>2. i - 1 \in 1 .. Len(queue') /\ (i - 1) + 1 = i
      BY <1>2, <1>3, <1>5, <2>1
    <2>3. queue'[i - 1] = queue[i]
      BY <1>3, <2>2
    <2> QED
      BY <2>1, <2>2, <2>3 DEF Queued
  <1> QED
    BY <1>2, <1>3, <1>4, <1>5 DEF Queued

\* What the writer thread does to the files: the day's file gets the record,
\* what is due to go goes, nothing else changes.
LEMMA WriteDoes ==
    ASSUME LogTypes, NEW pruneWorks \in BOOLEAN, NEW writeWorks \in BOOLEAN, WriteRecord(pruneWorks, writeWorks),
           NEW record, record = queue[1], NEW kept, kept = Pruned(DOMAIN files, record.day, pruneWorks)
    PROVE  /\ 1 \in Queued /\ record \in TrafficRecords /\ queue # << >> /\ queue' = Tail(queue)
           /\ UNCHANGED << today, dropped, flushing >> /\ Prune(record.day, pruneWorks)
           /\ lost' = IF writeWorks THEN lost ELSE lost \cup {record.id}
           /\ kept \subseteq DOMAIN files /\ kept \subseteq DOMAIN files'
           /\ DOMAIN files' \subseteq kept \cup {DailyName(record.day)}
           /\ \A n \in DOMAIN files' : files'[n] \in Seq(TrafficRecords)
           /\ \A n \in DOMAIN files' : \A i \in DOMAIN files'[n] :
                 \/ n \in DOMAIN files /\ i \in DOMAIN files[n] /\ files'[n][i] = files[n][i]
                 \/ n = DailyName(record.day) /\ i = Len(files'[n]) /\ files'[n][i] = record
           /\ \A n \in kept : \A i \in DOMAIN files[n] : i \in DOMAIN files'[n] /\ files'[n][i] = files[n][i]
           /\ writeWorks => /\ DailyName(record.day) \in DOMAIN files'
                            /\ \E i \in DOMAIN files'[DailyName(record.day)] : files'[DailyName(record.day)][i] = record
  <1> DEFINE name == DailyName(record.day)
             old(n) == IF n \in kept THEN files[n] ELSE << >>
  <1>1. queue # << >> /\ ~IsMarker(queue[1]) /\ queue' = Tail(queue) /\ Head(queue) = queue[1]
    BY HeadTailProperties, LogFacts DEF WriteRecord
  <1>2. 1 \in Queued /\ record \in TrafficRecords
    BY <1>1, LogFacts DEF Queued
  <1>3. /\ files' = [n \in kept \cup (IF writeWorks THEN {name} ELSE {}) |->
                       IF n = name /\ writeWorks THEN Append(old(n), record) ELSE old(n)]
        /\ lost' = IF writeWorks THEN lost ELSE lost \cup {record.id}
        /\ Prune(record.day, pruneWorks) /\ UNCHANGED << today, dropped, flushing >>
    BY <1>1, Zenon DEF WriteRecord
  <1>4. kept \subseteq DOMAIN files
    BY DEF Pruned
  <1> HIDE DEF name
  <1>5. ASSUME NEW n PROVE old(n) \in Seq(TrafficRecords)
    BY <1>4, LogFacts
  <1>6. \A n \in kept : old(n) = files[n]
    OBVIOUS
  <1>7. \A n : DOMAIN old(n) # {} => n \in kept
    OBVIOUS
  <1>8. /\ DOMAIN files' = kept \cup (IF writeWorks THEN {name} ELSE {})
        /\ \A n \in DOMAIN files' : files'[n] = IF n = name /\ writeWorks THEN Append(old(n), record) ELSE old(n)
    BY <1>3
  <1> HIDE DEF old
  <1>9. ASSUME NEW n \in DOMAIN files'
        PROVE  /\ files'[n] \in Seq(TrafficRecords)
               /\ \A i \in DOMAIN old(n) : i \in DOMAIN files'[n] /\ files'[n][i] = old(n)[i]
               /\ \A i \in DOMAIN files'[n] :
                     \/ i \in DOMAIN old(n) /\ files'[n][i] = old(n)[i]
                     \/ n = name /\ i = Len(files'[n]) /\ files'[n][i] = record
               /\ n = name /\ writeWorks => Len(files'[n]) \in DOMAIN files'[n] /\ files'[n][Len(files'[n])] = record
    <2>1. CASE n = name /\ writeWorks
      <3>1. files'[n] = Append(old(n), record) /\ old(n) \in Seq(TrafficRecords) /\ Len(old(n)) \in Nat
        <4>1. files'[n] = Append(old(n), record)
          BY <1>8, <2>1, Zenon
        <4>2. old(n) \in Seq(TrafficRecords)
          BY <1>5
        <4> QED
          BY <4>1, <4>2
      <3>2. /\ files'[n] \in Seq(TrafficRecords) /\ Len(files'[n]) = Len(old(n)) + 1
            /\ \A i \in 1 .. Len(old(n)) : files'[n][i] = old(n)[i]
            /\ files'[n][Len(old(n)) + 1] = record
        BY <1>2, <3>1, AppendProperties
      <3>3. DOMAIN old(n) = 1 .. Len(old(n)) /\ DOMAIN files'[n] = 1 .. Len(old(n)) + 1
        BY <3>1, <3>2
      <3> QED
        BY <2>1, <3>1, <3>2, <3>3
    <2>2. CASE ~(n = name /\ writeWorks)
      <3>1. files'[n] = old(n) /\ old(n) \in Seq(TrafficRecords)
        BY <1>5, <1>8, <2>2
      <3> QED
        BY <2>2, <3>1
    <2> QED
      BY <2>1, <2>2
  <1>10. ASSUME NEW n \in DOMAIN files', NEW i \in DOMAIN files'[n]
         PROVE  \/ n \in DOMAIN files /\ i \in DOMAIN files[n] /\ files'[n][i] = files[n][i]
                \/ n = name /\ i = Len(files'[n]) /\ files'[n][i] = record
    BY <1>4, <1>6, <1>7, <1>9
  <1>11. ASSUME NEW n \in kept, NEW i \in DOMAIN files[n] PROVE i \in DOMAIN files'[n] /\ files'[n][i] = files[n][i]
    BY <1>6, <1>8, <1>9
  <1>12. ASSUME writeWorks PROVE name \in DOMAIN files' /\ \E i \in DOMAIN files'[name] : files'[name][i] = record
    BY <1>8, <1>9, <1>12
  <1>13. kept \subseteq DOMAIN files' /\ DOMAIN files' \subseteq kept \cup {name}
    BY <1>8
  <1>14. \A n \in DOMAIN files' : files'[n] \in Seq(TrafficRecords)
    BY <1>9
  <1> QED
    BY <1>1, <1>2, <1>3, <1>4, <1>10, <1>11, <1>12, <1>13, <1>14, Zenon DEF name

\* The window moves with the days of what is written.
LEMMA RetentionGoesOn ==
    ASSUME LogTypes, RetentionHolds, NEW day \in Nat, day <= today, NEW works, NEW kept,
           kept = Pruned(DOMAIN files, day, works), Prune(day, works), today' = today,
           kept \subseteq DOMAIN files', DOMAIN files' \subseteq kept \cup {DailyName(day)}
    PROVE  RetentionHolds'
  <1>1. RetainDays \in Nat /\ FirstDay \in Nat /\ Leftovers \subseteq Nat /\ today \in Nat
    BY CaptureAssumption, LogFacts
  <1>2. Foreign \in DOMAIN files'
    BY DailyNames DEF RetentionHolds, Pruned, Prunable
  <1>3. Past' = Past /\ Past \subseteq Nat
    BY <1>1 DEF Past
  <1>4. prunedDay' = day /\ pruneFailed' = IF Due(day) THEN ~works ELSE pruneFailed
    BY DEF Prune, Swapped
  <1>5. ASSUME ~pruneFailed', NEW old \in Past, RetainDays # 0, old + RetainDays <= day, DailyName(old) \in DOMAIN files'
        PROVE  FALSE
    <2>1. old \in Nat /\ old < day
      BY <1>1, <1>3, <1>5
    <2>2. DailyName(old) \in kept
      BY <1>5, <2>1, NamesDiffer
    <2>3. DailyName(old) \in DOMAIN files
      BY <2>2 DEF Pruned
    <2>4. CASE Due(day)
      <3>1. works
        BY <1>4, <1>5, <2>4
      <3>2. DailyName(old) \notin Prunable(DOMAIN files, day)
        BY <2>2, <2>4, <3>1 DEF Pruned
      <3> QED
        BY <1>5, <2>1, <2>3, <3>2, Window
    <2>5. CASE ~Due(day)
      <3>1. prunedDay = day /\ ~pruneFailed
        BY <1>4, <1>5, <2>5 DEF Due
      <3>2. DailyName(old) \in Stale(prunedDay)
        BY <1>5, <2>3, <3>1 DEF Stale
      <3> QED
        BY <3>1, <3>2 DEF RetentionHolds
    <2> QED
      BY <2>4, <2>5
  <1> QED
    BY <1>2, <1>3, <1>4, <1>5 DEF RetentionHolds, Stale

LEMMA WriteLogsOn ==
    ASSUME LogInv, NEW pruneWorks \in BOOLEAN, NEW writeWorks \in BOOLEAN, WriteRecord(pruneWorks, writeWorks),
           UNCHANGED req
    PROVE  LogInv'
  <1> DEFINE record == queue[1]
             kept == Pruned(DOMAIN files, record.day, pruneWorks)
  <1>0. LogTypes /\ Entries /\ Once /\ RetentionHolds
    BY DEF LogInv
  <1>1. /\ 1 \in Queued /\ record \in TrafficRecords /\ queue # << >> /\ queue' = Tail(queue)
        /\ UNCHANGED << today, dropped, flushing >> /\ Prune(record.day, pruneWorks)
        /\ lost' = IF writeWorks THEN lost ELSE lost \cup {record.id}
        /\ kept \subseteq DOMAIN files /\ kept \subseteq DOMAIN files'
        /\ DOMAIN files' \subseteq kept \cup {DailyName(record.day)}
        /\ \A n \in DOMAIN files' : files'[n] \in Seq(TrafficRecords)
    BY <1>0, WriteDoes
  <1>2. \A n \in DOMAIN files' : \A i \in DOMAIN files'[n] :
           \/ n \in DOMAIN files /\ i \in DOMAIN files[n] /\ files'[n][i] = files[n][i]
           \/ n = DailyName(record.day) /\ i = Len(files'[n]) /\ files'[n][i] = record
    BY <1>0, WriteDoes
  <1>3. \A n \in kept : \A i \in DOMAIN files[n] : i \in DOMAIN files'[n] /\ files'[n][i] = files[n][i]
    BY <1>0, WriteDoes
  <1>4. ASSUME writeWorks
        PROVE  /\ DailyName(record.day) \in DOMAIN files'
               /\ \E i \in DOMAIN files'[DailyName(record.day)] : files'[DailyName(record.day)][i] = record
    BY <1>0, <1>4, WriteDoes
  <1>5. /\ queue' \in Seq(Messages) /\ Len(queue) \in Nat \ {0} /\ Len(queue') = Len(queue) - 1
        /\ \A i \in Queued' : i + 1 \in Queued /\ i \in Nat \ {0} /\ queue'[i] = queue[i + 1]
        /\ \A i \in Queued : i # 1 => i - 1 \in Queued' /\ queue'[i - 1] = queue[i]
    BY <1>0, <1>1, TailOfQueue
  <1>6. record.day \in Nat /\ record.day <= today /\ Entered(record)
    BY <1>0, <1>1, RecordTypes DEF Entries, Entered
  <1> HIDE DEF kept
  <1>7. RetentionHolds'
    BY <1>0, <1>1, <1>6, RetentionGoesOn DEF kept
  <1>8. LogTypes'
    <2>1. prunedDay' = record.day /\ pruneFailed' \in BOOLEAN
      BY <1>0, <1>1 DEF Prune, Swapped, LogTypes
    <2>2. Len(queue') <= QueueDepth
      BY <1>0, <1>5, CaptureAssumption DEF LogTypes
    <2>3. today' = today
      BY <1>1
    <2>4. prunedDay' \in Nat /\ prunedDay' <= today' /\ today' \in FirstDay .. FirstDay + MaxDays
      BY <1>0, <1>6, <2>1, <2>3 DEF LogTypes
    <2> QED
      BY <1>1, <1>5, <2>1, <2>2, <2>4, Zenon DEF LogTypes
  <1>9. Entries'
    <2> DEFINE stays(entry) == entry.day <= today' /\ Clean(entry) /\ req'[entry.id[1]].at \in LoggedPlaces
    <2>1. \A entry : Entered(entry) => stays(entry)
      BY <1>1 DEF Entered
    <2> HIDE DEF stays
    <2>2. \A i \in Queued' : stays(queue'[i])
      BY <1>0, <1>5, <2>1 DEF Entries
    <2>3. ASSUME NEW n \in DOMAIN files', NEW i \in DOMAIN files'[n]
          PROVE  stays(files'[n][i]) /\ n = DailyName(files'[n][i].day)
      BY <1>0, <1>2, <1>6, <2>1, <2>3 DEF Entries
    <2>4. (\A i \in Queued : Entered(queue[i]))'
      BY <2>2, Zenon DEF Entered, Clean, stays
    <2>5. (\A n \in DOMAIN files : \A i \in DOMAIN files[n] : Entered(files[n][i]) /\ n = DailyName(files[n][i].day))'
      BY <2>3, Zenon DEF Entered, Clean, stays
    <2> QED
      BY <2>4, <2>5, Zenon DEF Entries
  <1>10. Once'
    <2> HIDE DEF record
    <2>0. record = queue[1]
      BY DEF record
    <2>1. ASSUME NEW i \in Queued', NEW j \in Queued', queue'[i].id = queue'[j].id PROVE i = j
      <3>1. i + 1 \in Queued /\ j + 1 \in Queued /\ queue[i + 1].id = queue[j + 1].id /\ i \in Nat /\ j \in Nat
        BY <1>5, <2>1
      <3>2. i + 1 = j + 1
        BY <1>0, <3>1 DEF Once
      <3> QED
        BY <3>1, <3>2
    <2>2. ASSUME NEW n \in DOMAIN files', NEW i \in DOMAIN files'[n], NEW j \in DOMAIN files'[n],
                 files'[n][i].id = files'[n][j].id
          PROVE  i = j
      <3>1. \/ n \in DOMAIN files /\ i \in DOMAIN files[n] /\ files'[n][i] = files[n][i]
            \/ i = Len(files'[n]) /\ files'[n][i] = record
        BY <1>2
      <3>2. \/ n \in DOMAIN files /\ j \in DOMAIN files[n] /\ files'[n][j] = files[n][j]
            \/ j = Len(files'[n]) /\ files'[n][j] = record
        BY <1>2
      <3>3. \A m \in DOMAIN files : \A k \in DOMAIN files[m] : files[m][k].id # record.id
        BY <1>0, <1>1, <2>0 DEF Once
      <3>4. n \in DOMAIN files => \A k, l \in DOMAIN files[n] : files[n][k].id = files[n][l].id => k = l
        BY <1>0 DEF Once
      <3> QED
        BY <2>2, <3>1, <3>2, <3>3, <3>4
    <2>3. ASSUME NEW n \in DOMAIN files', NEW i \in DOMAIN files'[n], NEW j \in Queued'
          PROVE  files'[n][i].id # queue'[j].id
      <3>1. j + 1 \in Queued /\ queue'[j] = queue[j + 1] /\ j + 1 # 1
        BY <1>5
      <3>2. record.id # queue[j + 1].id
        BY <1>0, <1>1, <2>0, <3>1 DEF Once
      <3>3. n \in DOMAIN files => \A k \in DOMAIN files[n] : files[n][k].id # queue[j + 1].id
        BY <1>0, <3>1 DEF Once
      <3> QED
        BY <1>2, <3>1, <3>2, <3>3
    <2> QED
      BY <2>1, <2>2, <2>3 DEF Once
  <1>11. ASSUME NEW q \in Requests PROVE Recording(q)' /\ Accounted(q)'
    <2> HIDE DEF record
    <2>0. record = queue[1]
      BY DEF record
    <2>1. req' = req /\ today' = today /\ dropped' = dropped
      BY <1>1
    <2>2. Recording(q) /\ Accounted(q)
      BY DEF LogInv
    <2>3. Recording(q)'
      BY <2>1, <2>2 DEF Recording
    <2>4. ASSUME req[q].at \in LoggedPlaces, req[q].record # Absent
          PROVE  \/ req[q].record.id \in dropped' \cup lost'
                 \/ RetainDays # 0 /\ req[q].record.day + RetainDays <= today
                 \/ \E i \in Queued' : queue'[i].id = req[q].record.id /\ queue'[i].day = req[q].record.day
                 \/ /\ DailyName(req[q].record.day) \in DOMAIN files'
                    /\ \E i \in DOMAIN files'[DailyName(req[q].record.day)] :
                          files'[DailyName(req[q].record.day)][i].id = req[q].record.id
      <3> DEFINE mine == req[q].record
                 name == DailyName(mine.day)
      <3>0. mine \in TrafficRecords /\ mine.day \in Nat
        BY <2>2, <2>4, RecordTypes DEF Recording
      <3> HIDE DEF mine, name
      <3>1. CASE mine.id \in dropped \cup lost
        BY <1>1, <2>1, <3>1 DEF mine
      <3>2. CASE RetainDays # 0 /\ mine.day + RetainDays <= today
        BY <3>2 DEF mine
      <3>3. ASSUME NEW i \in Queued, queue[i].id = mine.id, queue[i].day = mine.day
            PROVE  \/ mine.id \in lost'
                   \/ \E k \in Queued' : queue'[k].id = mine.id /\ queue'[k].day = mine.day
                   \/ name \in DOMAIN files' /\ \E k \in DOMAIN files'[name] : files'[name][k].id = mine.id
        <4>1. CASE i # 1
          BY <1>5, <3>3, <4>1
        <4>2. CASE i = 1
          <5>1. mine.id = record.id /\ name = DailyName(record.day)
            BY <2>0, <3>3, <4>2 DEF name
          <5>2. CASE writeWorks
            BY <1>4, <5>1, <5>2
          <5>3. CASE ~writeWorks
            BY <1>1, <5>1, <5>3
          <5> QED
            BY <5>2, <5>3
        <4> QED
          BY <4>1, <4>2
      <3>4. ASSUME name \in DOMAIN files, NEW i \in DOMAIN files[name], files[name][i].id = mine.id
            PROVE  \/ RetainDays # 0 /\ mine.day + RetainDays <= today
                   \/ name \in DOMAIN files' /\ \E k \in DOMAIN files'[name] : files'[name][k].id = mine.id
        <4>1. CASE name \in kept
          BY <1>1, <1>3, <3>4, <4>1
        <4>2. CASE name \notin kept
          <5>1. name \in Prunable(DOMAIN files, record.day) /\ RetainDays # 0
            BY <3>4, <4>2 DEF kept, Pruned, Prunable
          <5>2. mine.day + RetainDays <= record.day
            BY <1>6, <3>0, <3>4, <5>1, Window DEF name
          <5>3. today \in Nat /\ RetainDays \in Nat
            BY <1>0, LogFacts, CaptureAssumption
          <5>4. mine.day + RetainDays <= today
            BY <1>6, <3>0, <5>2, <5>3
          <5> QED
            BY <5>1, <5>4
        <4> QED
          BY <4>1, <4>2
      <3> QED
        BY <2>2, <2>4, <3>1, <3>2, <3>3, <3>4, Zenon DEF Accounted, Filed, mine, name
    <2>5. Accounted(q)'
      BY <2>1, <2>4 DEF Accounted, Filed
    <2> QED
      BY <2>3, <2>5
  <1> QED
    BY <1>7, <1>8, <1>9, <1>10, <1>11 DEF LogInv

LEMMA MidnightLogsOn ==
    ASSUME LogInv, Midnight, UNCHANGED req
    PROVE  LogInv'
  <1>1. /\ today < FirstDay + MaxDays /\ today' = today + 1 /\ today \in Nat
        /\ UNCHANGED << queue, dropped, lost, files, prunedDay, pruneFailed >>
    BY LogFacts DEF LogInv, Midnight
  <1>2. FirstDay \in Nat /\ MaxDays \in Nat /\ RetainDays \in Nat /\ Leftovers \subseteq Nat
    BY CaptureAssumption
  <1>3. prunedDay \in Nat /\ prunedDay <= today
    BY DEF LogInv, LogTypes
  <1>4. LogTypes'
    <2>1. today' \in FirstDay .. FirstDay + MaxDays
      BY <1>1, <1>2 DEF LogInv, LogTypes
    <2>2. prunedDay' \in Nat /\ prunedDay' <= today'
      BY <1>1, <1>3
    <2>3. /\ queue' \in Seq(Messages) /\ Len(queue') <= QueueDepth
          /\ \A n \in DOMAIN files' : files'[n] \in Seq(TrafficRecords)
          /\ pruneFailed' \in BOOLEAN
      BY <1>1 DEF LogInv, LogTypes
    <2> QED
      BY <2>1, <2>2, <2>3, Zenon DEF LogTypes
  <1>5. RetentionHolds'
    <2>1. ASSUME ~pruneFailed, NEW old \in Past', RetainDays # 0, old + RetainDays <= prunedDay, DailyName(old) \in DOMAIN files
          PROVE  FALSE
      <3>1. old \in Past
        BY <1>1, <1>2, <1>3, <2>1 DEF Past
      <3> QED
        BY <2>1, <3>1 DEF LogInv, RetentionHolds, Stale
    <2> QED
      BY <1>1, <2>1 DEF LogInv, RetentionHolds, Stale
  <1>6. Queued' = Queued
    BY <1>1 DEF Queued
  <1>7. Entries'
    <2> DEFINE stays(entry) == entry.day <= today' /\ Clean(entry) /\ req'[entry.id[1]].at \in LoggedPlaces
    <2>1. ASSUME NEW entry \in TrafficRecords, Entered(entry) PROVE stays(entry)
      BY <1>1, <2>1, RecordTypes DEF Entered
    <2> HIDE DEF stays
    <2>2. \A i \in Queued' : stays(queue'[i])
      BY <1>1, <1>6, <2>1, LogFacts DEF LogInv, Entries
    <2>3. ASSUME NEW n \in DOMAIN files', NEW i \in DOMAIN files'[n]
          PROVE  stays(files'[n][i]) /\ n = DailyName(files'[n][i].day)
      BY <1>1, <2>1, LogFacts DEF LogInv, Entries
    <2>4. (\A i \in Queued : Entered(queue[i]))'
      BY <2>2, Zenon DEF Entered, Clean, stays
    <2>5. (\A n \in DOMAIN files : \A i \in DOMAIN files[n] : Entered(files[n][i]) /\ n = DailyName(files[n][i].day))'
      BY <2>3, Zenon DEF Entered, Clean, stays
    <2> QED
      BY <2>4, <2>5, Zenon DEF Entries
  <1>8. Once'
    BY <1>1, <1>6 DEF LogInv, Once
  <1>9. ASSUME NEW q \in Requests PROVE Recording(q)' /\ Accounted(q)'
    <2>1. Recording(q) /\ Accounted(q) /\ req' = req
      BY DEF LogInv
    <2>2. req[q].record \in TrafficRecords => req[q].record.day \in Nat
      BY RecordTypes
    <2>3. Recording(q)'
      BY <1>1, <2>1, <2>2 DEF Recording
    <2>4. ASSUME req[q].at \in LoggedPlaces, req[q].record # Absent, req[q].record.day + RetainDays <= today
          PROVE  req[q].record.day + RetainDays <= today'
      BY <1>1, <1>2, <2>1, <2>2, <2>4 DEF Recording
    <2>5. Filed(req[q].record) => Filed(req[q].record)'
      BY <1>1, <2>1 DEF Filed
    <2>6. Accounted(q)'
      BY <1>1, <1>6, <2>1, <2>4, <2>5 DEF Accounted
    <2> QED
      BY <2>3, <2>6
  <1> QED
    BY <1>4, <1>5, <1>7, <1>8, <1>9 DEF LogInv

\* A step that moves what is queued, and only that.
LEMMA QueueMoves ==
    ASSUME LogInv, UNCHANGED << today, dropped, lost, files, prunedDay, pruneFailed, req >>,
           queue' \in Seq(Messages), Len(queue') <= QueueDepth, NEW by \in {0, 1},
           \A i \in Queued' : i \in Nat /\ i + by \in Queued /\ queue'[i] = queue[i + by],
           \A i \in Queued : i - by \in Queued' /\ queue'[i - by] = queue[i]
    PROVE  LogInv'
  <1>1. LogTypes' /\ RetentionHolds'
    BY DEF LogInv, LogTypes, RetentionHolds, Stale, Past
  <1>2. Entries'
    <2> DEFINE stays(entry) == entry.day <= today' /\ Clean(entry) /\ req'[entry.id[1]].at \in LoggedPlaces
    <2>1. \A entry : Entered(entry) => stays(entry)
      BY DEF Entered
    <2> HIDE DEF stays
    <2>2. \A i \in Queued' : stays(queue'[i])
      BY <2>1 DEF LogInv, Entries
    <2>3. ASSUME NEW n \in DOMAIN files', NEW i \in DOMAIN files'[n]
          PROVE  stays(files'[n][i]) /\ n = DailyName(files'[n][i].day)
      BY <2>1 DEF LogInv, Entries
    <2>4. (\A i \in Queued : Entered(queue[i]))'
      BY <2>2, Zenon DEF Entered, Clean, stays
    <2>5. (\A n \in DOMAIN files : \A i \in DOMAIN files[n] : Entered(files[n][i]) /\ n = DailyName(files[n][i].day))'
      BY <2>3, Zenon DEF Entered, Clean, stays
    <2> QED
      BY <2>4, <2>5, Zenon DEF Entries
  <1>3. Once'
    <2>1. ASSUME NEW i \in Queued', NEW j \in Queued', queue'[i].id = queue'[j].id PROVE i = j
      <3>1. i + by \in Queued /\ j + by \in Queued /\ i \in Nat /\ j \in Nat /\ queue[i + by].id = queue[j + by].id
        BY <2>1
      <3>2. i + by = j + by
        BY <3>1 DEF LogInv, Once
      <3> QED
        BY <3>1, <3>2
    <2>2. ASSUME NEW n \in DOMAIN files', NEW i \in DOMAIN files'[n]
          PROVE  /\ \A j \in DOMAIN files'[n] : files'[n][i].id = files'[n][j].id => i = j
                 /\ \A j \in Queued' : files'[n][i].id # queue'[j].id
      BY DEF LogInv, Once
    <2> QED
      BY <2>1, <2>2 DEF Once
  <1>4. ASSUME NEW q \in Requests PROVE Recording(q)' /\ Accounted(q)'
    <2>1. Recording(q) /\ Accounted(q)
      BY DEF LogInv
    <2>2. Recording(q)'
      BY <2>1 DEF Recording
    <2>3. Filed(req[q].record) => Filed(req[q].record)'
      BY DEF Filed
    <2>4. Accounted(q)'
      BY <2>1, <2>3 DEF Accounted
    <2> QED
      BY <2>2, <2>4
  <1> QED
    BY <1>1, <1>2, <1>3, <1>4 DEF LogInv

LEMMA MarkersLogOn ==
    ASSUME LogInv, SendMarker \/ AnswerMarker, UNCHANGED req
    PROVE  LogInv'
  <1>1. /\ UNCHANGED << today, dropped, lost, files, prunedDay, pruneFailed, req >>
        /\ \/ Len(queue) < QueueDepth /\ queue' = Append(queue, Marker)
           \/ queue # << >> /\ IsMarker(Head(queue)) /\ queue' = Tail(queue)
    BY DEF SendMarker, AnswerMarker
  <1>2. queue \in Seq(Messages) /\ Len(queue) \in Nat /\ Queued \subseteq 1 .. Len(queue) /\ QueueDepth \in Nat
        /\ Len(queue) <= QueueDepth
    BY LogFacts, CaptureAssumption DEF LogInv, Queued, LogTypes
  <1>3. CASE Len(queue) < QueueDepth /\ queue' = Append(queue, Marker)
    <2>1. Marker \in Messages /\ IsMarker(Marker)
      BY MarkerIsNone DEF Messages
    <2>2. /\ queue' \in Seq(Messages) /\ Len(queue') = Len(queue) + 1
          /\ \A i \in 1 .. Len(queue) : queue'[i] = queue[i]
          /\ queue'[Len(queue) + 1] = Marker
      BY <1>2, <1>3, <2>1, AppendProperties
    <2>3. \A i \in Queued' : i \in Nat /\ i + 0 \in Queued /\ queue'[i] = queue[i + 0]
      BY <1>2, <2>1, <2>2 DEF Queued
    <2>4. \A i \in Queued : i - 0 \in Queued' /\ queue'[i - 0] = queue[i]
      BY <1>2, <2>1, <2>2 DEF Queued
    <2>5. Len(queue') <= QueueDepth
      BY <1>2, <1>3, <2>2
    <2> QED
      BY <1>1, <2>2, <2>3, <2>4, <2>5, QueueMoves
  <1>4. CASE queue # << >> /\ IsMarker(Head(queue)) /\ queue' = Tail(queue)
    <2>1. /\ Len(queue) \in Nat \ {0} /\ Head(queue) = queue[1]
          /\ queue' \in Seq(Messages) /\ Len(queue') = Len(queue) - 1
          /\ \A i \in Queued' : i + 1 \in Queued /\ i \in Nat \ {0} /\ queue'[i] = queue[i + 1]
          /\ \A i \in Queued : i # 1 => i - 1 \in Queued' /\ queue'[i - 1] = queue[i]
      BY <1>4, TailOfQueue DEF LogInv
    <2>2. 1 \notin Queued
      BY <1>4, <2>1 DEF Queued
    <2>3. Len(queue') <= QueueDepth
      BY <1>2, <2>1
    <2>4. \A i \in Queued' : i \in Nat /\ i + 1 \in Queued /\ queue'[i] = queue[i + 1]
      BY <2>1
    <2>5. \A i \in Queued : i - 1 \in Queued' /\ queue'[i - 1] = queue[i]
      BY <2>1, <2>2
    <2> QED
      BY <1>1, <2>1, <2>3, <2>4, <2>5, QueueMoves
  <1> QED
    BY <1>1, <1>3, <1>4

-----------------------------------------------------------------------------
(* The barrier of the shutdown.                                             *)

FlushPlaces == {"no", "sending", "waiting", "done"}
Flushing ==
    /\ serving \in {"yes", "draining", "over"} /\ flushing \in FlushPlaces
    /\ flushing # "no" => serving # "yes" /\ \A r \in Requests : Settled(r)
    /\ flushing \in {"no", "sending"} => \A i \in 1 .. Len(queue) : ~IsMarker(queue[i])
    /\ flushing = "waiting" => Len(queue) > 0 /\ \A i \in 1 .. Len(queue) : IsMarker(queue[i]) <=> i = Len(queue)
    /\ flushing = "done" => queue = << >>
    /\ serving = "over" => flushing = "done"

LEMMA FlushingBegins ==
    ASSUME CaptureInit, PipeInit
    PROVE  Flushing
  <1>1. queue = << >> /\ flushing = "no" /\ serving = "yes"
    BY DEF CaptureInit, PipeInit
  <1>2. Len(queue) = 0
    BY <1>1
  <1> QED
    BY <1>1, <1>2 DEF Flushing, FlushPlaces

\* No record is appended once the flush began.
LEMMA RequestsFlushOn ==
    ASSUME RequestInv, LogInv, Flushing, NEW r \in Requests, Request(r)
    PROVE  Flushing'
  <1>1. serving' = serving /\ flushing' = flushing
    BY RequestLeaves DEF Request, Arrive, ReadServer, JudgeCall, Acquire, AnswerCall, AnswerPage, FailCall, ClientGone,
       Recorded, FilterList, OnlyReq, captureVars, AppendRecord
  <1>2. ~(serving # "yes" /\ Settled(r))
    BY DEF Request, Arrive, ReadServer, JudgeCall, Acquire, AnswerCall, AnswerPage, FailCall, ClientGone,
           Recorded, FilterList, Settled
  <1>3. flushing = "no" /\ serving # "over"
    BY <1>2 DEF Flushing
  <1>4. \A i \in 1 .. Len(queue') : ~IsMarker(queue'[i])
    <2>1. CASE UNCHANGED queue
      BY <1>3, <2>1 DEF Flushing
    <2>2. CASE Recorded(r)
      <3> DEFINE record == Applied(req[r].record)
      <3>1. record \in TrafficRecords
        BY <2>2, AppliedRecords DEF Recorded, LogInv, Recording
      <3>2. queue' = queue \/ queue' = Append(queue, record)
        BY <2>2 DEF Recorded, AppendRecord
      <3> HIDE DEF record
      <3>3. queue \in Seq(Messages) /\ Len(queue) \in Nat /\ record \in Messages /\ ~IsMarker(record)
        BY <3>1, LogFacts, RecordTypes DEF LogInv, Messages
      <3>4. CASE queue' = Append(queue, record)
        <4>1. /\ Len(queue') = Len(queue) + 1 /\ queue'[Len(queue) + 1] = record
              /\ \A i \in 1 .. Len(queue) : queue'[i] = queue[i]
          BY <3>3, <3>4, AppendProperties
        <4> QED
          BY <1>3, <3>3, <4>1 DEF Flushing
      <3> QED
        BY <2>1, <3>2, <3>4
    <2> QED
      BY <2>1, <2>2 DEF Request, Arrive, ReadServer, JudgeCall, Acquire, AnswerCall, AnswerPage, FailCall, ClientGone,
         FilterList, OnlyReq, captureVars
  <1> QED
    BY <1>1, <1>3, <1>4 DEF Flushing

LEMMA WritesFlushOn ==
    ASSUME LogTypes, Flushing, queue # << >>, ~IsMarker(Head(queue)), queue' = Tail(queue), UNCHANGED << flushing, serving, req >>
    PROVE  Flushing'
  <1>1. /\ Len(queue) \in Nat \ {0} /\ Head(queue) = queue[1] /\ Len(queue') = Len(queue) - 1
        /\ \A i \in 1 .. Len(queue') : queue'[i] = queue[i + 1]
    BY TailOfQueue
  <1>2. /\ serving' \in {"yes", "draining", "over"} /\ flushing' \in FlushPlaces
        /\ flushing' # "no" => serving' # "yes" /\ \A r \in Requests : Settled(r)'
        /\ serving' = "over" => flushing' = "done"
    BY DEF Flushing, Settled
  <1>3. flushing # "done"
    BY DEF Flushing
  <1>4. flushing \in {"no", "sending"} => \A i \in 1 .. Len(queue') : ~IsMarker(queue'[i])
    <2>1. ASSUME flushing \in {"no", "sending"}, NEW i \in 1 .. Len(queue') PROVE ~IsMarker(queue'[i])
      <3>1. i + 1 \in 1 .. Len(queue) /\ queue'[i] = queue[i + 1]
        BY <1>1
      <3> QED
        BY <2>1, <3>1 DEF Flushing
    <2> QED
      BY <2>1
  <1>5. flushing = "waiting" => Len(queue') > 0 /\ \A i \in 1 .. Len(queue') : IsMarker(queue'[i]) <=> i = Len(queue')
    <2>1. ASSUME flushing = "waiting" PROVE Len(queue') > 0
      <3>1. 1 \in 1 .. Len(queue) /\ ~IsMarker(queue[1])
        BY <1>1
      <3>2. 1 # Len(queue)
        BY <2>1, <3>1 DEF Flushing
      <3> QED
        BY <1>1, <3>2
    <2>2. ASSUME flushing = "waiting", NEW i \in 1 .. Len(queue') PROVE IsMarker(queue'[i]) <=> i = Len(queue')
      <3>1. i + 1 \in 1 .. Len(queue) /\ queue'[i] = queue[i + 1] /\ (i + 1 = Len(queue) <=> i = Len(queue'))
        BY <1>1
      <3> QED
        BY <2>2, <3>1 DEF Flushing
    <2> QED
      BY <2>1, <2>2
  <1> QED
    BY <1>2, <1>3, <1>4, <1>5 DEF Flushing

LEMMA MarkersFlushOn ==
    ASSUME LogTypes, Flushing, SendMarker \/ AnswerMarker, UNCHANGED << serving, req >>
    PROVE  Flushing'
  <1>1. queue \in Seq(Messages) /\ Len(queue) \in Nat
    BY LogFacts
  <1>2. (\A r \in Requests : Settled(r)') <=> \A r \in Requests : Settled(r)
    BY DEF Settled
  <1>3. CASE SendMarker
    <2>1. flushing = "sending" /\ flushing' = "waiting" /\ queue' = Append(queue, Marker)
      BY <1>3 DEF SendMarker
    <2>2. Marker \in Messages /\ IsMarker(Marker)
      BY MarkerIsNone DEF Messages
    <2>3. /\ Len(queue') = Len(queue) + 1 /\ queue'[Len(queue) + 1] = Marker
          /\ \A i \in 1 .. Len(queue) : queue'[i] = queue[i]
      BY <1>1, <2>1, <2>2, AppendProperties
    <2>4. Len(queue') > 0 /\ \A i \in 1 .. Len(queue') : IsMarker(queue'[i]) <=> i = Len(queue')
      BY <1>1, <2>1, <2>2, <2>3 DEF Flushing
    <2> QED
      BY <1>2, <2>1, <2>4 DEF Flushing, FlushPlaces
  <1>4. CASE AnswerMarker
    <2>1. queue # << >> /\ IsMarker(Head(queue)) /\ queue' = Tail(queue) /\ flushing' = "done"
      BY <1>4 DEF AnswerMarker
    <2>2. Len(queue) \in Nat \ {0} /\ Head(queue) = queue[1] /\ queue' \in Seq(Messages) /\ Len(queue') = Len(queue) - 1
      BY <2>1, TailOfQueue
    <2>3. 1 \in 1 .. Len(queue) /\ IsMarker(queue[1])
      BY <2>1, <2>2
    <2>4. flushing = "waiting"
      BY <2>1, <2>3 DEF Flushing, FlushPlaces
    <2>5. queue' = << >>
      BY <2>2, <2>3, <2>4 DEF Flushing
    <2> QED
      BY <1>2, <2>1, <2>4, <2>5 DEF Flushing, FlushPlaces
  <1> QED
    BY <1>3, <1>4

-----------------------------------------------------------------------------
(* The pipe as a whole.                                                     *)

PipeInv ==
    /\ ReloadInv /\ RequestInv /\ SessionInv /\ LogInv /\ Flushing
    /\ left \in Budgets /\ warned \in BOOLEAN

LEMMA SpendTypes ==
    ASSUME left \in Budgets,
           NEW what \in {"signals", "connects", "changes", "departures", "midnights", "failures", "shutdowns"}, Spend(what)
    PROVE  left' \in Budgets
  <1>1. /\ left.signals \in Nat /\ left.connects \in Nat /\ left.changes \in Nat /\ left.departures \in Nat
        /\ left.midnights \in Nat /\ left.failures \in Nat /\ left.shutdowns \in Nat
    BY DEF Budgets
  <1>2. left[what] \in Nat /\ left[what] > 0 /\ left' = [left EXCEPT ![what] = @ - 1]
    BY <1>1 DEF Spend
  <1>3. left[what] - 1 \in Nat
    BY <1>2
  <1> DEFINE rest == left[what] - 1
  <1>4. left' = [left EXCEPT ![what] = rest] /\ rest \in Nat
    BY <1>2, <1>3
  <1> HIDE DEF rest
  <1> QED
    BY <1>4 DEF Budgets

\* The steps of the pipe the reload takes part in are its own.
LEMMA BudgetGoesOn ==
    ASSUME left \in Budgets, warned \in BOOLEAN, [Next]_vars
    PROVE  left' \in Budgets /\ warned' \in BOOLEAN
  <1>1. ASSUME UNCHANGED left PROVE left' \in Budgets
    BY <1>1
  <1>2. ASSUME NEW r \in Requests, Request(r) PROVE left' \in Budgets /\ warned' \in BOOLEAN
    <2>1. ASSUME Arrive(r) PROVE warned' \in BOOLEAN /\ UNCHANGED left
      BY <2>1 DEF Arrive, OnlyReq
    <2>2. ASSUME ~Arrive(r) PROVE UNCHANGED warned /\ (UNCHANGED left \/ Spend("departures"))
      BY <1>2, <2>2 DEF Request, ReadServer, JudgeCall, Acquire, AnswerCall, AnswerPage, FailCall, ClientGone, Recorded,
                        FilterList, OnlyReq
    <2> QED
      BY <1>1, <2>1, <2>2, SpendTypes
  <1>3. ASSUME NEW s \in Sessions, Session(s) PROVE left' \in Budgets /\ warned' \in BOOLEAN
    <2>1. UNCHANGED warned /\ (UNCHANGED left \/ Spend("departures"))
      BY <1>3 DEF Session, Initialize, Initialized, Listen, Receive, ChannelEnds, SessionEnds, OnlySession
    <2> QED
      BY <1>1, <2>1, SpendTypes
  <1>4. ASSUME Reload PROVE left' \in Budgets /\ warned' \in BOOLEAN
    <2>1. UNCHANGED warned
      BY <1>4 DEF Reload, WatcherGoesOn, OnlyReload
    <2>2. ASSUME NEW c, left' = [left EXCEPT !.edits = @ \ {c}] PROVE left' \in Budgets
      <3>1. left.edits \ {c} \in SUBSET Contents
        BY DEF Budgets
      <3> QED
        BY <2>2, <3>1 DEF Budgets
    <2> QED
      BY <1>1, <1>4, <2>1, <2>2, SpendTypes DEF Reload, WatcherGoesOn
  <1>5. ASSUME Log PROVE left' \in Budgets /\ warned' \in BOOLEAN
    BY <1>1, <1>5, SpendTypes DEF Log, OnlyLog
  <1>6. ASSUME NEW declared \in Infos, Connect(declared) PROVE left' \in Budgets /\ warned' \in BOOLEAN
    BY <1>6, SpendTypes DEF Connect
  <1>7. ASSUME NEW what \in Families, Publish(what) PROVE left' \in Budgets /\ warned' \in BOOLEAN
    BY <1>7, SpendTypes DEF Publish
  <1>8. ASSUME ApplyServers \/ Drained \/ Exit PROVE left' \in Budgets /\ warned' \in BOOLEAN
    BY <1>8 DEF ApplyServers, Drained, Exit, pipeVars
  <1>9. ASSUME BeginShutdown PROVE left' \in Budgets /\ warned' \in BOOLEAN
    BY <1>9, SpendTypes DEF BeginShutdown
  <1>10. ASSUME UNCHANGED vars PROVE left' \in Budgets /\ warned' \in BOOLEAN
    BY <1>10 DEF vars, pipeVars
  <1> QED
    BY <1>2, <1>3, <1>4, <1>5, <1>6, <1>7, <1>8, <1>9, <1>10 DEF Next

LEMMA PipeReloads ==
    ASSUME left \in Budgets, [Next]_vars
    PROVE  ReloadMoves
  <1>1. ASSUME NEW r \in Requests, Request(r) PROVE ReloadMoves
    BY <1>1, RequestLeaves DEF ReloadMoves
  <1>2. ASSUME NEW s \in Sessions, Session(s) PROVE ReloadMoves
    BY <1>2 DEF ReloadMoves, Session, Initialize, Initialized, Listen, Receive, ChannelEnds, SessionEnds, OnlySession
  <1>3. ASSUME Reload PROVE ReloadMoves
    <2>1. left.edits \subseteq Contents
      BY DEF Budgets
    <2> QED
      BY <1>3, <2>1 DEF Reload, WatcherGoesOn, WatchSteps, ReloadMoves, Writes
  <1>4. ASSUME Log PROVE ReloadMoves
    BY <1>4 DEF Log, OnlyLog, ReloadMoves
  <1>5. ASSUME \/ \E declared \in Infos : Connect(declared)
               \/ \E what \in Families : Publish(what)
               \/ BeginShutdown \/ Drained \/ Exit
        PROVE  ReloadMoves
    BY <1>5 DEF Connect, Publish, BeginShutdown, Drained, Exit, ReloadMoves
  <1>6. ASSUME ApplyServers PROVE ReloadMoves
    BY <1>6 DEF ApplyServers, ReloadMoves
  <1>7. ASSUME UNCHANGED vars PROVE ReloadMoves
    BY <1>7 DEF vars, ReloadMoves
  <1> QED
    BY <1>1, <1>2, <1>3, <1>4, <1>5, <1>6, <1>7 DEF Next

\* What stands still keeps what was said of it.
LEMMA SessionsStand ==
    ASSUME SessionInv, UNCHANGED << info, channels, sessions, owed >>
    PROVE  SessionInv'
  BY SessionsAreLeft DEF SessionInv, SessionTypes

LEMMA LogStands ==
    ASSUME LogInv, UNCHANGED << captureVars, req >>
    PROVE  LogInv'
  <1>1. today' = today
    BY DEF captureVars
  <1>2. \A r \in Requests : Recording(r)'
    BY <1>1 DEF LogInv, Recording
  <1> QED
    BY <1>2, LogIsLeft

LEMMA FlushingStands ==
    ASSUME Flushing, UNCHANGED << captureVars, req, serving >>
    PROVE  Flushing'
  BY DEF Flushing, captureVars, Settled

LEMMA RequestStep ==
    ASSUME PipeInv, NEW r \in Requests, Request(r)
    PROVE  RequestInv' /\ SessionInv' /\ LogInv' /\ Flushing'
  <1>1. ReloadInv /\ RequestInv /\ SessionInv /\ LogInv /\ Flushing
    BY DEF PipeInv
  <1>2. SessionInv'
    BY <1>1, RequestLeaves, SessionsStand
  <1>3. LogInv'
    BY <1>1, RequestsLogOn, RecordedLogsOn
  <1> QED
    BY <1>1, <1>2, <1>3, RequestsGoOn, RequestsFlushOn

LEMMA OtherRequests ==
    ASSUME PipeInv, ReloadInv', ReloadMoves, UNCHANGED req
    PROVE  RequestInv'
  BY RequestsAreLeft DEF PipeInv

LEMMA SessionStep ==
    ASSUME PipeInv, \/ \E s \in Sessions : Session(s)
                    \/ \E declared \in Infos : Connect(declared)
                    \/ \E what \in Families : Publish(what)
                    \/ ApplyServers
    PROVE  SessionInv' /\ LogInv' /\ Flushing' /\ UNCHANGED req
  <1>1. ReloadInv /\ SessionInv /\ LogInv /\ Flushing
    BY DEF PipeInv
  <1>2. UNCHANGED << captureVars, req, serving >>
    BY DEF Session, Initialize, Initialized, Listen, Receive, ChannelEnds, SessionEnds, OnlySession, Connect, Publish,
           ApplyServers
  <1>3. ASSUME NEW declared \in Infos, Connect(declared) PROVE SessionInv'
    <2>1. UNCHANGED << channels, sessions, owed >> /\ info' = declared
      BY <1>3 DEF Connect
    <2>2. channels \in Seq(Channels)
      BY <1>1 DEF SessionInv, SessionTypes
    <2> QED
      BY <1>1, <2>1, <2>2, SessionsAreLeft
  <1> QED
    BY <1>1, <1>2, <1>3, SessionGoesOn, PublishGoesOn, ApplyGoesOnForSessions, LogStands, FlushingStands

LEMMA LogStep ==
    ASSUME PipeInv, Log
    PROVE  SessionInv' /\ LogInv' /\ Flushing' /\ UNCHANGED req
  <1>1. SessionInv /\ LogInv /\ Flushing /\ LogTypes
    BY DEF PipeInv, LogInv
  <1>2. UNCHANGED << req, serving >> /\ UNCHANGED << info, channels, sessions, owed >>
    BY DEF Log, OnlyLog
  <1>3. CASE Midnight
    <2>1. UNCHANGED << queue, flushing >>
      BY <1>3 DEF Midnight
    <2>2. Flushing'
      BY <1>1, <1>2, <2>1 DEF Flushing, Settled
    <2> QED
      BY <1>1, <1>2, <1>3, <2>2, MidnightLogsOn, SessionsStand
  <1>4. ASSUME NEW pruneWorks \in BOOLEAN, NEW writeWorks \in BOOLEAN, WriteRecord(pruneWorks, writeWorks)
        PROVE  LogInv' /\ Flushing'
    <2>1. /\ queue # << >> /\ ~IsMarker(Head(queue)) /\ queue' = Tail(queue) /\ UNCHANGED flushing
      BY <1>4 DEF WriteRecord
    <2>2. Flushing'
      BY <1>1, <1>2, <2>1, WritesFlushOn
    <2> QED
      BY <1>1, <1>2, <1>4, <2>2, WriteLogsOn
  <1>5. CASE \E pruneWorks, writeWorks \in BOOLEAN : WriteRecord(pruneWorks, writeWorks)
    BY <1>1, <1>2, <1>4, <1>5, SessionsStand
  <1>6. CASE SendMarker \/ AnswerMarker
    BY <1>1, <1>2, <1>6, MarkersLogOn, MarkersFlushOn, SessionsStand
  <1>7. Midnight \/ SendMarker \/ AnswerMarker \/ \E pruneWorks, writeWorks \in BOOLEAN : WriteRecord(pruneWorks, writeWorks)
    BY Zenon DEF Log
  <1> QED
    BY <1>3, <1>5, <1>6, <1>7

LEMMA ShutdownStep ==
    ASSUME PipeInv, BeginShutdown \/ Drained \/ Exit
    PROVE  SessionInv' /\ LogInv' /\ Flushing' /\ UNCHANGED req
  <1>1. SessionInv /\ LogInv /\ Flushing /\ LogTypes
    BY DEF PipeInv, LogInv
  <1>2. UNCHANGED req /\ UNCHANGED << info, channels, sessions, owed >>
    BY DEF BeginShutdown, Drained, Exit, pipeVars
  <1>3. CASE BeginShutdown \/ Exit
    <2>1. UNCHANGED captureVars
      BY <1>3 DEF BeginShutdown, Exit
    <2>2. UNCHANGED << queue, flushing >>
      BY <2>1 DEF captureVars
    <2>3. Flushing'
      BY <1>1, <1>2, <1>3, <2>2 DEF Flushing, Settled, BeginShutdown, Exit
    <2> QED
      BY <1>1, <1>2, <2>1, <2>3, LogStands, SessionsStand
  <1>4. CASE Drained
    <2>1. /\ serving = "draining" /\ flushing = "no" /\ flushing' = "sending" /\ \A r \in Requests : Settled(r)
          /\ UNCHANGED << today, queue, dropped, lost, files, prunedDay, pruneFailed >> /\ UNCHANGED serving
      BY <1>4 DEF Drained, pipeVars
    <2>2. Flushing'
      BY <1>1, <1>2, <2>1 DEF Flushing, Settled, FlushPlaces
    <2>3. LogInv'
      <3>1. queue \in Seq(Messages) /\ Len(queue) <= QueueDepth /\ Queued' = Queued /\ Queued \subseteq Nat
        BY <1>1, <2>1 DEF LogTypes, Queued
      <3>2. \A i \in Queued' : i \in Nat /\ i + 0 \in Queued /\ queue'[i] = queue[i + 0]
        BY <2>1, <3>1
      <3>3. \A i \in Queued : i - 0 \in Queued' /\ queue'[i - 0] = queue[i]
        BY <2>1, <3>1
      <3>4. queue' \in Seq(Messages) /\ Len(queue') <= QueueDepth
        BY <2>1, <3>1
      <3> QED
        BY <1>1, <1>2, <2>1, <3>2, <3>3, <3>4, QueueMoves
    <2> QED
      BY <1>1, <1>2, <2>2, <2>3, SessionsStand
  <1> QED
    BY <1>3, <1>4

LEMMA PipeBegins == Init => PipeInv
  <1> SUFFICES ASSUME Init PROVE PipeInv
    OBVIOUS
  <1>1. ReloadInit /\ CaptureInit /\ PipeInit
    BY DEF Init
  <1>2. left \in Budgets /\ warned \in BOOLEAN
    BY <1>1, WorkloadAssumption DEF PipeInit
  <1> QED
    BY <1>1, <1>2, ReloadBegins, RequestsBegin, SessionsBegin, LogBegins, FlushingBegins DEF PipeInv

LEMMA PipeGoesOn == PipeInv /\ [Next]_vars => PipeInv'
  <1> SUFFICES ASSUME PipeInv, [Next]_vars PROVE PipeInv'
    OBVIOUS
  <1>1. left' \in Budgets /\ warned' \in BOOLEAN /\ ReloadMoves
    BY BudgetGoesOn, PipeReloads DEF PipeInv
  <1>2. ReloadInv'
    BY <1>1, ReloadGoesOn DEF PipeInv
  <1>3. SessionInv /\ LogInv /\ Flushing
    BY DEF PipeInv
  <1>4. ASSUME NEW r \in Requests, Request(r) PROVE PipeInv'
    BY <1>1, <1>2, <1>4, RequestStep DEF PipeInv
  <1>5. ASSUME SessionInv' /\ LogInv' /\ Flushing' /\ UNCHANGED req PROVE PipeInv'
    BY <1>1, <1>2, <1>5, OtherRequests DEF PipeInv
  <1>6. ASSUME Reload \/ UNCHANGED vars PROVE PipeInv'
    <2>1. UNCHANGED << captureVars, req, serving >> /\ UNCHANGED << info, channels, sessions, owed >>
      BY <1>6 DEF Reload, WatcherGoesOn, OnlyReload, vars, pipeVars
    <2> QED
      BY <1>3, <1>5, <2>1, SessionsStand, LogStands, FlushingStands
  <1> QED
    BY <1>4, <1>5, <1>6, SessionStep, LogStep, ShutdownStep DEF Next

LEMMA PipeIsInvariant == Spec => []PipeInv
  BY PipeBegins, PipeGoesOn, PTL DEF Spec

-----------------------------------------------------------------------------
(* Theorems.                                                                *)

\* Everything keeps its type, the log its queue's bound and each file its
\* day, a session a channel that exists; and whatever cursors an upstream
\* hands out, a walk over its pages ends within MaxToolPages and asks for no
\* page twice (merged_tools, gateway.rs:839-893).
THEOREM PipeTypeCorrect == Spec => []TypeOK
  <1>1. PipeInv => TypeOK
    <2> SUFFICES ASSUME PipeInv PROVE TypeOK
      OBVIOUS
    <2>1. ReloadInv /\ RequestInv /\ SessionInv /\ LogInv /\ Flushing /\ warned \in BOOLEAN
      BY DEF PipeInv
    <2>2. ReloadTypeOK
      BY <2>1 DEF ReloadInv
    <2>3. CaptureTypeOK
      <3>1. today \in FirstDay .. FirstDay + MaxDays /\ Len(queue) <= QueueDepth /\ pruneFailed \in BOOLEAN
        BY <2>1 DEF LogInv, LogTypes
      <3>2. flushing \in {"no", "sending", "waiting", "done"}
        BY <2>1 DEF Flushing, FlushPlaces
      <3>3. ASSUME NEW n \in DOMAIN files, NEW record \in ToSet(files[n]) PROVE DailyName(record.day) = n
        BY <2>1, <3>3 DEF LogInv, Entries, ToSet
      <3> QED
        BY <3>1, <3>2, <3>3 DEF CaptureTypeOK
    <2>4. serving \in {"yes", "draining", "over"}
      BY <2>1 DEF Flushing
    <2>5. ASSUME NEW s \in Sessions PROVE sessions[s].hears \subseteq Families /\ sessions[s].channel \in 0 .. Len(channels)
      <3>1. /\ sessions[s].hears \subseteq Families /\ sessions[s].channel \in Nat /\ Len(channels) \in Nat
            /\ sessions[s].channel <= Len(channels)
        BY <2>1, SessionFacts DEF SessionInv, Hearing
      <3> QED
        BY <3>1
    <2>6. ASSUME NEW r \in Requests PROVE req[r].pages <= MaxToolPages /\ req[r].pages <= Cardinality(req[r].followed) + 1
      BY <2>1 DEF RequestInv, Walking
    <2> QED
      BY <2>1, <2>2, <2>3, <2>4, <2>5, <2>6, Zenon DEF TypeOK
  <1> QED
    BY <1>1, PipeIsInvariant, PTL

\* A watcher that sleeps over a file it has read serves what that file says,
\* however writes fell between the stamp and the text (reload.rs:193-201).
THEOREM NoEditLostHolds == Spec => []NoEditLost
  <1>1. PipeInv => NoEditLost
    <2> SUFFICES ASSUME PipeInv, watcher.at = "asleep", ~Changed(file) PROVE InForce
      BY DEF NoEditLost
    <2>1. ReloadInv
      BY DEF PipeInv
    <2>2. file \in Edits /\ NothingSkipped
      BY <2>1 DEF ReloadInv, ReloadTypeOK
    <2>3. CASE file.is.loads
      <3>1. Stamp(file) = file.at
        BY <2>2, <2>3, StampTypes
      <3>2. seen = file.at
        BY <3>1 DEF Changed
      <3> QED
        BY <2>2, <3>2 DEF NothingSkipped, Applying
    <2>4. CASE ~file.is.loads
      BY <2>4 DEF InForce
    <2> QED
      BY <2>3, <2>4
  <1> QED
    BY <1>1, PipeIsInvariant, PTL

\* No request is judged by rules older than the table that dispatched it, nor
\* by a scope older than the server rules it is combined with, whatever
\* reload was under way (reload.rs:163-184, gateway.rs:341-365).
THEOREM JudgedInOrderHolds == Spec => []JudgedInOrder
  <1>1. PipeInv => JudgedInOrder
    BY DEF PipeInv, RequestInv, Judging, InOrder, JudgedInOrder
  <1> QED
    BY <1>1, PipeIsInvariant, PTL

\* What a listening session was not told of yet is still before it in its
\* channel, or was overrun, and then the lag tells it of everything it hears
\* of (gateway.rs, relay and listen).
THEOREM ToldOfEveryChangeHolds == Spec => []ToldOfEveryChange
  <1>1. PipeInv => ToldOfEveryChange
    BY DEF PipeInv, SessionInv, ToldOf, ToldOfEveryChange
  <1> QED
    BY <1>1, PipeIsInvariant, PTL

\* Nothing the rules know of is on disk when bodies are redacted, whole or
\* cut, and no body is when they are off (capture.rs:18-22).
THEOREM NoCredentialOnDiskHolds == Spec => []NoCredentialOnDisk
  <1>1. PipeInv => NoCredentialOnDisk
    <2> SUFFICES ASSUME PipeInv PROVE NoCredentialOnDisk
      OBVIOUS
    <2>1. ASSUME NEW record \in Written PROVE Clean(record)
      <3>1. PICK n \in DOMAIN files : record \in ToSet(files[n])
        BY <2>1 DEF Written
      <3>2. PICK i \in DOMAIN files[n] : record = files[n][i]
        BY <3>1 DEF ToSet
      <3> QED
        BY <3>2 DEF PipeInv, LogInv, Entries, Entered
    <2> QED
      BY <2>1, Zenon DEF NoCredentialOnDisk, Clean
  <1> QED
    BY <1>1, PipeIsInvariant, PTL

\* No daily file outlives the window of the day last pruned for, and nothing
\* that is not a daily file is removed (capture.rs:988-1008).
THEOREM RetentionIsKept == Spec => []RetentionHolds
  <1>1. PipeInv => RetentionHolds
    BY DEF PipeInv, LogInv
  <1> QED
    BY <1>1, PipeIsInvariant, PTL

\* After the exit a request that was answered is in its day's file once, or
\* was counted as dropped, or could not be written, or its day is past
\* (capture.rs:1168-1184).
THEOREM ExitLosesNoRecordHolds == Spec => []ExitLosesNoRecord
  <1>1. PipeInv => ExitLosesNoRecord
    <2> SUFFICES ASSUME PipeInv, serving = "over", NEW r \in Answered
                 PROVE  \/ req[r].record.id \in dropped \cup lost
                        \/ RetainDays # 0 /\ req[r].record.day + RetainDays <= today
                        \/ InLog(req[r].record)
      BY DEF ExitLosesNoRecord
    <2>1. queue = << >>
      BY DEF PipeInv, Flushing
    <2>2. Queued = {}
      BY <2>1 DEF Queued
    <2>3. req[r].at \in LoggedPlaces /\ req[r].record # Absent /\ Accounted(r)
      BY DEF Answered, LoggedPlaces, PipeInv, LogInv
    <2>4. ASSUME Filed(req[r].record) PROVE InLog(req[r].record)
      <3> DEFINE id == req[r].record.id
                 name == DailyName(req[r].record.day)
                 found == {i \in DOMAIN files[name] : files[name][i].id = id}
      <3> HIDE DEF id, name
      <3>1. name \in DOMAIN files /\ \E i \in DOMAIN files[name] : files[name][i].id = id
        BY <2>4, Zenon DEF Filed, id, name
      <3>2. PICK i \in DOMAIN files[name] : files[name][i].id = id
        BY <3>1
      <3>3. \A j \in DOMAIN files[name] : files[name][j].id = id => j = i
        BY <3>1, <3>2 DEF PipeInv, LogInv, Once
      <3>4. found = {i}
        BY <3>2, <3>3
      <3>5. Cardinality(found) = 1
        BY <3>4, FS_Singleton
      <3> QED
        BY <3>1, <3>5, Zenon DEF InLog, id, name
    <2> QED
      BY <2>2, <2>3, <2>4 DEF Accounted
  <1> QED
    BY <1>1, PipeIsInvariant, PTL

================================================================================
