---------------------------- MODULE BadgeProofs ----------------------------
(***************************************************************************)
(* Proofs about the contents of a badge, for every order, every purchase   *)
(* time the calendar covers and every calendar.  First the calendar: the   *)
(* recursive tables of Expiry exist, dates and days correspond, and the    *)
(* clocks never change at a midnight.  Then what the one step of the model *)
(* leaves behind, and from it what each surface promises; last the text of *)
(* the mail, of any length: encoded character by character, it stays       *)
(* readable as what it encodes.                                            *)
(***************************************************************************)
EXTENDS Badge, FiniteSetTheorems, SequenceTheorems, WellFoundedInduction, TLAPS

(* Every non-empty set of naturals has a least element.                    *)
LEMMA NatLeast ==
  ASSUME NEW T \in SUBSET Nat, T # {}
  PROVE  \E n \in T : \A k \in T : n <= k
<1> DEFINE R == OpToRel(<, Nat)
<1>1. IsWellFoundedOn(R, Nat)
  BY NatLessThanWellFounded
<1>2. \A x, y \in Nat : x < y => <<x, y>> \in R
  BY DEF OpToRel
<1> HIDE DEF R
<1>3. PICK n \in T : \A k \in T : ~(<<k, n>> \in R)
  BY <1>1, WFMin
<1>4. ASSUME NEW k \in T PROVE n <= k
  <2>1. n \in Nat /\ k \in Nat
    OBVIOUS
  <2>2. ~(k < n)
    BY <1>2, <1>3, <2>1
  <2>3. QED
    BY <2>1, <2>2
<1>5. QED
  BY <1>4

(* Induction over the naturals, as a fact about a set.                     *)
LEMMA NatInd ==
  ASSUME NEW T, 0 \in T, \A n \in Nat : n \in T => n + 1 \in T
  PROVE  Nat \subseteq T
<1> SUFFICES ASSUME Nat \ T # {} PROVE FALSE
  OBVIOUS
<1>1. PICK n \in Nat \ T : \A k \in Nat \ T : n <= k
  BY NatLeast
<1>2. n # 0 /\ n - 1 \in Nat /\ n - 1 \in T
  BY <1>1
<1>3. QED
  BY <1>1, <1>2

(* A scan of a sequence from left to right exists as a function.           *)
IsScan(f, S, g, b, text) ==
  /\ f \in [0..Len(text) -> S]
  /\ \A i \in 0..Len(text) : f[i] = IF i = 0 THEN b ELSE g[<<f[i - 1], text[i]>>]

(* For every step function and every text there is such a scan.            *)
LEMMA Scans ==
  ASSUME NEW S, NEW K, NEW g \in [S \X K -> S], NEW b \in S, NEW text \in Seq(K)
  PROVE  \E f : IsScan(f, S, g, b, text)
<1> DEFINE n == Len(text)
           Scan(f, h) == /\ f \in [0..h -> S]
                         /\ \A i \in 0..h : f[i] = IF i = 0 THEN b ELSE g[<<f[i - 1], text[i]>>]
           T == {h \in Nat : h <= n => \E f : Scan(f, h)}
<1>1. n \in Nat /\ \A i \in 1..n : text[i] \in K
  OBVIOUS
<1> HIDE DEF n
<1>2. 0 \in T
  <2>1. Scan([i \in 0..0 |-> b], 0)
    OBVIOUS
  <2>2. QED
    BY <2>1
<1> HIDE DEF Scan
<1>3. ASSUME NEW h \in Nat, h \in T PROVE h + 1 \in T
  <2> SUFFICES ASSUME h + 1 <= n PROVE \E f : Scan(f, h + 1)
    OBVIOUS
  <2>1. PICK f : Scan(f, h)
    BY <1>1, <1>3
  <2> DEFINE next == g[<<f[h], text[h + 1]>>]
             e == [i \in 0..(h + 1) |-> IF i = h + 1 THEN next ELSE f[i]]
  <2>2. f[h] \in S /\ text[h + 1] \in K
    BY <1>1, <2>1 DEF Scan
  <2>3. next \in S
    BY <2>2
  <2>4. e[h + 1] = next /\ \A i \in 0..h : i \in 0..(h + 1) /\ i # h + 1 /\ e[i] = f[i]
    OBVIOUS
  <2>5. DOMAIN e = 0..(h + 1) /\ e = [i \in 0..(h + 1) |-> e[i]]
    OBVIOUS
  <2> HIDE DEF e
  <2>6. \A i \in 0..(h + 1) : e[i] \in S
    BY <2>1, <2>3, <2>4 DEF Scan
  <2>7. ASSUME NEW i \in 0..(h + 1)
        PROVE  e[i] = IF i = 0 THEN b ELSE g[<<e[i - 1], text[i]>>]
    <3>1. CASE i = h + 1
      <4>1. i - 1 = h /\ h \in 0..h /\ i # 0
        BY <3>1
      <4>2. e[i - 1] = f[h]
        BY <2>4, <4>1
      <4>3. QED
        BY <2>4, <3>1, <4>1, <4>2
    <3>2. CASE i # h + 1
      <4>1. i \in 0..h /\ (i # 0 => i - 1 \in 0..h)
        BY <3>2
      <4>2. e[i] = f[i] /\ (i # 0 => e[i - 1] = f[i - 1])
        BY <2>4, <4>1
      <4>3. f[i] = IF i = 0 THEN b ELSE g[<<f[i - 1], text[i]>>]
        BY <2>1, <4>1 DEF Scan
      <4>4. QED
        BY <4>2, <4>3
    <3>3. QED
      BY <3>1, <3>2
  <2>8. Scan(e, h + 1)
    BY <2>5, <2>6, <2>7 DEF Scan
  <2>9. QED
    BY <2>8
<1> HIDE DEF T
<1>4. Nat \subseteq T
  BY <1>2, <1>3, NatInd
<1>5. \E f : Scan(f, n)
  BY SMTT(30), <1>1, <1>4 DEF T
<1>6. QED
  BY <1>5 DEF Scan, n, IsScan

(* A running sum exists as a function.                                     *)
SumOf(f, a, lo, hi) ==
  /\ f \in [lo..hi -> Nat]
  /\ \A n \in lo..hi : f[n] = IF n = lo THEN 0 ELSE f[n - 1] + a[n - 1]

(* Every sequence of lengths has a running sum over every interval.        *)
LEMMA Sums ==
  ASSUME NEW lo \in Int, NEW hi \in Int, lo <= hi, NEW a \in [Int -> Nat]
  PROVE  \E f : SumOf(f, a, lo, hi)
<1> DEFINE T == {h \in Nat : \E f : SumOf(f, a, lo, lo + h)}
<1>1. 0 \in T
  <2> DEFINE f == [n \in lo..(lo + 0) |-> 0]
  <2>1. SumOf(f, a, lo, lo + 0)
    BY DEF SumOf
  <2>2. QED
    BY <2>1
<1>2. ASSUME NEW h \in Nat, h \in T PROVE h + 1 \in T
  <2>1. PICK f : SumOf(f, a, lo, lo + h)
    BY <1>2
  <2> DEFINE g == [n \in lo..(lo + (h + 1)) |->
                     IF n = lo + (h + 1) THEN f[n - 1] + a[n - 1] ELSE f[n]]
  <2>2. g \in [lo..(lo + (h + 1)) -> Nat]
    <3>1. ASSUME NEW n \in lo..(lo + (h + 1))
          PROVE  (IF n = lo + (h + 1) THEN f[n - 1] + a[n - 1] ELSE f[n]) \in Nat
      <4>1. CASE n = lo + (h + 1)
        <5>1. n - 1 \in lo..(lo + h) /\ n - 1 \in Int
          BY <4>1
        <5>2. f[n - 1] \in Nat /\ a[n - 1] \in Nat
          BY <2>1, <5>1 DEF SumOf
        <5>3. QED
          BY <4>1, <5>2
      <4>2. CASE n # lo + (h + 1)
        <5>1. n \in lo..(lo + h)
          BY <4>2
        <5>2. QED
          BY <2>1, <4>2, <5>1 DEF SumOf
      <4>3. QED
        BY <4>1, <4>2
    <3>2. QED
      BY <3>1
  <2>3. ASSUME NEW n \in lo..(lo + (h + 1))
        PROVE  g[n] = IF n = lo THEN 0 ELSE g[n - 1] + a[n - 1]
    <3>1. CASE n = lo + (h + 1)
      BY <3>1
    <3>2. CASE n # lo + (h + 1)
      <4>1. n \in lo..(lo + h) /\ g[n] = f[n] /\ (n # lo => n - 1 \in lo..(lo + h) /\ g[n - 1] = f[n - 1])
        BY <3>2
      <4>2. f[n] = IF n = lo THEN 0 ELSE f[n - 1] + a[n - 1]
        BY <2>1, <4>1 DEF SumOf
      <4>3. QED
        BY <4>1, <4>2
    <3>3. QED
      BY <3>1, <3>2
  <2> HIDE DEF g
  <2>4. SumOf(g, a, lo, lo + (h + 1))
    BY <2>2, <2>3 DEF SumOf
  <2>5. QED
    BY <2>4
<1> HIDE DEF T
<1>3. Nat \subseteq T
  BY <1>1, <1>2, NatInd
<1>4. hi - lo \in T /\ lo + (hi - lo) = hi
  BY <1>3
<1>5. PICK f : SumOf(f, a, lo, lo + (hi - lo))
  BY <1>4 DEF T
<1>6. QED
  BY <1>4, <1>5

(* YearStart is the running sum of the lengths of the years: the function  *)
(* that its recursive definition chooses exists and satisfies it.          *)
YearStartStep(f) ==
  [y \in Epoch..(LastYear + 1) |->
     IF y = Epoch THEN 0 ELSE f[y - 1] + (IF Leap(y - 1) THEN 366 ELSE 365)]

(* The calendar of every configured span of years exists.                  *)
LEMMA YearStarts ==
  /\ \A y \in Epoch..(LastYear + 1) : YearStart[y] \in Nat
  /\ YearStart[Epoch] = 0
  /\ \A y \in Epoch..LastYear : YearStart[y + 1] = YearStart[y] + (IF Leap(y) THEN 366 ELSE 365)
<1> DEFINE a == [y \in Int |-> IF Leap(y) THEN 366 ELSE 365]
<1>1. a \in [Int -> Nat] /\ \A n \in Int : a[n] = IF Leap(n) THEN 366 ELSE 365
  OBVIOUS
<1> HIDE DEF a
<1>2. Epoch \in Int /\ LastYear \in Int /\ LastYear + 1 \in Int /\ Epoch <= LastYear + 1
  BY CalendarAssumption
<1>3. PICK f : SumOf(f, a, Epoch, LastYear + 1)
  BY <1>1, <1>2, Sums
<1>4. f = YearStartStep(f)
  <2>1. ASSUME NEW y \in Epoch..(LastYear + 1)
        PROVE  f[y] = IF y = Epoch THEN 0 ELSE f[y - 1] + (IF Leap(y - 1) THEN 366 ELSE 365)
    <3>1. y - 1 \in Int
      BY <1>2
    <3>2. QED
      BY <1>1, <1>3, <3>1 DEF SumOf
  <2>2. f = [y \in Epoch..(LastYear + 1) |-> f[y]]
    BY <1>3 DEF SumOf
  <2>3. QED
    BY <2>1, <2>2 DEF YearStartStep
<1>5. YearStart = CHOOSE g : g = YearStartStep(g)
  BY DEF YearStart, YearStartStep
<1>6. YearStart = YearStartStep(YearStart)
  BY <1>4, <1>5
<1> HIDE DEF YearStart
<1>7. \A y \in Epoch..(LastYear + 1) :
        YearStart[y] = IF y = Epoch THEN 0 ELSE YearStart[y - 1] + (IF Leap(y - 1) THEN 366 ELSE 365)
  BY ZenonT(60), <1>6 DEF YearStartStep
<1>8. YearStart[Epoch] = 0
  BY <1>2, <1>7
<1>9. \A y \in Epoch..LastYear : YearStart[y + 1] = YearStart[y] + (IF Leap(y) THEN 366 ELSE 365)
  <2> TAKE y \in Epoch..LastYear
  <2>1. y + 1 \in Epoch..(LastYear + 1) /\ y + 1 # Epoch /\ (y + 1) - 1 = y
    BY <1>2
  <2>2. QED
    BY <1>7, <2>1
<1> DEFINE T == {h \in Nat : Epoch + h <= LastYear + 1 => YearStart[Epoch + h] \in Nat}
<1>10. 0 \in T
  BY <1>2, <1>8
<1>11. ASSUME NEW h \in Nat, h \in T PROVE h + 1 \in T
  <2> SUFFICES ASSUME Epoch + (h + 1) <= LastYear + 1 PROVE YearStart[Epoch + (h + 1)] \in Nat
    OBVIOUS
  <2>1. Epoch + h \in Epoch..LastYear /\ Epoch + (h + 1) = (Epoch + h) + 1
    BY <1>2
  <2>2. YearStart[Epoch + h] \in Nat
    BY <1>2, <1>11, <2>1
  <2>3. QED
    BY <1>9, <2>1, <2>2
<1> HIDE DEF T
<1>12. Nat \subseteq T
  BY <1>10, <1>11, NatInd
<1>13. \A y \in Epoch..(LastYear + 1) : YearStart[y] \in Nat
  <2> TAKE y \in Epoch..(LastYear + 1)
  <2>1. y - Epoch \in Nat /\ Epoch + (y - Epoch) = y /\ y <= LastYear + 1
    BY <1>2
  <2>2. y - Epoch \in T
    BY <1>12, <2>1
  <2>3. QED
    BY <2>1, <2>2 DEF T
<1>14. QED
  BY <1>8, <1>9, <1>13

(* The months of a year, day by day.                                       *)
YearLength(y) == IF Leap(y) THEN 366 ELSE 365
MonthStartStep(y, f) == [m \in 1..12 |-> IF m = 1 THEN 0 ELSE f[m - 1] + DaysIn(y, m - 1)]

(* How long the months are.                                                *)
LEMMA DaysInMonth ==
  ASSUME NEW y \in Int
  PROVE  /\ DaysIn(y, 1) = 31 /\ DaysIn(y, 2) = YearLength(y) - 337 /\ DaysIn(y, 3) = 31
         /\ DaysIn(y, 4) = 30 /\ DaysIn(y, 5) = 31 /\ DaysIn(y, 6) = 30 /\ DaysIn(y, 7) = 31
         /\ DaysIn(y, 8) = 31 /\ DaysIn(y, 9) = 30 /\ DaysIn(y, 10) = 31 /\ DaysIn(y, 11) = 30
         /\ DaysIn(y, 12) = 31
         /\ YearLength(y) \in {365, 366}
BY DEF DaysIn, YearLength

(* The day of the year each month starts on, February being 28 or 29 days. *)
LEMMA MonthStarts ==
  ASSUME NEW y \in Int
  PROVE  \E l \in {59, 60} :
         /\ YearLength(y) = l + 306
         /\ MonthStart(y)[1] = 0        /\ MonthStart(y)[2] = 31        /\ MonthStart(y)[3] = l
         /\ MonthStart(y)[4] = l + 31   /\ MonthStart(y)[5] = l + 61    /\ MonthStart(y)[6] = l + 92
         /\ MonthStart(y)[7] = l + 122  /\ MonthStart(y)[8] = l + 153   /\ MonthStart(y)[9] = l + 184
         /\ MonthStart(y)[10] = l + 214 /\ MonthStart(y)[11] = l + 245  /\ MonthStart(y)[12] = l + 275
<1> DEFINE a == [m \in Int |-> DaysIn(y, m)]
           g == MonthStart(y)
<1>1. a \in [Int -> Nat] /\ \A m \in Int : a[m] = DaysIn(y, m)
  BY DEF DaysIn
<1> HIDE DEF a
<1>2. PICK f : SumOf(f, a, 1, 12)
  BY <1>1, Sums
<1>3. f = MonthStartStep(y, f)
  <2>1. ASSUME NEW m \in 1..12
        PROVE  f[m] = IF m = 1 THEN 0 ELSE f[m - 1] + DaysIn(y, m - 1)
    <3>1. m - 1 \in Int
      OBVIOUS
    <3>2. QED
      BY <1>1, <1>2, <3>1 DEF SumOf
  <2>2. f = [m \in 1..12 |-> f[m]]
    BY <1>2 DEF SumOf
  <2>3. QED
    BY <2>1, <2>2 DEF MonthStartStep
<1>4. g = CHOOSE h : h = MonthStartStep(y, h)
  BY DEF MonthStart, MonthStartStep
<1>5. g = MonthStartStep(y, g)
  BY <1>3, <1>4
<1> HIDE DEF g
<1>6. \A m \in 1..12 : g[m] = IF m = 1 THEN 0 ELSE g[m - 1] + DaysIn(y, m - 1)
  BY <1>5 DEF MonthStartStep
<1>7. /\ g[1] = 0 /\ g[2] = g[1] + DaysIn(y, 1) /\ g[3] = g[2] + DaysIn(y, 2)
      /\ g[4] = g[3] + DaysIn(y, 3) /\ g[5] = g[4] + DaysIn(y, 4) /\ g[6] = g[5] + DaysIn(y, 5)
      /\ g[7] = g[6] + DaysIn(y, 6) /\ g[8] = g[7] + DaysIn(y, 7) /\ g[9] = g[8] + DaysIn(y, 8)
      /\ g[10] = g[9] + DaysIn(y, 9) /\ g[11] = g[10] + DaysIn(y, 10) /\ g[12] = g[11] + DaysIn(y, 11)
  BY <1>6
<1> DEFINE l == YearLength(y) - 306
<1>8. /\ l \in {59, 60} /\ YearLength(y) = l + 306
      /\ g[1] = 0        /\ g[2] = 31        /\ g[3] = l
      /\ g[4] = l + 31   /\ g[5] = l + 61    /\ g[6] = l + 92
      /\ g[7] = l + 122  /\ g[8] = l + 153   /\ g[9] = l + 184
      /\ g[10] = l + 214 /\ g[11] = l + 245  /\ g[12] = l + 275
  BY <1>7, DaysInMonth
<1> HIDE DEF l
<1>9. QED
  BY <1>8 DEF g

(* A year's days fall into its months, one month each.                     *)
LEMMA MonthsTile ==
  ASSUME NEW y \in Int
  PROVE  /\ \A m \in 1..12 : /\ MonthStart(y)[m] \in Nat /\ DaysIn(y, m) \in 28..31
                             /\ MonthStart(y)[m] + DaysIn(y, m) <= YearLength(y)
         /\ \A m, n \in 1..12 : m < n => MonthStart(y)[m] + DaysIn(y, m) <= MonthStart(y)[n]
         /\ \A m \in 1..11 : MonthStart(y)[m + 1] = MonthStart(y)[m] + DaysIn(y, m)
         /\ MonthStart(y)[12] + DaysIn(y, 12) = YearLength(y)
         /\ \A k \in 0..(YearLength(y) - 1) :
              \E m \in 1..12 : MonthStart(y)[m] <= k /\ k < MonthStart(y)[m] + DaysIn(y, m)
<1> DEFINE g == MonthStart(y)
           d == [m \in 1..12 |-> DaysIn(y, m)]
<1>1. PICK l \in {59, 60} :
         /\ YearLength(y) = l + 306
         /\ g[1] = 0        /\ g[2] = 31        /\ g[3] = l
         /\ g[4] = l + 31   /\ g[5] = l + 61    /\ g[6] = l + 92
         /\ g[7] = l + 122  /\ g[8] = l + 153   /\ g[9] = l + 184
         /\ g[10] = l + 214 /\ g[11] = l + 245  /\ g[12] = l + 275
  BY MonthStarts
<1>2. \A m \in 1..12 : d[m] = DaysIn(y, m)
  OBVIOUS
<1>3. /\ d[1] = 31 /\ d[2] = l - 31 /\ d[3] = 31 /\ d[4] = 30 /\ d[5] = 31 /\ d[6] = 30
      /\ d[7] = 31 /\ d[8] = 31 /\ d[9] = 30 /\ d[10] = 31 /\ d[11] = 30 /\ d[12] = 31
  BY <1>1, <1>2, DaysInMonth
<1> HIDE DEF g, d
<1>4. \A m \in 1..12 : g[m] \in Nat /\ d[m] \in 28..31 /\ g[m] + d[m] <= YearLength(y)
  BY <1>1, <1>3
<1>5. \A m \in 1..11 : g[m + 1] = g[m] + d[m]
  BY <1>1, <1>3
<1>6. g[12] + d[12] = YearLength(y)
  BY <1>1, <1>3
<1>7. \A m, n \in 1..12 : m < n => g[m] + d[m] <= g[n]
  BY <1>1, <1>3
<1>8. \A k \in 0..(YearLength(y) - 1) : \E m \in 1..12 : g[m] <= k /\ k < g[m] + d[m]
  <2> TAKE k \in 0..(YearLength(y) - 1)
  <2>1. k < 31 \/ (31 <= k /\ k < l) \/ (l <= k /\ k < l + 31) \/ (l + 31 <= k /\ k < l + 61)
        \/ (l + 61 <= k /\ k < l + 92) \/ (l + 92 <= k /\ k < l + 122) \/ (l + 122 <= k /\ k < l + 153)
        \/ (l + 153 <= k /\ k < l + 184) \/ (l + 184 <= k /\ k < l + 214) \/ (l + 214 <= k /\ k < l + 245)
        \/ (l + 245 <= k /\ k < l + 275) \/ (l + 275 <= k /\ k < l + 306)
    BY <1>1
  <2>2. k \in Nat
    BY <1>1
  <2>3. \/ (g[1] <= k /\ k < g[1] + d[1]) \/ (g[2] <= k /\ k < g[2] + d[2])
        \/ (g[3] <= k /\ k < g[3] + d[3]) \/ (g[4] <= k /\ k < g[4] + d[4])
        \/ (g[5] <= k /\ k < g[5] + d[5]) \/ (g[6] <= k /\ k < g[6] + d[6])
        \/ (g[7] <= k /\ k < g[7] + d[7]) \/ (g[8] <= k /\ k < g[8] + d[8])
        \/ (g[9] <= k /\ k < g[9] + d[9]) \/ (g[10] <= k /\ k < g[10] + d[10])
        \/ (g[11] <= k /\ k < g[11] + d[11]) \/ (g[12] <= k /\ k < g[12] + d[12])
    BY <1>1, <1>3, <2>1, <2>2
  <2>4. QED
    BY <2>3
<1>9. QED
  BY SMTT(30), <1>2, <1>4, <1>5, <1>6, <1>7, <1>8 DEF g

(* The years and the days of the calendar.                                 *)
Years == Epoch..LastYear
Days == 0..(YearStart[LastYear + 1] - 1)

(* The dates of the calendar.                                              *)
Dates ==
  {date \in [year : Years, month : 1..12, day : Nat] : date.day \in 1..DaysIn(date.year, date.month)}

(* The years follow each other.                                            *)
LEMMA YearsTile ==
  /\ \A y \in Years : /\ y \in Int /\ y + 1 \in Epoch..(LastYear + 1) /\ YearStart[y] \in Nat
                      /\ YearStart[y + 1] = YearStart[y] + YearLength(y)
                      /\ YearStart[y + 1] <= YearStart[LastYear + 1]
  /\ \A y, z \in Years : y < z => YearStart[y + 1] <= YearStart[z]
  /\ \A k \in Days : \E y \in Years : YearStart[y] <= k /\ k < YearStart[y + 1]
  /\ YearStart[LastYear + 1] \in Nat
<1> DEFINE g == YearStart
<1>1. Epoch \in Int /\ LastYear \in Int /\ Epoch <= LastYear
  BY CalendarAssumption
<1>2. /\ \A y \in Epoch..(LastYear + 1) : g[y] \in Nat
      /\ g[Epoch] = 0
      /\ \A y \in Years : g[y + 1] = g[y] + YearLength(y) /\ YearLength(y) \in {365, 366}
  <2>1. \A y \in Years : y \in Int
    BY <1>1 DEF Years
  <2>2. QED
    BY <2>1, YearStarts, DaysInMonth DEF YearLength, Years
<1> HIDE DEF g
<1>3. \A y \in Years : y \in Int /\ y + 1 \in Epoch..(LastYear + 1) /\ y \in Epoch..(LastYear + 1)
  BY <1>1 DEF Years
<1> DEFINE T == {h \in Nat : \A y \in Epoch..(LastYear + 1) : y + h <= LastYear + 1 => g[y] <= g[y + h]}
<1>4. 0 \in T
  BY <1>1, <1>2
<1>5. ASSUME NEW h \in Nat, h \in T PROVE h + 1 \in T
  <2> SUFFICES ASSUME NEW y \in Epoch..(LastYear + 1), y + (h + 1) <= LastYear + 1
               PROVE  g[y] <= g[y + (h + 1)]
    OBVIOUS
  <2>1. y + h \in Years /\ y + (h + 1) = (y + h) + 1 /\ y + h <= LastYear + 1
        /\ y + h \in Epoch..(LastYear + 1) /\ (y + h) + 1 \in Epoch..(LastYear + 1)
    BY <1>1 DEF Years
  <2>2. g[y] <= g[y + h]
    BY <1>5, <2>1
  <2>3. g[(y + h) + 1] = g[y + h] + YearLength(y + h) /\ YearLength(y + h) \in {365, 366}
    BY <1>2, <2>1
  <2>4. g[y] \in Nat /\ g[y + h] \in Nat
    BY <1>2, <2>1
  <2>5. QED
    BY <2>1, <2>2, <2>3, <2>4
<1> HIDE DEF T
<1>6. Nat \subseteq T
  BY <1>4, <1>5, NatInd
<1>7. ASSUME NEW y \in Epoch..(LastYear + 1), NEW z \in Epoch..(LastYear + 1), y <= z
      PROVE  g[y] <= g[z]
  <2>1. z - y \in Nat /\ y + (z - y) = z /\ z <= LastYear + 1
    BY <1>1, <1>7
  <2>2. z - y \in T
    BY <1>6, <2>1
  <2>3. QED
    BY <2>1, <2>2 DEF T
<1>8. \A y, z \in Years : y < z => g[y + 1] <= g[z]
  BY <1>3, <1>7
<1>9. \A y \in Years : g[y + 1] <= g[LastYear + 1]
  BY <1>1, <1>3, <1>7 DEF Years
<1>10. ASSUME NEW k \in 0..(g[LastYear + 1] - 1)
       PROVE  \E y \in Years : g[y] <= k /\ k < g[y + 1]
  <2> DEFINE U == {y \in Epoch..(LastYear + 1) : k < g[y]}
  <2>1. LastYear + 1 \in U /\ U \subseteq Nat /\ Epoch \notin U
    BY <1>1, <1>2, CalendarAssumption
  <2>2. PICK z \in U : \A x \in U : z <= x
    BY <2>1, NatLeast
  <2>3. z - 1 \in Years /\ (z - 1) + 1 = z /\ z - 1 \notin U /\ z - 1 \in Epoch..(LastYear + 1)
    BY <1>1, <2>1, <2>2 DEF Years
  <2>4. g[z - 1] <= k
    BY <1>2, <2>3
  <2>5. k < g[z]
    BY <2>2
  <2>6. QED
    BY <2>3, <2>4, <2>5
<1>11. g[LastYear + 1] \in Nat
  BY <1>1, <1>2
<1>12. QED
  BY <1>2, <1>3, <1>8, <1>9, <1>10, <1>11 DEF g, Days

(* What DateOf finds: the year and the month a day falls into.             *)
LEMMA DateOfFinds ==
  ASSUME NEW y \in Years, NEW m \in 1..12, NEW k \in 0..(DaysIn(y, m) - 1)
  PROVE  /\ DateOf(YearStart[y] + MonthStart(y)[m] + k) = Date(y, m, k + 1)
         /\ YearStart[y] + MonthStart(y)[m] + k \in Days
         /\ YearStart[y] + MonthStart(y)[m] + k < YearStart[y + 1]
<1> DEFINE n == YearStart[y] + MonthStart(y)[m] + k
           yy == CHOOSE x \in Years : YearStart[x] <= n /\ n < YearStart[x + 1]
           mm == CHOOSE x \in 1..12 : /\ MonthStart(y)[x] <= n - YearStart[y]
                                      /\ n - YearStart[y] < MonthStart(y)[x] + DaysIn(y, x)
<1>1. /\ y \in Int /\ YearStart[y] \in Nat /\ YearStart[y + 1] = YearStart[y] + YearLength(y)
      /\ YearStart[y + 1] <= YearStart[LastYear + 1] /\ YearStart[LastYear + 1] \in Nat
  BY YearsTile
<1>2. /\ MonthStart(y)[m] \in Nat /\ DaysIn(y, m) \in 28..31
      /\ MonthStart(y)[m] + DaysIn(y, m) <= YearLength(y) /\ YearLength(y) \in {365, 366}
  BY <1>1, MonthsTile, DaysInMonth
<1>3. YearStart[y] <= n /\ n < YearStart[y + 1] /\ n \in Nat
  BY <1>1, <1>2
<1>4. /\ MonthStart(y)[m] <= n - YearStart[y] /\ n - YearStart[y] < MonthStart(y)[m] + DaysIn(y, m)
      /\ n - YearStart[y] = MonthStart(y)[m] + k
  BY <1>1, <1>2
<1>5. \A x \in Years : YearStart[x] <= n /\ n < YearStart[x + 1] => x = y
  <2> SUFFICES ASSUME NEW x \in Years, YearStart[x] <= n, n < YearStart[x + 1], x # y PROVE FALSE
    OBVIOUS
  <2>1. x \in Int /\ YearStart[x] \in Nat /\ YearStart[x + 1] = YearStart[x] + YearLength(x) /\ YearLength(x) \in {365, 366}
    BY YearsTile, DaysInMonth
  <2>2. x < y \/ y < x
    BY <1>1, <2>1
  <2>3. YearStart[x + 1] <= YearStart[y] \/ YearStart[y + 1] <= YearStart[x]
    BY <2>2, YearsTile
  <2> HIDE DEF n
  <2>4. QED
    BY <1>1, <1>2, <1>3, <2>1, <2>3
<1>6. \A x \in 1..12 : /\ MonthStart(y)[x] <= n - YearStart[y]
                       /\ n - YearStart[y] < MonthStart(y)[x] + DaysIn(y, x)
                       => x = m
  <2> SUFFICES ASSUME NEW x \in 1..12, MonthStart(y)[x] <= n - YearStart[y],
                      n - YearStart[y] < MonthStart(y)[x] + DaysIn(y, x), x # m
               PROVE  FALSE
    OBVIOUS
  <2>1. MonthStart(y)[x] \in Nat /\ DaysIn(y, x) \in 28..31
    BY <1>1, MonthsTile
  <2>2. \/ MonthStart(y)[x] + DaysIn(y, x) <= MonthStart(y)[m]
        \/ MonthStart(y)[m] + DaysIn(y, m) <= MonthStart(y)[x]
    <3>1. x < m \/ m < x
      OBVIOUS
    <3>2. \A a, b \in 1..12 : a < b => MonthStart(y)[a] + DaysIn(y, a) <= MonthStart(y)[b]
      BY <1>1, MonthsTile
    <3>3. QED
      BY <3>1, <3>2
  <2> HIDE DEF n
  <2>3. QED
    BY <1>1, <1>2, <1>3, <1>4, <2>1, <2>2
<1> HIDE DEF n
<1>7. yy = y
  BY <1>3, <1>5
<1>8. mm = m
  BY <1>4, <1>6
<1>9. DateOf(n) = Date(yy, mm, n - YearStart[y] - MonthStart(y)[m] + 1)
  <2> HIDE DEF yy
  <2>1. DateOf(n) = LET v == yy
                        w == CHOOSE x \in 1..12 : /\ MonthStart(v)[x] <= n - YearStart[v]
                                                  /\ n - YearStart[v] < MonthStart(v)[x] + DaysIn(v, x)
                    IN Date(v, w, n - YearStart[v] - MonthStart(v)[w] + 1)
    BY DEF DateOf, yy, Years
  <2>2. QED
    BY <1>7, <1>8, <2>1
<1>10. n - YearStart[y] - MonthStart(y)[m] + 1 = k + 1
  BY <1>1, <1>2, <1>3, <1>4
<1>11. DateOf(n) = Date(y, m, k + 1)
  BY <1>7, <1>8, <1>9, <1>10
<1>12. n \in Days
  BY <1>1, <1>2, <1>3 DEF Days
<1>13. QED
  BY <1>3, <1>11, <1>12 DEF n

(* The calendar numbers its days: each day has a date and each date a day. *)
LEMMA DatesAreDays ==
  ASSUME NEW date \in Dates
  PROVE  /\ DayNumber(date) \in Days
         /\ DateOf(DayNumber(date)) = date
         /\ DayNumber(date) < YearStart[date.year + 1]
<1> DEFINE y == date.year  m == date.month  k == date.day - 1
<1>1. y \in Years /\ m \in 1..12 /\ date.day \in Nat /\ date.day \in 1..DaysIn(y, m) /\ date = Date(y, m, date.day)
  BY DEF Dates, Date
<1>2. y \in Int
  BY <1>1, YearsTile
<1>3. YearStart[y] \in Nat /\ MonthStart(y)[m] \in Nat /\ DaysIn(y, m) \in 28..31
  BY <1>1, <1>2, YearsTile, MonthsTile
<1>4. k \in 0..(DaysIn(y, m) - 1) /\ k + 1 = date.day
  BY <1>1, <1>3
<1>5. DayNumber(date) = YearStart[y] + MonthStart(y)[m] + k
  BY <1>1, <1>3 DEF DayNumber
<1> HIDE DEF y, m, k
<1>6. QED
  BY <1>1, <1>4, <1>5, DateOfFinds DEF y

(* Every day of the calendar is the day of a date of the calendar.         *)
LEMMA DaysAreDates ==
  ASSUME NEW n \in Days
  PROVE  /\ DateOf(n) \in Dates
         /\ DayNumber(DateOf(n)) = n
<1>1. PICK y \in Years : YearStart[y] <= n /\ n < YearStart[y + 1]
  BY YearsTile
<1>2. y \in Int /\ YearStart[y] \in Nat /\ YearStart[y + 1] = YearStart[y] + YearLength(y)
      /\ YearLength(y) \in {365, 366} /\ n \in Nat
  BY YearsTile, DaysInMonth DEF Days
<1>3. n - YearStart[y] \in 0..(YearLength(y) - 1)
  BY <1>1, <1>2
<1>4. PICK m \in 1..12 : /\ MonthStart(y)[m] <= n - YearStart[y]
                         /\ n - YearStart[y] < MonthStart(y)[m] + DaysIn(y, m)
  BY ZenonT(60), <1>2, <1>3, MonthsTile
<1>5. MonthStart(y)[m] \in Nat /\ DaysIn(y, m) \in 28..31
  BY SMTT(30), <1>2, MonthsTile
<1> DEFINE k == n - YearStart[y] - MonthStart(y)[m]
<1>6. k \in 0..(DaysIn(y, m) - 1) /\ n = YearStart[y] + MonthStart(y)[m] + k
  BY <1>2, <1>4, <1>5
<1> HIDE DEF k
<1>7. DateOf(n) = Date(y, m, k + 1)
  BY <1>6, DateOfFinds
<1>8. k + 1 \in Nat /\ k + 1 \in 1..DaysIn(y, m) /\ (k + 1) - 1 = k
  BY <1>5, <1>6
<1>9. DateOf(n) \in Dates
  BY <1>7, <1>8 DEF Dates, Date
<1>10. DayNumber(DateOf(n)) = YearStart[y] + MonthStart(y)[m] + (k + 1) - 1
  BY <1>7 DEF DayNumber, Date
<1>11. QED
  BY <1>2, <1>5, <1>6, <1>8, <1>9, <1>10

(* Going to the next date goes one day on, over month and year ends.       *)
LEMMA NextDayIsNext ==
  ASSUME NEW date \in Dates, DayNumber(date) + 1 \in Days
  PROVE  /\ NextDay(date) \in Dates
         /\ DayNumber(NextDay(date)) = DayNumber(date) + 1
<1> DEFINE y == date.year  m == date.month  k == date.day
<1>1. y \in Years /\ m \in 1..12 /\ k \in Nat /\ k \in 1..DaysIn(y, m) /\ date = Date(y, m, k)
  BY DEF Dates, Date
<1>4. DayNumber(date) = YearStart[y] + MonthStart(y)[m] + k - 1
  BY DEF DayNumber
<1> HIDE DEF y, m, k
<1>2. y \in Int /\ YearStart[y] \in Nat /\ YearStart[y + 1] = YearStart[y] + YearLength(y)
      /\ YearLength(y) \in {365, 366}
  BY <1>1, YearsTile, DaysInMonth
<1>3. MonthStart(y)[m] \in Nat /\ DaysIn(y, m) \in 28..31
  BY <1>1, <1>2, MonthsTile
<1>5. \A yy, mm, dd : DayNumber(Date(yy, mm, dd)) = YearStart[yy] + MonthStart(yy)[mm] + dd - 1
  BY DEF DayNumber, Date
<1>6. CASE k < DaysIn(y, m)
  <2>1. NextDay(date) = Date(y, m, k + 1)
    BY <1>1, <1>6 DEF NextDay, Date
  <2>2. NextDay(date) \in Dates
    BY <1>1, <1>3, <1>6, <2>1 DEF Dates, Date
  <2>3. QED
    BY <1>1, <1>2, <1>3, <1>4, <1>5, <2>1, <2>2
<1>7. CASE k = DaysIn(y, m) /\ m < 12
  <2>1. NextDay(date) = Date(y, m + 1, 1)
    BY <1>1, <1>7 DEF NextDay, Date
  <2>2. m + 1 \in 1..12 /\ m \in 1..11
    BY <1>1, <1>7
  <2>3. MonthStart(y)[m + 1] = MonthStart(y)[m] + DaysIn(y, m) /\ DaysIn(y, m + 1) \in 28..31
    BY <1>2, <2>2, MonthsTile
  <2>4. NextDay(date) \in Dates
    BY <1>1, <2>1, <2>2, <2>3 DEF Dates, Date
  <2>5. QED
    BY <1>1, <1>2, <1>3, <1>4, <1>5, <1>7, <2>1, <2>3, <2>4
<1>8. CASE k = DaysIn(y, m) /\ m = 12
  <2>1. NextDay(date) = Date(y + 1, 1, 1)
    BY <1>1, <1>8 DEF NextDay, Date
  <2>2. MonthStart(y)[12] + DaysIn(y, 12) = YearLength(y)
    BY <1>2, MonthsTile
  <2>3. DayNumber(date) + 1 = YearStart[y + 1]
    BY <1>2, <1>3, <1>4, <1>8, <2>2
  <2>4. y # LastYear
    BY <2>3, YearsTile DEF Days
  <2>5. y + 1 \in Years
    BY <1>1, <1>2, <2>4, CalendarAssumption DEF Years
  <2>6. MonthStart(y + 1)[1] = 0 /\ DaysIn(y + 1, 1) = 31 /\ YearStart[y + 1] \in Nat
    <3>1. y + 1 \in Int
      BY <1>2
    <3>2. QED
      BY <3>1, <2>5, MonthStarts, DaysInMonth, YearsTile
  <2>7. NextDay(date) \in Dates
    BY <2>1, <2>5, <2>6 DEF Dates, Date
  <2>8. QED
    BY <1>5, <2>1, <2>3, <2>6, <2>7
<1>9. QED
  BY <1>1, <1>3, <1>6, <1>7, <1>8

(* The clock changes are at the same two hours of the day every year.      *)
LEMMA ClockChanges ==
  ASSUME NEW y \in Years
  PROVE  /\ \E a \in Int : SummerFrom(y) = 24 * a + 2 + Winter
         /\ \E b \in Int : SummerTo(y) = 24 * b + 1 + Winter
<1>1. y \in Int /\ YearStart[y] \in Nat
  BY YearsTile
<1>2. ASSUME NEW m \in 1..12, NEW nth \in 1..2 PROVE DayNumber(Sunday(y, m, nth)) \in Int
  <2>1. MonthStart(y)[m] \in Nat
    BY <1>1, MonthsTile
  <2> DEFINE start == YearStart[y] + MonthStart(y)[m] - 1
  <2>2. \A d : DayNumber(Date(y, m, d)) = YearStart[y] + MonthStart(y)[m] + d - 1
    BY DEF DayNumber, Date
  <2>3. start \in Int /\ \A d \in Int : DayNumber(Date(y, m, d)) = start + d
    BY <1>1, <2>1, <2>2
  <2> HIDE DEF start
  <2>4. \E d \in 1..7 : (start + d) % 7 = 0
    <3>1. \/ (start + 1) % 7 = 0 \/ (start + 2) % 7 = 0 \/ (start + 3) % 7 = 0 \/ (start + 4) % 7 = 0
          \/ (start + 5) % 7 = 0 \/ (start + 6) % 7 = 0 \/ (start + 7) % 7 = 0
      BY <2>3
    <3>2. QED
      BY <3>1
  <2> DEFINE first == CHOOSE d \in 1..7 : DayNumber(Date(y, m, d)) % 7 = 0
  <2>5. \E d \in 1..7 : DayNumber(Date(y, m, d)) % 7 = 0
    BY <2>3, <2>4
  <2>6. first \in 1..7
    BY <2>5
  <2>7. Sunday(y, m, nth) = Date(y, m, first + 7 * (nth - 1))
    BY DEF Sunday
  <2> HIDE DEF first
  <2>8. first + 7 * (nth - 1) \in Int
    BY <2>6
  <2>9. QED
    BY <2>3, <2>7, <2>8
<1>3. DayNumber(Sunday(y, 3, 2)) \in Int /\ DayNumber(Sunday(y, 11, 1)) \in Int
  BY <1>2
<1>4. Winter \in Nat
  BY CalendarAssumption
<1>5. SummerTo(y) = 24 * DayNumber(Sunday(y, 11, 1)) + 1 + Winter
  BY <1>3, <1>4 DEF SummerTo
<1>6. QED
  BY <1>3, <1>5 DEF SummerFrom

(* New York is behind UTC by its winter hours or an hour less.             *)
LEMMA BehindRange ==
  ASSUME NEW t PROVE Behind(t) \in {Winter - 1, Winter}
BY DEF Behind

(* Around a midnight the clock does not change.                            *)
LEMMA QuietMidnights ==
  ASSUME NEW n \in Int
  PROVE  /\ Behind(24 * n + Winter) = Behind(24 * n + Winter - 1)
         /\ Behind(24 * n + Winter - 1) = Behind(24 * n + Winter - 2)
<1> DEFINE A == 24 * n + Winter
<1>1. A \in Int /\ A - 1 = 24 * n + Winter - 1 /\ A - 2 = 24 * n + Winter - 2 /\ Winter \in Nat
  BY CalendarAssumption
<1>2. ASSUME NEW y \in Years
      PROVE  (A \in Summers[y] <=> A - 1 \in Summers[y]) /\ (A - 1 \in Summers[y] <=> A - 2 \in Summers[y])
  <2>1. PICK a \in Int : SummerFrom(y) = 24 * a + 2 + Winter
    BY ClockChanges
  <2>2. PICK b \in Int : SummerTo(y) = 24 * b + 1 + Winter
    BY ClockChanges
  <2>3. \A t \in Int : t \in Summers[y] <=> 24 * a + 2 + Winter <= t /\ t < 24 * b + 1 + Winter
    <3>1. Summers[y] = SummerFrom(y)..(SummerTo(y) - 1)
      BY DEF Summers, Years
    <3>2. QED
      BY SMTT(30), <1>1, <2>1, <2>2, <3>1
  <2>4. QED
    BY <1>1, <2>3
<1> HIDE DEF A
<1>3. Behind(A) = Behind(A - 1)
  BY <1>2 DEF Behind, Years
<1>4. Behind(A - 1) = Behind(A - 2)
  BY <1>2 DEF Behind, Years
<1>5. QED
  BY <1>1, <1>3, <1>4 DEF A

(* EndOf finds the instant of the local midnight after a date; it and the  *)
(* hour before it are on the same clock.                                   *)
LEMMA EndOfMidnight ==
  ASSUME NEW date, DayNumber(date) \in Int
  PROVE  LET at == EndOf(date) IN
         /\ at \in Int
         /\ at - Behind(at) = 24 * (DayNumber(date) + 1)
         /\ Behind(at - 1) = Behind(at)
<1> DEFINE n == DayNumber(date) + 1
           A == 24 * n + Winter
           Local(t) == t - Behind(t) = 24 * n
           S == {24 * n + behind : behind \in {Winter - 1, Winter}}
<1>1. n \in Int /\ Winter \in Nat
  BY CalendarAssumption
<1> HIDE DEF n
<1>2. Behind(A) = Behind(A - 1) /\ Behind(A - 1) = Behind(A - 2) /\ A \in Int
  <2>1. A - 1 = 24 * n + Winter - 1 /\ A - 2 = 24 * n + Winter - 2 /\ A \in Int
    BY <1>1
  <2>2. QED
    BY <1>1, <2>1, QuietMidnights
<1>3. S = {A - 1, A} /\ A - 24 * n = Winter
  BY <1>1
<1> HIDE DEF A, S
<1>4. Behind(A) \in {Winter - 1, Winter}
  BY BehindRange
<1>5. \E t \in S : Local(t)
  <2>1. CASE Behind(A) = Winter
    BY <1>1, <1>2, <1>3, <2>1
  <2>2. CASE Behind(A) = Winter - 1
    BY <1>1, <1>2, <1>3, <2>2
  <2>3. QED
    BY <1>4, <2>1, <2>2
<1>6. EndOf(date) = CHOOSE t \in S : Local(t)
  BY DEF EndOf, S, n
<1> HIDE DEF Local
<1>7. EndOf(date) \in S /\ Local(EndOf(date))
  BY <1>5, <1>6
<1> DEFINE at == EndOf(date)
<1> HIDE DEF at
<1>8. at \in S /\ Local(at)
  BY <1>7 DEF at
<1>9. at \in Int /\ (at = A \/ at = A - 1) /\ (A - 1) - 1 = A - 2
  BY <1>2, <1>3, <1>8
<1>10. Behind(at - 1) = Behind(at)
  BY <1>2, <1>9
<1>11. QED
  BY <1>8, <1>9, <1>10 DEF at, n, Local

(* The local day of an instant.                                            *)
LocalDay(t) == (t - Behind(t)) \div 24

(* The last instant of a date is on it, and its end is on the next day.    *)
LEMMA LocalDays ==
  ASSUME NEW date, DayNumber(date) \in Int
  PROVE  /\ LocalDay(EndOf(date) - 1) = DayNumber(date)
         /\ LocalDay(EndOf(date)) = DayNumber(date) + 1
<1> DEFINE at == EndOf(date)  n == DayNumber(date)
<1>1. at \in Int /\ at - Behind(at) = 24 * (n + 1) /\ Behind(at - 1) = Behind(at) /\ n \in Int
  BY EndOfMidnight
<1>2. Winter \in Nat /\ Behind(at) \in {Winter - 1, Winter}
  BY BehindRange, CalendarAssumption
<1> HIDE DEF at, n
<1>3. (at - 1) - Behind(at) = 24 * (n + 1) - 1
  BY <1>1, <1>2
<1>4. (24 * (n + 1) - 1) \div 24 = n /\ (24 * (n + 1)) \div 24 = n + 1
  BY <1>1
<1>5. QED
  BY <1>1, <1>3, <1>4 DEF LocalDay, at, n

(* The local day of a covered purchase and the day after are in the        *)
(* calendar.                                                               *)
LEMMA PurchaseDay ==
  ASSUME NEW t \in Covered
  PROVE  /\ t \in Int
         /\ LocalDate(t) \in Dates
         /\ DayNumber(LocalDate(t)) = LocalDay(t)
         /\ LocalDay(t) + 1 \in Days
<1> DEFINE b == Behind(t)  last == YearStart[LastYear + 1]
<1>1. b \in {Winter - 1, Winter} /\ Winter \in Nat /\ last \in Nat
  BY BehindRange, CalendarAssumption, YearsTile
<1>2. t \in Int /\ Winter <= t /\ t <= 24 * (last - 1) + Winter - 2
  BY <1>1 DEF Covered
<1> HIDE DEF b, last
<1>3. t - b \in Int /\ 0 <= t - b /\ t - b <= 24 * (last - 1) - 1
  BY <1>1, <1>2
<1>4. (t - b) \div 24 \in Int /\ 0 <= (t - b) \div 24 /\ (t - b) \div 24 <= last - 2
  BY <1>1, <1>3
<1>5. LocalDay(t) \in Days /\ LocalDay(t) + 1 \in Days
  BY <1>1, <1>4 DEF LocalDay, Days, b, last
<1>6. LocalDate(t) = DateOf(LocalDay(t))
  BY DEF LocalDate, LocalDay
<1>7. QED
  BY <1>2, <1>5, <1>6, DaysAreDates

(* December 31 is the day before the first of the year that follows.       *)
LEMMA YearEnds ==
  ASSUME NEW y \in Epoch..(LastYear - 1)
  PROVE  /\ Date(y, 12, 31) \in Dates
         /\ DayNumber(Date(y, 12, 31)) + 1 = YearStart[y + 1]
         /\ DateOf(YearStart[y + 1]) = Date(y + 1, 1, 1)
<1>1. y \in Years /\ y + 1 \in Years /\ y \in Int
  BY CalendarAssumption DEF Years
<1>2. /\ YearStart[y] \in Nat /\ YearStart[y + 1] = YearStart[y] + YearLength(y)
      /\ YearLength(y) \in {365, 366} /\ DaysIn(y, 12) = 31 /\ YearStart[y + 1] \in Nat
  BY <1>1, YearsTile, DaysInMonth
<1>3. MonthStart(y)[12] \in Nat /\ MonthStart(y)[12] + DaysIn(y, 12) = YearLength(y)
  BY <1>1, MonthsTile
<1>4. Date(y, 12, 31) \in Dates
  BY <1>1, <1>2 DEF Dates, Date
<1>5. DayNumber(Date(y, 12, 31)) = YearStart[y] + MonthStart(y)[12] + 31 - 1
  BY DEF DayNumber, Date
<1>6. DayNumber(Date(y, 12, 31)) + 1 = YearStart[y + 1]
  BY <1>2, <1>3, <1>5
<1>7. MonthStart(y + 1)[1] = 0 /\ DaysIn(y + 1, 1) = 31
  <2>1. y + 1 \in Int
    BY <1>1
  <2>2. QED
    BY <2>1, MonthStarts, DaysInMonth
<1>8. 0 \in 0..(DaysIn(y + 1, 1) - 1) /\ YearStart[y + 1] + MonthStart(y + 1)[1] + 0 = YearStart[y + 1]
  BY <1>2, <1>7
<1>9. DateOf(YearStart[y + 1]) = Date(y + 1, 1, 0 + 1)
  <2>1. 1 \in 1..12 /\ 0 + 1 = 1
    OBVIOUS
  <2>2. QED
    BY <1>1, <1>8, <2>1, DateOfFinds
<1>10. QED
  BY <1>4, <1>6, <1>9

(* A badge that dies at the end of a date of the calendar.                 *)
LEMMA DatedBadge ==
  ASSUME NEW date \in Dates
  PROVE  /\ EndOf(date) \in Nat \ {0}
         /\ Expires(EndOf(date))
         /\ LocalDate(EndOf(date) - 1) = date
         /\ Format(EndOf(date)) = date
         /\ date # NoDate /\ date.year \in Nat \ {0}
<1>1. DayNumber(date) \in Nat /\ DateOf(DayNumber(date)) = date
  BY DatesAreDays DEF Days
<1>2. LocalDay(EndOf(date) - 1) = DayNumber(date)
  BY <1>1, LocalDays
<1>3. LocalDate(EndOf(date) - 1) = date
  BY <1>1, <1>2 DEF LocalDate, LocalDay
<1>4. EndOf(date) \in Nat \ {0}
  <2> DEFINE at == EndOf(date)  b == Behind(at)  n == DayNumber(date)
  <2>1. at \in Int /\ at - b = 24 * (n + 1)
    BY <1>1, EndOfMidnight
  <2>2. b \in {Winter - 1, Winter} /\ Winter \in Nat
    BY BehindRange, CalendarAssumption
  <2> HIDE DEF at, b, n
  <2>3. n \in Nat
    BY <1>1 DEF n
  <2>4. at \in Nat \ {0}
    BY <2>1, <2>2, <2>3
  <2>5. QED
    BY <2>4 DEF at
<1>5. Expires(EndOf(date)) /\ EndOf(date) # ZeroTime
  BY <1>4 DEF Expires, ZeroTime
<1>6. Format(EndOf(date)) = date
  BY <1>3, <1>5 DEF Format
<1>7. date.year \in Nat \ {0} /\ date # NoDate
  <2>1. date.year \in Years
    BY DEF Dates
  <2>2. date.year \in Nat \ {0}
    BY <2>1, CalendarAssumption DEF Years
  <2>3. NoDate.year = 0
    BY DEF NoDate, Date
  <2>4. QED
    BY <2>2, <2>3
<1>8. QED
  BY <1>3, <1>4, <1>5, <1>6, <1>7
-----------------------------------------------------------------------------
(* What the assumption says of one order.                                  *)
Known(o) ==
  /\ o.at \in Covered
  /\ o.season \in {0} \cup Epoch..(LastYear - 1)
  /\ o.passType \in PassTypes
  /\ o.id \in Seq(STRING)
  /\ o.name \in Seq(NameKinds) /\ o.serial \in Seq(NameKinds)
  /\ o.body \in Seq(BodyKinds) /\ o.size \in Nat

(* What Calculate can return.                                              *)
LEMMA Expiries ==
  ASSUME NEW o, Known(o)
  PROVE  \/ Calculate(o) = Failed
         \/ o.passType = "founder" /\ Calculate(o) = Unexpiring
         \/ o.passType = "day_pass" /\ Calculate(o) = Expiring(NextDay(LocalDate(o.at)))
         \/ /\ o.passType # "day_pass" /\ o.season \in Epoch..(LastYear - 1)
            /\ Calculate(o) = Expiring(Date(o.season, 12, 31))
BY DEF Calculate, Known, PassTypes

(* A badge that is made never ends or ends on a date of the calendar.      *)
LEMMA ExpiryDates ==
  ASSUME NEW o, Known(o), Calculate(o).kind # "error"
  PROVE  \/ Calculate(o) = Unexpiring
         \/ \E date \in Dates : Calculate(o) = Expiring(date)
<1>1. CASE Calculate(o) = Failed
  BY <1>1 DEF Failed
<1>2. CASE o.passType = "day_pass" /\ Calculate(o) = Expiring(NextDay(LocalDate(o.at)))
  <2>1. NextDay(LocalDate(o.at)) \in Dates
    BY PurchaseDay, NextDayIsNext DEF Known
  <2>2. QED
    BY <1>2, <2>1
<1>3. CASE o.season \in Epoch..(LastYear - 1) /\ Calculate(o) = Expiring(Date(o.season, 12, 31))
  BY <1>3, YearEnds
<1>4. QED
  BY <1>1, <1>2, <1>3, Expiries
-----------------------------------------------------------------------------
(* Before build, after it refused, and after it made the badge.            *)
Nothing ==
  /\ artwork = None /\ apple = NoPass /\ google = NoPass /\ message = None
  /\ artifact = NoArtifact /\ row = None

(* Every surface is made from the one expiry.                              *)
Made ==
  LET expiry == Calculate(order)
      at == ExpiresAt(expiry)
  IN /\ expiry.kind # "error" /\ Validate(order)
     /\ badge = expiry
     /\ artwork = Render(order, at)
     /\ apple = (IF "apple" \in order.wallets THEN Pack(PassJSON(order, at)) ELSE NoPass)
     /\ google = (IF "google" \in order.wallets THEN SaveJWT(order, at) ELSE NoPass)
     /\ message = Mail(order, at, apple, google)
     /\ artifact = Store(order, apple, google)
     /\ row = [kind |-> "row", expires |-> RecordedExpiry(at), year |-> ListedUnder(expiry)]

(* The inductive invariant: the order is one of the orders, and either     *)
(* nothing was made or everything was, from the same expiry.               *)
IInv ==
  /\ Known(order)
  /\ \/ badge \in {None, Failed} /\ Nothing
     \/ Made

(* It is one.                                                              *)
LEMMA Inductive == Spec => []IInv
<1>1. Init => IInv
  BY OrdersAssumption DEF Init, IInv, Known, Nothing
<1>2. IInv /\ [Next]_vars => IInv'
  <2> SUFFICES ASSUME IInv, [Next]_vars PROVE IInv'
    OBVIOUS
  <2>1. CASE Refuse
    BY <2>1 DEF Refuse, IInv, Made, Nothing, None, Failed, Known
  <2>2. CASE Build
    <3>1. Known(order)'
      BY <2>2 DEF Build, IInv, Known
    <3>2. Made'
      BY <2>2 DEF Build, Made
    <3>3. QED
      BY <3>1, <3>2 DEF IInv
  <2>3. CASE UNCHANGED vars
    BY <2>3 DEF vars, IInv, Known, Nothing, Made
  <2>4. QED
    BY <2>1, <2>2, <2>3 DEF Next
<1>3. QED
  BY <1>1, <1>2, PTL DEF Spec

(* The kinds of an expiry.                                                 *)
LEMMA NotNone ==
  /\ None.kind = "none" /\ Failed.kind = "error" /\ Unexpiring.kind = "never"
  /\ \A date : Expiring(date).kind = "date" /\ Expiring(date).date = date /\ Expiring(date).at = EndOf(date)
BY DEF None, Failed, Unexpiring, Expiring, Never

(* A day pass: the day after the purchase day is a date, and the purchase  *)
(* is 1 to 24 hours before the midnight that ends its own day.             *)
LEMMA DayPasses == IInv => DayPassCoversNextDay
<1> SUFFICES ASSUME IInv, badge.kind = "date", order.passType = "day_pass"
             PROVE  /\ DayNumber(badge.date) = DayNumber(LocalDate(order.at)) + 1
                    /\ badge.date = DateOf(DayNumber(badge.date))
                    /\ badge.at - order.at \in 24..49
                    /\ LocalDate(badge.at - 1) = badge.date
  BY DEF DayPassCoversNextDay
<1> DEFINE t == order.at  day == LocalDate(t)  next == NextDay(day)
<1>1. Known(order) /\ Made
  BY NotNone DEF IInv
<1>2. badge = Expiring(next)
  BY <1>1, Expiries, NotNone DEF Made
<1>3. t \in Int /\ day \in Dates /\ DayNumber(day) = LocalDay(t) /\ LocalDay(t) + 1 \in Days
  BY <1>1, PurchaseDay DEF Known
<1>4. next \in Dates /\ DayNumber(next) = DayNumber(day) + 1
  BY <1>3, NextDayIsNext
<1>5. badge.date = next /\ badge.at = EndOf(next)
  BY <1>2, NotNone
<1>6. DateOf(DayNumber(next)) = next /\ DayNumber(next) \in Int /\ DayNumber(day) \in Int
  BY <1>3, <1>4, DatesAreDays DEF Days
<1>7. LocalDate(EndOf(next) - 1) = next
  BY <1>4, DatedBadge
<1>8. EndOf(next) - t \in 24..49
  <2> DEFINE at == EndOf(next)  b == Behind(at)  c == Behind(t)  n == DayNumber(day)
  <2>1. at \in Int /\ at - b = 24 * (DayNumber(next) + 1)
    BY <1>6, EndOfMidnight
  <2>2. b \in {Winter - 1, Winter} /\ c \in {Winter - 1, Winter} /\ Winter \in Nat
    BY BehindRange, CalendarAssumption
  <2>3. n = (t - c) \div 24
    BY <1>3 DEF LocalDay
  <2>4. n \in Int /\ DayNumber(next) = n + 1
    BY <1>4, <1>6
  <2> HIDE DEF at, b, c, n, t
  <2>5. at - b = 24 * (n + 2)
    BY <2>1, <2>4
  <2>6. t - c \in Int /\ 24 * n <= t - c /\ t - c <= 24 * n + 23
    BY <1>3, <2>2, <2>3, <2>4
  <2>7. at - t \in 24..49
    BY <1>3, <2>1, <2>2, <2>4, <2>5, <2>6
  <2>8. QED
    BY <2>7 DEF at
<1>9. QED
  BY <1>4, <1>5, <1>6, <1>7, <1>8

(* A season: December 31 is the day before the first of January, and an    *)
(* instant of an earlier local day is an earlier instant.                  *)
LEMMA Seasons == IInv => SeasonLastsItsYear
<1> SUFFICES ASSUME IInv, badge.kind = "date", order.passType # "day_pass"
             PROVE  /\ LocalDate(badge.at - 1) = Date(order.season, 12, 31)
                    /\ LocalDate(badge.at) = Date(order.season + 1, 1, 1)
                    /\ LocalDate(order.at).year <= order.season => order.at < badge.at
                    /\ row.year = order.season
  BY DEF SeasonLastsItsYear
<1> DEFINE t == order.at  y == order.season  last == Date(y, 12, 31)  at == EndOf(last)
<1>1. Known(order) /\ Made
  BY NotNone DEF IInv
<1>2. y \in Epoch..(LastYear - 1) /\ badge = Expiring(last)
  BY <1>1, Expiries, NotNone DEF Made
<1>3. badge.date = last /\ badge.at = at
  BY <1>2, NotNone
<1>4. last \in Dates /\ DayNumber(last) + 1 = YearStart[y + 1] /\ DateOf(YearStart[y + 1]) = Date(y + 1, 1, 1)
  BY <1>2, YearEnds
<1>5. LocalDate(at - 1) = last
  BY <1>4, DatedBadge
<1>6. DayNumber(last) \in Int
  BY <1>4, DatesAreDays DEF Days
<1>7. LocalDate(at) = Date(y + 1, 1, 1)
  <2>1. LocalDay(at) = YearStart[y + 1]
    BY <1>4, <1>6, LocalDays
  <2>2. QED
    BY <1>4, <2>1 DEF LocalDate, LocalDay
<1>8. row.year = y
  <2>1. row.year = ListedUnder(badge)
    BY <1>1 DEF Made
  <2>2. last.year = y
    BY DEF Date
  <2>3. QED
    BY <1>2, <1>3, <2>1, <2>2 DEF ListedUnder
<1>9. ASSUME LocalDate(t).year <= y PROVE t < at
  <2> DEFINE b == Behind(at)  c == Behind(t)  n == YearStart[y + 1]
  <2>1. at \in Int /\ at - b = 24 * n
    BY <1>4, <1>6, EndOfMidnight
  <2>2. b \in {Winter - 1, Winter} /\ c \in {Winter - 1, Winter} /\ Winter \in Nat
    BY BehindRange, CalendarAssumption
  <2>3. t \in Int /\ LocalDate(t) \in Dates /\ DayNumber(LocalDate(t)) = LocalDay(t)
    BY <1>1, PurchaseDay DEF Known
  <2>4. LocalDay(t) < n
    <3> DEFINE z == LocalDate(t).year
    <3>1. z \in Years /\ y \in Years /\ z \in Int /\ y \in Int /\ LocalDay(t) < YearStart[z + 1]
      BY <1>2, <2>3, DatesAreDays, YearsTile, CalendarAssumption DEF Dates, Years
    <3>2. z = y \/ z < y
      BY <1>9, <3>1
    <3>3. z < y => YearStart[z + 1] <= YearStart[y] /\ YearStart[y] <= n
      BY <3>1, YearsTile, DaysInMonth
    <3>4. LocalDay(t) \in Int /\ YearStart[z + 1] \in Int /\ YearStart[y] \in Int /\ n \in Int
      BY <2>3, <3>1, YearStarts, YearsTile, DatesAreDays DEF Days
    <3> HIDE DEF z, n
    <3>5. CASE z = y
      BY <3>1, <3>5 DEF n
    <3>6. CASE z < y
      BY <3>1, <3>3, <3>4, <3>6
    <3>7. QED
      BY <3>2, <3>5, <3>6
  <2>5. LocalDay(t) = (t - c) \div 24 /\ n \in Int
    BY <1>4, <1>6 DEF LocalDay
  <2>6. t = at => b = c
    OBVIOUS
  <2> HIDE DEF at, b, c, n, t
  <2>7. t - c < 24 * n
    BY <2>2, <2>3, <2>4, <2>5
  <2>8. QED
    BY <2>1, <2>2, <2>3, <2>5, <2>6, <2>7
<1>10. QED
  BY <1>3, <1>5, <1>7, <1>8, <1>9

(* What each surface says of the end of a badge.                           *)
LEMMA Endings ==
  ASSUME NEW o, Known(o), Calculate(o).kind # "error"
  PROVE  LET b == Calculate(o)
             at == ExpiresAt(b)
             last == IF b = Unexpiring THEN NoDate ELSE b.date
         IN /\ (IF Expires(at) THEN Format(at) ELSE NoDate) = last
            /\ Expires(at) <=> last # NoDate
            /\ ListedUnder(b) = 0 <=> last = NoDate
            /\ at \in Int
<1>1. CASE Calculate(o) = Unexpiring
  <2> DEFINE b == Calculate(o)
  <2>1. b = Unexpiring /\ b.kind = "never"
    BY <1>1, NotNone
  <2> HIDE DEF b
  <2>2. ExpiresAt(b) = ZeroTime /\ ListedUnder(b) = 0
    BY <2>1 DEF ExpiresAt, ListedUnder
  <2>3. ~Expires(ExpiresAt(b)) /\ ExpiresAt(b) \in Int
    BY <2>2 DEF Expires, ZeroTime
  <2>4. (IF b = Unexpiring THEN NoDate ELSE b.date) = NoDate
        /\ (IF Expires(ExpiresAt(b)) THEN Format(ExpiresAt(b)) ELSE NoDate) = NoDate
    BY <2>1, <2>3
  <2>5. QED
    BY <2>2, <2>3, <2>4 DEF b
<1>2. ASSUME NEW date \in Dates, Calculate(o) = Expiring(date)
      PROVE  LET b == Calculate(o)
                 at == ExpiresAt(b)
                 last == IF b = Unexpiring THEN NoDate ELSE b.date
             IN /\ (IF Expires(at) THEN Format(at) ELSE NoDate) = last
                /\ Expires(at) <=> last # NoDate
                /\ ListedUnder(b) = 0 <=> last = NoDate
                /\ at \in Int
  <2> DEFINE b == Calculate(o)
  <2>1. b.kind = "date" /\ b.date = date /\ b.at = EndOf(date) /\ b # Unexpiring
    BY <1>2, NotNone
  <2>2. /\ EndOf(date) \in Int /\ Expires(EndOf(date)) /\ Format(EndOf(date)) = date
        /\ date # NoDate /\ date.year # 0
    BY DatedBadge
  <2> HIDE DEF b
  <2>3. ExpiresAt(b) = EndOf(date) /\ ListedUnder(b) = date.year
    BY <2>1 DEF ExpiresAt, ListedUnder
  <2>4. /\ (IF Expires(ExpiresAt(b)) THEN Format(ExpiresAt(b)) ELSE NoDate) = date
        /\ Expires(ExpiresAt(b)) /\ ListedUnder(b) # 0 /\ ExpiresAt(b) \in Int
    BY <2>2, <2>3
  <2>5. (IF b = Unexpiring THEN NoDate ELSE b.date) = date
    BY <2>1
  <2>6. QED
    BY <2>2, <2>4, <2>5 DEF b
<1>3. QED
  BY <1>1, <1>2, ExpiryDates

(* What the signer packs: the files of the pass, a digest of each of them  *)
(* in the manifest, and a signature of that manifest.                      *)
LEMMA Packed ==
  ASSUME NEW json
  PROVE  LET files == Pack(json) IN
         /\ files # NoPass
         /\ DOMAIN files = (DOMAIN Assets \cup {"pass.json"}) \cup {"signature", "manifest.json"}
         /\ files["signature"] = files["manifest.json"]
         /\ DOMAIN files["manifest.json"] = DOMAIN Assets \cup {"pass.json"}
         /\ \A file \in DOMAIN Assets \cup {"pass.json"} : files["manifest.json"][file] = files[file]
         /\ files["pass.json"] = json
         /\ files["logo"] = Logo(160, 50) /\ files["logo2x"] = Logo(320, 100)
<1> DEFINE plain == Put(Assets, "pass.json", json)
           listed == Put(plain, "manifest.json", plain)
           files == Put(listed, "signature", plain)
           Payload == {"pass.json", "icon", "icon2x", "icon3x", "logo", "logo2x"}
<1>1. /\ DOMAIN Assets \cup {"pass.json"} = Payload
      /\ Assets["logo"] = Logo(160, 50) /\ Assets["logo2x"] = Logo(320, 100)
  BY DEF Assets
<1>2. DOMAIN plain = Payload /\ plain["pass.json"] = json
  BY <1>1 DEF Put
<1>3. plain["logo"] = Logo(160, 50) /\ plain["logo2x"] = Logo(320, 100)
  BY <1>1 DEF Put
<1> HIDE DEF plain
<1>4. /\ DOMAIN listed = Payload \cup {"manifest.json"} /\ listed["manifest.json"] = plain
      /\ \A file \in Payload : listed[file] = plain[file]
  BY <1>2 DEF Put
<1> HIDE DEF listed
<1>5. /\ DOMAIN files = Payload \cup {"signature", "manifest.json"}
      /\ files["manifest.json"] = plain /\ files["signature"] = plain
      /\ \A file \in Payload : files[file] = plain[file]
  BY <1>4 DEF Put
<1> HIDE DEF files
<1>6. files # NoPass
  <2>1. "kind" \in DOMAIN NoPass /\ "kind" \notin DOMAIN files
    BY <1>5 DEF NoPass
  <2>2. QED
    BY <2>1
<1>7. Pack(json) = files
  BY DEF Pack, Digests, plain, listed, files
<1> HIDE DEF Payload
<1>8. /\ files["pass.json"] = json
      /\ files["logo"] = Logo(160, 50) /\ files["logo2x"] = Logo(320, 100)
  BY <1>2, <1>3, <1>5 DEF Payload
<1>9. QED
  BY <1>1, <1>2, <1>5, <1>6, <1>7, <1>8

(* When a row is written, everything was made.                             *)
LEMMA Surfaces ==
  ASSUME IInv, row # None
  PROVE  LET at == ExpiresAt(badge) IN
         /\ Known(order) /\ Made /\ badge = Calculate(order) /\ badge.kind # "error"
         /\ apple = NoPass \/ apple = Pack(PassJSON(order, at))
         /\ google = NoPass \/ google = SaveJWT(order, at)
<1>1. Made /\ Known(order)
  BY DEF IInv, Nothing
<1>2. QED
  BY <1>1 DEF Made

(* One expiry: every surface shows the date of the badge.                  *)
LEMMA OneDate == IInv => OneExpiry
<1> SUFFICES ASSUME IInv, row # None PROVE OneExpiry
  BY DEF OneExpiry
<1> DEFINE at == ExpiresAt(badge)
           last == IF badge = Unexpiring THEN NoDate ELSE badge.date
           shown == IF Expires(at) THEN Format(at) ELSE NoDate
<1>1. /\ Known(order) /\ Made /\ badge = Calculate(order) /\ badge.kind # "error"
      /\ apple = NoPass \/ apple = Pack(PassJSON(order, at))
      /\ google = NoPass \/ google = SaveJWT(order, at)
  BY Surfaces
<1>2. shown = last /\ (Expires(at) <=> last # NoDate) /\ (ListedUnder(badge) = 0 <=> last = NoDate)
  BY <1>1, Endings
<1>3. /\ artwork = Render(order, at) /\ message = Mail(order, at, apple, google)
      /\ row = [kind |-> "row", expires |-> RecordedExpiry(at), year |-> ListedUnder(badge)]
  BY <1>1 DEF Made
<1>4. /\ artwork.expires = shown /\ message.subject = shown /\ message.expires = shown
      /\ row.expires = shown /\ row.year = ListedUnder(badge)
  BY <1>3 DEF Render, Mail, RecordedExpiry
<1>5. ASSUME apple # NoPass
      PROVE  /\ apple["pass.json"].expiry = shown /\ apple["pass.json"].field = shown
             /\ apple["pass.json"].terms = "as shown" <=> Expires(at)
  <2>1. apple["pass.json"] = PassJSON(order, at)
    BY <1>1, <1>5, Packed
  <2>2. PassJSON(order, at).expiry = shown /\ PassJSON(order, at).field = shown
    BY DEF PassJSON
  <2>3. PassJSON(order, at).terms = IF Expires(at) THEN "as shown" ELSE "as long as recognised"
    BY DEF PassJSON
  <2>4. QED
    BY <2>1, <2>2, <2>3
<1>6. google # NoPass => google.text = shown /\ google.interval = shown
  BY <1>1 DEF SaveJWT
<1> HIDE DEF at, shown, last
<1>7. QED
  BY <1>2, <1>4, <1>5, <1>6 DEF OneExpiry, last

(* One signature: it covers every other file of the pass.                  *)
LEMMA Signed == IInv => SignedWhole
<1> SUFFICES ASSUME IInv, apple # NoPass PROVE SignedWhole
  BY DEF SignedWhole
<1>1. Made
  BY DEF IInv, Nothing
<1>2. PICK json : apple = Pack(json)
  BY <1>1 DEF Made
<1>3. /\ DOMAIN apple = (DOMAIN Assets \cup {"pass.json"}) \cup {"signature", "manifest.json"}
      /\ apple["signature"] = apple["manifest.json"]
      /\ DOMAIN apple["manifest.json"] = DOMAIN Assets \cup {"pass.json"}
      /\ \A file \in DOMAIN Assets \cup {"pass.json"} : apple["manifest.json"][file] = apple[file]
  BY <1>2, Packed
<1>4. "signature" \notin DOMAIN Assets \cup {"pass.json"} /\ "manifest.json" \notin DOMAIN Assets \cup {"pass.json"}
  BY DEF Assets
<1>5. DOMAIN apple \ {"signature", "manifest.json"} = DOMAIN Assets \cup {"pass.json"}
  BY <1>3, <1>4
<1>6. QED
  BY <1>3, <1>5 DEF SignedWhole

(* The extension the link adds is the one the handler takes off.           *)
LEMMA TrimmedLink ==
  ASSUME NEW id \in Seq(STRING)
  PROVE  TrimSuffix(Append(id, ".pkpass")) = id
<1> DEFINE path == Append(id, ".pkpass")
<1> DEFINE S == STRING \cup {".pkpass"}
<1>0. id \in Seq(S)
  OBVIOUS
<1>1. path \in Seq(S) /\ Len(path) = Len(id) + 1 /\ Len(id) \in Nat
  BY <1>0
<1>2. path # <<>> /\ path[Len(path)] = ".pkpass" /\ Last(path) = path[Len(path)]
  <2>1. path[Len(id) + 1] = ".pkpass"
    BY <1>0
  <2>2. Last(path) = path[Len(path)]
    BY DEF Last
  <2>3. QED
    BY <1>1, <2>1, <2>2
<1>3. Front(path) = [i \in 1..Len(id) |-> path[i]]
  BY <1>1 DEF Front
<1>4. Front(path) = id
  BY <1>1, <1>3
<1>5. QED
  BY <1>2, <1>4 DEF TrimSuffix

(* The two buttons: the stored artifact is the one each link leads to.     *)
LEMMA Links == IInv => ButtonsWork
<1> SUFFICES ASSUME IInv, row # None PROVE ButtonsWork
  BY DEF ButtonsWork
<1> DEFINE at == ExpiresAt(badge)
<1>1. /\ Known(order) /\ Made
      /\ apple = NoPass \/ apple = Pack(PassJSON(order, at))
  BY Surfaces
<1>2. /\ message.attachment = apple /\ message.googleURL = google
      /\ message.appleURL = IF apple # NoPass THEN ApplePassURL(order.id, "token") ELSE NoLink
  BY <1>1 DEF Made, Mail
<1>3. artifact = Store(order, apple, google) /\ order.id # <<>> /\ order.id \in Seq(STRING)
  BY <1>1 DEF Made, Validate, Known
<1>4. artifact.save = google /\ (apple = NoPass => artifact.pkpass = NoPass)
  BY <1>3 DEF Store, NoArtifact
<1>5. ApplePassURL(order.id, "token") # NoLink
  BY DEF ApplePassURL, NoLink
<1>6. ASSUME apple # NoPass PROVE Download(ApplePassURL(order.id, "token")) = apple
  <2> DEFINE url == ApplePassURL(order.id, "token")
  <2>1. url.token = "token" /\ url.id = Append(order.id, ".pkpass")
    BY DEF ApplePassURL
  <2>2. TrimSuffix(url.id) = order.id
    BY <1>3, <2>1, TrimmedLink
  <2>3. artifact.id = order.id /\ artifact.token = "token" /\ artifact.pkpass = apple
    BY <1>3, <1>6 DEF Store
  <2> HIDE DEF url
  <2>4. Download(url) = apple
    BY <1>3, <2>1, <2>2, <2>3 DEF Download
  <2>5. QED
    BY <2>4 DEF url
<1>7. apple = NoPass => Download(ApplePassURL(order.id, artifact.token)) = NoPass
  BY <1>4 DEF Download
<1>8. QED
  BY <1>2, <1>4, <1>5, <1>6, <1>7 DEF ButtonsWork

(* Sequences of sequences, one after the other.                            *)
FlattenStep(seqs, f) ==
  [i \in 1..Len(seqs) |-> IF i = 1 THEN seqs[i] ELSE f[i - 1] \o seqs[i]]

Flattening(seqs) == CHOOSE f : f = FlattenStep(seqs, f)

(* FlattenSeq goes from left to right.                                     *)
LEMMA FlattenRuns ==
  ASSUME NEW S, NEW seqs \in Seq(Seq(S)), seqs # <<>>
  PROVE  LET f == Flattening(seqs) IN
         /\ FlattenSeq(seqs) = f[Len(seqs)]
         /\ \A i \in 1..Len(seqs) : f[i] \in Seq(S)
         /\ \A i \in 1..Len(seqs) : f[i] = IF i = 1 THEN seqs[i] ELSE f[i - 1] \o seqs[i]
<1> DEFINE n == Len(seqs)
           g == [p \in Seq(S) \X Seq(S) |-> p[1] \o p[2]]
           a == Flattening(seqs)
<1>1. n \in Nat /\ n > 0 /\ \A i \in 1..n : seqs[i] \in Seq(S)
  OBVIOUS
<1>2. \A s, t \in Seq(S) : s \o t \in Seq(S) /\ <<>> \o s = s /\ g[<<s, t>>] = s \o t
  <2>1. \A s, t \in Seq(S) : g[<<s, t>>] = s \o t
    OBVIOUS
  <2> HIDE DEF g
  <2>2. QED
    BY <2>1, ConcatProperties, ConcatEmptySeq
<1>3. g \in [Seq(S) \X Seq(S) -> Seq(S)] /\ <<>> \in Seq(S)
  OBVIOUS
<1>4. FlattenSeq(seqs) = a[n]
  BY <1>1 DEF FlattenSeq, FlattenStep, Flattening
<1> HIDE DEF g, n, a
<1>5. PICK f : IsScan(f, Seq(S), g, <<>>, seqs)
  BY <1>3, Scans
<1>6. /\ \A i \in 0..n : f[i] \in Seq(S)
      /\ f[0] = <<>>
      /\ \A i \in 1..n : f[i] = g[<<f[i - 1], seqs[i]>>]
  <2>1. /\ \A i \in 0..n : f[i] \in Seq(S)
        /\ \A i \in 0..n : f[i] = IF i = 0 THEN <<>> ELSE g[<<f[i - 1], seqs[i]>>]
    BY <1>5 DEF IsScan, n
  <2>2. 0 \in 0..n /\ \A i \in 1..n : i \in 0..n /\ i # 0
    BY <1>1
  <2>3. QED
    BY <2>1, <2>2
<1>7. ASSUME NEW i \in 1..n PROVE f[i] = f[i - 1] \o seqs[i]
  <2>1. i - 1 \in 0..n /\ seqs[i] \in Seq(S)
    BY <1>1
  <2>2. QED
    BY <1>2, <1>6, <2>1
<1> DEFINE e == [i \in 1..n |-> f[i]]
<1>8. ASSUME NEW i \in 1..n PROVE e[i] = IF i = 1 THEN seqs[i] ELSE e[i - 1] \o seqs[i]
  <2>1. CASE i = 1
    <3>1. i - 1 = 0 /\ seqs[i] \in Seq(S)
      BY <1>1, <2>1
    <3>2. f[i] = f[i - 1] \o seqs[i]
      BY <1>7
    <3>3. f[i] = <<>> \o seqs[i]
      BY <1>6, <3>1, <3>2
    <3>4. QED
      BY <1>2, <2>1, <3>1, <3>3
  <2>2. CASE i # 1
    <3>1. i - 1 \in 1..n
      BY <1>1, <2>2
    <3>2. QED
      BY <1>7, <2>2, <3>1
  <2>3. QED
    BY <2>1, <2>2
<1>9. e = FlattenStep(seqs, e)
  BY <1>8 DEF FlattenStep, n
<1>10. a = FlattenStep(seqs, a)
  BY <1>9 DEF Flattening, a
<1> HIDE DEF e
<1>11. \A i \in 1..n : a[i] = IF i = 1 THEN seqs[i] ELSE a[i - 1] \o seqs[i]
  BY <1>10 DEF FlattenStep, n
<1> DEFINE T == {h \in Nat : h + 1 <= n => a[h + 1] \in Seq(S)}
<1>12. 0 \in T
  BY <1>1, <1>11
<1>13. ASSUME NEW h \in Nat, h \in T PROVE h + 1 \in T
  <2> SUFFICES ASSUME (h + 1) + 1 <= n PROVE a[(h + 1) + 1] \in Seq(S)
    OBVIOUS
  <2>1. (h + 1) + 1 \in 1..n /\ (h + 1) + 1 # 1 /\ ((h + 1) + 1) - 1 = h + 1 /\ h + 1 <= n
    BY <1>1
  <2>2. a[h + 1] \in Seq(S) /\ seqs[(h + 1) + 1] \in Seq(S)
    BY <1>1, <1>13, <2>1
  <2>3. a[(h + 1) + 1] = a[h + 1] \o seqs[(h + 1) + 1]
    BY <1>11, <2>1
  <2>4. QED
    BY <1>2, <2>2, <2>3
<1> HIDE DEF T
<1>14. Nat \subseteq T
  BY <1>12, <1>13, NatInd
<1>15. ASSUME NEW i \in 1..n PROVE a[i] \in Seq(S)
  <2>1. i - 1 \in Nat /\ (i - 1) + 1 = i /\ i <= n
    BY <1>1
  <2>2. QED
    BY <1>14, <2>1 DEF T
<1>16. QED
  BY <1>4, <1>11, <1>15 DEF n, a

(* What FlattenSeq returns: a sequence of the same elements.               *)
LEMMA Flattened ==
  ASSUME NEW S, NEW seqs \in Seq(Seq(S))
  PROVE  FlattenSeq(seqs) \in Seq(S)
<1>1. CASE seqs = <<>>
  BY <1>1 DEF FlattenSeq
<1>2. CASE seqs # <<>>
  <2>1. Len(seqs) \in 1..Len(seqs)
    BY <1>2
  <2>2. FlattenSeq(seqs) = Flattening(seqs)[Len(seqs)] /\ Flattening(seqs)[Len(seqs)] \in Seq(S)
    BY <1>2, <2>1, FlattenRuns
  <2>3. QED
    BY <2>2
<1>3. QED
  BY <1>1, <1>2

(* One more sequence comes after the others.                               *)
LEMMA FlattenAppend ==
  ASSUME NEW S, NEW seqs \in Seq(Seq(S)), NEW seq \in Seq(S)
  PROVE  FlattenSeq(Append(seqs, seq)) = FlattenSeq(seqs) \o seq
<1> DEFINE longer == Append(seqs, seq)
           n == Len(seqs)
           a == Flattening(seqs)
           b == Flattening(longer)
<1>1. /\ longer \in Seq(Seq(S)) /\ longer # <<>> /\ n \in Nat /\ Len(longer) = n + 1 /\ longer[n + 1] = seq
      /\ \A i \in 1..n : longer[i] = seqs[i]
  BY AppendProperties
<1> HIDE DEF longer
<1>2. /\ FlattenSeq(longer) = b[n + 1]
      /\ \A i \in 1..(n + 1) : b[i] = IF i = 1 THEN longer[i] ELSE b[i - 1] \o longer[i]
  BY <1>1, FlattenRuns
<1>3. CASE seqs = <<>>
  <2>1. n = 0 /\ 1 \in 1..(n + 1)
    BY <1>3
  <2>2. FlattenSeq(longer) = seq
    BY <1>1, <1>2, <2>1
  <2>3. FlattenSeq(seqs) = <<>> /\ <<>> \o seq = seq
    BY <1>3 DEF FlattenSeq
  <2>4. QED
    BY <2>2, <2>3 DEF longer
<1>4. CASE seqs # <<>>
  <2>1. n > 0
    BY <1>4
  <2>2. /\ FlattenSeq(seqs) = a[n]
        /\ \A i \in 1..n : a[i] = IF i = 1 THEN seqs[i] ELSE a[i - 1] \o seqs[i]
    BY <1>4, FlattenRuns
  <2> HIDE DEF a, b, n
  <2> DEFINE T == {h \in Nat : h + 1 <= n => b[h + 1] = a[h + 1]}
  <2>3. 0 \in T
    BY <1>1, <1>2, <2>1, <2>2
  <2>4. ASSUME NEW h \in Nat, h \in T PROVE h + 1 \in T
    <3> SUFFICES ASSUME (h + 1) + 1 <= n PROVE b[(h + 1) + 1] = a[(h + 1) + 1]
      OBVIOUS
    <3>1. (h + 1) + 1 \in 1..n /\ (h + 1) + 1 \in 1..(n + 1) /\ (h + 1) + 1 # 1
          /\ ((h + 1) + 1) - 1 = h + 1 /\ h + 1 <= n
      BY <1>1
    <3>2. b[h + 1] = a[h + 1]
      BY <2>4, <3>1
    <3>3. b[(h + 1) + 1] = b[h + 1] \o longer[(h + 1) + 1]
      BY <1>2, <3>1
    <3>4. a[(h + 1) + 1] = a[h + 1] \o seqs[(h + 1) + 1]
      BY <2>2, <3>1
    <3>5. longer[(h + 1) + 1] = seqs[(h + 1) + 1]
      BY <1>1, <3>1
    <3>6. QED
      BY <3>2, <3>3, <3>4, <3>5
  <2> HIDE DEF T
  <2>5. Nat \subseteq T
    BY <2>3, <2>4, NatInd
  <2>6. n - 1 \in Nat /\ (n - 1) + 1 = n /\ n + 1 \in 1..(n + 1) /\ n + 1 # 1 /\ (n + 1) - 1 = n
    BY <1>1, <2>1
  <2>7. b[n] = a[n]
    BY <2>5, <2>6 DEF T
  <2>8. b[n + 1] = b[n] \o longer[n + 1]
    BY <1>2, <2>6
  <2>9. FlattenSeq(longer) = FlattenSeq(seqs) \o seq
    BY <1>1, <1>2, <2>2, <2>7, <2>8
  <2>10. QED
    BY <2>9 DEF longer
<1>5. QED
  BY <1>3, <1>4

(* Drawable text is made of runes of the font.                             *)
LEMMA DrawableType ==
  ASSUME NEW text \in Seq(NameKinds)
  PROVE  Drawable(text) \in Seq(NameKinds)
<1> DEFINE pieces == [i \in DOMAIN text |-> Folded(text[i])]
<1>1. \A rune \in NameKinds : Folded(rune) \in Seq(NameKinds)
  <2> TAKE rune \in NameKinds
  <2>1. <<rune>> \in Seq(NameKinds) /\ <<>> \in Seq(NameKinds)
    OBVIOUS
  <2>2. <<"ascii">> \in Seq(NameKinds) /\ <<"ascii", "ascii">> \in Seq(NameKinds)
    BY DEF NameKinds
  <2>3. Folded(rune) \in {<<rune>>, <<>>, <<"ascii">>, <<"ascii", "ascii">>}
    BY DEF Folded
  <2>4. QED
    BY <2>1, <2>2, <2>3
<1>2. DOMAIN text = 1..Len(text) /\ Len(text) \in Nat /\ \A i \in 1..Len(text) : text[i] \in NameKinds
  OBVIOUS
<1>3. pieces \in Seq(Seq(NameKinds))
  BY <1>1, <1>2
<1>4. QED
  BY <1>3, Flattened DEF Drawable

(* A finite range of indices has a last one.                               *)
LEMMA LargestOne ==
  ASSUME NEW n \in Nat, NEW S \in SUBSET (1..n), S # {}
  PROVE  \E x \in S : \A y \in S : x >= y
<1> DEFINE R == {k \in Nat : \E x \in S : n - x = k}
<1>1. R # {} /\ R \in SUBSET Nat
  <2>1. PICK x \in S : TRUE
    OBVIOUS
  <2>2. n - x \in R
    OBVIOUS
  <2>3. QED
    BY <2>2
<1>2. PICK k \in R : \A j \in R : k <= j
  BY <1>1, NatLeast
<1>3. PICK x \in S : n - x = k
  OBVIOUS
<1>4. ASSUME NEW y \in S PROVE x >= y
  <2>1. n - y \in R /\ x \in Nat /\ y \in Nat
    OBVIOUS
  <2>2. n - x <= n - y
    BY <1>2, <1>3, <2>1
  <2>3. QED
    BY <2>1, <2>2
<1>5. QED
  BY <1>4

(* A finite range of indices has a first and a last one.                   *)
LEMMA Ends ==
  ASSUME NEW n \in Nat, NEW S \in SUBSET (1..n), S # {}
  PROVE  Min(S) \in S /\ Max(S) \in S
<1>1. \E x \in S : \A y \in S : x <= y
  BY NatLeast
<1>2. \E x \in S : \A y \in S : x >= y
  BY LargestOne
<1>3. QED
  BY <1>1, <1>2 DEF Min, Max

(* Trimmed text is made of the same runes.                                 *)
LEMMA TrimmedType ==
  ASSUME NEW text \in Seq(NameKinds)
  PROVE  TrimSpace(text) \in Seq(NameKinds)
<1> DEFINE solid == {i \in DOMAIN text : text[i] # "blank"}
<1>1. DOMAIN text = 1..Len(text) /\ Len(text) \in Nat /\ \A i \in 1..Len(text) : text[i] \in NameKinds
  OBVIOUS
<1>2. CASE solid = {}
  BY <1>2 DEF TrimSpace
<1>3. CASE solid # {}
  <2>1. Min(solid) \in 1..Len(text) /\ Max(solid) \in 1..Len(text)
    BY <1>1, <1>3, Ends
  <2>2. TrimSpace(text) = SubSeq(text, Min(solid), Max(solid))
    BY <1>3 DEF TrimSpace
  <2> DEFINE a == Min(solid)  b == Max(solid)
  <2> HIDE DEF a, b, solid
  <2>3. a \in Int /\ b \in Int /\ \A i \in a..b : text[i] \in NameKinds
    BY <1>1, <2>1 DEF a, b
  <2>4. SubSeq(text, a, b) \in Seq(NameKinds)
    BY <2>3, SubSeqProperties
  <2>5. QED
    BY <2>2, <2>4 DEF a, b, solid
<1>4. QED
  BY <1>2, <1>3

(* What is drawn of a text is no longer than the room for it.              *)
LEMMA HeadlineFits ==
  ASSUME NEW text \in Seq(NameKinds), NEW n \in Nat, n > 3
  PROVE  Len(Headline(text, n)) \in 0..n
<1> DEFINE whole == TrimSpace(Drawable(text))
           dots == <<"ascii", "ascii", "ascii">>
<1>1. whole \in Seq(NameKinds) /\ Len(whole) \in Nat
  BY DrawableType, TrimmedType
<1> HIDE DEF whole
<1>2. CASE Len(whole) <= n
  <2>1. Headline(text, n) = whole
    BY <1>2 DEF Headline, Truncate, whole
  <2>2. QED
    BY <1>1, <1>2, <2>1
<1>3. CASE Len(whole) > n
  <2>1. Headline(text, n) = SubSeq(whole, 1, n - 3) \o dots
    BY <1>1, <1>3 DEF Headline, Truncate, whole
  <2>2. \A i \in 1..(n - 3) : whole[i] \in NameKinds
    BY <1>1, <1>3
  <2>3. SubSeq(whole, 1, n - 3) \in Seq(NameKinds) /\ Len(SubSeq(whole, 1, n - 3)) = n - 3
    <3>1. n - 3 \in Int /\ 1 <= n - 3 /\ (n - 3) - 1 + 1 = n - 3
      OBVIOUS
    <3>2. QED
      BY <2>2, <3>1, SubSeqProperties
  <2>4. dots \in Seq(NameKinds) /\ Len(dots) = 3
    BY DEF NameKinds
  <2>5. Len(SubSeq(whole, 1, n - 3) \o dots) = (n - 3) + 3
    BY <2>3, <2>4
  <2>6. QED
    BY <2>1, <2>5
<1>4. QED
  BY <1>1, <1>2, <1>3

(* The two logos of the Apple pass.                                        *)
LEMMA LogoFits ==
  /\ Wordmark(160, 50) = [scale |-> 1, length |-> 13]
  /\ Wordmark(320, 100) = [scale |-> 2, length |-> 13]
<1> DEFINE scales(w, h, length) == {s \in 1..(h \div 13) : Fits(w, h, length, s)}
<1>1. /\ scales(160, 50, 13) = {1} /\ scales(160, 50, 23) = {}
      /\ scales(320, 100, 13) = {1, 2} /\ scales(320, 100, 23) = {1}
  <2>1. 50 \div 13 = 3 /\ 100 \div 13 = 7
    OBVIOUS
  <2>2. \A s \in 1..3 : Fits(160, 50, 13, s) <=> s = 1
    BY DEF Fits
  <2>3. \A s \in 1..3 : ~Fits(160, 50, 23, s)
    BY DEF Fits
  <2>4. \A s \in 1..7 : Fits(320, 100, 13, s) <=> s \in {1, 2}
    BY DEF Fits
  <2>5. \A s \in 1..7 : Fits(320, 100, 23, s) <=> s = 1
    BY DEF Fits
  <2>6. QED
    BY <2>1, <2>2, <2>3, <2>4, <2>5
<1> HIDE DEF scales
<1>2. Max({0} \cup {} \cup {1}) = 1 /\ Max({0} \cup {1} \cup {1, 2}) = 2
  <2>1. \A S \in SUBSET Int : \A m \in S : (\A y \in S : m >= y) => Max(S) = m
    <3> SUFFICES ASSUME NEW S \in SUBSET Int, NEW m \in S, \A y \in S : m >= y PROVE Max(S) = m
      OBVIOUS
    <3> DEFINE c == Max(S)
    <3>1. c \in S /\ \A y \in S : c >= y
      BY DEF Max
    <3> HIDE DEF c
    <3>2. c >= m /\ m >= c /\ c \in Int /\ m \in Int
      BY <3>1
    <3>3. c = m
      BY <3>2
    <3>4. QED
      BY <3>3 DEF c
  <2>2. {0} \cup {} \cup {1} \in SUBSET Int /\ {0} \cup {1} \cup {1, 2} \in SUBSET Int
    OBVIOUS
  <2>3. QED
    BY <2>1, <2>2
<1>3. \A w, h, scale :
        scale = Max({0} \cup scales(w, h, 23) \cup scales(w, h, 13)) /\ scale # 0 =>
          Wordmark(w, h) = [scale  |-> scale,
                            length |-> IF scale \in scales(w, h, 23) THEN 23 ELSE 13]
  BY DEF Wordmark, scales
<1>4. QED
  BY <1>1, <1>2, <1>3

(* Both logos show the same wordmark, whole, at different scales.          *)
LEMMA LogosWhole ==
  /\ \A logo \in {Logo(160, 50), Logo(320, 100)} : logo.length > 0 /\ Inside(logo.text, logo.strip)
  /\ Logo(160, 50).length = Logo(320, 100).length
  /\ Logo(160, 50).scale < Logo(320, 100).scale
<1>1. (50 - 13 * 1) \div 2 = 18 /\ (100 - 13 * 2) \div 2 = 37
  OBVIOUS
<1>2. Logo(160, 50) = [strip |-> Box(0, 0, 160, 50), scale |-> 1, length |-> 13,
                       text |-> Box(56, 18, 91, 13)]
  BY <1>1, LogoFits DEF Logo
<1>3. Logo(320, 100) = [strip |-> Box(0, 0, 320, 100), scale |-> 2, length |-> 13,
                        text |-> Box(106, 37, 182, 26)]
  BY <1>1, LogoFits DEF Logo
<1>4. /\ Inside(Box(56, 18, 91, 13), Box(0, 0, 160, 50))
      /\ Inside(Box(106, 37, 182, 26), Box(0, 0, 320, 100))
  BY DEF Inside, Box
<1>5. QED
  BY <1>2, <1>3, <1>4

(* The boxes of the artwork: six lines of text, the logo, the code.        *)
LEMMA BoxesApart ==
  ASSUME NEW o, Known(o), NEW at
  PROVE  LET boxes == Render(o, at).text \o Render(o, at).panels IN
         /\ \A i \in DOMAIN boxes : Inside(boxes[i], Canvas)
         /\ \A i, j \in DOMAIN boxes : i # j => Apart(boxes[i], boxes[j])
<1> DEFINE name == Len(Headline(o.name, 19))
           label == LabelLength[o.passType]
           expiry == IF Expires(at) THEN 20 ELSE 13
           serial == 7 + Len(Headline(o.serial, 32))
           t1 == TextBox(60, 3, 23)
           t2 == TextBox(200, 5, name)
           t3 == TextBox(300, 3, label)
           t4 == TextBox(380, 2, expiry)
           t5 == TextBox(440, 2, serial)
           t6 == TextBox(490, 1, 64)
           text == <<t1, t2, t3, t4, t5, t6>>
           panels == <<LogoPanel>> \o (IF HasPDGA(o) THEN <<QRPanel>> ELSE <<>>)
           boxes == text \o panels
           S == {t1, t2, t3, t4, t5, t6, LogoPanel, QRPanel}
<1>1. name \in 0..19 /\ serial \in 7..39 /\ expiry \in {13, 20}
  <2>1. o.name \in Seq(NameKinds) /\ o.serial \in Seq(NameKinds)
    BY DEF Known
  <2> DEFINE length == Len(Headline(o.serial, 32))
  <2>2. 19 \in Nat /\ 19 > 3 /\ 32 \in Nat /\ 32 > 3
    OBVIOUS
  <2>3. name \in 0..19 /\ length \in 0..32
    BY <2>1, <2>2, HeadlineFits, Zenon
  <2>4. serial = 7 + length /\ expiry \in {13, 20}
    OBVIOUS
  <2> HIDE DEF name, serial, expiry, length
  <2>5. QED
    BY <2>3, <2>4
<1>2. label \in 7..14
  BY DEF LabelLength, Known, PassTypes
<1>3. Render(o, at).text = text /\ Render(o, at).panels = panels
  BY DEF Render
<1> HIDE DEF name, label, expiry, serial
<1> DEFINE Place(i, b) ==
      /\ b.x \in Nat /\ b.y \in Nat /\ b.width \in Nat /\ b.height \in Nat
      /\ i \in 1..6 => b.x = 60 /\ b.width <= 665
      /\ i = 1 => b.y = 60 /\ b.height = 45
      /\ i = 2 => b.y = 200 /\ b.height = 75
      /\ i = 3 => b.y = 300 /\ b.height = 45
      /\ i = 4 => b.y = 380 /\ b.height = 30
      /\ i = 5 => b.y = 440 /\ b.height = 30
      /\ i = 6 => b.y = 490 /\ b.height = 15
      /\ i \in 7..8 => b.x = 740 /\ b.width = 200 /\ b.height = 200
      /\ i = 7 => b.y = 60
      /\ i = 8 => b.y = 280
<1>4. /\ Place(1, t1) /\ Place(2, t2) /\ Place(3, t3) /\ Place(4, t4) /\ Place(5, t5) /\ Place(6, t6)
      /\ Place(7, LogoPanel) /\ Place(8, QRPanel)
  BY <1>1, <1>2 DEF TextBox, Box, LogoPanel, QRPanel
<1> HIDE DEF t1, t2, t3, t4, t5, t6, Place
<1>5. text \in Seq(S) /\ Len(text) = 6
  OBVIOUS
<1>6. \A i \in 1..6 : Place(i, text[i])
  <2>1. /\ text[1] = t1 /\ text[2] = t2 /\ text[3] = t3 /\ text[4] = t4 /\ text[5] = t5 /\ text[6] = t6
    OBVIOUS
  <2> HIDE DEF text
  <2>2. QED
    BY <1>4, <2>1
<1>7. /\ panels \in Seq(S) /\ Len(panels) \in {1, 2}
      /\ \A i \in 1..Len(panels) : Place(i + 6, panels[i])
  <2>1. <<LogoPanel>> \in Seq(S) /\ <<QRPanel>> \in Seq(S) /\ <<>> \in Seq(S)
    OBVIOUS
  <2> HIDE DEF S
  <2>2. CASE HasPDGA(o)
    <3>1. panels = <<LogoPanel>> \o <<QRPanel>>
      BY <2>2
    <3>2. Len(panels) = 2 /\ panels[1] = LogoPanel /\ panels[2] = QRPanel /\ panels \in Seq(S)
      BY <2>1, <3>1
    <3> HIDE DEF panels
    <3>3. \A i \in 1..2 : Place(i + 6, panels[i])
      BY <1>4, <3>2
    <3>4. QED
      BY <3>2, <3>3
  <2>3. CASE ~HasPDGA(o)
    <3>1. panels = <<LogoPanel>> \o <<>>
      BY <2>3
    <3>2. Len(panels) = 1 /\ panels[1] = LogoPanel /\ panels \in Seq(S)
      BY <2>1, <3>1
    <3> HIDE DEF panels
    <3>3. \A i \in 1..1 : Place(i + 6, panels[i])
      BY <1>4, <3>2
    <3>4. QED
      BY <3>2, <3>3
  <2>4. QED
    BY <2>2, <2>3
<1> HIDE DEF text, panels, S
<1>8. /\ DOMAIN boxes = 1..(6 + Len(panels))
      /\ \A i \in 1..6 : boxes[i] = text[i]
      /\ \A i \in 7..(6 + Len(panels)) : boxes[i] = panels[i - 6]
  <2>1. text \in Seq(S) /\ panels \in Seq(S)
    BY <1>5, <1>7
  <2>2. /\ boxes \in Seq(S) /\ Len(boxes) = Len(text) + Len(panels)
        /\ \A i \in 1..(Len(text) + Len(panels)) :
             boxes[i] = IF i <= Len(text) THEN text[i] ELSE panels[i - Len(text)]
    BY <2>1, ConcatProperties
  <2>3. Len(text) = 6 /\ Len(panels) \in Nat
    BY <1>5, <1>7
  <2> HIDE DEF boxes
  <2>4. DOMAIN boxes = 1..(6 + Len(panels))
    BY <2>2, <2>3
  <2>5. \A i \in 1..6 : boxes[i] = text[i]
    BY <2>2, <2>3
  <2>6. \A i \in 7..(6 + Len(panels)) : boxes[i] = panels[i - 6]
    BY <2>2, <2>3
  <2>7. QED
    BY <2>4, <2>5, <2>6
<1> HIDE DEF boxes
<1>9. \A i \in DOMAIN boxes : i \in 1..8 /\ Place(i, boxes[i])
  <2> SUFFICES ASSUME NEW i \in DOMAIN boxes PROVE i \in 1..8 /\ Place(i, boxes[i])
    OBVIOUS
  <2>1. CASE i \in 1..6
    BY <1>6, <1>8, <2>1
  <2>2. CASE i \notin 1..6
    <3>1. i \in 7..(6 + Len(panels)) /\ i - 6 \in 1..Len(panels) /\ (i - 6) + 6 = i /\ i \in 1..8
      BY SMTT(30), <1>7, <1>8, <2>2
    <3>2. Place((i - 6) + 6, panels[i - 6])
      BY <1>7, <3>1
    <3>3. QED
      BY <1>8, <3>1, <3>2
  <2>3. QED
    BY <2>1, <2>2
<1>10. \A i \in DOMAIN boxes : Inside(boxes[i], Canvas)
  <2>1. \A i \in 1..8 : \A b : Place(i, b) => Inside(b, Canvas)
    BY DEF Inside, Canvas, Box, Place
  <2>2. QED
    BY <1>9, <2>1
<1>11. \A i, j \in DOMAIN boxes : i # j => Apart(boxes[i], boxes[j])
  <2>1. \A i, j \in 1..8 : \A a, b : i # j /\ Place(i, a) /\ Place(j, b) => Apart(a, b)
    BY DEF Apart, Place
  <2>2. QED
    BY <1>9, <2>1
<1>12. QED
  BY <1>3, <1>10, <1>11 DEF boxes

(* Nothing is hidden: neither on the artwork nor in the logos.             *)
LEMMA Visible == IInv => NothingHidden
<1> SUFFICES ASSUME IInv, row # None PROVE NothingHidden
  BY DEF NothingHidden
<1> DEFINE at == ExpiresAt(badge)
<1>1. Known(order) /\ Made /\ (apple = NoPass \/ apple = Pack(PassJSON(order, at)))
  BY Surfaces
<1>2. artwork = Render(order, at)
  BY <1>1 DEF Made
<1> HIDE DEF at
<1>3. /\ \A i \in DOMAIN (artwork.text \o artwork.panels) :
           Inside((artwork.text \o artwork.panels)[i], Canvas)
      /\ \A i, j \in DOMAIN (artwork.text \o artwork.panels) :
           i # j => Apart((artwork.text \o artwork.panels)[i], (artwork.text \o artwork.panels)[j])
  BY ZenonT(60), <1>1, <1>2, BoxesApart
<1>4. apple # NoPass => apple["logo"] = Logo(160, 50) /\ apple["logo2x"] = Logo(320, 100)
  BY <1>1, Packed
<1>5. apple # NoPass =>
        /\ \A logo \in {apple["logo"], apple["logo2x"]} : logo.length > 0 /\ Inside(logo.text, logo.strip)
        /\ apple["logo"].length = apple["logo2x"].length
        /\ apple["logo"].scale < apple["logo2x"].scale
  BY <1>4, LogosWhole
<1>6. QED
  BY <1>3, <1>5 DEF NothingHidden

-----------------------------------------------------------------------------
(* What is kept of a text, character by character.                         *)
Keeping == [text : Seq(BodyKinds), held : Seq(BodyKinds)]
KeepStep(text, f) ==
  [i \in 0..Len(text) |-> IF i = 0 THEN NothingKept ELSE KeepChar(f[i - 1], text[i])]
Keeps(text) == CHOOSE f : f = KeepStep(text, f)

(* Keeping a character keeps the type.                                     *)
LEMMA KeepType ==
  ASSUME NEW kept \in Keeping, NEW char \in BodyKinds
  PROVE  KeepChar(kept, char) \in Keeping
<1>1. kept.text \in Seq(BodyKinds) /\ kept.held \in Seq(BodyKinds) /\ <<>> \in Seq(BodyKinds)
  BY DEF Keeping
<1>2. Append(kept.text, char) \in Seq(BodyKinds) /\ Append(kept.held, char) \in Seq(BodyKinds)
  BY <1>1
<1>3. Append(kept.text \o kept.held, char) \in Seq(BodyKinds)
  <2>1. kept.text \o kept.held \in Seq(BodyKinds)
    BY <1>1
  <2>2. QED
    BY <2>1
<1>4. KeepChar(kept, char) \in {kept, [text |-> kept.text, held |-> Append(kept.held, char)],
                                [text |-> Append(kept.text, char), held |-> <<>>],
                                [text |-> Append(kept.text \o kept.held, char), held |-> <<>>]}
  BY DEF KeepChar
<1>5. \A x, y \in Seq(BodyKinds) : [text |-> x, held |-> y] \in Keeping
  BY DEF Keeping
<1>6. QED
  BY <1>1, <1>2, <1>3, <1>4, <1>5

(* The recursive function of Kept exists and satisfies its equations.      *)
LEMMA KeepsRun ==
  ASSUME NEW text \in Seq(BodyKinds)
  PROVE  /\ Kept(text) = Keeps(text)[Len(text)]
         /\ \A i \in 0..Len(text) : Keeps(text)[i] \in Keeping
         /\ Keeps(text)[0] = NothingKept
         /\ \A i \in 1..Len(text) : Keeps(text)[i] = KeepChar(Keeps(text)[i - 1], text[i])
<1> DEFINE g == [p \in Keeping \X BodyKinds |-> KeepChar(p[1], p[2])]
           a == Keeps(text)
           n == Len(text)
<1>1. g \in [Keeping \X BodyKinds -> Keeping]
  BY KeepType
<1>2. \A kept \in Keeping, char \in BodyKinds : g[<<kept, char>>] = KeepChar(kept, char)
  OBVIOUS
<1> HIDE DEF g
<1>3. NothingKept \in Keeping
  BY DEF NothingKept, Keeping
<1>4. n \in Nat /\ \A i \in 1..n : text[i] \in BodyKinds
  OBVIOUS
<1> HIDE DEF n, a
<1>5. PICK f : IsScan(f, Keeping, g, NothingKept, text)
  BY <1>1, <1>3, Scans
<1>6. ASSUME NEW i \in 0..n
      PROVE  f[i] = IF i = 0 THEN NothingKept ELSE KeepChar(f[i - 1], text[i])
  <2>1. i # 0 => i - 1 \in 0..n /\ i \in 1..n
    BY <1>4
  <2>2. i # 0 => f[i - 1] \in Keeping /\ text[i] \in BodyKinds
    BY <1>4, <1>5, <2>1 DEF IsScan, n
  <2>3. QED
    BY <1>2, <1>5, <2>2 DEF IsScan, n
<1>7. f = KeepStep(text, f)
  BY <1>5, <1>6 DEF KeepStep, n, IsScan
<1>8. a = KeepStep(text, a)
  BY <1>7 DEF Keeps, a
<1>9. Kept(text) = a[n]
  BY DEF Kept, Keeps, KeepStep, a, n
<1>10. \A i \in 0..n : a[i] = IF i = 0 THEN NothingKept ELSE KeepChar(a[i - 1], text[i])
  BY <1>8 DEF KeepStep, n
<1> DEFINE T == {h \in Nat : h <= n => a[h] \in Keeping}
<1>11. 0 \in T
  BY <1>3, <1>4, <1>10
<1>12. ASSUME NEW h \in Nat, h \in T PROVE h + 1 \in T
  <2> SUFFICES ASSUME h + 1 <= n PROVE a[h + 1] \in Keeping
    OBVIOUS
  <2>1. h + 1 \in 0..n /\ h + 1 # 0 /\ (h + 1) - 1 = h /\ h + 1 \in 1..n
    BY <1>4
  <2>2. a[h] \in Keeping /\ text[h + 1] \in BodyKinds
    BY <1>4, <1>12, <2>1
  <2>3. a[h + 1] = KeepChar(a[h], text[h + 1])
    BY <1>10, <2>1
  <2>4. QED
    BY <2>2, <2>3, KeepType
<1> HIDE DEF T
<1>13. Nat \subseteq T
  BY <1>11, <1>12, NatInd
<1>14. \A i \in 0..n : a[i] \in Keeping
  BY SMTT(30), <1>4, <1>13 DEF T
<1>15. a[0] = NothingKept /\ \A i \in 1..n : a[i] = KeepChar(a[i - 1], text[i])
  BY <1>4, <1>10
<1>16. QED
  BY <1>9, <1>14, <1>15 DEF a, n

(* Reading on: what one more character does to what is kept.               *)
LEMMA KeptAppend ==
  /\ Kept(<<>>) = NothingKept
  /\ \A text \in Seq(BodyKinds) : Kept(text) \in Keeping
  /\ \A text \in Seq(BodyKinds), char \in BodyKinds :
       Kept(Append(text, char)) = KeepChar(Kept(text), char)
<1>1. Kept(<<>>) = NothingKept
  <2>1. <<>> \in Seq(BodyKinds) /\ Len(<<>>) = 0
    OBVIOUS
  <2>2. QED
    BY <2>1, KeepsRun
<1>2. ASSUME NEW text \in Seq(BodyKinds) PROVE Kept(text) \in Keeping
  <2>1. Len(text) \in 0..Len(text)
    OBVIOUS
  <2>2. QED
    BY <2>1, KeepsRun
<1>3. ASSUME NEW text \in Seq(BodyKinds), NEW char \in BodyKinds
      PROVE  Kept(Append(text, char)) = KeepChar(Kept(text), char)
  <2> DEFINE longer == Append(text, char)
             n == Len(text)
             a == Keeps(text)
             b == Keeps(longer)
  <2>1. /\ longer \in Seq(BodyKinds) /\ n \in Nat /\ Len(longer) = n + 1 /\ longer[n + 1] = char
        /\ \A i \in 1..n : longer[i] = text[i]
    OBVIOUS
  <2> HIDE DEF longer
  <2>2. /\ Kept(text) = a[n]
        /\ a[0] = NothingKept /\ \A i \in 1..n : a[i] = KeepChar(a[i - 1], text[i])
    BY KeepsRun
  <2>3. /\ Kept(longer) = b[n + 1]
        /\ b[0] = NothingKept /\ \A i \in 1..(n + 1) : b[i] = KeepChar(b[i - 1], longer[i])
    BY <2>1, KeepsRun
  <2> HIDE DEF a, b, n
  <2> DEFINE T == {h \in Nat : h <= n => b[h] = a[h]}
  <2>4. 0 \in T
    BY <2>2, <2>3
  <2>5. ASSUME NEW h \in Nat, h \in T PROVE h + 1 \in T
    <3> SUFFICES ASSUME h + 1 <= n PROVE b[h + 1] = a[h + 1]
      OBVIOUS
    <3>1. h + 1 \in 1..n /\ h + 1 \in 1..(n + 1) /\ (h + 1) - 1 = h /\ b[h] = a[h]
      BY <2>1, <2>5
    <3>2. b[h + 1] = KeepChar(b[h], longer[h + 1])
      BY <2>3, <3>1
    <3>3. a[h + 1] = KeepChar(a[h], text[h + 1])
      BY <2>2, <3>1
    <3>4. longer[h + 1] = text[h + 1]
      BY <2>1, <3>1
    <3>5. QED
      BY <3>1, <3>2, <3>3, <3>4
  <2> HIDE DEF T
  <2>6. Nat \subseteq T
    BY <2>4, <2>5, NatInd
  <2>7. b[n] = a[n]
    BY <2>1, <2>6 DEF T
  <2>8. n + 1 \in 1..(n + 1) /\ (n + 1) - 1 = n
    BY <2>1
  <2>9. b[n + 1] = KeepChar(b[n], longer[n + 1])
    BY <2>3, <2>8
  <2>10. Kept(longer) = KeepChar(Kept(text), char)
    BY <2>1, <2>2, <2>3, <2>7, <2>9
  <2>11. QED
    BY <2>10 DEF longer
<1>4. QED
  BY <1>1, <1>2, <1>3

(* A line of the message.                                                  *)
EncLine == [text : Seq(BodyKinds), soft : BOOLEAN]

(* What WithoutPadding leaves out is a run of blanks at the end.           *)
LEMMA Padding ==
  ASSUME NEW text \in Seq(BodyKinds)
  PROVE  \E m \in 0..Len(text) :
           /\ WithoutPadding(text) = SubSeq(text, 1, m)
           /\ \A i \in (m + 1)..Len(text) : text[i] = "blank"
<1> DEFINE solid == {i \in DOMAIN text : text[i] # "blank"}
           n == Len(text)
<1>1. DOMAIN text = 1..n /\ n \in Nat /\ solid \in SUBSET (1..n) /\ \A i \in 1..n : i \notin solid => text[i] = "blank"
  OBVIOUS
<1>2. CASE solid = {}
  <2>1. WithoutPadding(text) = <<>>
    BY <1>2 DEF WithoutPadding
  <2>2. SubSeq(text, 1, 0) = <<>>
    OBVIOUS
  <2> HIDE DEF n, solid
  <2>3. 0 \in 0..n /\ \A i \in (0 + 1)..n : text[i] = "blank"
    BY <1>1, <1>2
  <2>4. QED
    BY <2>1, <2>2, <2>3 DEF n
<1>3. CASE solid # {}
  <2> DEFINE m == Max(solid)
  <2>1. WithoutPadding(text) = SubSeq(text, 1, m)
    BY <1>3 DEF WithoutPadding
  <2> HIDE DEF solid, n
  <2>2. m \in solid
    BY <1>1, <1>3, Ends
  <2>3. \E x \in solid : \A y \in solid : x >= y
    <3> DEFINE c == Max(solid)
    <3>1. c \in solid /\ solid \in SUBSET Int
      BY <1>1, <2>2
    <3>2. QED
      BY <1>1, <1>3, LargestOne
  <2>4. \A y \in solid : m >= y
    BY <2>3 DEF Max
  <2> HIDE DEF m
  <2>5. m \in 0..n
    BY <1>1, <2>2
  <2>6. \A i \in (m + 1)..n : text[i] = "blank"
    <3> TAKE i \in (m + 1)..n
    <3>1. i \in 1..n /\ ~(m >= i)
      BY <1>1, <2>5
    <3>2. QED
      BY <1>1, <2>4, <3>1
  <2>7. QED
    BY <2>1, <2>5, <2>6 DEF m, n
<1>4. QED
  BY <1>2, <1>3

(* Blanks at the end are held back: without them the same text is kept.    *)
LEMMA PaddingUnread ==
  ASSUME NEW before \in Seq(BodyKinds), NEW text \in Seq(BodyKinds)
  PROVE  /\ WithoutPadding(text) \in Seq(BodyKinds)
         /\ Kept(before \o WithoutPadding(text)).text = Kept(before \o text).text
<1> DEFINE n == Len(text)
           cut(k) == SubSeq(text, 1, k)
<1>1. n \in Nat /\ \A i \in 1..n : text[i] \in BodyKinds
  OBVIOUS
<1>2. PICK m \in 0..n : /\ WithoutPadding(text) = cut(m)
                        /\ \A i \in (m + 1)..n : text[i] = "blank"
  BY Padding
<1>3. ASSUME NEW k \in 0..n PROVE cut(k) \in Seq(BodyKinds)
  <2>1. \A i \in 1..k : text[i] \in BodyKinds
    BY <1>1
  <2>2. k \in Int
    BY <1>1
  <2>3. QED
    BY <2>1, <2>2, SubSeqProperties
<1>4. ASSUME NEW k \in 0..n, k + 1 <= n PROVE before \o cut(k + 1) = Append(before \o cut(k), text[k + 1])
  <2>1. cut(k + 1) = Append(cut(k), text[k + 1])
    BY <1>1, <1>4
  <2>2. cut(k) \in Seq(BodyKinds) /\ text[k + 1] \in BodyKinds
    BY <1>1, <1>3, <1>4
  <2> HIDE DEF cut
  <2>3. before \o Append(cut(k), text[k + 1]) = Append(before \o cut(k), text[k + 1])
    BY <2>2
  <2>4. QED
    BY <2>1, <2>3
<1>5. cut(n) = text
  OBVIOUS
<1> HIDE DEF cut, n
<1> DEFINE T == {h \in Nat : m + h <= n => Kept(before \o cut(m + h)).text = Kept(before \o cut(m)).text}
<1>6. 0 \in T
  BY <1>1, <1>2
<1>7. ASSUME NEW h \in Nat, h \in T PROVE h + 1 \in T
  <2> SUFFICES ASSUME m + (h + 1) <= n
               PROVE  Kept(before \o cut(m + (h + 1))).text = Kept(before \o cut(m)).text
    OBVIOUS
  <2>1. /\ m + (h + 1) = (m + h) + 1 /\ m + h \in 0..n /\ (m + h) + 1 <= n
        /\ (m + h) + 1 \in (m + 1)..n /\ (m + h) + 1 \in 1..n /\ m + h <= n
    BY <1>1, <1>2
  <2> DEFINE shorter == before \o cut(m + h)
  <2>2. shorter \in Seq(BodyKinds)
    BY <1>3, <2>1
  <2>3. before \o cut((m + h) + 1) = Append(shorter, text[(m + h) + 1])
    BY <1>4, <2>1
  <2>4. Kept(shorter).text = Kept(before \o cut(m)).text
    BY <1>7, <2>1
  <2> HIDE DEF shorter
  <2>5. text[(m + h) + 1] = "blank" /\ "blank" \in BodyKinds
    BY <1>2, <2>1 DEF BodyKinds
  <2>6. Kept(Append(shorter, "blank")) = KeepChar(Kept(shorter), "blank")
    BY <2>2, <2>5, KeptAppend
  <2>7. KeepChar(Kept(shorter), "blank").text = Kept(shorter).text
    BY DEF KeepChar
  <2>8. QED
    BY <2>1, <2>3, <2>4, <2>5, <2>6, <2>7
<1> HIDE DEF T
<1>8. Nat \subseteq T
  BY <1>6, <1>7, NatInd
<1>9. n - m \in Nat /\ m + (n - m) = n /\ n <= n
  BY <1>1, <1>2
<1>10. n - m \in T
  BY <1>8, <1>9
<1>11. Kept(before \o cut(m + (n - m))).text = Kept(before \o cut(m)).text
  BY <1>9, <1>10 DEF T
<1>12. Kept(before \o text).text = Kept(before \o cut(m)).text
  BY <1>5, <1>9, <1>11
<1>13. QED
  BY <1>2, <1>3, <1>12

(* A line more to read.                                                    *)
LEMMA ReadAppend ==
  /\ ReadText(<<>>) = <<>>
  /\ \A lines \in Seq(EncLine) : ReadText(lines) \in Seq(BodyKinds)
  /\ \A line \in EncLine : ReadLine(line) \in Seq(BodyKinds)
  /\ \A lines \in Seq(EncLine), line \in EncLine :
       ReadText(Append(lines, line)) = ReadText(lines) \o ReadLine(line)
<1> DEFINE read(lines) == [i \in DOMAIN lines |-> ReadLine(lines[i])]
<1>1. ReadText(<<>>) = <<>>
  <2>1. read(<<>>) = <<>>
    OBVIOUS
  <2>2. QED
    BY <2>1 DEF ReadText, FlattenSeq
<1>2. ASSUME NEW line \in EncLine PROVE ReadLine(line) \in Seq(BodyKinds)
  <2>1. line.text \in Seq(BodyKinds) /\ <<>> \in Seq(BodyKinds)
    BY DEF EncLine
  <2>2. WithoutPadding(line.text) \in Seq(BodyKinds)
    BY <2>1, PaddingUnread
  <2>3. "nl" \in BodyKinds
    BY DEF BodyKinds
  <2>4. Append(WithoutPadding(line.text), "nl") \in Seq(BodyKinds)
    BY <2>2, <2>3
  <2>5. QED
    BY <2>1, <2>4 DEF ReadLine
<1>3. ASSUME NEW lines \in Seq(EncLine) PROVE read(lines) \in Seq(Seq(BodyKinds))
  <2>1. DOMAIN lines = 1..Len(lines) /\ Len(lines) \in Nat /\ \A i \in 1..Len(lines) : lines[i] \in EncLine
    OBVIOUS
  <2>2. QED
    BY <1>2, <2>1
<1>4. ASSUME NEW lines \in Seq(EncLine), NEW line \in EncLine
      PROVE  read(Append(lines, line)) = Append(read(lines), ReadLine(line))
  <2> DEFINE longer == Append(lines, line)  n == Len(lines)
  <2>1. /\ DOMAIN longer = 1..(n + 1) /\ DOMAIN lines = 1..n /\ n \in Nat
        /\ \A i \in 1..n : longer[i] = lines[i]
        /\ longer[n + 1] = line
    OBVIOUS
  <2> HIDE DEF longer, n
  <2> DEFINE r == read(lines)  s == read(longer)
  <2>2. r \in Seq(Seq(BodyKinds)) /\ Len(r) = n /\ \A i \in 1..n : r[i] = ReadLine(lines[i])
    <3>1. DOMAIN r = 1..n /\ \A i \in 1..n : r[i] = ReadLine(lines[i])
      BY <2>1
    <3>2. r \in Seq(Seq(BodyKinds))
      BY <1>3
    <3> HIDE DEF r
    <3>3. QED
      BY <2>1, <3>1, <3>2, LenProperties
  <2>3. ReadLine(line) \in Seq(BodyKinds)
    BY <1>2
  <2>4. DOMAIN s = 1..(n + 1) /\ s = [i \in 1..(n + 1) |-> s[i]]
    BY <2>1
  <2>5. \A i \in 1..(n + 1) : s[i] = IF i = n + 1 THEN ReadLine(line) ELSE r[i]
    BY <2>1
  <2> DEFINE l == ReadLine(line)
  <2> HIDE DEF r, s, l
  <2>6. s = Append(r, l)
    <3>1. Append(r, l) \in Seq(Seq(BodyKinds)) /\ Len(Append(r, l)) = n + 1
          /\ (\A i \in 1..n : Append(r, l)[i] = r[i]) /\ Append(r, l)[n + 1] = l
      BY <2>2, <2>3, AppendProperties DEF l
    <3> DEFINE e == Append(r, l)
    <3> HIDE DEF e
    <3>2. DOMAIN e = 1..(n + 1) /\ e = [i \in 1..(n + 1) |-> e[i]]
      <4>1. e \in Seq(Seq(BodyKinds)) /\ Len(e) = n + 1
        BY <3>1 DEF e
      <4>2. DOMAIN e = 1..Len(e) /\ e = [i \in 1..Len(e) |-> e[i]]
        BY <4>1
      <4>3. QED
        BY <4>1, <4>2
    <3>3. \A i \in 1..(n + 1) : s[i] = e[i]
      <4> TAKE i \in 1..(n + 1)
      <4>1. i # n + 1 => i \in 1..n
        BY <2>1
      <4>2. QED
        BY <2>5, <3>1, <4>1 DEF e, l
    <3>4. s = e
      BY <2>4, <3>2, <3>3
    <3>5. QED
      BY <3>4 DEF e
  <2>7. QED
    BY <2>6 DEF r, s, l, longer
<1>5. \A lines : ReadText(lines) = FlattenSeq(read(lines))
  BY DEF ReadText
<1> HIDE DEF read
<1>6. \A lines \in Seq(EncLine) : ReadText(lines) \in Seq(BodyKinds)
  BY <1>3, <1>5, Flattened
<1>7. ASSUME NEW lines \in Seq(EncLine), NEW line \in EncLine
      PROVE  ReadText(Append(lines, line)) = ReadText(lines) \o ReadLine(line)
  <2>1. read(lines) \in Seq(Seq(BodyKinds)) /\ ReadLine(line) \in Seq(BodyKinds)
    BY <1>2, <1>3
  <2>2. FlattenSeq(Append(read(lines), ReadLine(line))) = FlattenSeq(read(lines)) \o ReadLine(line)
    BY <2>1, FlattenAppend
  <2>3. QED
    BY <1>4, <1>5, <2>2
<1>8. QED
  BY <1>1, <1>2, <1>6, <1>7

(* Widths add up.                                                          *)
LEMMA WidthAppend ==
  /\ TextWidth(<<>>) = 0
  /\ \A text \in Seq(BodyKinds) : TextWidth(text) \in Nat
  /\ \A text \in Seq(BodyKinds), char \in BodyKinds :
       TextWidth(Append(text, char)) = TextWidth(text) + Width(char)
<1> DEFINE escaped(text) == {i \in DOMAIN text : text[i] = "escaped"}
<1>1. TextWidth(<<>>) = 0
  <2>1. escaped(<<>>) = {} /\ Len(<<>>) = 0
    OBVIOUS
  <2>2. Cardinality({}) = 0
    BY FS_EmptySet
  <2>3. QED
    BY <2>1, <2>2 DEF TextWidth
<1>2. ASSUME NEW text \in Seq(BodyKinds)
      PROVE  IsFiniteSet(escaped(text)) /\ Cardinality(escaped(text)) \in Nat
  <2>1. escaped(text) \in SUBSET (1..Len(text)) /\ Len(text) \in Int /\ 1 \in Int
    OBVIOUS
  <2>2. IsFiniteSet(1..Len(text))
    BY <2>1, FS_Interval
  <2>3. IsFiniteSet(escaped(text))
    BY <2>1, <2>2, FS_Subset
  <2>4. QED
    BY <2>3, FS_CardinalityType
<1>3. ASSUME NEW text \in Seq(BodyKinds) PROVE TextWidth(text) \in Nat
  <2>1. Len(text) \in Nat
    OBVIOUS
  <2>2. QED
    BY <1>2, <2>1 DEF TextWidth
<1>4. ASSUME NEW text \in Seq(BodyKinds), NEW char \in BodyKinds
      PROVE  TextWidth(Append(text, char)) = TextWidth(text) + Width(char)
  <2> DEFINE longer == Append(text, char)
             n == Len(text)
             S == escaped(text)
  <2>1. /\ DOMAIN longer = 1..(n + 1) /\ DOMAIN text = 1..n /\ n \in Nat /\ Len(longer) = n + 1
        /\ \A i \in 1..n : longer[i] = text[i]
        /\ longer[n + 1] = char
    OBVIOUS
  <2> HIDE DEF longer, n
  <2>2. escaped(longer) = IF char = "escaped" THEN S \cup {n + 1} ELSE S
    <3>1. \A i \in 1..(n + 1) : i = n + 1 \/ i \in 1..n
      BY <2>1
    <3>2. \A i \in 1..n : i \in 1..(n + 1) /\ i # n + 1
      BY <2>1
    <3>3. n + 1 \in 1..(n + 1)
      BY <2>1
    <3>4. QED
      BY <2>1, <3>1, <3>2, <3>3
  <2>3. n + 1 \notin S
    BY <2>1
  <2>4. IsFiniteSet(S) /\ Cardinality(S) \in Nat
    BY <1>2
  <2>5. TextWidth(text) = n + 2 * Cardinality(S)
    BY DEF TextWidth, n
  <2>6. TextWidth(longer) = Len(longer) + 2 * Cardinality(escaped(longer))
    BY DEF TextWidth
  <2> HIDE DEF S, escaped
  <2>7. Cardinality(S \cup {n + 1}) = Cardinality(S) + 1
    BY <2>3, <2>4, FS_AddElement
  <2>8. Cardinality(escaped(longer)) = Cardinality(S) + (IF char = "escaped" THEN 1 ELSE 0)
    BY <2>2, <2>4, <2>7
  <2>9. TextWidth(longer) = TextWidth(text) + Width(char)
    BY <2>1, <2>4, <2>5, <2>6, <2>8 DEF Width
  <2>10. QED
    BY <2>9 DEF longer
<1>5. QED
  BY <1>1, <1>3, <1>4

(* What is being written: the lines so far, what they and the unfinished   *)
(* line read as, and how wide they are.                                    *)
Encoding == [lines : Seq(EncLine), text : Seq(BodyKinds), width : Nat]
EncStep(text, f) ==
  [i \in 0..Len(text) |-> IF i = 0 THEN NothingWritten ELSE EncodeChar(f[i - 1], text[i])]

Writes(encoded, kept) ==
  /\ encoded \in Encoding
  /\ Kept(ReadText(encoded.lines) \o encoded.text) = kept
  /\ encoded.width = TextWidth(encoded.text) /\ encoded.width <= MaxLine
  /\ \A j \in 1..Len(encoded.lines) : TextWidth(encoded.lines[j].text) <= MaxLine

(* A line that ends is one line more.                                      *)
LEMMA EndedLine ==
  ASSUME NEW encoded \in Encoding, NEW kept, Writes(encoded, kept), NEW soft \in BOOLEAN
  PROVE  LET lines == Ended(encoded, soft) IN
         /\ lines \in Seq(EncLine)
         /\ \A j \in 1..Len(lines) : TextWidth(lines[j].text) <= MaxLine
         /\ soft => ReadText(lines) = ReadText(encoded.lines) \o encoded.text
         /\ ~soft => Kept(ReadText(lines)) = KeepChar(kept, "nl")
<1> DEFINE line == [text |-> encoded.text, soft |-> soft]
           read == ReadText(encoded.lines)
           lines == Append(encoded.lines, line)
<1>1. /\ encoded.lines \in Seq(EncLine) /\ encoded.text \in Seq(BodyKinds) /\ line \in EncLine
      /\ Ended(encoded, soft) = lines
  BY DEF Encoding, EncLine, Ended
<1>2. TextWidth(line.text) <= MaxLine
  BY DEF Writes
<1>3. line.text = encoded.text /\ line.soft = soft
  OBVIOUS
<1> HIDE DEF line
<1>4. lines \in Seq(EncLine) /\ \A j \in 1..Len(lines) : TextWidth(lines[j].text) <= MaxLine
  <2> DEFINE n == Len(encoded.lines)
  <2>1. /\ lines \in Seq(EncLine) /\ Len(lines) = n + 1 /\ n \in Nat
        /\ \A j \in 1..n : lines[j] = encoded.lines[j]
        /\ lines[n + 1] = line
    BY <1>1, AppendProperties, LenProperties
  <2>2. \A j \in 1..n : TextWidth(encoded.lines[j].text) <= MaxLine
    BY DEF Writes
  <2> HIDE DEF lines, n
  <2>3. \A j \in 1..(n + 1) : j \in 1..n \/ j = n + 1
    BY <2>1
  <2>4. QED
    BY <1>2, <2>1, <2>2, <2>3
<1>5. ReadText(lines) = read \o ReadLine(line) /\ read \in Seq(BodyKinds)
  BY <1>1, ReadAppend
<1> HIDE DEF lines
<1>6. soft => ReadText(lines) = read \o encoded.text
  BY <1>3, <1>5 DEF ReadLine
<1>7. ASSUME ~soft PROVE Kept(ReadText(lines)) = KeepChar(kept, "nl")
  <2> DEFINE short == WithoutPadding(encoded.text)
  <2>1. ReadLine(line) = Append(short, "nl")
    BY <1>3, <1>7 DEF ReadLine
  <2>2. short \in Seq(BodyKinds) /\ Kept(read \o short).text = Kept(read \o encoded.text).text
    BY <1>1, <1>5, PaddingUnread
  <2> HIDE DEF short, read
  <2>3. read \o short \in Seq(BodyKinds) /\ "nl" \in BodyKinds
    BY <1>5, <2>2 DEF BodyKinds
  <2>4. read \o Append(short, "nl") = Append(read \o short, "nl")
    BY <1>5, <2>2, <2>3
  <2>5. Kept(Append(read \o short, "nl")) = KeepChar(Kept(read \o short), "nl")
    BY <2>3, KeptAppend
  <2>6. \A k, l : k.text = l.text => KeepChar(k, "nl") = KeepChar(l, "nl")
    BY DEF KeepChar
  <2>7. kept = Kept(read \o encoded.text)
    BY DEF Writes, read
  <2>8. KeepChar(Kept(read \o short), "nl") = KeepChar(kept, "nl")
    BY <2>2, <2>6, <2>7
  <2>9. QED
    BY <1>5, <2>1, <2>4, <2>5, <2>8
<1>8. QED
  BY <1>1, <1>4, <1>6, <1>7

(* One character more is written as it is kept.                            *)
LEMMA EncodeKeeps ==
  ASSUME NEW encoded, NEW kept, Writes(encoded, kept), NEW char \in BodyKinds
  PROVE  Writes(EncodeChar(encoded, char), KeepChar(kept, char))
<1> DEFINE read == ReadText(encoded.lines)
           next == EncodeChar(encoded, char)
<1>0. encoded \in Encoding
  BY DEF Writes
<1>1. /\ encoded.lines \in Seq(EncLine) /\ encoded.text \in Seq(BodyKinds) /\ encoded.width \in Nat
      /\ read \in Seq(BodyKinds)
  BY <1>0, ReadAppend DEF Encoding
<1>2. MaxLine \in Nat /\ Width(char) \in 1..3 /\ MaxLine >= 3 /\ <<>> \in Seq(BodyKinds)
  BY TextAssumption DEF Width
<1>3. Kept(read \o encoded.text) = kept /\ encoded.width = TextWidth(encoded.text)
  BY DEF Writes
<1>4. CASE char = "cr"
  BY <1>4 DEF EncodeChar, KeepChar
<1>5. CASE char = "nl"
  <2>1. next = [lines |-> Ended(encoded, FALSE), text |-> <<>>, width |-> 0]
    BY <1>5 DEF EncodeChar
  <2>2. /\ Ended(encoded, FALSE) \in Seq(EncLine)
        /\ \A j \in 1..Len(Ended(encoded, FALSE)) : TextWidth(Ended(encoded, FALSE)[j].text) <= MaxLine
        /\ Kept(ReadText(Ended(encoded, FALSE))) = KeepChar(kept, "nl")
    BY <1>0, EndedLine
  <2> DEFINE lines == Ended(encoded, FALSE)
  <2> HIDE DEF lines, next
  <2>3. ReadText(lines) \o <<>> = ReadText(lines)
    BY <2>2, ReadAppend, ConcatEmptySeq DEF lines
  <2>4. next.lines = lines /\ next.text = <<>> /\ next.width = 0 /\ next \in Encoding
    BY <1>2, <2>1, <2>2 DEF Encoding, lines
  <2>5. TextWidth(<<>>) = 0
    BY WidthAppend
  <2>6. Kept(ReadText(next.lines) \o next.text) = KeepChar(kept, "nl")
    BY <2>2, <2>3, <2>4 DEF lines
  <2>7. next.width = TextWidth(next.text) /\ next.width <= MaxLine
    BY <1>2, <2>4, <2>5
  <2>8. \A j \in 1..Len(next.lines) : TextWidth(next.lines[j].text) <= MaxLine
    BY <2>2, <2>4 DEF lines
  <2>9. Writes(next, KeepChar(kept, "nl"))
    BY <2>4, <2>6, <2>7, <2>8 DEF Writes
  <2>10. QED
    BY <1>5, <2>9 DEF next
<1>6. CASE char \notin {"cr", "nl"}
  <2>1. next = WriteAtom(encoded, char)
    BY <1>6 DEF EncodeChar
  <2>2. read \o encoded.text \in Seq(BodyKinds)
    BY <1>1
  <2>3. Kept(Append(read \o encoded.text, char)) = KeepChar(kept, char)
    BY <1>3, <2>2, KeptAppend
  <2>4. CASE encoded.width + Width(char) > MaxLine
    <3> DEFINE lines == Ended(encoded, TRUE)
    <3>1. next = [lines |-> lines, text |-> <<char>>, width |-> Width(char)]
      BY <2>1, <2>4 DEF WriteAtom
    <3>2. /\ lines \in Seq(EncLine)
          /\ \A j \in 1..Len(lines) : TextWidth(lines[j].text) <= MaxLine
          /\ ReadText(lines) = read \o encoded.text
      BY <1>0, EndedLine
    <3> HIDE DEF lines, next, read
    <3>3. <<char>> \in Seq(BodyKinds) /\ <<char>> = Append(<<>>, char)
      OBVIOUS
    <3>4. next.lines = lines /\ next.text = <<char>> /\ next.width = Width(char) /\ next \in Encoding
      BY <1>2, <3>1, <3>2, <3>3 DEF Encoding
    <3>5. TextWidth(<<char>>) = Width(char)
      <4>1. TextWidth(Append(<<>>, char)) = TextWidth(<<>>) + Width(char) /\ TextWidth(<<>>) = 0
        BY <1>2, WidthAppend
      <4>2. QED
        BY <1>2, <3>3, <4>1
    <3>6. (read \o encoded.text) \o <<char>> = Append(read \o encoded.text, char)
      BY <2>2, AppendIsConcat
    <3>7. Kept(ReadText(lines) \o <<char>>) = KeepChar(kept, char)
      BY <2>3, <3>2, <3>6
    <3>8. Kept(ReadText(next.lines) \o next.text) = KeepChar(kept, char)
      BY <3>4, <3>7
    <3>9. next.width = TextWidth(next.text) /\ next.width <= MaxLine
      BY <1>2, <3>4, <3>5
    <3>10. \A j \in 1..Len(next.lines) : TextWidth(next.lines[j].text) <= MaxLine
      BY <3>2, <3>4
    <3>11. Writes(next, KeepChar(kept, char))
      BY <3>4, <3>8, <3>9, <3>10 DEF Writes
    <3>12. QED
      BY <3>11 DEF next
  <2>5. CASE ~(encoded.width + Width(char) > MaxLine)
    <3> DEFINE text == Append(encoded.text, char)
    <3>1. next = [encoded EXCEPT !.text = Append(@, char), !.width = @ + Width(char)]
      BY <2>1, <2>5 DEF WriteAtom
    <3>2. text \in Seq(BodyKinds)
      BY <1>1
    <3>3. next.lines = encoded.lines /\ next.text = text /\ next.width = encoded.width + Width(char)
      BY <1>0, <3>1 DEF Encoding
    <3>4. next \in Encoding
      <4>1. encoded.width + Width(char) \in Nat
        BY <1>1, <1>2
      <4> HIDE DEF next
      <4>2. next = [encoded EXCEPT !.text = text, !.width = encoded.width + Width(char)]
        BY <3>1
      <4> DEFINE width == encoded.width + Width(char)
      <4> HIDE DEF text, width
      <4>3. QED
        BY <1>0, <3>2, <4>1, <4>2 DEF Encoding, width
    <3>5. TextWidth(text) = TextWidth(encoded.text) + Width(char)
      BY <1>1, WidthAppend
    <3> HIDE DEF read
    <3>6. read \o text = Append(read \o encoded.text, char)
      BY <1>1
    <3> HIDE DEF next, text
    <3>7. Kept(read \o text) = KeepChar(kept, char)
      BY <2>3, <3>6
    <3>8. encoded.width + Width(char) <= MaxLine
      BY <1>1, <1>2, <2>5
    <3>9. \A j \in 1..Len(encoded.lines) : TextWidth(encoded.lines[j].text) <= MaxLine
      BY DEF Writes
    <3>10. Kept(ReadText(next.lines) \o next.text) = KeepChar(kept, char)
      BY <3>3, <3>7 DEF read
    <3>11. next.width = TextWidth(next.text) /\ next.width <= MaxLine
      BY <1>3, <3>3, <3>5, <3>8
    <3>12. Writes(next, KeepChar(kept, char))
      BY <3>3, <3>4, <3>9, <3>10, <3>11 DEF Writes
    <3>13. QED
      BY <3>12 DEF next
  <2>6. QED
    BY <2>4, <2>5
<1>7. QED
  BY <1>4, <1>5, <1>6

(* A text is written character by character as it is kept.                 *)
LEMMA EncodingsKeep ==
  ASSUME NEW text \in Seq(BodyKinds)
  PROVE  Writes(Encodings(text)[Len(text)], Kept(text))
<1> DEFINE g == [p \in Encoding \X BodyKinds |->
                   IF EncodeChar(p[1], p[2]) \in Encoding THEN EncodeChar(p[1], p[2])
                   ELSE NothingWritten]
           a == Encodings(text)
           b == Keeps(text)
           n == Len(text)
<1>1. NothingWritten \in Encoding /\ NothingWritten.lines = <<>> /\ NothingWritten.text = <<>>
      /\ NothingWritten.width = 0
  <2>1. <<>> \in Seq(EncLine) /\ <<>> \in Seq(BodyKinds) /\ 0 \in Nat
    OBVIOUS
  <2>2. QED
    BY <2>1 DEF NothingWritten, Encoding
<1>2. g \in [Encoding \X BodyKinds -> Encoding]
  BY <1>1
<1>3. \A e \in Encoding, c \in BodyKinds : EncodeChar(e, c) \in Encoding => g[<<e, c>>] = EncodeChar(e, c)
  OBVIOUS
<1> HIDE DEF g, a, b, n
<1>4. n \in Nat /\ \A i \in 1..n : text[i] \in BodyKinds /\ i - 1 \in 0..n /\ i \in 0..n /\ i # 0
  BY DEF n
<1>5. /\ Kept(text) = b[n]
      /\ b[0] = NothingKept /\ \A i \in 1..n : b[i] = KeepChar(b[i - 1], text[i])
  BY KeepsRun DEF b, n
<1>6. Writes(NothingWritten, NothingKept)
  <2>1. ReadText(<<>>) \o <<>> = <<>> /\ Kept(<<>>) = NothingKept
    BY ReadAppend, KeptAppend
  <2>2. TextWidth(<<>>) = 0 /\ 0 <= MaxLine
    BY WidthAppend, TextAssumption
  <2>3. Len(<<>>) = 0
    OBVIOUS
  <2>4. QED
    BY <1>1, <2>1, <2>2, <2>3 DEF Writes
<1>7. \A e, k : \A c \in BodyKinds : Writes(e, k) =>
        e \in Encoding /\ EncodeChar(e, c) \in Encoding /\ Writes(EncodeChar(e, c), KeepChar(k, c))
  <2> TAKE e, k
  <2> TAKE c \in BodyKinds
  <2> HAVE Writes(e, k)
  <2>1. Writes(EncodeChar(e, c), KeepChar(k, c))
    BY EncodeKeeps
  <2>2. QED
    BY <2>1 DEF Writes
<1>8. PICK f : IsScan(f, Encoding, g, NothingWritten, text)
  BY <1>1, <1>2, Scans
<1>9. /\ DOMAIN f = 0..n /\ f = [i \in 0..n |-> f[i]]
      /\ \A i \in 0..n : f[i] = IF i = 0 THEN NothingWritten ELSE g[<<f[i - 1], text[i]>>]
  BY <1>8 DEF IsScan, n
<1> DEFINE T == {h \in Nat : h <= n => Writes(f[h], b[h])}
<1>10. 0 \in T
  <2>1. 0 \in 0..n
    BY <1>4
  <2>2. f[0] = NothingWritten /\ b[0] = NothingKept
    BY <1>5, <1>9, <2>1
  <2>3. QED
    BY <1>6, <2>2
<1>11. ASSUME NEW h \in Nat, h \in T PROVE h + 1 \in T
  <2> SUFFICES ASSUME h + 1 <= n PROVE Writes(f[h + 1], b[h + 1])
    OBVIOUS
  <2>1. h + 1 \in 0..n /\ h + 1 \in 1..n /\ h + 1 # 0 /\ (h + 1) - 1 = h /\ text[h + 1] \in BodyKinds /\ h <= n
    BY <1>4
  <2>2. Writes(f[h], b[h])
    BY <1>11, <2>1
  <2>3. f[h + 1] = g[<<f[h], text[h + 1]>>]
    BY <1>9, <2>1
  <2>4. f[h + 1] = EncodeChar(f[h], text[h + 1])
    BY <1>3, <1>7, <2>1, <2>2, <2>3
  <2>5. b[h + 1] = KeepChar(b[h], text[h + 1])
    BY <1>5, <2>1
  <2>6. QED
    BY <1>7, <2>1, <2>2, <2>4, <2>5
<1> HIDE DEF T
<1>12. Nat \subseteq T
  BY <1>10, <1>11, NatInd
<1>13. \A i \in 0..n : Writes(f[i], b[i])
  BY SMTT(30), <1>4, <1>12 DEF T
<1>14. ASSUME NEW i \in 0..n
       PROVE  f[i] = IF i = 0 THEN NothingWritten ELSE EncodeChar(f[i - 1], text[i])
  <2>1. CASE i = 0
    BY <1>9, <2>1
  <2>2. CASE i # 0
    <3>1. i \in 1..n /\ i - 1 \in 0..n /\ text[i] \in BodyKinds
      BY <1>4, <2>2
    <3>2. f[i] = g[<<f[i - 1], text[i]>>] /\ Writes(f[i - 1], b[i - 1])
      BY <1>9, <1>13, <2>2, <3>1
    <3>3. QED
      BY <1>3, <1>7, <2>2, <3>1, <3>2
  <2>3. QED
    BY <2>1, <2>2
<1>15. f = EncStep(text, f)
  BY <1>9, <1>14 DEF EncStep, n
<1>16. a = CHOOSE e : e = EncStep(text, e)
  BY DEF Encodings, EncStep, a
<1>17. a = EncStep(text, a)
  BY <1>15, <1>16
<1>18. \A i \in 0..n : a[i] = IF i = 0 THEN NothingWritten ELSE EncodeChar(a[i - 1], text[i])
  BY <1>17 DEF EncStep, n
<1> DEFINE U == {h \in Nat : h <= n => Writes(a[h], b[h])}
<1>19. 0 \in U
  <2>1. 0 \in 0..n
    BY <1>4
  <2>2. a[0] = NothingWritten /\ b[0] = NothingKept
    BY <1>5, <1>18, <2>1
  <2>3. QED
    BY <1>6, <2>2
<1>20. ASSUME NEW h \in Nat, h \in U PROVE h + 1 \in U
  <2> SUFFICES ASSUME h + 1 <= n PROVE Writes(a[h + 1], b[h + 1])
    OBVIOUS
  <2>1. h + 1 \in 0..n /\ h + 1 \in 1..n /\ h + 1 # 0 /\ (h + 1) - 1 = h /\ text[h + 1] \in BodyKinds /\ h <= n
    BY <1>4
  <2>2. Writes(a[h], b[h])
    BY <1>20, <2>1
  <2>3. a[h + 1] = EncodeChar(a[h], text[h + 1])
    BY <1>18, <2>1
  <2>4. b[h + 1] = KeepChar(b[h], text[h + 1])
    BY <1>5, <2>1
  <2>5. QED
    BY <1>7, <2>1, <2>2, <2>3, <2>4
<1> HIDE DEF U
<1>21. Nat \subseteq U
  BY <1>19, <1>20, NatInd
<1>22. Writes(a[n], b[n])
  BY <1>4, <1>21 DEF U
<1>23. QED
  BY <1>5, <1>22 DEF a, n

(* What is read of an encoded text, and how wide its lines are.            *)
LEMMA Readable ==
  ASSUME NEW text \in Seq(BodyKinds)
  PROVE  LET lines == QuotedPrintable(text) IN
         /\ Significant(ReadText(lines)) = Significant(Append(text, "nl"))
         /\ \A i \in DOMAIN lines : LineWidth(lines[i]) <= MaxLine + 1
<1> DEFINE encoded == Encodings(text)[Len(text)]
           lines == Ended(encoded, FALSE)
<1>1. Writes(encoded, Kept(text))
  BY EncodingsKeep
<1>2. encoded \in Encoding
  BY <1>1 DEF Writes
<1>3. QuotedPrintable(text) = lines
  BY DEF QuotedPrintable
<1> HIDE DEF encoded
<1>4. /\ lines \in Seq(EncLine)
      /\ \A i \in 1..Len(lines) : TextWidth(lines[i].text) <= MaxLine
      /\ Kept(ReadText(lines)) = KeepChar(Kept(text), "nl")
  BY <1>1, <1>2, EndedLine
<1> HIDE DEF lines
<1>5. Kept(Append(text, "nl")) = KeepChar(Kept(text), "nl")
  BY KeptAppend DEF BodyKinds
<1>6. Significant(ReadText(lines)) = Significant(Append(text, "nl"))
  BY <1>4, <1>5 DEF Significant
<1>7. ASSUME NEW i \in DOMAIN lines PROVE LineWidth(lines[i]) <= MaxLine + 1
  <2>1. i \in 1..Len(lines) /\ lines[i] \in EncLine
    BY <1>4
  <2>2. TextWidth(lines[i].text) \in Nat /\ TextWidth(lines[i].text) <= MaxLine
    BY <1>4, <2>1, WidthAppend DEF EncLine
  <2>3. MaxLine \in Nat
    BY TextAssumption
  <2>4. LineWidth(lines[i]) = TextWidth(lines[i].text) + (IF lines[i].soft THEN 1 ELSE 0)
    BY DEF LineWidth
  <2>5. QED
    BY <2>2, <2>3, <2>4
<1>8. QED
  BY <1>3, <1>6, <1>7

(* Wrapped lines: full but for the last, and together as long as the text. *)
Wrapped(lengths, m) ==
  /\ lengths \in Seq(Nat)
  /\ LET full == Len(lengths) - 1 IN
       /\ full \in Nat
       /\ \A i \in 1..full : lengths[i] = PartLine
       /\ lengths[full + 1] \in 0..PartLine
       /\ full * PartLine + lengths[full + 1] = m

WrapStep(n, f) ==
  [m \in 0..n |-> IF m > PartLine THEN <<PartLine>> \o f[m - PartLine] ELSE <<m>>]

(* A full line before wrapped lines makes wrapped lines.                   *)
LEMMA WrapMore ==
  ASSUME NEW m \in Nat, m > PartLine, NEW lengths, Wrapped(lengths, m - PartLine)
  PROVE  Wrapped(<<PartLine>> \o lengths, m)
<1> DEFINE longer == <<PartLine>> \o lengths
           full == Len(lengths) - 1
<1>1. PartLine \in Nat /\ lengths \in Seq(Nat) /\ <<PartLine>> \in Seq(Nat) /\ Len(<<PartLine>>) = 1
  BY TextAssumption DEF Wrapped
<1>2. /\ full \in Nat
      /\ \A i \in 1..full : lengths[i] = PartLine
      /\ lengths[full + 1] \in 0..PartLine
      /\ full * PartLine + lengths[full + 1] = m - PartLine
  BY DEF Wrapped
<1>3. /\ longer \in Seq(Nat) /\ Len(longer) = 1 + Len(lengths) /\ Len(lengths) \in Nat
      /\ \A i \in 1..(1 + Len(lengths)) :
           longer[i] = IF i <= 1 THEN <<PartLine>>[i] ELSE lengths[i - 1]
  BY <1>1, ConcatProperties, LenProperties
<1>4. Len(lengths) = full + 1 /\ Len(longer) - 1 = full + 1
  BY <1>3
<1> HIDE DEF longer, full
<1>5. ASSUME NEW i \in 1..(full + 1) PROVE longer[i] = PartLine
  <2>1. CASE i = 1
    BY <1>2, <1>3, <1>4, <2>1
  <2>2. CASE i # 1
    <3>1. i - 1 \in 1..full /\ i \in 1..(1 + Len(lengths)) /\ ~(i <= 1)
      BY <1>2, <1>4, <2>2
    <3>2. QED
      BY <1>2, <1>3, <3>1
  <2>3. QED
    BY <2>1, <2>2
<1>6. longer[(full + 1) + 1] = lengths[full + 1]
  <2>1. (full + 1) + 1 \in 1..(1 + Len(lengths)) /\ ~((full + 1) + 1 <= 1) /\ ((full + 1) + 1) - 1 = full + 1
    BY <1>2, <1>4
  <2>2. QED
    BY <1>3, <2>1
<1>7. (full + 1) * PartLine = full * PartLine + PartLine
  BY <1>1, <1>2
<1>8. full * PartLine \in Nat
  BY <1>1, <1>2
<1> DEFINE product == full * PartLine  last == lengths[full + 1]
<1> HIDE DEF product, last
<1>9. (full + 1) * PartLine + last = m
  <2>1. product + last = m - PartLine /\ last \in Nat /\ product \in Nat
    BY <1>1, <1>2, <1>8 DEF product, last
  <2>2. (full + 1) * PartLine = product + PartLine
    BY <1>7 DEF product
  <2>3. QED
    BY <1>1, <2>1, <2>2
<1>10. full + 1 \in Nat
  BY <1>2
<1>11. QED
  BY <1>2, <1>3, <1>4, <1>5, <1>6, <1>9, <1>10 DEF Wrapped, longer, last

(* wrap loses nothing of a text of any length: the recursive function of   *)
(* Wrap exists and its lines are full but for the last.                    *)
LEMMA WrapWhole == ASSUME NEW n \in Nat PROVE Wrapped(Wrap(n), n)
<1> DEFINE Wraps(f, h) ==
             /\ f = [m \in 0..h |-> f[m]]
             /\ \A m \in 0..h : f[m] = IF m > PartLine THEN <<PartLine>> \o f[m - PartLine] ELSE <<m>>
           T == {h \in Nat : \E f : Wraps(f, h)}
           a == CHOOSE f : f = WrapStep(n, f)
<1>1. PartLine \in Nat /\ PartLine > 0
  BY TextAssumption
<1>2. 0 \in T
  <2>1. Wraps([m \in 0..0 |-> <<m>>], 0)
    BY <1>1
  <2>2. QED
    BY <2>1
<1>3. ASSUME NEW h \in Nat, h \in T PROVE h + 1 \in T
  <2>1. PICK f : Wraps(f, h)
    BY <1>3
  <2> DEFINE next == IF h + 1 > PartLine THEN <<PartLine>> \o f[(h + 1) - PartLine] ELSE <<h + 1>>
             e == [m \in 0..(h + 1) |-> IF m = h + 1 THEN next ELSE f[m]]
  <2>2. e[h + 1] = next /\ \A m \in 0..h : m \in 0..(h + 1) /\ m # h + 1 /\ e[m] = f[m]
    OBVIOUS
  <2>3. e = [m \in 0..(h + 1) |-> e[m]]
    OBVIOUS
  <2> HIDE DEF e
  <2>4. ASSUME NEW m \in 0..(h + 1)
        PROVE  e[m] = IF m > PartLine THEN <<PartLine>> \o e[m - PartLine] ELSE <<m>>
    <3>1. m > PartLine => m - PartLine \in 0..h
      BY <1>1
    <3>2. m > PartLine => e[m - PartLine] = f[m - PartLine]
      BY <2>2, <3>1
    <3>3. CASE m = h + 1
      BY <2>2, <3>2, <3>3
    <3>4. CASE m # h + 1
      <4>1. m \in 0..h
        BY <3>4
      <4>2. QED
        BY <2>1, <2>2, <3>2, <4>1
    <3>5. QED
      BY <3>3, <3>4
  <2>5. Wraps(e, h + 1)
    BY <2>3, <2>4
  <2> HIDE DEF Wraps
  <2>6. QED
    BY <2>5
<1> HIDE DEF T
<1>4. Nat \subseteq T
  BY <1>2, <1>3, NatInd
<1>5. PICK f : Wraps(f, n)
  BY <1>4 DEF T
<1>6. f = WrapStep(n, f)
  BY <1>5 DEF WrapStep
<1>7. a = WrapStep(n, a)
  BY <1>6
<1>8. Wrap(n) = a[n]
  BY DEF Wrap, WrapStep
<1> HIDE DEF a
<1>9. \A m \in 0..n : a[m] = IF m > PartLine THEN <<PartLine>> \o a[m - PartLine] ELSE <<m>>
  BY <1>7 DEF WrapStep
<1> DEFINE U == {h \in Nat : \A m \in 0..n : m <= h => Wrapped(a[m], m)}
<1>10. ASSUME NEW m \in 0..n, ~(m > PartLine) PROVE Wrapped(a[m], m)
  <2>0. m \in 0..PartLine /\ m \in Nat
    BY <1>1, <1>10
  <2>1. a[m] = <<m>> /\ m \in 0..PartLine /\ m \in Nat
    BY <1>9, <1>10, <2>0
  <2>2. <<m>> \in Seq(Nat) /\ Len(<<m>>) = 1 /\ <<m>>[1] = m
    BY <2>1
  <2>3. Len(<<m>>) - 1 = 0 /\ 0 \in Nat /\ 0 + 1 = 1 /\ 0 * PartLine + m = m
    BY <1>1, <2>1, <2>2
  <2> DEFINE one == <<m>>
  <2> HIDE DEF one
  <2>4. Wrapped(one, m)
    <3>1. \A i \in 1..0 : one[i] = PartLine
      OBVIOUS
    <3>2. one \in Seq(Nat) /\ Len(one) - 1 = 0 /\ one[0 + 1] = m
      BY <2>2, <2>3 DEF one
    <3>3. QED
      BY <2>1, <2>3, <3>1, <3>2 DEF Wrapped
  <2>5. QED
    BY <2>1, <2>4 DEF one
<1>11. 0 \in U
  <2>1. \A m \in 0..n : m <= 0 => ~(m > PartLine)
    BY <1>1
  <2>2. QED
    BY <1>10, <2>1
<1>12. ASSUME NEW h \in Nat, h \in U PROVE h + 1 \in U
  <2> SUFFICES ASSUME NEW m \in 0..n, m <= h + 1 PROVE Wrapped(a[m], m)
    OBVIOUS
  <2>1. CASE ~(m > PartLine)
    BY <1>10, <2>1
  <2>2. CASE m > PartLine
    <3>1. m - PartLine \in 0..n /\ m - PartLine <= h /\ m \in Nat
      BY <1>1, <2>2
    <3>2. Wrapped(a[m - PartLine], m - PartLine)
      BY <1>12, <3>1
    <3>3. a[m] = <<PartLine>> \o a[m - PartLine]
      BY <1>9, <2>2
    <3>4. QED
      BY <2>2, <3>1, <3>2, <3>3, WrapMore
  <2>3. QED
    BY <2>1, <2>2
<1> HIDE DEF U
<1>13. Nat \subseteq U
  BY <1>11, <1>12, NatInd
<1>14. Wrapped(a[n], n)
  BY <1>13 DEF U
<1>15. QED
  BY <1>8, <1>14

(* One text: the mail's body reads as the template rendered it.            *)
LEMMA Arrives == IInv => BodyArrives
<1> SUFFICES ASSUME IInv, message # None PROVE BodyArrives
  BY DEF BodyArrives
<1> DEFINE at == ExpiresAt(badge)
<1>1. Known(order) /\ Made
  BY DEF IInv, Nothing
<1>2. order.body \in Seq(BodyKinds) /\ order.size \in Nat
  BY <1>1 DEF Known
<1>3. message.body = QuotedPrintable(order.body) /\ message.inline = Wrap(order.size)
  BY <1>1 DEF Made, Mail
<1>4. /\ Significant(ReadText(message.body)) = Significant(Append(order.body, "nl"))
      /\ \A i \in DOMAIN message.body : LineWidth(message.body[i]) <= MaxLine + 1
  BY <1>2, <1>3, Readable
<1>5. Wrapped(message.inline, order.size)
  BY <1>2, <1>3, WrapWhole
<1>6. QED
  BY <1>4, <1>5 DEF BodyArrives, Wrapped

-----------------------------------------------------------------------------
(* A day pass bought at any hour of any day, clock changes included, lasts *)
(* through the day after the purchase and no longer: 24 to 49 hours        *)
(* (Calculate in expiry.go).                                               *)
THEOREM DayPassHolds == Spec => []DayPassCoversNextDay
BY Inductive, DayPasses, PTL

(* Every other dated badge lasts through December 31 of its season, is     *)
(* alive when bought in or before that season, and its row is listed under *)
(* that year (Calculate and ListedUnder's callers).                        *)
THEOREM SeasonHolds == Spec => []SeasonLastsItsYear
BY Inductive, Seasons, PTL

(* The artwork, the two passes, the mail and the row all show the same     *)
(* last day, or all of them none (the callers of Calculate).               *)
THEOREM ExpiryAgrees == Spec => []OneExpiry
BY Inductive, OneDate, PTL

(* Every button of the mail leads to what was stored for it (Mail, Store   *)
(* and the handlers that serve the links).                                 *)
THEOREM ButtonsLead == Spec => []ButtonsWork
BY Inductive, Links, PTL

(* No text of the artwork leaves the canvas or covers another, whatever    *)
(* the name and the serial, and the logos show the wordmark whole          *)
(* (renderPNG and renderLogo).                                             *)
THEOREM AllVisible == Spec => []NothingHidden
BY Inductive, Visible, PTL

(* The signature of an Apple pass covers each of its files (Signer.Build). *)
THEOREM PassSigned == Spec => []SignedWhole
BY Inductive, Signed, PTL

(* A mail reader gets the text the template made, but for carriage returns *)
(* and blanks at line ends, however long it is, and no line is longer than *)
(* the encoders promise (quotedPrintable and wrap).                        *)
THEOREM BodyIsRead == Spec => []BodyArrives
BY Inductive, Arrives, PTL
=============================================================================
