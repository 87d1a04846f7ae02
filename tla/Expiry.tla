------------------------------- MODULE Expiry -------------------------------
(***************************************************************************)
(* Badge expiry (internal/expiry/expiry.go) and the year under which the   *)
(* admin listing files a badge (internal/store/store.go, ListProcessed).   *)
(* An instant is a number of hours since the civil date Epoch, in UTC; the *)
(* badge dies in the last second of a local day, so its expiry stands for  *)
(* the local midnight that follows. The club's time zone is what the Go    *)
(* library makes of it: hours behind UTC, one less in summer.              *)
(***************************************************************************)
EXTENDS Integers

CONSTANTS
  Winter,        \* hours the club's winter time is behind UTC
  Epoch,         \* the year whose January 1 is day 0
  LastYear       \* the last year the calendar is asked about

(* The club is west of Greenwich, and no year is the zero time's.          *)
ASSUME CalendarAssumption ==
  Winter \in Nat /\ Epoch \in Nat \ {0} /\ LastYear \in Nat /\ Epoch <= LastYear

PassTypes == {"day_pass", "season_membership", "sponsor", "founder", "unknown"}
Never == "never"

(* The civil calendar. *)
Date(y, m, d) == [year |-> y, month |-> m, day |-> d]
Leap(y) == y % 4 = 0 /\ (y % 100 = 0 => y % 400 = 0)
DaysIn(y, m) == CASE m \in {4, 6, 9, 11} -> 30
                  [] m = 2               -> IF Leap(y) THEN 29 ELSE 28
                  [] OTHER               -> 31

(* Mutation: the year does not roll over. *)
NextDaySameYear(date) ==
  CASE date.day < DaysIn(date.year, date.month) -> [date EXCEPT !.day = @ + 1]
    [] date.day = DaysIn(date.year, date.month) /\ date.month < 12
                                               -> Date(date.year, date.month + 1, 1)
    [] OTHER                                   -> Date(date.year, 1, 1)

(* The day after, as time.Date normalises an overflowing day of the month. *)
NextDay(date) ==
  CASE date.day < DaysIn(date.year, date.month) -> [date EXCEPT !.day = @ + 1]
    [] date.day = DaysIn(date.year, date.month) /\ date.month < 12
                                               -> Date(date.year, date.month + 1, 1)
    [] OTHER                                   -> Date(date.year + 1, 1, 1)

(* Days since Epoch, counted year by year and month by month: the calendar *)
(* read independently of NextDay.                                          *)
YearStart[y \in Epoch..(LastYear + 1)] ==
  IF y = Epoch THEN 0 ELSE YearStart[y - 1] + (IF Leap(y - 1) THEN 366 ELSE 365)

MonthStart(y) ==
  LET start[m \in 1..12] == IF m = 1 THEN 0 ELSE start[m - 1] + DaysIn(y, m - 1) IN start

DayNumber(date) == YearStart[date.year] + MonthStart(date.year)[date.month] + date.day - 1

DateOf(n) ==
  LET y == CHOOSE y \in Epoch..LastYear : YearStart[y] <= n /\ n < YearStart[y + 1]
      m == CHOOSE m \in 1..12 : /\ MonthStart(y)[m] <= n - YearStart[y]
                                /\ n - YearStart[y] < MonthStart(y)[m] + DaysIn(y, m)
  IN Date(y, m, n - YearStart[y] - MonthStart(y)[m] + 1)

(* The club's zone: summer time from 2 a.m. on the second Sunday of March  *)
(* to 2 a.m. summer time on the first Sunday of November. Day 0 is a       *)
(* Sunday when Epoch is 2023.                                              *)
Sunday(y, m, nth) ==
  LET first == CHOOSE d \in 1..7 : DayNumber(Date(y, m, d)) % 7 = 0 IN Date(y, m, first + 7 * (nth - 1))

SummerFrom(y) == 24 * DayNumber(Sunday(y, 3, 2)) + 2 + Winter
SummerTo(y)   == 24 * DayNumber(Sunday(y, 11, 1)) + 2 + Winter - 1

Summers == [y \in Epoch..LastYear |-> SummerFrom(y)..(SummerTo(y) - 1)]

Behind(t) == IF \E y \in Epoch..LastYear : t \in Summers[y] THEN Winter - 1 ELSE Winter

LocalDate(t) == DateOf((t - Behind(t)) \div 24)

(* The instant of the local midnight at the end of a date: the wall clock  *)
(* is pinned, whatever the length of the day.                              *)
EndOf(date) ==
  CHOOSE t \in {24 * (DayNumber(date) + 1) + behind : behind \in {Winter - 1, Winter}} :
    t - Behind(t) = 24 * (DayNumber(date) + 1)
-----------------------------------------------------------------------------
Failed == [kind |-> "error"]
Expiring(date) == [kind |-> "date", date |-> date, at |-> EndOf(date)]
Unexpiring == [kind |-> Never]

(* Calculate: errors for a zero purchase time, a season without a year and *)
(* an unknown pass type; a founder's zero time means never.                *)
Calculate(p) ==
  CASE p.zero                    -> Failed
    [] p.passType = "day_pass"   -> Expiring(NextDay(LocalDate(p.at)))
    [] p.passType \in {"season_membership", "sponsor"} ->
         IF p.season = 0 THEN Failed ELSE Expiring(Date(p.season, 12, 31))
    [] p.passType = "founder"    -> Unexpiring
    [] OTHER                     -> Failed

(* Mutation: the expiry is kept in UTC. *)
ListedUnderUTC(b) == IF b.kind = "date" THEN DateOf(b.at \div 24).year ELSE 0

(* The year a badge is listed under: the ledger keeps the expiry as local  *)
(* RFC 3339 text, and the filter compares its first four characters.       *)
ListedUnder(b) == IF b.kind = "date" THEN b.date.year ELSE 0
=============================================================================
