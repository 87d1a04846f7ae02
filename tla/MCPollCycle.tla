---------------------------- MODULE MCPollCycle ----------------------------
(***************************************************************************)
(* Small instances of the poll cycle for TLC: the rows registrants add,    *)
(* the webhooks that arrive and the faults each run allows.                *)
(***************************************************************************)
EXTENDS CycleClaims, TLC

CONSTANTS
  ana, bob,                 \* addresses, and the people who use them
  anaTyped, ANATyped,       \* ana's address, in two spellings
  bobTyped, noneTyped,      \* bob's address, and an empty cell
  order                     \* an ID of the club backend

MCEmails == {anaTyped, ANATyped, bobTyped, noneTyped}

MCAddress ==
  [e \in MCEmails |-> CASE e \in {anaTyped, ANATyped} -> ana
                        [] e = bobTyped               -> bob
                        [] OTHER                      -> Blank]

Member(name, email) ==
  [quotes |-> "plain", division |-> "mem", name |-> name, email |-> email,
   date |-> "good", pdga |-> "none"]

AnaRow     == Member(ana, anaTyped)
BobRow     == Member(bob, bobTyped)
FounderRow == [BobRow EXCEPT !.division = "fndr", !.pdga = "text"]
OtherRow   == [BobRow EXCEPT !.division = "other"]
BlankRow   == Member(bob, noneTyped)
TotalsRow  == [BobRow EXCEPT !.division = "totals", !.name = Blank, !.email = noneTyped]
NamelessRow == [BobRow EXCEPT !.name = Blank, !.pdga = "long"]
BrokenRow  == [BobRow EXCEPT !.quotes = "stray"]
OpenName   == [BobRow EXCEPT !.quotes = "opens_name"]
OpenNotes  == [BobRow EXCEPT !.quotes = "opens_notes"]
ClosingRow == [AnaRow EXCEPT !.quotes = "closes"]
UndatedRow == [AnaRow EXCEPT !.date = "unreadable"]
SharedRow  == Member(bob, ANATyped)

GoodAndBad   == {AnaRow, OtherRow}
EveryKind    == {AnaRow, FounderRow, OtherRow, BlankRow, TotalsRow, NamelessRow, BrokenRow, UndatedRow,
                 OpenName, ClosingRow}
SharedInbox  == {AnaRow, SharedRow}
OpenQuote    == {AnaRow, BobRow, OpenNotes}

(* The same membership as AnaRow, posted by the club backend; and one      *)
(* without a season year, which must not be guessed.                       *)
Post(label) ==
  [ids |-> <<Blank, order, Blank>>, names |-> <<Blank, Blank, ana>>, email |-> anaTyped,
   dates |-> <<"good", Blank, Blank>>, label |-> label]

SeasonPost   == Post([pass |-> "season", year |-> 2026])
YearlessPost == Post([pass |-> "season", year |-> 0])
Posts        == {SeasonPost, YearlessPost, Post([pass |-> "other", year |-> 0])}

Faults(limits) == [b \in Budgets |-> IF b \in DOMAIN limits THEN limits[b] ELSE 0]

Calm        == Faults(<<>>)
Alone       == Faults([lapse |-> 1, silent_login |-> 1, site |-> 1, failure |-> 1, release |-> 1,
                       webhook |-> 1])
Overlapping == Faults([lapse |-> 1, silent_login |-> 1, timeout |-> 2, failure |-> 1, release |-> 1,
                       restart |-> 1])

TwoCycles == Permutations(Cycles)
=============================================================================
