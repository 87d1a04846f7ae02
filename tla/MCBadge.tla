------------------------------ MODULE MCBadge ------------------------------
(***************************************************************************)
(* Registrations for TLC. Each family varies one thing around the same     *)
(* plain registration: the purchase, every hour around the dates on which  *)
(* calendars go wrong, from 2023 (January 1 is a Sunday) to 2028; the      *)
(* words it brings; the wallets its badge goes to.                         *)
(***************************************************************************)
EXTENDS Badge

(* Every hour of the UTC day of a date and of the two days that follow.    *)
Around(y, m, d) == LET start == 24 * DayNumber(Date(y, m, d)) IN start..(start + 71)

Instants ==
  Around(2023, 2, 27) \cup Around(2024, 2, 27)      \* leap day or not
    \cup Around(2023, 12, 30) \cup Around(2024, 12, 30)
    \cup Around(2023, 11, 29) \cup Around(2024, 7, 30)
    \cup Around(2025, 3, 8) \cup Around(2025, 11, 1) \* the clocks change
    \cup Around(2026, 3, 7) \cup Around(2026, 10, 31)

Both == {"apple", "google"}

Plain ==
  [at |-> 24 * DayNumber(Date(2026, 2, 1)), zero |-> FALSE, season |-> 2026,
   passType |-> "season_membership", id |-> <<"id">>, serial |-> <<"ascii">>,
   name |-> <<"ascii">>, pdga |-> "12345", wallets |-> Both, body |-> <<"plain">>, size |-> 1]

Purchases ==
  {[Plain EXCEPT !.at = t, !.season = y, !.passType = p] :
     t \in Instants, y \in {0, 2024, 2026}, p \in PassTypes}

(* Names and IDs shorter and longer than there is room for: all of a kind, *)
(* or one character of another kind at either end.                         *)
Uniform(n, kind) == [i \in 1..n |-> kind]
Names ==
  {Uniform(n, k) : n \in {1, 9, 10, 18, 19, 20, 40}, k \in NameKinds}
    \cup {<<k>> \o Uniform(n, "ascii") \o <<l>> : n \in {0, 16, 17, 18}, k \in NameKinds, l \in NameKinds}

Named ==
  {[Plain EXCEPT !.name = n, !.pdga = p, !.serial = Uniform(s, "ascii")] :
     n \in Names, p \in {"", "12345"}, s \in {12, 40}}

(* Bodies of six characters of every kind, some longer than two lines.     *)
Bodies == {[Plain EXCEPT !.body = b, !.size = Len(b)] : b \in [1..6 -> BodyKinds]}

Carried ==
  {[Plain EXCEPT !.wallets = w, !.id = i, !.pdga = p, !.passType = t, !.zero = z, !.size = s] :
     w \in SUBSET Both, i \in {<<>>, <<"id">>, <<"id", ".pkpass">>}, p \in {"", "12345"},
     t \in PassTypes, z \in BOOLEAN, s \in 0..12}

MCOrders == <<Purchases, Named, Bodies, Carried>>
=============================================================================
