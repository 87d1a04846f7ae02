----------------------------- MODULE MCPipeline -----------------------------
(***************************************************************************)
(* Small instances of the pipeline for TLC: the registrations the feed     *)
(* offers and the faults each run allows.                                  *)
(***************************************************************************)
EXTENDS DocClaims, TLC

CONSTANTS
  ana, bob, club,   \* addresses: two registrants, the redirect address
  r1, r2            \* registration IDs

MCAddresses == {ana, bob, club}
MCPassTypes == {"season", "founder"}

Season(id, email)  == [id |-> id, email |-> email, passType |-> "season"]
Founder(id, email) == [id |-> id, email |-> email, passType |-> "founder"]

(* One registration, several requests for it. *)
OneSeason == {Season(r1, ana)}

(* One ID for two people (the export derives it from a shared address),    *)
(* one allowlisted and one not.                                            *)
SharedId == {Season(r1, ana), Season(r1, bob)}

(* A founder of one season, back in the next one. *)
ReturningFounder == {Founder(r1, ana), Founder(r2, ana)}

(* Which faults, at most once each, and how many of them in one behaviour. *)
Faults(kinds, total) ==
  [b \in Budgets |-> IF b = "total" THEN total ELSE IF b \in kinds THEN 1 ELSE 0]

AnyThree     == Faults(FaultKinds, 3)
AnyTwo       == Faults(FaultKinds, 2)
CancelOnly   == Faults({"cancel"}, 1)
SmtpOnly     == Faults({"smtp"}, 1)
AdminOnly    == Faults({"admin"}, 1)

TwoWorkers == Permutations(Workers)

(* The registrations of a founder taken in turn. *)
FeedSpec == TurnSpec /\ Fairness
=============================================================================
