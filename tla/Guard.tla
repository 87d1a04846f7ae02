------------------------------- MODULE Guard -------------------------------
(***************************************************************************)
(* The delivery guard (internal/mailer/guard.go): for one intended         *)
(* recipient, whether mail goes out, to whom, and what the ledger records. *)
(* Addresses stand for normalised ones (config.NormalizeAddress: trimmed,  *)
(* lower case), which is how the guard compares them.                      *)
(***************************************************************************)
CONSTANTS
  Addresses,   \* normalised e-mail addresses
  Allowlist,   \* EMAIL_ALLOWLIST
  RedirectTo   \* EMAIL_REDIRECT_TO

ASSUME GuardAssumption ==
  /\ Allowlist \subseteq Addresses
  /\ RedirectTo \in Addresses

(* EMAIL_MODE, "" being the unset mode, which means live. *)
Modes == {"", "live", "allowlist", "redirect", "dry_run"}

EffectiveMode(mode) == IF mode = "" THEN "live" ELSE mode

(* The actions the guard decides, and the one the pipeline records itself. *)
Decided == {"sent", "skipped", "redirected", "dry_run"}
FounderExisting == "skipped_founder_existing"
Outcomes == Decided \cup {FounderExisting}

(* The modes NewGuard accepts: a guard never exists in an inconsistent     *)
(* state, the process refuses to start instead. An empty redirect address  *)
(* is not an Addresses value, so only the allowlist can be missing here.   *)
UsableModes == {m \in Modes : m = "allowlist" => Allowlist # {}}

Action(mode, addr) ==
  CASE EffectiveMode(mode) = "dry_run"   -> "dry_run"
    [] EffectiveMode(mode) = "allowlist" -> IF addr \in Allowlist THEN "sent" ELSE "skipped"
    [] EffectiveMode(mode) = "redirect"  -> "redirected"
    [] EffectiveMode(mode) = "live"      -> "sent"

(* Mutation: whom to mail decided from the mode, forgetting the allowlist. *)
RecipientsByMode(mode, addr) ==
  CASE EffectiveMode(mode) = "dry_run"  -> {}
    [] EffectiveMode(mode) = "redirect" -> {RedirectTo}
    [] OTHER                            -> {addr}

Recipients(mode, addr) ==
  CASE Action(mode, addr) = "sent"       -> {addr}
    [] Action(mode, addr) = "redirected" -> {RedirectTo}
    [] OTHER                             -> {}

(* The guard's verdict. Notices and subject prefixes are wording only.     *)
Decide(mode, addr) ==
  [action |-> Action(mode, addr), recipients |-> Recipients(mode, addr)]

(* An SMTP transaction occurs exactly when there is an envelope recipient. *)
Send(decision) == decision.recipients # {}
=============================================================================
