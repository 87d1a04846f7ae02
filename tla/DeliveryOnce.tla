---------------------------- MODULE DeliveryOnce ----------------------------
(***************************************************************************)
(* What the ledger promises about mail, whoever asks for it and whatever   *)
(* fails: each registration ID has an entry that is absent, pending or     *)
(* recorded; each time the entry is cleared a new epoch of the ID begins;  *)
(* in one epoch the ID is mailed at most once, and only after its claim    *)
(* was granted. How requests come to hold a claim, lose it or fail is left *)
(* open. Pipeline implements this module.                                  *)
(***************************************************************************)
EXTENDS Integers, FiniteSets

CONSTANT Ids

VARIABLES
  entry,       \* [Ids -> {"absent", "pending", "recorded"}]
  epoch,       \* [Ids -> Nat]
  dispatched   \* [Ids -> set of epochs in which mail went out]

vars == <<entry, epoch, dispatched>>

TypeOK ==
  /\ entry \in [Ids -> {"absent", "pending", "recorded"}]
  /\ epoch \in [Ids -> Nat]
  /\ dispatched \in [Ids -> SUBSET Nat]

Init ==
  /\ entry = [id \in Ids |-> "absent"]
  /\ epoch = [id \in Ids |-> 0]
  /\ dispatched = [id \in Ids |-> {}]

(* Claim wins only where there is no entry. *)
Grant(id) ==
  /\ entry[id] = "absent"
  /\ entry' = [entry EXCEPT ![id] = "pending"]
  /\ UNCHANGED <<epoch, dispatched>>

(* The epoch n was granted, and is spent by the mail. A mail may be late:  *)
(* its claim may have been cleared since.                                  *)
Granted(id, n) == n < epoch[id] \/ (n = epoch[id] /\ entry[id] # "absent")

Dispatch(id, n) ==
  /\ Granted(id, n)
  /\ n \notin dispatched[id]
  /\ dispatched' = [dispatched EXCEPT ![id] = @ \cup {n}]
  /\ UNCHANGED <<entry, epoch>>

(* A decision is recorded over a claim, never out of nothing. *)
Record(id) ==
  /\ entry[id] = "pending"
  /\ entry' = [entry EXCEPT ![id] = "recorded"]
  /\ UNCHANGED <<epoch, dispatched>>

Clear(id) ==
  /\ entry[id] # "absent"
  /\ entry' = [entry EXCEPT ![id] = "absent"]
  /\ epoch' = [epoch EXCEPT ![id] = @ + 1]
  /\ UNCHANGED dispatched

Next ==
  \E id \in Ids : Grant(id) \/ Record(id) \/ Clear(id) \/ \E n \in 0..epoch[id] : Dispatch(id, n)

Spec == Init /\ [][Next]_vars
-----------------------------------------------------------------------------
(* Only granted epochs are mailed. *)
OnlyGranted == \A id \in Ids : \A n \in dispatched[id] : Granted(id, n)

(* An ID is mailed at most once more than its entry was cleared.           *)
MailBudget ==
  \A id \in Ids : /\ IsFiniteSet(dispatched[id])
                  /\ Cardinality(dispatched[id]) <= epoch[id] + 1
=============================================================================
