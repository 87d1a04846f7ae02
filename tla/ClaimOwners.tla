---------------------------- MODULE ClaimOwners ----------------------------
(***************************************************************************)
(* What the ledger promises to whoever processes registrations: each       *)
(* registration ID has an entry that is absent, pending or recorded, and   *)
(* at most one owner, the caller whose claim won. Only the owner records   *)
(* or releases the entry, and nobody changes a recorded one, until the     *)
(* administrator deletes; from then on nothing is promised. What a caller  *)
(* does between its claim and its end is left open. Pipeline and PollCycle *)
(* implement this module, one with all its steps, the other with two.      *)
(***************************************************************************)
CONSTANTS
  Ids,
  Callers      \* whoever may hold a claim for longer than one step

VARIABLES
  entry,       \* [Ids -> {"absent", "pending", "recorded"}]
  owners,      \* [Ids -> SUBSET Callers]
  meddled      \* has the administrator deleted anything?

vars == <<entry, owners, meddled>>

TypeOK ==
  /\ entry \in [Ids -> {"absent", "pending", "recorded"}]
  /\ owners \in [Ids -> SUBSET Callers]
  /\ meddled \in BOOLEAN

Init ==
  /\ entry = [id \in Ids |-> "absent"]
  /\ owners = [id \in Ids |-> {}]
  /\ meddled = FALSE

Become(id, state) == entry' = [entry EXCEPT ![id] = state]
LetGo(id) == owners' = [owners EXCEPT ![id] = {}]

(* A claim wins only where there is no entry. *)
Grant(id, c) ==
  /\ entry[id] = "absent"
  /\ Become(id, "pending")
  /\ owners' = [owners EXCEPT ![id] = {c}]

(* A claim whose caller never hears of it, or that has its end at once. *)
Pass(id) ==
  /\ entry[id] = "absent"
  /\ Become(id, "pending") \/ Become(id, "recorded")
  /\ UNCHANGED owners

(* The owner records, and may be told that it failed; *)
Record(id) ==
  /\ owners[id] # {}
  /\ entry[id] = "pending"
  /\ Become(id, "recorded")
  /\ UNCHANGED owners \/ LetGo(id)

(* it releases; *)
Release(id) ==
  /\ owners[id] # {}
  /\ entry[id] = "pending"
  /\ Become(id, "absent")
  /\ LetGo(id)

(* or it leaves the entry as it is. *)
Quit(id) == LetGo(id) /\ UNCHANGED entry

(* The machine restarts: nobody owns anything any more. *)
Crash ==
  /\ owners' = [id \in Ids |-> {}]
  /\ UNCHANGED entry

Meddle == meddled' = TRUE

Next ==
  \/ Meddle
  \/ /\ ~meddled /\ UNCHANGED meddled
     /\ \/ Crash
        \/ \E id \in Ids :
             Pass(id) \/ Record(id) \/ Release(id) \/ Quit(id) \/ \E c \in Callers : Grant(id, c)

Spec == Init /\ [][Next]_vars
=============================================================================
