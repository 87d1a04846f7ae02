------------------------- MODULE DeliveryOnceProofs -------------------------
(***************************************************************************)
(* What the ledger's promise means in numbers, for every set of IDs.       *)
(***************************************************************************)
EXTENDS DeliveryOnce, FiniteSetTheorems, TLAPS

Inv == TypeOK /\ OnlyGranted

LEMMA InitInv == Init => Inv
BY DEF Init, Inv, TypeOK, OnlyGranted

LEMMA NextInv == Inv /\ [Next]_vars => Inv'
<1> SUFFICES ASSUME Inv, [Next]_vars PROVE Inv'
  OBVIOUS
<1> USE DEF Inv, TypeOK, OnlyGranted, Granted
<1>1. ASSUME NEW id \in Ids, Grant(id) PROVE Inv'
  BY <1>1 DEF Grant
<1>2. ASSUME NEW id \in Ids, Record(id) PROVE Inv'
  BY <1>2 DEF Record
<1>3. ASSUME NEW id \in Ids, Clear(id) PROVE Inv'
  BY <1>3 DEF Clear
<1>4. ASSUME NEW id \in Ids, NEW n \in 0..epoch[id], Dispatch(id, n) PROVE Inv'
  <2>1. n \in Nat /\ (dispatched[id] \cup {n}) \in SUBSET Nat
    BY <1>4
  <2>2. TypeOK'
    BY <1>4, <2>1 DEF Dispatch
  <2>3. OnlyGranted'
    BY <1>4, <2>1 DEF Dispatch
  <2>4. QED
    BY <2>2, <2>3
<1>5. CASE UNCHANGED vars
  BY <1>5 DEF vars
<1>6. QED
  BY <1>1, <1>2, <1>3, <1>4, <1>5 DEF Next

LEMMA InvBudget == Inv => MailBudget
<1> SUFFICES ASSUME Inv, NEW id \in Ids
             PROVE  /\ IsFiniteSet(dispatched[id])
                    /\ Cardinality(dispatched[id]) <= epoch[id] + 1
  BY DEF MailBudget
<1>1. epoch[id] \in Nat /\ dispatched[id] \subseteq 0..epoch[id]
  BY DEF Inv, TypeOK, OnlyGranted, Granted
<1>2. IsFiniteSet(0..epoch[id]) /\ Cardinality(0..epoch[id]) = epoch[id] + 1
  BY SMTT(30), <1>1, FS_Interval
<1>3. QED
  BY <1>1, <1>2, FS_Subset

(* An ID is mailed at most once more than its entry was cleared: never     *)
(* cleared, it is mailed at most once.                                     *)
THEOREM Budget == Spec => []MailBudget
BY InitInv, NextInv, InvBudget, PTL DEF Spec
=============================================================================
