--------------------------- MODULE PipelineProofs ---------------------------
(***************************************************************************)
(* Proofs about the pipeline for every set of workers, registrations and   *)
(* modes and every bound on the faults.                                    *)
(***************************************************************************)
EXTENDS Pipeline, TLAPS

(* The guard decides on something the ledger can record, and addresses at  *)
(* most one recipient.                                                     *)
LEMMA DecideType ==
  ASSUME NEW m \in Modes, NEW a \in Addresses
  PROVE  /\ Decide(m, a).action \in Decided
         /\ Decide(m, a).recipients \subseteq Addresses
         /\ \A x, y \in Decide(m, a).recipients : x = y
BY GuardAssumption DEF Decide, Action, Recipients, Decided, Modes, EffectiveMode

(* The effects of the statements keep the ledger's types.                  *)
LEMMA LedgerEffects ==
  ASSUME LedgerTypeOK, NEW id \in Ids, NEW token \in Nat, NEW row \in RecordedRow,
         \/ InsertOrIgnore(id)
         \/ UpdateRow(id, row)
         \/ UpsertArtifact(id, token)
         \/ DeleteArtifact(id)
         \/ DeleteRow(id)
         \/ UNCHANGED ledger
  PROVE  LedgerTypeOK'
<1> NoToken \in Nat /\ NoRow \in Row /\ Pending \in Row /\ row \in Row
  BY DEF NoToken, Row
<1>1. CASE InsertOrIgnore(id)
  BY <1>1 DEF InsertOrIgnore, LedgerTypeOK
<1>2. CASE UpdateRow(id, row)
  BY <1>2 DEF UpdateRow, LedgerTypeOK
<1>3. CASE UpsertArtifact(id, token) \/ DeleteArtifact(id)
  BY <1>3 DEF UpsertArtifact, DeleteArtifact, LedgerTypeOK
<1>4. CASE DeleteRow(id)
  BY <1>4 DEF DeleteRow, LedgerTypeOK
<1>5. CASE UNCHANGED ledger
  BY <1>5 DEF ledger, LedgerTypeOK
<1>6. QED
  BY <1>1, <1>2, <1>3, <1>4, <1>5

(* A fault is counted. *)
LEMMA FaultType ==
  ASSUME faults \in [Budgets -> Nat], NEW kind \in FaultKinds, Fault(kind)
  PROVE  faults' \in [Budgets -> Nat]
<1> "total" \in Budgets /\ kind \in Budgets
  BY DEF Budgets
<1>1. [faults EXCEPT ![kind] = @ + 1] \in [Budgets -> Nat]
  OBVIOUS
<1>2. QED
  BY <1>1 DEF Fault

(* However a statement ends, the context and the faults keep their types.  *)
LEMMA EndingType ==
  ASSUME TypeOK, NEW w \in Workers, Succeeds(w) \/ Refused(w) \/ Interrupted(w)
  PROVE  cancelled' \in [Workers -> BOOLEAN] /\ faults' \in [Budgets -> Nat]
<1> "store" \in FaultKinds /\ "cancel" \in FaultKinds
  BY DEF FaultKinds
<1>1. CASE Succeeds(w)
  BY <1>1 DEF Succeeds, TypeOK
<1>2. CASE Refused(w)
  BY <1>2, FaultType DEF Refused, TypeOK
<1>3. CASE Interrupted(w)
  BY <1>3, FaultType DEF Interrupted, TypeOK
<1>4. QED
  BY <1>1, <1>2, <1>3

(* Moving a worker keeps the types of its locals.                          *)
LEMMA GotoType ==
  ASSUME RequestsTypeOK, NEW w \in Workers, NEW step \in Steps \ {"smtp", "mark"},
         pc[w] # "idle", Goto(w, step)
  PROVE  RequestsTypeOK'
BY DEF RequestsTypeOK, Goto

LEMMA GotoWithType ==
  ASSUME RequestsTypeOK, NEW w \in Workers, NEW step \in Steps, NEW j \in Job,
         step \in {"smtp", "mark"} => j.action # "", GotoWith(w, step, j)
  PROVE  RequestsTypeOK'
BY DEF RequestsTypeOK, GotoWith

LEMMA ReturnType ==
  ASSUME RequestsTypeOK, NEW w \in Workers, Return(w)
  PROVE  RequestsTypeOK'
<1> "idle" \in Steps /\ "idle" \notin {"smtp", "mark"}
  BY DEF Steps
<1> QED
  BY DEF RequestsTypeOK, Return, GotoWith

(* In a statement of worker w with a typed effect and typed continuations  *)
(* everything else stays, so the whole state keeps its type.               *)
LEMMA StatementType ==
  ASSUME TypeOK, NEW w \in Workers, LedgerTypeOK', RequestsTypeOK',
         Succeeds(w) \/ Refused(w) \/ Interrupted(w),
         UNCHANGED <<post, nextToken, adminId, mode>>
  PROVE  TypeOK'
BY EndingType DEF TypeOK, post

LEMMA InitTypeOK == Init => TypeOK
<1> SUFFICES ASSUME Init PROVE TypeOK
  OBVIOUS
<1>1. LedgerTypeOK
  BY DEF Init, LedgerInit, LedgerTypeOK, Row, NoToken
<1>2. RequestsTypeOK
  BY DEF Init, RequestsTypeOK, Steps
<1>3. QED
  BY <1>1, <1>2 DEF Init, TypeOK, NoToken

(* Start fills the locals of an idle worker.                               *)
LEMMA StartTypeOK ==
  ASSUME TypeOK, NEW w \in Workers, NEW reg \in Registrations, Start(w, reg)
  PROVE  TypeOK'
<1>1. [NoJob EXCEPT !.reg = reg] \in Job
  BY DEF NoJob, Job, NoToken
<1>2. "claim" \in Steps /\ "claim" \notin {"smtp", "mark"}
  BY DEF Steps
<1>3. RequestsTypeOK'
  BY <1>1, <1>2, GotoWithType DEF Start, TypeOK
<1>4. LedgerTypeOK'
  BY DEF Start, TypeOK, LedgerTypeOK, ledger
<1>5. QED
  BY <1>3, <1>4 DEF Start, TypeOK, post

(* Inside a worker's step that is no statement only its requests part, the *)
(* messages, the next token and the faults can change.                     *)
LEMMA InsideType ==
  ASSUME TypeOK, Inside, RequestsTypeOK', wire' \subseteq Message, mailed' \subseteq Message,
         nextToken' \in Nat \ {NoToken}, faults' \in [Budgets -> Nat]
  PROVE  TypeOK'
BY DEF TypeOK, Inside, LedgerTypeOK, ledger

LEMMA BusyJob ==
  ASSUME TypeOK, NEW w \in Workers, pc[w] # "idle"
  PROVE  /\ job[w] \in Job /\ Id(w) \in Ids
         /\ job[w].reg \in Registration
         /\ job[w].reg.email \in Addresses /\ job[w].reg.passType \in PassTypes
         /\ job[w].gen \in Nat /\ job[w].token \in Nat /\ job[w].action \in Decided \cup {""}
         /\ pc[w] = "mark" => job[w].action \in Decided
BY PipelineAssumption DEF TypeOK, RequestsTypeOK, Job, Registration, Id

LEMMA MarkProcessedTypeOK ==
  ASSUME TypeOK, NEW w \in Workers, NEW action \in Outcomes,
         pc[w] # "idle", MarkProcessed(w, action)
  PROVE  TypeOK'
<1> DEFINE row == [action |-> action, email |-> job[w].reg.email,
                   passType |-> job[w].reg.passType]
<1>1. row \in RecordedRow /\ Id(w) \in Ids
  BY BusyJob DEF RecordedRow
<1>2. UpdateRow(Id(w), row) \/ UNCHANGED ledger
  BY DEF MarkProcessed, Statement
<1>3. LedgerTypeOK'
  <2>1. LedgerTypeOK /\ NoToken \in Nat
    BY DEF TypeOK, NoToken
  <2> QED
    BY <1>1, <1>2, <2>1, LedgerEffects
<1>4. Return(w) \/ Goto(w, "unartifact")
  BY DEF MarkProcessed, Statement
<1>5. "unartifact" \in Steps \ {"smtp", "mark"}
  BY DEF Steps, Claiming, Settling
<1>6. RequestsTypeOK'
  BY <1>4, <1>5, GotoType, ReturnType DEF TypeOK
<1>7. QED
  BY <1>3, <1>6, StatementType DEF MarkProcessed, Statement

(* The statement steps of a worker.                                        *)
LEMMA StatementStepsTypeOK ==
  ASSUME TypeOK, NEW w \in Workers,
         \/ Claim(w) \/ FounderCheck(w) \/ MarkFounder(w) \/ SaveArtifact(w)
         \/ Mark(w) \/ ReleaseArtifact(w) \/ ReleaseRow(w)
  PROVE  TypeOK'
<1> DEFINE row == [action |-> FounderExisting, email |-> job[w].reg.email,
                   passType |-> job[w].reg.passType]
<1>1. pc[w] # "idle"
  BY DEF Claim, FounderCheck, MarkFounder, SaveArtifact, Mark, ReleaseArtifact, ReleaseRow, At
<1>2. /\ job[w] \in Job /\ Id(w) \in Ids /\ job[w].token \in Nat /\ job[w].gen \in Nat
      /\ row \in RecordedRow
      /\ pc[w] = "mark" => job[w].action \in Outcomes
  BY <1>1, BusyJob DEF RecordedRow, Outcomes
<1>3. LedgerTypeOK /\ RequestsTypeOK
  BY DEF TypeOK
<1>4. {"founder", "build", "markFounder", "deliver", "unartifact", "unclaim"} \subseteq Steps \ {"smtp", "mark"}
  BY DEF Steps, Claiming, Preparing, Settling
<1>5. CASE Claim(w)
  <2>1. InsertOrIgnore(Id(w)) \/ UNCHANGED ledger
    BY <1>5 DEF Claim, Statement
  <2>2. LedgerTypeOK'
    BY <1>2, <1>3, <2>1, LedgerEffects
  <2>3. Claimed(w) \/ Return(w)
    BY <1>5 DEF Claim, Statement
  <2>4. [job[w] EXCEPT !.gen = cleared[Id(w)]] \in Job
    BY <1>2, <1>3 DEF LedgerTypeOK, Job
  <2>5. RequestsTypeOK'
    BY <1>3, <1>4, <2>3, <2>4, GotoWithType, ReturnType DEF Claimed
  <2>6. QED
    BY <1>5, <2>2, <2>5, StatementType DEF Claim, Statement
<1>6. CASE FounderCheck(w)
  <2>1. LedgerTypeOK'
    BY <1>3, <1>6 DEF FounderCheck, Statement, LedgerTypeOK, ledger
  <2>2. Goto(w, "markFounder") \/ Goto(w, "build") \/ Goto(w, "unartifact")
    BY <1>6 DEF FounderCheck, Statement
  <2>3. RequestsTypeOK'
    BY <1>1, <1>3, <1>4, <2>2, GotoType
  <2>4. QED
    BY <1>6, <2>1, <2>3, StatementType DEF FounderCheck, Statement
<1>7. CASE MarkFounder(w)
  BY <1>1, <1>7, MarkProcessedTypeOK DEF MarkFounder, Outcomes
<1>8. CASE SaveArtifact(w)
  <2>1. UpsertArtifact(Id(w), job[w].token) \/ UNCHANGED ledger
    BY <1>8 DEF SaveArtifact, Statement
  <2>2. LedgerTypeOK'
    BY <1>2, <1>3, <2>1, LedgerEffects
  <2>3. Goto(w, "deliver") \/ Goto(w, "unartifact")
    BY <1>8 DEF SaveArtifact, Statement
  <2>4. RequestsTypeOK'
    BY <1>1, <1>3, <1>4, <2>3, GotoType
  <2>5. QED
    BY <1>8, <2>2, <2>4, StatementType DEF SaveArtifact, Statement
<1>9. CASE Mark(w)
  BY <1>1, <1>2, <1>9, MarkProcessedTypeOK DEF Mark, At
<1>10. CASE ReleaseArtifact(w)
  <2>1. DeleteArtifact(Id(w)) \/ UNCHANGED ledger
    BY <1>10 DEF ReleaseArtifact, Statement
  <2>2. LedgerTypeOK'
    BY <1>2, <1>3, <2>1, LedgerEffects
  <2>3. Goto(w, "unclaim") \/ Return(w)
    BY <1>10 DEF ReleaseArtifact, Statement
  <2>4. RequestsTypeOK'
    BY <1>1, <1>3, <1>4, <2>3, GotoType, ReturnType
  <2>5. QED
    BY <1>10, <2>2, <2>4, StatementType DEF ReleaseArtifact, Statement
<1>11. CASE ReleaseRow(w)
  <2>1. DeleteRow(Id(w)) \/ UNCHANGED ledger
    BY <1>11 DEF ReleaseRow, Statement
  <2>2. LedgerTypeOK'
    BY <1>2, <1>3, <2>1, LedgerEffects
  <2>3. RequestsTypeOK'
    BY <1>3, <1>11, ReturnType DEF ReleaseRow, Statement
  <2>4. QED
    BY <1>11, <2>2, <2>3, StatementType DEF ReleaseRow, Statement
<1>12. QED
  BY <1>5, <1>6, <1>7, <1>8, <1>9, <1>10, <1>11

(* The steps of a worker and of the SMTP server outside the ledger.        *)
LEMMA InsideStepsTypeOK ==
  ASSUME TypeOK, NEW w \in Workers,
         \/ Build(w) \/ BuildFails(w) \/ Deliver(w)
         \/ SmtpReplied(w) \/ SmtpFailed(w) \/ SmtpAbandoned(w)
  PROVE  TypeOK'
<1>1. pc[w] # "idle"
  BY DEF Build, BuildFails, Deliver, SmtpReplied, SmtpFailed, SmtpAbandoned, At
<1>2. /\ job[w] \in Job /\ Id(w) \in Ids /\ job[w].token \in Nat /\ job[w].gen \in Nat
      /\ job[w].reg.email \in Addresses /\ job[w].reg.passType \in PassTypes
  BY <1>1, BusyJob
<1>3. RequestsTypeOK /\ wire \subseteq Message /\ mailed \subseteq Message
      /\ nextToken \in Nat \ {NoToken} /\ faults \in [Budgets -> Nat] /\ mode \in Modes
  BY PipelineAssumption DEF TypeOK, UsableModes
<1>4. "unartifact" \in Steps \ {"smtp", "mark"} /\ {"save", "deliver", "smtp", "mark"} \subseteq Steps
  BY DEF Steps, Claiming, Preparing, Settling
<1>5. CASE Build(w)
  <2>1. [job[w] EXCEPT !.token = nextToken] \in Job
    BY <1>2, <1>3 DEF Job
  <2>2. RequestsTypeOK'
    <3>1. CASE Walleted
      BY <1>3, <1>4, <1>5, <2>1, <3>1, GotoWithType DEF Build
    <3>2. CASE ~Walleted
      BY <1>3, <1>4, <1>5, <2>1, <3>2, GotoWithType DEF Build
    <3>3. QED
      BY <3>1, <3>2
  <2>3. nextToken' \in Nat \ {NoToken}
    BY <1>3, <1>5 DEF Build, NoToken
  <2>4. QED
    BY <1>3, <1>5, <2>2, <2>3, InsideType DEF Build, post
<1>6. CASE BuildFails(w) \/ SmtpFailed(w)
  <2>1. RequestsTypeOK'
    BY <1>1, <1>3, <1>4, <1>6, GotoType DEF BuildFails, SmtpFailed
  <2>2. faults' \in [Budgets -> Nat]
    BY <1>3, <1>6, FaultType DEF BuildFails, SmtpFailed, FaultKinds
  <2>3. QED
    BY <1>3, <1>6, <2>1, <2>2, InsideType DEF BuildFails, SmtpFailed, post
<1>7. CASE Deliver(w)
  <2> DEFINE decision == Decide(mode, job[w].reg.email)
  <2>1. decision.action \in Decided /\ decision.recipients \subseteq Addresses
    BY <1>2, <1>3, DecideType
  <2>2. [job[w] EXCEPT !.action = decision.action] \in Job
        /\ [job[w] EXCEPT !.action = decision.action].action # ""
    BY <1>2, <2>1 DEF Job, Decided
  <2>3. RequestsTypeOK'
    <3>1. CASE Send(decision)
      BY <1>3, <1>4, <1>7, <2>2, <3>1, GotoWithType DEF Deliver
    <3>2. CASE ~Send(decision)
      BY <1>3, <1>4, <1>7, <2>2, <3>2, GotoWithType DEF Deliver
    <3>3. QED
      BY <3>1, <3>2
  <2>4. {MessageOf(w, to) : to \in decision.recipients} \subseteq Message
    BY <1>2, <2>1 DEF MessageOf, Message
  <2>5. wire' \subseteq Message
    BY <1>3, <1>7, <2>4 DEF Deliver
  <2>6. QED
    BY <1>3, <1>7, <2>3, <2>5, InsideType DEF Deliver
<1>8. CASE SmtpReplied(w) \/ SmtpAbandoned(w)
  <2>1. RequestsTypeOK'
    <3>1. CASE SmtpReplied(w)
      <4>1. job[w].action # ""
        BY <1>3, <3>1 DEF SmtpReplied, RequestsTypeOK, At
      <4>2. QED
        BY <1>1, <1>2, <1>3, <1>4, <3>1, <4>1 DEF SmtpReplied, Goto, RequestsTypeOK
    <3>2. CASE SmtpAbandoned(w)
      BY <1>1, <1>3, <1>4, <3>2, GotoType DEF SmtpAbandoned
    <3>3. QED
      BY <1>8, <3>1, <3>2
  <2>2. QED
    BY <1>3, <1>8, <2>1, InsideType DEF SmtpReplied, SmtpAbandoned, post
<1>9. QED
  BY <1>5, <1>6, <1>7, <1>8

(* The other actors.                                                       *)
LEMMA OthersTypeOK ==
  ASSUME TypeOK,
         \/ \E w \in Workers : Cancel(w)
         \/ \E m \in wire : SmtpAccept(m)
         \/ Admin
         \/ Restart
  PROVE  TypeOK'
<1> USE DEF FaultKinds
<1>1. LedgerTypeOK /\ RequestsTypeOK /\ faults \in [Budgets -> Nat]
  BY DEF TypeOK
<1>2. ASSUME NEW w \in Workers, Cancel(w) PROVE TypeOK'
  <2>1. faults' \in [Budgets -> Nat]
    BY <1>1, <1>2, FaultType DEF Cancel
  <2>2. QED
    BY <1>2, <2>1 DEF Cancel, TypeOK, LedgerTypeOK, RequestsTypeOK, ledger, requests, post
<1>3. ASSUME NEW m \in wire, SmtpAccept(m) PROVE TypeOK'
  <2>1. RequestsTypeOK'
    BY <1>1, <1>3 DEF SmtpAccept, RequestsTypeOK, requests
  <2>2. QED
    BY <1>3, <2>1, InsideType DEF SmtpAccept, TypeOK
<1>4. ASSUME NEW id \in Ids, AdminDeleteArtifact(id) PROVE TypeOK'
  <2>1. LedgerTypeOK'
    BY <1>1, <1>4, Zenon DEF AdminDeleteArtifact, DeleteArtifact, LedgerTypeOK, NoToken
  <2>2. faults' \in [Budgets -> Nat]
    BY <1>1, <1>4, FaultType DEF AdminDeleteArtifact
  <2>3. QED
    BY <1>4, <2>1, <2>2 DEF AdminDeleteArtifact, TypeOK, RequestsTypeOK, requests, post
<1>5. CASE AdminDeleteRow
  <2>1. adminId \in Ids
    BY <1>5 DEF AdminDeleteRow, TypeOK
  <2>2. LedgerTypeOK'
    BY <1>1, <1>5, <2>1 DEF AdminDeleteRow, DeleteRow, LedgerTypeOK, Row
  <2>3. QED
    BY <1>5, <2>2 DEF AdminDeleteRow, TypeOK, RequestsTypeOK, requests, post
<1>6. CASE AdminFails
  BY <1>6 DEF AdminFails, TypeOK, LedgerTypeOK, RequestsTypeOK, ledger, requests, post
<1>7. CASE Restart
  <2>1. RequestsTypeOK'
    BY <1>7 DEF Restart, RequestsTypeOK, Steps
  <2>2. LedgerTypeOK'
    BY <1>1, <1>7 DEF Restart, LedgerTypeOK, ledger
  <2>3. faults' \in [Budgets -> Nat]
    BY <1>1, <1>7, FaultType DEF Restart
  <2>4. QED
    BY <1>7, <2>1, <2>2, <2>3 DEF Restart, TypeOK
<1>8. QED
  BY <1>2, <1>3, <1>4, <1>5, <1>6, <1>7 DEF Admin

LEMMA NextTypeOK == TypeOK /\ [Next]_vars => TypeOK'
<1> SUFFICES ASSUME TypeOK, [Next]_vars PROVE TypeOK'
  OBVIOUS
<1>1. ASSUME NEW w \in Workers, NEW reg \in Registrations, Start(w, reg) PROVE TypeOK'
  BY <1>1, StartTypeOK
<1>2. ASSUME NEW w \in Workers, Work(w) PROVE TypeOK'
  BY <1>2, StatementStepsTypeOK, InsideStepsTypeOK DEF Work
<1>3. CASE (\E w \in Workers : Cancel(w)) \/ (\E m \in wire : SmtpAccept(m)) \/ Admin \/ Restart
  BY <1>3, OthersTypeOK
<1>4. CASE UNCHANGED vars
  BY <1>4 DEF vars, TypeOK, LedgerTypeOK, RequestsTypeOK, ledger, requests, post
<1>5. QED
  BY <1>1, <1>2, <1>3, <1>4 DEF Next

(* Type correctness: among others, no access token is ever the missing one,*)
(* and what is recorded for a registration is a decision of the guard.     *)
THEOREM TypeCorrect == Spec => []TypeOK
BY InitTypeOK, NextTypeOK, PTL DEF Spec
-----------------------------------------------------------------------------
(* What is granted stays granted, whatever a statement does to the ledger: *)
(* clearing a row only makes its claim an earlier one.                     *)
LEMMA GrantedStable ==
  ASSUME LedgerTypeOK, NEW id \in Ids, NEW token, NEW row \in RecordedRow,
         \/ InsertOrIgnore(id)
         \/ UpdateRow(id, row)
         \/ UpsertArtifact(id, token)
         \/ DeleteArtifact(id)
         \/ DeleteRow(id)
         \/ UNCHANGED ledger,
         NEW i \in Ids, NEW n \in Nat, Granted(i, n)
  PROVE  Granted(i, n)'
<1>1. CASE InsertOrIgnore(id)
  BY <1>1 DEF InsertOrIgnore, LedgerTypeOK, Granted, Exists, Pending
<1>2. CASE UpdateRow(id, row)
  BY <1>2 DEF UpdateRow, LedgerTypeOK, Granted, Exists, RecordedRow, Outcomes, Decided, FounderExisting
<1>3. CASE UpsertArtifact(id, token) \/ DeleteArtifact(id) \/ UNCHANGED ledger
  BY <1>3 DEF UpsertArtifact, DeleteArtifact, LedgerTypeOK, Granted, Exists, ledger
<1>4. CASE DeleteRow(id)
  BY <1>4 DEF DeleteRow, LedgerTypeOK, Granted, Exists
<1>5. QED
  BY <1>1, <1>2, <1>3, <1>4

(* A step that starts no claim and hands over no message keeps claims      *)
(* distinct, provided what is granted stays granted.                       *)
LEMMA ClaimsCarried ==
  ASSUME TypeOK, ClaimsDistinct,
         \A i \in Ids, n \in Nat : Granted(i, n) => Granted(i, n)',
         \A w \in Workers : pc'[w] \in Claiming =>
           /\ pc[w] \in Claiming
           /\ pc'[w] \in Preparing => pc[w] \in Preparing
           /\ Id(w)' = Id(w) /\ job'[w].gen = job[w].gen,
         wire' \cup mailed' \subseteq wire \cup mailed
  PROVE  ClaimsDistinct'
<1>1. \A w \in Workers : pc[w] \in Claiming => Id(w) \in Ids /\ job[w].gen \in Nat
  BY BusyJob DEF Claiming, Preparing, Settling
<1>2. \A m \in wire \cup mailed : m.id \in Ids /\ m.gen \in Nat
  BY DEF TypeOK, Message
<1>3. \A w \in Workers : pc'[w] \in Claiming => Granted(Id(w), job[w].gen)'
  BY <1>1 DEF ClaimsDistinct
<1>4. \A m \in wire' \cup mailed' : Granted(m.id, m.gen)'
  BY <1>2 DEF ClaimsDistinct
<1>5. \A v, w \in Workers :
        pc'[v] \in Claiming /\ pc'[w] \in Claiming /\ Id(v)' = Id(w)' /\ job'[v].gen = job'[w].gen
        => v = w
  BY DEF ClaimsDistinct
<1>6. \A w \in Workers, m \in wire' \cup mailed' :
        pc'[w] \in Preparing /\ m.id = Id(w)' => m.gen # job'[w].gen
  BY DEF ClaimsDistinct, Claiming
<1>7. \A m1, m2 \in wire' \cup mailed' : m1.id = m2.id /\ m1.gen = m2.gen => m1 = m2
  BY DEF ClaimsDistinct
<1>8. QED
  BY <1>3, <1>4, <1>5, <1>6, <1>7 DEF ClaimsDistinct

(* Every step of the pipeline changes the ledger, if at all, by one        *)
(* statement, so what is granted stays granted.                            *)
LEMMA GrantedForever ==
  ASSUME TypeOK, Next
  PROVE  \A i \in Ids, n \in Nat : Granted(i, n) => Granted(i, n)'
<1> SUFFICES ASSUME NEW i \in Ids, NEW n \in Nat, Granted(i, n)
             PROVE  Granted(i, n)'
  OBVIOUS
<1>1. LedgerTypeOK
  BY DEF TypeOK
<1>2. CASE UNCHANGED ledger
  BY <1>2 DEF ledger, Granted, Exists
<1>3. ASSUME NEW w \in Workers, Work(w) PROVE Granted(i, n)'
  <2>1. pc[w] # "idle"
    BY <1>3 DEF Work, Claim, FounderCheck, MarkFounder, Build, BuildFails, SaveArtifact, Deliver,
                SmtpReplied, SmtpFailed, SmtpAbandoned, Mark, ReleaseArtifact, ReleaseRow, At
  <2>2. Id(w) \in Ids
    BY <2>1, BusyJob
  <2> DEFINE row(action) == [action |-> action, email |-> job[w].reg.email,
                             passType |-> job[w].reg.passType]
  <2>3. \A action \in Outcomes : row(action) \in RecordedRow
    BY <2>1, BusyJob DEF RecordedRow
  <2>4. FounderExisting \in Outcomes /\ (pc[w] = "mark" => job[w].action \in Outcomes)
    BY <2>1, BusyJob DEF Outcomes
  <2>5. CASE MarkFounder(w) \/ Mark(w)
    <3>1. PICK action \in Outcomes : UpdateRow(Id(w), row(action)) \/ UNCHANGED ledger
      BY <2>4, <2>5 DEF MarkFounder, Mark, MarkProcessed, Statement, At
    <3>2. QED
      BY <1>1, <2>2, <2>3, <3>1, GrantedStable
  <2>6. CASE Claim(w) \/ SaveArtifact(w) \/ ReleaseArtifact(w) \/ ReleaseRow(w)
    <3>1. \/ InsertOrIgnore(Id(w)) \/ UpsertArtifact(Id(w), job[w].token)
          \/ DeleteArtifact(Id(w)) \/ DeleteRow(Id(w)) \/ UNCHANGED ledger
      BY <2>6 DEF Claim, SaveArtifact, ReleaseArtifact, ReleaseRow, Statement
    <3>2. QED
      BY <1>1, <2>2, <2>3, <2>4, <3>1, GrantedStable
  <2>7. CASE FounderCheck(w)
    BY <1>2, <2>7 DEF FounderCheck, Statement
  <2>8. CASE \/ Build(w) \/ BuildFails(w) \/ Deliver(w)
             \/ SmtpReplied(w) \/ SmtpFailed(w) \/ SmtpAbandoned(w)
    BY <1>2, <2>8 DEF Build, BuildFails, Deliver, SmtpReplied, SmtpFailed, SmtpAbandoned, Inside
  <2>9. QED
    BY <1>3, <2>5, <2>6, <2>7, <2>8 DEF Work
<1>4. ASSUME NEW id \in Ids, AdminDeleteArtifact(id) PROVE Granted(i, n)'
  BY <1>1, <1>4 DEF AdminDeleteArtifact, DeleteArtifact, Granted, Exists
<1>5. CASE AdminDeleteRow
  <2>1. adminId \in Ids
    BY <1>5 DEF AdminDeleteRow, TypeOK
  <2>2. QED
    BY <1>1, <1>5, <2>1 DEF AdminDeleteRow, DeleteRow, LedgerTypeOK, Granted, Exists
<1>6. ASSUME NEW w \in Workers, NEW reg \in Registrations, Start(w, reg) PROVE Granted(i, n)'
  BY <1>2, <1>6 DEF Start
<1>7. CASE (\E w \in Workers : Cancel(w)) \/ (\E m \in wire : SmtpAccept(m)) \/ AdminFails \/ Restart
  BY <1>2, <1>7 DEF Cancel, SmtpAccept, Inside, AdminFails, Restart
<1>8. QED
  BY <1>3, <1>4, <1>5, <1>6, <1>7 DEF Next, Admin

(* A worker that moves on with its claim, or gives it up, and hands over   *)
(* no message, keeps claims distinct.                                      *)
LEMMA MovesOn ==
  ASSUME TypeOK, ClaimsDistinct, Next, NEW w \in Workers,
         NEW step \in Steps, step \in Preparing => pc[w] \in Preparing,
         NEW j, j.reg.id = Id(w) /\ j.gen = job[w].gen,
         \/ Return(w)
         \/ pc[w] \in Claiming /\ (Goto(w, step) \/ GotoWith(w, step, j)),
         wire' \cup mailed' \subseteq wire \cup mailed
  PROVE  ClaimsDistinct'
<1>1. pc \in [Workers -> Steps] /\ job \in [Workers -> Job \cup {NoJob}]
  BY DEF TypeOK, RequestsTypeOK
<1>2. "idle" \notin Claiming
  BY DEF Claiming, Preparing, Settling
<1>3. \A v \in Workers : pc'[v] \in Claiming =>
        /\ pc[v] \in Claiming
        /\ pc'[v] \in Preparing => pc[v] \in Preparing
        /\ Id(v)' = Id(v) /\ job'[v].gen = job[v].gen
  <2>1. CASE Return(w)
    BY <1>1, <1>2, <2>1 DEF Return, GotoWith, Id
  <2>2. CASE pc[w] \in Claiming /\ Goto(w, step)
    BY <1>1, <2>2 DEF Goto, Id
  <2>3. CASE pc[w] \in Claiming /\ GotoWith(w, step, j)
    BY <1>1, <2>3 DEF GotoWith, Id
  <2>4. QED
    BY <2>1, <2>2, <2>3
<1>4. QED
  BY <1>3, GrantedForever, ClaimsCarried

(* Nobody holds the claim that the insertion of a row grants: the row was  *)
(* absent, and every earlier claim of the ID has been cleared.             *)
LEMMA ClaimKeepsDistinct ==
  ASSUME TypeOK, ClaimsDistinct, Next, NEW w \in Workers, Claim(w)
  PROVE  ClaimsDistinct'
<1> DEFINE j == [job[w] EXCEPT !.gen = cleared[Id(w)]]
<1>1. /\ pc \in [Workers -> Steps] /\ job \in [Workers -> Job \cup {NoJob}]
      /\ pc[w] = "claim" /\ job[w] \in Job /\ Id(w) \in Ids
      /\ cleared[Id(w)] \in Nat
  BY BusyJob DEF TypeOK, RequestsTypeOK, LedgerTypeOK, Claim, At
<1>2. UNCHANGED <<wire, mailed>>
  BY DEF Claim, Statement, post
<1>3. CASE Return(w)
  <2>1. "idle" \in Steps /\ "idle" \notin Preparing
    BY DEF Steps, Preparing
  <2>2. QED
    BY <1>2, <1>3, <2>1, MovesOn DEF Id
<1>4. CASE Claimed(w)
  <2>1. ~Exists(Id(w)) /\ InsertOrIgnore(Id(w))
    <3>1. "idle" \notin {"founder", "build"} /\ ~Return(w)
      BY <1>1, <1>4 DEF Claimed, Return, GotoWith
    <3>2. QED
      BY <3>1 DEF Claim, Statement
  <2>2. j.gen = cleared[Id(w)] /\ j.reg = job[w].reg
    BY <1>1 DEF Job
  <2>3. /\ pc'[w] \in Preparing /\ Id(w)' = Id(w) /\ job'[w].gen = cleared[Id(w)]
        /\ \A v \in Workers \ {w} : pc'[v] = pc[v] /\ Id(v)' = Id(v) /\ job'[v].gen = job[v].gen
    <3> HIDE DEF j
    <3>1. /\ pc' = [pc EXCEPT ![w] = IF job[w].reg.passType = "founder" THEN "founder" ELSE "build"]
          /\ job' = [job EXCEPT ![w] = j]
      BY <1>4 DEF Claimed, GotoWith, j
    <3>2. QED
      BY <1>1, <2>2, <3>1 DEF Preparing, Id
  <2>4. /\ \A v \in Workers : pc[v] \in Claiming /\ Id(v) = Id(w) => job[v].gen # cleared[Id(w)]
        /\ \A m \in wire \cup mailed : m.id = Id(w) => m.gen # cleared[Id(w)]
    <3>1. \A v \in Workers : pc[v] \in Claiming => job[v].gen \in Nat
      BY BusyJob DEF Claiming, Preparing, Settling
    <3>2. \A m \in wire \cup mailed : m.gen \in Nat
      BY DEF TypeOK, Message
    <3>3. QED
      BY <1>1, <2>1, <3>1, <3>2 DEF ClaimsDistinct, Granted
  <2>5. \A i \in Ids, n \in Nat : Granted(i, n) => Granted(i, n)'
    BY GrantedForever
  <2>6. Granted(Id(w), job[w].gen)'
    <3>1. Id(w)' = Id(w) /\ job'[w].gen = cleared[Id(w)] /\ cleared' = cleared
      BY <2>1, <2>3 DEF InsertOrIgnore
    <3>2. Exists(Id(w))'
      BY <1>1, <2>1, <3>1 DEF InsertOrIgnore, Exists, Pending, TypeOK, LedgerTypeOK
    <3>3. QED
      BY <3>1, <3>2 DEF Granted
  <2>7. QED
    <3>1. \A v \in Workers : pc[v] \in Claiming => Id(v) \in Ids /\ job[v].gen \in Nat
      BY BusyJob DEF Claiming, Preparing, Settling
    <3>2. \A m \in wire \cup mailed : m.id \in Ids /\ m.gen \in Nat
      BY DEF TypeOK, Message
    <3>3. \A v \in Workers : pc'[v] \in Claiming => Granted(Id(v), job[v].gen)'
      BY <2>3, <2>5, <2>6, <3>1 DEF ClaimsDistinct
    <3>4. \A m \in wire' \cup mailed' : Granted(m.id, m.gen)'
      BY <1>2, <2>5, <3>2 DEF ClaimsDistinct
    <3>5. \A u, v \in Workers :
            pc'[u] \in Claiming /\ pc'[v] \in Claiming /\ Id(u)' = Id(v)' /\ job'[u].gen = job'[v].gen
            => u = v
      BY <2>3, <2>4 DEF ClaimsDistinct
    <3>6. \A v \in Workers, m \in wire' \cup mailed' :
            pc'[v] \in Preparing /\ m.id = Id(v)' => m.gen # job'[v].gen
      BY <1>2, <2>3, <2>4 DEF ClaimsDistinct
    <3>7. \A m1, m2 \in wire' \cup mailed' : m1.id = m2.id /\ m1.gen = m2.gen => m1 = m2
      BY <1>2 DEF ClaimsDistinct
    <3>8. QED
      BY <3>3, <3>4, <3>5, <3>6, <3>7 DEF ClaimsDistinct
<1>5. QED
  BY <1>3, <1>4 DEF Claim, Statement

(* Handing over a message spends the claim: until then no message stems    *)
(* from it, the guard names one recipient, and from then on the worker     *)
(* hands over nothing.                                                     *)
LEMMA DeliverKeepsDistinct ==
  ASSUME TypeOK, ClaimsDistinct, Next, NEW w \in Workers, Deliver(w)
  PROVE  ClaimsDistinct'
<1> DEFINE decision == Decide(mode, job[w].reg.email)
           sent == {MessageOf(w, to) : to \in decision.recipients}
<1>1. /\ pc \in [Workers -> Steps] /\ job \in [Workers -> Job \cup {NoJob}]
      /\ pc[w] = "deliver" /\ job[w] \in Job /\ job[w].reg.email \in Addresses
      /\ mode \in Modes
  BY BusyJob, PipelineAssumption DEF TypeOK, RequestsTypeOK, Deliver, At, UsableModes
<1>2. /\ pc'[w] \in Settling /\ Id(w)' = Id(w) /\ job'[w].gen = job[w].gen
      /\ \A v \in Workers \ {w} : pc'[v] = pc[v] /\ Id(v)' = Id(v) /\ job'[v].gen = job[v].gen
  <2> DEFINE j == [job[w] EXCEPT !.action = decision.action]
  <2>1. j.gen = job[w].gen /\ j.reg = job[w].reg
    BY <1>1 DEF Job
  <2>2. /\ pc' = [pc EXCEPT ![w] = IF Send(decision) THEN "smtp" ELSE "mark"]
        /\ job' = [job EXCEPT ![w] = j]
    BY DEF Deliver, GotoWith
  <2> HIDE DEF j, decision
  <2>3. QED
    BY <1>1, <2>1, <2>2 DEF Settling, Id
<1>3. wire' = wire \cup sent /\ mailed' = mailed
  BY DEF Deliver
<1>4. /\ \A m \in sent : m.id = Id(w) /\ m.gen = job[w].gen
      /\ \A m1, m2 \in sent : m1 = m2
  BY <1>1, DecideType DEF MessageOf
<1>5. pc[w] \in Preparing /\ pc[w] \in Claiming
  BY <1>1 DEF Claiming, Preparing
<1>6. \A i \in Ids, n \in Nat : Granted(i, n) => Granted(i, n)'
  BY GrantedForever
<1>7. \A v \in Workers : pc[v] \in Claiming => Id(v) \in Ids /\ job[v].gen \in Nat
  BY BusyJob DEF Claiming, Preparing, Settling
<1>8. \A m \in wire \cup mailed : m.id \in Ids /\ m.gen \in Nat
  BY DEF TypeOK, Message
<1> HIDE DEF sent, decision
<1>9. \A v \in Workers : pc'[v] \in Claiming => pc[v] \in Claiming
  BY <1>2, <1>5
<1>10. \A v \in Workers : pc'[v] \in Claiming => Granted(Id(v), job[v].gen)'
  BY <1>2, <1>6, <1>7, <1>9 DEF ClaimsDistinct
<1>11. \A m \in wire' \cup mailed' : Granted(m.id, m.gen)'
  BY <1>3, <1>4, <1>5, <1>6, <1>7, <1>8 DEF ClaimsDistinct
<1>12. \A u, v \in Workers :
         pc'[u] \in Claiming /\ pc'[v] \in Claiming /\ Id(u)' = Id(v)' /\ job'[u].gen = job'[v].gen
         => u = v
  BY <1>2, <1>9 DEF ClaimsDistinct
<1>13. \A v \in Workers, m \in wire' \cup mailed' :
         pc'[v] \in Preparing /\ m.id = Id(v)' => m.gen # job'[v].gen
  <2>1. Preparing \cap Settling = {} /\ Preparing \subseteq Claiming
    BY DEF Claiming, Preparing, Settling
  <2>2. SUFFICES ASSUME NEW v \in Workers, NEW m \in wire' \cup mailed',
                        pc'[v] \in Preparing, m.id = Id(v)'
                 PROVE  m.gen # job'[v].gen
    OBVIOUS
  <2>3. v # w /\ pc[v] \in Preparing
    BY <1>2, <2>1, <2>2
  <2>4. CASE m \in sent
    BY <1>2, <1>4, <1>5, <2>1, <2>2, <2>3, <2>4 DEF ClaimsDistinct
  <2>5. CASE m \in wire \cup mailed
    BY <1>2, <2>2, <2>3, <2>5 DEF ClaimsDistinct
  <2>6. QED
    BY <1>3, <2>4, <2>5
<1>14. \A m1, m2 \in wire' \cup mailed' : m1.id = m2.id /\ m1.gen = m2.gen => m1 = m2
  BY <1>3, <1>4, <1>5 DEF ClaimsDistinct
<1>15. QED
  BY <1>10, <1>11, <1>12, <1>13, <1>14 DEF ClaimsDistinct

LEMMA InitClaimsDistinct == Init => ClaimsDistinct
BY DEF Init, ClaimsDistinct, Claiming, Preparing, Settling

LEMMA NextClaimsDistinct == TypeOK /\ ClaimsDistinct /\ [Next]_vars => ClaimsDistinct'
<1> SUFFICES ASSUME TypeOK, ClaimsDistinct, [Next]_vars PROVE ClaimsDistinct'
  OBVIOUS
<1>1. CASE UNCHANGED vars
  <2>1. UNCHANGED <<pc, job, wire, mailed, rows, cleared>>
    BY <1>1 DEF vars, requests, post, ledger
  <2>2. QED
    BY <2>1 DEF ClaimsDistinct, Granted, Exists, Id
<1>2. CASE Next
  <2> USE <1>2
  <2>1. /\ pc \in [Workers -> Steps] /\ job \in [Workers -> Job \cup {NoJob}]
        /\ {"unartifact", "unclaim", "mark", "markFounder", "build", "save", "deliver", "idle"}
             \subseteq Steps
        /\ {"unartifact", "unclaim", "mark", "idle"} \cap Preparing = {}
        /\ {"claim", "idle"} \cap Claiming = {}
    BY DEF TypeOK, RequestsTypeOK, Steps, Claiming, Preparing, Settling
  <2>2. ASSUME NEW w \in Workers, Work(w) PROVE ClaimsDistinct'
    <3> DEFINE j == [job[w] EXCEPT !.token = nextToken]
    <3>1. CASE Claim(w)
      BY <3>1, ClaimKeepsDistinct
    <3>2. CASE Deliver(w)
      BY <3>2, DeliverKeepsDistinct
    <3>3. CASE FounderCheck(w)
      <4>1. PICK step \in {"markFounder", "build", "unartifact"} : Goto(w, step)
        BY <3>3 DEF FounderCheck, Statement
      <4>2. pc[w] \in Preparing /\ pc[w] \in Claiming /\ UNCHANGED <<wire, mailed>>
        BY <3>3 DEF FounderCheck, At, Preparing, Claiming, Statement, post
      <4>3. QED
        BY <2>1, <4>1, <4>2, MovesOn DEF Id
    <3>4. CASE MarkFounder(w) \/ Mark(w)
      <4>1. Return(w) \/ Goto(w, "unartifact")
        BY <3>4 DEF MarkFounder, Mark, MarkProcessed, Statement
      <4>2. pc[w] \in Claiming /\ UNCHANGED <<wire, mailed>>
        BY <3>4 DEF MarkFounder, Mark, MarkProcessed, At, Preparing, Settling, Claiming, Statement, post
      <4>3. QED
        BY <2>1, <4>1, <4>2, MovesOn DEF Id
    <3>5. CASE SaveArtifact(w)
      <4>1. PICK step \in {"deliver", "unartifact"} : Goto(w, step)
        BY <3>5 DEF SaveArtifact, Statement
      <4>2. pc[w] \in Preparing /\ pc[w] \in Claiming /\ UNCHANGED <<wire, mailed>>
        BY <3>5 DEF SaveArtifact, At, Preparing, Claiming, Statement, post
      <4>3. QED
        BY <2>1, <4>1, <4>2, MovesOn DEF Id
    <3>6. CASE ReleaseArtifact(w) \/ ReleaseRow(w)
      <4>1. Return(w) \/ Goto(w, "unclaim")
        BY <3>6 DEF ReleaseArtifact, ReleaseRow, Statement
      <4>2. pc[w] \in Claiming /\ UNCHANGED <<wire, mailed>>
        BY <3>6 DEF ReleaseArtifact, ReleaseRow, At, Settling, Claiming, Statement, post
      <4>3. QED
        BY <2>1, <4>1, <4>2, MovesOn DEF Id
    <3>7. CASE Build(w)
      <4>1. PICK step \in {"save", "deliver"} : GotoWith(w, step, j)
        BY <3>7 DEF Build
      <4>2. pc[w] \in Preparing /\ pc[w] \in Claiming /\ UNCHANGED <<wire, mailed>>
        BY <3>7 DEF Build, At, Preparing, Claiming, post
      <4>3. j.reg.id = Id(w) /\ j.gen = job[w].gen
        <5>1. job[w] \in Job
          BY <3>7, BusyJob DEF Build, At
        <5>2. QED
          BY <5>1 DEF Job, Id
      <4> HIDE DEF j
      <4>4. QED
        BY <2>1, <4>1, <4>2, <4>3, MovesOn
    <3>8. CASE BuildFails(w) \/ SmtpFailed(w) \/ SmtpAbandoned(w)
      <4>1. Goto(w, "unartifact") /\ wire' \cup mailed' \subseteq wire \cup mailed
        BY <3>8 DEF BuildFails, SmtpFailed, SmtpAbandoned, post
      <4>2. pc[w] \in Claiming
        BY <3>8 DEF BuildFails, SmtpFailed, SmtpAbandoned, At, Preparing, Settling, Claiming
      <4>3. QED
        BY <2>1, <4>1, <4>2, MovesOn DEF Id
    <3>9. CASE SmtpReplied(w)
      <4>1. Goto(w, "mark") /\ wire' \cup mailed' \subseteq wire \cup mailed /\ pc[w] \in Claiming
        BY <3>9 DEF SmtpReplied, post, At, Settling, Claiming
      <4>2. QED
        BY <2>1, <4>1, MovesOn DEF Id
    <3>10. QED
      BY <2>2, <3>1, <3>2, <3>3, <3>4, <3>5, <3>6, <3>7, <3>8, <3>9 DEF Work
  <2>3. ASSUME NEW w \in Workers, NEW reg \in Registrations, Start(w, reg) PROVE ClaimsDistinct'
    <3>1. /\ \A v \in Workers : pc'[v] \in Claiming => pc'[v] = pc[v] /\ job'[v] = job[v]
          /\ UNCHANGED <<wire, mailed>>
      BY <2>1, <2>3 DEF Start, GotoWith, post
    <3>2. QED
      BY <3>1, GrantedForever, ClaimsCarried DEF Id
  <2>4. CASE \/ \E w \in Workers : Cancel(w)
             \/ \E m \in wire : SmtpAccept(m)
             \/ Admin
    <3>1. UNCHANGED <<pc, job>> /\ wire' \cup mailed' = wire \cup mailed
      BY <2>4 DEF Cancel, SmtpAccept, Admin, AdminDeleteArtifact, AdminDeleteRow, AdminFails,
                  requests, post
    <3>2. QED
      BY <3>1, GrantedForever, ClaimsCarried DEF Id
  <2>5. CASE Restart
    <3>1. /\ \A v \in Workers : pc'[v] = "idle"
          /\ wire' \cup mailed' \subseteq wire \cup mailed
      BY <2>5 DEF Restart
    <3>2. QED
      BY <2>1, <3>1, GrantedForever, ClaimsCarried
  <2>6. QED
    BY <2>2, <2>3, <2>4, <2>5 DEF Next
<1>3. QED
  BY <1>1, <1>2

LEMMA AlwaysClaimsDistinct == Spec => [](TypeOK /\ ClaimsDistinct)
<1>1. Init => TypeOK /\ ClaimsDistinct
  BY InitTypeOK, InitClaimsDistinct
<1>2. TypeOK /\ ClaimsDistinct /\ [Next]_vars => (TypeOK /\ ClaimsDistinct)'
  BY NextTypeOK, NextClaimsDistinct
<1>3. QED
  BY <1>1, <1>2, PTL DEF Spec

(* A registration is mailed at most once per claim, and only for a granted *)
(* claim, whatever requests run and whatever fails.                        *)
THEOREM OneMail == Spec => []OneMailPerClaim
<1>1. TypeOK /\ ClaimsDistinct => OneMailPerClaim
  BY DEF ClaimsDistinct, OneMailPerClaim
<1>2. QED
  BY <1>1, AlwaysClaimsDistinct, PTL
-----------------------------------------------------------------------------
(* Access tokens are capabilities: none is drawn twice, and a message that *)
(* carries a worker's token is the one this worker handed to SMTP.         *)
TokensFresh ==
  /\ \A w \in Workers : job[w].token < nextToken
  /\ \A w \in Workers : pc[w] = "claim" => job[w].token = NoToken
  /\ \A w \in Workers : pc[w] \in {"save", "deliver"} => job[w].token # NoToken
  /\ \A v, w \in Workers : v # w /\ job[v].token = job[w].token => job[w].token = NoToken
  /\ \A m \in wire \cup mailed : m.token # NoToken /\ m.token < nextToken
  /\ \A w \in Workers, m \in wire \cup mailed : m.token = job[w].token =>
       pc[w] \in Settling /\ m.id = Id(w) /\ m.gen = job[w].gen

(* A step that draws no token and hands over no message keeps tokens fresh:*)
(* a worker keeps its token and its claim, or drops the token.             *)
LEMMA TokensCarried ==
  ASSUME TypeOK, TokensFresh, nextToken' = nextToken,
         wire' \cup mailed' \subseteq wire \cup mailed,
         \A w \in Workers :
           \/ job'[w].token = NoToken /\ pc'[w] \notin {"save", "deliver"}
           \/ /\ job'[w].token = job[w].token /\ Id(w)' = Id(w) /\ job'[w].gen = job[w].gen
              /\ pc'[w] # "claim" \/ pc[w] = "claim"
              /\ pc[w] \in Settling => pc'[w] \in Settling
              /\ pc'[w] \in {"save", "deliver"} => pc[w] \in {"save", "deliver"}
  PROVE  TokensFresh'
<1>1. nextToken \in Nat /\ NoToken < nextToken
  BY DEF TypeOK, NoToken
<1>2. \A w \in Workers : job'[w].token < nextToken'
  BY <1>1 DEF TokensFresh
<1>3. \A w \in Workers : pc'[w] = "claim" => job'[w].token = NoToken
  BY DEF TokensFresh
<1>4. \A w \in Workers : pc'[w] \in {"save", "deliver"} => job'[w].token # NoToken
  BY DEF TokensFresh
<1>5. \A v, w \in Workers : v # w /\ job'[v].token = job'[w].token => job'[w].token = NoToken
  BY DEF TokensFresh
<1>6. \A m \in wire' \cup mailed' : m.token # NoToken /\ m.token < nextToken'
  BY DEF TokensFresh
<1>7. \A w \in Workers, m \in wire' \cup mailed' : m.token = job'[w].token =>
        pc'[w] \in Settling /\ m.id = Id(w)' /\ m.gen = job'[w].gen
  BY <1>6 DEF TokensFresh
<1>8. QED
  BY <1>2, <1>3, <1>4, <1>5, <1>6, <1>7 DEF TokensFresh

(* What a worker's move leaves alone: every other worker.                  *)
LEMMA MoveFrame ==
  ASSUME TypeOK, NEW w \in Workers, NEW step, NEW j,
         Goto(w, step) \/ GotoWith(w, step, j)
  PROVE  /\ pc'[w] = step
         /\ Goto(w, step) => job'[w] = job[w]
         /\ GotoWith(w, step, j) => job'[w] = j
         /\ \A v \in Workers \ {w} : pc'[v] = pc[v] /\ job'[v] = job[v]
<1> pc \in [Workers -> Steps] /\ job \in [Workers -> Job \cup {NoJob}]
  BY DEF TypeOK, RequestsTypeOK
<1> QED
  BY DEF Goto, GotoWith

(* Every step of a worker moves it along one of the edges of               *)
(* ProcessClassified.                                                      *)
Edge(w) ==
  \/ Return(w)
  \/ pc[w] = "claim" /\ Claimed(w)
  \/ pc[w] = "founder" /\ \E step \in {"markFounder", "build"} : Goto(w, step)
  \/ Build(w)
  \/ pc[w] = "save" /\ Goto(w, "deliver")
  \/ Deliver(w)
  \/ pc[w] = "smtp" /\ Goto(w, "mark")
  \/ pc[w] \in Claiming \ {"unartifact", "unclaim"} /\ Goto(w, "unartifact")
  \/ pc[w] = "unartifact" /\ Goto(w, "unclaim")

LEMMA WorkEdge ==
  ASSUME NEW w \in Workers, Work(w)
  PROVE  Edge(w) /\ pc[w] # "idle"
<1> USE DEF At, Edge, Claiming, Preparing, Settling
<1>1. CASE Claim(w) \/ FounderCheck(w)
  BY <1>1 DEF Claim, FounderCheck, Statement
<1>2. CASE MarkFounder(w) \/ Mark(w)
  BY <1>2 DEF MarkFounder, Mark, MarkProcessed, Statement
<1>3. CASE Build(w) \/ BuildFails(w)
  BY <1>3 DEF Build, BuildFails
<1>4. CASE SaveArtifact(w) \/ ReleaseArtifact(w) \/ ReleaseRow(w)
  BY <1>4 DEF SaveArtifact, ReleaseArtifact, ReleaseRow, Statement
<1>5. CASE Deliver(w)
  BY <1>5 DEF Deliver
<1>6. CASE SmtpReplied(w) \/ SmtpFailed(w) \/ SmtpAbandoned(w)
  BY <1>6 DEF SmtpReplied, SmtpFailed, SmtpAbandoned
<1>7. QED
  BY <1>1, <1>2, <1>3, <1>4, <1>5, <1>6 DEF Work

(* What a statement for one ID leaves alone: the rows of all others.       *)
LEMMA EffectFrame ==
  ASSUME LedgerTypeOK, NEW id \in Ids, NEW token, NEW row,
         \/ InsertOrIgnore(id)
         \/ UpdateRow(id, row)
         \/ UpsertArtifact(id, token)
         \/ DeleteArtifact(id)
         \/ DeleteRow(id)
         \/ UNCHANGED ledger,
         NEW i \in Ids \ {id}
  PROVE  rows'[i] = rows[i] /\ artifacts'[i] = artifacts[i] /\ cleared'[i] = cleared[i]
<1>1. CASE InsertOrIgnore(id)
  BY <1>1 DEF InsertOrIgnore, LedgerTypeOK
<1>2. CASE UpdateRow(id, row)
  BY <1>2 DEF UpdateRow, LedgerTypeOK
<1>3. CASE UpsertArtifact(id, token) \/ DeleteArtifact(id)
  BY <1>3 DEF UpsertArtifact, DeleteArtifact, LedgerTypeOK
<1>4. CASE DeleteRow(id)
  BY <1>4 DEF DeleteRow, LedgerTypeOK
<1>5. CASE UNCHANGED ledger
  BY <1>5 DEF ledger
<1>6. QED
  BY <1>1, <1>2, <1>3, <1>4, <1>5

(* The statement a worker's step runs, if it runs one.                     *)
LEMMA WorkEffect ==
  ASSUME NEW w \in Workers, Work(w)
  PROVE  \/ InsertOrIgnore(Id(w)) /\ Claim(w)
         \/ /\ MarkFounder(w) \/ Mark(w)
            /\ \E row : UpdateRow(Id(w), row)
         \/ UpsertArtifact(Id(w), job[w].token) /\ SaveArtifact(w)
         \/ DeleteArtifact(Id(w)) /\ ReleaseArtifact(w)
         \/ DeleteRow(Id(w)) /\ ReleaseRow(w)
         \/ UNCHANGED ledger
<1>1. CASE Claim(w) \/ FounderCheck(w)
  BY <1>1 DEF Claim, FounderCheck, Statement
<1>2. CASE MarkFounder(w) \/ Mark(w)
  BY <1>2 DEF MarkFounder, Mark, MarkProcessed, Statement
<1>3. CASE SaveArtifact(w) \/ ReleaseArtifact(w) \/ ReleaseRow(w)
  BY <1>3 DEF SaveArtifact, ReleaseArtifact, ReleaseRow, Statement
<1>4. CASE Build(w) \/ BuildFails(w) \/ Deliver(w) \/ SmtpReplied(w) \/ SmtpFailed(w) \/ SmtpAbandoned(w)
  BY <1>4 DEF Build, BuildFails, Deliver, SmtpReplied, SmtpFailed, SmtpAbandoned, Inside
<1>5. QED
  BY <1>1, <1>2, <1>3, <1>4 DEF Work

(* A fault of one kind is no deletion.                                     *)
LEMMA FaultFrame ==
  ASSUME TypeOK, NEW kind \in FaultKinds \ {"admin"}, Fault(kind)
  PROVE  faults'["admin"] = faults["admin"]
<1> "total" \in Budgets /\ kind \in Budgets /\ "admin" \in Budgets /\ kind # "admin"
    /\ faults \in [Budgets -> Nat]
  BY DEF Budgets, FaultKinds, TypeOK
<1> QED
  BY DEF Fault

LEMMA EndingFrame ==
  ASSUME TypeOK, NEW w \in Workers, Succeeds(w) \/ Refused(w) \/ Interrupted(w)
  PROVE  /\ \A v \in Workers \ {w} : cancelled'[v] = cancelled[v]
         /\ cancelled[w] => cancelled'[w]
         /\ faults'["admin"] = faults["admin"]
<1> {"store", "cancel"} \subseteq FaultKinds \ {"admin"}
  BY DEF FaultKinds
<1>1. CASE Succeeds(w)
  BY <1>1 DEF Succeeds
<1>2. CASE Refused(w)
  BY <1>2, FaultFrame DEF Refused
<1>3. CASE Interrupted(w)
  BY <1>3, FaultFrame DEF Interrupted, TypeOK
<1>4. QED
  BY <1>1, <1>2, <1>3

(* A step of a worker leaves everything alone but itself, the rows of its  *)
(* own ID, the messages and faults of other kinds than deletions.          *)
LEMMA WorkFrame ==
  ASSUME TypeOK, NEW w \in Workers, Work(w)
  PROVE  /\ \A v \in Workers \ {w} :
              pc'[v] = pc[v] /\ job'[v] = job[v] /\ cancelled'[v] = cancelled[v]
         /\ cancelled[w] => cancelled'[w]
         /\ \A id \in Ids \ {Id(w)} :
              rows'[id] = rows[id] /\ artifacts'[id] = artifacts[id] /\ cleared'[id] = cleared[id]
         /\ faults'["admin"] = faults["admin"]
         /\ mailed' = mailed /\ adminId' = adminId
<1>1. Id(w) \in Ids /\ LedgerTypeOK
  BY WorkEdge, BusyJob DEF TypeOK
<1>2. \A v \in Workers \ {w} : pc'[v] = pc[v] /\ job'[v] = job[v]
  BY WorkEdge, MoveFrame DEF Edge, Return, Claimed, Build, Deliver
<1>3. \A id \in Ids \ {Id(w)} :
        rows'[id] = rows[id] /\ artifacts'[id] = artifacts[id] /\ cleared'[id] = cleared[id]
  BY <1>1, WorkEffect, EffectFrame
<1>4. CASE \/ Claim(w) \/ FounderCheck(w) \/ MarkFounder(w) \/ Mark(w)
           \/ SaveArtifact(w) \/ ReleaseArtifact(w) \/ ReleaseRow(w)
  <2>1. Succeeds(w) \/ Refused(w) \/ Interrupted(w)
    BY <1>4 DEF Claim, FounderCheck, MarkFounder, Mark, MarkProcessed, SaveArtifact,
                ReleaseArtifact, ReleaseRow, Statement
  <2>2. mailed' = mailed /\ adminId' = adminId
    BY <1>4 DEF Claim, FounderCheck, MarkFounder, Mark, MarkProcessed, SaveArtifact,
                ReleaseArtifact, ReleaseRow, Statement, post
  <2>3. QED
    BY <1>2, <1>3, <2>1, <2>2, EndingFrame
<1>5. CASE Build(w) \/ BuildFails(w) \/ Deliver(w) \/ SmtpReplied(w) \/ SmtpFailed(w) \/ SmtpAbandoned(w)
  <2>1. cancelled' = cancelled /\ mailed' = mailed /\ adminId' = adminId
    BY <1>5 DEF Build, BuildFails, Deliver, SmtpReplied, SmtpFailed, SmtpAbandoned, Inside, post
  <2>2. faults' = faults \/ Fault("build") \/ Fault("smtp")
    BY <1>5 DEF Build, BuildFails, Deliver, SmtpReplied, SmtpFailed, SmtpAbandoned
  <2>3. {"build", "smtp"} \subseteq FaultKinds \ {"admin"}
    BY DEF FaultKinds
  <2>4. QED
    BY <1>2, <1>3, <2>1, <2>2, <2>3, FaultFrame
<1>6. QED
  BY <1>4, <1>5 DEF Work

(* Only a delivery hands over messages, and only Build draws a token.      *)
LEMMA WorkPost ==
  ASSUME NEW w \in Workers, Work(w)
  PROVE  /\ Deliver(w) \/ wire' \subseteq wire
         /\ \A m \in wire' \ wire : m.id = Id(w)
         /\ Build(w) \/ nextToken' = nextToken
<1>1. CASE Claim(w) \/ FounderCheck(w) \/ SaveArtifact(w) \/ ReleaseArtifact(w) \/ ReleaseRow(w)
  BY <1>1 DEF Claim, FounderCheck, SaveArtifact, ReleaseArtifact, ReleaseRow, Statement, post
<1>2. CASE MarkFounder(w) \/ Mark(w)
  BY <1>2 DEF MarkFounder, Mark, MarkProcessed, Statement, post
<1>3. CASE Build(w) \/ BuildFails(w) \/ SmtpReplied(w) \/ SmtpFailed(w) \/ SmtpAbandoned(w)
  BY <1>3 DEF Build, BuildFails, SmtpReplied, SmtpFailed, SmtpAbandoned, post
<1>4. CASE Deliver(w)
  BY <1>4 DEF Deliver, MessageOf
<1>5. QED
  BY <1>1, <1>2, <1>3, <1>4 DEF Work
-----------------------------------------------------------------------------
LEMMA JobToken ==
  /\ NoJob.token = NoToken
  /\ \A reg : [NoJob EXCEPT !.reg = reg].token = NoToken
  /\ TypeOK => \A w \in Workers : job[w].token \in Nat
<1>1. NoJob.token = NoToken /\ \A reg : [NoJob EXCEPT !.reg = reg].token = NoToken
  BY DEF NoJob
<1>2. (\A j \in Job : j.token \in Nat) /\ NoToken \in Nat
  BY DEF Job, NoToken
<1>3. QED
  BY <1>1, <1>2 DEF TypeOK, RequestsTypeOK

LEMMA InitTokens == Init => TokensFresh
<1> SUFFICES ASSUME Init PROVE TokensFresh
  OBVIOUS
<1>1. \A w \in Workers : pc[w] = "idle" /\ job[w].token = NoToken
  BY JobToken DEF Init
<1>2. wire \cup mailed = {} /\ NoToken < nextToken
  BY DEF Init, NoToken
<1>3. QED
  BY <1>1, <1>2 DEF TokensFresh

(* Build draws a token nobody has, and the worker has mailed nothing yet.  *)
LEMMA BuildTokens ==
  ASSUME TypeOK, TokensFresh, NEW w \in Workers, Build(w)
  PROVE  TokensFresh'
<1> DEFINE j == [job[w] EXCEPT !.token = nextToken]
<1>1. /\ nextToken \in Nat /\ nextToken # NoToken /\ nextToken' = nextToken + 1
      /\ wire' = wire /\ mailed' = mailed /\ pc[w] = "build" /\ job[w] \in Job
  BY BusyJob DEF TypeOK, Build, At, post
<1>2. j.token = nextToken
  BY <1>1 DEF Job
<1>3. \E step \in {"save", "deliver"} : GotoWith(w, step, j)
  BY DEF Build
<1> HIDE DEF j
<1>4. /\ job'[w].token = nextToken /\ pc'[w] \in {"save", "deliver"}
      /\ \A v \in Workers \ {w} : pc'[v] = pc[v] /\ job'[v] = job[v]
  BY <1>2, <1>3, MoveFrame
<1>5. \A v \in Workers : job[v].token < nextToken
  BY DEF TokensFresh
<1>6. \A v \in Workers : job[v].token \in Nat
  BY JobToken
<1>7. \A m \in wire \cup mailed : m.token # NoToken /\ m.token < nextToken /\ m.token \in Nat
  BY DEF TokensFresh, TypeOK, Message
<1>8. \A v \in Workers : job'[v].token < nextToken'
  BY <1>1, <1>4, <1>5, <1>6
<1>9. \A v \in Workers : /\ pc'[v] = "claim" => job'[v].token = NoToken
                         /\ pc'[v] \in {"save", "deliver"} => job'[v].token # NoToken
  BY <1>1, <1>4 DEF TokensFresh
<1>10. \A u, v \in Workers : u # v /\ job'[u].token = job'[v].token => job'[v].token = NoToken
  BY <1>1, <1>4, <1>5, <1>6 DEF TokensFresh
<1>11. \A m \in wire' \cup mailed' : m.token # NoToken /\ m.token < nextToken'
  BY <1>1, <1>7
<1>12. \A v \in Workers, m \in wire' \cup mailed' : m.token = job'[v].token =>
         pc'[v] \in Settling /\ m.id = Id(v)' /\ m.gen = job'[v].gen
  BY <1>1, <1>4, <1>7 DEF TokensFresh, Id
<1>13. QED
  BY <1>8, <1>9, <1>10, <1>11, <1>12 DEF TokensFresh

(* What a delivery hands over carries the worker's own token and claim.    *)
LEMMA DeliverTokens ==
  ASSUME TypeOK, TokensFresh, NEW w \in Workers, Deliver(w)
  PROVE  TokensFresh'
<1> DEFINE decision == Decide(mode, job[w].reg.email)
           j == [job[w] EXCEPT !.action = decision.action]
           sent == {MessageOf(w, to) : to \in decision.recipients}
<1>1. nextToken' = nextToken /\ pc[w] = "deliver" /\ job[w] \in Job
  BY BusyJob DEF Deliver, At
<1>2. wire' = wire \cup sent /\ mailed' = mailed
  BY DEF Deliver
<1>3. \A m \in sent : m.id = Id(w) /\ m.gen = job[w].gen /\ m.token = job[w].token
  BY DEF MessageOf
<1>4. j.token = job[w].token /\ j.gen = job[w].gen /\ j.reg = job[w].reg
  BY <1>1 DEF Job
<1>5. \E step \in {"smtp", "mark"} : GotoWith(w, step, j)
  BY DEF Deliver
<1> HIDE DEF j, sent, decision
<1>6. /\ job'[w].token = job[w].token /\ Id(w)' = Id(w) /\ job'[w].gen = job[w].gen
      /\ pc'[w] \in {"smtp", "mark"}
      /\ \A v \in Workers \ {w} : pc'[v] = pc[v] /\ job'[v] = job[v]
  BY <1>4, <1>5, MoveFrame DEF Id
<1>7. {"smtp", "mark"} \subseteq Settling
  BY DEF Settling
<1>8. \A v \in Workers : job'[v].token = job[v].token
  BY <1>6
<1>9. job[w].token # NoToken
  BY <1>1 DEF TokensFresh
<1>10. \A m \in wire' \cup mailed' : m.token # NoToken /\ m.token < nextToken'
  BY <1>1, <1>2, <1>3, <1>9 DEF TokensFresh
<1>11. \A v \in Workers, m \in wire' \cup mailed' : m.token = job'[v].token =>
         pc'[v] \in Settling /\ m.id = Id(v)' /\ m.gen = job'[v].gen
  <2> SUFFICES ASSUME NEW v \in Workers, NEW m \in wire' \cup mailed', m.token = job'[v].token
               PROVE  pc'[v] \in Settling /\ m.id = Id(v)' /\ m.gen = job'[v].gen
    OBVIOUS
  <2>1. CASE v = w
    <3>1. m \in wire \cup mailed => m.id = Id(w) /\ m.gen = job[w].gen
      BY <1>8, <2>1 DEF TokensFresh
    <3>2. QED
      BY <1>2, <1>3, <1>6, <1>7, <2>1, <3>1
  <2>2. CASE v # w
    <3>1. m \in wire \cup mailed
      BY <1>2, <1>3, <1>8, <1>9, <2>2 DEF TokensFresh
    <3>2. QED
      BY <1>6, <1>8, <2>2, <3>1 DEF TokensFresh, Id
  <2>3. QED
    BY <2>1, <2>2
<1>12. \A v \in Workers : job'[v].token < nextToken'
  BY <1>1, <1>8 DEF TokensFresh
<1>13. \A v \in Workers : /\ pc'[v] = "claim" => job'[v].token = NoToken
                          /\ pc'[v] \in {"save", "deliver"} => job'[v].token # NoToken
  BY <1>6 DEF TokensFresh
<1>14. \A u, v \in Workers : u # v /\ job'[u].token = job'[v].token => job'[v].token = NoToken
  BY <1>8 DEF TokensFresh
<1>15. QED
  BY <1>10, <1>11, <1>12, <1>13, <1>14 DEF TokensFresh

LEMMA NextTokens == TypeOK /\ TokensFresh /\ [Next]_vars => TokensFresh'
<1> SUFFICES ASSUME TypeOK, TokensFresh, [Next]_vars PROVE TokensFresh'
  OBVIOUS
<1>1. CASE UNCHANGED vars
  BY <1>1, TokensCarried DEF vars, requests, post, Id
<1>2. ASSUME NEW w \in Workers, Work(w) PROVE TokensFresh'
  <2>1. CASE Build(w)
    BY <2>1, BuildTokens
  <2>2. CASE Deliver(w)
    BY <2>2, DeliverTokens
  <2>3. CASE ~Build(w) /\ ~Deliver(w)
    <3>1. /\ wire' \cup mailed' \subseteq wire \cup mailed /\ nextToken' = nextToken
          /\ \A v \in Workers \ {w} : pc'[v] = pc[v] /\ job'[v] = job[v]
      BY <1>2, <2>3, WorkPost, WorkFrame
    <3>2. \/ job'[w].token = NoToken /\ pc'[w] \notin {"save", "deliver"}
          \/ /\ job'[w].token = job[w].token /\ Id(w)' = Id(w) /\ job'[w].gen = job[w].gen
             /\ pc'[w] # "claim" \/ pc[w] = "claim"
             /\ pc[w] \in Settling => pc'[w] \in Settling
             /\ pc'[w] \in {"save", "deliver"} => pc[w] \in {"save", "deliver"}
      <4>1. CASE Return(w)
        BY <4>1, MoveFrame, JobToken DEF Return
      <4>2. CASE pc[w] = "claim" /\ Claimed(w)
        <5> DEFINE j == [job[w] EXCEPT !.gen = cleared[Id(w)]]
        <5>1. j.token = NoToken
          BY <4>2, BusyJob DEF TokensFresh, Job
        <5> HIDE DEF j
        <5>2. \E step \in {"founder", "build"} : GotoWith(w, step, j)
          BY <4>2 DEF Claimed, j
        <5>3. QED
          BY <5>1, <5>2, MoveFrame
      <4>3. CASE \/ pc[w] = "founder" /\ \E step \in {"markFounder", "build"} : Goto(w, step)
                 \/ pc[w] = "save" /\ Goto(w, "deliver")
                 \/ pc[w] = "smtp" /\ Goto(w, "mark")
                 \/ pc[w] \in Claiming \ {"unartifact", "unclaim"} /\ Goto(w, "unartifact")
                 \/ pc[w] = "unartifact" /\ Goto(w, "unclaim")
        BY SMTT(30), <4>3, MoveFrame DEF Settling, Id
      <4>4. QED
        BY <1>2, <2>3, <4>1, <4>2, <4>3, WorkEdge DEF Edge
    <3>3. QED
      BY <3>1, <3>2, TokensCarried DEF Id
  <2>4. QED
    BY <2>1, <2>2, <2>3
<1>3. ASSUME NEW w \in Workers, NEW reg \in Registrations, Start(w, reg) PROVE TokensFresh'
  <2> DEFINE j == [NoJob EXCEPT !.reg = reg]
  <2>1. /\ GotoWith(w, "claim", j) /\ j.token = NoToken
        /\ wire' = wire /\ mailed' = mailed /\ nextToken' = nextToken
    BY <1>3, JobToken DEF Start, post
  <2> HIDE DEF j
  <2>2. QED
    <3>1. /\ job'[w].token = NoToken /\ pc'[w] = "claim"
          /\ \A v \in Workers \ {w} : pc'[v] = pc[v] /\ job'[v] = job[v]
      BY <2>1, MoveFrame
    <3>2. QED
      BY <2>1, <3>1, TokensCarried DEF Id
<1>4. CASE \/ \E w \in Workers : Cancel(w)
           \/ \E m \in wire : SmtpAccept(m)
           \/ Admin
  <2>1. pc' = pc /\ job' = job /\ nextToken' = nextToken /\ wire' \cup mailed' = wire \cup mailed
    BY <1>4 DEF Cancel, SmtpAccept, Admin, AdminDeleteArtifact, AdminDeleteRow, AdminFails,
                requests, post
  <2>2. QED
    BY <2>1, TokensCarried DEF Id
<1>5. CASE Restart
  BY <1>5, JobToken, TokensCarried DEF Restart
<1>6. QED
  BY <1>1, <1>2, <1>3, <1>4, <1>5 DEF Next

LEMMA AlwaysTokens == Spec => [](TypeOK /\ TokensFresh)
BY InitTypeOK, NextTypeOK, InitTokens, NextTokens, PTL DEF Spec

(* Only a worker about to save its pass brings a link to life, and it has  *)
(* mailed nothing under this token yet.                                    *)
LEMMA LinksStep ==
  ASSUME TypeOK, TokensFresh, [Next]_vars, NEW m \in mailed,
         m.token # NoToken, artifacts'[m.id] = m.token
  PROVE  artifacts[m.id] = m.token
<1>1. m.id \in Ids /\ artifacts \in [Ids -> Nat]
  BY DEF TypeOK, LedgerTypeOK, Message
<1>2. ASSUME NEW id \in Ids, DeleteArtifact(id) PROVE artifacts[m.id] = m.token
  BY <1>1, <1>2 DEF DeleteArtifact
<1>3. ASSUME NEW w \in Workers, Work(w) PROVE artifacts[m.id] = m.token
  <2>1. Id(w) \in Ids
    BY <1>3, WorkEdge, BusyJob
  <2>2. CASE UpsertArtifact(Id(w), job[w].token) /\ SaveArtifact(w)
    <3>1. m.token # job[w].token
      BY <2>2 DEF TokensFresh, SaveArtifact, At, Settling
    <3>2. QED
      BY <1>1, <2>2, <3>1 DEF UpsertArtifact
  <2>3. CASE artifacts' = artifacts \/ DeleteArtifact(Id(w))
    BY <1>2, <2>1, <2>3
  <2>4. QED
    BY <1>3, <2>2, <2>3, WorkEffect DEF InsertOrIgnore, UpdateRow, DeleteRow, ledger
<1>4. CASE Admin
  BY <1>2, <1>4 DEF Admin, AdminDeleteArtifact, AdminDeleteRow, DeleteRow, AdminFails, ledger
<1>5. CASE \/ \E w \in Workers, reg \in Registrations : Start(w, reg)
           \/ \E w \in Workers : Cancel(w)
           \/ \E x \in wire : SmtpAccept(x)
           \/ Restart
           \/ UNCHANGED vars
  BY <1>5 DEF Start, Cancel, SmtpAccept, Inside, Restart, vars, ledger
<1>6. QED
  BY <1>3, <1>4, <1>5 DEF Next

(* A mailed wallet link that stopped working never works again, whatever   *)
(* requests, releases and deletions write the artifact row.                *)
THEOREM DeadLinks == Spec => DeadLinkStaysDead
<1>1. TypeOK /\ TokensFresh /\ [Next]_vars =>
        [\A m \in mailed : TokenOpens(m.id, m.token)' => TokenOpens(m.id, m.token)]_vars
  BY LinksStep DEF TokenOpens
<1>2. QED
  BY <1>1, AlwaysTokens, PTL DEF Spec, DeadLinkStaysDead
-----------------------------------------------------------------------------
(* As long as nothing is deleted, a worker past its claim finds the row,   *)
(* the stored pass and the messages of its registration in the state its   *)
(* own step says. A row that is no longer pending was recorded by a        *)
(* statement that also ended the worker's context: its release is refused. *)
Mailing == {"sent", "redirected"}

Holds(w) ==
  /\ job[w].gen = cleared[Id(w)] /\ Exists(Id(w))
  /\ pc[w] \in Preparing \cup {"smtp", "mark"} => IsPending(Id(w))
  /\ ~IsPending(Id(w)) => cancelled[w]
  /\ Walleted /\ pc[w] \in {"deliver", "smtp", "mark"} => TokenOpens(Id(w), job[w].token)
  /\ pc[w] = "smtp" => job[w].action \in Mailing
  /\ pc[w] = "mark" /\ job[w].action \in Mailing =>
       \E m \in mailed : m.id = Id(w) /\ m.gen = job[w].gen /\ m.token = job[w].token
  /\ pc[w] = "mark" /\ job[w].action \notin Mailing =>
       \A m \in wire \cup mailed : m.id = Id(w) => m.gen # job[w].gen

(* And what a recorded row says of the messages.                           *)
Stands(id) ==
  /\ rows[id].action \in Mailing =>
       \E m \in mailed : /\ m.id = id /\ m.gen = cleared[id]
                         /\ Walleted => TokenOpens(id, m.token)
  /\ rows[id].action \in Outcomes \ Mailing =>
       \A m \in wire \cup mailed : m.id = id => m.gen # cleared[id]

Ownership ==
  NothingDeleted =>
    /\ adminId = NoId
    /\ \A v, w \in Workers :
         v # w /\ pc[v] \in Claiming /\ pc[w] \in Claiming => Id(v) # Id(w)
    /\ \A w \in Workers : pc[w] \in Claiming => Holds(w)
    /\ \A id \in Ids : Stands(id)

LEMMA InitOwnership == Init => Ownership
<1> SUFFICES ASSUME Init PROVE Ownership
  OBVIOUS
<1>1. \A w \in Workers : pc[w] \notin Claiming
  BY DEF Init, Claiming, Preparing, Settling
<1>2. \A id \in Ids : rows[id].action \notin Outcomes
  BY DEF Init, LedgerInit, NoRow, Outcomes, Decided, FounderExisting
<1>3. \A id \in Ids : Stands(id)
  BY <1>2 DEF Stands, Mailing, Outcomes, Decided
<1>4. QED
  BY <1>1, <1>3 DEF Init, Ownership

(* A worker or a row that a step does not touch keeps what it holds, also  *)
(* if messages for others are handed over and messages are accepted.       *)
LEMMA HoldsCarried ==
  ASSUME NEW v \in Workers, Holds(v),
         pc'[v] = pc[v], job'[v] = job[v], cancelled[v] => cancelled'[v],
         rows'[Id(v)] = rows[Id(v)], artifacts'[Id(v)] = artifacts[Id(v)],
         cleared'[Id(v)] = cleared[Id(v)], mailed \subseteq mailed',
         \A m \in wire' \cup mailed' : m \in wire \cup mailed \/ m.id # Id(v)
  PROVE  Holds(v)'
<1>1. Id(v)' = Id(v)
  BY DEF Id
<1>2. Exists(Id(v))' = Exists(Id(v)) /\ IsPending(Id(v))' = IsPending(Id(v))
      /\ TokenOpens(Id(v), job[v].token)' = TokenOpens(Id(v), job[v].token)
  BY <1>1 DEF Exists, IsPending, TokenOpens
<1>3. QED
  BY <1>1, <1>2 DEF Holds

LEMMA StandsCarried ==
  ASSUME NEW id \in Ids, Stands(id),
         rows'[id] = rows[id], artifacts'[id] = artifacts[id], cleared'[id] = cleared[id],
         mailed \subseteq mailed',
         \A m \in wire' \cup mailed' : m \in wire \cup mailed \/ m.id # id
  PROVE  Stands(id)'
BY DEF Stands, TokenOpens

(* What a step of a worker has to establish for itself and its own row.    *)
Keeps(w) ==
  /\ pc'[w] \in Claiming => Id(w)' = Id(w) /\ Holds(w)'
  /\ pc'[w] \in Claiming /\ pc[w] \notin Claiming => ~Exists(Id(w))
  /\ pc[w] \notin Claiming /\ Exists(Id(w)) => UNCHANGED ledger
  /\ \A id \in Ids : id = Id(w) => Stands(id)'

LEMMA OwnershipCarried ==
  ASSUME TypeOK, Ownership, NothingDeleted, NEW w \in Workers, Work(w), Keeps(w)
  PROVE  Ownership'
<1>1. /\ Id(w) \in Ids
      /\ \A v \in Workers \ {w} : pc'[v] = pc[v] /\ job'[v] = job[v] /\ cancelled'[v] = cancelled[v]
      /\ \A id \in Ids \ {Id(w)} :
           rows'[id] = rows[id] /\ artifacts'[id] = artifacts[id] /\ cleared'[id] = cleared[id]
      /\ mailed' = mailed /\ adminId' = adminId
      /\ \A m \in wire' \cup mailed' : m \in wire \cup mailed \/ m.id = Id(w)
  BY WorkFrame, WorkEdge, WorkPost, BusyJob
<1>2. \A v \in Workers : pc[v] \in Claiming => Id(v) \in Ids /\ Exists(Id(v)) /\ Holds(v)
  BY BusyJob DEF Claiming, Preparing, Settling, Ownership, Holds
<1>3. ASSUME NEW v \in Workers \ {w}, pc[v] \in Claiming PROVE Holds(v)' /\ Id(v)' = Id(v)
  <2>1. CASE Id(v) # Id(w)
    BY <1>1, <1>2, <1>3, <2>1, HoldsCarried DEF Id
  <2>2. CASE Id(v) = Id(w)
    <3>1. pc[w] \notin Claiming
      BY <1>3, <2>2 DEF Ownership
    <3>2. UNCHANGED ledger
      BY <1>2, <1>3, <2>2, <3>1 DEF Keeps
    <3>3. wire' \subseteq wire
      BY <3>1, WorkPost DEF Deliver, At, Claiming, Preparing
    <3>4. QED
      BY <1>1, <1>2, <1>3, <3>2, <3>3, HoldsCarried DEF ledger, Id
  <2>3. QED
    BY <2>1, <2>2
<1>4. ASSUME NEW u \in Workers, NEW v \in Workers,
             u # v, pc'[u] \in Claiming, pc'[v] \in Claiming, Id(u)' = Id(v)'
      PROVE  FALSE
  <2>1. \A x \in {u, v} : Id(x)' = Id(x) /\ (x # w => pc[x] \in Claiming)
    BY <1>1, <1>3, <1>4 DEF Keeps
  <2>2. CASE pc[u] \in Claiming /\ pc[v] \in Claiming
    BY <1>4, <2>1, <2>2 DEF Ownership
  <2>3. CASE pc[u] \notin Claiming \/ pc[v] \notin Claiming
    BY <1>2, <1>4, <2>1, <2>3 DEF Keeps
  <2>4. QED
    BY <2>2, <2>3
<1>5. \A v \in Workers : pc'[v] \in Claiming => Holds(v)'
  BY <1>1, <1>3 DEF Keeps
<1>6. \A id \in Ids : Stands(id)'
  BY <1>1, StandsCarried DEF Keeps, Ownership
<1>7. QED
  BY <1>1, <1>4, <1>5, <1>6 DEF Ownership

(* A worker about to take a step: what it holds, and what that is.         *)
LEMMA Owner ==
  ASSUME TypeOK, ClaimsDistinct, Ownership, NothingDeleted, NEW w \in Workers, pc[w] \in Claiming
  PROVE  /\ Holds(w) /\ Stands(Id(w)) /\ Id(w) \in Ids /\ job[w] \in Job
         /\ pc[w] \in Steps \ {"idle", "claim"}
         /\ pc[w] \in Preparing =>
              \A m \in wire \cup mailed : m.id = Id(w) => m.gen # job[w].gen
<1>1. pc[w] \in Steps \ {"idle", "claim"}
  BY DEF TypeOK, RequestsTypeOK, Claiming, Preparing, Settling
<1>2. job[w] \in Job /\ Id(w) \in Ids
  BY <1>1, BusyJob
<1>3. QED
  BY <1>1, <1>2 DEF Ownership, ClaimsDistinct

(* Nothing is said of a row that is absent or pending.                     *)
LEMMA UndecidedStands ==
  ASSUME NEW id \in Ids, rows[id].action \in {"absent", "pending"}
  PROVE  Stands(id)
BY DEF Stands, Mailing, Outcomes, Decided, FounderExisting

(* A worker that returns without touching its row.                         *)
LEMMA ReturnKeeps ==
  ASSUME TypeOK, Ownership, NothingDeleted, NEW w \in Workers, Work(w), ~Deliver(w), Return(w),
         UNCHANGED ledger
  PROVE  Keeps(w)
<1>1. pc'[w] = "idle"
  BY MoveFrame DEF Return
<1>2. mailed' = mailed /\ wire' \subseteq wire
  BY WorkFrame, WorkPost
<1>3. \A id \in Ids : Stands(id)'
  BY <1>2, StandsCarried DEF ledger, Ownership
<1>4. QED
  BY <1>1, <1>3 DEF Keeps, Claiming, Preparing, Settling

(* The winner of a claim finds a pending row of its own; everyone else     *)
(* leaves what is there.                                                   *)
LEMMA ClaimKeeps ==
  ASSUME TypeOK, Ownership, NothingDeleted, NEW w \in Workers, Claim(w)
  PROVE  Keeps(w)
<1>1. /\ Work(w) /\ ~Deliver(w) /\ pc[w] = "claim" /\ job[w] \in Job /\ Id(w) \in Ids
      /\ rows \in [Ids -> Row]
  BY BusyJob DEF Claim, Deliver, At, Work, TypeOK, LedgerTypeOK
<1>2. CASE UNCHANGED ledger /\ Return(w)
  BY <1>1, <1>2, ReturnKeeps
<1>3. CASE InsertOrIgnore(Id(w)) /\ Exists(Id(w)) /\ Return(w)
  BY <1>1, <1>3, ReturnKeeps DEF InsertOrIgnore, ledger
<1>4. CASE InsertOrIgnore(Id(w)) /\ ~Exists(Id(w)) /\ (Return(w) \/ Claimed(w))
  <2>1. rows'[Id(w)] = Pending /\ cleared' = cleared
    BY <1>1, <1>4 DEF InsertOrIgnore
  <2>2. rows'[Id(w)].action = "pending"
    <3>1. Pending.action = "pending"
      BY DEF Pending
    <3>2. QED
      BY <2>1, <3>1
  <2>4. \A id \in Ids : id = Id(w) => Stands(id)'
    BY <2>2 DEF Stands, Mailing, Outcomes, Decided, FounderExisting
  <2>5. CASE Return(w)
    <3>1. pc'[w] = "idle"
      BY <2>5, MoveFrame DEF Return
    <3>2. QED
      BY <1>4, <2>4, <3>1 DEF Keeps, Claiming, Preparing, Settling
  <2>6. CASE Claimed(w)
    <3> DEFINE j == [job[w] EXCEPT !.gen = cleared[Id(w)]]
    <3>1. j.gen = cleared[Id(w)] /\ j.reg = job[w].reg
      BY <1>1 DEF Job
    <3>2. \E step \in {"founder", "build"} : GotoWith(w, step, j)
      BY <2>6 DEF Claimed
    <3> HIDE DEF j
    <3>3. pc'[w] \in {"founder", "build"} /\ job'[w].gen = cleared[Id(w)] /\ Id(w)' = Id(w)
      BY <3>1, <3>2, MoveFrame DEF Id
    <3>4. Holds(w)'
      BY <2>1, <2>2, <3>3 DEF Holds, Exists, IsPending, Preparing
    <3>5. QED
      BY <1>1, <1>4, <2>4, <3>3, <3>4 DEF Keeps, Claiming, Preparing
  <2>7. QED
    BY <1>4, <2>5, <2>6
<1>5. QED
  BY <1>2, <1>3, <1>4 DEF Claim, Statement

(* A worker that moves on within its claim, or starts to give it up, while *)
(* its row stays pending.                                                  *)
LEMMA MoveKeeps ==
  ASSUME TypeOK, ClaimsDistinct, Ownership, NothingDeleted, NEW w \in Workers, Work(w),
         pc[w] \in Claiming, pc'[w] \in Claiming,
         Id(w)' = Id(w), job'[w].gen = job[w].gen,
         rows' = rows, cleared' = cleared, IsPending(Id(w)),
         Walleted /\ pc'[w] \in {"deliver", "smtp", "mark"} => TokenOpens(Id(w), job[w].token)',
         pc'[w] = "smtp" => job'[w].action \in Mailing,
         pc'[w] = "mark" /\ job'[w].action \in Mailing =>
           \E m \in mailed' : m.id = Id(w) /\ m.gen = job[w].gen /\ m.token = job'[w].token,
         pc'[w] = "mark" /\ job'[w].action \notin Mailing =>
           \A m \in wire' \cup mailed' : m.id = Id(w) => m.gen # job[w].gen
  PROVE  Keeps(w)
<1>1. Holds(w)
  BY Owner
<1>2. IsPending(Id(w))' /\ Exists(Id(w))'
  BY DEF IsPending, Exists
<1>3. Holds(w)'
  BY <1>1, <1>2 DEF Holds
<1>4. \A id \in Ids : id = Id(w) => Stands(id)'
  BY DEF IsPending, Stands, Mailing, Outcomes, Decided, FounderExisting
<1>5. QED
  BY <1>3, <1>4 DEF Keeps

LEMMA FounderCheckKeeps ==
  ASSUME TypeOK, ClaimsDistinct, Ownership, NothingDeleted, NEW w \in Workers, FounderCheck(w)
  PROVE  Keeps(w)
<1>1. Work(w) /\ pc[w] = "founder" /\ UNCHANGED ledger
  BY DEF Work, FounderCheck, At, Statement
<1>2. PICK step \in {"markFounder", "build", "unartifact"} : Goto(w, step)
  BY DEF FounderCheck, Statement
<1>3. pc'[w] = step /\ job'[w] = job[w]
  BY <1>2, MoveFrame
<1>4. pc[w] \in Preparing /\ {pc[w], step} \subseteq Claiming
  BY <1>1 DEF Preparing, Claiming, Settling
<1>5. QED
  BY <1>1, <1>3, <1>4, Owner, MoveKeeps DEF Holds, ledger, Id

LEMMA BuildKeeps ==
  ASSUME TypeOK, ClaimsDistinct, Ownership, NothingDeleted, NEW w \in Workers, Build(w)
  PROVE  Keeps(w)
<1> DEFINE j == [job[w] EXCEPT !.token = nextToken]
<1>1. Work(w) /\ pc[w] = "build" /\ UNCHANGED ledger
  BY DEF Work, Build, At, Inside
<1>2. pc[w] \in Preparing /\ pc[w] \in Claiming /\ {"save", "deliver"} \subseteq Claiming
  BY <1>1 DEF Preparing, Claiming
<1>3. j.gen = job[w].gen /\ j.reg = job[w].reg
  BY <1>2, Owner DEF Job
<1>4. GotoWith(w, IF Walleted THEN "save" ELSE "deliver", j)
  BY DEF Build
<1> HIDE DEF j
<1>5. /\ pc'[w] = (IF Walleted THEN "save" ELSE "deliver")
      /\ job'[w].gen = job[w].gen /\ Id(w)' = Id(w)
  BY <1>3, <1>4, MoveFrame DEF Id
<1>6. QED
  BY <1>1, <1>2, <1>5, Owner, MoveKeeps DEF Holds, ledger

(* Whatever fails before anything was recorded: the row is still pending.  *)
LEMMA FailKeeps ==
  ASSUME TypeOK, ClaimsDistinct, Ownership, NothingDeleted, NEW w \in Workers,
         BuildFails(w) \/ SmtpFailed(w) \/ SmtpAbandoned(w)
  PROVE  Keeps(w)
<1>1. Work(w) /\ pc[w] \in {"build", "deliver", "smtp"} /\ UNCHANGED ledger
  BY DEF Work, BuildFails, SmtpFailed, SmtpAbandoned, At, Inside
<1>2. pc'[w] = "unartifact" /\ job'[w] = job[w]
  BY MoveFrame DEF BuildFails, SmtpFailed, SmtpAbandoned
<1>3. pc[w] \in Preparing \cup {"smtp"} /\ {pc[w], "unartifact"} \subseteq Claiming
  BY <1>1 DEF Preparing, Claiming, Settling
<1>4. QED
  BY <1>1, <1>2, <1>3, Owner, MoveKeeps DEF Holds, ledger, Id

(* A pass that is stored is the one the mail will link to.                 *)
LEMMA SaveKeeps ==
  ASSUME TypeOK, TokensFresh, ClaimsDistinct, Ownership, NothingDeleted,
         NEW w \in Workers, SaveArtifact(w)
  PROVE  Keeps(w)
<1>1. Work(w) /\ pc[w] = "save" /\ pc[w] \in Preparing /\ {pc[w], "deliver", "unartifact"} \subseteq Claiming
  BY DEF Work, SaveArtifact, At, Preparing, Claiming, Settling
<1>2. Holds(w) /\ IsPending(Id(w)) /\ Id(w) \in Ids
  BY <1>1, Owner DEF Holds
<1>3. rows' = rows /\ cleared' = cleared
  BY DEF SaveArtifact, Statement, UpsertArtifact, ledger
<1>4. CASE Goto(w, "unartifact")
  <2>1. pc'[w] = "unartifact" /\ job'[w] = job[w]
    BY <1>4, MoveFrame
  <2>2. QED
    BY <1>1, <1>2, <1>3, <2>1, MoveKeeps DEF Id
<1>5. CASE UpsertArtifact(Id(w), job[w].token) /\ Goto(w, "deliver")
  <2>1. pc'[w] = "deliver" /\ job'[w] = job[w]
    BY <1>5, MoveFrame
  <2>2. artifacts'[Id(w)] = job[w].token /\ job[w].token # NoToken
    BY <1>1, <1>2, <1>5 DEF UpsertArtifact, TypeOK, LedgerTypeOK, TokensFresh
  <2>3. TokenOpens(Id(w), job[w].token)'
    BY <2>1, <2>2 DEF TokenOpens, Id
  <2>4. QED
    BY <1>1, <1>2, <1>3, <2>1, <2>3, MoveKeeps DEF Id
<1>6. QED
  BY <1>4, <1>5 DEF SaveArtifact, Statement

(* The guard addresses somebody exactly if it decides that mail goes out.  *)
LEMMA SendMeansMailing ==
  ASSUME NEW m \in Modes, NEW a \in Addresses
  PROVE  Send(Decide(m, a)) <=> Decide(m, a).action \in Mailing
BY DEF Send, Decide, Action, Recipients, Modes, EffectiveMode, Mailing

LEMMA DeliverKeeps ==
  ASSUME TypeOK, ClaimsDistinct, Ownership, NothingDeleted, NEW w \in Workers, Deliver(w)
  PROVE  Keeps(w)
<1> DEFINE decision == Decide(mode, job[w].reg.email)
           j == [job[w] EXCEPT !.action = decision.action]
<1>1. Work(w) /\ pc[w] = "deliver" /\ UNCHANGED ledger
  BY DEF Work, Deliver, At, Inside
<1>2. pc[w] \in Preparing /\ {pc[w], "smtp", "mark"} \subseteq Claiming
  BY <1>1 DEF Preparing, Claiming, Settling
<1>3. job[w].reg.email \in Addresses /\ mode \in Modes
  BY <1>1, BusyJob, PipelineAssumption DEF TypeOK, UsableModes
<1>4. Send(decision) <=> decision.action \in Mailing
  BY <1>3, SendMeansMailing
<1>5. j.gen = job[w].gen /\ j.reg = job[w].reg /\ j.token = job[w].token /\ j.action = decision.action
  BY <1>2, Owner DEF Job
<1>6. GotoWith(w, IF Send(decision) THEN "smtp" ELSE "mark", j)
  BY DEF Deliver
<1>7. ~Send(decision) => wire' = wire /\ mailed' = mailed
  BY DEF Deliver, Send
<1> HIDE DEF j, decision
<1>8. /\ pc'[w] = (IF Send(decision) THEN "smtp" ELSE "mark")
      /\ job'[w].gen = job[w].gen /\ Id(w)' = Id(w) /\ job'[w].token = job[w].token
      /\ job'[w].action = decision.action
  BY <1>5, <1>6, MoveFrame DEF Id
<1>9. Walleted => TokenOpens(Id(w), job[w].token)'
  BY <1>1, <1>2, <1>8, Owner DEF Holds, TokenOpens, ledger
<1>10. IsPending(Id(w))
  BY <1>2, Owner DEF Holds
<1>11. CASE Send(decision)
  BY <1>1, <1>2, <1>4, <1>8, <1>9, <1>10, <1>11, MoveKeeps DEF ledger
<1>12. CASE ~Send(decision)
  <2>1. \A m \in wire' \cup mailed' : m.id = Id(w) => m.gen # job[w].gen
    BY <1>2, <1>7, <1>12, Owner
  <2>2. QED
    BY <1>1, <1>2, <1>4, <1>8, <1>9, <1>10, <1>12, <2>1, MoveKeeps DEF ledger
<1>13. QED
  BY <1>11, <1>12

(* The accepted message that ends the wait is the worker's own.            *)
LEMMA RepliedKeeps ==
  ASSUME TypeOK, TokensFresh, ClaimsDistinct, Ownership, NothingDeleted,
         NEW w \in Workers, SmtpReplied(w)
  PROVE  Keeps(w)
<1>1. /\ Work(w) /\ pc[w] = "smtp" /\ UNCHANGED ledger /\ UNCHANGED <<wire, mailed>>
      /\ {pc[w], "mark"} \subseteq Claiming
  BY DEF Work, SmtpReplied, At, Inside, post, Claiming, Settling
<1>2. pc'[w] = "mark" /\ job'[w] = job[w]
  BY MoveFrame DEF SmtpReplied
<1>3. Holds(w) /\ IsPending(Id(w)) /\ job[w].action \in Mailing
  BY <1>1, Owner DEF Holds
<1>4. \E m \in mailed' : m.id = Id(w) /\ m.gen = job[w].gen /\ m.token = job'[w].token
  BY <1>1, <1>2 DEF SmtpReplied, OwnMessage, TokensFresh
<1>5. Walleted => TokenOpens(Id(w), job[w].token)'
  BY <1>1, <1>2, <1>3 DEF Holds, TokenOpens, ledger, Id
<1>6. QED
  BY <1>1, <1>2, <1>3, <1>4, <1>5, MoveKeeps DEF ledger, Id

(* A decision is recorded over the worker's own pending row, and says what *)
(* was mailed: the message of this claim, or none.                         *)
LEMMA MarkProcessedKeeps ==
  ASSUME TypeOK, ClaimsDistinct, Ownership, NothingDeleted, NEW w \in Workers, Work(w), ~Deliver(w),
         NEW action \in Outcomes, MarkProcessed(w, action),
         \/ pc[w] = "markFounder" /\ action = FounderExisting
         \/ pc[w] = "mark" /\ action = job[w].action
  PROVE  Keeps(w)
<1> DEFINE row == [action |-> action, email |-> job[w].reg.email,
                   passType |-> job[w].reg.passType]
<1>1. {pc[w], "unartifact"} \subseteq Claiming /\ pc[w] \in Preparing \cup {"mark"}
  BY DEF Claiming, Preparing, Settling
<1>2. Holds(w) /\ Exists(Id(w)) /\ IsPending(Id(w)) /\ Id(w) \in Ids /\ job[w].gen = cleared[Id(w)]
  BY <1>1, Owner DEF Holds
<1>3. mailed' = mailed /\ wire' \subseteq wire
  BY WorkFrame, WorkPost
<1>4. CASE UNCHANGED ledger /\ Goto(w, "unartifact")
  <2>1. pc'[w] = "unartifact" /\ job'[w] = job[w]
    BY <1>4, MoveFrame
  <2>2. QED
    BY <1>1, <1>2, <1>4, <2>1, MoveKeeps DEF ledger, Id
<1>5. CASE UpdateRow(Id(w), row) /\ (Return(w) \/ (Goto(w, "unartifact") /\ Interrupted(w)))
  <2>1. rows'[Id(w)].action = action /\ UNCHANGED <<artifacts, cleared>>
    <3>1. row.action = action
      OBVIOUS
    <3>2. rows'[Id(w)] = row
      BY <1>2, <1>5 DEF UpdateRow, TypeOK, LedgerTypeOK
    <3>3. QED
      BY <1>5, <3>1, <3>2 DEF UpdateRow
  <2>2. action \in Mailing =>
          \E m \in mailed : m.id = Id(w) /\ m.gen = job[w].gen /\ m.token = job[w].token
    BY <1>2 DEF Holds, Mailing, FounderExisting
  <2>3. action \in Mailing /\ Walleted => TokenOpens(Id(w), job[w].token)
    BY <1>2 DEF Holds, Mailing, FounderExisting
  <2>4. action \notin Mailing =>
          \A m \in wire \cup mailed : m.id = Id(w) => m.gen # job[w].gen
    BY <1>1, <1>2, Owner DEF Holds, Preparing
  <2>5. \A id \in Ids : id = Id(w) => Stands(id)'
    BY <1>2, <1>3, <2>1, <2>2, <2>3, <2>4 DEF Stands, TokenOpens
  <2>6. CASE Return(w)
    <3>1. pc'[w] = "idle"
      BY <2>6, MoveFrame DEF Return
    <3>2. QED
      BY <1>1, <2>5, <3>1 DEF Keeps, Claiming, Preparing, Settling
  <2>7. CASE Goto(w, "unartifact") /\ Interrupted(w)
    <3>1. pc'[w] = "unartifact" /\ job'[w] = job[w] /\ Id(w)' = Id(w)
      BY <2>7, MoveFrame DEF Id
    <3>2. cancelled'[w]
      BY <2>7 DEF Interrupted, TypeOK
    <3>3. Exists(Id(w))'
      BY <2>1, <3>1 DEF Exists, Outcomes, Decided, FounderExisting
    <3>4. Holds(w)'
      BY <1>2, <2>1, <3>1, <3>2, <3>3 DEF Holds, Preparing
    <3>5. QED
      BY <1>1, <2>5, <3>1, <3>4 DEF Keeps
  <2>8. QED
    BY <1>5, <2>6, <2>7
<1>6. \/ UNCHANGED ledger /\ Goto(w, "unartifact")
      \/ UpdateRow(Id(w), row) /\ (Return(w) \/ (Goto(w, "unartifact") /\ Interrupted(w)))
  BY <1>2, Zenon DEF MarkProcessed, Statement
<1>7. QED
  BY <1>4, <1>5, <1>6

LEMMA MarkKeeps ==
  ASSUME TypeOK, ClaimsDistinct, Ownership, NothingDeleted, NEW w \in Workers,
         MarkFounder(w) \/ Mark(w)
  PROVE  Keeps(w)
<1>1. Work(w) /\ ~Deliver(w) /\ pc[w] # "idle"
  BY DEF Work, Deliver, MarkFounder, Mark, At
<1>2. FounderExisting \in Outcomes /\ (pc[w] = "mark" => job[w].action \in Outcomes)
  BY <1>1, BusyJob DEF Outcomes
<1>3. QED
  BY <1>1, <1>2, MarkProcessedKeeps DEF MarkFounder, Mark, At

(* A release that is not refused finds the row pending: a worker that      *)
(* recorded its row has lost its context.                                  *)
LEMMA ReleaseKeeps ==
  ASSUME TypeOK, ClaimsDistinct, Ownership, NothingDeleted, NEW w \in Workers,
         ReleaseArtifact(w) \/ ReleaseRow(w)
  PROVE  Keeps(w)
<1>1. /\ Work(w) /\ ~Deliver(w) /\ pc[w] \in {"unartifact", "unclaim"}
      /\ {pc[w], "unclaim"} \subseteq Claiming
  BY DEF Work, Deliver, ReleaseArtifact, ReleaseRow, At, Claiming, Settling
<1>2. Holds(w) /\ Id(w) \in Ids
  BY <1>1, Owner
<1>3. CASE UNCHANGED ledger /\ Return(w)
  BY <1>1, <1>3, ReturnKeeps
<1>4. CASE ~cancelled[w]
  <2>1. IsPending(Id(w))
    BY <1>2, <1>4 DEF Holds
  <2>2. CASE ReleaseArtifact(w) /\ DeleteArtifact(Id(w))
    <3>1. rows' = rows /\ cleared' = cleared
      BY <2>2 DEF DeleteArtifact
    <3>2. CASE Goto(w, "unclaim")
      <4>1. pc'[w] = "unclaim" /\ job'[w] = job[w]
        BY <3>2, MoveFrame
      <4>2. QED
        BY <1>1, <2>1, <3>1, <4>1, MoveKeeps DEF Id
    <3>3. CASE Return(w)
      <4>1. pc'[w] = "idle"
        BY <3>3, MoveFrame DEF Return
      <4>2. \A id \in Ids : id = Id(w) => Stands(id)'
        BY <2>1, <3>1 DEF IsPending, Stands, Mailing, Outcomes, Decided, FounderExisting
      <4>3. QED
        BY <1>1, <4>1, <4>2 DEF Keeps, Claiming, Preparing, Settling
    <3>4. QED
      BY <2>2, <3>2, <3>3 DEF ReleaseArtifact, Statement
  <2>3. CASE ReleaseRow(w) /\ DeleteRow(Id(w))
    <3>1. pc'[w] = "idle"
      BY <2>3, MoveFrame DEF ReleaseRow, Statement, Return
    <3>2. rows'[Id(w)].action = "absent"
      <4>1. NoRow.action = "absent"
        BY DEF NoRow
      <4>2. QED
        BY <1>2, <2>3, <4>1 DEF DeleteRow, TypeOK, LedgerTypeOK
    <3>3. \A id \in Ids : id = Id(w) => Stands(id)'
      BY <3>2 DEF Stands, Mailing, Outcomes, Decided, FounderExisting
    <3>4. QED
      BY <1>1, <3>1, <3>3 DEF Keeps, Claiming, Preparing, Settling
  <2>4. QED
    BY <1>3, <2>2, <2>3 DEF ReleaseArtifact, ReleaseRow, Statement
<1>5. CASE cancelled[w]
  BY <1>3, <1>5 DEF ReleaseArtifact, ReleaseRow, Statement, Succeeds, Refused, Interrupted
<1>6. QED
  BY <1>4, <1>5

(* Without a deletion there was none before.                               *)
LEMMA AdminCounted ==
  ASSUME TypeOK, NEW id \in Ids, AdminDeleteArtifact(id)
  PROVE  ~NothingDeleted'
<1> "total" \in Budgets /\ "admin" \in Budgets /\ faults \in [Budgets -> Nat]
  BY DEF Budgets, FaultKinds, TypeOK
<1> faults'["admin"] = faults["admin"] + 1
  BY DEF AdminDeleteArtifact, Fault
<1> QED
  BY DEF NothingDeleted

(* Steps of other actors than workers.                                     *)
LEMMA QuietOwnership ==
  ASSUME Ownership, NothingDeleted, UNCHANGED ledger, adminId' = NoId, mailed \subseteq mailed',
         wire' \cup mailed' \subseteq wire \cup mailed,
         \A w \in Workers : pc'[w] \in Claiming =>
           pc'[w] = pc[w] /\ job'[w] = job[w] /\ (cancelled[w] => cancelled'[w])
  PROVE  Ownership'
<1>1. \A w \in Workers : pc'[w] \in Claiming => Id(w)' = Id(w) /\ Holds(w)'
  BY HoldsCarried DEF Ownership, ledger, Id
<1>2. \A id \in Ids : Stands(id)'
  BY StandsCarried DEF Ownership, ledger
<1>3. QED
  BY <1>1, <1>2 DEF Ownership

LEMMA NextOwnership ==
  TypeOK /\ TokensFresh /\ ClaimsDistinct /\ Ownership /\ [Next]_vars => Ownership'
<1> SUFFICES ASSUME TypeOK, TokensFresh, ClaimsDistinct, Ownership, [Next]_vars, NothingDeleted'
             PROVE  Ownership'
  BY DEF Ownership
<1>1. ASSUME NEW w \in Workers, Work(w) PROVE Ownership'
  <2>1. NothingDeleted
    BY <1>1, WorkFrame DEF NothingDeleted
  <2>2. Keeps(w)
    BY <1>1, <2>1, ClaimKeeps, FounderCheckKeeps, MarkKeeps, BuildKeeps, FailKeeps, SaveKeeps,
       DeliverKeeps, RepliedKeeps, ReleaseKeeps DEF Work
  <2>3. QED
    BY <1>1, <2>1, <2>2, OwnershipCarried
<1>2. ASSUME NEW w \in Workers, NEW reg \in Registrations, Start(w, reg) PROVE Ownership'
  <2>1. NothingDeleted /\ UNCHANGED <<ledger, adminId, wire, mailed>>
    BY <1>2 DEF Start, NothingDeleted, post
  <2>2. \A v \in Workers : pc'[v] \in Claiming =>
          pc'[v] = pc[v] /\ job'[v] = job[v] /\ cancelled'[v] = cancelled[v]
    <3> DEFINE j == [NoJob EXCEPT !.reg = reg]
    <3>1. GotoWith(w, "claim", j) /\ cancelled' = [cancelled EXCEPT ![w] = FALSE]
      BY <1>2 DEF Start
    <3> HIDE DEF j
    <3>2. pc'[w] = "claim" /\ \A v \in Workers \ {w} : pc'[v] = pc[v] /\ job'[v] = job[v]
      BY <3>1, MoveFrame
    <3>3. QED
      BY <3>1, <3>2 DEF TypeOK, Claiming, Preparing, Settling
  <2>3. QED
    BY <2>1, <2>2, QuietOwnership DEF Ownership
<1>3. ASSUME NEW w \in Workers, Cancel(w) PROVE Ownership'
  <2>1. NothingDeleted /\ UNCHANGED <<ledger, adminId, wire, mailed, pc, job>>
    BY <1>3, FaultFrame DEF Cancel, NothingDeleted, post, requests, FaultKinds
  <2>2. \A v \in Workers : cancelled[v] => cancelled'[v]
    BY <1>3 DEF Cancel, TypeOK
  <2>3. QED
    BY <2>1, <2>2, QuietOwnership DEF Ownership
<1>4. ASSUME NEW m \in wire, SmtpAccept(m) PROVE Ownership'
  <2>1. NothingDeleted /\ UNCHANGED <<ledger, adminId, pc, job, cancelled>>
    BY <1>4 DEF SmtpAccept, Inside, NothingDeleted, requests
  <2>2. mailed \subseteq mailed' /\ wire' \cup mailed' \subseteq wire \cup mailed
    BY <1>4 DEF SmtpAccept
  <2>3. QED
    BY <2>1, <2>2, QuietOwnership DEF Ownership
<1>5. CASE Admin
  <2>1. CASE \E id \in Ids : AdminDeleteArtifact(id)
    BY <2>1, AdminCounted
  <2>2. CASE AdminDeleteRow \/ AdminFails
    BY <2>2 DEF AdminDeleteRow, AdminFails, Ownership, NothingDeleted
  <2>3. QED
    BY <1>5, <2>1, <2>2 DEF Admin
<1>6. CASE Restart
  <2>1. NothingDeleted /\ UNCHANGED <<ledger, mailed>> /\ adminId' = NoId /\ wire' = {}
    BY <1>6, FaultFrame DEF Restart, NothingDeleted, FaultKinds
  <2>2. \A v \in Workers : pc'[v] \notin Claiming
    BY <1>6 DEF Restart, Claiming, Preparing, Settling
  <2>3. QED
    BY <2>1, <2>2, QuietOwnership
<1>7. CASE UNCHANGED vars
  BY <1>7, QuietOwnership DEF vars, NothingDeleted, Ownership, requests, post
<1>8. QED
  BY <1>1, <1>2, <1>3, <1>4, <1>5, <1>6, <1>7 DEF Next

(* The inductive invariant of what happens without deletions.              *)
Undeleted == TypeOK /\ TokensFresh /\ ClaimsDistinct /\ Ownership

LEMMA AlwaysOwnership == Spec => []Undeleted
<1>1. Init => Undeleted
  BY InitTypeOK, InitTokens, InitClaimsDistinct, InitOwnership DEF Undeleted
<1>2. Undeleted /\ [Next]_vars => Undeleted'
  BY NextTypeOK, NextTokens, NextClaimsDistinct, NextOwnership DEF Undeleted
<1>3. QED
  BY <1>1, <1>2, PTL DEF Spec

(* Unless the administrator deletes, a winner finds its row in the ledger  *)
(* until its request returns, and is alone with it.                        *)
THEOREM Winner == Spec => []WinnerOwnsRow
<1>1. Undeleted => WinnerOwnsRow
  BY DEF Undeleted, Ownership, Holds, WinnerOwnsRow
<1>2. QED
  BY <1>1, AlwaysOwnership, PTL

(* Unless the administrator deletes, what is recorded as sent was accepted *)
(* for this very claim, and its wallet link works.                         *)
THEOREM SentWasMailed == Spec => []SentMeansMailed
<1>1. Undeleted => SentMeansMailed
  BY DEF Undeleted, Ownership, Stands, Mailing, SentMeansMailed, Walleted
<1>2. QED
  BY <1>1, AlwaysOwnership, PTL

(* Unless the administrator deletes, nothing is ever mailed for a claim    *)
(* whose row records that nothing was, in whatever mode the process runs.  *)
THEOREM SuppressedForGood == Spec => []SuppressedStaysSuppressed
<1>1. Undeleted => SuppressedStaysSuppressed
  BY DEF Undeleted, Ownership, Stands, Mailing, SuppressedStaysSuppressed
<1>2. QED
  BY <1>1, AlwaysOwnership, PTL

(* No step changes a recorded row: no claim inserts over it, no worker     *)
(* records over a row that is not pending, and no release gets through.    *)
LEMMA RecordedStep ==
  ASSUME Undeleted, [Next]_vars, NothingDeleted, NEW id \in Ids, Recorded(id)
  PROVE  rows'[id] = rows[id]
<1> USE DEF Undeleted
<1>1. Exists(id) /\ ~IsPending(id)
  BY DEF Recorded, Exists, IsPending, Outcomes, Decided, FounderExisting
<1>2. ASSUME NEW w \in Workers, Work(w) PROVE rows'[id] = rows[id]
  <2>1. CASE Id(w) # id
    BY <1>2, <2>1, WorkFrame
  <2>2. CASE Id(w) = id
    <3>1. CASE InsertOrIgnore(Id(w))
      BY <1>1, <2>2, <3>1 DEF InsertOrIgnore
    <3>2. ~MarkFounder(w) /\ ~Mark(w)
      BY <1>1, <2>2, Owner DEF MarkFounder, Mark, At, Holds, Claiming, Preparing, Settling
    <3>3. CASE DeleteRow(Id(w)) /\ ReleaseRow(w)
      <4>1. cancelled[w]
        BY <1>1, <2>2, <3>3, Owner DEF ReleaseRow, At, Holds, Claiming, Settling
      <4>2. QED
        BY <3>3, <4>1 DEF ReleaseRow, Statement, Succeeds, Refused, Interrupted, ledger
    <3>4. QED
      BY <1>2, <3>1, <3>2, <3>3, WorkEffect DEF UpsertArtifact, DeleteArtifact, ledger
  <2>3. QED
    BY <2>1, <2>2
<1>3. CASE Admin
  BY <1>3 DEF Admin, AdminDeleteArtifact, DeleteArtifact, AdminDeleteRow, AdminFails, Ownership, ledger
<1>4. CASE \/ \E w \in Workers, reg \in Registrations : Start(w, reg)
           \/ \E w \in Workers : Cancel(w)
           \/ \E m \in wire : SmtpAccept(m)
           \/ Restart
           \/ UNCHANGED vars
  BY <1>4 DEF Start, Cancel, SmtpAccept, Inside, Restart, vars, ledger
<1>5. QED
  BY <1>2, <1>3, <1>4 DEF Next

(* A recorded decision stays, unless the administrator deletes.            *)
THEOREM RecordsStay == Spec => RecordedStable
<1>1. Undeleted /\ [Next]_vars =>
        [\A id \in Ids : NothingDeleted /\ Recorded(id) => rows'[id] = rows[id]]_vars
  BY RecordedStep
<1>2. QED
  BY <1>1, AlwaysOwnership, PTL DEF Spec, RecordedStable
-----------------------------------------------------------------------------
(* Founders. A registration is live while a message of its standing claim  *)
(* is on its way or accepted, and stuck when its row is pending with no    *)
(* request left to record or release it.                                   *)
Founders == {reg \in Registrations : reg.passType = "founder"}

SamePerson(f, g) == f.email = g.email /\ f.id # g.id

Live(id)  == \E m \in wire \cup mailed : m.id = id /\ m.gen = cleared[id]
Stuck(id) == IsPending(id) /\ \A w \in Workers : pc[w] \in Claiming => Id(w) # id

(* Requests at work are on one registration of a founder at a time; what   *)
(* is on record of a founder is found by the look-up; who has looked and   *)
(* not mailed yet still finds no other registration of the person; every   *)
(* message is for a registration; and of two live registrations of one     *)
(* person one is stuck, so that it is never recorded.                      *)
TakenInTurn ==
  \A v, w \in Workers :
    /\ pc[v] # "idle" /\ job[v].reg \in Founders
    /\ pc[w] # "idle" /\ job[w].reg \in Founders
    => ~SamePerson(job[v].reg, job[w].reg)

OnRecord ==
  \A f \in Founders : Recorded(f.id) =>
    rows[f.id].email = f.email /\ rows[f.id].passType = "founder"

NoneFound ==
  \A w \in Workers, f \in Founders :
    /\ pc[w] \in {"build", "save", "deliver"} /\ job[w].reg \in Founders
    /\ SamePerson(job[w].reg, f)
    => ~Recorded(f.id)

Addressed ==
  \A m \in wire \cup mailed : \E reg \in Registrations :
    m.id = reg.id /\ m.email = reg.email /\ m.passType = reg.passType

OneLive ==
  \A f, g \in Founders :
    SamePerson(f, g) /\ Live(f.id) /\ Live(g.id) => Stuck(f.id) \/ Stuck(g.id)

InOrder == TakenInTurn /\ OnRecord /\ NoneFound /\ Addressed /\ OneLive

(* One ID stands for one founder: offered with other contents, a late      *)
(* request could record the founder's row as somebody else's.              *)
OneContent == \A f \in Founders, reg \in Registrations : reg.id = f.id => reg = f

(* Registrations are what they are offered as. *)
LEMMA AtWork ==
  ASSUME TypeOK, NEW w \in Workers, pc[w] # "idle"
  PROVE  job[w].reg \in Registrations /\ Id(w) = job[w].reg.id /\ Id(w) \in Ids
BY BusyJob DEF Job, Id

LEMMA FounderType == \A f \in Founders : f \in Registrations /\ f.id \in Ids
BY PipelineAssumption DEF Founders, Registration

(* How a worker that is not idle got where it is.                          *)
LEMMA WorkerStep ==
  ASSUME TypeOK, Next, NEW w \in Workers, pc'[w] # "idle"
  PROVE  \/ pc'[w] = pc[w] /\ job'[w] = job[w]
         \/ pc'[w] = "claim" /\ \E reg \in Registrations : Start(w, reg) /\ job'[w].reg = reg
         \/ Work(w) /\ Edge(w) /\ pc[w] # "idle" /\ job'[w].reg = job[w].reg
<1>1. ASSUME NEW v \in Workers, Work(v)
      PROVE  \/ v # w /\ pc'[w] = pc[w] /\ job'[w] = job[w]
             \/ v = w /\ Edge(w) /\ pc[w] # "idle" /\ job'[w].reg = job[w].reg
  <2>1. CASE v # w
    BY <1>1, <2>1, WorkFrame
  <2>2. CASE v = w
    <3>1. Edge(w) /\ pc[w] # "idle" /\ job[w] \in Job
      BY <1>1, <2>2, WorkEdge, BusyJob
    <3>2. ~Return(w)
      BY MoveFrame DEF Return
    <3>3. job \in [Workers -> Job \cup {NoJob}]
      BY DEF TypeOK, RequestsTypeOK
    <3>4. job'[w].reg = job[w].reg
      <4>1. CASE Claimed(w)
        BY <3>1, <3>3, <4>1 DEF Claimed, GotoWith, Job
      <4>2. CASE Build(w)
        BY <3>1, <3>3, <4>2 DEF Build, GotoWith, Job
      <4>3. CASE Deliver(w)
        BY <3>1, <3>3, <4>3 DEF Deliver, GotoWith, Job
      <4>4. CASE \E step : Goto(w, step)
        BY <4>4, MoveFrame
      <4>5. QED
        BY <3>1, <3>2, <4>1, <4>2, <4>3, <4>4 DEF Edge
    <3>5. QED
      BY <2>2, <3>1, <3>4
  <2>3. QED
    BY <2>1, <2>2
<1>2. ASSUME NEW v \in Workers, NEW reg \in Registrations, Start(v, reg)
      PROVE  \/ pc'[w] = pc[w] /\ job'[w] = job[w]
             \/ v = w /\ pc'[w] = "claim" /\ job'[w].reg = reg
  <2> DEFINE j == [NoJob EXCEPT !.reg = reg]
  <2>1. j.reg = reg
    BY DEF NoJob
  <2>2. GotoWith(v, "claim", j)
    BY <1>2 DEF Start
  <2> HIDE DEF j
  <2>3. QED
    BY <2>1, <2>2, MoveFrame
<1>3. CASE \/ \E v \in Workers : Cancel(v)
           \/ \E m \in wire : SmtpAccept(m)
           \/ Admin
  BY <1>3 DEF Cancel, SmtpAccept, Admin, AdminDeleteArtifact, AdminDeleteRow, AdminFails, requests
<1>4. ~Restart
  BY DEF Restart
<1>5. QED
  BY <1>1, <1>2, <1>3, <1>4 DEF Next

(* What one step can do to the row of an ID.                               *)
Inserted(i) == ~Exists(i) /\ rows'[i] = Pending /\ cleared'[i] = cleared[i]
Deleted(i)  == Exists(i) /\ rows'[i] = NoRow /\ cleared'[i] = cleared[i] + 1
Marked(i)   ==
  /\ Exists(i) /\ cleared'[i] = cleared[i]
  /\ \E w \in Workers :
       /\ pc[w] \in {"markFounder", "mark"} /\ Id(w) = i
       /\ rows'[i].email = job[w].reg.email /\ rows'[i].passType = job[w].reg.passType

LEMMA RowStep ==
  ASSUME TypeOK, Next, NEW i \in Ids
  PROVE  \/ rows'[i] = rows[i] /\ cleared'[i] = cleared[i]
         \/ Inserted(i) \/ Deleted(i) \/ Marked(i)
<1>1. rows \in [Ids -> Row] /\ cleared \in [Ids -> Nat]
  BY DEF TypeOK, LedgerTypeOK
<1>2. ~Exists(i) => rows[i] = NoRow
  <2>1. \A row \in RecordedRow : row.action # "absent"
    BY DEF RecordedRow, Outcomes, Decided, FounderExisting
  <2>2. Pending.action # "absent"
    BY DEF Pending
  <2>3. QED
    BY <1>1, <2>1, <2>2 DEF Exists, Row
<1>3. ASSUME NEW id \in Ids, DeleteRow(id)
      PROVE  (rows'[i] = rows[i] /\ cleared'[i] = cleared[i]) \/ Deleted(i)
  BY <1>1, <1>2, <1>3 DEF DeleteRow, Deleted
<1>4. ASSUME NEW w \in Workers, Work(w)
      PROVE  \/ rows'[i] = rows[i] /\ cleared'[i] = cleared[i]
             \/ Inserted(i) \/ Deleted(i) \/ Marked(i)
  <2>1. Id(w) \in Ids /\ LedgerTypeOK
    BY <1>4, WorkEdge, BusyJob DEF TypeOK
  <2>2. CASE Id(w) # i
    BY <1>4, <2>2, WorkFrame
  <2>3. CASE Id(w) = i /\ InsertOrIgnore(Id(w))
    BY <1>1, <2>3 DEF InsertOrIgnore, Inserted
  <2>4. CASE Id(w) = i /\ (MarkFounder(w) \/ Mark(w))
    <3>1. pc[w] \in {"markFounder", "mark"}
      BY <2>4 DEF MarkFounder, Mark, At
    <3>2. PICK action : \/ UNCHANGED ledger
                        \/ UpdateRow(i, [action |-> action, email |-> job[w].reg.email,
                                         passType |-> job[w].reg.passType])
      BY <2>4 DEF MarkFounder, Mark, MarkProcessed, Statement
    <3> DEFINE row == [action |-> action, email |-> job[w].reg.email,
                       passType |-> job[w].reg.passType]
    <3>3. row.email = job[w].reg.email /\ row.passType = job[w].reg.passType
      OBVIOUS
    <3> HIDE DEF row
    <3>4. CASE UpdateRow(i, row)
      BY <1>1, <2>4, <3>1, <3>3, <3>4 DEF UpdateRow, Marked
    <3>5. CASE UNCHANGED ledger
      BY <3>5 DEF ledger
    <3>6. QED
      BY <3>2, <3>4, <3>5 DEF row
  <2>5. CASE DeleteRow(Id(w))
    BY <1>3, <2>1, <2>5
  <2>6. CASE UpsertArtifact(Id(w), job[w].token) \/ DeleteArtifact(Id(w)) \/ UNCHANGED ledger
    BY <2>6 DEF UpsertArtifact, DeleteArtifact, ledger
  <2>7. QED
    BY <1>4, <2>2, <2>3, <2>4, <2>5, <2>6, WorkEffect
<1>5. CASE Admin
  <2>1. CASE \E id \in Ids : AdminDeleteArtifact(id)
    BY <2>1 DEF AdminDeleteArtifact, DeleteArtifact
  <2>2. CASE AdminDeleteRow
    BY <1>3, <2>2 DEF AdminDeleteRow, TypeOK
  <2>3. CASE AdminFails
    BY <2>3 DEF AdminFails, ledger
  <2>4. QED
    BY <1>5, <2>1, <2>2, <2>3 DEF Admin
<1>6. CASE \/ \E w \in Workers, reg \in Registrations : Start(w, reg)
           \/ \E w \in Workers : Cancel(w)
           \/ \E m \in wire : SmtpAccept(m)
           \/ Restart
  BY <1>6 DEF Start, Cancel, SmtpAccept, Inside, Restart, ledger
<1>7. QED
  BY <1>4, <1>5, <1>6 DEF Next

(* A message is handed over by a delivery, for what its worker holds.      *)
LEMMA MessageStep ==
  ASSUME TypeOK, Next
  PROVE  \A m \in wire' \cup mailed' :
           \/ m \in wire \cup mailed
           \/ \E w \in Workers : /\ Deliver(w) /\ m.id = Id(w) /\ m.email = job[w].reg.email
                                 /\ m.passType = job[w].reg.passType
<1>1. ASSUME NEW w \in Workers, Work(w) PROVE Deliver(w) \/ wire' \cup mailed' \subseteq wire \cup mailed
  BY <1>1, WorkFrame, WorkPost
<1>2. ASSUME NEW w \in Workers, Deliver(w)
      PROVE  \A m \in wire' \cup mailed' :
               \/ m \in wire \cup mailed
               \/ m.id = Id(w) /\ m.email = job[w].reg.email /\ m.passType = job[w].reg.passType
  BY <1>2 DEF Deliver, MessageOf
<1>3. CASE \/ \E w \in Workers, reg \in Registrations : Start(w, reg)
           \/ \E w \in Workers : Cancel(w)
           \/ \E m \in wire : SmtpAccept(m)
           \/ Admin
           \/ Restart
  BY <1>3 DEF Start, Cancel, SmtpAccept, Admin, AdminDeleteArtifact, AdminDeleteRow, AdminFails,
              Restart, post
<1>4. QED
  BY <1>1, <1>2, <1>3 DEF Next

(* A registration comes to life only by a delivery.                        *)
LEMMA LiveStep ==
  ASSUME TypeOK, ClaimsDistinct, Next, NEW i \in Ids, Live(i)'
  PROVE  \/ \E w \in Workers : Deliver(w) /\ Id(w) = i
         \/ Live(i) /\ cleared'[i] = cleared[i]
<1>1. PICK m \in wire' \cup mailed' : m.id = i /\ m.gen = cleared'[i]
  BY DEF Live
<1>2. CASE m \in wire \cup mailed
  <2>1. Granted(i, m.gen) /\ m.gen \in Nat /\ cleared[i] \in Nat
    BY <1>1, <1>2 DEF ClaimsDistinct, TypeOK, Message, LedgerTypeOK
  <2>2. cleared'[i] = cleared[i]
    <3>1. cleared'[i] # cleared[i] + 1
      BY <1>1, <2>1 DEF Granted
    <3>2. QED
      BY <3>1, RowStep DEF Inserted, Deleted, Marked
  <2>3. QED
    BY <1>1, <1>2, <2>2 DEF Live
<1>3. CASE m \notin wire \cup mailed
  BY <1>1, <1>3, MessageStep
<1>4. QED
  BY <1>2, <1>3

(* What is stuck stays so, until the row is deleted and the registration   *)
(* is no longer live.                                                      *)
LEMMA StuckStep ==
  ASSUME TypeOK, ClaimsDistinct, Next, NEW i \in Ids, Stuck(i), cleared'[i] = cleared[i]
  PROVE  Stuck(i)'
<1>1. Exists(i) /\ cleared[i] \in Nat /\ Pending.action = "pending"
  BY DEF Stuck, IsPending, Exists, TypeOK, LedgerTypeOK, Pending
<1>2. IsPending(i)'
  <2>1. ~Marked(i)
    BY DEF Marked, Stuck, Claiming, Preparing, Settling
  <2>2. QED
    BY <1>1, <2>1, RowStep DEF Inserted, Deleted, Stuck, IsPending
<1>3. ASSUME NEW w \in Workers, pc'[w] \in Claiming, Id(w)' = i PROVE FALSE
  <2>1. pc'[w] \notin {"idle", "claim"}
    BY <1>3 DEF Claiming, Preparing, Settling
  <2>2. Work(w) /\ Edge(w) /\ Id(w) = i /\ pc[w] # "idle"
    BY <1>3, <2>1, WorkerStep DEF Stuck, Id
  <2>3. pc[w] = "claim"
    BY <2>2 DEF Stuck, Steps, TypeOK, RequestsTypeOK
  <2>4. Claim(w)
    BY <2>2, <2>3 DEF Work, Claim, FounderCheck, MarkFounder, Build, BuildFails, SaveArtifact,
         Deliver, SmtpReplied, SmtpFailed, SmtpAbandoned, Mark, ReleaseArtifact, ReleaseRow, At
  <2>5. Return(w)
    BY <1>1, <2>2, <2>4 DEF Claim, Statement
  <2>6. QED
    BY <2>1, <2>5, MoveFrame DEF Return
<1>4. QED
  BY <1>2, <1>3 DEF Stuck

LEMMA InitInOrder == Init => InOrder
<1> SUFFICES ASSUME Init PROVE InOrder
  OBVIOUS
<1>1. \A id \in Ids : ~Recorded(id)
  BY DEF Init, LedgerInit, NoRow, Recorded, Outcomes, Decided, FounderExisting
<1>2. QED
  BY <1>1, FounderType DEF Init, InOrder, TakenInTurn, OnRecord, NoneFound, Addressed, OneLive, Live

(* A request is started in turn, and works on what it was started for.     *)
LEMMA TurnsKept ==
  ASSUME TypeOK, TakenInTurn, FeedNext
  PROVE  TakenInTurn'
<1>1. Next
  BY DEF FeedNext, Next
<1> SUFFICES ASSUME NEW v \in Workers, NEW w \in Workers,
                    pc'[v] # "idle", job'[v].reg \in Founders,
                    pc'[w] # "idle", job'[w].reg \in Founders
             PROVE  ~SamePerson(job'[v].reg, job'[w].reg)
  BY DEF TakenInTurn, Founders
<1>2. CASE \E u \in Workers, reg \in Registrations : Start(u, reg) /\ InTurn(reg)
  <2>1. PICK u \in Workers, reg \in Registrations : Start(u, reg) /\ InTurn(reg)
    BY <1>2
  <2> DEFINE j == [NoJob EXCEPT !.reg = reg]
  <2>2. j.reg = reg
    BY DEF NoJob
  <2>3. GotoWith(u, "claim", j)
    BY <2>1 DEF Start
  <2> HIDE DEF j
  <2>4. /\ job'[u].reg = reg
        /\ \A x \in Workers \ {u} : pc'[x] = pc[x] /\ job'[x] = job[x]
    BY <2>2, <2>3, MoveFrame
  <2>5. \A x \in Workers \ {u} :
          reg \in Founders /\ pc[x] # "idle" /\ job[x].reg \in Founders
          => ~SamePerson(job[x].reg, reg) /\ ~SamePerson(reg, job[x].reg)
    BY <2>1 DEF InTurn, Founders, SamePerson
  <2>6. QED
    BY <2>4, <2>5 DEF TakenInTurn, SamePerson
<1>3. CASE \E u \in Workers : Work(u) \/ Cancel(u)
  <2>1. \A x \in {v, w} : pc[x] # "idle" /\ job'[x].reg = job[x].reg
    <3>1. ASSUME NEW u \in Workers, Work(u), NEW x \in {v, w} PROVE pc[x] # "idle" /\ job'[x].reg = job[x].reg
      <4>1. CASE x = u
        <5>1. ~\E reg \in Registrations : Start(x, reg)
          BY <3>1, <4>1, WorkEdge DEF Start, At
        <5>2. QED
          BY <1>1, <5>1, WorkerStep
      <4>2. CASE x # u
        BY <3>1, <4>2, WorkFrame
      <4>3. QED
        BY <4>1, <4>2
    <3>2. ASSUME NEW u \in Workers, Cancel(u), NEW x \in {v, w} PROVE pc[x] # "idle" /\ job'[x].reg = job[x].reg
      BY <3>2 DEF Cancel, requests
    <3>3. QED
      BY <1>3, <3>1, <3>2
  <2>2. QED
    BY <2>1 DEF TakenInTurn
<1>4. CASE (\E m \in wire : SmtpAccept(m)) \/ Admin
  <2>1. UNCHANGED <<pc, job>>
    BY <1>4 DEF SmtpAccept, Admin, AdminDeleteArtifact, AdminDeleteRow, AdminFails, requests
  <2>2. QED
    BY <2>1 DEF TakenInTurn
<1>5. ~Restart
  BY DEF Restart
<1>6. QED
  BY <1>2, <1>3, <1>4, <1>5 DEF FeedNext

(* A founder's row is recorded by a request for that founder.              *)
LEMMA RecordedBy ==
  ASSUME TypeOK, OneContent, Next, NEW f \in Founders, Recorded(f.id)'
  PROVE  \/ Recorded(f.id) /\ rows'[f.id] = rows[f.id]
         \/ /\ rows'[f.id].email = f.email /\ rows'[f.id].passType = "founder"
            /\ \E w \in Workers : pc[w] # "idle" /\ job[w].reg = f
<1>1. f \in Registrations /\ f.id \in Ids
  BY FounderType
<1>2. Pending.action = "pending" /\ NoRow.action = "absent"
  BY DEF Pending, NoRow
<1>3. ~Inserted(f.id) /\ ~Deleted(f.id)
  BY <1>2 DEF Inserted, Deleted, Recorded, Outcomes, Decided, FounderExisting
<1>4. CASE rows'[f.id] = rows[f.id]
  BY <1>4 DEF Recorded
<1>5. CASE Marked(f.id)
  <2>1. PICK w \in Workers :
          /\ pc[w] \in {"markFounder", "mark"} /\ Id(w) = f.id
          /\ rows'[f.id].email = job[w].reg.email /\ rows'[f.id].passType = job[w].reg.passType
    BY <1>5 DEF Marked
  <2>2. pc[w] # "idle" /\ job[w].reg = f
    BY <2>1, AtWork DEF OneContent
  <2>3. QED
    BY <2>1, <2>2 DEF Founders
<1>6. QED
  BY <1>1, <1>3, <1>4, <1>5, RowStep

LEMMA RecordKept ==
  ASSUME TypeOK, OneContent, OnRecord, Next
  PROVE  OnRecord'
BY RecordedBy DEF OnRecord, Founders

(* The look-up finds every recorded registration of the founder, and who   *)
(* passed it keeps the others of that founder from being recorded.         *)
LEMMA NoneFoundKept ==
  ASSUME TypeOK, OneContent, TakenInTurn, OnRecord, NoneFound, Next
  PROVE  NoneFound'
<1> SUFFICES ASSUME NEW w \in Workers, NEW f \in Founders,
                    pc'[w] \in {"build", "save", "deliver"}, job'[w].reg \in Founders,
                    SamePerson(job'[w].reg, f), Recorded(f.id)'
             PROVE  FALSE
  BY DEF NoneFound, Founders
<1>1. f.id \in Ids /\ f \in Registrations
  BY FounderType
<1>2. /\ job'[w].reg = job[w].reg /\ pc[w] # "idle"
      /\ \/ pc[w] \in {"build", "save", "deliver"}
         \/ FounderCheck(w) /\ Goto(w, "build")
  <2>1. CASE pc'[w] = pc[w] /\ job'[w] = job[w]
    BY <2>1
  <2>2. CASE Work(w) /\ Edge(w) /\ pc[w] # "idle" /\ job'[w].reg = job[w].reg
    <3>1. pc[w] # "claim"
      <4>1. CASE Claimed(w)
        <5>1. pc'[w] = "founder"
          BY <2>2, <4>1, MoveFrame DEF Claimed, Founders
        <5>2. QED
          BY <5>1
      <4>2. CASE ~Claimed(w)
        BY <2>2, <4>2, MoveFrame DEF Edge, Return, Build, Deliver, At, Claiming, Preparing, Settling
      <4>3. QED
        BY <4>1, <4>2
    <3>2. CASE pc[w] = "founder"
      <4>1. FounderCheck(w)
        BY <2>2, <3>2 DEF Work, Claim, FounderCheck, MarkFounder, Build, BuildFails, SaveArtifact,
           Deliver, SmtpReplied, SmtpFailed, SmtpAbandoned, Mark, ReleaseArtifact, ReleaseRow, At
      <4>2. PICK step \in {"markFounder", "build", "unartifact"} : Goto(w, step)
        BY <4>1 DEF FounderCheck, Statement
      <4>3. step = "build"
        BY <4>2, MoveFrame
      <4>4. QED
        BY <2>2, <4>1, <4>2, <4>3
    <3>3. CASE pc[w] # "founder"
      <4>1. ~Return(w)
        BY MoveFrame DEF Return
      <4>2. \A step : Goto(w, step) => pc'[w] = step
        BY MoveFrame
      <4>3. QED
        BY <2>2, <3>1, <3>3, <4>1, <4>2 DEF Edge, Build, Deliver, At
    <3>4. QED
      BY <3>2, <3>3
  <2>3. QED
    BY <2>1, <2>2, WorkerStep
<1>3. CASE pc[w] \in {"build", "save", "deliver"}
  <2>1. ~Recorded(f.id)
    BY <1>2, <1>3 DEF NoneFound
  <2>2. PICK v \in Workers : pc[v] # "idle" /\ job[v].reg = f
    BY <2>1, RecordedBy
  <2>3. QED
    BY <1>2, <2>2 DEF TakenInTurn
<1>4. CASE FounderCheck(w) /\ Goto(w, "build")
  <2>1. rows' = rows
    BY <1>4 DEF FounderCheck, Statement, ledger
  <2>2. Recorded(f.id) /\ rows[f.id].email = f.email /\ rows[f.id].passType = "founder"
    BY <2>1 DEF Recorded, OnRecord
  <2>3. FounderIssued(job[w].reg.email)
    BY <1>1, <1>2, <2>2 DEF FounderIssued, SamePerson, Recorded, Outcomes, Decided, FounderExisting
  <2>4. pc'[w] = "build"
    BY <1>4, MoveFrame
  <2>5. ~Goto(w, "markFounder") /\ ~Goto(w, "unartifact")
    BY SMTT(30), <2>4, MoveFrame
  <2>6. QED
    BY <1>4, <2>3, <2>5 DEF FounderCheck, Statement
<1>5. QED
  BY <1>2, <1>3, <1>4

LEMMA AddressedKept ==
  ASSUME TypeOK, Addressed, Next
  PROVE  Addressed'
<1> SUFFICES ASSUME NEW m \in wire' \cup mailed'
             PROVE  \E reg \in Registrations :
                      m.id = reg.id /\ m.email = reg.email /\ m.passType = reg.passType
  BY DEF Addressed
<1>1. CASE m \in wire \cup mailed
  BY <1>1 DEF Addressed
<1>2. CASE \E w \in Workers : /\ Deliver(w) /\ m.id = Id(w) /\ m.email = job[w].reg.email
                              /\ m.passType = job[w].reg.passType
  BY <1>2, AtWork DEF Deliver, At
<1>3. QED
  BY <1>1, <1>2, MessageStep

(* When a founder's badge is handed over, no other registration of that    *)
(* founder is at work or recorded: one that is live is stuck.              *)
LEMMA OthersStuck ==
  ASSUME TypeOK, ClaimsDistinct, OneContent, TakenInTurn, NoneFound, NEW w \in Workers, Deliver(w),
         job[w].reg \in Founders, NEW f \in Founders, SamePerson(job[w].reg, f), Live(f.id)
  PROVE  Stuck(f.id)
<1>1. /\ f.id \in Ids /\ f \in Registrations /\ rows \in [Ids -> Row] /\ pc[w] = "deliver"
      /\ cleared[f.id] \in Nat
  BY FounderType DEF TypeOK, LedgerTypeOK, Deliver, At
<1>2. ~Recorded(f.id)
  BY <1>1 DEF NoneFound
<1>3. Exists(f.id)
  BY <1>1 DEF Live, ClaimsDistinct, Granted
<1>4. IsPending(f.id)
  <2>1. Pending.action = "pending" /\ NoRow.action = "absent"
    BY DEF Pending, NoRow
  <2>2. \A row \in RecordedRow : row.action \in Outcomes
    BY DEF RecordedRow
  <2>3. QED
    BY <1>1, <1>2, <1>3, <2>1, <2>2 DEF Row, Recorded, Exists, IsPending
<1>5. ASSUME NEW v \in Workers, pc[v] \in Claiming, Id(v) = f.id PROVE FALSE
  <2>1. pc[v] # "idle" /\ job[v].reg = f
    BY <1>5, AtWork DEF Claiming, Preparing, Settling, OneContent
  <2>2. QED
    BY <1>1, <2>1 DEF TakenInTurn
<1>6. QED
  BY <1>4, <1>5 DEF Stuck

LEMMA OneLiveKept ==
  ASSUME TypeOK, ClaimsDistinct, OneContent, TakenInTurn, NoneFound, OneLive, Next
  PROVE  OneLive'
<1> SUFFICES ASSUME NEW f \in Founders, NEW g \in Founders,
                    SamePerson(f, g), Live(f.id)', Live(g.id)'
             PROVE  Stuck(f.id)' \/ Stuck(g.id)'
  BY DEF OneLive, Founders, SamePerson
<1>1. f.id \in Ids /\ g.id \in Ids /\ f.id # g.id
  BY FounderType DEF SamePerson
<1>2. ASSUME NEW x \in Founders, NEW y \in Founders, SamePerson(x, y), Live(x.id)', Live(y.id)',
             NEW w \in Workers, Deliver(w), Id(w) = x.id
      PROVE  Stuck(y.id)'
  <2>1. job[w].reg = x /\ x.id # y.id /\ y.id \in Ids
    BY <1>2, AtWork, FounderType DEF Deliver, At, OneContent, SamePerson
  <2>2. /\ Live(y.id) /\ cleared'[y.id] = cleared[y.id]
    <3>1. Work(w)
      BY <1>2 DEF Work
    <3>2. PICK m \in wire' \cup mailed' : m.id = y.id /\ m.gen = cleared'[y.id]
      BY <1>2 DEF Live
    <3>3. m \in wire \cup mailed
      BY <1>2, <2>1, <3>1, <3>2, WorkPost, WorkFrame
    <3>4. cleared' = cleared
      BY <1>2 DEF Deliver, Inside, ledger
    <3>5. QED
      BY <3>2, <3>3, <3>4 DEF Live
  <2>3. Stuck(y.id)
    BY <1>2, <2>1, <2>2, OthersStuck
  <2>4. QED
    BY <2>1, <2>2, <2>3, StuckStep
<1>3. CASE \E w \in Workers : Deliver(w) /\ Id(w) = f.id
  BY <1>2, <1>3
<1>4. CASE \E w \in Workers : Deliver(w) /\ Id(w) = g.id
  BY <1>2, <1>4 DEF SamePerson
<1>5. CASE /\ Live(f.id) /\ cleared'[f.id] = cleared[f.id]
           /\ Live(g.id) /\ cleared'[g.id] = cleared[g.id]
  BY <1>1, <1>5, StuckStep DEF OneLive
<1>6. QED
  BY <1>1, <1>3, <1>4, <1>5, LiveStep

LEMMA NextInOrder ==
  ASSUME OneContent
  PROVE  TypeOK /\ ClaimsDistinct /\ InOrder /\ [FeedNext]_vars => (TypeOK /\ ClaimsDistinct /\ InOrder)'
<1> SUFFICES ASSUME TypeOK, ClaimsDistinct, InOrder, [FeedNext]_vars
             PROVE  TypeOK' /\ ClaimsDistinct' /\ InOrder'
  OBVIOUS
<1>1. FeedNext => Next
  BY DEF FeedNext, Next
<1>2. TypeOK' /\ ClaimsDistinct'
  BY <1>1, NextTypeOK, NextClaimsDistinct
<1>3. CASE FeedNext
  BY <1>1, <1>2, <1>3, TurnsKept, RecordKept, NoneFoundKept, AddressedKept, OneLiveKept DEF InOrder
<1>4. CASE UNCHANGED vars
  <2>1. UNCHANGED <<rows, cleared, pc, job, wire, mailed>>
    BY <1>4 DEF vars, ledger, requests, post
  <2>2. QED
    BY <1>2, <2>1 DEF InOrder, TakenInTurn, OnRecord, NoneFound, Addressed,
                      OneLive, Live, Stuck, Recorded, IsPending, Id
<1>5. QED
  BY <1>2, <1>3, <1>4

(* When the registrations of a founder are taken in turn, two badges       *)
(* mailed to one founder are never both on record. The assumption says     *)
(* what the look-up takes for granted: without it a request that comes     *)
(* late can record a founder's row under another address or pass type.     *)
THEOREM OneFounder == ASSUME OneContent PROVE TurnSpec => []OneFounderOnRecord
<1> DEFINE Inv == TypeOK /\ ClaimsDistinct /\ InOrder
<1>1. Init => Inv
  BY InitTypeOK, InitClaimsDistinct, InitInOrder
<1>2. Inv /\ [FeedNext]_vars => Inv'
  BY NextInOrder
<1>3. Inv => OneFounderOnRecord
  <2> SUFFICES ASSUME Inv, NEW m1 \in mailed, NEW m2 \in mailed,
                      m1.passType = "founder", m2.passType = "founder",
                      m1.email = m2.email, m1.id # m2.id
               PROVE  \E m \in {m1, m2} : m.gen # cleared[m.id] \/ ~Recorded(m.id)
    BY DEF OneFounderOnRecord
  <2>1. PICK f \in Registrations : m1.id = f.id /\ m1.email = f.email /\ m1.passType = f.passType
    BY DEF InOrder, Addressed
  <2>2. PICK g \in Registrations : m2.id = g.id /\ m2.email = g.email /\ m2.passType = g.passType
    BY DEF InOrder, Addressed
  <2>3. f \in Founders /\ g \in Founders /\ SamePerson(f, g)
    BY <2>1, <2>2 DEF Founders, SamePerson
  <2>4. m1.gen = cleared[m1.id] /\ m2.gen = cleared[m2.id] => Stuck(f.id) \/ Stuck(g.id)
    BY <2>1, <2>2, <2>3 DEF InOrder, OneLive, Live
  <2>5. \A id : Stuck(id) => ~Recorded(id)
    BY DEF Stuck, IsPending, Recorded, Outcomes, Decided, FounderExisting
  <2>6. QED
    BY <2>1, <2>2, <2>4, <2>5
<1> HIDE DEF Inv
<1>4. QED
  BY <1>1, <1>2, <1>3, PTL DEF TurnSpec
=============================================================================
