------------------------- MODULE PipelineRefinement -------------------------
(***************************************************************************)
(* The pipeline implements DeliveryOnce, for every set of workers,         *)
(* registrations and modes and every bound on the faults: each step of a   *)
(* request, of the administrator or of a restart is a step of the promise  *)
(* or leaves it unchanged. So does it implement ClaimOwners: past its      *)
(* claim a request is the one owner of its row.                            *)
(***************************************************************************)
EXTENDS PipelineProofs, FiniteSetTheorems

entry == [id \in Ids |-> Entry(rows[id])]
dispatched == [id \in Ids |-> {m.gen : m \in {x \in mailed : x.id = id}}]

(* Row values and entries say the same about existence.                    *)
LEMMA EntryOfRow ==
  /\ Entry(NoRow) = "absent" /\ Entry(Pending) = "pending"
  /\ \A row \in RecordedRow : Entry(row) = "recorded"
  /\ \A row \in Row : /\ Entry(row) \in {"absent", "pending", "recorded"}
                      /\ Entry(row) = "absent" <=> row.action = "absent"
<1>1. "absent" \notin Outcomes /\ "pending" \notin Outcomes
  BY DEF Outcomes, Decided, FounderExisting
<1>2. Entry(NoRow) = "absent" /\ Entry(Pending) = "pending"
  BY <1>1 DEF Entry, NoRow, Pending
<1>3. \A row \in RecordedRow : row.action \in Outcomes /\ Entry(row) = "recorded"
  BY DEF Entry, RecordedRow
<1>4. NoRow.action = "absent" /\ Pending.action = "pending"
  BY DEF NoRow, Pending
<1>5. QED
  BY <1>1, <1>2, <1>3, <1>4 DEF Row

LEMMA InitRefines == Init => Once!Init
<1> SUFFICES ASSUME Init PROVE Once!Init
  OBVIOUS
<1>1. [id \in Ids |-> Entry(rows[id])] = [id \in Ids |-> "absent"]
  BY EntryOfRow DEF Init, LedgerInit
<1>2. [id \in Ids |-> {m.gen : m \in {x \in mailed : x.id = id}}] = [id \in Ids |-> {}]
  BY DEF Init
<1>3. QED
  BY <1>1, <1>2 DEF Init, LedgerInit, Once!Init

(* A statement is one step of the promise, or none.                        *)
LEMMA StatementRefines ==
  ASSUME LedgerTypeOK, NEW id \in Ids, NEW token, NEW row \in RecordedRow, UNCHANGED mailed,
         \/ InsertOrIgnore(id)
         \/ UpdateRow(id, row)
         \/ UpsertArtifact(id, token)
         \/ DeleteArtifact(id)
         \/ DeleteRow(id)
         \/ UNCHANGED ledger
  PROVE  [Once!Next]_Once!vars
<1>1. dispatched' = dispatched
  BY DEF dispatched
<1>2. rows \in [Ids -> Row] /\ cleared \in [Ids -> Nat]
  BY DEF LedgerTypeOK
<1>3. CASE InsertOrIgnore(id)
  <2>1. CASE Exists(id)
    BY <1>1, <1>3, <2>1 DEF InsertOrIgnore, Once!vars, dispatched
  <2>2. CASE ~Exists(id)
    <3>1. entry[id] = "absent" /\ entry' = [entry EXCEPT ![id] = "pending"]
      BY <1>2, <1>3, <2>2, EntryOfRow DEF InsertOrIgnore, Exists, entry
    <3>2. Once!Grant(id)
      BY <1>1, <1>3, <3>1 DEF InsertOrIgnore, Once!Grant, entry, dispatched
    <3>3. QED
      BY <3>2 DEF Once!Next
  <2>3. QED
    BY <2>1, <2>2
<1>4. CASE UpdateRow(id, row)
  <2>1. CASE ~Exists(id) \/ entry[id] = "recorded"
    <3>1. entry' = entry
      BY <1>2, <1>4, <2>1, EntryOfRow DEF UpdateRow, entry
    <3>2. QED
      BY <1>1, <1>4, <3>1 DEF UpdateRow, Once!vars, entry, dispatched
  <2>2. CASE Exists(id) /\ entry[id] # "recorded"
    <3>1. entry[id] = "pending" /\ entry' = [entry EXCEPT ![id] = "recorded"]
      BY <1>2, <1>4, <2>2, EntryOfRow DEF UpdateRow, Exists, entry
    <3>2. Once!Record(id)
      BY <1>1, <1>4, <3>1 DEF UpdateRow, Once!Record, entry, dispatched
    <3>3. QED
      BY <3>2 DEF Once!Next
  <2>3. QED
    BY <2>1, <2>2
<1>5. CASE DeleteRow(id)
  <2>1. CASE ~Exists(id)
    <3>1. entry' = entry
      BY <1>2, <1>5, <2>1, EntryOfRow DEF DeleteRow, Exists, entry
    <3>2. QED
      BY <1>1, <1>5, <2>1, <3>1 DEF DeleteRow, Once!vars, entry, dispatched
  <2>2. CASE Exists(id)
    <3>1. entry[id] # "absent" /\ entry' = [entry EXCEPT ![id] = "absent"]
      BY <1>2, <1>5, <2>2, EntryOfRow DEF DeleteRow, Exists, entry
    <3>2. Once!Clear(id)
      BY <1>1, <1>5, <2>2, <3>1 DEF DeleteRow, Once!Clear, entry, dispatched
    <3>3. QED
      BY <3>2 DEF Once!Next
  <2>3. QED
    BY <2>1, <2>2
<1>6. CASE UpsertArtifact(id, token) \/ DeleteArtifact(id) \/ UNCHANGED ledger
  BY <1>1, <1>6 DEF UpsertArtifact, DeleteArtifact, ledger, Once!vars, dispatched
<1>7. QED
  BY <1>3, <1>4, <1>5, <1>6

(* A mail spends the epoch of its claim.                                   *)
LEMMA AcceptRefines ==
  ASSUME TypeOK, ClaimsDistinct, NEW m \in wire, SmtpAccept(m)
  PROVE  [Once!Next]_Once!vars
<1>1. /\ mailed' = mailed \cup {m} /\ UNCHANGED <<rows, cleared>>
      /\ m.id \in Ids /\ m.gen \in Nat /\ cleared \in [Ids -> Nat] /\ rows \in [Ids -> Row]
  BY DEF SmtpAccept, Inside, ledger, TypeOK, LedgerTypeOK, Message
<1>2. entry' = entry
  BY <1>1 DEF entry
<1>3. CASE m \in mailed
  <2>1. dispatched' = dispatched
    BY <1>1, <1>3 DEF dispatched
  <2>2. QED
    BY <1>1, <1>2, <2>1 DEF Once!vars, entry, dispatched
<1>4. CASE m \notin mailed
  <2>1. dispatched' = [dispatched EXCEPT ![m.id] = @ \cup {m.gen}]
    BY <1>1 DEF dispatched
  <2>2. m.gen \notin dispatched[m.id]
    BY <1>1, <1>4 DEF dispatched, ClaimsDistinct
  <2>3. m.gen \in 0..cleared[m.id] /\ (m.gen < cleared[m.id] \/ (m.gen = cleared[m.id] /\ entry[m.id] # "absent"))
    BY <1>1, EntryOfRow DEF ClaimsDistinct, Granted, Exists, entry
  <2>4. Once!Dispatch(m.id, m.gen)
    BY <1>1, <1>2, <2>1, <2>2, <2>3 DEF Once!Dispatch, Once!Granted, entry, dispatched
  <2>5. QED
    BY <1>1, <2>3, <2>4 DEF Once!Next
<1>5. QED
  BY <1>3, <1>4

(* Every step of the pipeline. *)
LEMMA NextRefines ==
  ASSUME TypeOK, ClaimsDistinct, [Next]_vars
  PROVE  [Once!Next]_Once!vars
<1>1. LedgerTypeOK
  BY DEF TypeOK
<1>2. CASE UNCHANGED ledger /\ UNCHANGED mailed
  BY <1>2 DEF ledger, Once!vars
<1>3. ASSUME NEW w \in Workers, Work(w) PROVE [Once!Next]_Once!vars
  <2>1. pc[w] # "idle" /\ UNCHANGED mailed
    BY <1>3 DEF Work, Claim, FounderCheck, MarkFounder, Build, BuildFails, SaveArtifact, Deliver,
                SmtpReplied, SmtpFailed, SmtpAbandoned, Mark, MarkProcessed, ReleaseArtifact,
                ReleaseRow, At, Statement, post
  <2>2. Id(w) \in Ids
    BY <2>1, BusyJob
  <2> DEFINE row(action) == [action |-> action, email |-> job[w].reg.email,
                             passType |-> job[w].reg.passType]
  <2>3. \A action \in Outcomes : row(action) \in RecordedRow
    BY <2>1, BusyJob DEF RecordedRow
  <2>4. FounderExisting \in Outcomes /\ (pc[w] = "mark" => job[w].action \in Outcomes)
    BY <2>1, BusyJob DEF Outcomes
  <2>5. CASE MarkFounder(w) \/ Mark(w)
    <3>1. PICK action \in Outcomes : UpdateRow(Id(w), row(action)) \/ UNCHANGED ledger
      BY <2>4, <2>5 DEF MarkFounder, Mark, MarkProcessed, Statement, At
    <3>2. QED
      BY <1>1, <2>1, <2>2, <2>3, <3>1, StatementRefines
  <2>6. CASE Claim(w) \/ SaveArtifact(w) \/ ReleaseArtifact(w) \/ ReleaseRow(w)
    <3>1. \/ InsertOrIgnore(Id(w)) \/ UpsertArtifact(Id(w), job[w].token)
          \/ DeleteArtifact(Id(w)) \/ DeleteRow(Id(w)) \/ UNCHANGED ledger
      BY <2>6 DEF Claim, SaveArtifact, ReleaseArtifact, ReleaseRow, Statement
    <3>2. QED
      BY <1>1, <2>1, <2>2, <2>3, <2>4, <3>1, StatementRefines
  <2>7. CASE \/ FounderCheck(w) \/ Build(w) \/ BuildFails(w) \/ Deliver(w)
             \/ SmtpReplied(w) \/ SmtpFailed(w) \/ SmtpAbandoned(w)
    BY <1>2, <2>1, <2>7 DEF FounderCheck, Statement, Build, BuildFails, Deliver, SmtpReplied,
                            SmtpFailed, SmtpAbandoned, Inside
  <2>8. QED
    BY <1>3, <2>5, <2>6, <2>7 DEF Work
<1>4. CASE (\E id \in Ids : AdminDeleteArtifact(id)) \/ AdminDeleteRow
  <2>1. UNCHANGED mailed
    BY <1>4 DEF AdminDeleteArtifact, AdminDeleteRow, post
  <2>2. PICK id \in Ids : DeleteArtifact(id) \/ DeleteRow(id)
    BY <1>4 DEF AdminDeleteArtifact, AdminDeleteRow, TypeOK
  <2>3. CASE DeleteArtifact(id)
    BY <2>1, <2>3 DEF DeleteArtifact, Once!vars
  <2>4. CASE DeleteRow(id) /\ Exists(id)
    <3>1. rows \in [Ids -> Row]
      BY <1>1 DEF LedgerTypeOK
    <3>2. entry[id] # "absent" /\ entry' = [entry EXCEPT ![id] = "absent"]
      BY <2>4, <3>1, EntryOfRow DEF DeleteRow, Exists, entry
    <3>3. Once!Clear(id)
      BY <2>1, <2>4, <3>2 DEF DeleteRow, Once!Clear, entry
    <3>4. QED
      BY <3>3 DEF Once!Next
  <2>5. CASE DeleteRow(id) /\ ~Exists(id)
    <3>1. rows' = rows
      BY <1>1, <2>5, EntryOfRow DEF DeleteRow, Exists, LedgerTypeOK, Row, RecordedRow, Outcomes,
         Decided, FounderExisting, Pending
    <3>2. QED
      BY <2>1, <2>5, <3>1 DEF DeleteRow, Once!vars
  <2>6. QED
    BY <2>2, <2>3, <2>4, <2>5
<1>5. ASSUME NEW m \in wire, SmtpAccept(m) PROVE [Once!Next]_Once!vars
  BY <1>5, AcceptRefines
<1>6. CASE \/ \E w \in Workers, reg \in Registrations : Start(w, reg)
           \/ \E w \in Workers : Cancel(w)
           \/ AdminFails
           \/ Restart
           \/ UNCHANGED vars
  BY <1>2, <1>6 DEF Start, Cancel, AdminFails, Restart, post, vars
<1>7. QED
  BY <1>3, <1>4, <1>5, <1>6 DEF Next, Admin

(* The pipeline implements the ledger's promise.                           *)
THEOREM Implements == Spec => ImplementsDeliveryOnce
<1>1. TypeOK /\ ClaimsDistinct /\ [Next]_vars => [Once!Next]_Once!vars
  BY NextRefines
<1>2. QED
  BY <1>1, InitRefines, AlwaysClaimsDistinct, PTL DEF Spec, ImplementsDeliveryOnce, Once!Spec
-----------------------------------------------------------------------------
(* The messages of an ID, and the mail budget of DeliveryOnce for them.    *)
MessagesOf(id) == {m \in mailed : m.id = id}

MessagesWithinBudget ==
  \A id \in Ids : /\ IsFiniteSet(MessagesOf(id))
                  /\ Cardinality(MessagesOf(id)) <= cleared[id] + 1

(* Each message of an ID spends a claim of its own, and no more claims     *)
(* than one were granted beyond those that were cleared.                   *)
LEMMA BudgetOfClaims == TypeOK /\ OneMailPerClaim => MessagesWithinBudget
<1> SUFFICES ASSUME TypeOK, OneMailPerClaim, NEW id \in Ids
             PROVE  /\ IsFiniteSet(MessagesOf(id))
                    /\ Cardinality(MessagesOf(id)) <= cleared[id] + 1
  BY DEF MessagesWithinBudget
<1> DEFINE claims == 0..cleared[id]
           gen == [m \in MessagesOf(id) |-> m.gen]
<1>1. cleared[id] \in Nat
  BY DEF TypeOK, LedgerTypeOK
<1>2. \A m \in MessagesOf(id) : m.gen \in claims
  <2> SUFFICES ASSUME NEW m \in MessagesOf(id) PROVE m.gen \in claims
    OBVIOUS
  <2>1. m \in Message /\ m.id = id /\ Granted(id, m.gen)
    BY DEF TypeOK, RequestsTypeOK, OneMailPerClaim, MessagesOf
  <2>2. m.gen \in Nat /\ m.gen <= cleared[id]
    BY <1>1, <2>1 DEF Message, Granted
  <2>3. QED
    BY <1>1, <2>2
<1>3. \A m, n \in MessagesOf(id) : gen[m] = gen[n] => m = n
  BY DEF OneMailPerClaim, MessagesOf
<1>4. gen \in Injection(MessagesOf(id), claims)
  <2>1. gen \in [MessagesOf(id) -> claims]
    BY <1>2
  <2>2. IsInjective(gen)
    BY <1>3 DEF IsInjective
  <2>3. QED
    BY <2>1, <2>2 DEF Injection
<1>5. IsFiniteSet(claims) /\ Cardinality(claims) = cleared[id] + 1
  BY SMTT(30), <1>1, FS_Interval
<1>6. QED
  BY <1>4, <1>5, FS_Injection

(* Of one registration ID no more messages are ever accepted than its row  *)
(* was deleted, plus one, whatever fails (Store.Claim, Store.Release and   *)
(* the administrator's deletion).                                          *)
THEOREM MailBounded == Spec => []MessagesWithinBudget
BY TypeCorrect, OneMail, BudgetOfClaims, PTL

-----------------------------------------------------------------------------
(* The implementation of ClaimOwners: who owns an entry.                   *)
owners == [id \in Ids |-> {w \in Workers : pc[w] \in Claiming /\ Id(w) = id}]

(* What a step may do to one ID until the administrator deletes.           *)
Change(i) ==
  \/ entry'[i] = entry[i] /\ owners'[i] \in {owners[i], {}}
  \/ /\ entry[i] = "absent" /\ entry'[i] = "pending"
     /\ owners'[i] = owners[i] \/ \E w \in Workers : owners'[i] = {w}
  \/ /\ owners[i] # {} /\ entry[i] = "pending"
     /\ \/ entry'[i] = "recorded" /\ owners'[i] \in {owners[i], {}}
        \/ entry'[i] = "absent" /\ owners'[i] = {}

LEMMA ChangeRefines ==
  ASSUME NothingDeleted, NothingDeleted', NEW i \in Ids, Change(i),
         \A j \in Ids \ {i} : entry'[j] = entry[j] /\ owners'[j] = owners[j]
  PROVE  [Owners!Next]_Owners!vars
<1>1. \A s : entry'[i] = s => entry' = [entry EXCEPT ![i] = s]
  BY DEF entry
<1>2. \A s : owners'[i] = s => owners' = [owners EXCEPT ![i] = s]
  BY DEF owners
<1>3. /\ entry'[i] = entry[i] => entry' = entry
      /\ owners'[i] = owners[i] => owners' = owners
  BY DEF entry, owners
<1>4. UNCHANGED NothingDeleted
  OBVIOUS
<1>5. CASE entry'[i] = entry[i] /\ owners'[i] = owners[i]
  BY <1>3, <1>4, <1>5 DEF Owners!vars, entry, owners
<1>6. CASE entry'[i] = entry[i] /\ owners'[i] = {}
  <2>1. Owners!Quit(i)
    BY <1>2, <1>3, <1>6 DEF Owners!Quit, Owners!LetGo, entry, owners
  <2>2. QED
    BY <1>4, <2>1 DEF Owners!Next
<1>7. CASE entry[i] = "absent" /\ entry'[i] = "pending" /\ owners'[i] = owners[i]
  <2>1. Owners!Pass(i)
    BY <1>1, <1>3, <1>7 DEF Owners!Pass, Owners!Become, entry, owners
  <2>2. QED
    BY <1>4, <2>1 DEF Owners!Next
<1>8. CASE entry[i] = "absent" /\ entry'[i] = "pending" /\ \E w \in Workers : owners'[i] = {w}
  <2>1. PICK w \in Workers : owners'[i] = {w}
    BY <1>8
  <2>2. Owners!Grant(i, w)
    BY <1>1, <1>2, <1>8, <2>1 DEF Owners!Grant, Owners!Become, entry, owners
  <2>3. QED
    BY <1>4, <2>2 DEF Owners!Next
<1>9. CASE /\ owners[i] # {} /\ entry[i] = "pending" /\ entry'[i] = "recorded"
           /\ owners'[i] \in {owners[i], {}}
  <2>1. Owners!Record(i)
    BY <1>1, <1>2, <1>3, <1>9 DEF Owners!Record, Owners!Become, Owners!LetGo, entry, owners
  <2>2. QED
    BY <1>4, <2>1 DEF Owners!Next
<1>10. CASE owners[i] # {} /\ entry[i] = "pending" /\ entry'[i] = "absent" /\ owners'[i] = {}
  <2>1. Owners!Release(i)
    BY <1>1, <1>2, <1>10 DEF Owners!Release, Owners!Become, Owners!LetGo, entry, owners
  <2>2. QED
    BY <1>4, <2>1 DEF Owners!Next
<1>11. QED
  BY <1>5, <1>6, <1>7, <1>8, <1>9, <1>10 DEF Change

(* Who owns what changes with the step of one worker only, and only at the *)
(* ID that worker is about.                                                *)
LEMMA OwnersStep ==
  ASSUME TypeOK, Next, NEW w \in Workers, Work(w)
  PROVE  /\ \A j \in Ids \ {Id(w)} : owners'[j] = owners[j]
         /\ owners'[Id(w)] = IF pc'[w] \in Claiming THEN owners[Id(w)] \cup {w}
                             ELSE owners[Id(w)] \ {w}
         /\ \A j \in Ids \ {Id(w)} : entry'[j] = entry[j]
<1>1. Id(w) \in Ids /\ pc[w] # "idle"
  BY WorkEdge, BusyJob
<1>2. \A v \in Workers \ {w} : pc'[v] = pc[v] /\ Id(v)' = Id(v)
  BY WorkFrame DEF Id
<1>3. pc'[w] \in Claiming => Id(w)' = Id(w)
  <2>1. CASE pc'[w] = pc[w] /\ job'[w] = job[w]
    BY <2>1 DEF Id
  <2>2. CASE Work(w) /\ job'[w].reg = job[w].reg
    BY <2>2 DEF Id
  <2>3. QED
    BY <2>1, <2>2, WorkerStep DEF Claiming, Preparing, Settling
<1>4. \A j \in Ids : owners'[j] = {v \in Workers : pc'[v] \in Claiming /\ Id(v)' = j}
  BY DEF owners
<1>5. \A j \in Ids : owners[j] = {v \in Workers : pc[v] \in Claiming /\ Id(v) = j}
  BY DEF owners
<1>6. ASSUME NEW j \in Ids \ {Id(w)} PROVE owners'[j] = owners[j]
  <2>1. \A v \in Workers : pc'[v] \in Claiming /\ Id(v)' = j <=> pc[v] \in Claiming /\ Id(v) = j
    BY <1>2, <1>3, <1>6
  <2>2. QED
    BY <1>4, <1>5, <2>1
<1>7. owners'[Id(w)] = IF pc'[w] \in Claiming THEN owners[Id(w)] \cup {w} ELSE owners[Id(w)] \ {w}
  <2>1. CASE pc'[w] \in Claiming
    BY <1>1, <1>2, <1>3, <1>4, <1>5, <2>1
  <2>2. CASE pc'[w] \notin Claiming
    BY <1>1, <1>2, <1>4, <1>5, <2>2
  <2>3. QED
    BY <2>1, <2>2
<1>8. \A j \in Ids \ {Id(w)} : entry'[j] = entry[j]
  BY WorkFrame DEF entry
<1>9. QED
  BY <1>6, <1>7, <1>8

(* A row is what its entry says.                                           *)
LEMMA EntryIs ==
  ASSUME LedgerTypeOK, NEW i \in Ids
  PROVE  /\ entry[i] = "absent" <=> ~Exists(i)
         /\ entry[i] = "pending" <=> IsPending(i)
         /\ entry'[i] = Entry(rows'[i])
         /\ rows'[i] = rows[i] => entry'[i] = entry[i]
<1>1. rows[i] \in Row /\ entry[i] = Entry(rows[i]) /\ entry'[i] = Entry(rows'[i])
  BY DEF LedgerTypeOK, entry
<1>2. "pending" \notin Outcomes /\ "absent" \notin Outcomes
  BY DEF Outcomes, Decided, FounderExisting
<1>3. QED
  BY <1>1, <1>2, EntryOfRow DEF Entry, Exists, IsPending

LEMMA ClaimChanges ==
  ASSUME Undeleted, NothingDeleted, Next, NEW w \in Workers, Claim(w)
  PROVE  Change(Id(w))
<1> DEFINE i == Id(w)
<1>1. /\ Work(w) /\ pc[w] = "claim" /\ i \in Ids /\ TypeOK /\ LedgerTypeOK
      /\ pc[w] \notin Claiming
  BY BusyJob DEF Claim, At, Work, Undeleted, TypeOK, Claiming, Preparing, Settling
<1>2. w \notin owners[i]
  BY <1>1 DEF owners
<1>3. owners'[i] = IF pc'[w] \in Claiming THEN owners[i] \cup {w} ELSE owners[i] \ {w}
  BY <1>1, OwnersStep
<1>4. ASSUME Return(w) PROVE owners'[i] = owners[i]
  <2>1. pc'[w] = "idle"
    BY <1>1, <1>4, MoveFrame DEF Return
  <2>2. QED
    BY <1>2, <1>3, <2>1 DEF Claiming, Preparing, Settling
<1>5. CASE UNCHANGED ledger /\ Return(w)
  <2>1. entry'[i] = entry[i]
    BY <1>1, <1>5, EntryIs DEF ledger
  <2>2. QED
    BY <1>4, <1>5, <2>1 DEF Change
<1>6. CASE InsertOrIgnore(i) /\ Exists(i) /\ Return(w)
  <2>1. entry'[i] = entry[i]
    BY <1>1, <1>6, EntryIs DEF InsertOrIgnore
  <2>2. QED
    BY <1>4, <1>6, <2>1 DEF Change
<1>7. CASE InsertOrIgnore(i) /\ ~Exists(i) /\ (Return(w) \/ Claimed(w))
  <2>1. rows'[i] = Pending
    BY <1>1, <1>7 DEF InsertOrIgnore, LedgerTypeOK
  <2>2. entry[i] = "absent" /\ entry'[i] = "pending"
    BY <1>1, <1>7, <2>1, EntryIs, EntryOfRow
  <2>3. owners[i] = {}
    <3>1. \A v \in Workers : pc[v] \in Claiming => Exists(Id(v))
      BY DEF Undeleted, Ownership, Holds
    <3>2. QED
      BY <1>1, <1>7, <3>1 DEF owners
  <2>4. owners'[i] = {} \/ owners'[i] = {w}
    BY <1>3, <2>3
  <2>5. QED
    BY <2>2, <2>3, <2>4 DEF Change
<1>8. QED
  BY <1>5, <1>6, <1>7 DEF Claim, Statement

(* Past its claim a worker is the one owner of its row.                    *)
LEMMA OwnerChanges ==
  ASSUME Undeleted, NothingDeleted, Next, NEW w \in Workers, Work(w), ~Claim(w)
  PROVE  Change(Id(w))
<1> DEFINE i == Id(w)
<1>1. TypeOK /\ LedgerTypeOK /\ ClaimsDistinct /\ Ownership
  BY DEF Undeleted, TypeOK
<1>2. pc[w] \in Claiming
  BY DEF Work, FounderCheck, MarkFounder, Build, BuildFails, SaveArtifact, Deliver, SmtpReplied, SmtpFailed,
         SmtpAbandoned, Mark, ReleaseArtifact, ReleaseRow, At, Claiming, Preparing, Settling
<1>3. i \in Ids /\ Holds(w)
  BY <1>1, <1>2, Owner
<1>4. owners[i] = {w}
  BY <1>1, <1>2, <1>3 DEF Ownership, owners
<1>5. owners'[i] = IF pc'[w] \in Claiming THEN {w} ELSE {}
  BY <1>1, <1>4, OwnersStep
<1>6. ASSUME rows'[i] = rows[i] PROVE Change(i)
  BY <1>1, <1>3, <1>4, <1>5, <1>6, EntryIs DEF Change
<1>7. CASE MarkFounder(w) \/ Mark(w)
  <2> DEFINE row(action) == [action |-> action, email |-> job[w].reg.email,
                             passType |-> job[w].reg.passType]
  <2>1. pc[w] \in {"markFounder", "mark"} /\ job[w].reg \in Registrations
    BY <1>1, <1>7, AtWork DEF MarkFounder, Mark, At
  <2>2. \A action \in Outcomes : row(action) \in RecordedRow
    BY <2>1, PipelineAssumption DEF RecordedRow, Registration
  <2>3. FounderExisting \in Outcomes /\ (pc[w] = "mark" => job[w].action \in Outcomes)
    BY <1>1, <2>1, BusyJob DEF Outcomes
  <2>4. PICK action \in Outcomes : UpdateRow(i, row(action)) \/ UNCHANGED ledger
    BY <1>7, <2>3 DEF MarkFounder, Mark, MarkProcessed, Statement, At
  <2>5. IsPending(i) /\ Exists(i)
    BY <1>3, <2>1 DEF Holds, Preparing
  <2>6. CASE UNCHANGED ledger
    BY <1>6, <2>6 DEF ledger
  <2>7. CASE UpdateRow(i, row(action))
    <3>1. rows'[i] \in RecordedRow
      BY <1>1, <1>3, <2>2, <2>5, <2>7 DEF UpdateRow, LedgerTypeOK
    <3>2. entry[i] = "pending" /\ entry'[i] = "recorded"
      BY <1>1, <1>3, <2>5, <3>1, EntryIs, EntryOfRow
    <3>3. QED
      BY <1>4, <1>5, <3>2 DEF Change
  <2>8. QED
    BY <2>4, <2>6, <2>7
<1>8. CASE ReleaseRow(w) /\ ~(UNCHANGED ledger)
  <2>1. ~cancelled[w] /\ DeleteRow(i) /\ Return(w)
    BY <1>8 DEF ReleaseRow, Statement, Succeeds, Refused, Interrupted
  <2>2. IsPending(i) /\ pc'[w] = "idle"
    BY <1>1, <1>3, <2>1, MoveFrame DEF Holds, Return
  <2>3. rows'[i] = NoRow
    BY <1>1, <1>3, <2>1 DEF DeleteRow, LedgerTypeOK
  <2>4. entry[i] = "pending" /\ entry'[i] = "absent" /\ owners'[i] = {}
    BY <1>1, <1>3, <1>5, <2>2, <2>3, EntryIs, EntryOfRow DEF Claiming, Preparing, Settling
  <2>5. QED
    BY <1>4, <2>4 DEF Change
<1>9. CASE ~MarkFounder(w) /\ ~Mark(w) /\ (ReleaseRow(w) => UNCHANGED ledger)
  <2>1. rows' = rows
    BY <1>9, WorkEffect DEF UpsertArtifact, DeleteArtifact, ledger
  <2>2. QED
    BY <1>6, <2>1
<1>10. QED
  BY <1>7, <1>8, <1>9

LEMMA NextKeepsOwners ==
  ASSUME Undeleted, [Next]_vars
  PROVE  [Owners!Next]_Owners!vars
<1>1. CASE ~NothingDeleted'
  BY <1>1 DEF Owners!Next, Owners!Meddle
<1>2. TypeOK
  BY DEF Undeleted
<1>3. ASSUME NothingDeleted', NEW w \in Workers, Work(w) PROVE [Owners!Next]_Owners!vars
  <2>1. NothingDeleted /\ Id(w) \in Ids /\ Next
    BY <1>2, <1>3, WorkFrame, WorkEdge, BusyJob DEF NothingDeleted, Next
  <2>2. Change(Id(w))
    BY <1>3, <2>1, ClaimChanges, OwnerChanges
  <2>3. QED
    BY <1>2, <1>3, <2>1, <2>2, ChangeRefines, OwnersStep
<1>4. ASSUME NothingDeleted', NothingDeleted, rows' = rows, owners' = owners PROVE [Owners!Next]_Owners!vars
  BY <1>4 DEF Owners!vars, owners
<1>5. ASSUME NothingDeleted', NEW w \in Workers, NEW reg \in Registrations, Start(w, reg)
      PROVE  [Owners!Next]_Owners!vars
  <2> DEFINE j == [NoJob EXCEPT !.reg = reg]
  <2>1. GotoWith(w, "claim", j) /\ pc[w] = "idle" /\ rows' = rows /\ NothingDeleted
    BY <1>5 DEF Start, At, ledger, NothingDeleted
  <2> HIDE DEF j
  <2>2. pc'[w] = "claim" /\ \A v \in Workers \ {w} : pc'[v] = pc[v] /\ job'[v] = job[v]
    BY <1>2, <2>1, MoveFrame
  <2>3. \A v \in Workers : \A id \in Ids :
          pc'[v] \in Claiming /\ Id(v)' = id <=> pc[v] \in Claiming /\ Id(v) = id
    BY <2>1, <2>2 DEF Claiming, Preparing, Settling, Id
  <2>4. owners' = owners
    BY <2>3 DEF owners
  <2>5. QED
    BY <1>4, <1>5, <2>1, <2>4
<1>6. CASE NothingDeleted' /\ \/ \E w \in Workers : Cancel(w)
                              \/ \E m \in wire : SmtpAccept(m)
                              \/ UNCHANGED vars
  <2>1. UNCHANGED <<rows, pc, job>> /\ NothingDeleted
    <3>1. ASSUME NEW w \in Workers, Cancel(w) PROVE UNCHANGED <<rows, pc, job>> /\ NothingDeleted
      BY <1>2, <1>6, <3>1, FaultFrame DEF Cancel, NothingDeleted, requests, ledger, FaultKinds
    <3>2. ASSUME NEW m \in wire, SmtpAccept(m) PROVE UNCHANGED <<rows, pc, job>> /\ NothingDeleted
      BY <1>6, <3>2 DEF SmtpAccept, Inside, NothingDeleted, requests, ledger
    <3>3. QED
      BY <1>6, <3>1, <3>2 DEF vars, NothingDeleted, requests, ledger
  <2>2. owners' = owners
    BY <2>1 DEF owners, Id
  <2>3. QED
    BY <1>4, <1>6, <2>1, <2>2
<1>7. CASE NothingDeleted' /\ Admin
  <2>1. ~(\E id \in Ids : AdminDeleteArtifact(id))
    BY <1>2, <1>7, AdminCounted
  <2>2. CASE AdminDeleteRow \/ AdminFails
    BY <1>7, <2>2 DEF AdminDeleteRow, AdminFails, Undeleted, Ownership, NothingDeleted
  <2>3. QED
    BY <1>7, <2>1, <2>2 DEF Admin
<1>8. CASE NothingDeleted' /\ Restart
  <2>1. NothingDeleted /\ rows' = rows /\ \A w \in Workers : pc'[w] = "idle"
    BY <1>2, <1>8, FaultFrame DEF Restart, NothingDeleted, FaultKinds, ledger
  <2>2. owners' = [id \in Ids |-> {}] /\ entry' = entry
    BY <2>1 DEF owners, entry, Claiming, Preparing, Settling
  <2>3. Owners!Crash
    BY <2>2 DEF Owners!Crash, owners, entry
  <2>4. QED
    BY <1>8, <2>1, <2>3 DEF Owners!Next
<1>9. QED
  BY <1>1, <1>3, <1>5, <1>6, <1>7, <1>8 DEF Next

(* Until the administrator deletes, whoever is past its claim owns its row *)
(* alone, and only it records or releases the row, for any requests, and   *)
(* whatever fails.                                                         *)
THEOREM RequestsOwnRows == Spec => ImplementsClaimOwners
<1>1. Init => Owners!Init
  <2> SUFFICES ASSUME Init PROVE Owners!Init
    OBVIOUS
  <2>1. entry = [id \in Ids |-> "absent"]
    BY EntryOfRow DEF Init, LedgerInit, entry
  <2>2. owners = [id \in Ids |-> {}]
    BY DEF Init, owners, Claiming, Preparing, Settling
  <2>3. NothingDeleted
    BY DEF Init, NothingDeleted, Budgets, FaultKinds
  <2>4. QED
    BY <2>1, <2>2, <2>3 DEF Owners!Init, entry, owners
<1>2. Undeleted /\ [Next]_vars => [Owners!Next]_Owners!vars
  BY NextKeepsOwners
<1>3. QED
  BY <1>1, <1>2, AlwaysOwnership, PTL DEF Spec, ImplementsClaimOwners, Owners!Spec
=============================================================================
