------------------------------ MODULE Pipeline ------------------------------
(***************************************************************************)
(* The delivery pipeline (internal/poll/poll.go): requests, each a poll    *)
(* cycle or a webhook delivery, run ProcessClassified concurrently against *)
(* one ledger, one SMTP server and one administrator.                      *)
(*                                                                         *)
(* One step is one SQL statement, one decision or one SMTP event, because  *)
(* anything may happen between two of them: the client of a request hangs  *)
(* up (every statement uses the request's context), a statement fails, the *)
(* administrator deletes the row, or the machine restarts. Each kind of    *)
(* trouble is counted in "faults" and bounded by Limit.                    *)
(***************************************************************************)
EXTENDS Ledger

CONSTANTS
  Workers,        \* concurrent requests
  Registrations,  \* registrations the feed and the webhook deliver
  NoReg,          \* what an idle worker holds
  NoId,           \* what an idle administrator holds
  Apple, Google,  \* is the wallet configured? (BOOLEAN)
  Deployed,       \* the modes the process is ever started in
  MaxCleared,     \* bound on how often a row is cleared and claimed again
  Limit           \* bound on each kind of fault and on all together

FaultKinds == {"cancel", "store", "build", "smtp", "admin", "restart"}
Budgets == FaultKinds \cup {"total"}

Registration == [id : Ids, email : Addresses, passType : PassTypes]

ASSUME PipelineAssumption ==
  /\ Registrations \subseteq Registration
  /\ NoReg \notin Registrations
  /\ NoId \notin Ids
  /\ Apple \in BOOLEAN /\ Google \in BOOLEAN
  /\ Deployed \subseteq UsableModes
  /\ Limit \in [Budgets -> Nat]
  /\ MaxCleared \in Nat

VARIABLES
  pc,         \* [Workers -> the step a worker is about to take]
  job,        \* [Workers -> what ProcessClassified holds in its locals]
  cancelled,  \* [Workers -> BOOLEAN]: the request's context is done
  wire,       \* messages handed to an smtp.SendMail that has not returned
  mailed,     \* messages the SMTP server accepted
  nextToken,  \* the next fresh access token
  adminId,    \* the ID whose DeleteProcessed is between its statements
  mode,       \* EMAIL_MODE of the running process
  faults      \* [Budgets -> Nat]: faults so far, by kind and in total

requests == <<pc, job>>
post     == <<wire, mailed>>
vars == <<ledger, requests, cancelled, post, nextToken, adminId, mode, faults>>

(* After its claim and before its message is handed to SMTP; and then. *)
Preparing == {"founder", "markFounder", "build", "save", "deliver"}
Settling  == {"smtp", "mark", "unartifact", "unclaim"}
Claiming  == Preparing \cup Settling
Steps     == {"idle", "claim"} \cup Claiming

(* gen: how often the row had been cleared when the worker claimed it, so  *)
(* that <<id, gen>> names one claim.                                       *)
NoJob == [reg |-> NoReg, gen |-> 0, token |-> NoToken, action |-> ""]
Job == [reg : Registrations, gen : Nat, token : Nat, action : Decided \cup {""}]
Message == [id : Ids, gen : Nat, token : Nat, email : Addresses,
            passType : PassTypes, to : Addresses]

Id(w) == job[w].reg.id
Walleted == Apple \/ Google

RequestsTypeOK ==
  /\ pc \in [Workers -> Steps]
  /\ job \in [Workers -> Job \cup {NoJob}]
  /\ \A w \in Workers : /\ pc[w] # "idle" => job[w] \in Job
                        /\ pc[w] \in {"smtp", "mark"} => job[w].action # ""

(* The one type invariant of the pipeline and its ledger. *)
TypeOK ==
  /\ LedgerTypeOK
  /\ RequestsTypeOK
  /\ cancelled \in [Workers -> BOOLEAN]
  /\ wire \subseteq Message /\ mailed \subseteq Message
  /\ nextToken \in Nat \ {NoToken}
  /\ adminId \in Ids \cup {NoId}
  /\ mode \in Deployed
  /\ faults \in [Budgets -> Nat]

Init ==
  /\ LedgerInit
  /\ pc = [w \in Workers |-> "idle"]
  /\ job = [w \in Workers |-> NoJob]
  /\ cancelled = [w \in Workers |-> FALSE]
  /\ wire = {} /\ mailed = {}
  /\ nextToken = 1
  /\ adminId = NoId
  /\ mode \in Deployed
  /\ faults = [k \in Budgets |-> 0]
-----------------------------------------------------------------------------
(* Control of a worker. *)
At(w, step) == pc[w] = step

Goto(w, step) ==
  /\ pc' = [pc EXCEPT ![w] = step]
  /\ UNCHANGED job

GotoWith(w, step, j) ==
  /\ pc' = [pc EXCEPT ![w] = step]
  /\ job' = [job EXCEPT ![w] = j]

(* ProcessClassified returns, with or without an error. *)
Return(w) == GotoWith(w, "idle", NoJob)

Fault(kind) ==
  /\ faults[kind] < Limit[kind] /\ faults["total"] < Limit["total"]
  /\ faults' = [faults EXCEPT ![kind] = @ + 1, !["total"] = @ + 1]

(* How a statement run with the worker's context can end: it succeeds; it  *)
(* is refused without effect, because the context is already done or the   *)
(* database fails; or the context ends while it runs and the driver        *)
(* reports an error for a statement that took effect.                      *)
Succeeds(w) == ~cancelled[w] /\ UNCHANGED <<cancelled, faults>>

Refused(w) ==
  \/ cancelled[w] /\ UNCHANGED <<cancelled, faults>>
  \/ ~cancelled[w] /\ Fault("store") /\ UNCHANGED cancelled

Interrupted(w) ==
  /\ ~cancelled[w]
  /\ Fault("cancel")
  /\ cancelled' = [cancelled EXCEPT ![w] = TRUE]

(* One statement: its effect, then where its caller goes on success and on *)
(* an error.                                                               *)
Statement(w, effect, ok, err) ==
  /\ \/ Succeeds(w) /\ effect /\ ok
     \/ Refused(w) /\ UNCHANGED ledger /\ err
     \/ Interrupted(w) /\ effect /\ err
  /\ UNCHANGED <<post, nextToken, adminId, mode>>

(* A step that touches neither the ledger nor the request's context. *)
Inside == UNCHANGED <<ledger, cancelled, adminId, mode>>
-----------------------------------------------------------------------------
(* A request reaches a registration: the next candidate of a poll cycle,   *)
(* whose loop stops when the context is done, or a webhook delivery.       *)
Start(w, reg) ==
  /\ At(w, "idle")
  /\ cleared[reg.id] <= MaxCleared
  /\ GotoWith(w, "claim", [NoJob EXCEPT !.reg = reg])
  /\ cancelled' = [cancelled EXCEPT ![w] = FALSE]
  /\ UNCHANGED <<ledger, post, nextToken, adminId, mode, faults>>

(* Whoever wins the insert owns the delivery; a founder is looked up first.*)
Claimed(w) ==
  GotoWith(w, IF job[w].reg.passType = "founder" THEN "founder" ELSE "build",
           [job[w] EXCEPT !.gen = cleared[Id(w)]])

(* Mutation: everyone who inserts wins. *)
ClaimAlways(w) ==
  /\ At(w, "claim")
  /\ Statement(w, InsertOrIgnore(Id(w)), Claimed(w), Return(w))

(* Mutation: a claim that fails is released like any other failure. *)
ClaimReleases(w) ==
  /\ At(w, "claim")
  /\ Statement(w, InsertOrIgnore(Id(w)),
               IF Exists(Id(w)) THEN Return(w) ELSE Claimed(w),
               Goto(w, "unartifact"))

(* Claim, with the caller's three ends: won, duplicate, and an error that  *)
(* returns at once, without a release.                                     *)
Claim(w) ==
  /\ At(w, "claim")
  /\ Statement(w, InsertOrIgnore(Id(w)),
               IF Exists(Id(w)) THEN Return(w) ELSE Claimed(w),
               Return(w))

FounderCheck(w) ==
  /\ At(w, "founder")
  /\ Statement(w, UNCHANGED ledger,
               Goto(w, IF FounderIssued(job[w].reg.email) THEN "markFounder" ELSE "build"),
               Goto(w, "unartifact"))

(* MarkProcessed: an update that finds no row is an error to its caller. *)
MarkProcessed(w, action) ==
  Statement(w,
            UpdateRow(Id(w), [action |-> action, email |-> job[w].reg.email,
                              passType |-> job[w].reg.passType]),
            IF Exists(Id(w)) THEN Return(w) ELSE Goto(w, "unartifact"),
            Goto(w, "unartifact"))

MarkFounder(w) == At(w, "markFounder") /\ MarkProcessed(w, FounderExisting)

(* Mutation: the token is derived from the registration, not drawn. *)
BuildDerived(w) ==
  /\ At(w, "build")
  /\ GotoWith(w, IF Walleted THEN "save" ELSE "deliver", [job[w] EXCEPT !.token = 1])
  /\ Inside /\ UNCHANGED <<post, nextToken, faults>>

(* Expiry, artwork, passes and a fresh token; the wallet links are only    *)
(* stored when there is one.                                               *)
Build(w) ==
  /\ At(w, "build")
  /\ GotoWith(w, IF Walleted THEN "save" ELSE "deliver", [job[w] EXCEPT !.token = nextToken])
  /\ nextToken' = nextToken + 1
  /\ Inside /\ UNCHANGED <<post, faults>>

(* Any of those fails, or rendering the message does. *)
BuildFails(w) ==
  /\ pc[w] \in {"build", "deliver"}
  /\ Fault("build")
  /\ Goto(w, "unartifact")
  /\ Inside /\ UNCHANGED <<post, nextToken>>

SaveArtifact(w) ==
  /\ At(w, "save")
  /\ Statement(w, UpsertArtifact(Id(w), job[w].token),
               Goto(w, "deliver"), Goto(w, "unartifact"))

(* The message a worker hands to the transport. *)
MessageOf(w, to) ==
  [id |-> Id(w), gen |-> job[w].gen, token |-> job[w].token,
   email |-> job[w].reg.email, passType |-> job[w].reg.passType, to |-> to]

OwnMessage(w, m) == m.id = Id(w) /\ m.token = job[w].token

(* Mutation: the decision is not handed back to be recorded. *)
DeliverUndecided(w) ==
  LET decision == Decide(mode, job[w].reg.email) IN
  /\ At(w, "deliver")
  /\ Goto(w, IF Send(decision) THEN "smtp" ELSE "mark")
  /\ wire' = wire \cup {MessageOf(w, to) : to \in decision.recipients}
  /\ Inside /\ UNCHANGED <<mailed, nextToken, faults>>

(* The guard decides; only then does the message reach SMTP, on a          *)
(* goroutine of its own, whatever the state of the context.                *)
Deliver(w) ==
  LET decision == Decide(mode, job[w].reg.email) IN
  /\ At(w, "deliver")
  /\ GotoWith(w, IF Send(decision) THEN "smtp" ELSE "mark",
              [job[w] EXCEPT !.action = decision.action])
  /\ wire' = wire \cup {MessageOf(w, to) : to \in decision.recipients}
  /\ Inside /\ UNCHANGED <<mailed, nextToken, faults>>

(* The SMTP server takes responsibility for a message, whether or not      *)
(* anyone still waits for its reply.                                       *)
SmtpAccept(m) ==
  /\ m \in wire
  /\ wire' = wire \ {m}
  /\ mailed' = mailed \cup {m}
  /\ Inside /\ UNCHANGED <<requests, nextToken, faults>>

SmtpReplied(w) ==
  /\ At(w, "smtp")
  /\ \E m \in mailed : OwnMessage(w, m)
  /\ Goto(w, "mark")
  /\ Inside /\ UNCHANGED <<post, nextToken, faults>>

(* Mutation: the error of SendMail is dropped. *)
SmtpFailureIgnored(w) ==
  /\ At(w, "smtp")
  /\ Fault("smtp")
  /\ wire' = {m \in wire : ~OwnMessage(w, m)}
  /\ Goto(w, "mark")
  /\ Inside /\ UNCHANGED <<mailed, nextToken>>

(* smtp.SendMail returns an error (SmtpDialogue): the message was refused; *)
(* or it was accepted and the connection failed before SendMail was done   *)
(* (its last command is QUIT, and that error is returned too); or it was   *)
(* written and may still be accepted.                                      *)
SmtpFailed(w) ==
  /\ At(w, "smtp")
  /\ Fault("smtp")
  /\ wire' \in {wire, {m \in wire : ~OwnMessage(w, m)}}
  /\ Goto(w, "unartifact")
  /\ Inside /\ UNCHANGED <<mailed, nextToken>>

(* The context ends first: the caller stops waiting, the goroutine does not.*)
SmtpAbandoned(w) ==
  /\ At(w, "smtp")
  /\ cancelled[w]
  /\ Goto(w, "unartifact")
  /\ Inside /\ UNCHANGED <<post, nextToken, faults>>

Mark(w) == At(w, "mark") /\ MarkProcessed(w, job[w].action)

(* Mutation: the release stops after its first statement. *)
ReleaseArtifactOnly(w) ==
  /\ At(w, "unartifact")
  /\ Statement(w, DeleteArtifact(Id(w)), Return(w), Return(w))

(* Mutation: the release is one transaction, with a context of its own. *)
ReleaseDetached(w) ==
  /\ At(w, "unartifact")
  /\ rows' = [rows EXCEPT ![Id(w)] = NoRow]
  /\ artifacts' = [artifacts EXCEPT ![Id(w)] = NoToken]
  /\ cleared' = IF Exists(Id(w)) THEN [cleared EXCEPT ![Id(w)] = @ + 1] ELSE cleared
  /\ Return(w)
  /\ UNCHANGED <<cancelled, post, nextToken, adminId, mode, faults>>

(* Release, on any error after the claim and with the same context: its    *)
(* own error is only logged.                                               *)
ReleaseArtifact(w) ==
  /\ At(w, "unartifact")
  /\ Statement(w, DeleteArtifact(Id(w)), Goto(w, "unclaim"), Return(w))

ReleaseRow(w) ==
  /\ At(w, "unclaim")
  /\ Statement(w, DeleteRow(Id(w)), Return(w), Return(w))
-----------------------------------------------------------------------------
(* DELETE /admin/processed/{id}: two statements of a request of its own,   *)
(* which may end between them.                                             *)
AdminDeleteArtifact(id) ==
  /\ adminId = NoId
  /\ Fault("admin")
  /\ DeleteArtifact(id)
  /\ adminId' = id
  /\ UNCHANGED <<requests, cancelled, post, nextToken, mode>>

AdminDeleteRow ==
  /\ adminId # NoId
  /\ DeleteRow(adminId)
  /\ adminId' = NoId
  /\ UNCHANGED <<requests, cancelled, post, nextToken, mode, faults>>

AdminFails ==
  /\ adminId # NoId
  /\ adminId' = NoId
  /\ UNCHANGED <<ledger, requests, cancelled, post, nextToken, mode, faults>>

(* The client of a request hangs up, or its timeout runs out. *)
Cancel(w) ==
  /\ ~At(w, "idle") /\ ~cancelled[w]
  /\ Fault("cancel")
  /\ cancelled' = [cancelled EXCEPT ![w] = TRUE]
  /\ UNCHANGED <<ledger, requests, post, nextToken, adminId, mode>>

(* The process dies, or is stopped with requests still running after the   *)
(* grace period, and starts again, perhaps under another EMAIL_MODE. The   *)
(* volume survives; requests and unfinished SMTP transactions do not.      *)
Restart ==
  /\ Fault("restart")
  /\ pc' = [w \in Workers |-> "idle"]
  /\ job' = [w \in Workers |-> NoJob]
  /\ cancelled' = [w \in Workers |-> FALSE]
  /\ wire' = {}
  /\ adminId' = NoId
  /\ mode' \in Deployed
  /\ UNCHANGED <<ledger, mailed, nextToken>>
-----------------------------------------------------------------------------
Work(w) ==
  \/ Claim(w) \/ FounderCheck(w) \/ MarkFounder(w)
  \/ Build(w) \/ BuildFails(w) \/ SaveArtifact(w)
  \/ Deliver(w) \/ SmtpReplied(w) \/ SmtpFailed(w) \/ SmtpAbandoned(w)
  \/ Mark(w) \/ ReleaseArtifact(w) \/ ReleaseRow(w)

Admin == (\E id \in Ids : AdminDeleteArtifact(id)) \/ AdminDeleteRow \/ AdminFails

Next ==
  \/ \E w \in Workers, reg \in Registrations : Start(w, reg)
  \/ \E w \in Workers : Work(w) \/ Cancel(w)
  \/ \E m \in wire : SmtpAccept(m)
  \/ Admin
  \/ Restart

Spec == Init /\ [][Next]_vars

(* A request's goroutine keeps running, the SMTP server keeps serving, and *)
(* the poll workflow keeps offering every registration of the feed, though *)
(* a request may find the registration being worked on.                    *)
Fairness ==
  /\ \A w \in Workers : WF_vars(Work(w))
  /\ WF_vars(\E m \in wire : SmtpAccept(m))
  /\ \A reg \in Registrations : SF_vars(\E w \in Workers : Start(w, reg))

FairSpec == Spec /\ Fairness

(* As long as requests take a founder's registrations in turn. Founders    *)
(* come from the export alone and their ID is a digest of event and        *)
(* address, so one process offers one ID per founder; the next season's    *)
(* needs another slug, and with it a restart. The same ID may be asked for *)
(* again meanwhile, and anything else may come in between.                 *)
InTurn(reg) ==
  reg.passType = "founder" =>
    \A w \in Workers :
      pc[w] # "idle" /\ job[w].reg.passType = "founder" /\ job[w].reg.email = reg.email
      => job[w].reg.id = reg.id

FeedNext ==
  \/ \E w \in Workers, reg \in Registrations : Start(w, reg) /\ InTurn(reg)
  \/ \E w \in Workers : Work(w) \/ Cancel(w)
  \/ \E m \in wire : SmtpAccept(m)
  \/ Admin
  \/ Restart

TurnSpec == Init /\ [][FeedNext]_vars
-----------------------------------------------------------------------------
(* The claim <<id, gen>> was granted, and perhaps cleared since. *)
Granted(id, gen) == gen < cleared[id] \/ (gen = cleared[id] /\ Exists(id))

(* Two accepted messages never stem from the same claim of a registration, *)
(* and every accepted message stems from a claim that was granted: so a    *)
(* registration is mailed at most once between two deletions of its row,   *)
(* whatever fails (Store.Claim, the dedupe gate).                          *)
OneMailPerClaim ==
  /\ \A m1, m2 \in mailed : m1.id = m2.id /\ m1.gen = m2.gen => m1 = m2
  /\ \A m \in mailed : Granted(m.id, m.gen)

(* Why: a claim <<id, gen>> is only ever granted once, and is spent when   *)
(* its message is handed to SMTP. No two workers hold one claim, a worker  *)
(* that has not yet sent shares its claim with no message, and no two      *)
(* messages stem from one, accepted or still on the wire.                  *)
ClaimsDistinct ==
  /\ \A w \in Workers : pc[w] \in Claiming => Granted(Id(w), job[w].gen)
  /\ \A m \in wire \cup mailed : Granted(m.id, m.gen)
  /\ \A v, w \in Workers :
       pc[v] \in Claiming /\ pc[w] \in Claiming /\ Id(v) = Id(w) /\ job[v].gen = job[w].gen
       => v = w
  /\ \A w \in Workers, m \in wire \cup mailed :
       pc[w] \in Preparing /\ m.id = Id(w) => m.gen # job[w].gen
  /\ \A m1, m2 \in wire \cup mailed : m1.id = m2.id /\ m1.gen = m2.gen => m1 = m2

(* What the next four properties are about: a deletion by the              *)
(* administrator may hit a request at work, which then releases and        *)
(* records over the claims of others.                                      *)
NothingDeleted == faults["admin"] = 0

(* Until its request returns, the winner of a claim finds its row in the   *)
(* ledger, still pending as long as it has not tried to record it, and it  *)
(* is alone with it, unless the administrator deletes.                     *)
WinnerOwnsRow ==
  NothingDeleted => \A w \in Workers : pc[w] \in Claiming =>
    /\ job[w].gen = cleared[Id(w)] /\ Exists(Id(w))
    /\ pc[w] \in Preparing \cup {"smtp", "mark"} => IsPending(Id(w))
    /\ \A v \in Workers \ {w} : pc[v] \in Claiming => Id(v) # Id(w)

(* A decision once recorded stays, unless the administrator deletes: no    *)
(* request, late, failing or for the same ID, overwrites or removes it.    *)
RecordedStable ==
  [][\A id \in Ids : NothingDeleted /\ Recorded(id) => rows'[id] = rows[id]]_vars

(* A row says "sent" or "redirected" only if the SMTP server accepted a    *)
(* message for the claim the row stands for, and the wallet link in that   *)
(* message is the one the download handler serves, unless the              *)
(* administrator deletes.                                                  *)
SentMeansMailed ==
  NothingDeleted => \A id \in Ids : rows[id].action \in {"sent", "redirected"} =>
    \E m \in mailed : /\ m.id = id /\ m.gen = cleared[id]
                      /\ Apple => TokenOpens(id, m.token)

(* A suppressed registration stays suppressed, also after a restart in     *)
(* another mode: as long as its row stands nothing was, is or will be      *)
(* mailed for the claim, unless the administrator deletes.                 *)
SuppressedStaysSuppressed ==
  NothingDeleted => \A id \in Ids : rows[id].action \in Outcomes \ {"sent", "redirected"} =>
    \A m \in wire \cup mailed : m.id = id => m.gen # cleared[id]

(* A mailed wallet link that has stopped working never works again, though *)
(* several workers, releases and deletions write the same artifact row.    *)
DeadLinkStaysDead ==
  [][\A m \in mailed : TokenOpens(m.id, m.token)' => TokenOpens(m.id, m.token)]_vars

(* Two founder badges mailed to one address are never both on record: when *)
(* requests run one at a time, the second registration finds the first.    *)
OneFounderOnRecord ==
  \A m1, m2 \in mailed :
    /\ m1.passType = "founder" /\ m2.passType = "founder"
    /\ m1.email = m2.email /\ m1.id # m2.id
    => \E m \in {m1, m2} : m.gen # cleared[m.id] \/ ~Recorded(m.id)

(* The pipeline implements the ledger's promise: rows are granted, recorded*)
(* and cleared as entries, and a mail spends the epoch of its claim.       *)
Entry(row) == IF row.action \in Outcomes THEN "recorded" ELSE row.action

Once == INSTANCE DeliveryOnce WITH
  entry      <- [id \in Ids |-> Entry(rows[id])],
  epoch      <- cleared,
  dispatched <- [id \in Ids |-> {m.gen : m \in {x \in mailed : x.id = id}}]

ImplementsDeliveryOnce == Once!Spec

(* And what it promises to requests: whoever is past its claim owns its    *)
(* row, alone, and only it records or releases that row, whatever fails    *)
(* and wherever a request is cut off, until the administrator deletes.     *)
Owners == INSTANCE ClaimOwners WITH
  Callers <- Workers,
  entry   <- [id \in Ids |-> Entry(rows[id])],
  owners  <- [id \in Ids |-> {w \in Workers : pc[w] \in Claiming /\ Id(w) = id}],
  meddled <- ~NothingDeleted

ImplementsClaimOwners == Owners!Spec

(* Every registration the feed keeps offering is eventually recorded for   *)
(* good, if no request is cancelled, no statement fails, the process is    *)
(* not restarted and nothing is deleted.                                   *)
Undisturbed == \A kind \in {"cancel", "store", "restart", "admin"} : faults[kind] = 0

EventuallyRecorded ==
  []Undisturbed => \A reg \in Registrations : <>[]Recorded(reg.id)
=============================================================================
