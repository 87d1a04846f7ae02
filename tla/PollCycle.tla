----------------------------- MODULE PollCycle -----------------------------
(***************************************************************************)
(* A poll cycle from end to end: the scheduled workflow                    *)
(* (.github/workflows/poll.yml) posts to the poll endpoint, the handler    *)
(* runs RunCycle (internal/poll/poll.go), which fetches the export over a  *)
(* session that may have lapsed (internal/dgs/client.go), reads it record  *)
(* by record, and processes the candidates one after the other. Cycles     *)
(* overlap when the workflow gives up waiting and retries, and webhooks    *)
(* arrive in between.                                                      *)
(*                                                                         *)
(* What ProcessClassified does to one registration is two steps here, its  *)
(* claim and its end; Pipeline models what happens in between. Every kind  *)
(* of trouble is counted in "faults" and bounded by Limit.                 *)
(***************************************************************************)
EXTENDS Ingest, FiniteSets

CONSTANTS
  Cycles,      \* poll requests the server may be running at one time
  NoCycle,     \* what the workflow holds when it awaits none
  Rows,        \* lines that registrants may add to the export
  Payloads,    \* webhook bodies that may arrive
  Decisions,   \* delivery decisions the pipeline may take
  MaxRows,     \* bound on the length of the export
  Limit        \* bound on each kind of fault

Budgets == {"lapse", "silent_login", "site", "failure", "release", "timeout", "webhook", "restart"}
Outcomes == {"sent", "skipped", "redirected", "dry_run", "skipped_founder_existing"}
MaxAttempts == 3

ASSUME PollCycleAssumption ==
  /\ NoCycle \notin Cycles
  /\ Rows \subseteq Row
  /\ Payloads \subseteq Payload
  /\ Decisions \subseteq Outcomes
  /\ MaxRows \in Nat
  /\ Limit \in [Budgets -> Nat]

Ids == Addresses \cup Orders

VARIABLES
  export,     \* the lines the export holds now
  session,    \* does the site honour the cookie of the client's jar?
  loggedIn,   \* ExportClient.loggedIn
  entry,      \* [Ids -> ledger row, with the registrant's name]
  cycle,      \* [Cycles -> what a poll request holds]
  trigger,    \* the run of the workflow
  faults      \* [Budgets -> Nat]

vars == <<export, session, loggedIn, entry, cycle, trigger, faults>>

NoEntry == [state |-> "absent", name |-> Blank]
Entry(state, name) == [state |-> state, name |-> name]

(* The loop's own counters, one per delivery decision, and the rest.       *)
Counters == {"fetched", "processed", "already_seen", "unclassified", "failed"} \cup Outcomes
NoReport == [k \in Counters |-> 0]

Fetching == {"login", "export", "relogin", "reexport"}
Looping  == {"loop", "claim", "work"}
Steps    == {"idle", "parse", "answered"} \cup Fetching \cup Looping

(* feed, line: the export as fetched and the next line to read; spans: the *)
(* lines each record so far was read from, so that the loop's row number   *)
(* is one more than its length; parsed: what was read; next: the next      *)
(* candidate; status: the answer, 0 before it.                             *)
NoRequest == [pc |-> "idle", alive |-> TRUE, feed |-> <<>>, line |-> 1, spans |-> <<>>,
              parsed |-> NothingRead, next |-> 1, report |-> NoReport, status |-> 0, error |-> ""]

NoRun == [state |-> "idle", attempt |-> 0, cycle |-> NoCycle]
Waiting(c) == trigger.state = "waiting" /\ trigger.cycle = c

At(c, step) == cycle[c].pc = step
Current(c) == cycle[c].parsed.candidates[cycle[c].next]
RecordOf(c, k) == RecordAt(cycle[c].feed, cycle[c].spans[k].first, cycle[c].spans[k].last)

Init ==
  /\ export = <<>>
  /\ session = FALSE /\ loggedIn = FALSE
  /\ entry = [id \in Ids |-> NoEntry]
  /\ cycle = [c \in Cycles |-> NoRequest]
  /\ trigger = NoRun
  /\ faults = [k \in Budgets |-> 0]
-----------------------------------------------------------------------------
Fault(kind) ==
  /\ faults[kind] < Limit[kind]
  /\ faults' = [faults EXCEPT ![kind] = @ + 1]

Become(c, request) == cycle' = [cycle EXCEPT ![c] = request]
Goto(c, step)      == cycle' = [cycle EXCEPT ![c].pc = step]

(* RunCycle returns and the handler answers: 200, or 500 on any error.     *)
Answer(request, status, error) ==
  [request EXCEPT !.pc = "answered", !.status = status, !.error = error]

Fails(c, error) == Become(c, Answer(cycle[c], 500, error))

(* A registrant signs up, and the site's session ends without notice.      *)
Register(row) ==
  /\ Len(export) < MaxRows
  /\ export' = Append(export, row)
  /\ UNCHANGED <<session, loggedIn, entry, cycle, trigger, faults>>

Lapse ==
  /\ session /\ Fault("lapse")
  /\ session' = FALSE
  /\ UNCHANGED <<export, loggedIn, entry, cycle, trigger>>
-----------------------------------------------------------------------------
(* ExportClient.Fetch. Any request to the site fails once the context is   *)
(* done, or when the site fails.                                           *)
SiteFails(c) ==
  /\ cycle[c].pc \in Fetching
  /\ IF cycle[c].alive THEN Fault("site") ELSE UNCHANGED faults
  /\ Fails(c, "site")
  /\ UNCHANGED <<export, session, loggedIn, entry, trigger>>

(* A sign-in is taken for successful on any status below 400: also one     *)
(* that only shows the form again. Only the first sign-in of the process   *)
(* sets loggedIn.                                                          *)
Login(c) ==
  /\ cycle[c].pc \in {"login", "relogin"} /\ cycle[c].alive
  /\ \/ session' = TRUE /\ UNCHANGED faults
     \/ Fault("silent_login") /\ UNCHANGED session
  /\ loggedIn' = (loggedIn \/ At(c, "login"))
  /\ Goto(c, IF At(c, "login") THEN "export" ELSE "reexport")
  /\ UNCHANGED <<export, entry, trigger>>

(* Mutation: a sign-in page is an error at once, as before re-login. *)
FetchHTMLFails(c) ==
  /\ cycle[c].pc \in {"export", "reexport"} /\ cycle[c].alive
  /\ ~session
  /\ Fails(c, "not_csv")
  /\ UNCHANGED <<export, session, loggedIn, entry, trigger, faults>>

(* The site answers with the export, or with its sign-in page. *)
FetchCSV(c) ==
  /\ cycle[c].pc \in {"export", "reexport"} /\ cycle[c].alive
  /\ session
  /\ Become(c, [cycle[c] EXCEPT !.pc = "parse", !.feed = export])
  /\ UNCHANGED <<export, session, loggedIn, entry, trigger, faults>>

FetchHTML(c) ==
  /\ cycle[c].pc \in {"export", "reexport"} /\ cycle[c].alive
  /\ ~session
  /\ IF At(c, "export") THEN Goto(c, "relogin") ELSE Fails(c, "not_csv")
  /\ UNCHANGED <<export, session, loggedIn, entry, trigger, faults>>

(* ParseExport: the header cannot be read, or lacks a column. (Client.Fetch*)
(* passes it the season year that start-up made sure of.)                  *)
HeaderFails(c) ==
  /\ At(c, "parse") /\ cycle[c].spans = <<>>
  /\ Fault("site")
  /\ Fails(c, "header")
  /\ UNCHANGED <<export, session, loggedIn, entry, trigger>>

(* ParseExport's loop, a record at a time: here the one that begins at the *)
(* next line and ends at line m.                                           *)
RecordRead(request, m) ==
  [request EXCEPT
     !.line   = m + 1,
     !.spans  = Append(@, [first |-> request.line, last |-> m]),
     !.parsed = ReadRow(@, Len(request.spans) + 1, RecordAt(request.feed, request.line, m))]

ParseRow(c) ==
  /\ At(c, "parse")
  /\ \E m \in cycle[c].line..Len(cycle[c].feed) :
       RecordEnds(cycle[c].feed, cycle[c].line, m) /\ Become(c, RecordRead(cycle[c], m))
  /\ UNCHANGED <<export, session, loggedIn, entry, trigger, faults>>

(* Mutation: every row error is counted as an unknown division. *)
AllErrors(errs) == DOMAIN errs

(* RunCycle counts what ingest could not classify. Errors and nothing else *)
(* are a failed fetch, not an empty roster.                                *)
UnknownRows(errs) == {i \in DOMAIN errs : errs[i].what = Unknown}

Ingested(c) ==
  LET parsed  == cycle[c].parsed
      fetched == [cycle[c] EXCEPT !.report["fetched"] = Len(parsed.candidates),
                                  !.report["unclassified"] = Cardinality(UnknownRows(parsed.errs))]
  IN
  /\ At(c, "parse") /\ cycle[c].line > Len(cycle[c].feed)
  /\ Become(c, IF parsed.candidates = <<>> /\ parsed.errs # <<>>
               THEN Answer(fetched, 500, "ingest")
               ELSE [fetched EXCEPT !.pc = "loop"])
  /\ UNCHANGED <<export, session, loggedIn, entry, trigger, faults>>
-----------------------------------------------------------------------------
(* The loop over the candidates, which looks at the context between two.   *)
NextCandidate(c) ==
  /\ At(c, "loop")
  /\ IF cycle[c].next > Len(cycle[c].parsed.candidates)
     THEN Become(c, Answer(cycle[c], 200, ""))
     ELSE IF cycle[c].alive THEN Goto(c, "claim") ELSE Fails(c, "aborted")
  /\ UNCHANGED <<export, session, loggedIn, entry, trigger, faults>>

(* Mutation: the decision "skipped" has no counter. *)
CountExceptSkipped(c, counters) ==
  Become(c, [cycle[c] EXCEPT !.pc = "loop", !.next = @ + 1,
               !.report = [k \in Counters |-> @[k] + (IF k \in counters \ {"skipped"} THEN 1 ELSE 0)]])

(* The candidate is done and counted. *)
Count(c, counters) ==
  Become(c, [cycle[c] EXCEPT !.pc = "loop", !.next = @ + 1,
               !.report = [k \in Counters |-> @[k] + (IF k \in counters THEN 1 ELSE 0)]])

(* Mutation: a pending row is taken for one that was left behind. *)
ClaimPending(c) ==
  LET id == Current(c).id IN
  /\ At(c, "claim") /\ cycle[c].alive
  /\ IF entry[id].state # "recorded"
     THEN /\ entry' = [entry EXCEPT ![id] = Entry("pending", Current(c).name)]
          /\ Goto(c, "work")
     ELSE /\ Count(c, {"already_seen"})
          /\ UNCHANGED entry
  /\ UNCHANGED <<export, session, loggedIn, trigger, faults>>

(* ProcessClassified up to its claim. *)
Claim(c) ==
  LET id == Current(c).id IN
  /\ At(c, "claim") /\ cycle[c].alive
  /\ IF entry[id] = NoEntry
     THEN /\ entry' = [entry EXCEPT ![id] = Entry("pending", Current(c).name)]
          /\ Goto(c, "work")
     ELSE /\ Count(c, {"already_seen"})
          /\ UNCHANGED entry
  /\ UNCHANGED <<export, session, loggedIn, trigger, faults>>

(* The claim is refused, because of the context or the database; a context *)
(* that ends during the insert may leave its row behind.                   *)
ClaimFails(c) ==
  /\ At(c, "claim")
  /\ IF cycle[c].alive THEN Fault("failure") ELSE UNCHANGED faults
  /\ Count(c, {"failed"})
  /\ UNCHANGED <<export, session, loggedIn, entry, trigger>>

ClaimLost(c) ==
  LET id == Current(c).id IN
  /\ At(c, "claim") /\ ~cycle[c].alive
  /\ entry[id] = NoEntry
  /\ entry' = [entry EXCEPT ![id] = Entry("pending", Current(c).name)]
  /\ Count(c, {"failed"})
  /\ UNCHANGED <<export, session, loggedIn, trigger, faults>>

(* The rest of ProcessClassified, when a decision is recorded; when it     *)
(* fails and its claim is released; when the release fails too, which is   *)
(* only logged; and when the context ends on the way, which may leave the  *)
(* row pending, recorded or released.                                      *)
Finish(c, action) ==
  /\ At(c, "work") /\ cycle[c].alive
  /\ entry' = [entry EXCEPT ![Current(c).id].state = "recorded"]
  /\ Count(c, {"processed", action})
  /\ UNCHANGED <<export, session, loggedIn, trigger, faults>>

(* Mutation: the failure leaves its claim behind. *)
FinishStuck(c) ==
  /\ At(c, "work") /\ cycle[c].alive
  /\ Fault("failure")
  /\ Count(c, {"failed"})
  /\ UNCHANGED <<export, session, loggedIn, entry, trigger>>

FinishFails(c) ==
  /\ At(c, "work") /\ cycle[c].alive
  /\ Fault("failure")
  /\ entry' = [entry EXCEPT ![Current(c).id] = NoEntry]
  /\ Count(c, {"failed"})
  /\ UNCHANGED <<export, session, loggedIn, trigger>>

ReleaseFails(c) ==
  /\ At(c, "work") /\ cycle[c].alive
  /\ Fault("release")
  /\ Count(c, {"failed"})
  /\ UNCHANGED <<export, session, loggedIn, entry, trigger>>

FinishCancelled(c) ==
  /\ At(c, "work") /\ ~cycle[c].alive
  /\ \E left \in {NoEntry, entry[Current(c).id], Entry("recorded", Current(c).name)} :
       entry' = [entry EXCEPT ![Current(c).id] = left]
  /\ Count(c, {"failed"})
  /\ UNCHANGED <<export, session, loggedIn, trigger, faults>>
-----------------------------------------------------------------------------
(* The workflow: a new run, an attempt, its answer, or no answer within    *)
(* curl's time limit. Only a 200 ends the attempts early; the run is green *)
(* if the report then counts no failure.                                   *)
Dispatch ==
  /\ trigger.state \in {"idle", "green", "red"}
  /\ trigger' = [NoRun EXCEPT !.state = "pausing"]
  /\ UNCHANGED <<export, session, loggedIn, entry, cycle, faults>>

Attempt(c) ==
  /\ trigger.state = "pausing"
  /\ At(c, "idle")
  /\ trigger' = [state |-> "waiting", attempt |-> trigger.attempt + 1, cycle |-> c]
  /\ Goto(c, IF loggedIn THEN "export" ELSE "login")
  /\ UNCHANGED <<export, session, loggedIn, entry, faults>>

(* Mutation: one attempt too many. *)
RetryOnceMore ==
  trigger' = [trigger EXCEPT !.state = IF trigger.attempt <= MaxAttempts THEN "pausing" ELSE "red",
                             !.cycle = NoCycle]

GiveUpOrRetry ==
  trigger' = [trigger EXCEPT !.state = IF trigger.attempt < MaxAttempts THEN "pausing" ELSE "red",
                             !.cycle = NoCycle]

(* Mutation: the workflow does not look at the failed registrations. *)
RespondGreen(c) ==
  /\ At(c, "answered")
  /\ Waiting(c)
  /\ IF cycle[c].status = 200
     THEN trigger' = [trigger EXCEPT !.state = "green", !.cycle = NoCycle]
     ELSE GiveUpOrRetry
  /\ Become(c, NoRequest)
  /\ UNCHANGED <<export, session, loggedIn, entry, faults>>

Respond(c) ==
  /\ At(c, "answered")
  /\ Waiting(c)
  /\ IF cycle[c].status = 200
     THEN trigger' = [trigger EXCEPT
                        !.state = IF cycle[c].report["failed"] = 0 THEN "green" ELSE "red",
                        !.cycle = NoCycle]
     ELSE GiveUpOrRetry
  /\ Become(c, NoRequest)
  /\ UNCHANGED <<export, session, loggedIn, entry, faults>>

Timeout ==
  /\ trigger.state = "waiting"
  /\ Fault("timeout")
  /\ GiveUpOrRetry
  /\ UNCHANGED <<export, session, loggedIn, entry, cycle>>

(* The server learns that nobody waits any more, or answers nobody. *)
Disconnect(c) ==
  /\ ~Waiting(c) /\ cycle[c].alive /\ cycle[c].pc \notin {"idle", "answered"}
  /\ cycle' = [cycle EXCEPT ![c].alive = FALSE]
  /\ UNCHANGED <<export, session, loggedIn, entry, trigger, faults>>

Unread(c) ==
  /\ At(c, "answered") /\ ~Waiting(c)
  /\ Become(c, NoRequest)
  /\ UNCHANGED <<export, session, loggedIn, entry, trigger, faults>>

(* The machine restarts: the ledger survives, the cookie jar and the       *)
(* requests do not, and a waiting workflow loses its connection.           *)
Restart ==
  /\ Fault("restart")
  /\ session' = FALSE /\ loggedIn' = FALSE
  /\ cycle' = [c \in Cycles |-> NoRequest]
  /\ IF trigger.state = "waiting" THEN GiveUpOrRetry ELSE UNCHANGED trigger
  /\ UNCHANGED <<export, entry>>

(* A webhook delivery, from its payload to its answer. One that cannot be  *)
(* given an expiry is claimed, fails and is released.                      *)
PostWebhook(p) ==
  LET reg == Webhook(p) IN
  /\ Fault("webhook")
  /\ entry' = IF WebhookAccepted(p) /\ entry[reg.id] = NoEntry /\ Expirable(reg)
              THEN [entry EXCEPT ![reg.id] = Entry("recorded", reg.name)]
              ELSE entry
  /\ UNCHANGED <<export, session, loggedIn, cycle, trigger>>
-----------------------------------------------------------------------------
Fetch(c)   == \/ SiteFails(c) \/ Login(c) \/ FetchCSV(c) \/ FetchHTML(c)
              \/ HeaderFails(c) \/ ParseRow(c) \/ Ingested(c)
Process(c) == \/ NextCandidate(c) \/ Claim(c) \/ ClaimFails(c) \/ ClaimLost(c)
              \/ FinishFails(c) \/ ReleaseFails(c) \/ FinishCancelled(c)
              \/ \E action \in Decisions : Finish(c, action)
Serve(c)   == Fetch(c) \/ Process(c) \/ Respond(c) \/ Unread(c)

Next ==
  \/ \E row \in Rows : Register(row)
  \/ \E p \in Payloads : PostWebhook(p)
  \/ Lapse \/ Dispatch \/ Timeout \/ Restart
  \/ \E c \in Cycles : Attempt(c) \/ Disconnect(c) \/ Serve(c)

Spec == Init /\ [][Next]_vars

(* The server keeps serving and somebody keeps dispatching the workflow.   *)
Fairness ==
  /\ \A c \in Cycles : WF_vars(Serve(c))
  /\ WF_vars(Dispatch)
  /\ WF_vars(\E c \in Cycles : Attempt(c))

FairSpec == Spec /\ Fairness
-----------------------------------------------------------------------------
Span == [first : Nat \ {0}, last : Nat \ {0}]

Request ==
  [pc : Steps, alive : BOOLEAN, feed : Seq(Rows), line : Nat \ {0},
   spans : Seq(Span), parsed : Parsed, next : Nat \ {0}, report : [Counters -> Nat], status : {0, 200, 500},
   error : {"", "site", "not_csv", "header", "ingest", "aborted"}]

(* The one type invariant of the poll cycle. *)
TypeOK ==
  /\ export \in Seq(Rows)
  /\ session \in BOOLEAN /\ loggedIn \in BOOLEAN
  /\ entry \in [Ids -> [state : {"absent", "pending", "recorded"}, name : Names \cup {Blank}]]
  /\ cycle \in [Cycles -> Request]
  /\ trigger \in [state : {"idle", "pausing", "waiting", "green", "red"},
                  attempt : 0..MaxAttempts, cycle : Cycles \cup {NoCycle}]
  /\ faults \in [Budgets -> Nat]

Done(report) == report["processed"] + report["already_seen"] + report["failed"]
Decided(report) == report["sent"] + report["skipped"] + report["redirected"]
                     + report["dry_run"] + report["skipped_founder_existing"]

(* The report the workflow prints adds up: every fetched registration was  *)
(* processed, already seen or failed, and every processed one was counted  *)
(* under exactly one decision, however cycles, webhooks and failures       *)
(* interleave (RunCycle, Report).                                          *)
Balances(request) ==
  /\ request.report["fetched"] = Len(request.parsed.candidates)
  /\ request.report["fetched"] = Done(request.report)
  /\ request.report["processed"] = Decided(request.report)

ReportBalances ==
  \A c \in Cycles : At(c, "answered") /\ cycle[c].status = 200 => Balances(cycle[c])

(* Each row of an unknown division is counted as unclassified, once, in    *)
(* the report of every cycle that read the export, also of one that failed *)
(* later (RunCycle: "It must still count toward Unclassified").            *)
UnknownRowsCounted ==
  \A c \in Cycles :
    cycle[c].pc \in Looping \cup {"answered"} /\ cycle[c].error \notin {"site", "not_csv", "header"} =>
      cycle[c].report["unclassified"] =
        Cardinality({k \in DOMAIN cycle[c].spans :
                       ~IsTotalsRow(RecordOf(c, k)) /\ RowError(RecordOf(c, k)) = Unknown})

(* Only a row that leaves a quote open takes its neighbours with it: any   *)
(* other line of the export is a record of its own, and every record is    *)
(* the summary line, a candidate, or reported under its row number, so no  *)
(* line read is dropped without a trace (ParseExport).                     *)
NoRowLost ==
  \A c \in Cycles : \A n \in 1..(cycle[c].line - 1) :
    \E k \in DOMAIN cycle[c].spans :
      LET span == cycle[c].spans[k]  parsed == cycle[c].parsed IN
      /\ n \in span.first..span.last
      /\ n = span.first \/ cycle[c].feed[span.first].quotes \in Openers
      /\ \/ IsTotalsRow(RecordOf(c, k))
         \/ \E i \in DOMAIN parsed.candidates : parsed.candidates[i] = Candidate(RecordOf(c, k))
         \/ \E i \in DOMAIN parsed.errs : parsed.errs[i].row = k

(* A cycle that fails because the site would not hand out the export has   *)
(* met trouble twice: one lapsed session, or one sign-in that opened none, *)
(* is healed within the fetch, whoever else uses the cookie jar.           *)
OneLapseHeals ==
  \A c \in Cycles : cycle[c].error = "not_csv" => faults["lapse"] + faults["silent_login"] >= 2

(* The two steps of a registration keep what the ledger promises to those  *)
(* who claim, as the many of Pipeline do: a cycle past a claim owns its    *)
(* row, alone, though cycles overlap, are cut off in the middle and forget *)
(* what they held, and only that cycle records or releases the row.        *)
Owners == INSTANCE ClaimOwners WITH
  Callers <- Cycles,
  entry   <- [id \in Ids |-> entry[id].state],
  owners  <- [id \in Ids |-> {c \in Cycles : At(c, "work") /\ Current(c).id = id}],
  meddled <- FALSE

ImplementsClaimOwners == Owners!Spec

(* When a run of the workflow ends green, every usable row its last cycle  *)
(* read is on record, as long as no attempt has been given up, the         *)
(* machine has not restarted and every release has worked: a claim that    *)
(* nobody will finish is counted as already seen by the next cycle.        *)
Undisturbed == \A kind \in {"timeout", "restart", "release"} : faults[kind] = 0

GreenMeansRecorded ==
  [][\A c \in Cycles : Respond(c) /\ trigger'.state = "green" /\ Undisturbed =>
       \A k \in DOMAIN cycle[c].spans :
         Usable(RecordOf(c, k)) =>
           entry[RegistrationID(RecordOf(c, k).email)].state = "recorded"]_vars

(* The records of an export: a line begins one if the record before it     *)
(* ends at the line before.                                                *)
RecordsOf(lines) ==
  LET begins[n \in DOMAIN lines] ==
        n = 1 \/ \E k \in 1..(n - 1) : begins[k] /\ RecordEnds(lines, k, n - 1)
  IN UNION {{RecordAt(lines, n, m) : m \in {k \in n..Len(lines) : RecordEnds(lines, n, k)}} :
              n \in {k \in DOMAIN lines : begins[k]}}

(* Every usable row of the export is eventually on record, through lapsed  *)
(* sessions, site errors and failed deliveries, unless a release failed    *)
(* and left a claim that nobody works on. (No timeout, no restart.)        *)
Abandoned(a) ==
  /\ entry[a].state = "pending"
  /\ \A c \in Cycles : At(c, "work") => Current(c).id # a

RosterServed ==
  \A a \in Addresses :
    (\E row \in RecordsOf(export) : Usable(row) /\ RegistrationID(row.email) = a)
      ~> (entry[a].state = "recorded" \/ (faults["release"] > 0 /\ Abandoned(a)))
=============================================================================
