-------------------------- MODULE PollCycleProofs --------------------------
(***************************************************************************)
(* Proofs about the poll cycle, for any number of overlapping cycles, any  *)
(* export and any faults: types and the balance of the report, from what   *)
(* every request satisfies; then, from the ways one request can go on, the *)
(* lapses of the session that it takes to fail a fetch, what becomes of    *)
(* the rows read, what a green run promises, and that a cycle past its     *)
(* claim owns its row, as ClaimOwners has it.                              *)
(***************************************************************************)
EXTENDS PollCycle, FiniteSetTheorems, TLAPS

USE DEF At, Goto, Become

(* A usable row becomes a well-formed candidate. *)
LEMMA CandidateType ==
  ASSUME NEW row \in Row, Usable(row)
  PROVE  Candidate(row) \in Candidates
<1>1. RowError(row) = "none" /\ Readable(row)
  BY DEF Usable, RowError, IsTotalsRow, Unknown
<1>2. ClassifyDivision(row.division) # Unknown
  BY <1>1 DEF RowError, Unknown
<1>3. Valid(RegistrationID(row.email), row.name, row.email, row.date)
  BY <1>1, <1>2 DEF RowError, Unknown
<1>4. row.name \in Names /\ RegistrationID(row.email) \in Addresses
  BY <1>3 DEF Valid, Row, RegistrationID, Addresses
<1>5. ClassifyDivision(row.division) \in {"season_membership", "founder", "sponsor"}
  BY <1>2 DEF ClassifyDivision, Unknown
<1>6. QED
  BY <1>4, <1>5 DEF Candidate, Candidates, Row

LEMMA RowErrorType ==
  ASSUME NEW row \in Row, ~IsTotalsRow(row), ~Usable(row)
  PROVE  RowError(row) \in Whats
BY DEF RowError, Whats, Usable, Unknown

(* One turn of the loop keeps what was read well formed. *)
LEMMA ReadRowType ==
  ASSUME NEW parsed \in Parsed, NEW n \in Nat, NEW row \in Row
  PROVE  ReadRow(parsed, n, row) \in Parsed
<1>1. CASE IsTotalsRow(row)
  BY <1>1 DEF ReadRow
<1>2. CASE ~IsTotalsRow(row)
  <2> DEFINE whats == (IF PdgaWarning(row) THEN <<"pdga">> ELSE <<>>)
                        \o (IF Usable(row) THEN <<>> ELSE <<RowError(row)>>)
  <2>1. whats \in Seq(Whats)
    <3>1. (IF PdgaWarning(row) THEN <<"pdga">> ELSE <<>>) \in Seq(Whats)
      <4>1. "pdga" \in Whats
        BY DEF Whats
      <4>2. QED
        BY <4>1
    <3>2. (IF Usable(row) THEN <<>> ELSE <<RowError(row)>>) \in Seq(Whats)
      BY <1>2, RowErrorType
    <3>3. QED
      BY <3>1, <3>2
  <2>2. RowErrors(n, row) \in Seq(Reports)
    <3>1. RowErrors(n, row) = [i \in DOMAIN whats |-> [row |-> n, what |-> whats[i]]]
      BY DEF RowErrors
    <3> HIDE DEF whats
    <3>2. DOMAIN whats = 1..Len(whats) /\ Len(whats) \in Nat
      BY <2>1
    <3>3. \A i \in 1..Len(whats) : [row |-> n, what |-> whats[i]] \in Reports
      BY <2>1, <3>2 DEF Reports
    <3>4. QED
      BY <3>1, <3>2, <3>3
  <2>3. parsed.errs \o RowErrors(n, row) \in Seq(Reports)
    BY <2>2 DEF Parsed
  <2>4. (IF Usable(row) THEN Append(parsed.candidates, Candidate(row)) ELSE parsed.candidates)
          \in Seq(Candidates)
    BY CandidateType DEF Parsed
  <2>5. QED
    BY <1>2, <2>3, <2>4 DEF ReadRow, Parsed
<1>3. QED
  BY <1>1, <1>2

LEMMA WebhookType ==
  ASSUME NEW p \in Payload, WebhookAccepted(p)
  PROVE  Webhook(p).id \in Orders /\ Webhook(p).name \in Names
<1>1. Webhook(p).id # Blank /\ Webhook(p).name # Blank
  BY DEF WebhookAccepted, Valid
<1>2. Webhook(p).id = FirstNonEmpty(p.ids) /\ Webhook(p).name = FirstNonEmpty(p.names)
  BY DEF Webhook
<1>3. p.ids \in [1..3 -> Orders \cup {Blank}] /\ p.names \in [1..3 -> Names \cup {Blank}]
  BY DEF Payload, Aliases
<1>4. QED
  BY <1>1, <1>2, <1>3 DEF FirstNonEmpty

(* A record is well formed, whatever lines it takes in.                    *)
LEMMA RecordType ==
  ASSUME NEW feed \in Seq(Rows), NEW n \in 1..Len(feed), NEW m \in n..Len(feed)
  PROVE  RecordAt(feed, n, m) \in Row
<1>1. feed[n] \in Row /\ feed[m] \in Row
  <2>1. n \in 1..Len(feed) /\ m \in 1..Len(feed)
    OBVIOUS
  <2>2. feed[n] \in Rows /\ feed[m] \in Rows
    BY <2>1
  <2>3. QED
    BY <2>2, PollCycleAssumption
<1>2. "paired" \in {"plain", "paired", "stray", "closes"} \cup Openers
  OBVIOUS
<1>3. \A row \in Row : [row EXCEPT !.quotes = "paired"] \in Row
  BY <1>2 DEF Row
<1>4. \A row \in Row, first \in Row :
        [row EXCEPT !.quotes = "paired", !.division = first.division, !.name = first.name] \in Row
  BY <1>2 DEF Row
<1>5. QED
  BY <1>1, <1>3, <1>4 DEF RecordAt

-----------------------------------------------------------------------------
(* All along the loop, the candidates before the next one are counted.     *)
InStep(request) ==
  /\ request.pc \in Looping =>
       /\ request.report["fetched"] = Len(request.parsed.candidates)
       /\ request.next - 1 = Done(request.report)
       /\ request.report["processed"] = Decided(request.report)
       /\ request.next <= Len(request.parsed.candidates) + 1
  /\ request.pc \in {"claim", "work"} => request.next <= Len(request.parsed.candidates)
  /\ request.pc \in {"idle", "parse"} \cup Fetching =>
       request.report = NoReport /\ request.next = 1

(* What every request satisfies at every step, and the rest of TypeOK.     *)
Sound(request) ==
  /\ request \in Request
  /\ InStep(request)
  /\ request.pc = "answered" /\ request.status = 200 => Balances(request)

AllSound == cycle \in [Cycles -> Request] /\ \A c \in Cycles : Sound(cycle[c])

Surroundings ==
  /\ export \in Seq(Rows)
  /\ session \in BOOLEAN /\ loggedIn \in BOOLEAN
  /\ entry \in [Ids -> [state : {"absent", "pending", "recorded"}, name : Names \cup {Blank}]]
  /\ trigger \in [state : {"idle", "pausing", "waiting", "green", "red"},
                  attempt : 0..MaxAttempts, cycle : Cycles \cup {NoCycle}]
  /\ faults \in [Budgets -> Nat]

(* A run that pauses has an attempt left.                                  *)
AttemptsLeft == trigger.state = "pausing" => trigger.attempt < MaxAttempts

IInv == AllSound /\ Surroundings /\ AttemptsLeft

LEMMA IInvImplies == IInv => TypeOK /\ ReportBalances
BY DEF IInv, AllSound, Surroundings, Sound, TypeOK, ReportBalances

(* It is enough to look at the one request a step changes. *)
LEMMA OneRequest ==
  ASSUME AllSound, NEW c \in Cycles, NEW request, Sound(request),
         cycle' = [cycle EXCEPT ![c] = request]
  PROVE  AllSound'
BY DEF AllSound, Sound

LEMMA OneStep ==
  ASSUME AllSound, NEW c \in Cycles, NEW step, Sound([cycle[c] EXCEPT !.pc = step]), Goto(c, step)
  PROVE  AllSound'
<1>1. cycle' = [cycle EXCEPT ![c] = [cycle[c] EXCEPT !.pc = step]]
  BY DEF AllSound
<1>2. QED
  BY <1>1, OneRequest

LEMMA NoRequestSound == Sound(NoRequest)
<1>1. NoReport \in [Counters -> Nat]
  BY DEF NoReport
<1>2. NothingRead \in Parsed
  BY DEF NothingRead, Parsed
<1>3. NoRequest \in Request
  BY <1>1, <1>2 DEF NoRequest, Request, Steps
<1>4. QED
  BY <1>3 DEF Sound, NoRequest, InStep, Looping, Fetching

LEMMA RequestFields ==
  ASSUME NEW request \in Request
  PROVE  /\ request.parsed \in Parsed
         /\ request.next \in Nat \ {0}
         /\ request.report \in [Counters -> Nat]
         /\ request.parsed.candidates \in Seq(Candidates)
         /\ Len(request.parsed.candidates) \in Nat
         /\ request.line \in Nat \ {0}
         /\ request.feed \in Seq(Rows)
         /\ request.spans \in Seq(Span)
<1>1. request.parsed \in Parsed /\ request.next \in Nat \ {0} /\ request.report \in [Counters -> Nat]
  BY DEF Request
<1>2. request.parsed.candidates \in Seq(Candidates)
  BY <1>1 DEF Parsed
<1>3. request.line \in Nat \ {0} /\ request.feed \in Seq(Rows) /\ request.spans \in Seq(Span)
  BY DEF Request
<1>4. QED
  BY <1>1, <1>2, <1>3

(* Changing some fields of a request leaves its counts alone.               *)
LEMMA KeptFields ==
  ASSUME NEW request \in Request, NEW u, NEW v, NEW w
  PROVE  /\ LET new == [[request EXCEPT !.pc = v] EXCEPT !.feed = w] IN
              new.pc = v /\ new.report = request.report /\ new.next = request.next
         /\ LET new == [[[request EXCEPT !.line = u] EXCEPT !.spans = v] EXCEPT !.parsed = w] IN
              new.pc = request.pc /\ new.report = request.report /\ new.next = request.next
         /\ LET new == [request EXCEPT !.alive = v] IN
              /\ new.pc = request.pc /\ new.report = request.report /\ new.next = request.next
              /\ new.parsed = request.parsed /\ new.status = request.status
<1>1. {"pc", "alive", "feed", "line", "spans", "parsed"} \subseteq DOMAIN request
  BY ZenonT(60) DEF Request
<1>2. LET new == [[request EXCEPT !.pc = v] EXCEPT !.feed = w] IN
        new.pc = v /\ new.report = request.report /\ new.next = request.next
  BY <1>1
<1>3. LET new == [[[request EXCEPT !.line = u] EXCEPT !.spans = v] EXCEPT !.parsed = w] IN
        new.pc = request.pc /\ new.report = request.report /\ new.next = request.next
  BY <1>1
<1>4. LET new == [request EXCEPT !.alive = v] IN
        /\ new.pc = request.pc /\ new.report = request.report /\ new.next = request.next
        /\ new.parsed = request.parsed /\ new.status = request.status
  BY <1>1
<1>5. QED
  BY <1>2, <1>3, <1>4

(* A request keeps its type when one field gets a value of the field's.    *)
Statuses == {0, 200, 500}
Errors == {"", "site", "not_csv", "header", "ingest", "aborted"}

LEMMA FieldTypes ==
  ASSUME NEW request \in Request
  PROVE  /\ \A v \in Steps : [request EXCEPT !.pc = v] \in Request
         /\ \A v \in BOOLEAN : [request EXCEPT !.alive = v] \in Request
         /\ \A v \in Seq(Rows) : [request EXCEPT !.feed = v] \in Request
         /\ \A v \in Nat \ {0} : [request EXCEPT !.line = v] \in Request
         /\ \A v \in Seq(Span) : [request EXCEPT !.spans = v] \in Request
         /\ \A v \in Parsed : [request EXCEPT !.parsed = v] \in Request
         /\ \A v \in Nat \ {0} : [request EXCEPT !.next = v] \in Request
         /\ \A v \in [Counters -> Nat] : [request EXCEPT !.report = v] \in Request
         /\ \A v \in Statuses : [request EXCEPT !.status = v] \in Request
         /\ \A v \in Errors : [request EXCEPT !.error = v] \in Request
<1>1. Request = [pc : Steps, alive : BOOLEAN, feed : Seq(Rows), line : Nat \ {0},
                 spans : Seq(Span), parsed : Parsed, next : Nat \ {0}, report : [Counters -> Nat], status : Statuses, error : Errors]
  BY DEF Request, Statuses, Errors
<1>2. ASSUME NEW v \in Steps PROVE [request EXCEPT !.pc = v] \in Request
  BY <1>1
<1>3. ASSUME NEW v \in BOOLEAN PROVE [request EXCEPT !.alive = v] \in Request
  BY <1>1
<1>4. ASSUME NEW v \in Seq(Rows) PROVE [request EXCEPT !.feed = v] \in Request
  BY <1>1
<1>5. ASSUME NEW v \in Nat \ {0} PROVE [request EXCEPT !.line = v] \in Request
  BY <1>1
<1>12. ASSUME NEW v \in Seq(Span) PROVE [request EXCEPT !.spans = v] \in Request
  BY <1>1
<1>6. ASSUME NEW v \in Parsed PROVE [request EXCEPT !.parsed = v] \in Request
  BY <1>1
<1>7. ASSUME NEW v \in Nat \ {0} PROVE [request EXCEPT !.next = v] \in Request
  BY <1>1
<1>8. ASSUME NEW v \in [Counters -> Nat] PROVE [request EXCEPT !.report = v] \in Request
  BY <1>1
<1>9. ASSUME NEW v \in Statuses PROVE [request EXCEPT !.status = v] \in Request
  BY <1>1
<1>10. ASSUME NEW v \in Errors PROVE [request EXCEPT !.error = v] \in Request
  BY <1>1
<1>11. QED
  BY <1>2, <1>3, <1>4, <1>5, <1>6, <1>7, <1>8, <1>9, <1>10, <1>12

(* A request that fails is sound again: no report of its own is promised.  *)
LEMMA AnswerSound ==
  ASSUME NEW request \in Request, NEW error \in {"site", "not_csv", "header", "ingest", "aborted"}
  PROVE  Sound(Answer(request, 500, error))
<1> DEFINE new == Answer(request, 500, error)
<1>1. "answered" \in Steps /\ 500 \in Statuses /\ error \in Errors
  BY ZenonT(60) DEF Steps, Statuses, Errors
<1>2. new \in Request
  <2> DEFINE answered == [request EXCEPT !.pc = "answered"]
             refused  == [answered EXCEPT !.status = 500]
  <2>1. answered \in Request
    BY <1>1, FieldTypes
  <2> HIDE DEF answered
  <2>2. refused \in Request
    BY <1>1, <2>1, FieldTypes
  <2> HIDE DEF refused
  <2>3. [refused EXCEPT !.error = error] \in Request
    BY <1>1, <2>2, FieldTypes
  <2>4. QED
    BY <2>3 DEF Answer, answered, refused
<1>3. new.pc = "answered" /\ new.status = 500
  BY ZenonT(60) DEF Answer, Request
<1> HIDE DEF new
<1>4. Sound(new)
  BY <1>2, <1>3 DEF Sound, InStep, Looping, Fetching
<1>5. QED
  BY <1>4 DEF new

LEMMA CandidateAt ==
  ASSUME AllSound, NEW c \in Cycles, cycle[c].pc \in {"claim", "work"}
  PROVE  Current(c) \in Candidates
<1>1. cycle[c] \in Request /\ InStep(cycle[c])
  BY DEF AllSound, Sound
<1>2. cycle[c].next <= Len(cycle[c].parsed.candidates)
  BY <1>1 DEF InStep
<1>3. cycle[c].next \in 1..Len(cycle[c].parsed.candidates)
  BY <1>1, <1>2, RequestFields
<1>4. QED
  BY <1>1, <1>3, RequestFields DEF Current

(* Counting a candidate keeps the loop in step, whichever way it ended.    *)
Endings == {{"already_seen"}, {"failed"}} \cup {{"processed", o} : o \in Outcomes}

LEMMA CounterNames ==
  /\ {"fetched", "processed", "already_seen", "unclassified", "failed"} \subseteq Counters
  /\ {"sent", "skipped", "redirected", "dry_run", "skipped_founder_existing"} \subseteq Counters
BY DEF Counters, Outcomes

LEMMA OneMore ==
  ASSUME NEW f \in [Counters -> Nat], NEW counters \in Endings, NEW g,
         g = [k \in Counters |-> f[k] + (IF k \in counters THEN 1 ELSE 0)]
  PROVE  /\ g \in [Counters -> Nat]
         /\ g["fetched"] = f["fetched"]
         /\ Done(f) \in Nat /\ Done(g) = Done(f) + 1
         /\ f["processed"] = Decided(f) => g["processed"] = Decided(g)
<1>1. \A k \in Counters : f[k] \in Nat /\ g[k] = f[k] + (IF k \in counters THEN 1 ELSE 0)
  OBVIOUS
<1>2. CASE counters = {"already_seen"}
  <2>1. \A k \in Counters \ {"already_seen"} : g[k] = f[k]
    BY <1>1, <1>2
  <2>2. g["already_seen"] = f["already_seen"] + 1
    BY <1>1, <1>2, CounterNames
  <2>3. QED
    BY <1>1, <2>1, <2>2, CounterNames DEF Done, Decided
<1>3. CASE counters = {"failed"}
  <2>1. \A k \in Counters \ {"failed"} : g[k] = f[k]
    BY <1>1, <1>3
  <2>2. g["failed"] = f["failed"] + 1
    BY <1>1, <1>3, CounterNames
  <2>3. QED
    BY <1>1, <2>1, <2>2, CounterNames DEF Done, Decided
<1>4. ASSUME NEW o \in Outcomes, counters = {"processed", o}
      PROVE  /\ g["fetched"] = f["fetched"]
             /\ Done(f) \in Nat /\ Done(g) = Done(f) + 1
             /\ f["processed"] = Decided(f) => g["processed"] = Decided(g)
  <2>1. \A k \in Counters \ {"processed", o} : g[k] = f[k]
    BY <1>1, <1>4
  <2>2. g["processed"] = f["processed"] + 1 /\ g[o] = f[o] + 1
    BY <1>1, <1>4, CounterNames DEF Outcomes
  <2>3. Done(f) \in Nat /\ Done(g) = Done(f) + 1 /\ g["fetched"] = f["fetched"]
    BY <1>1, <2>1, <2>2, CounterNames DEF Done, Outcomes
  <2>4. Decided(f) \in Nat /\ Decided(g) = Decided(f) + 1
    BY <1>1, <2>1, <2>2, CounterNames DEF Decided, Outcomes
  <2>5. QED
    BY <2>2, <2>3, <2>4
<1>5. QED
  BY <1>1, <1>2, <1>3, <1>4 DEF Endings

LEMMA CountedRequest ==
  ASSUME NEW request \in Request, NEW report \in [Counters -> Nat]
  PROVE  [request EXCEPT !.pc = "loop", !.next = request.next + 1, !.report = report] \in Request
<1>1. "loop" \in Steps
  BY DEF Steps, Looping
<1>2. request.next + 1 \in Nat \ {0}
  BY RequestFields
<1> DEFINE looping == [request EXCEPT !.pc = "loop"]
           onward  == [looping EXCEPT !.next = request.next + 1]
<1>3. looping \in Request
  BY <1>1, FieldTypes
<1> HIDE DEF looping
<1>4. onward \in Request
  BY <1>2, <1>3, FieldTypes
<1> HIDE DEF onward
<1>5. [onward EXCEPT !.report = report] \in Request
  BY <1>4, FieldTypes
<1>6. QED
  BY <1>5 DEF looping, onward

LEMMA CountSound ==
  ASSUME AllSound, NEW c \in Cycles, cycle[c].pc \in {"claim", "work"},
         NEW counters \in Endings, Count(c, counters)
  PROVE  AllSound'
<1> DEFINE old == cycle[c]
           report == [k \in Counters |-> old.report[k] + (IF k \in counters THEN 1 ELSE 0)]
           new == [old EXCEPT !.pc = "loop", !.next = old.next + 1, !.report = report]
<1>1. old \in Request /\ InStep(old)
  BY DEF AllSound, Sound
<1>2. /\ old.report["fetched"] = Len(old.parsed.candidates)
      /\ old.next - 1 = Done(old.report)
      /\ old.report["processed"] = Decided(old.report)
      /\ old.next <= Len(old.parsed.candidates)
  BY <1>1 DEF InStep, Looping
<1>3. old.report \in [Counters -> Nat]
  BY <1>1, RequestFields
<1>4. /\ report \in [Counters -> Nat]
      /\ report["fetched"] = old.report["fetched"]
      /\ Done(report) = Done(old.report) + 1
      /\ report["processed"] = Decided(report)
  <2> HIDE DEF old
  <2>1. QED
    BY <1>2, <1>3, OneMore
<1>5. old.next \in Nat /\ Len(old.parsed.candidates) \in Nat
  BY <1>1, RequestFields
<1>7. /\ new.pc = "loop" /\ new.next = old.next + 1
      /\ new.report = report /\ new.parsed = old.parsed
  BY ZenonT(60), <1>1 DEF Request
<1>8. new \in Request
  BY <1>1, <1>4, CountedRequest
<1>9. cycle' = [cycle EXCEPT ![c] = new]
  BY DEF Count
<1> HIDE DEF new, report, old
<1>10. InStep(new)
  BY <1>2, <1>4, <1>5, <1>7 DEF InStep, Looping, Fetching
<1>11. Sound(new)
  BY <1>7, <1>8, <1>10 DEF Sound
<1>12. QED
  BY <1>9, <1>11, OneRequest
-----------------------------------------------------------------------------
(* The steps before the loop: nothing is counted yet.                      *)
Early == {"idle", "parse"} \cup Fetching

LEMMA StepNames == Early \subseteq Steps /\ Looping \subseteq Steps
BY DEF Early, Steps

LEMMA EarlySound ==
  ASSUME NEW request \in Request, request.pc \in Early,
         request.report = NoReport, request.next = 1
  PROVE  Sound(request)
BY DEF Sound, InStep, Early, Looping, Fetching

LEMMA EarlyCounts ==
  ASSUME NEW request, Sound(request), request.pc \in Early
  PROVE  request \in Request /\ request.report = NoReport /\ request.next = 1
BY DEF Sound, InStep, Early

(* A step of the fetch, or a row read, stays before the loop.              *)
LEMMA EarlyStep ==
  ASSUME NEW request, Sound(request), request.pc \in Early, NEW step \in Early
  PROVE  Sound([request EXCEPT !.pc = step])
<1> DEFINE new == [request EXCEPT !.pc = step]
<1>1. request \in Request /\ request.report = NoReport /\ request.next = 1
  BY EarlyCounts
<1>2. new \in Request
  BY <1>1, FieldTypes, StepNames
<1>3. new.pc = step /\ new.report = NoReport /\ new.next = 1
  BY ZenonT(60), <1>1 DEF Request
<1> HIDE DEF new
<1>4. Sound(new)
  BY <1>2, <1>3, EarlySound
<1>5. QED
  BY <1>4 DEF new

(* From one step of the loop to the next: a candidate is taken, claimed.   *)
LEMMA LoopStep ==
  ASSUME NEW request, Sound(request), NEW step,
         \/ request.pc = "loop" /\ step = "claim" /\ request.next <= Len(request.parsed.candidates)
         \/ request.pc = "claim" /\ step = "work"
  PROVE  Sound([request EXCEPT !.pc = step])
<1> DEFINE new == [request EXCEPT !.pc = step]
<1>1. request \in Request /\ InStep(request) /\ request.pc \in Looping
  BY DEF Sound, Looping
<1>2. new \in Request
  BY <1>1, FieldTypes, StepNames DEF Looping
<1>3. /\ new.pc = step /\ new.next = request.next
      /\ new.report = request.report /\ new.parsed = request.parsed
  BY ZenonT(60), <1>1 DEF Request
<1>4. /\ request.report["fetched"] = Len(request.parsed.candidates)
      /\ request.next - 1 = Done(request.report)
      /\ request.report["processed"] = Decided(request.report)
      /\ request.next <= Len(request.parsed.candidates)
  BY <1>1 DEF InStep, Looping
<1>5. request.next \in Nat /\ Len(request.parsed.candidates) \in Nat
  BY <1>1, RequestFields
<1> HIDE DEF new
<1>6. InStep(new)
  BY <1>3, <1>4, <1>5 DEF InStep, Looping, Fetching
<1>7. Sound(new)
  BY <1>2, <1>3, <1>6 DEF Sound
<1>8. QED
  BY <1>7 DEF new

(* The loop is over: the answer balances.                                  *)
LEMMA LoopDone ==
  ASSUME NEW request, Sound(request), request.pc = "loop",
         request.next > Len(request.parsed.candidates)
  PROVE  Sound(Answer(request, 200, ""))
<1> DEFINE answered == [request EXCEPT !.pc = "answered"]
           accepted == [answered EXCEPT !.status = 200]
           new == [accepted EXCEPT !.error = ""]
<1>1. request \in Request /\ InStep(request)
  BY DEF Sound
<1>2. "answered" \in Steps /\ 200 \in Statuses /\ "" \in Errors
  BY DEF Steps, Statuses, Errors
<1>3. answered \in Request
  BY <1>1, <1>2, FieldTypes
<1>4. accepted \in Request
  <2> HIDE DEF answered
  <2>1. QED
    BY ZenonT(60), <1>2, <1>3, FieldTypes
<1>5. new \in Request
  <2> HIDE DEF accepted
  <2>1. QED
    BY <1>2, <1>4, FieldTypes
<1>6. new.pc = "answered" /\ new.report = request.report /\ new.parsed = request.parsed
  BY ZenonT(60), <1>1 DEF Request
<1>7. /\ request.report["fetched"] = Len(request.parsed.candidates)
      /\ request.next - 1 = Done(request.report)
      /\ request.report["processed"] = Decided(request.report)
      /\ request.next <= Len(request.parsed.candidates) + 1
  BY <1>1 DEF InStep, Looping
<1>8. request.next \in Nat /\ Len(request.parsed.candidates) \in Nat
  BY <1>1, RequestFields
<1>9. Answer(request, 200, "") = new
  BY DEF Answer
<1> HIDE DEF new
<1>10. Balances(new)
  BY <1>6, <1>7, <1>8 DEF Balances
<1>11. InStep(new)
  BY <1>6 DEF InStep, Looping, Fetching
<1>12. Sound(new)
  BY <1>5, <1>10, <1>11 DEF Sound
<1>13. QED
  BY <1>9, <1>12
-----------------------------------------------------------------------------
(* What ingest counted: two counters are set, the others are still 0.      *)
LEMMA UnknownRowsCount ==
  ASSUME NEW errs \in Seq(Reports)
  PROVE  Cardinality(UnknownRows(errs)) \in Nat
<1>1. DOMAIN errs = 1..Len(errs) /\ Len(errs) \in Nat
  OBVIOUS
<1>2. IsFiniteSet(1..Len(errs))
  BY <1>1, FS_Interval
<1>3. UnknownRows(errs) \subseteq 1..Len(errs)
  BY <1>1 DEF UnknownRows
<1>4. IsFiniteSet(UnknownRows(errs))
  BY <1>2, <1>3, FS_Subset
<1>5. QED
  BY <1>4, FS_CardinalityType

LEMMA IngestedSound ==
  ASSUME AllSound, NEW c \in Cycles, Ingested(c)
  PROVE  AllSound'
<1> DEFINE old == cycle[c]
           errs == old.parsed.errs
           first == [old EXCEPT !.report["fetched"] = Len(old.parsed.candidates)]
           fetched == [first EXCEPT !.report["unclassified"] = Cardinality(UnknownRows(errs))]
           new == [fetched EXCEPT !.pc = "loop"]
<1>1. old \in Request /\ old.pc \in Early /\ old.report = NoReport /\ old.next = 1
  <2>1. old.pc = "parse" /\ Sound(old)
    BY DEF Ingested, AllSound
  <2>2. QED
    BY <2>1, EarlyCounts DEF Early
<1>2. Len(old.parsed.candidates) \in Nat /\ Cardinality(UnknownRows(errs)) \in Nat
  BY <1>1, RequestFields, UnknownRowsCount DEF Parsed
<1>3. first \in Request
  <2> DEFINE report == [old.report EXCEPT !["fetched"] = Len(old.parsed.candidates)]
  <2>1. report \in [Counters -> Nat]
    BY <1>1, <1>2, RequestFields
  <2>2. first = [old EXCEPT !.report = report]
    OBVIOUS
  <2> HIDE DEF report, first, old
  <2>3. QED
    BY <1>1, <2>1, <2>2, FieldTypes
<1>4. fetched \in Request
  <2> DEFINE report == [first.report EXCEPT !["unclassified"] = Cardinality(UnknownRows(errs))]
  <2> HIDE DEF first
  <2>1. report \in [Counters -> Nat]
    BY <1>2, <1>3, RequestFields
  <2>2. fetched = [first EXCEPT !.report = report]
    OBVIOUS
  <2> HIDE DEF report, fetched
  <2>3. QED
    BY <1>3, <2>1, <2>2, FieldTypes
<1>5. \/ cycle' = [cycle EXCEPT ![c] = Answer(fetched, 500, "ingest")]
      \/ cycle' = [cycle EXCEPT ![c] = new]
  BY DEF Ingested
<1>6. Sound(Answer(fetched, 500, "ingest"))
  <2> HIDE DEF fetched
  <2>1. QED
    BY <1>4, AnswerSound
<1>7. Sound(new)
  <2>1. new \in Request
    <3> HIDE DEF fetched
    <3>1. QED
      BY <1>4, FieldTypes, StepNames DEF Looping
  <2>2. new.pc = "loop" /\ new.next = 1 /\ new.parsed = old.parsed
    BY ZenonT(60), <1>1 DEF Request
  <2>3. /\ new.report["fetched"] = Len(old.parsed.candidates)
        /\ \A k \in Counters \ {"fetched", "unclassified"} : new.report[k] = 0
    <3> DEFINE counts == [[old.report EXCEPT !["fetched"] = Len(old.parsed.candidates)]
                            EXCEPT !["unclassified"] = Cardinality(UnknownRows(errs))]
    <3>1. new.report = counts
      BY <1>1 DEF Request
    <3>2. old.report = [k \in Counters |-> 0] /\ {"fetched", "unclassified"} \subseteq Counters
      BY <1>1, CounterNames DEF NoReport
    <3> HIDE DEF new, old
    <3>3. QED
      BY <3>1, <3>2
  <2> HIDE DEF new, old
  <2>4. Done(new.report) = 0 /\ Decided(new.report) = 0 /\ new.report["processed"] = 0
    BY <2>3, CounterNames DEF Done, Decided
  <2>5. InStep(new)
    BY <1>2, <2>2, <2>3, <2>4 DEF InStep, Looping, Fetching
  <2>6. QED
    BY <2>1, <2>2, <2>5 DEF Sound
<1>8. QED
  BY <1>5, <1>6, <1>7, OneRequest
-----------------------------------------------------------------------------
(* Every step keeps every request sound. *)
(* Reading a record keeps the request well formed, and its report at rest. *)
LEMMA RecordReadSound ==
  ASSUME NEW request \in Request, Sound(request), request.pc = "parse",
         NEW m \in request.line..Len(request.feed)
  PROVE  LET new == RecordRead(request, m) IN
         /\ new \in Request /\ new.pc = "parse"
         /\ new.report = NoReport /\ new.next = 1
<1> DEFINE line   == request.line
           span   == [first |-> line, last |-> m]
           spans  == Append(request.spans, span)
           parsed == ReadRow(request.parsed, Len(request.spans) + 1, RecordAt(request.feed, line, m))
           later  == [request EXCEPT !.line = m + 1]
           wider  == [later EXCEPT !.spans = spans]
           new    == [wider EXCEPT !.parsed = parsed]
<1>1. /\ line \in Nat \ {0} /\ request.feed \in Seq(Rows) /\ request.spans \in Seq(Span)
      /\ request.parsed \in Parsed
  BY RequestFields
<1>2. line \in 1..Len(request.feed) /\ m \in Nat \ {0} /\ m + 1 \in Nat \ {0}
  BY <1>1
<1>3. RecordAt(request.feed, line, m) \in Row
  BY <1>1, <1>2, RecordType
<1>4. parsed \in Parsed
  <2>1. Len(request.spans) + 1 \in Nat
    BY <1>1
  <2>2. QED
    BY <1>1, <1>3, <2>1, ReadRowType
<1>5. spans \in Seq(Span)
  <2>1. span \in Span
    BY <1>1, <1>2 DEF Span
  <2>2. QED
    BY <1>1, <2>1
<1>6. request.report = NoReport /\ request.next = 1
  BY DEF Sound, InStep
<1>7. RecordRead(request, m) = new
  BY DEF RecordRead
<1> HIDE DEF parsed, spans
<1>8. new.pc = "parse" /\ new.report = NoReport /\ new.next = 1
  BY <1>6, KeptFields
<1>9. later \in Request
  BY <1>2, FieldTypes
<1> HIDE DEF later
<1>10. wider \in Request
  BY <1>5, <1>9, FieldTypes
<1> HIDE DEF wider
<1>11. new \in Request
  BY <1>4, <1>10, FieldTypes
<1> HIDE DEF new
<1>12. QED
  BY <1>7, <1>8, <1>11

LEMMA RequestsStaySound ==
  ASSUME IInv, Next
  PROVE  AllSound'
<1>1. AllSound
  BY DEF IInv
<1>2. \A c \in Cycles : cycle[c] \in Request /\ Sound(cycle[c])
  BY <1>1 DEF AllSound
<1>3. ASSUME cycle' = cycle PROVE AllSound'
  BY <1>1, <1>3 DEF AllSound, Sound
<1>4. ASSUME NEW c \in Cycles, cycle' = [cycle EXCEPT ![c] = NoRequest] PROVE AllSound'
  BY <1>1, <1>4, NoRequestSound, OneRequest
<1>5. ASSUME NEW c \in Cycles, NEW error \in {"site", "not_csv", "header", "ingest", "aborted"}, Fails(c, error)
      PROVE  AllSound'
  <2>1. Sound(Answer(cycle[c], 500, error))
    BY <1>2, <1>5, AnswerSound
  <2>2. cycle' = [cycle EXCEPT ![c] = Answer(cycle[c], 500, error)]
    BY <1>5 DEF Fails
  <2>3. QED
    BY ZenonT(60), <1>1, <2>1, <2>2, OneRequest
<1>6. ASSUME NEW c \in Cycles, NEW step \in Early, cycle[c].pc \in Early, Goto(c, step)
      PROVE  AllSound'
  <2>1. Sound([cycle[c] EXCEPT !.pc = step])
    BY <1>2, <1>6, EarlyStep
  <2>2. QED
    BY <1>1, <1>6, <2>1, OneStep
<1>7. ASSUME NEW row \in Rows, Register(row) PROVE AllSound'
  BY <1>3, <1>7 DEF Register
<1>8. ASSUME NEW p \in Payloads, PostWebhook(p) PROVE AllSound'
  BY <1>3, <1>8 DEF PostWebhook
<1>9. CASE Lapse \/ Dispatch \/ Timeout
  <2>1. cycle' = cycle
    BY <1>9 DEF Lapse, Dispatch, Timeout
  <2>2. QED
    BY <1>3, <2>1
<1>10. CASE Restart
  <2>1. cycle' = [c \in Cycles |-> NoRequest]
    BY <1>10 DEF Restart
  <2>2. NoRequest \in Request
    BY NoRequestSound DEF Sound
  <2>3. cycle' \in [Cycles -> Request] /\ \A c \in Cycles : cycle'[c] = NoRequest
    BY <2>1, <2>2
  <2>4. QED
    BY <2>3, NoRequestSound DEF AllSound, Sound
<1>11. ASSUME NEW c \in Cycles, Attempt(c) PROVE AllSound'
  <2>1. cycle[c].pc \in Early /\ Goto(c, IF loggedIn THEN "export" ELSE "login")
    BY <1>11 DEF Attempt, Early
  <2>2. (IF loggedIn THEN "export" ELSE "login") \in Early
    BY DEF Early, Fetching
  <2>3. QED
    BY <1>6, <2>1, <2>2
<1>12. ASSUME NEW c \in Cycles, Disconnect(c) PROVE AllSound'
  <2> DEFINE new == [cycle[c] EXCEPT !.alive = FALSE]
  <2>1. new \in Request
    BY <1>2, FieldTypes
  <2>2. new.pc = cycle[c].pc /\ new.report = cycle[c].report
    BY <1>2, KeptFields
  <2>3. new.next = cycle[c].next /\ new.parsed = cycle[c].parsed /\ new.status = cycle[c].status
    BY <1>2, KeptFields
  <2>4. cycle' = [cycle EXCEPT ![c] = new]
    BY <1>1, <1>12 DEF Disconnect, AllSound
  <2> HIDE DEF new
  <2>5. Sound(new)
    BY <1>2, <2>1, <2>2, <2>3 DEF Sound, InStep, Balances
  <2>6. QED
    BY <1>1, <2>4, <2>5, OneRequest
<1>13. ASSUME NEW c \in Cycles, Fetch(c) PROVE AllSound'
  <2>1. CASE SiteFails(c)
    BY <1>5, <2>1 DEF SiteFails
  <2>2. CASE Login(c)
    <3>1. cycle[c].pc \in Early /\ Goto(c, IF At(c, "login") THEN "export" ELSE "reexport")
      BY <2>2 DEF Login, Early, Fetching
    <3>2. (IF At(c, "login") THEN "export" ELSE "reexport") \in Early
      BY DEF Early, Fetching
    <3>3. QED
      BY <1>6, <3>1, <3>2
  <2>3. CASE FetchCSV(c)
    <3> DEFINE new == [[cycle[c] EXCEPT !.pc = "parse"] EXCEPT !.feed = export]
    <3>1. cycle[c].pc \in Early /\ "parse" \in Early
      BY <2>3 DEF FetchCSV, Early, Fetching
    <3>2. Sound([cycle[c] EXCEPT !.pc = "parse"])
      BY <1>2, <3>1, EarlyStep
    <3>3. cycle[c].report = NoReport /\ cycle[c].next = 1
      BY <1>2, <3>1, EarlyCounts
    <3>4. [cycle[c] EXCEPT !.pc = "parse"] \in Request /\ export \in Seq(Rows)
      BY <3>2 DEF Sound, IInv, Surroundings
    <3>5. new \in Request
      BY <3>4, FieldTypes
    <3>6. new.pc = "parse" /\ new.report = NoReport /\ new.next = 1
      BY <1>2, <3>3, KeptFields
    <3>7. cycle' = [cycle EXCEPT ![c] = new]
      BY <2>3 DEF FetchCSV
    <3> HIDE DEF new
    <3>8. QED
      BY <1>1, <3>1, <3>5, <3>6, <3>7, EarlySound, OneRequest
  <2>4. CASE FetchHTML(c)
    <3>1. cycle[c].pc \in Early /\ "relogin" \in Early
      BY <2>4 DEF FetchHTML, Early, Fetching
    <3>2. Goto(c, "relogin") \/ Fails(c, "not_csv")
      BY <2>4 DEF FetchHTML
    <3>3. QED
      BY <1>5, <1>6, <3>1, <3>2
  <2>5. CASE ParseRow(c)
    <3>1. PICK m \in cycle[c].line..Len(cycle[c].feed) :
            cycle[c].pc = "parse" /\ cycle' = [cycle EXCEPT ![c] = RecordRead(cycle[c], m)]
      BY <2>5 DEF ParseRow
    <3>2. /\ RecordRead(cycle[c], m) \in Request
          /\ RecordRead(cycle[c], m).pc = "parse"
          /\ RecordRead(cycle[c], m).report = NoReport /\ RecordRead(cycle[c], m).next = 1
      BY <1>2, <3>1, RecordReadSound
    <3>3. QED
      BY <1>1, <3>1, <3>2, EarlySound, OneRequest DEF Early
  <2>6. CASE Ingested(c)
    BY <1>1, <2>6, IngestedSound
  <2>8. CASE HeaderFails(c)
    BY <1>5, <2>8 DEF HeaderFails
  <2>7. QED
    BY <1>13, <2>1, <2>2, <2>3, <2>4, <2>5, <2>6, <2>8 DEF Fetch
<1>14. ASSUME NEW c \in Cycles, Process(c) PROVE AllSound'
  <2>1. CASE NextCandidate(c)
    <3>1. cycle[c].pc = "loop"
      BY <2>1 DEF NextCandidate
    <3>2. CASE cycle[c].next > Len(cycle[c].parsed.candidates)
      <4>1. cycle' = [cycle EXCEPT ![c] = Answer(cycle[c], 200, "")]
        BY <2>1, <3>2 DEF NextCandidate
      <4>2. QED
        BY <1>1, <1>2, <3>1, <3>2, <4>1, LoopDone, OneRequest
    <3>3. CASE ~(cycle[c].next > Len(cycle[c].parsed.candidates))
      <4>1. Goto(c, "claim") \/ Fails(c, "aborted")
        BY <2>1, <3>3 DEF NextCandidate
      <4>2. cycle[c].next <= Len(cycle[c].parsed.candidates)
        BY <1>2, <3>3, RequestFields
      <4>3. Sound([cycle[c] EXCEPT !.pc = "claim"])
        BY <1>2, <3>1, <4>2, LoopStep
      <4>4. QED
        BY <1>1, <1>5, <4>1, <4>3, OneStep
    <3>4. QED
      BY <3>2, <3>3
  <2>2. CASE Claim(c)
    <3>1. cycle[c].pc = "claim" /\ (Goto(c, "work") \/ Count(c, {"already_seen"}))
      BY <2>2 DEF Claim
    <3>2. Sound([cycle[c] EXCEPT !.pc = "work"])
      BY <1>2, <3>1, LoopStep
    <3>3. QED
      BY <1>1, <3>1, <3>2, OneStep, CountSound DEF Endings
  <2>3. CASE ClaimFails(c) \/ ClaimLost(c) \/ FinishFails(c) \/ ReleaseFails(c) \/ FinishCancelled(c)
    <3>1. cycle[c].pc \in {"claim", "work"} /\ Count(c, {"failed"})
      BY <2>3 DEF ClaimFails, ClaimLost, FinishFails, ReleaseFails, FinishCancelled
    <3>2. QED
      BY <1>1, <3>1, CountSound DEF Endings
  <2>4. ASSUME NEW action \in Decisions, Finish(c, action) PROVE AllSound'
    <3>1. cycle[c].pc \in {"claim", "work"} /\ Count(c, {"processed", action})
      BY <2>4 DEF Finish
    <3>2. action \in Outcomes
      BY PollCycleAssumption
    <3>3. QED
      BY <1>1, <3>1, <3>2, CountSound DEF Endings
  <2>5. QED
    BY <1>14, <2>1, <2>2, <2>3, <2>4 DEF Process
<1>15. ASSUME NEW c \in Cycles, Respond(c) \/ Unread(c) PROVE AllSound'
  BY <1>4, <1>15 DEF Respond, Unread
<1>16. QED
  BY <1>7, <1>8, <1>9, <1>10, <1>11, <1>12, <1>13, <1>14, <1>15 DEF Next, Serve
-----------------------------------------------------------------------------
(* The rest of the state keeps its type.                                   *)
Record == [state : {"absent", "pending", "recorded"}, name : Names \cup {Blank}]
Runs == [state : {"idle", "pausing", "waiting", "green", "red"},
         attempt : 0..MaxAttempts, cycle : Cycles \cup {NoCycle}]

LEMMA EntryType ==
  /\ NoEntry \in Record
  /\ \A name \in Names : Entry("pending", name) \in Record /\ Entry("recorded", name) \in Record
BY DEF NoEntry, Entry, Record

LEMMA FaultType ==
  ASSUME Surroundings, NEW kind \in Budgets, Fault(kind)
  PROVE  faults' \in [Budgets -> Nat]
BY DEF Surroundings, Fault

LEMMA GiveUpType ==
  ASSUME trigger \in Runs, GiveUpOrRetry
  PROVE  trigger' \in Runs /\ AttemptsLeft'
<1>1. trigger' = [trigger EXCEPT !.state = IF trigger.attempt < MaxAttempts THEN "pausing" ELSE "red",
                                 !.cycle = NoCycle]
  BY DEF GiveUpOrRetry
<1>2. QED
  BY <1>1 DEF AttemptsLeft, Runs

LEMMA SurroundingsType ==
  Surroundings <=> /\ export \in Seq(Rows)
                   /\ session \in BOOLEAN /\ loggedIn \in BOOLEAN
                   /\ entry \in [Ids -> Record]
                   /\ trigger \in Runs
                   /\ faults \in [Budgets -> Nat]
BY DEF Surroundings, Record, Runs

LEMMA EntriesKeepType ==
  ASSUME IInv, Next
  PROVE  entry' \in [Ids -> Record]
<1>1. entry \in [Ids -> Record]
  BY SurroundingsType DEF IInv
<1>2. ASSUME NEW c \in Cycles, cycle[c].pc \in {"claim", "work"}
      PROVE  Current(c).id \in Ids /\ Current(c).name \in Names
  BY <1>2, CandidateAt DEF IInv, Candidates, Ids
<1>3. ASSUME NEW c \in Cycles, Claim(c) PROVE entry' \in [Ids -> Record]
  BY <1>1, <1>2, <1>3, EntryType DEF Claim
<1>4. ASSUME NEW c \in Cycles, NEW action \in Decisions, Finish(c, action)
      PROVE  entry' \in [Ids -> Record]
  <2>1. [entry[Current(c).id] EXCEPT !.state = "recorded"] \in Record
    BY <1>1, <1>2, <1>4 DEF Finish, Record
  <2>2. entry' = [entry EXCEPT ![Current(c).id] = [entry[Current(c).id] EXCEPT !.state = "recorded"]]
    BY <1>1, <1>2, <1>4 DEF Finish
  <2>3. QED
    BY <1>1, <2>1, <2>2
<1>5. ASSUME NEW c \in Cycles, FinishFails(c) PROVE entry' \in [Ids -> Record]
  BY <1>1, <1>5, EntryType DEF FinishFails
<1>6. ASSUME NEW c \in Cycles, FinishCancelled(c) PROVE entry' \in [Ids -> Record]
  <2>1. Current(c).id \in Ids /\ Entry("recorded", Current(c).name) \in Record
    BY <1>2, <1>6, EntryType DEF FinishCancelled
  <2>2. QED
    BY <1>1, <1>6, <2>1, EntryType DEF FinishCancelled
<1>7. ASSUME NEW p \in Payloads, PostWebhook(p) PROVE entry' \in [Ids -> Record]
  <2>1. CASE WebhookAccepted(p)
    <3>1. Webhook(p).id \in Ids /\ Entry("recorded", Webhook(p).name) \in Record
      BY <2>1, WebhookType, EntryType, PollCycleAssumption DEF Ids
    <3>2. QED
      BY <1>1, <1>7, <3>1 DEF PostWebhook
  <2>2. CASE ~WebhookAccepted(p)
    BY SMTT(30), <1>1, <1>7, <2>2 DEF PostWebhook
  <2>3. QED
    BY <2>1, <2>2
<1>8. ASSUME NEW c \in Cycles, ClaimLost(c) PROVE entry' \in [Ids -> Record]
  <2>1. Current(c).id \in Ids /\ Entry("pending", Current(c).name) \in Record
    BY <1>2, <1>8, EntryType DEF ClaimLost
  <2>2. QED
    BY <1>1, <1>8, <2>1 DEF ClaimLost
<1>9. entry' = entry \/ entry' \in [Ids -> Record]
  BY ZenonT(60), <1>3, <1>4, <1>5, <1>6, <1>7, <1>8
     DEF Next, Serve, Fetch, Process, Register, Lapse, Dispatch, Timeout, Restart, Attempt, Disconnect,
         SiteFails, Login, FetchCSV, FetchHTML, HeaderFails, ParseRow, Ingested, NextCandidate, ClaimFails, ReleaseFails,
         Respond, Unread
<1>10. QED
  BY <1>1, <1>9

LEMMA RunsKeepType ==
  ASSUME IInv, Next
  PROVE  trigger' \in Runs /\ AttemptsLeft'
<1>1. trigger \in Runs /\ AttemptsLeft
  BY SurroundingsType DEF IInv
<1>2. CASE Dispatch
  BY <1>2 DEF Dispatch, NoRun, Runs, AttemptsLeft, MaxAttempts
<1>3. ASSUME NEW c \in Cycles, Attempt(c) PROVE trigger' \in Runs /\ AttemptsLeft'
  <2>1. trigger.attempt \in 0..MaxAttempts /\ trigger.attempt < MaxAttempts
    BY <1>1, <1>3 DEF Attempt, Runs, AttemptsLeft
  <2>2. trigger.attempt + 1 \in 0..MaxAttempts
    BY <2>1 DEF MaxAttempts
  <2>3. trigger' = [state |-> "waiting", attempt |-> trigger.attempt + 1, cycle |-> c]
    BY <1>3 DEF Attempt
  <2>4. QED
    BY <2>2, <2>3 DEF Runs, AttemptsLeft
<1>4. ASSUME NEW c \in Cycles, Respond(c) PROVE trigger' \in Runs /\ AttemptsLeft'
  <2>1. CASE cycle[c].status = 200
    <3>1. \E colour \in {"green", "red"} : trigger' = [trigger EXCEPT !.state = colour, !.cycle = NoCycle]
      BY <1>4, <2>1 DEF Respond
    <3>2. QED
      BY <1>1, <3>1 DEF Runs, AttemptsLeft
  <2>2. CASE cycle[c].status # 200
    BY <1>1, <1>4, <2>2, GiveUpType DEF Respond
  <2>3. QED
    BY <2>1, <2>2
<1>5. CASE Timeout
  BY <1>1, <1>5, GiveUpType DEF Timeout
<1>6. CASE Restart
  <2>1. GiveUpOrRetry \/ trigger' = trigger
    BY <1>6 DEF Restart
  <2>2. QED
    BY <1>1, <2>1, GiveUpType DEF AttemptsLeft
<1>7. trigger' = trigger \/ (trigger' \in Runs /\ AttemptsLeft')
  BY ZenonT(60), <1>2, <1>3, <1>4, <1>5, <1>6
     DEF Next, Serve, Fetch, Process, Register, PostWebhook, Lapse, Disconnect, SiteFails, Login, FetchCSV,
         FetchHTML, HeaderFails, ParseRow, Ingested, NextCandidate, Claim, ClaimFails, ClaimLost, Finish, FinishFails,
         ReleaseFails, FinishCancelled, Unread
<1>8. QED
  BY <1>1, <1>7 DEF AttemptsLeft

LEMMA SurroundingsStay ==
  ASSUME IInv, Next
  PROVE  Surroundings'
<1>1. Surroundings /\ export \in Seq(Rows) /\ session \in BOOLEAN /\ loggedIn \in BOOLEAN
  BY SurroundingsType DEF IInv
<1>2. export' \in Seq(Rows)
  <2>1. ASSUME NEW row \in Rows, Register(row) PROVE export' \in Seq(Rows)
    BY <1>1, <2>1 DEF Register
  <2>2. export' = export \/ export' \in Seq(Rows)
    BY ZenonT(60), <2>1
       DEF Next, Serve, Fetch, Process, PostWebhook, Lapse, Dispatch, Timeout, Restart, Attempt, Disconnect,
           SiteFails, Login, FetchCSV, FetchHTML, HeaderFails, ParseRow, Ingested, NextCandidate, Claim, ClaimFails,
           ClaimLost, Finish, FinishFails, ReleaseFails, FinishCancelled, Respond, Unread
  <2>3. QED
    BY <1>1, <2>2
<1>3. session' \in BOOLEAN /\ loggedIn' \in BOOLEAN
  <2>1. ASSUME NEW c \in Cycles, Login(c) PROVE session' \in BOOLEAN /\ loggedIn' \in BOOLEAN
    BY <1>1, <2>1, Zenon DEF Login
  <2>2. CASE Lapse \/ Restart
    BY <1>1, <2>2, Zenon DEF Lapse, Restart
  <2>3. \/ session' = session /\ loggedIn' = loggedIn
        \/ session' \in BOOLEAN /\ loggedIn' \in BOOLEAN
    BY ZenonT(60), <2>1, <2>2
       DEF Next, Serve, Fetch, Process, Register, PostWebhook, Dispatch, Timeout, Attempt, Disconnect,
           SiteFails, FetchCSV, FetchHTML, HeaderFails, ParseRow, Ingested, NextCandidate, Claim, ClaimFails,
           ClaimLost, Finish, FinishFails, ReleaseFails, FinishCancelled, Respond, Unread
  <2>4. QED
    BY <1>1, <2>3, Zenon
<1>4. faults' \in [Budgets -> Nat]
  <2>1. faults \in [Budgets -> Nat]
    BY <1>1 DEF Surroundings
  <2>2. \A kind \in Budgets : Fault(kind) => faults' \in [Budgets -> Nat]
    BY <1>1, FaultType
  <2>3. faults' = faults \/ \E kind \in Budgets : Fault(kind)
    BY ZenonT(60)
       DEF Next, Serve, Fetch, Process, Register, PostWebhook, Lapse, Dispatch, Timeout, Restart, Attempt,
           Disconnect, SiteFails, Login, FetchCSV, FetchHTML, HeaderFails, ParseRow, Ingested, NextCandidate, Claim,
           ClaimFails, ClaimLost, Finish, FinishFails, ReleaseFails, FinishCancelled, Respond, Unread, Budgets
  <2>4. QED
    BY <2>1, <2>2, <2>3
<1>5. entry' \in [Ids -> Record] /\ trigger' \in Runs
  BY EntriesKeepType, RunsKeepType
<1>6. QED
  BY <1>2, <1>3, <1>4, <1>5 DEF Surroundings, Record, Runs
-----------------------------------------------------------------------------
LEMMA InitSound == Init => IInv
<1>1. ASSUME Init PROVE AllSound
  <2>1. cycle = [c \in Cycles |-> NoRequest]
    BY <1>1 DEF Init
  <2>2. NoRequest \in Request
    BY NoRequestSound DEF Sound
  <2>3. QED
    BY <2>1, <2>2, NoRequestSound DEF AllSound
<1>2. ASSUME Init PROVE Surroundings
  <2>1. entry \in [Ids -> Record]
    BY <1>2, EntryType DEF Init
  <2>2. trigger \in Runs
    BY <1>2 DEF Init, NoRun, Runs, MaxAttempts
  <2>3. export \in Seq(Rows) /\ faults \in [Budgets -> Nat]
    BY <1>2 DEF Init
  <2>4. session \in BOOLEAN /\ loggedIn \in BOOLEAN
    BY <1>2, Zenon DEF Init
  <2>5. QED
    BY <2>1, <2>2, <2>3, <2>4, SurroundingsType
<1>3. ASSUME Init PROVE AttemptsLeft
  BY <1>3 DEF Init, NoRun, AttemptsLeft
<1>4. QED
  BY <1>1, <1>2, <1>3 DEF IInv

LEMMA IInvHolds == Spec => []IInv
<1>1. IInv /\ Next => IInv'
  BY RequestsStaySound, SurroundingsStay, RunsKeepType DEF IInv
<1>2. IInv /\ UNCHANGED vars => IInv'
  BY DEF IInv, AllSound, Sound, Surroundings, AttemptsLeft, vars
<1>3. QED
  BY <1>1, <1>2, InitSound, PTL DEF Spec

(* However many cycles run, and whatever the site, the ledger and the      *)
(* workflow do, the state of the poll cycle is well formed.                *)
THEOREM CycleTypes == Spec => []TypeOK
BY IInvHolds, IInvImplies, PTL

(* The report of every cycle that is answered 200 adds up.                 *)
THEOREM ReportAddsUp == Spec => []ReportBalances
BY IInvHolds, IInvImplies, PTL

-----------------------------------------------------------------------------
(* What one step makes of one request, field by field.                     *)
Fields == {"pc", "alive", "feed", "line", "spans", "parsed", "next", "report", "status", "error"}
Same(old, new, changed) == \A f \in Fields \ changed : new[f] = old[f]

LEMMA RequestDomain ==
  ASSUME NEW request \in Request
  PROVE  request = [f \in Fields |-> request[f]]
BY ZenonT(60) DEF Request, Fields

LEMMA OneField ==
  ASSUME NEW request \in Request, NEW v
  PROVE  /\ [request EXCEPT !.pc = v].pc = v
         /\ Same(request, [request EXCEPT !.pc = v], {"pc"})
         /\ [request EXCEPT !.alive = v].alive = v
         /\ Same(request, [request EXCEPT !.alive = v], {"alive"})
<1>1. request = [f \in Fields |-> request[f]]
  BY RequestDomain
<1>2. {"pc", "alive"} \subseteq Fields
  BY DEF Fields
<1>3. QED
  BY <1>1, <1>2 DEF Same

LEMMA FetchFields ==
  ASSUME NEW request \in Request, NEW feed
  PROVE  LET new == [request EXCEPT !.pc = "parse", !.feed = feed] IN
         new.pc = "parse" /\ new.feed = feed /\ Same(request, new, {"pc", "feed"})
<1>1. request = [f \in Fields |-> request[f]] /\ {"pc", "feed"} \subseteq Fields
  BY RequestDomain DEF Fields
<1>2. QED
  BY <1>1 DEF Same

LEMMA ReadFields ==
  ASSUME NEW request \in Request, NEW line, NEW spans, NEW parsed
  PROVE  LET new == [request EXCEPT !.line = line, !.spans = spans, !.parsed = parsed] IN
         /\ new.line = line /\ new.spans = spans /\ new.parsed = parsed
         /\ Same(request, new, {"line", "spans", "parsed"})
<1>1. request = [f \in Fields |-> request[f]] /\ {"line", "spans", "parsed"} \subseteq Fields
  BY RequestDomain DEF Fields
<1>2. QED
  BY <1>1 DEF Same

LEMMA CountFields ==
  ASSUME NEW request \in Request, NEW next, NEW report
  PROVE  LET new == [request EXCEPT !.pc = "loop", !.next = next, !.report = report] IN
         /\ new.pc = "loop" /\ new.next = next /\ new.report = report
         /\ Same(request, new, {"pc", "next", "report"})
<1>1. request = [f \in Fields |-> request[f]] /\ {"pc", "next", "report"} \subseteq Fields
  BY RequestDomain DEF Fields
<1>2. QED
  BY <1>1 DEF Same

(* What a move, a failure and a count leave of the request.                *)
LEMMA Moved ==
  ASSUME NEW c \in Cycles, cycle \in [Cycles -> Request], NEW step, Goto(c, step)
  PROVE  /\ \A d \in Cycles \ {c} : cycle'[d] = cycle[d]
         /\ cycle'[c].pc = step /\ Same(cycle[c], cycle'[c], {"pc"})
         /\ cycle'[c].error = cycle[c].error
<1>1. cycle' = [cycle EXCEPT ![c] = [cycle[c] EXCEPT !.pc = step]]
  OBVIOUS
<1>2. [cycle[c] EXCEPT !.pc = step].pc = step /\ Same(cycle[c], [cycle[c] EXCEPT !.pc = step], {"pc"})
  BY OneField
<1>3. [cycle[c] EXCEPT !.pc = step].error = cycle[c].error
  BY <1>2 DEF Same, Fields
<1>4. QED
  BY <1>1, <1>2, <1>3

LEMMA Failed ==
  ASSUME NEW c \in Cycles, cycle \in [Cycles -> Request], NEW error, Fails(c, error)
  PROVE  /\ \A d \in Cycles \ {c} : cycle'[d] = cycle[d]
         /\ cycle'[c].pc = "answered" /\ cycle'[c].status = 500 /\ cycle'[c].error = error
         /\ cycle'[c].alive = cycle[c].alive
<1>1. cycle' = [cycle EXCEPT ![c] = Answer(cycle[c], 500, error)]
  BY DEF Fails
<1>2. cycle[c] = [f \in Fields |-> cycle[c][f]]
  BY RequestDomain
<1>3. LET new == Answer(cycle[c], 500, error) IN
      /\ new.pc = "answered" /\ new.status = 500 /\ new.error = error
      /\ new.alive = cycle[c].alive
  BY <1>2 DEF Answer, Fields
<1>4. QED
  BY <1>1, <1>3

LEMMA NoRequestFields == NoRequest.pc = "idle" /\ NoRequest.alive /\ NoRequest.error = ""
BY DEF NoRequest

(* The ways a request goes on. *)
Tally(old, new, counters) ==
  new.report = [k \in Counters |-> old.report[k] + (IF k \in counters THEN 1 ELSE 0)]

HangsUp(old, new) ==
  old.pc # "idle" /\ Same(old, new, {"alive"}) /\ new.alive = FALSE

Advances(old, new) ==
  /\ Same(old, new, {"pc"})
  /\ \/ old.pc \in {"idle"} \cup Fetching /\ new.pc \in Fetching
     \/ old.pc = "loop" /\ new.pc = "claim"
     \/ old.pc = "claim" /\ new.pc = "work"

Answers(old, new) ==
  /\ Same(old, new, {"pc", "status", "error"})
  /\ new.pc = "answered"
  /\ \/ old.pc \in Fetching /\ new.status = 500 /\ new.error \in {"site", "not_csv"}
     \/ old.pc = "parse" /\ new.status = 500 /\ new.error = "header"
     \/ old.pc = "loop" /\ new.status = 500 /\ new.error = "aborted"
     \/ old.pc = "loop" /\ new.status = 200 /\ new.error \notin {"site", "not_csv", "header"}
          /\ old.next > Len(old.parsed.candidates)

Fetches(old, new) ==
  /\ Same(old, new, {"pc", "feed"})
  /\ old.pc \in Fetching /\ new.pc = "parse" /\ new.feed \in Seq(Rows)

Reads(old, new) ==
  /\ Same(old, new, {"line", "spans", "parsed"})
  /\ old.pc = "parse"
  /\ \E m \in old.line..Len(old.feed) :
       /\ RecordEnds(old.feed, old.line, m)
       /\ new.line = m + 1
       /\ new.spans = Append(old.spans, [first |-> old.line, last |-> m])
       /\ new.parsed = ReadRow(old.parsed, Len(old.spans) + 1, RecordAt(old.feed, old.line, m))

Ingests(old, new) ==
  /\ Same(old, new, {"pc", "report", "status", "error"})
  /\ old.pc = "parse" /\ old.line > Len(old.feed)
  /\ \/ new.pc = "loop" /\ new.status = old.status /\ new.error = old.error
     \/ new.pc = "answered" /\ new.status = 500 /\ new.error = "ingest"
  /\ new.report["unclassified"] = Cardinality(UnknownRows(old.parsed.errs))
  /\ new.report["failed"] = old.report["failed"]

Counts(old, new) ==
  /\ Same(old, new, {"pc", "next", "report"})
  /\ old.pc \in {"claim", "work"} /\ new.pc = "loop" /\ new.next = old.next + 1
  /\ \E counters \in Endings : Tally(old, new, counters)

GoesOn(old, new) ==
  \/ new = old \/ new = NoRequest
  \/ HangsUp(old, new) \/ Advances(old, new) \/ Answers(old, new) \/ Fetches(old, new)
  \/ Reads(old, new) \/ Ingests(old, new) \/ Counts(old, new)

LEMMA RefusalAnswers ==
  ASSUME NEW request \in Request, NEW error,
         \/ request.pc \in Fetching /\ error \in {"site", "not_csv"}
         \/ request.pc = "parse" /\ error = "header"
         \/ request.pc = "loop" /\ error = "aborted"
  PROVE  Answers(request, Answer(request, 500, error))
<1> DEFINE new == Answer(request, 500, error)
<1>0. request = [f \in Fields |-> request[f]]
  BY RequestDomain
<1>1. /\ new.pc = "answered" /\ new.status = 500 /\ new.error = error
      /\ Same(request, new, {"pc", "status", "error"})
  BY <1>0 DEF Answer, Same, Fields
<1> HIDE DEF new
<1>2. Answers(request, new)
  BY <1>1 DEF Answers
<1>3. QED
  BY <1>2 DEF new

LEMMA AcceptanceAnswers ==
  ASSUME NEW request \in Request, request.pc = "loop",
         request.next > Len(request.parsed.candidates)
  PROVE  Answers(request, Answer(request, 200, ""))
<1> DEFINE new == Answer(request, 200, "")
<1>0. request = [f \in Fields |-> request[f]]
  BY RequestDomain
<1>1. /\ new.pc = "answered" /\ new.status = 200 /\ new.error = ""
      /\ Same(request, new, {"pc", "status", "error"})
  BY <1>0 DEF Answer, Same, Fields
<1> HIDE DEF new
<1>2. Answers(request, new)
  BY <1>1 DEF Answers
<1>3. QED
  BY <1>2 DEF new

AllGoOn == \A c \in Cycles : GoesOn(cycle[c], cycle'[c])

LEMMA FailGoesOn ==
  ASSUME NEW c \in Cycles, cycle \in [Cycles -> Request], NEW error, Fails(c, error),
         \/ cycle[c].pc \in Fetching /\ error \in {"site", "not_csv"}
         \/ cycle[c].pc = "parse" /\ error = "header"
         \/ cycle[c].pc = "loop" /\ error = "aborted"
  PROVE  AllGoOn
<1>1. cycle' = [cycle EXCEPT ![c] = Answer(cycle[c], 500, error)]
  BY DEF Fails
<1>2. Answers(cycle[c], Answer(cycle[c], 500, error))
  BY RefusalAnswers
<1>3. QED
  BY <1>1, <1>2 DEF AllGoOn, GoesOn

LEMMA MoveGoesOn ==
  ASSUME NEW c \in Cycles, cycle \in [Cycles -> Request], NEW step, Goto(c, step),
         \/ cycle[c].pc \in {"idle"} \cup Fetching /\ step \in Fetching
         \/ cycle[c].pc = "loop" /\ step = "claim"
         \/ cycle[c].pc = "claim" /\ step = "work"
  PROVE  AllGoOn
<1>1. cycle' = [cycle EXCEPT ![c] = [cycle[c] EXCEPT !.pc = step]]
  OBVIOUS
<1>2. Advances(cycle[c], [cycle[c] EXCEPT !.pc = step])
  BY ZenonT(60), OneField DEF Advances
<1>3. QED
  BY <1>1, <1>2 DEF AllGoOn, GoesOn

LEMMA CountGoesOn ==
  ASSUME NEW c \in Cycles, cycle \in [Cycles -> Request], NEW counters \in Endings,
         cycle[c].pc \in {"claim", "work"}, Count(c, counters)
  PROVE  AllGoOn
<1> DEFINE old == cycle[c]
           report == [k \in Counters |-> old.report[k] + (IF k \in counters THEN 1 ELSE 0)]
           new == [old EXCEPT !.pc = "loop", !.next = old.next + 1, !.report = report]
<1>1. cycle' = [cycle EXCEPT ![c] = new]
  BY DEF Count
<1>2. Counts(old, new)
  <2>1. new.pc = "loop" /\ new.next = old.next + 1 /\ new.report = report
        /\ Same(old, new, {"pc", "next", "report"})
    BY CountFields
  <2> HIDE DEF new
  <2>2. QED
    BY <2>1 DEF Counts, Tally
<1> HIDE DEF new
<1>3. QED
  BY <1>1, <1>2 DEF AllGoOn, GoesOn

(* Both ends of ingest: the loop starts, or the answer is an error.        *)
LEMMA IngestEnds ==
  ASSUME NEW old \in Request, old.pc = "parse", old.line > Len(old.feed),
         NEW m \in Nat, NEW n \in Nat, n = Cardinality(UnknownRows(old.parsed.errs)), NEW fetched,
         fetched = [old EXCEPT !.report["fetched"] = m, !.report["unclassified"] = n]
  PROVE  /\ Ingests(old, Answer(fetched, 500, "ingest"))
         /\ Ingests(old, [fetched EXCEPT !.pc = "loop"])
<1>0. old = [f \in Fields |-> old[f]] /\ {"pc", "report", "status", "error"} \subseteq Fields
  BY RequestDomain DEF Fields
<1>1. fetched = [f \in Fields |-> fetched[f]] /\ Same(old, fetched, {"report"})
  BY <1>0 DEF Same
<1>2. fetched.report["unclassified"] = n /\ fetched.report["failed"] = old.report["failed"]
  <2>1. old.report \in [Counters -> Nat]
    BY RequestFields
  <2>2. QED
    BY <1>0, <2>1, CounterNames
<1>5. Ingests(old, Answer(fetched, 500, "ingest"))
  <2> DEFINE new == Answer(fetched, 500, "ingest")
  <2>1. /\ new.pc = "answered" /\ new.status = 500 /\ new.error = "ingest"
        /\ Same(fetched, new, {"pc", "status", "error"})
    BY <1>1 DEF Answer, Same, Fields
  <2> HIDE DEF new
  <2>2. Ingests(old, new)
    BY ZenonT(60), <1>0, <1>1, <1>2, <2>1 DEF Ingests, Same
  <2>3. QED
    BY <2>2 DEF new
<1>6. Ingests(old, [fetched EXCEPT !.pc = "loop"])
  <2> DEFINE new == [fetched EXCEPT !.pc = "loop"]
  <2>1. new.pc = "loop" /\ Same(fetched, new, {"pc"})
    BY <1>0, <1>1 DEF Same
  <2> HIDE DEF new
  <2>2. Ingests(old, new)
    BY <1>0, <1>1, <1>2, <2>1 DEF Ingests, Same
  <2>3. QED
    BY <2>2 DEF new
<1>7. QED
  BY <1>5, <1>6

LEMMA IngestedIngests ==
  ASSUME NEW c \in Cycles, cycle \in [Cycles -> Request], Ingested(c)
  PROVE  /\ Ingests(cycle[c], cycle'[c])
         /\ \A d \in Cycles \ {c} : cycle'[d] = cycle[d]
<1> DEFINE old == cycle[c]
           m == Len(old.parsed.candidates)
           n == Cardinality(UnknownRows(old.parsed.errs))
           fetched == [old EXCEPT !.report["fetched"] = m, !.report["unclassified"] = n]
<1>1. old \in Request /\ m \in Nat /\ n \in Nat
  BY RequestFields, UnknownRowsCount DEF Parsed
<1>2. old.pc = "parse" /\ old.line > Len(old.feed)
  BY DEF Ingested
<1>3. \/ cycle' = [cycle EXCEPT ![c] = Answer(fetched, 500, "ingest")]
      \/ cycle' = [cycle EXCEPT ![c] = [fetched EXCEPT !.pc = "loop"]]
  BY DEF Ingested
<1>4. Ingests(old, Answer(fetched, 500, "ingest")) /\ Ingests(old, [fetched EXCEPT !.pc = "loop"])
  BY ZenonT(60), <1>1, <1>2, IngestEnds
<1> HIDE DEF fetched
<1>5. \E new : cycle' = [cycle EXCEPT ![c] = new] /\ Ingests(old, new)
  BY <1>3, <1>4
<1>6. QED
  BY <1>5

LEMMA RecordReads ==
  ASSUME NEW old \in Request, old.pc = "parse", NEW m \in old.line..Len(old.feed),
         RecordEnds(old.feed, old.line, m)
  PROVE  Reads(old, RecordRead(old, m))
<1> DEFINE spans == Append(old.spans, [first |-> old.line, last |-> m])
           parsed == ReadRow(old.parsed, Len(old.spans) + 1, RecordAt(old.feed, old.line, m))
           new == [old EXCEPT !.line = m + 1, !.spans = spans, !.parsed = parsed]
<1>1. RecordRead(old, m) = new
  BY DEF RecordRead
<1>2. /\ new.line = m + 1 /\ new.spans = spans /\ new.parsed = parsed
      /\ Same(old, new, {"line", "spans", "parsed"})
  <2> HIDE DEF spans, parsed
  <2>1. QED
    BY ReadFields
<1> HIDE DEF new
<1>3. Reads(old, new)
  BY <1>2 DEF Reads
<1>4. QED
  BY <1>1, <1>3

LEMMA ParseReads ==
  ASSUME NEW c \in Cycles, cycle \in [Cycles -> Request], ParseRow(c)
  PROVE  \E new : cycle' = [cycle EXCEPT ![c] = new] /\ Reads(cycle[c], new)
BY RecordReads DEF ParseRow

(* Every step of the poll cycle makes every request go on in one of them.  *)
LEMMA RequestsGoOn ==
  ASSUME IInv, Next
  PROVE  AllGoOn
<1>1. cycle \in [Cycles -> Request]
  BY DEF IInv, AllSound
<1>2. ASSUME cycle' = cycle PROVE AllGoOn
  BY <1>2 DEF AllGoOn, GoesOn
<1>3. ASSUME NEW c \in Cycles, cycle' = [cycle EXCEPT ![c] = NoRequest] PROVE AllGoOn
  BY <1>1, <1>3 DEF AllGoOn, GoesOn
<1>4. ASSUME NEW c \in Cycles, NEW new, cycle' = [cycle EXCEPT ![c] = new], GoesOn(cycle[c], new)
      PROVE  AllGoOn
  BY <1>1, <1>4 DEF AllGoOn, GoesOn
<1>5. CASE Restart
  BY <1>5 DEF Restart, AllGoOn, GoesOn
<1>6. ASSUME NEW c \in Cycles, Attempt(c) PROVE AllGoOn
  <2>1. cycle[c].pc = "idle" /\ Goto(c, IF loggedIn THEN "export" ELSE "login")
    BY <1>6 DEF Attempt
  <2>2. (IF loggedIn THEN "export" ELSE "login") \in Fetching
    BY DEF Fetching
  <2>3. QED
    BY <1>1, <2>1, <2>2, MoveGoesOn
<1>7. ASSUME NEW c \in Cycles, Disconnect(c) PROVE AllGoOn
  <2>1. cycle' = [cycle EXCEPT ![c] = [cycle[c] EXCEPT !.alive = FALSE]]
    BY <1>1, <1>7 DEF Disconnect
  <2>2. HangsUp(cycle[c], [cycle[c] EXCEPT !.alive = FALSE])
    BY <1>1, <1>7, OneField DEF HangsUp, Disconnect
  <2>3. QED
    BY <1>4, <2>1, <2>2 DEF AllGoOn, GoesOn
<1>8. ASSUME NEW c \in Cycles, Fetch(c) PROVE AllGoOn
  <2>1. CASE SiteFails(c)
    BY <1>1, <2>1, FailGoesOn DEF SiteFails
  <2>2. CASE Login(c)
    <3>1. cycle[c].pc \in Fetching /\ Goto(c, IF At(c, "login") THEN "export" ELSE "reexport")
      BY <2>2 DEF Login, Fetching
    <3>2. (IF At(c, "login") THEN "export" ELSE "reexport") \in Fetching
      BY DEF Fetching
    <3>3. QED
      BY <1>1, <3>1, <3>2, MoveGoesOn
  <2>3. CASE FetchCSV(c)
    <3>1. cycle' = [cycle EXCEPT ![c] = [cycle[c] EXCEPT !.pc = "parse", !.feed = export]]
      BY <2>3 DEF FetchCSV
    <3>2. cycle[c].pc \in Fetching
      BY <2>3 DEF FetchCSV, Fetching
    <3>3. Fetches(cycle[c], [cycle[c] EXCEPT !.pc = "parse", !.feed = export])
      <4>1. export \in Seq(Rows)
        BY DEF IInv, Surroundings
      <4>2. QED
        BY <1>1, <3>2, <4>1, FetchFields DEF Fetches
    <3>4. QED
      BY <1>4, <3>1, <3>3 DEF AllGoOn, GoesOn
  <2>4. CASE FetchHTML(c)
    <3>1. cycle[c].pc \in Fetching /\ "relogin" \in Fetching
      BY <2>4 DEF FetchHTML, Fetching
    <3>2. Goto(c, "relogin") \/ Fails(c, "not_csv")
      BY <2>4 DEF FetchHTML
    <3>3. QED
      BY <1>1, <3>1, <3>2, FailGoesOn, MoveGoesOn
  <2>5. CASE ParseRow(c)
    <3>1. \E new : cycle' = [cycle EXCEPT ![c] = new] /\ Reads(cycle[c], new)
      BY <1>1, <2>5, ParseReads
    <3>2. QED
      BY <1>4, <3>1 DEF AllGoOn, GoesOn
  <2>6. CASE Ingested(c)
    BY <1>1, <2>6, IngestedIngests DEF AllGoOn, GoesOn
  <2>8. CASE HeaderFails(c)
    BY <1>1, <2>8, FailGoesOn DEF HeaderFails
  <2>7. QED
    BY <1>8, <2>1, <2>2, <2>3, <2>4, <2>5, <2>6, <2>8 DEF Fetch
<1>9. ASSUME NEW c \in Cycles, Process(c) PROVE AllGoOn
  <2>1. CASE NextCandidate(c)
    <3>1. cycle[c].pc = "loop"
      BY <2>1 DEF NextCandidate
    <3>2. CASE cycle[c].next > Len(cycle[c].parsed.candidates)
      <4>1. cycle' = [cycle EXCEPT ![c] = Answer(cycle[c], 200, "")]
        BY <2>1, <3>2 DEF NextCandidate
      <4>2. Answers(cycle[c], Answer(cycle[c], 200, ""))
        BY <1>1, <3>1, <3>2, AcceptanceAnswers
      <4>3. QED
        BY <1>4, <4>1, <4>2 DEF AllGoOn, GoesOn
    <3>3. CASE ~(cycle[c].next > Len(cycle[c].parsed.candidates))
      <4>1. Goto(c, "claim") \/ Fails(c, "aborted")
        BY <2>1, <3>3 DEF NextCandidate
      <4>2. QED
        BY <1>1, <3>1, <4>1, MoveGoesOn, FailGoesOn
    <3>4. QED
      BY <3>2, <3>3
  <2>2. CASE Claim(c)
    <3>1. cycle[c].pc = "claim" /\ (Goto(c, "work") \/ Count(c, {"already_seen"}))
      BY <2>2 DEF Claim
    <3>2. QED
      BY <1>1, <3>1, MoveGoesOn, CountGoesOn DEF Endings
  <2>3. CASE ClaimFails(c) \/ ClaimLost(c) \/ FinishFails(c) \/ ReleaseFails(c) \/ FinishCancelled(c)
    <3>1. cycle[c].pc \in {"claim", "work"} /\ Count(c, {"failed"})
      BY <2>3 DEF ClaimFails, ClaimLost, FinishFails, ReleaseFails, FinishCancelled
    <3>2. QED
      BY <1>1, <3>1, CountGoesOn DEF Endings
  <2>4. ASSUME NEW action \in Decisions, Finish(c, action) PROVE AllGoOn
    <3>1. cycle[c].pc \in {"claim", "work"} /\ Count(c, {"processed", action})
      BY <2>4 DEF Finish
    <3>2. action \in Outcomes
      BY PollCycleAssumption
    <3>3. QED
      BY <1>1, <3>1, <3>2, CountGoesOn DEF Endings
  <2>5. QED
    BY <1>9, <2>1, <2>2, <2>3, <2>4 DEF Process
<1>10. ASSUME NEW c \in Cycles, Respond(c) \/ Unread(c) PROVE AllGoOn
  BY <1>3, <1>10 DEF Respond, Unread
<1>11. ASSUME NEW row \in Rows, Register(row) PROVE AllGoOn
  BY <1>2, <1>11 DEF Register
<1>12. ASSUME NEW p \in Payloads, PostWebhook(p) PROVE AllGoOn
  BY <1>2, <1>12 DEF PostWebhook
<1>13. CASE Lapse \/ Dispatch \/ Timeout
  <2>1. cycle' = cycle
    BY <1>13 DEF Lapse, Dispatch, Timeout
  <2>2. QED
    BY <1>2, <2>1
<1>14. QED
  BY <1>5, <1>6, <1>7, <1>8, <1>9, <1>10, <1>11, <1>12, <1>13 DEF Next, Serve

-----------------------------------------------------------------------------
(* How much trouble each stage of a fetch has met. What a cycle has seen   *)
(* so far is in the flag and the cookie jar it shares with the others.     *)
Trouble == faults["lapse"] + faults["silent_login"]
SignedIn == {"export", "relogin", "reexport"}

Stages ==
  /\ loggedIn /\ ~session => Trouble >= 1
  /\ \A c \in Cycles :
       /\ cycle[c].pc \in SignedIn => loggedIn
       /\ cycle[c].pc \in {"relogin", "reexport"} => Trouble >= 1
       /\ cycle[c].pc = "reexport" /\ ~session => Trouble >= 2
       /\ cycle[c].error = "not_csv" => Trouble >= 2

(* Trouble never lessens, and each lapse and each empty sign-in adds to it.*)
LEMMA TroubleGrows ==
  ASSUME IInv, Next
  PROVE  /\ Trouble \in Nat /\ Trouble' \in Nat /\ Trouble' >= Trouble
         /\ Fault("lapse") \/ Fault("silent_login") => Trouble' = Trouble + 1
<1>1. faults \in [Budgets -> Nat] /\ faults' \in [Budgets -> Nat]
  BY SMTT(30), SurroundingsStay DEF IInv, Surroundings
<1>2. \/ faults' = faults
      \/ \E kind \in Budgets : Fault(kind)
  BY ZenonT(60)
     DEF Next, Serve, Fetch, Process, Register, PostWebhook, Lapse, Dispatch, Timeout, Restart, Attempt,
         Disconnect, SiteFails, Login, FetchCSV, FetchHTML, HeaderFails, ParseRow, Ingested, NextCandidate, Claim,
         ClaimFails, ClaimLost, Finish, FinishFails, ReleaseFails, FinishCancelled, Respond, Unread, Budgets
<1>3. {"lapse", "silent_login"} \subseteq Budgets
  BY DEF Budgets
<1>4. ASSUME NEW kind \in Budgets, Fault(kind)
      PROVE  /\ faults'[kind] = faults[kind] + 1
             /\ \A other \in Budgets \ {kind} : faults'[other] = faults[other]
  BY <1>1, <1>4 DEF Fault
<1>5. CASE faults' = faults
  BY <1>1, <1>3, <1>4, <1>5 DEF Trouble
<1>6. ASSUME NEW kind \in Budgets, Fault(kind)
      PROVE  /\ Trouble' >= Trouble
             /\ Fault("lapse") \/ Fault("silent_login") => Trouble' = Trouble + 1
  BY <1>1, <1>3, <1>4, <1>6 DEF Trouble
<1>7. Trouble \in Nat /\ Trouble' \in Nat
  BY <1>1, <1>3 DEF Trouble
<1>8. QED
  BY <1>1, <1>2, <1>3, <1>4, <1>5, <1>6, <1>7 DEF Trouble

(* Past its fetch a cycle neither returns to it nor blames the site.       *)
LEMMA PastTheFetch ==
  ASSUME NEW old, NEW new, GoesOn(old, new), old.pc \notin {"idle"} \cup Fetching
  PROVE  new.pc \notin SignedIn /\ (new.error = "not_csv" => old.error = "not_csv")
<1>1. {"pc", "error"} \subseteq Fields /\ SignedIn \subseteq Fetching
  BY DEF Fields, SignedIn, Fetching
<1>2. CASE new = old \/ new = NoRequest
  BY <1>1, <1>2, NoRequestFields DEF SignedIn
<1>3. CASE HangsUp(old, new) \/ Reads(old, new) \/ Counts(old, new)
  BY <1>1, <1>3 DEF HangsUp, Reads, Counts, Same, SignedIn
<1>4. CASE Advances(old, new) \/ Answers(old, new) \/ Fetches(old, new)
  BY <1>1, <1>4 DEF Advances, Answers, Fetches, Same, SignedIn
<1>5. CASE Ingests(old, new)
  BY <1>1, <1>5 DEF Ingests, Same, SignedIn
<1>6. QED
  BY <1>2, <1>3, <1>4, <1>5 DEF GoesOn

(* What the steps do to the flag and the jar, and to the other requests.   *)
LEMMA NextStages ==
  ASSUME IInv, Stages, Next
  PROVE  Stages'
<1>1. cycle \in [Cycles -> Request] /\ \A c \in Cycles : cycle[c] \in Request
  BY DEF IInv, AllSound
<1>2. Trouble \in Nat /\ Trouble' \in Nat /\ Trouble' >= Trouble
  BY TroubleGrows
<1>3. ASSUME loggedIn' = loggedIn, session' = session,
             \A c \in Cycles : /\ cycle'[c].pc \in SignedIn => cycle'[c].pc = cycle[c].pc
                               /\ cycle'[c].error = "not_csv" => cycle[c].error = "not_csv"
      PROVE  Stages'
  BY <1>2, <1>3 DEF Stages, SignedIn
<1>4. ASSUME NEW c \in Cycles, Login(c) PROVE Stages'
  <2> DEFINE step == IF cycle[c].pc = "login" THEN "export" ELSE "reexport"
  <2>1. Goto(c, step)
    BY <1>4 DEF Login
  <2>a. /\ \A d \in Cycles \ {c} : cycle'[d] = cycle[d]
        /\ cycle'[c].pc = step /\ cycle'[c].error = cycle[c].error
    <3> HIDE DEF step
    <3>1. QED
      BY <1>1, <2>1, Moved
  <2>2. /\ \A d \in Cycles \ {c} : cycle'[d] = cycle[d]
        /\ cycle'[c].error = cycle[c].error
        /\ cycle[c].pc = "login" => cycle'[c].pc = "export" /\ loggedIn'
        /\ cycle[c].pc # "login" => cycle'[c].pc = "reexport" /\ cycle[c].pc = "relogin"
    BY <1>4, <2>a DEF Login
  <2>3. loggedIn => loggedIn'
    BY <1>4 DEF Login
  <2>4. cycle[c].pc = "relogin" => loggedIn /\ Trouble >= 1
    BY DEF Stages, SignedIn
  <2>5. \/ session'
        \/ session' = session /\ Trouble' = Trouble + 1
    BY <1>4, TroubleGrows DEF Login
  <2>6. loggedIn' /\ ~session' => Trouble' >= 1
    BY <1>2, <2>5 
  <2>7. QED
    BY <1>2, <2>2, <2>3, <2>4, <2>5, <2>6 DEF Stages, SignedIn
<1>5. CASE Lapse
  <2>1. Trouble' = Trouble + 1 /\ loggedIn' = loggedIn /\ cycle' = cycle
    BY <1>5, TroubleGrows DEF Lapse
  <2>2. QED
    BY <1>2, <2>1 DEF Stages, SignedIn
<1>6. CASE Restart
  <2>1. ~loggedIn' /\ \A c \in Cycles : cycle'[c] = NoRequest
    BY <1>6 DEF Restart
  <2>2. QED
    BY <2>1, NoRequestFields DEF Stages, SignedIn
<1>7. ASSUME NEW c \in Cycles, Attempt(c) PROVE Stages'
  <2>1. /\ \A d \in Cycles \ {c} : cycle'[d] = cycle[d]
        /\ cycle'[c].error = cycle[c].error
        /\ cycle'[c].pc = (IF loggedIn THEN "export" ELSE "login")
        /\ loggedIn' = loggedIn /\ session' = session
    <3> DEFINE step == IF loggedIn THEN "export" ELSE "login"
    <3>1. Goto(c, step)
      BY <1>7 DEF Attempt
    <3> HIDE DEF step
    <3>2. /\ \A d \in Cycles \ {c} : cycle'[d] = cycle[d]
          /\ cycle'[c].pc = step /\ cycle'[c].error = cycle[c].error
      BY <1>1, <3>1, Moved
    <3>3. QED
      BY <1>7, <3>2 DEF Attempt, step
  <2>2. QED
    BY <1>2, <2>1 DEF Stages, SignedIn
<1>8. ASSUME NEW c \in Cycles, FetchHTML(c) PROVE Stages'
  <2>1. \A d \in Cycles \ {c} : cycle'[d] = cycle[d]
    BY <1>1, <1>8 DEF FetchHTML, Fails
  <2>2. loggedIn' = loggedIn /\ session' = session /\ ~session /\ Trouble' = Trouble
    BY <1>8 DEF FetchHTML, Trouble
  <2>3. CASE cycle[c].pc = "export"
    <3>1. cycle'[c].pc = "relogin" /\ cycle'[c].error = cycle[c].error
      BY <1>1, <1>8, <2>3, Moved DEF FetchHTML
    <3>2. loggedIn /\ Trouble >= 1
      BY <2>2, <2>3 DEF Stages, SignedIn
    <3>3. QED
      BY <2>1, <2>2, <3>1, <3>2 DEF Stages, SignedIn
  <2>4. CASE cycle[c].pc = "reexport"
    <3>1. cycle'[c].pc = "answered"
      BY <1>1, <1>8, <2>4, Failed DEF FetchHTML
    <3>2. Trouble >= 2
      BY <2>2, <2>4 DEF Stages
    <3>3. QED
      BY <2>1, <2>2, <3>1, <3>2 DEF Stages, SignedIn
  <2>5. QED
    BY <1>8, <2>3, <2>4 DEF FetchHTML
<1>9. ASSUME NEW c \in Cycles, cycle[c].pc \notin {"idle"} \cup Fetching,
             \A d \in Cycles \ {c} : cycle'[d] = cycle[d],
             loggedIn' = loggedIn, session' = session
      PROVE  Stages'
  <2>1. GoesOn(cycle[c], cycle'[c])
    BY RequestsGoOn DEF AllGoOn
  <2>2. cycle'[c].pc \notin SignedIn /\ (cycle'[c].error = "not_csv" => cycle[c].error = "not_csv")
    BY <1>9, <2>1, PastTheFetch
  <2>3. QED
    BY <1>3, <1>9, <2>2
<1>10. ASSUME NEW c \in Cycles, SiteFails(c) PROVE Stages'
  <2>1. /\ \A d \in Cycles \ {c} : cycle'[d] = cycle[d]
        /\ cycle'[c].pc = "answered" /\ cycle'[c].error = "site"
    BY <1>1, <1>10, Failed DEF SiteFails
  <2>2. QED
    BY <1>3, <1>10, <2>1 DEF SignedIn, SiteFails
<1>11. ASSUME NEW c \in Cycles, FetchCSV(c) PROVE Stages'
  <2> DEFINE new == [cycle[c] EXCEPT !.pc = "parse", !.feed = export]
  <2>1. cycle' = [cycle EXCEPT ![c] = new]
    BY <1>11 DEF FetchCSV
  <2>2. new.pc = "parse" /\ Same(cycle[c], new, {"pc", "feed"})
    BY <1>1, FetchFields
  <2> HIDE DEF new
  <2>3. new.pc \notin SignedIn /\ new.error = cycle[c].error
    BY <2>2 DEF Same, SignedIn, Fields
  <2>4. QED
    BY <1>1, <1>3, <1>11, <2>1, <2>3 DEF FetchCSV
<1>12. ASSUME NEW c \in Cycles, HeaderFails(c) \/ ParseRow(c) \/ Ingested(c) PROVE Stages'
  <2>1. cycle[c].pc \notin {"idle"} \cup Fetching /\ loggedIn' = loggedIn /\ session' = session
    BY <1>12 DEF HeaderFails, ParseRow, Ingested, Fetching
  <2>2. \E new : cycle' = [cycle EXCEPT ![c] = new]
    BY <1>12 DEF HeaderFails, ParseRow, Ingested, Fails
  <2>3. QED
    BY <1>1, <1>9, <2>1, <2>2
<1>13. ASSUME NEW c \in Cycles, Process(c) \/ Respond(c) \/ Unread(c) PROVE Stages'
  <2>1. cycle[c].pc \notin {"idle"} \cup Fetching /\ loggedIn' = loggedIn /\ session' = session
    BY <1>13 DEF Process, NextCandidate, Claim, ClaimFails, ClaimLost, Finish, FinishFails, ReleaseFails,
                 FinishCancelled, Respond, Unread, Fetching
  <2>2. \A d \in Cycles \ {c} : cycle'[d] = cycle[d]
    BY ZenonT(60), <1>1, <1>13
       DEF Process, NextCandidate, Claim, ClaimFails, ClaimLost, Finish, FinishFails, ReleaseFails,
           FinishCancelled, Respond, Unread, Fails, Count
  <2>3. QED
    BY <1>9, <2>1, <2>2
<1>14. ASSUME NEW c \in Cycles, Serve(c) PROVE Stages'
  BY <1>4, <1>8, <1>10, <1>11, <1>12, <1>13, <1>14 DEF Serve, Fetch
<1>16. ASSUME NEW c \in Cycles, Disconnect(c) PROVE Stages'
  <2>1. cycle' = [cycle EXCEPT ![c] = [cycle[c] EXCEPT !.alive = FALSE]]
    BY <1>1, <1>16 DEF Disconnect
  <2>2. Same(cycle[c], [cycle[c] EXCEPT !.alive = FALSE], {"alive"})
    BY <1>1, OneField
  <2>3. \A d \in Cycles : cycle'[d].pc = cycle[d].pc /\ cycle'[d].error = cycle[d].error
    BY <1>1, <2>1, <2>2 DEF Same, Fields
  <2>4. QED
    BY <1>3, <1>16, <2>3 DEF Disconnect
<1>17. ASSUME cycle' = cycle, loggedIn' = loggedIn, session' = session PROVE Stages'
  BY <1>3, <1>17
<1>18. CASE Dispatch \/ Timeout
  BY <1>17, <1>18 DEF Dispatch, Timeout
<1>19. ASSUME NEW row \in Rows, Register(row) PROVE Stages'
  BY <1>17, <1>19 DEF Register
<1>20. ASSUME NEW p \in Payloads, PostWebhook(p) PROVE Stages'
  BY <1>17, <1>20 DEF PostWebhook
<1>21. QED
  BY <1>5, <1>6, <1>7, <1>14, <1>16, <1>18, <1>19, <1>20 DEF Next

(* A cycle that fails because the site would not hand out the export has   *)
(* met two lapses or empty sign-ins: one is healed within the fetch, for   *)
(* any number of cycles that share the cookie jar.                         *)
THEOREM LapseHeals == Spec => []OneLapseHeals
<1>1. Init => Stages
  <2>1. ASSUME Init PROVE ~loggedIn /\ \A c \in Cycles : cycle[c].pc = "idle" /\ cycle[c].error = ""
    BY <2>1 DEF Init, NoRequest
  <2>2. QED
    BY <2>1 DEF Stages, SignedIn
<1>2. IInv /\ Stages /\ [Next]_vars => Stages'
  <2>1. IInv /\ Stages /\ UNCHANGED vars => Stages'
    BY DEF Stages, Trouble, vars
  <2>2. QED
    BY <2>1, NextStages
<1>3. Stages => OneLapseHeals
  BY DEF Stages, OneLapseHeals, Trouble
<1>4. QED
  BY <1>1, <1>2, <1>3, IInvHolds, PTL DEF Spec

-----------------------------------------------------------------------------
(* What reading one row does to the candidates and the errors.             *)
Reported(row) == ~IsTotalsRow(row) /\ RowError(row) = Unknown

LEMMA ConcatTwo ==
  ASSUME NEW S, NEW s \in Seq(S), NEW x \in S, NEW y \in S
  PROVE  s \o <<x, y>> = Append(Append(s, x), y)
<1> DEFINE one == Append(s, x)
           two == Append(one, y)
           both == s \o <<x, y>>
<1>1. one \in Seq(S) /\ Len(one) = Len(s) + 1 /\ \A i \in 1..Len(s) : one[i] = s[i]
  OBVIOUS
<1>2. one[Len(s) + 1] = x
  OBVIOUS
<1>3. two \in Seq(S) /\ Len(two) = Len(s) + 2
  BY <1>1
<1>4. \A i \in 1..Len(s) + 1 : two[i] = one[i]
  <2> HIDE DEF one
  <2>1. QED
    BY <1>1
<1>5. two[Len(s) + 2] = y
  <2> HIDE DEF one
  <2>1. QED
    BY <1>1
<1>6. both \in Seq(S) /\ Len(both) = Len(s) + 2
  OBVIOUS
<1>7. \A i \in 1..Len(s) : both[i] = s[i]
  OBVIOUS
<1>8. both[Len(s) + 1] = x /\ both[Len(s) + 2] = y
  OBVIOUS
<1> HIDE DEF one, two, both
<1>9. Len(s) \in Nat
  OBVIOUS
<1>10. \A i \in 1..Len(s) + 2 : both[i] = two[i]
  BY <1>1, <1>2, <1>4, <1>5, <1>7, <1>8, <1>9
<1>11. both = two
  BY <1>3, <1>6, <1>10
<1>12. QED
  BY <1>11 DEF one, two, both

LEMMA UsableRead ==
  ASSUME NEW parsed \in Parsed, NEW n \in Nat, NEW row \in Row, Usable(row)
  PROVE  LET read == ReadRow(parsed, n, row) IN
         /\ read.candidates = Append(parsed.candidates, Candidate(row))
         /\ read.errs = parsed.errs \/ read.errs = Append(parsed.errs, [row |-> n, what |-> "pdga"])
<1>1. ~IsTotalsRow(row)
  BY DEF Usable
<1>2. parsed.errs \in Seq(Reports)
  BY DEF Parsed
<1>3. RowErrors(n, row) = <<>> \/ RowErrors(n, row) = <<[row |-> n, what |-> "pdga"]>>
  <2>1. CASE PdgaWarning(row)
    <3> DEFINE whats == <<"pdga">>
    <3>1. RowErrors(n, row) = [i \in DOMAIN whats |-> [row |-> n, what |-> whats[i]]]
      BY <2>1 DEF RowErrors
    <3>2. QED
      BY <3>1
  <2>2. CASE ~PdgaWarning(row)
    <3> DEFINE whats == <<>>
    <3>1. RowErrors(n, row) = [i \in DOMAIN whats |-> [row |-> n, what |-> whats[i]]]
      BY <2>2 DEF RowErrors
    <3>2. QED
      BY <3>1
  <2>3. QED
    BY <2>1, <2>2
<1>4. parsed.errs \o RowErrors(n, row) \in {parsed.errs, Append(parsed.errs, [row |-> n, what |-> "pdga"])}
  <2> DEFINE warning == [row |-> n, what |-> "pdga"]
  <2>1. warning \in Reports
    BY DEF Reports, Whats
  <2> HIDE DEF warning
  <2>2. parsed.errs \o <<warning>> = Append(parsed.errs, warning) /\ parsed.errs \o <<>> = parsed.errs
    BY <1>2, <2>1
  <2>3. RowErrors(n, row) = <<>> \/ RowErrors(n, row) = <<warning>>
    BY <1>3 DEF warning
  <2>4. parsed.errs \o RowErrors(n, row) \in {parsed.errs, Append(parsed.errs, warning)}
    BY <2>2, <2>3
  <2>5. QED
    BY <2>4 DEF warning
<1>5. QED
  BY <1>1, <1>4 DEF ReadRow

LEMMA UnusableRead ==
  ASSUME NEW parsed \in Parsed, NEW n \in Nat, NEW row \in Row, ~Usable(row), ~IsTotalsRow(row)
  PROVE  LET read == ReadRow(parsed, n, row)
             error == [row |-> n, what |-> RowError(row)]
         IN /\ read.candidates = parsed.candidates
            /\ \/ read.errs = Append(parsed.errs, error)
               \/ read.errs = Append(Append(parsed.errs, [row |-> n, what |-> "pdga"]), error)
                    /\ RowError(row) = "invalid"
<1>1. parsed.errs \in Seq(Reports)
  BY DEF Parsed
<1> DEFINE error == [row |-> n, what |-> RowError(row)]
<1>2. \/ RowErrors(n, row) = <<error>>
      \/ RowErrors(n, row) = <<[row |-> n, what |-> "pdga"], error>> /\ RowError(row) = "invalid"
  <2>1. CASE PdgaWarning(row)
    <3> DEFINE whats == <<"pdga", RowError(row)>>
    <3>1. RowErrors(n, row) = [i \in DOMAIN whats |-> [row |-> n, what |-> whats[i]]]
      BY <2>1 DEF RowErrors
    <3>2. RowError(row) = "invalid"
      BY <2>1 DEF PdgaWarning, Usable
    <3>3. QED
      BY <3>1, <3>2
  <2>2. CASE ~PdgaWarning(row)
    <3> DEFINE whats == <<RowError(row)>>
    <3>1. RowErrors(n, row) = [i \in DOMAIN whats |-> [row |-> n, what |-> whats[i]]]
      BY <2>2 DEF RowErrors
    <3>2. QED
      BY <3>1
  <2>3. QED
    BY <2>1, <2>2
<1> HIDE DEF error
<1>3. \/ parsed.errs \o RowErrors(n, row) = Append(parsed.errs, error)
      \/ parsed.errs \o RowErrors(n, row) = Append(Append(parsed.errs, [row |-> n, what |-> "pdga"]), error)
           /\ RowError(row) = "invalid"
  <2> DEFINE warning == [row |-> n, what |-> "pdga"]
  <2>1. warning \in Reports /\ error \in Reports
    BY RowErrorType DEF Reports, Whats, error
  <2> HIDE DEF warning
  <2>2. parsed.errs \o <<error>> = Append(parsed.errs, error)
    BY <1>1, <2>1
  <2>3. parsed.errs \o <<warning, error>> = Append(Append(parsed.errs, warning), error)
    BY <1>1, <2>1, ConcatTwo
  <2>4. RowErrors(n, row) = <<error>> \/ (RowErrors(n, row) = <<warning, error>> /\ RowError(row) = "invalid")
    BY <1>2 DEF warning
  <2>5. \/ parsed.errs \o RowErrors(n, row) = Append(parsed.errs, error)
        \/ /\ parsed.errs \o RowErrors(n, row) = Append(Append(parsed.errs, warning), error)
           /\ RowError(row) = "invalid"
    BY <2>2, <2>3, <2>4
  <2>6. QED
    BY <2>5 DEF warning
<1>4. QED
  BY <1>3 DEF ReadRow, error

(* An error more is an unknown division more, or not.                      *)
LEMMA UnknownAppended ==
  ASSUME NEW errs \in Seq(Reports), NEW error \in Reports
  PROVE  Cardinality(UnknownRows(Append(errs, error)))
           = Cardinality(UnknownRows(errs)) + (IF error.what = Unknown THEN 1 ELSE 0)
<1> DEFINE more == Append(errs, error)
           last == Len(errs) + 1
<1>1. /\ DOMAIN errs = 1..Len(errs) /\ DOMAIN more = 1..last /\ Len(errs) \in Nat
      /\ \A i \in 1..Len(errs) : more[i] = errs[i]
      /\ more[last] = error
  OBVIOUS
<1>2. IsFiniteSet(UnknownRows(errs)) /\ Cardinality(UnknownRows(errs)) \in Nat
  <2>1. IsFiniteSet(1..Len(errs)) /\ UnknownRows(errs) \subseteq 1..Len(errs)
    BY <1>1, FS_Interval DEF UnknownRows
  <2>2. QED
    BY <2>1, FS_Subset, FS_CardinalityType
<1> HIDE DEF more
<1>3. CASE error.what = Unknown
  <2>1. UnknownRows(more) = UnknownRows(errs) \cup {last} /\ last \notin UnknownRows(errs)
    BY <1>1, <1>3 DEF UnknownRows
  <2>2. QED
    BY <1>2, <1>3, <2>1, FS_AddElement DEF more
<1>4. CASE error.what # Unknown
  <2>1. UnknownRows(more) = UnknownRows(errs)
    BY <1>1, <1>4 DEF UnknownRows
  <2>2. QED
    BY <1>2, <1>4, <2>1 DEF more
<1>5. QED
  BY <1>3, <1>4

(* The unknown divisions among the first n rows of an export.              *)
UnknownAmong(feed, n) == {i \in 1..n : Reported(feed[i])}

LEMMA UnknownAmongMore ==
  ASSUME NEW feed, NEW n \in Nat \ {0}
  PROVE  /\ IsFiniteSet(UnknownAmong(feed, n - 1))
         /\ Cardinality(UnknownAmong(feed, n))
              = Cardinality(UnknownAmong(feed, n - 1)) + (IF Reported(feed[n]) THEN 1 ELSE 0)
<1>1. IsFiniteSet(UnknownAmong(feed, n - 1)) /\ Cardinality(UnknownAmong(feed, n - 1)) \in Nat
  <2>1. IsFiniteSet(1..(n - 1)) /\ UnknownAmong(feed, n - 1) \subseteq 1..(n - 1)
    BY FS_Interval DEF UnknownAmong
  <2>2. QED
    BY <2>1, FS_Subset, FS_CardinalityType
<1>2. CASE Reported(feed[n])
  <2>1. /\ UnknownAmong(feed, n) = UnknownAmong(feed, n - 1) \cup {n}
        /\ n \notin UnknownAmong(feed, n - 1)
    BY <1>2 DEF UnknownAmong
  <2>2. QED
    BY <1>1, <1>2, <2>1, FS_AddElement
<1>3. CASE ~Reported(feed[n])
  <2>1. UnknownAmong(feed, n) = UnknownAmong(feed, n - 1)
    BY <1>3 DEF UnknownAmong
  <2>2. QED
    BY <1>1, <1>3, <2>1
<1>4. QED
  BY <1>1, <1>2, <1>3

LEMMA UnknownRead ==
  ASSUME NEW parsed \in Parsed, NEW n \in Nat, NEW row \in Row
  PROVE  Cardinality(UnknownRows(ReadRow(parsed, n, row).errs))
           = Cardinality(UnknownRows(parsed.errs)) + (IF Reported(row) THEN 1 ELSE 0)
<1> DEFINE warning == [row |-> n, what |-> "pdga"]
           error == [row |-> n, what |-> RowError(row)]
           read == ReadRow(parsed, n, row)
<1>1. parsed.errs \in Seq(Reports) /\ Cardinality(UnknownRows(parsed.errs)) \in Nat
  BY UnknownRowsCount DEF Parsed
<1>2. warning \in Reports /\ warning.what # Unknown
  BY DEF Reports, Whats, Unknown
<1>3. CASE IsTotalsRow(row)
  BY <1>1, <1>3 DEF ReadRow, Reported
<1>4. CASE Usable(row)
  <2>1. ~Reported(row)
    BY <1>4 DEF Usable, Reported, Unknown
  <2>2. read.errs = parsed.errs \/ read.errs = Append(parsed.errs, warning)
    BY <1>4, UsableRead
  <2> HIDE DEF read, warning
  <2>3. Cardinality(UnknownRows(read.errs)) = Cardinality(UnknownRows(parsed.errs))
    <3>1. Cardinality(UnknownRows(Append(parsed.errs, warning))) = Cardinality(UnknownRows(parsed.errs))
      BY <1>1, <1>2, UnknownAppended
    <3>2. QED
      BY <2>2, <3>1
  <2>4. QED
    BY <1>1, <2>1, <2>3 DEF read
<1>5. CASE ~Usable(row) /\ ~IsTotalsRow(row)
  <2>1. error \in Reports /\ error.what = RowError(row)
    BY <1>5, RowErrorType DEF Reports
  <2>2. \/ read.errs = Append(parsed.errs, error)
        \/ read.errs = Append(Append(parsed.errs, warning), error) /\ RowError(row) = "invalid"
    BY <1>5, UnusableRead
  <2>3. Reported(row) <=> error.what = Unknown
    BY <1>5, <2>1 DEF Reported
  <2> HIDE DEF read, warning, error
  <2>4. CASE read.errs = Append(parsed.errs, error)
    BY <1>1, <2>1, <2>3, <2>4, UnknownAppended DEF read
  <2>5. CASE read.errs = Append(Append(parsed.errs, warning), error)
    <3>1. Append(parsed.errs, warning) \in Seq(Reports)
      BY <1>1, <1>2
    <3>2. Cardinality(UnknownRows(Append(parsed.errs, warning))) = Cardinality(UnknownRows(parsed.errs))
      BY <1>1, <1>2, UnknownAppended
    <3>3. QED
      BY <2>1, <2>3, <2>5, <3>1, <3>2, UnknownAppended DEF read
  <2>6. QED
    BY <2>2, <2>4, <2>5
<1>6. QED
  BY <1>3, <1>4, <1>5
-----------------------------------------------------------------------------
(* The records a request has read, by their row numbers, and what it has   *)
(* made of them.                                                           *)
Records(request) ==
  [k \in DOMAIN request.spans |->
     RecordAt(request.feed, request.spans[k].first, request.spans[k].last)]

Spanned(request) ==
  \A k \in 1..Len(request.spans) :
    LET span == request.spans[k] IN
    /\ span.first \in 1..Len(request.feed) /\ span.last \in span.first..Len(request.feed)
    /\ RecordEnds(request.feed, span.first, span.last)

Covered(request) ==
  \A n \in 1..(request.line - 1) : \E k \in 1..Len(request.spans) :
    n \in request.spans[k].first..request.spans[k].last

RowKept(feed, parsed, n) ==
  \/ IsTotalsRow(feed[n])
  \/ Usable(feed[n]) /\ \E i \in DOMAIN parsed.candidates : parsed.candidates[i] = Candidate(feed[n])
  \/ ~Usable(feed[n]) /\ \E i \in DOMAIN parsed.errs : parsed.errs[i].row = n

ReadInFull(request) ==
  \/ request.pc \in Looping
  \/ request.pc = "answered" /\ request.error \notin {"site", "not_csv", "header"}

Accounts(request) ==
  /\ request.pc \in {"idle"} \cup Fetching =>
       /\ request.line = 1 /\ request.spans = <<>>
       /\ request.feed = <<>> /\ request.parsed = NothingRead
  /\ request.pc = "idle" => request.alive
  /\ Spanned(request) /\ Covered(request)
  /\ \A k \in 1..Len(request.spans) : RowKept(Records(request), request.parsed, k)
  /\ Cardinality(UnknownRows(request.parsed.errs))
       = Cardinality(UnknownAmong(Records(request), Len(request.spans)))
  /\ ReadInFull(request) =>
       /\ request.report["unclassified"] = Cardinality(UnknownRows(request.parsed.errs))
  /\ request.pc = "answered" /\ request.status = 200 =>
       ReadInFull(request) /\ request.next > Len(request.parsed.candidates)

(* A row read is kept, and the rows read before it stay kept.              *)
LEMMA RowRead ==
  ASSUME NEW feed, NEW parsed \in Parsed, NEW n \in Nat, feed[n] \in Row
  PROVE  /\ RowKept(feed, ReadRow(parsed, n, feed[n]), n)
         /\ \A m : RowKept(feed, parsed, m) => RowKept(feed, ReadRow(parsed, n, feed[n]), m)
<1> DEFINE row == feed[n]
           read == ReadRow(parsed, n, row)
           warning == [row |-> n, what |-> "pdga"]
           error == [row |-> n, what |-> RowError(row)]
<1>1. parsed.candidates \in Seq(Candidates) /\ parsed.errs \in Seq(Reports)
  BY DEF Parsed
<1>2. warning \in Reports
  BY DEF Reports, Whats
<1>3. CASE IsTotalsRow(row)
  <2>1. read = parsed
    BY <1>3 DEF ReadRow
  <2>2. QED
    BY <1>3, <2>1 DEF RowKept
<1>4. CASE Usable(row)
  <2>1. Candidate(row) \in Candidates
    BY <1>4, CandidateType
  <2>2. /\ read.candidates = Append(parsed.candidates, Candidate(row))
        /\ read.errs = parsed.errs \/ read.errs = Append(parsed.errs, warning)
    BY <1>4, UsableRead
  <2> HIDE DEF read, warning
  <2>3. /\ \A i \in DOMAIN parsed.candidates : i \in DOMAIN read.candidates /\ read.candidates[i] = parsed.candidates[i]
        /\ \E i \in DOMAIN read.candidates : read.candidates[i] = Candidate(row)
    BY <1>1, <2>1, <2>2
  <2>4. \A i \in DOMAIN parsed.errs : i \in DOMAIN read.errs /\ read.errs[i] = parsed.errs[i]
    <3>1. CASE read.errs = parsed.errs
      BY <1>1, <3>1
    <3>2. CASE read.errs = Append(parsed.errs, warning)
      BY <1>1, <1>2, <3>2
    <3>3. QED
      BY <2>2, <3>1, <3>2
  <2>5. QED
    BY <1>4, <2>3, <2>4 DEF RowKept, read
<1>5. CASE ~Usable(row) /\ ~IsTotalsRow(row)
  <2>1. error \in Reports /\ error.row = n
    BY <1>5, RowErrorType DEF Reports
  <2>2. /\ read.candidates = parsed.candidates
        /\ \/ read.errs = Append(parsed.errs, error)
           \/ read.errs = Append(Append(parsed.errs, warning), error)
    BY <1>5, UnusableRead
  <2> HIDE DEF read, warning, error
  <2>3. /\ \A i \in DOMAIN parsed.errs : i \in DOMAIN read.errs /\ read.errs[i] = parsed.errs[i]
        /\ \E i \in DOMAIN read.errs : read.errs[i] = error
    <3>1. CASE read.errs = Append(parsed.errs, error)
      BY <1>1, <2>1, <3>1
    <3>2. CASE read.errs = Append(Append(parsed.errs, warning), error)
      <4> DEFINE one == Append(parsed.errs, warning)
      <4>1. /\ one \in Seq(Reports)
            /\ \A i \in DOMAIN parsed.errs : i \in DOMAIN one /\ one[i] = parsed.errs[i]
        BY <1>1, <1>2
      <4>2. read.errs = Append(one, error)
        BY <3>2
      <4> HIDE DEF one
      <4>3. /\ \A i \in DOMAIN one : i \in DOMAIN read.errs /\ read.errs[i] = one[i]
            /\ \E i \in DOMAIN read.errs : read.errs[i] = error
        BY <2>1, <4>1, <4>2
      <4>4. QED
        BY <4>1, <4>3
    <3>3. QED
      BY <2>2, <3>1, <3>2
  <2>4. QED
    BY <1>5, <2>1, <2>2, <2>3 DEF RowKept, read
<1>6. QED
  BY <1>3, <1>4, <1>5

LEMMA NothingReadAccounts ==
  ASSUME NEW request, request.line = 1, request.spans = <<>>, request.parsed = NothingRead,
         request.pc \in {"idle"} \cup Fetching => request.feed = <<>>,
         request.pc \in {"idle", "parse"} \cup Fetching, request.pc = "idle" => request.alive
  PROVE  Accounts(request)
<1>1. Len(request.spans) = 0 /\ 1..Len(request.spans) = {} /\ 1..(request.line - 1) = {}
  OBVIOUS
<1>2. /\ UnknownRows(request.parsed.errs) = {}
      /\ UnknownAmong(Records(request), Len(request.spans)) = {}
  BY <1>1 DEF NothingRead, UnknownRows, UnknownAmong
<1>3. ~ReadInFull(request) /\ request.pc # "answered"
  BY DEF ReadInFull, Looping, Fetching
<1>4. Spanned(request) /\ Covered(request)
  BY <1>1 DEF Spanned, Covered
<1>5. QED
  BY <1>1, <1>2, <1>3, <1>4 DEF Accounts

(* Nothing of what Accounts looks at has changed but the step and the end. *)
LEMMA StillAccounts ==
  ASSUME NEW old, NEW new, Accounts(old), new.feed = old.feed, new.line = old.line,
         new.spans = old.spans, new.parsed = old.parsed,
         new.pc \notin {"idle"} \cup Fetching,
         ReadInFull(new) => new.report["unclassified"] = Cardinality(UnknownRows(new.parsed.errs)),
         new.pc = "answered" /\ new.status = 200 =>
           ReadInFull(new) /\ new.next > Len(new.parsed.candidates)
  PROVE  Accounts(new)
<1>1. Records(new) = Records(old)
  BY DEF Records
<1>2. Spanned(new) /\ Covered(new)
  BY DEF Accounts, Spanned, Covered
<1>3. QED
  BY <1>1, <1>2 DEF Accounts

(* One record more leaves the others as they were.                         *)
LEMMA RecordsMore ==
  ASSUME NEW old \in Request, NEW new, Spanned(old), Reads(old, new)
  PROVE  /\ Len(new.spans) = Len(old.spans) + 1 /\ Len(old.spans) \in Nat
         /\ \A k \in 1..Len(old.spans) : Records(new)[k] = Records(old)[k]
         /\ Records(new)[Len(new.spans)] \in Row
         /\ new.parsed = ReadRow(old.parsed, Len(new.spans), Records(new)[Len(new.spans)])
         /\ Spanned(new)
         /\ Covered(old) => Covered(new)
<1>1. PICK m \in old.line..Len(old.feed) :
        /\ RecordEnds(old.feed, old.line, m)
        /\ new.line = m + 1
        /\ new.spans = Append(old.spans, [first |-> old.line, last |-> m])
        /\ new.parsed = ReadRow(old.parsed, Len(old.spans) + 1, RecordAt(old.feed, old.line, m))
  BY DEF Reads
<1>2. new.feed = old.feed
  BY DEF Reads, Same, Fields
<1>3. /\ old.line \in Nat \ {0} /\ old.feed \in Seq(Rows) /\ old.spans \in Seq(Span)
      /\ Len(old.feed) \in Nat
  BY RequestFields
<1> DEFINE span == [first |-> old.line, last |-> m]
           count == Len(old.spans)
<1>4. count \in Nat /\ old.line \in 1..Len(old.feed) /\ m \in old.line..Len(old.feed) /\ m \in Nat
  BY <1>3
<1>5. span \in Span
  BY <1>3, <1>4 DEF Span
<1>6. /\ Len(new.spans) = count + 1 /\ DOMAIN new.spans = 1..(count + 1)
      /\ DOMAIN old.spans = 1..count
      /\ \A k \in 1..count : new.spans[k] = old.spans[k]
      /\ new.spans[count + 1] = span
  <2> HIDE DEF span
  <2>1. QED
    BY <1>1, <1>3, <1>5 DEF span
<1>7. \A k \in 1..count : Records(new)[k] = Records(old)[k]
  <2>1. \A k \in 1..count : k \in DOMAIN new.spans /\ k \in DOMAIN old.spans
    BY <1>4, <1>6
  <2>2. QED
    BY <1>2, <1>6, <2>1 DEF Records
<1>8. Records(new)[count + 1] = RecordAt(old.feed, old.line, m)
  <2>1. count + 1 \in DOMAIN new.spans
    BY <1>4, <1>6
  <2>2. new.spans[count + 1].first = old.line /\ new.spans[count + 1].last = m
    BY <1>6
  <2>3. QED
    BY <1>2, <2>1, <2>2 DEF Records
<1>9. RecordAt(old.feed, old.line, m) \in Row
  BY <1>3, <1>4, RecordType
<1>10. \A k \in 1..Len(new.spans) : k \in 1..count \/ k = count + 1
  BY <1>4, <1>6
<1>11. Spanned(new)
  <2> SUFFICES ASSUME NEW k \in 1..Len(new.spans)
               PROVE  /\ new.spans[k].first \in 1..Len(new.feed)
                      /\ new.spans[k].last \in new.spans[k].first..Len(new.feed)
                      /\ RecordEnds(new.feed, new.spans[k].first, new.spans[k].last)
    BY DEF Spanned
  <2>1. CASE k \in 1..count
    BY <1>2, <1>6, <2>1 DEF Spanned
  <2>2. CASE k = count + 1
    <3>1. new.spans[k].first = old.line /\ new.spans[k].last = m
      BY <1>6, <2>2
    <3>2. QED
      BY <1>1, <1>2, <1>4, <3>1
  <2>3. QED
    BY <1>10, <2>1, <2>2
<1>12. ASSUME Covered(old) PROVE Covered(new)
  <2> SUFFICES ASSUME NEW n \in 1..(new.line - 1)
               PROVE  \E k \in 1..Len(new.spans) : n \in new.spans[k].first..new.spans[k].last
    BY DEF Covered
  <2>1. n \in 1..(old.line - 1) \/ n \in old.line..m
    BY <1>1, <1>3, <1>4
  <2>2. CASE n \in 1..(old.line - 1)
    <3>1. PICK k \in 1..count : n \in old.spans[k].first..old.spans[k].last
      BY <1>12, <2>2 DEF Covered
    <3>2. k \in 1..Len(new.spans) /\ new.spans[k] = old.spans[k]
      BY <1>4, <1>6, <3>1
    <3>3. QED
      BY <3>1, <3>2
  <2>3. CASE n \in old.line..m
    <3>1. new.spans[count + 1].first = old.line /\ new.spans[count + 1].last = m
      BY <1>6
    <3>2. count + 1 \in 1..Len(new.spans)
      BY <1>4, <1>6
    <3>3. QED
      BY <2>3, <3>1, <3>2
  <2>4. QED
    BY <2>1, <2>2, <2>3
<1>13. QED
  BY <1>1, <1>4, <1>6, <1>7, <1>8, <1>9, <1>11, <1>12

LEMMA AccountsKept ==
  ASSUME NEW old \in Request, NEW new, Accounts(old), GoesOn(old, new)
  PROVE  Accounts(new)
<1>1. Fields = {"pc", "alive", "feed", "line", "spans", "parsed", "next", "report", "status", "error"}
  BY DEF Fields
<1>2. old.parsed \in Parsed
  BY RequestFields
<1>3. CASE new = old
  BY <1>3
<1>4. CASE new = NoRequest
  <2>1. /\ NoRequest.line = 1 /\ NoRequest.spans = <<>> /\ NoRequest.feed = <<>>
        /\ NoRequest.parsed = NothingRead
        /\ NoRequest.pc \in {"idle"} \cup Fetching /\ NoRequest.alive
    BY DEF NoRequest
  <2>2. QED
    BY <1>4, <2>1, NothingReadAccounts
<1>5. CASE HangsUp(old, new)
  <2>1. /\ new.pc = old.pc /\ new.feed = old.feed /\ new.line = old.line
        /\ new.spans = old.spans /\ new.parsed = old.parsed
        /\ new.report = old.report /\ new.status = old.status /\ new.error = old.error
        /\ new.next = old.next
    BY <1>1, <1>5 DEF HangsUp, Same
  <2>2. old.pc # "idle"
    BY <1>5 DEF HangsUp
  <2>3. CASE old.pc \in Fetching
    <3>1. /\ old.line = 1 /\ old.spans = <<>> /\ old.feed = <<>> /\ old.parsed = NothingRead
      BY <2>3 DEF Accounts
    <3>2. QED
      BY <2>1, <2>2, <2>3, <3>1, NothingReadAccounts
  <2>4. CASE old.pc \notin Fetching
    <3>1. ReadInFull(new) => ReadInFull(old)
      BY <2>1 DEF ReadInFull
    <3>2. ReadInFull(old) => ReadInFull(new)
      BY <2>1 DEF ReadInFull
    <3>3. QED
      BY <2>1, <2>2, <2>4, <3>1, <3>2, StillAccounts DEF Accounts
  <2>5. QED
    BY <2>3, <2>4
<1>6. CASE Advances(old, new)
  <2>1. /\ new.feed = old.feed /\ new.line = old.line /\ new.spans = old.spans
        /\ new.parsed = old.parsed /\ new.report = old.report
    BY <1>1, <1>6 DEF Advances, Same
  <2>2. CASE old.pc \in {"idle"} \cup Fetching /\ new.pc \in Fetching
    <3>1. old.line = 1 /\ old.spans = <<>> /\ old.feed = <<>> /\ old.parsed = NothingRead
      BY <2>2 DEF Accounts
    <3>2. /\ new.line = 1 /\ new.spans = <<>> /\ new.feed = <<>> /\ new.parsed = NothingRead
          /\ new.pc # "idle"
      BY <2>1, <2>2, <3>1 DEF Fetching
    <3>3. QED
      BY <2>2, <3>2, NothingReadAccounts
  <2>3. CASE old.pc \in Looping /\ new.pc \in {"claim", "work"}
    <3>1. ReadInFull(old) /\ new.pc \notin {"idle"} \cup Fetching /\ new.pc # "answered"
      BY <2>3 DEF ReadInFull, Fetching
    <3>2. QED
      BY <2>1, <3>1, StillAccounts DEF Accounts
  <2>4. QED
    BY <1>6, <2>2, <2>3 DEF Advances, Looping
<1>7. CASE Answers(old, new)
  <2>1. /\ new.feed = old.feed /\ new.line = old.line /\ new.spans = old.spans
        /\ new.parsed = old.parsed /\ new.report = old.report /\ new.next = old.next
    BY <1>1, <1>7 DEF Answers, Same
  <2>2. new.pc = "answered" /\ new.pc \notin {"idle"} \cup Fetching
    BY <1>7 DEF Answers, Fetching
  <2>3. ReadInFull(new) => ReadInFull(old)
    BY <1>7, <2>2 DEF Answers, ReadInFull, Looping
  <2>4. new.status = 200 => ReadInFull(new) /\ new.next > Len(new.parsed.candidates)
    BY <1>7, <2>1, <2>2 DEF Answers, ReadInFull
  <2>5. QED
    BY <2>1, <2>2, <2>3, <2>4, StillAccounts DEF Accounts
<1>8. CASE Fetches(old, new)
  <2>1. new.line = old.line /\ new.spans = old.spans /\ new.parsed = old.parsed /\ new.pc = "parse"
    BY <1>1, <1>8 DEF Fetches, Same
  <2>2. old.line = 1 /\ old.spans = <<>> /\ old.parsed = NothingRead
    BY <1>8 DEF Accounts, Fetches
  <2>3. new.pc \notin {"idle"} \cup Fetching
    BY <2>1 DEF Fetching
  <2>4. QED
    BY <2>1, <2>2, <2>3, NothingReadAccounts
<1>9. CASE Reads(old, new)
  <2> DEFINE last == Len(new.spans)
  <2>1. new.pc = "parse"
    BY <1>1, <1>9 DEF Reads, Same
  <2>2. /\ last = Len(old.spans) + 1 /\ Len(old.spans) \in Nat
        /\ \A k \in 1..Len(old.spans) : Records(new)[k] = Records(old)[k]
        /\ Records(new)[last] \in Row
        /\ new.parsed = ReadRow(old.parsed, last, Records(new)[last])
        /\ Spanned(new) /\ Covered(new)
    BY <1>9, RecordsMore DEF Accounts
  <2> HIDE DEF last
  <2>3. last \in Nat \ {0} /\ last - 1 = Len(old.spans)
    BY <2>2
  <2>4. \A k \in 1..last : RowKept(Records(new), new.parsed, k)
    <3>1. \A k \in 1..Len(old.spans) : RowKept(Records(new), old.parsed, k)
      <4>1. \A k \in 1..Len(old.spans) : RowKept(Records(old), old.parsed, k)
        BY DEF Accounts
      <4>2. QED
        BY <2>2, <4>1 DEF RowKept
    <3>2. \A k \in 1..last : k \in 1..Len(old.spans) \/ k = last
      BY <2>2
    <3>3. QED
      BY <1>2, <2>2, <2>3, <3>1, <3>2, RowRead
  <2>5. Cardinality(UnknownRows(new.parsed.errs)) = Cardinality(UnknownAmong(Records(new), last))
    <3>1. Cardinality(UnknownRows(new.parsed.errs))
            = Cardinality(UnknownRows(old.parsed.errs)) + (IF Reported(Records(new)[last]) THEN 1 ELSE 0)
      BY <1>2, <2>2, <2>3, UnknownRead
    <3>2. Cardinality(UnknownAmong(Records(new), last))
            = Cardinality(UnknownAmong(Records(new), last - 1)) + (IF Reported(Records(new)[last]) THEN 1 ELSE 0)
      BY <2>3, UnknownAmongMore
    <3>3. UnknownAmong(Records(new), last - 1) = UnknownAmong(Records(old), Len(old.spans))
      BY <2>2, <2>3 DEF UnknownAmong
    <3>4. QED
      BY <3>1, <3>2, <3>3 DEF Accounts
  <2>6. ~ReadInFull(new) /\ new.pc \notin {"idle"} \cup Fetching /\ new.pc # "answered"
    BY <2>1 DEF ReadInFull, Looping, Fetching
  <2>7. QED
    BY <2>2, <2>4, <2>5, <2>6 DEF Accounts, last
<1>10. CASE Ingests(old, new)
  <2>1. /\ new.feed = old.feed /\ new.line = old.line /\ new.spans = old.spans
        /\ new.parsed = old.parsed
        /\ new.report["unclassified"] = Cardinality(UnknownRows(old.parsed.errs))
    BY <1>1, <1>10 DEF Ingests, Same
  <2>3. new.pc \in {"loop", "answered"} /\ ~(new.pc = "answered" /\ new.status = 200)
    BY <1>10 DEF Ingests
  <2>4. new.pc \notin {"idle"} \cup Fetching
    BY <2>3 DEF Fetching
  <2>5. new.report["unclassified"] = Cardinality(UnknownRows(new.parsed.errs))
    BY <2>1
  <2>6. QED
    BY <2>1, <2>3, <2>4, <2>5, StillAccounts
<1>11. CASE Counts(old, new)
  <2>1. /\ new.feed = old.feed /\ new.line = old.line /\ new.spans = old.spans
        /\ new.parsed = old.parsed /\ new.pc = "loop"
    BY <1>1, <1>11 DEF Counts, Same
  <2>2. new.report["unclassified"] = old.report["unclassified"]
    <3>1. PICK counters \in Endings : Tally(old, new, counters)
      BY <1>11 DEF Counts
    <3>2. "unclassified" \notin counters /\ "unclassified" \in Counters
      BY CounterNames DEF Endings, Outcomes
    <3>3. old.report \in [Counters -> Nat]
      BY RequestFields
    <3>4. QED
      BY <3>1, <3>2, <3>3 DEF Tally
  <2>3. ReadInFull(old) /\ new.pc \notin {"idle"} \cup Fetching
    BY <1>11, <2>1 DEF Counts, ReadInFull, Looping, Fetching
  <2>4. QED
    BY <2>1, <2>2, <2>3, StillAccounts DEF Accounts
<1>12. QED
  BY <1>3, <1>4, <1>5, <1>6, <1>7, <1>8, <1>9, <1>10, <1>11 DEF GoesOn

AllAccount == \A c \in Cycles : Accounts(cycle[c])

LEMMA AllAccountAlways == Spec => []AllAccount
<1>1. Init => AllAccount
  <2>1. Accounts(NoRequest)
    <3>1. /\ NoRequest.line = 1 /\ NoRequest.spans = <<>> /\ NoRequest.feed = <<>>
          /\ NoRequest.parsed = NothingRead /\ NoRequest.pc \in {"idle"} \cup Fetching /\ NoRequest.alive
      BY DEF NoRequest
    <3>2. QED
      BY <3>1, NothingReadAccounts
  <2>2. QED
    BY <2>1 DEF Init, AllAccount
<1>2. IInv /\ AllAccount /\ Next => AllAccount'
  <2>1. ASSUME IInv, AllAccount, Next, NEW c \in Cycles PROVE Accounts(cycle'[c])
    <3>1. cycle[c] \in Request /\ Accounts(cycle[c]) /\ GoesOn(cycle[c], cycle'[c])
      BY <2>1, RequestsGoOn DEF IInv, AllSound, AllAccount, AllGoOn
    <3>2. QED
      BY <3>1, AccountsKept
  <2>2. QED
    BY <2>1 DEF AllAccount
<1>3. AllAccount /\ UNCHANGED vars => AllAccount'
  BY DEF AllAccount, vars
<1>4. QED
  BY <1>1, <1>2, <1>3, IInvHolds, PTL DEF Spec

(* No line of any export is dropped without a trace: each is a record that *)
(* becomes a candidate or is reported under its number, or text of a row   *)
(* before it that left a quote open and is such a record itself.           *)
THEOREM NoRowIsLost == Spec => []NoRowLost
<1>1. AllAccount /\ IInv => NoRowLost
  <2> SUFFICES ASSUME AllAccount, IInv, NEW c \in Cycles, NEW n \in 1..(cycle[c].line - 1)
               PROVE  \E k \in DOMAIN cycle[c].spans :
                        LET span == cycle[c].spans[k]  parsed == cycle[c].parsed IN
                        /\ n \in span.first..span.last
                        /\ n = span.first \/ cycle[c].feed[span.first].quotes \in Openers
                        /\ \/ IsTotalsRow(RecordOf(c, k))
                           \/ \E i \in DOMAIN parsed.candidates :
                                parsed.candidates[i] = Candidate(RecordOf(c, k))
                           \/ \E i \in DOMAIN parsed.errs : parsed.errs[i].row = k
    BY DEF NoRowLost
  <2> DEFINE request == cycle[c]
  <2>1. request \in Request /\ Accounts(request)
    BY DEF AllAccount, IInv, AllSound
  <2>2. PICK k \in 1..Len(request.spans) : n \in request.spans[k].first..request.spans[k].last
    BY <2>1 DEF Accounts, Covered
  <2> DEFINE span == request.spans[k]
  <2>3. k \in DOMAIN request.spans
    BY <2>1, <2>2, RequestFields
  <2>4. Records(request)[k] = RecordOf(c, k)
    BY <2>3 DEF Records, RecordOf
  <2>5. /\ span.first \in 1..Len(request.feed) /\ span.last \in span.first..Len(request.feed)
        /\ RecordEnds(request.feed, span.first, span.last)
    BY <2>1 DEF Accounts, Spanned
  <2>6. n = span.first \/ request.feed[span.first].quotes \in Openers
    <3>1. CASE request.feed[span.first].quotes \notin Openers
      <4>1. span.last = span.first
        BY <2>5, <3>1 DEF RecordEnds
      <4>2. QED
        BY <2>2, <2>5, <4>1
    <3>2. QED
      BY <3>1
  <2>7. RowKept(Records(request), request.parsed, k)
    BY <2>1 DEF Accounts
  <2>8. \/ IsTotalsRow(RecordOf(c, k))
        \/ \E i \in DOMAIN request.parsed.candidates :
             request.parsed.candidates[i] = Candidate(RecordOf(c, k))
        \/ \E i \in DOMAIN request.parsed.errs : request.parsed.errs[i].row = k
    BY <2>4, <2>7 DEF RowKept
  <2>9. QED
    BY <2>2, <2>3, <2>6, <2>8
<1>2. QED
  BY <1>1, AllAccountAlways, IInvHolds, PTL

(* Every report counts each row of an unknown division, once.              *)
THEOREM UnknownRowsAreCounted == Spec => []UnknownRowsCounted
<1>1. IInv /\ AllAccount => UnknownRowsCounted
  <2> SUFFICES ASSUME IInv, AllAccount, NEW c \in Cycles,
                      cycle[c].pc \in Looping \cup {"answered"},
                      cycle[c].error \notin {"site", "not_csv", "header"}
               PROVE  cycle[c].report["unclassified"] =
                        Cardinality({k \in DOMAIN cycle[c].spans :
                                       /\ ~IsTotalsRow(RecordOf(c, k))
                                       /\ RowError(RecordOf(c, k)) = Unknown})
    BY DEF UnknownRowsCounted
  <2> DEFINE spans == cycle[c].spans
             records == Records(cycle[c])
  <2>1. Accounts(cycle[c]) /\ ReadInFull(cycle[c]) /\ spans \in Seq(Span)
    BY RequestFields DEF AllAccount, ReadInFull, IInv, AllSound
  <2>2. cycle[c].report["unclassified"] = Cardinality(UnknownAmong(records, Len(spans)))
    BY <2>1 DEF Accounts
  <2>3. DOMAIN spans = 1..Len(spans) /\ \A k \in DOMAIN spans : records[k] = RecordOf(c, k)
    BY <2>1 DEF Records, RecordOf
  <2>4. UnknownAmong(records, Len(spans))
          = {k \in DOMAIN spans : ~IsTotalsRow(RecordOf(c, k)) /\ RowError(RecordOf(c, k)) = Unknown}
    BY <2>3 DEF UnknownAmong, Reported
  <2>5. QED
    BY <2>2, <2>4
<1>2. QED
  BY <1>1, AllAccountAlways, IInvHolds, PTL

-----------------------------------------------------------------------------
(* As long as nobody stops waiting and the machine runs on, cycles take    *)
(* turns: the one that runs is awaited, a pending row is the one it works  *)
(* on, and while it counts no failure the candidates behind it are on      *)
(* record.                                                                 *)
Clean(request) ==
  /\ request.pc \in Looping \/ (request.pc = "answered" /\ request.status = 200)
  /\ request.report["failed"] = 0

Passed(request) == {i \in DOMAIN request.parsed.candidates : i < request.next}

OnRecord(request, ledger) ==
  \A i \in Passed(request) : ledger[request.parsed.candidates[i].id].state = "recorded"

Turns == \A c \in Cycles : cycle[c].pc # "idle" => Waiting(c) /\ cycle[c].alive

Owned ==
  \A a \in Addresses : entry[a].state = "pending" =>
    \E c \in Cycles : cycle[c].pc = "work" /\ Current(c).id = a

Behind == \A c \in Cycles : Clean(cycle[c]) => OnRecord(cycle[c], entry)

Orderly == Undisturbed => Turns /\ Owned /\ Behind

(* A row that is absent is no row at all.                                  *)
Settled == \A id \in Ids : entry[id].state = "absent" => entry[id] = NoEntry

(* A step of the one cycle that runs.                                      *)
LEMMA TurnTaken ==
  ASSUME Turns, NEW c \in Cycles, cycle[c].pc # "idle",
         \A d \in Cycles \ {c} : cycle'[d] = cycle[d],
         trigger' = trigger, cycle'[c].alive = cycle[c].alive,
         Clean(cycle'[c]) => OnRecord(cycle'[c], entry'),
         \A a \in Addresses : entry'[a].state = "pending" =>
           /\ cycle'[c].pc = "work"
           /\ cycle'[c].parsed.candidates[cycle'[c].next].id = a
  PROVE  Orderly'
<1>1. Waiting(c) /\ \A d \in Cycles \ {c} : cycle[d].pc = "idle"
  BY DEF Turns, Waiting
<1>2. \A d \in Cycles \ {c} : ~Clean(cycle'[d])
  BY <1>1 DEF Clean, Looping
<1>3. Turns'
  BY <1>1 DEF Turns, Waiting
<1>4. Owned'
  BY DEF Owned, Current
<1>5. Behind'
  BY <1>2 DEF Behind
<1>6. QED
  BY <1>3, <1>4, <1>5 DEF Orderly

(* Whoever runs is the only one, and works on the one pending row.         *)
LEMMA OneRuns ==
  ASSUME Turns, Owned, NEW c \in Cycles, cycle[c].pc # "idle"
  PROVE  /\ cycle[c].alive /\ Waiting(c)
         /\ \A a \in Addresses : entry[a].state = "pending" => cycle[c].pc = "work" /\ Current(c).id = a
BY DEF Turns, Owned, Waiting

LEMMA CountedFields ==
  ASSUME NEW c \in Cycles, cycle \in [Cycles -> Request], NEW counters, Count(c, counters)
  PROVE  /\ \A d \in Cycles \ {c} : cycle'[d] = cycle[d]
         /\ cycle'[c].pc = "loop" /\ cycle'[c].next = cycle[c].next + 1
         /\ cycle'[c].alive = cycle[c].alive /\ cycle'[c].parsed = cycle[c].parsed
         /\ cycle'[c].report["failed"] = cycle[c].report["failed"] + (IF "failed" \in counters THEN 1 ELSE 0)
<1> DEFINE old == cycle[c]
           report == [k \in Counters |-> old.report[k] + (IF k \in counters THEN 1 ELSE 0)]
           new == [old EXCEPT !.pc = "loop", !.next = old.next + 1, !.report = report]
<1>1. cycle' = [cycle EXCEPT ![c] = new]
  BY DEF Count
<1>2. /\ new.pc = "loop" /\ new.next = old.next + 1 /\ new.report = report
      /\ Same(old, new, {"pc", "next", "report"})
  BY CountFields
<1> HIDE DEF new
<1>3. report["failed"] = old.report["failed"] + (IF "failed" \in counters THEN 1 ELSE 0)
  BY CounterNames
<1>4. new.alive = old.alive /\ new.parsed = old.parsed
  BY <1>2 DEF Same, Fields
<1> HIDE DEF report
<1>5. QED
  BY <1>1, <1>2, <1>3, <1>4

(* The candidates are read from the export, and so are their IDs.          *)
LEMMA CandidateIds ==
  ASSUME AllSound, NEW c \in Cycles
  PROVE  /\ \A i \in DOMAIN cycle[c].parsed.candidates :
              i \in Nat \ {0} /\ cycle[c].parsed.candidates[i].id \in Addresses
         /\ cycle[c].pc \in {"claim", "work"} => Current(c).id \in Addresses
<1>1. cycle[c] \in Request
  BY DEF AllSound, Sound
<1>2. cycle[c].parsed.candidates \in Seq(Candidates)
  BY <1>1, RequestFields
<1>3. \A i \in DOMAIN cycle[c].parsed.candidates :
        i \in Nat \ {0} /\ cycle[c].parsed.candidates[i] \in Candidates
  BY <1>2
<1>4. QED
  BY <1>3, CandidateAt DEF Candidates

LEMMA PassedMore ==
  ASSUME AllSound, NEW c \in Cycles, NEW new,
         new.next = cycle[c].next + 1, new.parsed = cycle[c].parsed
  PROVE  \A i \in Passed(new) : i \in Passed(cycle[c]) \/ i = cycle[c].next
<1>1. cycle[c].next \in Nat
  BY RequestFields DEF AllSound, Sound
<1>2. ASSUME NEW i \in DOMAIN cycle[c].parsed.candidates, i < cycle[c].next + 1
      PROVE  i < cycle[c].next \/ i = cycle[c].next
  <2>1. i \in Nat
    BY CandidateIds
  <2>2. QED
    BY <1>1, <1>2, <2>1
<1>3. QED
  BY <1>2 DEF Passed

(* A step of the fetch, of ingest or of the loop leaves the ledger alone.  *)
LEMMA QuietTurn ==
  ASSUME AllSound, Turns, Owned, Behind, NEW c \in Cycles, cycle[c].pc \notin {"idle", "work"},
         \A d \in Cycles \ {c} : cycle'[d] = cycle[d],
         trigger' = trigger, entry' = entry, cycle'[c].alive = cycle[c].alive,
         \/ ~Clean(cycle'[c])
         \/ cycle'[c].next = 1 /\ cycle'[c].parsed = cycle[c].parsed
         \/ /\ Clean(cycle[c])
            /\ cycle'[c].next = cycle[c].next /\ cycle'[c].parsed = cycle[c].parsed
  PROVE  Orderly'
<1>1. \A a \in Addresses : entry[a].state # "pending"
  BY OneRuns
<1>2. Clean(cycle'[c]) => OnRecord(cycle'[c], entry')
  <2>1. CASE cycle'[c].next = 1 /\ cycle'[c].parsed = cycle[c].parsed
    BY <2>1, CandidateIds DEF OnRecord, Passed
  <2>2. CASE /\ Clean(cycle[c])
             /\ cycle'[c].next = cycle[c].next /\ cycle'[c].parsed = cycle[c].parsed
    BY <2>2 DEF OnRecord, Passed, Behind
  <2>3. QED
    BY <2>1, <2>2
<1>3. QED
  BY <1>1, <1>2, TurnTaken

LEMMA FetchOrderly ==
  ASSUME IInv, Turns, Owned, Behind, NEW c \in Cycles, Fetch(c)
  PROVE  Orderly'
<1>1. AllSound /\ cycle \in [Cycles -> Request]
  BY DEF IInv, AllSound
<1>2. cycle[c].pc \notin {"idle", "work"} /\ trigger' = trigger /\ entry' = entry
  BY DEF Fetch, SiteFails, Login, FetchCSV, FetchHTML, HeaderFails, ParseRow, Ingested, Fetching
<1>3. ASSUME NEW error, Fails(c, error) PROVE Orderly'
  <2>1. /\ \A d \in Cycles \ {c} : cycle'[d] = cycle[d]
        /\ cycle'[c].pc = "answered" /\ cycle'[c].status = 500 /\ cycle'[c].alive = cycle[c].alive
    BY <1>1, <1>3, Failed
  <2>2. ~Clean(cycle'[c])
    BY <2>1 DEF Clean, Looping
  <2>3. QED
    BY <1>1, <1>2, <2>1, <2>2, QuietTurn
<1>4. ASSUME NEW step, Goto(c, step), step \in Fetching PROVE Orderly'
  <2>1. /\ \A d \in Cycles \ {c} : cycle'[d] = cycle[d]
        /\ cycle'[c].pc = step /\ Same(cycle[c], cycle'[c], {"pc"})
    BY <1>1, <1>4, Moved
  <2>2. ~Clean(cycle'[c]) /\ cycle'[c].alive = cycle[c].alive
    BY <1>4, <2>1 DEF Clean, Looping, Fetching, Same, Fields
  <2>3. QED
    BY <1>1, <1>2, <2>1, <2>2, QuietTurn
<1>5. CASE SiteFails(c) \/ HeaderFails(c)
  BY <1>3, <1>5 DEF SiteFails, HeaderFails
<1>6. CASE Login(c)
  <2>1. Goto(c, IF At(c, "login") THEN "export" ELSE "reexport")
    BY <1>6 DEF Login
  <2>2. (IF At(c, "login") THEN "export" ELSE "reexport") \in Fetching
    BY DEF Fetching
  <2>3. QED
    BY <1>4, <2>1, <2>2
<1>7. CASE FetchHTML(c)
  BY <1>3, <1>4, <1>7 DEF FetchHTML, Fetching
<1>8. CASE FetchCSV(c)
  <2> DEFINE new == [cycle[c] EXCEPT !.pc = "parse", !.feed = export]
  <2>1. cycle' = [cycle EXCEPT ![c] = new]
    BY <1>8 DEF FetchCSV
  <2>2. new.pc = "parse" /\ Same(cycle[c], new, {"pc", "feed"})
    BY <1>1, FetchFields
  <2> HIDE DEF new
  <2>3. ~Clean(new) /\ new.alive = cycle[c].alive
    BY <2>2 DEF Clean, Looping, Same, Fields
  <2>4. QED
    BY <1>1, <1>2, <2>1, <2>3, QuietTurn
<1>9. CASE ParseRow(c)
  <2>1. PICK new : cycle' = [cycle EXCEPT ![c] = new] /\ Reads(cycle[c], new)
    BY <1>1, <1>9, ParseReads
  <2>2. cycle[c].pc = "parse" /\ Same(cycle[c], new, {"line", "spans", "parsed"})
    BY <2>1 DEF Reads
  <2>3. ~Clean(new) /\ new.alive = cycle[c].alive
    BY <2>1, <2>2 DEF Clean, Looping, Same, Fields
  <2>4. QED
    BY <1>1, <1>2, <2>1, <2>3, QuietTurn
<1>10. CASE Ingested(c)
  <2>1. \A d \in Cycles \ {c} : cycle'[d] = cycle[d]
    BY <1>1, <1>10 DEF Ingested
  <2>2. Ingests(cycle[c], cycle'[c])
    BY <1>1, <1>10, IngestedIngests
  <2>3. /\ cycle'[c].next = cycle[c].next /\ cycle'[c].alive = cycle[c].alive
        /\ cycle'[c].parsed = cycle[c].parsed
    BY <2>2 DEF Ingests, Same, Fields
  <2>4. cycle[c].next = 1
    BY <1>1, <1>10, EarlyCounts DEF Ingested, AllSound, Early
  <2>5. QED
    BY <1>1, <1>2, <2>1, <2>3, <2>4, QuietTurn
<1>11. QED
  BY <1>5, <1>6, <1>7, <1>8, <1>9, <1>10 DEF Fetch

LEMMA LoopOrderly ==
  ASSUME IInv, Turns, Owned, Behind, NEW c \in Cycles, NextCandidate(c)
  PROVE  Orderly'
<1>1. AllSound /\ cycle \in [Cycles -> Request]
  BY DEF IInv, AllSound
<1>2. cycle[c].pc = "loop" /\ trigger' = trigger /\ entry' = entry
  BY DEF NextCandidate
<1>3. CASE Fails(c, "aborted")
  <2>1. /\ \A d \in Cycles \ {c} : cycle'[d] = cycle[d]
        /\ cycle'[c].pc = "answered" /\ cycle'[c].status = 500 /\ cycle'[c].alive = cycle[c].alive
    BY <1>1, <1>3, Failed
  <2>2. ~Clean(cycle'[c])
    BY <2>1 DEF Clean, Looping
  <2>3. QED
    BY <1>1, <1>2, <2>1, <2>2, QuietTurn
<1>4. CASE Goto(c, "claim")
  <2>1. /\ \A d \in Cycles \ {c} : cycle'[d] = cycle[d]
        /\ cycle'[c].pc = "claim" /\ Same(cycle[c], cycle'[c], {"pc"})
    BY <1>1, <1>4, Moved
  <2>2. /\ cycle'[c].alive = cycle[c].alive /\ cycle'[c].next = cycle[c].next
        /\ cycle'[c].parsed = cycle[c].parsed /\ cycle'[c].report = cycle[c].report
    BY <2>1 DEF Same, Fields
  <2>3. Clean(cycle'[c]) => Clean(cycle[c])
    BY <1>2, <2>2 DEF Clean, Looping
  <2>4. QED
    BY <1>1, <1>2, <2>1, <2>2, <2>3, QuietTurn
<1>5. CASE cycle' = [cycle EXCEPT ![c] = Answer(cycle[c], 200, "")]
  <2> DEFINE new == Answer(cycle[c], 200, "")
  <2>0. cycle[c] = [f \in Fields |-> cycle[c][f]]
    BY <1>1, RequestDomain
  <2>1. /\ new.pc = "answered" /\ new.alive = cycle[c].alive /\ new.next = cycle[c].next
        /\ new.parsed = cycle[c].parsed /\ new.report = cycle[c].report
    BY <2>0 DEF Answer, Fields
  <2> HIDE DEF new
  <2>2. Clean(new) => Clean(cycle[c])
    BY <1>2, <2>1 DEF Clean, Looping
  <2>3. cycle'[c] = new /\ \A d \in Cycles \ {c} : cycle'[d] = cycle[d]
    BY <1>1, <1>5 DEF new
  <2>4. QED
    BY <1>1, <1>2, <2>1, <2>2, <2>3, QuietTurn
<1>6. QED
  BY <1>3, <1>4, <1>5 DEF NextCandidate

(* A registration claimed, or already on record.                           *)
LEMMA ClaimOrderly ==
  ASSUME IInv, Turns, Owned, Behind, Settled, NEW c \in Cycles, Claim(c)
  PROVE  Orderly'
<1> DEFINE id == Current(c).id
<1>1. AllSound /\ cycle \in [Cycles -> Request] /\ entry \in [Ids -> Record]
  BY SurroundingsType DEF IInv, AllSound
<1>2. cycle[c].pc = "claim" /\ trigger' = trigger
  BY DEF Claim
<1>3. \A a \in Addresses : entry[a].state # "pending"
  BY <1>2, OneRuns
<1>4. /\ \A i \in Passed(cycle[c]) : cycle[c].parsed.candidates[i].id \in Addresses
      /\ id \in Addresses /\ Addresses \subseteq Ids
  BY <1>1, <1>2, CandidateIds DEF Passed, Ids
<1>5. CASE entry[id] = NoEntry
  <2>1. entry' = [entry EXCEPT ![id] = Entry("pending", Current(c).name)] /\ Goto(c, "work")
    BY <1>5 DEF Claim
  <2>2. /\ \A d \in Cycles \ {c} : cycle'[d] = cycle[d]
        /\ cycle'[c].pc = "work" /\ Same(cycle[c], cycle'[c], {"pc"})
    BY <1>1, <2>1, Moved
  <2>3. /\ cycle'[c].alive = cycle[c].alive /\ cycle'[c].next = cycle[c].next
        /\ cycle'[c].parsed = cycle[c].parsed /\ cycle'[c].report = cycle[c].report
    BY <2>2 DEF Same, Fields
  <2>4. entry[id].state # "recorded"
    BY <1>5 DEF NoEntry
  <2>5. \A a \in Addresses : a # id => entry'[a] = entry[a]
    BY <1>1, <1>4, <2>1
  <2>6. Clean(cycle'[c]) => OnRecord(cycle'[c], entry')
    <3>1. ASSUME Clean(cycle'[c]) PROVE OnRecord(cycle[c], entry)
      BY <1>2, <2>3, <3>1 DEF Clean, Looping, Behind
    <3>2. QED
      BY <1>4, <2>3, <2>4, <2>5, <3>1 DEF OnRecord, Passed
  <2>7. \A a \in Addresses : entry'[a].state = "pending" => a = id
    BY <1>3, <2>5
  <2>8. cycle'[c].parsed.candidates[cycle'[c].next].id = id
    BY <2>3 DEF Current
  <2>9. QED
    BY <1>2, <2>2, <2>3, <2>6, <2>7, <2>8, TurnTaken
<1>6. CASE entry[id] # NoEntry
  <2>1. entry' = entry /\ Count(c, {"already_seen"})
    BY <1>6 DEF Claim
  <2>2. /\ \A d \in Cycles \ {c} : cycle'[d] = cycle[d]
        /\ cycle'[c].pc = "loop" /\ cycle'[c].next = cycle[c].next + 1
        /\ cycle'[c].alive = cycle[c].alive /\ cycle'[c].parsed = cycle[c].parsed
        /\ cycle'[c].report["failed"] = cycle[c].report["failed"] + (IF "failed" \in {"already_seen"} THEN 1 ELSE 0)
    BY <1>1, <2>1, CountedFields
  <2>3. cycle[c].report["failed"] \in Nat /\ cycle[c].next \in Nat \ {0}
    BY <1>1, RequestFields, CounterNames
  <2>4. entry[id].state = "recorded"
    <3>1. entry[id].state \in {"absent", "pending", "recorded"}
      BY <1>1, <1>4 DEF Record
    <3>2. QED
      BY <1>3, <1>4, <1>6, <3>1 DEF Settled
  <2>5. Clean(cycle'[c]) => OnRecord(cycle'[c], entry')
    <3>1. ASSUME Clean(cycle'[c]) PROVE OnRecord(cycle[c], entry)
      BY <1>2, <2>2, <2>3, <3>1 DEF Clean, Looping, Behind
    <3>2. \A i \in Passed(cycle'[c]) : i \in Passed(cycle[c]) \/ i = cycle[c].next
      BY <1>1, <2>2, PassedMore
    <3>3. QED
      BY <2>1, <2>2, <2>4, <3>1, <3>2 DEF OnRecord, Current
  <2>6. QED
    BY <1>2, <1>3, <2>1, <2>2, <2>5, TurnTaken
<1>7. QED
  BY <1>5, <1>6

(* A registration that failed is counted as failed.                        *)
LEMMA FailureOrderly ==
  ASSUME IInv, Turns, Owned, Behind, NEW c \in Cycles, ClaimFails(c) \/ FinishFails(c)
  PROVE  Orderly'
<1>1. AllSound /\ cycle \in [Cycles -> Request] /\ entry \in [Ids -> Record]
  BY SurroundingsType DEF IInv, AllSound
<1>2. cycle[c].pc \in {"claim", "work"} /\ trigger' = trigger /\ Count(c, {"failed"})
  BY DEF ClaimFails, FinishFails
<1>3. /\ \A d \in Cycles \ {c} : cycle'[d] = cycle[d]
      /\ cycle'[c].alive = cycle[c].alive
      /\ cycle'[c].report["failed"] = cycle[c].report["failed"] + (IF "failed" \in {"failed"} THEN 1 ELSE 0)
  BY <1>1, <1>2, CountedFields
<1>4. cycle[c].report["failed"] \in Nat
  BY <1>1, RequestFields, CounterNames
<1>5. ~Clean(cycle'[c])
  BY <1>3, <1>4 DEF Clean
<1>6. Current(c).id \in Addresses /\ Addresses \subseteq Ids
  BY <1>1, <1>2, CandidateIds DEF Passed, Ids
<1>7. \A a \in Addresses : entry[a].state = "pending" => cycle[c].pc = "work" /\ Current(c).id = a
  BY <1>2, OneRuns
<1>8. \A a \in Addresses : entry'[a].state # "pending"
  <2>1. CASE ClaimFails(c)
    BY <1>7, <2>1 DEF ClaimFails
  <2>2. CASE FinishFails(c)
    <3>1. entry' = [entry EXCEPT ![Current(c).id] = NoEntry] /\ NoEntry.state = "absent"
      BY <2>2 DEF FinishFails, NoEntry
    <3>2. QED
      BY <1>1, <1>6, <1>7, <3>1
  <2>3. QED
    BY <2>1, <2>2
<1>9. QED
  BY <1>2, <1>3, <1>5, <1>8, TurnTaken

LEMMA FinishOrderly ==
  ASSUME IInv, Turns, Owned, Behind, NEW c \in Cycles, NEW action \in Decisions, Finish(c, action)
  PROVE  Orderly'
<1> DEFINE id == Current(c).id
<1>1. AllSound /\ cycle \in [Cycles -> Request] /\ entry \in [Ids -> Record]
  BY SurroundingsType DEF IInv, AllSound
<1>2. /\ cycle[c].pc = "work" /\ trigger' = trigger /\ Count(c, {"processed", action})
      /\ entry' = [entry EXCEPT ![id].state = "recorded"]
  BY DEF Finish
<1>3. "failed" \notin {"processed", action}
  BY PollCycleAssumption DEF Outcomes
<1>4. /\ \A d \in Cycles \ {c} : cycle'[d] = cycle[d]
      /\ cycle'[c].pc = "loop" /\ cycle'[c].next = cycle[c].next + 1
      /\ cycle'[c].alive = cycle[c].alive /\ cycle'[c].parsed = cycle[c].parsed
      /\ cycle'[c].report["failed"] = cycle[c].report["failed"] + (IF "failed" \in {"processed", action} THEN 1 ELSE 0)
  BY <1>1, <1>2, CountedFields
<1>5. cycle[c].report["failed"] \in Nat /\ cycle[c].next \in Nat \ {0}
  BY <1>1, RequestFields, CounterNames
<1>6. /\ \A i \in Passed(cycle[c]) : cycle[c].parsed.candidates[i].id \in Addresses
      /\ id \in Addresses /\ Addresses \subseteq Ids
  BY <1>1, <1>2, CandidateIds DEF Passed, Ids
<1>7. entry'[id].state = "recorded" /\ \A a \in Addresses : a # id => entry'[a] = entry[a]
  BY <1>1, <1>2, <1>6 DEF Record
<1>8. \A a \in Addresses : entry[a].state = "pending" => a = id
  BY <1>2, OneRuns
<1>9. Clean(cycle'[c]) => OnRecord(cycle'[c], entry')
  <2>1. ASSUME Clean(cycle'[c]) PROVE OnRecord(cycle[c], entry)
    BY <1>2, <1>3, <1>4, <1>5, <2>1 DEF Clean, Looping, Behind
  <2>2. \A i \in Passed(cycle'[c]) : i \in Passed(cycle[c]) \/ i = cycle[c].next
    BY <1>1, <1>4, PassedMore
  <2>3. QED
    BY <1>4, <1>6, <1>7, <2>1, <2>2 DEF OnRecord, Current
<1>10. QED
  BY <1>2, <1>4, <1>7, <1>8, <1>9, TurnTaken

LEMMA SettledStays ==
  ASSUME IInv, Settled, Next
  PROVE  Settled'
<1>1. entry \in [Ids -> Record]
  BY SurroundingsType DEF IInv
<1>2. ASSUME NEW id, NEW row, row.state # "absent" \/ row = NoEntry, entry' = [entry EXCEPT ![id] = row]
      PROVE  Settled'
  BY <1>1, <1>2 DEF Settled
<1>3. \A name : Entry("pending", name).state = "pending" /\ Entry("recorded", name).state = "recorded"
  BY DEF Entry
<1>4. ASSUME NEW c \in Cycles, Claim(c) PROVE Settled'
  <2>1. CASE entry[Current(c).id] = NoEntry
    BY <1>2, <1>3, <1>4, <2>1 DEF Claim
  <2>2. CASE entry[Current(c).id] # NoEntry
    BY <1>4, <2>2 DEF Claim, Settled
  <2>3. QED
    BY <2>1, <2>2
<1>5. ASSUME NEW c \in Cycles, NEW action \in Decisions, Finish(c, action) PROVE Settled'
  <2> DEFINE id == Current(c).id
  <2>1. id \in Ids /\ cycle[c].pc = "work"
    BY <1>5, CandidateAt DEF IInv, Finish, Candidates, Ids
  <2>2. entry' = [entry EXCEPT ![id] = [entry[id] EXCEPT !.state = "recorded"]]
    BY <1>5 DEF Finish
  <2>3. [entry[id] EXCEPT !.state = "recorded"].state = "recorded"
    BY <1>1, <2>1 DEF Record
  <2>4. QED
    BY <1>2, <2>2, <2>3
<1>6. ASSUME NEW c \in Cycles, FinishFails(c) PROVE Settled'
  BY <1>2, <1>6 DEF FinishFails
<1>7. ASSUME NEW c \in Cycles, FinishCancelled(c) PROVE Settled'
  <2> DEFINE id == Current(c).id
  <2>1. id \in Ids /\ cycle[c].pc = "work"
    BY <1>7, CandidateAt DEF IInv, FinishCancelled, Candidates, Ids
  <2>2. \E left \in {NoEntry, entry[id], Entry("recorded", Current(c).name)} :
          entry' = [entry EXCEPT ![id] = left]
    BY <1>7 DEF FinishCancelled
  <2>3. QED
    BY <1>2, <1>3, <2>1, <2>2 DEF Settled
<1>8. ASSUME NEW p \in Payloads, PostWebhook(p) PROVE Settled'
  <2>1. \/ entry' = entry
        \/ entry' = [entry EXCEPT ![Webhook(p).id] = Entry("recorded", Webhook(p).name)]
    BY <1>8 DEF PostWebhook
  <2>2. QED
    BY <1>2, <1>3, <2>1 DEF Settled
<1>9. ASSUME NEW c \in Cycles, ClaimLost(c) PROVE Settled'
  BY <1>2, <1>3, <1>9 DEF ClaimLost
<1>10. entry' = entry \/ Settled'
  BY ZenonT(60), <1>4, <1>5, <1>6, <1>7, <1>8, <1>9
     DEF Next, Serve, Fetch, Process, Register, Lapse, Dispatch, Timeout, Restart, Attempt, Disconnect,
         SiteFails, Login, FetchCSV, FetchHTML, HeaderFails, ParseRow, Ingested, NextCandidate, ClaimFails, ReleaseFails,
         Respond, Unread
<1>11. QED
  BY <1>10 DEF Settled

(* Once disturbed, always disturbed.                                       *)
LEMMA DisturbedStays ==
  ASSUME IInv, Next, Undisturbed'
  PROVE  Undisturbed /\ ~Timeout /\ ~Restart /\ \A c \in Cycles : ~ReleaseFails(c)
<1>1. faults \in [Budgets -> Nat] /\ {"timeout", "restart", "release"} \subseteq Budgets
  BY DEF IInv, Surroundings, Budgets
<1>2. ASSUME NEW kind \in Budgets, Fault(kind)
      PROVE  /\ faults'[kind] = faults[kind] + 1
             /\ \A other \in Budgets \ {kind} : faults'[other] = faults[other]
  BY <1>1, <1>2 DEF Fault
<1>3. ~Timeout /\ ~Restart /\ \A c \in Cycles : ~ReleaseFails(c)
  BY <1>1, <1>2 DEF Timeout, Restart, ReleaseFails, Undisturbed
<1>4. faults' = faults \/ \E kind \in Budgets : Fault(kind)
  BY ZenonT(60)
     DEF Next, Serve, Fetch, Process, Register, PostWebhook, Lapse, Dispatch, Timeout, Restart, Attempt,
         Disconnect, SiteFails, Login, FetchCSV, FetchHTML, HeaderFails, ParseRow, Ingested, NextCandidate, Claim,
         ClaimFails, ClaimLost, Finish, FinishFails, ReleaseFails, FinishCancelled, Respond, Unread, Budgets
<1>5. Undisturbed
  BY <1>1, <1>2, <1>4 DEF Undisturbed
<1>6. QED
  BY <1>3, <1>5

(* Between two attempts nothing runs, and nothing is pending.              *)
LEMMA AtRest ==
  ASSUME Turns, Owned, trigger.state # "waiting"
  PROVE  /\ \A c \in Cycles : cycle[c].pc = "idle"
         /\ \A a \in Addresses : entry[a].state # "pending"
BY DEF Turns, Owned, Waiting

LEMMA NextOrderly ==
  ASSUME IInv, AllAccount, Orderly, Settled, Next
  PROVE  Orderly'
<1> SUFFICES ASSUME Undisturbed' PROVE Orderly'
  BY DEF Orderly
<1>1. Turns /\ Owned /\ Behind /\ ~Timeout /\ ~Restart /\ \A c \in Cycles : ~ReleaseFails(c)
  BY DisturbedStays DEF Orderly
<1>2. AllSound /\ cycle \in [Cycles -> Request] /\ entry \in [Ids -> Record]
  BY SurroundingsType DEF IInv, AllSound
<1>3. ASSUME UNCHANGED <<entry, cycle, trigger>> PROVE Orderly'
  BY <1>1, <1>3 DEF Orderly, Turns, Owned, Behind, Clean, OnRecord, Passed, Waiting, Current
<1>4. ASSUME NEW row \in Rows, Register(row) PROVE Orderly'
  BY <1>3, <1>4 DEF Register
<1>5. CASE Lapse
  BY <1>3, <1>5 DEF Lapse
<1>6. CASE Dispatch
  <2>1. trigger.state # "waiting" /\ UNCHANGED <<entry, cycle>>
    BY <1>6 DEF Dispatch
  <2>2. /\ \A c \in Cycles : cycle'[c].pc = "idle"
        /\ \A a \in Addresses : entry'[a].state # "pending"
    BY <1>1, <2>1, AtRest
  <2>3. QED
    BY <2>2 DEF Orderly, Turns, Owned, Behind, Clean, Looping
<1>7. ASSUME NEW p \in Payloads, PostWebhook(p) PROVE Orderly'
  <2>1. UNCHANGED <<cycle, trigger>>
    BY <1>7 DEF PostWebhook
  <2>2. \A a \in Addresses : entry'[a] = entry[a]
    <3>1. CASE WebhookAccepted(p)
      <4>1. Webhook(p).id \in Orders
        BY <3>1, WebhookType, PollCycleAssumption
      <4>2. Webhook(p).id \notin Addresses /\ Addresses \subseteq Ids
        BY <4>1, IngestAssumption DEF Ids
      <4>3. QED
        BY <1>2, <1>7, <4>2 DEF PostWebhook
    <3>2. CASE ~WebhookAccepted(p)
      BY <1>7, <3>2 DEF PostWebhook
    <3>3. QED
      BY <3>1, <3>2
  <2>3. ASSUME NEW c \in Cycles, Clean(cycle[c]) PROVE OnRecord(cycle[c], entry')
    <3>1. \A i \in Passed(cycle[c]) : cycle[c].parsed.candidates[i].id \in Addresses
      BY <1>2, CandidateIds DEF Passed
    <3>2. QED
      BY <1>1, <2>2, <2>3, <3>1 DEF Behind, OnRecord
  <2>4. Turns'
    BY <1>1, <2>1 DEF Turns, Waiting
  <2>5. Owned'
    BY <1>1, <2>1, <2>2 DEF Owned, Current
  <2>6. Behind'
    BY <2>1, <2>3 DEF Behind
  <2>7. QED
    BY <2>4, <2>5, <2>6 DEF Orderly
<1>8. ASSUME NEW c \in Cycles, Attempt(c) PROVE Orderly'
  <2>1. trigger.state # "waiting" /\ entry' = entry /\ trigger'.state = "waiting" /\ trigger'.cycle = c
    BY <1>8 DEF Attempt
  <2> DEFINE step == IF loggedIn THEN "export" ELSE "login"
  <2>2. Goto(c, step) /\ step \in Fetching
    BY <1>8 DEF Attempt, Fetching
  <2> HIDE DEF step
  <2>3. /\ \A d \in Cycles \ {c} : cycle'[d] = cycle[d]
        /\ cycle'[c].pc = step /\ Same(cycle[c], cycle'[c], {"pc"})
    BY <1>2, <2>2, Moved
  <2>4. /\ \A d \in Cycles : cycle[d].pc = "idle"
        /\ \A a \in Addresses : entry'[a].state # "pending"
    BY <1>1, <2>1, AtRest
  <2>5. cycle'[c].alive
    BY <2>3, <2>4 DEF AllAccount, Accounts, Same, Fields
  <2>6. \A d \in Cycles : ~Clean(cycle'[d])
    BY <2>2, <2>3, <2>4 DEF Clean, Looping, Fetching
  <2>7. Turns'
    BY <2>1, <2>3, <2>4, <2>5 DEF Turns, Waiting
  <2>8. QED
    BY <2>4, <2>6, <2>7 DEF Orderly, Owned, Behind
<1>9. ASSUME NEW c \in Cycles, Disconnect(c) \/ Unread(c) PROVE FALSE
  <2>1. ~Waiting(c) /\ cycle[c].pc # "idle"
    BY <1>9 DEF Disconnect, Unread
  <2>2. QED
    BY <1>1, <2>1 DEF Turns
<1>10. ASSUME NEW c \in Cycles, Respond(c) PROVE Orderly'
  <2>1. cycle[c].pc = "answered" /\ entry' = entry /\ cycle' = [cycle EXCEPT ![c] = NoRequest]
    BY <1>10 DEF Respond
  <2>2. /\ \A d \in Cycles \ {c} : cycle[d].pc = "idle"
        /\ \A a \in Addresses : entry'[a].state # "pending"
    BY <1>1, <2>1, OneRuns DEF Turns, Waiting
  <2>3. \A d \in Cycles : cycle'[d].pc = "idle"
    BY <1>2, <2>1, <2>2, NoRequestFields
  <2>4. QED
    BY <2>2, <2>3 DEF Orderly, Turns, Owned, Behind, Clean, Looping
<1>11. ASSUME NEW c \in Cycles, ClaimLost(c) \/ FinishCancelled(c) PROVE FALSE
  <2>1. ~cycle[c].alive /\ cycle[c].pc # "idle"
    BY <1>11 DEF ClaimLost, FinishCancelled
  <2>2. QED
    BY <1>1, <2>1 DEF Turns
<1>12. ASSUME NEW c \in Cycles, Serve(c) PROVE Orderly'
  BY <1>1, <1>9, <1>10, <1>11, <1>12, FetchOrderly, LoopOrderly, ClaimOrderly, FailureOrderly, FinishOrderly
     DEF Serve, Process
<1>13. QED
  BY <1>1, <1>4, <1>5, <1>6, <1>7, <1>8, <1>9, <1>12 DEF Next

(* When a run of the workflow ends green, every usable row its last cycle  *)
(* fetched is on record: the report cannot hide a registration that was    *)
(* lost, for any export, webhooks, lapses and failures.                    *)
THEOREM GreenIsRecorded == Spec => GreenMeansRecorded
<1>1. Init => Orderly /\ Settled
  <2>1. ASSUME Init PROVE \A c \in Cycles : cycle[c].pc = "idle"
    BY <2>1, NoRequestFields DEF Init
  <2>2. ASSUME Init PROVE \A id \in Ids : entry[id] = NoEntry
    BY <2>2 DEF Init
  <2>3. NoEntry.state = "absent" /\ Addresses \subseteq Ids
    BY DEF NoEntry, Ids
  <2>4. QED
    BY <2>1, <2>2, <2>3 DEF Orderly, Turns, Owned, Behind, Clean, Looping, Settled
<1>2. IInv /\ AllAccount /\ Orderly /\ Settled /\ [Next]_vars => Orderly' /\ Settled'
  <2>1. ASSUME Orderly, Settled, UNCHANGED vars PROVE Orderly' /\ Settled'
    BY <2>1
       DEF vars, Orderly, Turns, Owned, Behind, Settled, Undisturbed, Clean, OnRecord, Passed, Waiting, Current
  <2>2. QED
    BY <2>1, NextOrderly, SettledStays
<1>3. IInv /\ AllAccount /\ Orderly /\ [Next]_vars =>
        [\A c \in Cycles : Respond(c) /\ trigger'.state = "green" /\ Undisturbed =>
           \A k \in DOMAIN cycle[c].spans :
             Usable(RecordOf(c, k)) =>
               entry[RegistrationID(RecordOf(c, k).email)].state = "recorded"]_vars
  <2> SUFFICES ASSUME IInv, AllAccount, Orderly, NEW c \in Cycles, Respond(c),
                      trigger'.state = "green", Undisturbed,
                      NEW k \in DOMAIN cycle[c].spans, Usable(RecordOf(c, k))
               PROVE  entry[RegistrationID(RecordOf(c, k).email)].state = "recorded"
    OBVIOUS
  <2> DEFINE request == cycle[c]
  <2>1. request \in Request /\ Accounts(request) /\ Behind
    BY DEF IInv, AllSound, AllAccount, Orderly
  <2>2. request.pc = "answered" /\ request.status = 200 /\ request.report["failed"] = 0
    <3>1. trigger.state \in {"idle", "pausing", "waiting", "green", "red"}
            /\ trigger = [state |-> trigger.state, attempt |-> trigger.attempt, cycle |-> trigger.cycle]
      BY DEF IInv, Surroundings
    <3>2. CASE request.status # 200
      BY <3>1, <3>2 DEF Respond, GiveUpOrRetry
    <3>3. CASE request.status = 200
      BY <3>1, <3>3 DEF Respond
    <3>4. QED
      BY <3>2, <3>3 DEF Respond
  <2>3. OnRecord(request, entry)
    BY <2>1, <2>2 DEF Clean, Behind
  <2>4. request.next > Len(request.parsed.candidates)
    BY <2>1, <2>2 DEF Accounts
  <2>5. /\ request.spans \in Seq(Span) /\ request.parsed.candidates \in Seq(Candidates)
        /\ request.next \in Nat \ {0}
    BY <2>1, RequestFields
  <2>6. k \in 1..Len(request.spans) /\ Records(request)[k] = RecordOf(c, k)
    BY <2>5 DEF Records, RecordOf
  <2>7. PICK i \in DOMAIN request.parsed.candidates : request.parsed.candidates[i] = Candidate(RecordOf(c, k))
    BY <2>1, <2>6 DEF Accounts, RowKept, Usable
  <2>8. i \in Passed(request)
    BY <2>4, <2>5 DEF Passed
  <2>9. Candidate(RecordOf(c, k)).id = RegistrationID(RecordOf(c, k).email)
    BY DEF Candidate
  <2>10. QED
    BY <2>3, <2>7, <2>8, <2>9 DEF OnRecord
<1>4. QED
  BY <1>1, <1>2, <1>3, IInvHolds, AllAccountAlways, PTL DEF Spec, GreenMeansRecorded

-----------------------------------------------------------------------------
(* The implementation of ClaimOwners: the state of an entry, and who works *)
(* on it.                                                                  *)
states == [id \in Ids |-> entry[id].state]
owners == [id \in Ids |-> {c \in Cycles : At(c, "work") /\ Current(c).id = id}]

(* Whoever works on an entry does so alone, and the entry is pending.      *)
Working ==
  \A i \in Ids : owners[i] = {} \/ (states[i] = "pending" /\ \E c \in Cycles : owners[i] = {c})

(* What a step may do to one ID.                                           *)
Change(i) ==
  \/ states'[i] = states[i] /\ owners'[i] \in {owners[i], {}}
  \/ /\ states[i] = "absent" /\ states'[i] \in {"pending", "recorded"}
     /\ owners'[i] = owners[i]
  \/ /\ states[i] = "absent" /\ states'[i] = "pending"
     /\ \E c \in Cycles : owners'[i] = {c}
  \/ /\ owners[i] # {} /\ states[i] = "pending"
     /\ states'[i] \in {"recorded", "absent"} /\ owners'[i] = {}

LEMMA ChangeRefines ==
  ASSUME Working, NEW i \in Ids, Change(i),
         \A j \in Ids \ {i} : states'[j] = states[j] /\ owners'[j] = owners[j]
  PROVE  Working' /\ [Owners!Next]_Owners!vars
<1>1. \A s : states'[i] = s => states' = [states EXCEPT ![i] = s]
  BY DEF states
<1>2. \A s : owners'[i] = s => owners' = [owners EXCEPT ![i] = s]
  BY DEF owners
<1>3. /\ states'[i] = states[i] => states' = states
      /\ owners'[i] = owners[i] => owners' = owners
  BY DEF states, owners
<1>4. Working'
  <2>1. owners'[i] = {} \/ (states'[i] = "pending" /\ \E c \in Cycles : owners'[i] = {c})
    BY DEF Working, Change
  <2>2. ASSUME NEW j \in Ids \ {i}
        PROVE  owners'[j] = {} \/ (states'[j] = "pending" /\ \E c \in Cycles : owners'[j] = {c})
    <3>1. owners[j] = {} \/ (states[j] = "pending" /\ \E c \in Cycles : owners[j] = {c})
      BY DEF Working
    <3>2. states'[j] = states[j] /\ owners'[j] = owners[j]
      OBVIOUS
    <3>3. QED
      BY <3>1, <3>2
  <2>3. QED
    BY <2>1, <2>2 DEF Working
<1> SUFFICES [Owners!Next]_Owners!vars
  BY <1>4
<1>5. CASE states'[i] = states[i] /\ owners'[i] = owners[i]
  BY <1>3, <1>5 DEF Owners!vars, states, owners
<1>6. CASE states'[i] = states[i] /\ owners'[i] = {}
  <2>1. Owners!Quit(i)
    BY <1>2, <1>3, <1>6 DEF Owners!Quit, Owners!LetGo, states, owners
  <2>2. QED
    BY <2>1 DEF Owners!Next
<1>7. CASE /\ states[i] = "absent" /\ states'[i] \in {"pending", "recorded"}
           /\ owners'[i] = owners[i]
  <2>1. Owners!Pass(i)
    BY <1>1, <1>3, <1>7 DEF Owners!Pass, Owners!Become, states, owners
  <2>2. QED
    BY <2>1 DEF Owners!Next
<1>8. CASE states[i] = "absent" /\ states'[i] = "pending" /\ \E c \in Cycles : owners'[i] = {c}
  <2>1. PICK c \in Cycles : owners'[i] = {c}
    BY <1>8
  <2>2. Owners!Grant(i, c)
    BY <1>1, <1>2, <1>8, <2>1 DEF Owners!Grant, Owners!Become, states, owners
  <2>3. QED
    BY <2>2 DEF Owners!Next
<1>9. CASE owners[i] # {} /\ states[i] = "pending" /\ states'[i] = "recorded" /\ owners'[i] = {}
  <2>1. Owners!Record(i)
    BY <1>1, <1>2, <1>9 DEF Owners!Record, Owners!Become, Owners!LetGo, states, owners
  <2>2. QED
    BY <2>1 DEF Owners!Next
<1>10. CASE owners[i] # {} /\ states[i] = "pending" /\ states'[i] = "absent" /\ owners'[i] = {}
  <2>1. Owners!Release(i)
    BY <1>1, <1>2, <1>10 DEF Owners!Release, Owners!Become, Owners!LetGo, states, owners
  <2>2. QED
    BY <2>1 DEF Owners!Next
<1>11. QED
  BY <1>5, <1>6, <1>7, <1>8, <1>9, <1>10 DEF Change

(* A step that nobody who works takes part in, nor any entry.              *)
LEMMA NobodyMoves ==
  ASSUME Working, entry' = entry,
         \A c \in Cycles : cycle'[c].pc = "work" <=> cycle[c].pc = "work",
         \A c \in Cycles : cycle[c].pc = "work" => Current(c)' = Current(c)
  PROVE  Working' /\ [Owners!Next]_Owners!vars
<1>1. \A j \in Ids : \A c \in Cycles :
        cycle'[c].pc = "work" /\ Current(c)'.id = j <=> cycle[c].pc = "work" /\ Current(c).id = j
  OBVIOUS
<1>2. owners' = owners /\ states' = states
  BY <1>1 DEF owners, states
<1>3. QED
  BY <1>2 DEF Working, Owners!vars, owners, states

(* A cycle that does not work after its step leaves what it worked on.     *)
LEMMA Leaves ==
  ASSUME NEW c \in Cycles, \A d \in Cycles \ {c} : cycle'[d] = cycle[d], cycle'[c].pc # "work"
  PROVE  /\ \A j \in Ids : owners'[j] = owners[j] \ {c}
         /\ \A j \in Ids : c \notin owners[j] => owners'[j] = owners[j]
<1>1. ASSUME NEW j \in Ids PROVE owners'[j] = owners[j] \ {c}
  <2>1. /\ owners'[j] = {d \in Cycles : cycle'[d].pc = "work" /\ Current(d)'.id = j}
        /\ owners[j] = {d \in Cycles : cycle[d].pc = "work" /\ Current(d).id = j}
    BY DEF owners
  <2>2. \A d \in Cycles \ {c} : cycle'[d].pc = cycle[d].pc /\ Current(d)' = Current(d)
    BY DEF Current
  <2>3. QED
    BY <2>1, <2>2
<1>2. ASSUME NEW j \in Ids, c \notin owners[j] PROVE owners[j] \ {c} = owners[j]
  BY <1>2
<1>3. QED
  BY <1>1, <1>2

(* A cycle that works is the one owner of its candidate's entry.           *)
LEMMA OneOwner ==
  ASSUME IInv, Working, NEW c \in Cycles, cycle[c].pc = "work"
  PROVE  /\ Current(c).id \in Ids
         /\ owners[Current(c).id] = {c} /\ states[Current(c).id] = "pending"
         /\ \A j \in Ids \ {Current(c).id} : c \notin owners[j]
<1>1. Current(c).id \in Ids
  BY CandidateIds DEF IInv, Ids
<1>2. c \in owners[Current(c).id]
  BY <1>1 DEF owners
<1>3. \A j \in Ids \ {Current(c).id} : c \notin owners[j]
  BY DEF owners
<1>4. QED
  BY <1>1, <1>2, <1>3 DEF Working

LEMMA ClaimStep ==
  ASSUME IInv, Working, NEW c \in Cycles, Claim(c) \/ ClaimFails(c) \/ ClaimLost(c)
  PROVE  Working' /\ [Owners!Next]_Owners!vars
<1> DEFINE id == Current(c).id
<1>1. /\ cycle[c].pc = "claim" /\ cycle \in [Cycles -> Request] /\ id \in Ids
      /\ entry \in [Ids -> Record]
  BY CandidateIds, SurroundingsType DEF IInv, AllSound, Ids, Claim, ClaimFails, ClaimLost
<1>2. \A j \in Ids : c \notin owners[j]
  BY <1>1 DEF owners
<1>3. ASSUME NEW counters, Count(c, counters) PROVE \A j \in Ids : owners'[j] = owners[j]
  <2>1. \A d \in Cycles \ {c} : cycle'[d] = cycle[d]
    BY <1>1, <1>3, CountedFields
  <2>2. cycle'[c].pc # "work"
    BY <1>1, <1>3, CountedFields
  <2>3. QED
    BY <1>2, <2>1, <2>2, Leaves
<1>4. ASSUME entry' = [entry EXCEPT ![id] = Entry("pending", Current(c).name)], entry[id] = NoEntry
      PROVE  /\ states[id] = "absent" /\ states'[id] = "pending"
             /\ \A j \in Ids \ {id} : states'[j] = states[j]
  BY <1>1, <1>4 DEF states, NoEntry, Entry
<1>5. CASE ClaimFails(c) \/ (Claim(c) /\ entry[id] # NoEntry)
  <2>1. entry' = entry /\ \E counters : Count(c, counters)
    BY <1>5 DEF ClaimFails, Claim
  <2>2. Change(id) /\ \A j \in Ids \ {id} : states'[j] = states[j] /\ owners'[j] = owners[j]
    BY <1>1, <1>3, <2>1 DEF Change, states
  <2>3. QED
    BY <1>1, <2>2, ChangeRefines
<1>6. CASE ClaimLost(c)
  <2>1. Change(id) /\ \A j \in Ids \ {id} : states'[j] = states[j] /\ owners'[j] = owners[j]
    BY <1>1, <1>3, <1>4, <1>6 DEF ClaimLost, Change
  <2>2. QED
    BY <1>1, <2>1, ChangeRefines
<1>7. CASE Claim(c) /\ entry[id] = NoEntry
  <2>1. Goto(c, "work") /\ entry' = [entry EXCEPT ![id] = Entry("pending", Current(c).name)]
    BY <1>7 DEF Claim
  <2>2. /\ \A d \in Cycles \ {c} : cycle'[d] = cycle[d]
        /\ cycle'[c].pc = "work" /\ Same(cycle[c], cycle'[c], {"pc"})
    BY <1>1, <2>1, Moved
  <2>3. Current(c)' = Current(c) /\ \A d \in Cycles \ {c} : Current(d)' = Current(d)
    BY <2>2 DEF Same, Fields, Current
  <2>4. /\ \A j \in Ids : owners'[j] = {d \in Cycles : cycle'[d].pc = "work" /\ Current(d)'.id = j}
        /\ \A j \in Ids : owners[j] = {d \in Cycles : cycle[d].pc = "work" /\ Current(d).id = j}
    BY DEF owners
  <2>5. ASSUME NEW j \in Ids \ {id} PROVE owners'[j] = owners[j]
    <3>1. \A d \in Cycles : cycle'[d].pc = "work" /\ Current(d)'.id = j
                           <=> cycle[d].pc = "work" /\ Current(d).id = j
      BY <1>1, <2>2, <2>3, <2>5
    <3>2. /\ owners'[j] = {d \in Cycles : cycle'[d].pc = "work" /\ Current(d)'.id = j}
          /\ owners[j] = {d \in Cycles : cycle[d].pc = "work" /\ Current(d).id = j}
      BY <2>4
    <3>3. QED
      BY <3>1, <3>2
  <2>6. owners[id] = {}
    BY <1>1, <1>4, <1>7, <2>1 DEF Working
  <2>7. owners'[id] = {c}
    BY <1>1, <2>2, <2>3, <2>4, <2>6
  <2>8. Change(id)
    BY <1>4, <1>7, <2>1, <2>7 DEF Change
  <2>9. QED
    BY <1>1, <1>4, <1>7, <2>1, <2>5, <2>8, ChangeRefines
<1>8. QED
  BY <1>5, <1>6, <1>7

LEMMA WorkStep ==
  ASSUME IInv, Working, NEW c \in Cycles,
         FinishFails(c) \/ ReleaseFails(c) \/ FinishCancelled(c) \/ \E action \in Decisions : Finish(c, action)
  PROVE  Working' /\ [Owners!Next]_Owners!vars
<1> DEFINE id == Current(c).id
<1>1. /\ cycle[c].pc = "work" /\ cycle \in [Cycles -> Request] /\ entry \in [Ids -> Record]
      /\ \E counters : Count(c, counters)
  BY SurroundingsType DEF IInv, AllSound, FinishFails, ReleaseFails, FinishCancelled, Finish
<1>2. /\ id \in Ids /\ owners[id] = {c} /\ states[id] = "pending"
      /\ \A j \in Ids \ {id} : c \notin owners[j]
  BY <1>1, OneOwner
<1>3. (\A d \in Cycles \ {c} : cycle'[d] = cycle[d]) /\ cycle'[c].pc # "work"
  BY <1>1, CountedFields
<1>4. owners'[id] = {} /\ \A j \in Ids \ {id} : owners'[j] = owners[j]
  BY <1>2, <1>3, Leaves
<1>5. \A j \in Ids \ {id} : entry'[j] = entry[j]
  BY <1>1, <1>2 DEF FinishFails, ReleaseFails, FinishCancelled, Finish
<1>6. entry'[id].state \in {"absent", "recorded", "pending"}
  <2>1. entry[id].state = "pending" /\ entry[id] \in Record
    BY <1>1, <1>2 DEF states
  <2>2. CASE FinishFails(c) \/ ReleaseFails(c)
    BY <1>1, <1>2, <2>1, <2>2 DEF FinishFails, ReleaseFails, NoEntry
  <2>3. CASE FinishCancelled(c)
    <3>1. PICK left \in {NoEntry, entry[id], Entry("recorded", Current(c).name)} :
            entry' = [entry EXCEPT ![id] = left]
      BY <2>3 DEF FinishCancelled
    <3>2. left.state \in {"absent", "recorded", "pending"}
      BY <2>1 DEF NoEntry, Entry
    <3>3. QED
      BY <1>1, <1>2, <3>1, <3>2
  <2>4. ASSUME NEW action \in Decisions, Finish(c, action) PROVE entry'[id].state = "recorded"
    BY <1>1, <1>2, <2>1, <2>4 DEF Finish, Record
  <2>5. QED
    BY <2>2, <2>3, <2>4
<1>7. /\ states'[id] \in {"absent", "recorded", states[id]}
      /\ \A j \in Ids \ {id} : states'[j] = states[j]
  BY <1>2, <1>5, <1>6 DEF states
<1>8. Change(id)
  BY <1>2, <1>4, <1>7 DEF Change
<1>9. QED
  BY <1>2, <1>4, <1>7, <1>8, ChangeRefines

LEMMA WebhookStep ==
  ASSUME IInv, Working, NEW p \in Payloads, PostWebhook(p)
  PROVE  Working' /\ [Owners!Next]_Owners!vars
<1> DEFINE reg == Webhook(p)
<1>1. cycle' = cycle /\ entry \in [Ids -> Record]
  BY SurroundingsType DEF IInv, PostWebhook
<1>2. \A j \in Ids : owners'[j] = owners[j]
  BY <1>1 DEF owners, Current
<1>3. CASE entry' = entry
  BY <1>1, <1>3, NobodyMoves DEF Current
<1>4. CASE WebhookAccepted(p) /\ entry[reg.id] = NoEntry /\ Expirable(reg)
  <2>1. reg.id \in Ids
    BY <1>4, WebhookType, PollCycleAssumption DEF Ids
  <2> HIDE DEF reg
  <2>2. entry' = [entry EXCEPT ![reg.id] = Entry("recorded", reg.name)]
    BY <1>4 DEF PostWebhook, reg
  <2>3. /\ states[reg.id] = "absent" /\ states'[reg.id] = "recorded"
        /\ \A j \in Ids \ {reg.id} : states'[j] = states[j]
    BY <1>1, <1>4, <2>1, <2>2 DEF states, NoEntry, Entry
  <2>4. Change(reg.id)
    BY <1>2, <2>1, <2>3 DEF Change
  <2>5. QED
    BY <1>2, <2>1, <2>3, <2>4, ChangeRefines
<1>5. QED
  BY <1>3, <1>4 DEF PostWebhook

(* Before its claim and after its answer a cycle owns nothing.             *)
LEMMA OtherStep ==
  ASSUME IInv, Working, NEW c \in Cycles,
         Fetch(c) \/ NextCandidate(c) \/ Respond(c) \/ Unread(c) \/ Attempt(c) \/ Disconnect(c)
  PROVE  Working' /\ [Owners!Next]_Owners!vars
<1>1. cycle \in [Cycles -> Request] /\ cycle[c] \in Request
  BY DEF IInv, AllSound
<1>2. entry' = entry
  BY DEF Fetch, SiteFails, Login, FetchCSV, FetchHTML, HeaderFails, ParseRow, Ingested, NextCandidate, Respond, Unread,
         Attempt, Disconnect
<1>3. ASSUME \A d \in Cycles \ {c} : cycle'[d] = cycle[d], cycle[c].pc # "work", cycle'[c].pc # "work"
      PROVE  Working' /\ [Owners!Next]_Owners!vars
  <2>1. \A d \in Cycles \ {c} : Current(d)' = Current(d)
    BY <1>3 DEF Current
  <2>2. QED
    BY <1>2, <1>3, <2>1, NobodyMoves
<1>4. ASSUME NEW request, Become(c, request), request.pc # "work", cycle[c].pc # "work"
      PROVE  Working' /\ [Owners!Next]_Owners!vars
  BY <1>1, <1>3, <1>4
<1>5. ASSUME NEW step, Goto(c, step), step # "work", cycle[c].pc # "work"
      PROVE  Working' /\ [Owners!Next]_Owners!vars
  BY <1>1, <1>3, <1>5, Moved
<1>6. ASSUME NEW error, Fails(c, error), cycle[c].pc # "work"
      PROVE  Working' /\ [Owners!Next]_Owners!vars
  BY <1>1, <1>3, <1>6, Failed
<1>7. CASE SiteFails(c) \/ HeaderFails(c)
  BY <1>6, <1>7 DEF SiteFails, HeaderFails, Fetching
<1>8. CASE Login(c) \/ FetchHTML(c) \/ Attempt(c)
  BY <1>5, <1>6, <1>8 DEF Login, FetchHTML, Attempt
<1>9. CASE FetchCSV(c)
  <2>1. [cycle[c] EXCEPT !.pc = "parse", !.feed = export].pc = "parse"
    BY <1>1, FetchFields
  <2>2. QED
    BY <1>4, <1>9, <2>1 DEF FetchCSV
<1>10. CASE ParseRow(c)
  <2>1. PICK new : cycle' = [cycle EXCEPT ![c] = new] /\ Reads(cycle[c], new)
    BY <1>1, <1>10, ParseReads
  <2>2. cycle[c].pc = "parse" /\ Same(cycle[c], new, {"line", "spans", "parsed"})
    BY <2>1 DEF Reads
  <2>3. new.pc = cycle[c].pc
    BY <2>2 DEF Same, Fields
  <2>4. QED
    BY <1>4, <2>1, <2>2, <2>3
<1>11. CASE Ingested(c)
  <2>1. cycle[c].pc = "parse" /\ \A d \in Cycles \ {c} : cycle'[d] = cycle[d]
    BY <1>1, <1>11, IngestedIngests DEF Ingests
  <2>2. cycle'[c].pc # "work"
    BY <1>1, <1>11, IngestedIngests DEF Ingests
  <2>3. QED
    BY <1>3, <2>1, <2>2
<1>12. CASE NextCandidate(c)
  <2>1. Answer(cycle[c], 200, "").pc = "answered"
    BY <1>1, RequestDomain DEF Answer, Fields
  <2>2. QED
    BY <1>4, <1>5, <1>6, <1>12, <2>1 DEF NextCandidate
<1>13. CASE Respond(c) \/ Unread(c)
  BY <1>4, <1>13, NoRequestFields DEF Respond, Unread
<1>14. CASE Disconnect(c)
  <2>1. cycle' = [cycle EXCEPT ![c] = [cycle[c] EXCEPT !.alive = FALSE]]
    BY <1>1, <1>14 DEF Disconnect
  <2>2. Same(cycle[c], cycle'[c], {"alive"})
    BY <1>1, <2>1, OneField
  <2>3. \A d \in Cycles : cycle'[d].pc = cycle[d].pc /\ Current(d)' = Current(d)
    BY <1>1, <2>1, <2>2 DEF Same, Fields, Current
  <2>4. QED
    BY <1>2, <2>3, NobodyMoves
<1>15. QED
  BY <1>7, <1>8, <1>9, <1>10, <1>11, <1>12, <1>13, <1>14 DEF Fetch

LEMMA RestartStep ==
  ASSUME Restart
  PROVE  Working' /\ Owners!Next
<1>1. entry' = entry /\ \A c \in Cycles : cycle'[c].pc # "work"
  BY NoRequestFields DEF Restart
<1>2. states' = states /\ owners' = [id \in Ids |-> {}]
  BY <1>1 DEF states, owners
<1>3. Owners!Crash
  BY <1>2 DEF Owners!Crash, states, owners
<1>4. QED
  BY <1>2, <1>3 DEF Working, Owners!Next

LEMMA NextKeepsOwners ==
  ASSUME IInv, Working, [Next]_vars
  PROVE  Working' /\ [Owners!Next]_Owners!vars
<1>1. CASE UNCHANGED <<cycle, entry>>
  BY <1>1, NobodyMoves DEF Current
<1>2. CASE Lapse \/ Dispatch \/ Timeout \/ UNCHANGED vars \/ \E row \in Rows : Register(row)
  BY <1>1, <1>2 DEF Lapse, Dispatch, Timeout, vars, Register
<1>3. CASE Restart
  BY <1>3, RestartStep
<1>4. ASSUME NEW p \in Payloads, PostWebhook(p) PROVE Working' /\ [Owners!Next]_Owners!vars
  BY <1>4, WebhookStep
<1>5. ASSUME NEW c \in Cycles, Attempt(c) \/ Disconnect(c) \/ Serve(c)
      PROVE  Working' /\ [Owners!Next]_Owners!vars
  <2>1. CASE Process(c) /\ ~NextCandidate(c)
    BY <2>1, ClaimStep, WorkStep DEF Process
  <2>2. CASE NextCandidate(c) \/ ~Process(c)
    BY <1>5, <2>2, OtherStep DEF Serve
  <2>3. QED
    BY <2>1, <2>2
<1>6. QED
  BY <1>2, <1>3, <1>4, <1>5 DEF Next

(* A cycle past a claim owns its row alone, and only that cycle records or *)
(* releases the row, for any number of overlapping cycles, any webhooks    *)
(* and any faults.                                                         *)
THEOREM CyclesOwnRows == Spec => ImplementsClaimOwners
<1>1. Init => Working /\ Owners!Init
  <2> SUFFICES ASSUME Init PROVE Working /\ Owners!Init
    OBVIOUS
  <2>1. states = [id \in Ids |-> "absent"]
    BY DEF Init, states, NoEntry
  <2>2. owners = [id \in Ids |-> {}]
    BY NoRequestFields DEF Init, owners
  <2>3. QED
    BY <2>1, <2>2 DEF Working, Owners!Init, states, owners
<1>2. IInv /\ Working /\ [Next]_vars => Working' /\ [Owners!Next]_Owners!vars
  BY NextKeepsOwners
<1>3. QED
  BY <1>1, <1>2, IInvHolds, PTL DEF Spec, ImplementsClaimOwners, Owners!Spec
=============================================================================
