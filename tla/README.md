# A verification project for the North Landing badge service

The service turns registrations of a disc golf club into membership badges. A
scheduled workflow posts to `/tasks/poll`; the server downloads the
DiscGolfScene export, turns rows into registrations, builds wallet passes and a
mail for each registration it has not seen, and records the decision in a SQLite
ledger. A club backend may deliver single registrations by webhook, and an
administrator lists and deletes ledger rows.

The question behind almost everything here: **is every registrant served, and
served once, when requests overlap, clients hang up, statements fail, the mail
server answers late or wrongly, and the machine stops?**

Paths below are relative to `src/`; "TLC" is the model checker, "TLAPS" the
proof system.

## 1. Inventory

| Component | Code | State | Operations | Model |
|---|---|---|---|---|
| Delivery pipeline | `internal/poll/poll.go` (`ProcessClassified`, `build`) | locals of each request | claim, founder look-up, build, store pass, mail, record, release | `Pipeline` |
| Ledger | `internal/store/store.go` | `processed_registrations`, `pass_artifacts` | `Claim`, `MarkProcessed`, `Release`, `SaveArtifact`, `FounderIssued`, `DeleteProcessed` | `Ledger` |
| Delivery guard | `internal/mailer/guard.go` | mode, allowlist, redirect | `Decide` | `Guard` |
| Mailer, SMTP transport | `internal/mailer/mailer.go` | one goroutine and one connection per send | `Deliver`, `Send` | `Pipeline`, `SmtpDialogue` |
| SMTP capture server | `internal/smtptest/server.go` | captured messages, a session per connection, the wait group | `serve`, `handle`, `Close` | `SmtpDialogue` |
| Poll cycle | `internal/poll/poll.go` (`RunCycle`), `.github/workflows/poll.yml` | the report; the workflow's attempt | dispatch, attempt, fetch, loop, answer, retry | `PollCycle` |
| Export client | `internal/dgs/client.go` | cookie jar, `loggedIn` | sign in, export, re-login | `PollCycle` |
| Ingest | `internal/dgs/{export,parse,division}.go` | none | `ParseExport`, `ParseWebhook` | `Ingest` |
| HTTP server | `internal/server/server.go` | none of its own | poll, webhook, delete, download, list, healthz | the requests of `Pipeline`, `PollCycle` |
| Configuration | `internal/config/config.go` | environment | `Load`, `validate` | `Config` |
| Process | `cmd/server/main.go`, `store.Open`, `migrate` | the volume's schema, requests in flight | start, migrate, serve, drain, exit | `Process` |
| Expiry | `internal/expiry/expiry.go` | none | `Calculate` | `Expiry` |
| Domain types | `internal/domain/registration.go` | none | `Validate`, `ClassifyPassType`, `Expires`, `PDGAURL` | `Ingest`, `Expiry`, `Badge` |
| Artwork | `internal/badge/{render,logo}.go` | none | `Render`, `Logo`, `drawable`, `truncate` | `Badge`, `Text` |
| E-mail | `internal/email/email.go` | none | `Render`, `quotedPrintable`, `wrap` | `Badge`, `Text` |
| Wallet signers | `internal/wallet/{applepass,googlepass}` | key material | `NewSigner`, `NewIssuer`, `Build`, `SaveJWT` | `Config`, `Badge` |
| Test keys, tools, other workflows | `internal/testkeys`, `cmd/mintpass`, `cmd/contract-check`, `.github/workflows` | | | not modelled |

How they interact. The poll handler and the webhook handler run on the server's
goroutines and share one `poll.Service`, hence one ledger, one export client with
one cookie jar, and one mailer. Everything a request does uses that request's
context. Mail is handed to a goroutine that does not. No lock joins two statements
of the ledger and, migrations apart, no transaction does.

What is hard, and what makes each part correct:

* **Dedupe.** Concurrent requests claim one ID; the insert decides. Correct if
  one claim never leads to two mails, and a recorded decision stays.
* **Failure after the claim.** The claim has to be released, but only if nothing
  went out, and with a context that may be the reason for the failure.
* **The SMTP goroutine.** It outlives its request; its message may be accepted
  after the row was released, claimed again, or deleted.
* **Deletion.** Two statements, against requests at work.
* **Founders.** Served once per address: a look-up, a mail, and a record later.
* **Modes.** What was suppressed under one mode must not be mailed under the next.
* **The cycle.** A bad row blocks nobody else, unless it leaves a quote open; the report adds up, a lapsed session
  heals, a green run means what it says, and every usable row is served in the end.
* **The dialogue.** A message is written in one piece and answered once; what an error
  says about it depends on where the dialogue broke off.
* **The process.** A kill inside a migration, a configuration checked in four
  places, requests cut by the grace period.
* **Calendars.** A day pass across month, leap day, year and clock changes.
* **One badge, six surfaces.** Artwork, two passes, mail, ledger and download each
  format the same badge for themselves, and must not contradict each other.

`PROJECT.json` lists each hazard at its line with the properties that watch it.

## 2. The modules

```
Guard <- Ledger <- Pipeline <- DocClaims <- MCPipeline        Config <- Process <- MCProcess
                   |   ^  ^                                              ^
     DeliveryOnce -+   |  +- PipelineProofs <- PipelineRefinement        +- ProcessProofs
          ^            (INSTANCE)                  |
          +- DeliveryOnceProofs                    (INSTANCE)

Ingest <- PollCycle <- CycleClaims <- MCPollCycle             Expiry, Text <- Badge <- MCBadge
              ^                                                             ^
              +- PollCycleProofs                                            +- BadgeProofs

ClaimOwners <- Pipeline, PollCycle
 (INSTANCE)

SmtpHandover <- SmtpDialogue <- MCSmtp
 (INSTANCE)          ^
                     +- SmtpProofs <- SmtpRefinement
```

**`Guard`** is `Decide` as a function of mode and address. **`Ledger`** has the two
tables as functions from IDs and one operator per SQL statement; operations of the
store that run two statements are two steps of whoever calls them. `cleared` is a
history variable: how often the row of an ID was deleted. Together with the ID it
names a claim.

**`Pipeline`** is `ProcessClassified` for every request in `Workers`. One step is one
statement, one decision or one SMTP event:

| Action | Code |
|---|---|
| `Start` | the loop of `RunCycle`, or a webhook, reaches a registration |
| `Claim` | `Store.Claim` and the caller's three ends: won, duplicate, error (no release) |
| `FounderCheck`, `MarkFounder` | `build`, founder branch |
| `Build`, `BuildFails` | expiry, artwork, passes, a fresh token; rendering the message |
| `SaveArtifact` | `Store.SaveArtifact`, when a wallet is configured |
| `Deliver` | `Mailer.Deliver`: the guard decides, the goroutine starts |
| `SmtpAccept` | the mail server takes the message, waited for or not |
| `SmtpReplied`, `SmtpFailed`, `SmtpAbandoned` | the `select` of `SMTPTransport.Send` |
| `Mark` | `Store.MarkProcessed` |
| `ReleaseArtifact`, `ReleaseRow` | `Store.Release` after any error of `build` |
| `AdminDeleteArtifact`, `AdminDeleteRow`, `AdminFails` | `Store.DeleteProcessed` |
| `Cancel`, `Restart` | the client hangs up; the machine stops, perhaps to start in another mode |

A statement (`Statement`) ends in one of three ways: it succeeds, it is refused
without effect (context done, or the database fails), or the context ends while it
runs and the driver reports an error for a statement that took effect.

**`DeliveryOnce`** is what the ledger promises, without requests or failures: an entry
per ID that is granted, recorded and cleared; each clearing starts a new epoch, and
in one epoch the ID is mailed at most once. `Pipeline` implements it with `cleared`
as the epoch and the claims of accepted messages as the epochs mailed.

**`ClaimOwners`** is the other side of that promise, what a caller may do with a claim: an
entry that is absent, pending or recorded, and at most one owner, the caller whose claim
won; only the owner records or releases, and nobody touches what is recorded, up to the
administrator's first deletion. What happens between a claim and its end is left open, so
both `Pipeline`, where it is many steps and the owner a request, and `PollCycle`, where it
is none and the owner a cycle, implement it.

**`DocClaims`** and **`CycleClaims`** state what comments and documents of the
repository say and the code does not do (section 5).

**`Ingest`** is what the lines of an export or one webhook payload become. A line has
classes of cells (a division known or not, an address in one of its spellings or blank, a
date that reads or does not) and its quotes: none, whole cells, a stray one, one it leaves
open, one that closes an earlier line's. `RecordEnds` and `RecordAt` are what
`encoding/csv` makes of that: a record goes on, from a line that opens a quote, to the next line
with a quote or the end of the export, and is one row of both lines, or an error. `Address`
is the normalisation, and stands for the
digest the ID is made of. **`PollCycle`** is the cycle end to end: the workflow's three
attempts, the handler, `ExportClient.Fetch` over a session that may lapse, ingest a
record at a time after the header, the loop with its report, the answer, and what the workflow makes of
it. `ProcessClassified` is two steps here: `Claim`, `ClaimFails` or `ClaimLost`, and one of `Finish`,
`FinishFails`, `ReleaseFails` and `FinishCancelled`. That both modules implement `ClaimOwners` ties
the two to the many of `Pipeline`: the same effects on the row, by its owner only. A
webhook is one step here (`PostWebhook`), the claim and its end at once.

**`SmtpDialogue`** is what happens inside `SmtpAccept`, `SmtpReplied`, `SmtpFailed` and
`SmtpAbandoned`: `Send` and its `select`, the goroutine of `net/smtp.SendMail`, a
connection with what is under way in either direction, and the server of `smtptest`. One
step is one reply read by the client, or one command or line read by the server.

| Action | Code |
|---|---|
| `Send`, `SendMailDone`, `ContextDone` | `SMTPTransport.Send`: the early errors, and the two arms of the `select` |
| `Dial`, `ReadReply`, `Disconnected` | `smtp.SendMail`, one command at a time; a wrong reply or a dead connection ends it |
| `Accept`, `StartHandler`, `ServeReturns` | `serve`: the connection is accepted; its handler is counted and started, perhaps after `Close` has begun; the listener is closed |
| `Greet`, `Ehlo`, `Auth`, `Mail`, `Rcpt`, `Data`, `Quit`, `Unrecognized` | the cases of `handle` |
| `ReadLine`, `Capture` | `readData` up to the lone dot, then the append and its reply |
| `HangUp` | a read fails and `handle` returns |
| `Close`, `CloseReturns` | `Close` before and after `wg.Wait` |
| `CloseAgain` | a later `Close`, which returns at once |
| `Lose`, `Stall`, `Cancel` | the connection breaks after any line, or falls silent; the caller's context ends (half a line is dropped like none) |

A line is its leading dots and whether anything follows them, which is all that dot
stuffing can tell apart. **`SmtpHandover`** is what a caller of `Send` may rely on: a
message is held, handed over, and then refused for good or taken, once; `ok` means taken;
an error means nothing. `SmtpDialogue` implements it, and `Pipeline` assumes exactly
this: its `SmtpFailed` leaves the message on the wire, to be taken later or never.

**`Config`** is `Load`, `validate` and the checks `buildService` repeats, over an
environment whose variables are unset, blank, good or bad; a key file is the sequence of
PEM blocks it holds, and a parser returns the block it takes from it. `Service` is what
start-up builds: the guard, the secrets of the endpoints, the SMTP login, the account of the
export, and the material of each wallet. **`Process`** is `run`: load,
open and migrate (the statements of each migration's transaction, then its record
and commit), build, listen, serve, drain.

**`Expiry`** is `Calculate` in hours since an
epoch with the clock changes of America/New_York; SQLite's `substr` of the RFC 3339
text is `ListedUnder`. **`Text`** has the four functions that work on characters:
`drawable`, `truncate`, `quotedPrintable` and `wrap`. **`Badge`** is `build` once more,
for what it makes rather than when: from one registration, the expiry, the
artwork (boxes and panels), both passes, the message, the stored artifact and the row, and
what the download and listing handlers show of them. Its steps, failures and races are
`Pipeline`'s, so here it is one step.

The `MC*` modules give the constants values. A module with proofs ends in `Proofs` or
`Refinement`.

## 3. The runs

| Run | Instance | Checks |
|---|---|---|
| `pipeline_faults` | two requests, two people under one ID (one allowlisted), two modes, any three faults, at most one of each kind | `TypeOK`, `OneMailPerClaim`, `WinnerOwnsRow`, `SentMeansMailed`, `SuppressedStaysSuppressed`, `DeadLinkStaysDead`, `RecordedStable`, `ImplementsDeliveryOnce`, `ImplementsClaimOwners` |
| `pipeline_founder` | two requests, a founder with two registrations taken in turn, two modes, any two faults, fair | `OneFounderOnRecord`, `EventuallyRecorded` |
| `smtp_dialogue` | two calls of `Send`, one to two recipients with a lone dot in its text; eight settings of credentials, server options and address; a break, a stall and an ended context, two of them in one behaviour; fair | `TypeOK`, `CapturedAsSent`, `OnlyWithLogin`, `ImplementsHandover`, `NothingAfterClose`, `EverySendReturns`, `CloseDrains` |
| `cycle_alone` | one cycle, every kind of line in an export of two, six kinds of fault, webhooks, fair | `TypeOK`, `ReportBalances`, `UnknownRowsCounted`, `NoRowLost`, `GreenMeansRecorded`, `RosterServed` |
| `cycle_overlap` | two overlapping cycles sharing the cookie jar and the ledger, two time-outs, a lapse, a sign-in that opens no session, a failure, a failing release, a restart | `OneLapseHeals`, `ImplementsClaimOwners` |
| `process_faults` | two kills and an error anywhere, every schema version, environments that differ from a good one in the guard, the credentials, the secrets, the account and numbers of the export or the files of a wallet, fair | `TypeOK`, `VolumeConsistent`, `ServingIsReady`, `AlwaysServesAgain` |
| `badge_contents` | every hour of 72 around ten turning dates from 2023 to 2026 with every pass type and season; names of 0 to 40 letters in every mix at the lengths where folding and cutting meet; every body of six characters; every choice of wallets and IDs | `DayPassCoversNextDay`, `SeasonLastsItsYear`, `OneExpiry`, `ButtonsWork`, `NothingHidden`, `SignedWhole`, `BodyArrives` |

The five `doc_*` runs are in section 5.

Each property has a mutation of the code that breaks it under the same run: an
operator next to the definition it replaces, marked `Mutation`, that changes it the way
a slip in the code would (`INSERT OR REPLACE` for `INSERT OR IGNORE`, a release that
stops after its first statement, a guard that forgets the allowlist, a version recorded
one statement early, an expiry kept in UTC, a manifest taken one file
early, an escape counted as one character, a `Close` that waits before it closes, ...).

**Why the bounds suffice.** Ledger rows of different IDs meet only in `FounderIssued`, so
one ID with two requests shows every race on a row, and two IDs every race between
founders. Two requests are enough for one to act in the middle of another. A fault
of one kind can be met at every step where it can occur, so one of each is placed
everywhere; three in one behaviour allow, for instance, an abandoned mail, a failing
release and a restart together. Under `allowlist` one of the two people is mailed and
the other suppressed, and `dry_run` suppresses both, so a restart can turn a suppressed
registration into one that would be mailed. `MaxCleared` bounds how often a row can be cleared and
claimed again. A single deletion that hits a request at work can make two
requests release each other's claims without end (`doc_deletion`), which is why this
bound exists, and why `pipeline_faults` may stop: it is the one pipeline run that sets
`CHECK_DEADLOCK FALSE`. `badge_contents` sets it because a badge is one step,
`smtp_dialogue` because a finished dialogue is the end.
Connections share only the list of captured messages and the wait group, so two of them
show every interference; with the lone dot, two recipients and one line each every step of the
dialogue and every way to break off occurs. Lines of mail are scaled down: `MaxLine` is 5 where the
code has 74 and `PartLine` 4 where it has 76, so that bodies of six characters cross a line's end
at every alignment of escapes of width three. The families of `badge_contents` vary one aspect
each around a plain registration: when a badge dies does not depend on the name, nor the
layout on the mail's text.
An export of two lines has every pair of kinds in either order: a row meets another only when
its line opens a quote, and then the next line closes it or not; a third (`doc_bad_row`) only adds
to what is swallowed. The environments of `process_faults` vary one group of variables each, which
`Load` and `buildService` check separately; the secrets, given or blank, occur in all
combinations, a mode with and without what it needs, and PEM files hold up to three blocks, so that each parser finds
what it wants first, second, unreadable or not at all. Two time-outs leave both cycles of `cycle_overlap` running for nobody. Only
behaviours with at most one lapse or silent sign-in can break `OneLapseHeals`, so one of each is enough. Symmetry (requests, cycles) is used in safety runs only.

**Fairness.** `pipeline_founder`: a goroutine that can run does (weak fairness of a
worker's steps), the mail server answers (weak), and the feed keeps offering every
registration (strong, because a request may find it being worked on in between, which
disables nothing for good). `TurnSpec`, and `FeedSpec` with the fairness, add that two
registrations of one founder are not worked on at once: founders come from the export alone, and
their ID is a digest of event and address, so one process offers one registration per founder, and
another one only after a restart with the next season's event. `smtp_dialogue`: while any goroutine of the program
or server can run, some goroutine does; each dialogue is finite, so nothing stronger is needed.
Nobody has to call `Send` or `Close`, and no context has to end. `cycle_alone`: the server runs (weak), and somebody keeps
dispatching the workflow. The code justifies the last only by hand: the hourly schedule in
`poll.yml` is commented out, and `workflow_dispatch` is what remains.
`process_faults`: the platform starts the machine on the next request
(`auto_start_machines` in `fly.toml`) and a draining server finishes or reaches its
grace period. Nothing is assumed of kills, failures, lapses, time-outs or deletions; they
are bounded in number, since a fault that recurs for ever rightly prevents service.

**Preconditions.** Some properties assume away a kind of trouble; section 5 shows what
happens when it is there. `WinnerOwnsRow`, `SentMeansMailed`,
`SuppressedStaysSuppressed`, `RecordedStable` and, in `Pipeline`, `ImplementsClaimOwners` speak
of behaviours up to the first deletion by the administrator, and say so. `OneFounderOnRecord` is checked and proved for
registrations of a founder taken in turn (`TurnSpec`); that spec lets them alternate freely, which is
more than the seasons do. `GreenMeansRecorded`, which says so,
and `RosterServed`, whose run has none, are about behaviours without time-out and restart, since
a cycle cut off in the middle may leave a pending row for ever, which later cycles count
as already seen. A release that fails leaves one too: `GreenMeansRecorded` assumes there was none,
`RosterServed` excepts the address it happened to. `EventuallyRecorded` is for the same reason about behaviours without cancellation,
restart, deletion and failing statements (`Undisturbed`). `EverySendReturns` leaves out a connection
that has stalled under a context that never ends, `CloseDrains` one whose handler is in a read:
the code has no deadline there. `AlwaysServesAgain` speaks of behaviours which in the end only
start in environments that validate.

## 4. The proofs

TLAPS proves these for every value of the constants that meets the `ASSUME`s of the
modules; TLC evaluates them in every run. They say what kind of thing each constant is,
and in `Badge` what the registrations may be (`OrdersAssumption`): any, as long as
the purchase day, the day after and the end of the season lie in the calendar, whose first and last
year are constants.

| Module | Theorem | States |
|---|---|---|
| `PipelineProofs` | `TypeCorrect` | `Spec => []TypeOK` |
| `PipelineProofs` | `OneMail` | `Spec => []OneMailPerClaim` |
| `PipelineProofs` | `DeadLinks` | `Spec => DeadLinkStaysDead` |
| `PipelineProofs` | `Winner` | `Spec => []WinnerOwnsRow` |
| `PipelineProofs` | `SentWasMailed` | `Spec => []SentMeansMailed` |
| `PipelineProofs` | `SuppressedForGood` | `Spec => []SuppressedStaysSuppressed` |
| `PipelineProofs` | `RecordsStay` | `Spec => RecordedStable` |
| `PipelineProofs` | `OneFounder` | `TurnSpec => []OneFounderOnRecord`, if an ID stands for one founder |
| `DeliveryOnceProofs` | `Budget` | `Spec => []MailBudget`: an ID is mailed at most once more than its entry was cleared |
| `PipelineRefinement` | `Implements` | `Spec => ImplementsDeliveryOnce` |
| `PipelineRefinement` | `MailBounded` | `Spec => []MessagesWithinBudget`: the same of the messages SMTP accepted |
| `PipelineRefinement` | `RequestsOwnRows` | `Spec => ImplementsClaimOwners` |
| `PollCycleProofs` | `CycleTypes` | `Spec => []TypeOK` |
| `PollCycleProofs` | `ReportAddsUp` | `Spec => []ReportBalances` |
| `PollCycleProofs` | `LapseHeals` | `Spec => []OneLapseHeals` |
| `PollCycleProofs` | `NoRowIsLost` | `Spec => []NoRowLost` |
| `PollCycleProofs` | `UnknownRowsAreCounted` | `Spec => []UnknownRowsCounted` |
| `PollCycleProofs` | `GreenIsRecorded` | `Spec => GreenMeansRecorded` |
| `PollCycleProofs` | `CyclesOwnRows` | `Spec => ImplementsClaimOwners` |
| `ProcessProofs` | `SchemaMatchesRecord` | `Spec => []VolumeConsistent` |
| `ProcessProofs` | `ReadyToServe` | `Spec => []ServingIsReady` |
| `ProcessProofs` | `ProcessTypes` | `Spec => []TypeOK` |
| `SmtpProofs` | `DialogueTypes` | `Spec => []TypeOK` |
| `SmtpProofs` | `CapturesWhatIsSent` | `Spec => []CapturedAsSent` |
| `SmtpProofs` | `CapturesWithLogin` | `Spec => []OnlyWithLogin` |
| `SmtpProofs` | `NothingCapturedAfterClose` | `Spec => NothingAfterClose` |
| `SmtpRefinement` | `DialogueHandsOver` | `Spec => ImplementsHandover` |
| `BadgeProofs` | `DayPassHolds` | `Spec => []DayPassCoversNextDay` |
| `BadgeProofs` | `SeasonHolds` | `Spec => []SeasonLastsItsYear` |
| `BadgeProofs` | `ExpiryAgrees` | `Spec => []OneExpiry` |
| `BadgeProofs` | `ButtonsLead` | `Spec => []ButtonsWork` |
| `BadgeProofs` | `AllVisible` | `Spec => []NothingHidden` |
| `BadgeProofs` | `PassSigned` | `Spec => []SignedWhole` |
| `BadgeProofs` | `BodyIsRead` | `Spec => []BodyArrives` |

*One mail per claim.* `OneMailPerClaim` is not inductive: it says nothing of requests
about to mail. `ClaimsDistinct` adds that every request past its claim, and every message, on
the wire or accepted, belongs to a claim that was granted; that no two requests hold
one claim; that a request which has not sent yet shares its claim with no message; and
that no two messages share one. The one step that could break it is a winning insert: it
wins only where there is no row, and then the claim `<<id, cleared[id]>>` was never
granted before. A deletion moves `cleared` on, so a later winner has another claim.
The refinement uses the same invariant for the step `SmtpAccept`, which has to be a
dispatch of an epoch not yet mailed. With it the messages of one ID map one-to-one to claims
granted, which bounds how many there are (`MailBounded`).

*Wallet links.* `TokensFresh` says that every token held by a request, stored or mailed was drawn
before the next one, that no two requests and no two claims share one, and that a request
stores its token before it mails it. So the only statement that could revive a mailed link, the
upsert of a request that has not mailed yet, stores another token.

*Until the first deletion.* Four properties, and the next paragraph, rest on one invariant, `Undeleted`. It adds
`Ownership` to the two above: requests past their claims have different IDs; each finds its
row, its stored pass and its messages as its own step says (`Holds`); and a row that says
something was mailed, or that nothing was, is right (`Stands`). The delicate part is a row
that was recorded by a statement whose caller was told it failed: the caller will release a
row that stands for a message. It cannot, because only an ended context makes a
statement both take effect and report an error, and the release runs under the same context
(`~IsPending(Id(w)) => cancelled[w]`). This is why `RecordedStable` holds, and it is what would
break if the release were given a context of its own.

*Owners.* `RequestsOwnRows` reads the owners off the program counters: whoever is past its claim and
before its end. `Ownership` makes that at most one per row, and by `Holds` the row is there and
pending wherever the owner can record or release it. `Change` lists what a step may do to
one ID; each action does one of these at the ID of its request and nothing elsewhere, which is
a step of `ClaimOwners` (`ChangeRefines`). `CyclesOwnRows` takes the same way from `Working`: an entry
somebody works on has one worker and is pending. Two overlapping cycles meet in the
claim only, and a webhook, which comes and goes in one step, needs an absent entry.

*Founders.* `OneFounderOnRecord` is about two registrations, whose rows meet only in the look-up.
Call a registration live while a message of its standing claim is out, and stuck when its row is
pending with no request left. `InOrder` says that of two live registrations of one founder one is
stuck (`OneLive`): the second is handed over only after a look-up that found the first not
recorded, and meanwhile no request for the first can record it. What is stuck is never recorded;
only a deletion ends it, and then its message no longer stands for the claim. The
assumption `OneContent` (an ID offered for a founder is offered with one content) is
needed: if `<<r1, ana>>` is offered both as founder and as season membership, a request that comes late after
a deletion records the founder's row as a season membership, which the look-up does not find.

*The report.* `ReportBalances` looks at answered cycles; the induction is over the loop.
`InStep` says that in the loop the candidates before the next one are those counted. Two
smaller facts go with it: a cycle answered 200 has counted as many as it fetched, and a
pausing workflow has an attempt left.

*The cycle.* `GoesOn` lists the ways one request of the server goes on; four invariants use it. `Stages`
counts, for each stage of a fetch, the troubles it must have met (`OneLapseHeals`). `Accounts` relates the
records read to the candidates, errors and counts they became, over the sets of row numbers, and
says that the records tile the lines read, each ending where the reader ends it
(`NoRowLost`, `UnknownRowsCounted`). `Orderly`, as long as nothing timed out or restarted and no release failed, says
that the workflow awaits every cycle it started, so that cycles take turns; that
a pending row belongs to the one at work; and that every candidate behind the next one
is on record, unless the report counts a failure. A green run has counted none.

*The process.* `Schema` says that the volume is exactly some version and the open
transaction carries the next one up to its current statement; `Checked` says for each
step of the start what has been established about the environment and the schema by then.
`PartsReady` takes that apart for what the service holds. `ServingIsReady` speaks of files as an
operator sees them, `LeadsWith`: the key is the first key of its file, whatever stands before it.
The parsers speak of the first block they do not skip; that these are one and the
same is `ParsedIsFirst` and, for each wallet, `SignerKeys` and `IssuerKey`.

*The dialogue.* `CapturedAsSent` speaks of the end of an exchange, so its invariant `IInv`
describes all of it. Client and server are in lockstep: for each step of the client
(`Connecting`, `LoggingIn`, `Addressing`, `Delivering`) either exactly one command is
unread and no reply under way, or nothing is unread and a reply of success says what the
session holds by then. While the message is read, what has been read and what can still
arrive are a prefix of what was written (`Underway`), which is why a broken connection can
leave a part behind but never an end. `Replies` ties the outcome to the capture: `ok` only for what
was taken. For `NothingAfterClose` a second invariant, `Quiet`, says that `serve` does not return before every
connection it accepted has its handler, and that after `Close` has returned neither `serve` nor a handler runs. In `SmtpRefinement` each action moves at
most one message along `held`, `handed`, `refused` or `taken`; that a refused message was
never written, and so is never taken, comes from `IInv`.

*The calendar.* `DayPassHolds` and `SeasonHolds` need that dates and days correspond
(`DatesAreDays`, `DaysAreDates`, `NextDayIsNext`) for a calendar of any length. The library's
induction theorems take an operator, which no installed prover can instantiate, so `NatInd` states
induction as a fact about a set of naturals, from the least element that well-foundedness
gives (`NatLeast`). With it `Sums` shows that a running sum exists, which is what the
recursive tables `YearStart` and `MonthStart` choose; and `YearsTile` and
`MonthsTile` that every day falls into one year and one month. `QuietMidnights` is the point
about time zones: both clock changes happen at a fixed hour after
midnight, so around a midnight the offset stays what it is; the end of a date is one
instant, and the hour before it is still on the date (`EndOfMidnight`, `LocalDays`). That is
where 24 to 49 hours come from.

*The badge.* The invariant says that either nothing was made or everything was, each surface from
the one expiry (`Made`). What is left is arithmetic and sequences: the end each surface
formats for itself is that of the badge (`Endings`), which fails for a founder's badge if one of them
omits the test for the zero time; a stored link gives its ID back when `.pkpass` is
cut off, whatever the ID ends in (`TrimmedLink`), but only because a registration without ID is refused;
a headline is never longer than its limit, though letters fold into several
(`Flattened`, `HeadlineFits`), so no two boxes meet (`BoxesApart`).

*The text of the mail.* Bodies have any length, and the encoders are recursive functions, so the
first fact is that they exist: `Scans` gives every left-to-right scan of a sequence as a
function, for `QuotedPrintable`, for `Kept` (what a reader keeps of a text) and for the library's
`FlattenSeq`. The encoder's invariant (`Writes`) relates three things: what the finished lines and the
unfinished one are read as keeps exactly what the characters so far keep, every finished line
fits, and the unfinished one is as wide as the encoder counts. A soft
break changes nothing the reader keeps; a blank is kept back until something follows it, and a hard
line end drops it on both sides (`PaddingUnread`), which is what makes an unescaped blank at the
end of a line harmless. `WrapWhole` does the same for the parts in base64: every line but
the last is full, and together they are the attachment.

Only model-checked: the liveness properties, since fairness and `ENABLED` are out of the prover's
reach.

## 5. Where documents and code disagree

Each is a run that fails, with only the trouble named.

| Run | What happens | What is written |
|---|---|---|
| `doc_release` | A request whose context ended fails without mailing, and its release, with the same context, fails too: the claim stays pending. | `README.md:322-323` "the claim is released and the next cycle retries" |
| `doc_double_mail` | The mail server accepts, `SendMail` returns an error, the claim is released, the retry mails again. | `README.md:321-322` "cannot double-mail"; `poll.go:197` "Nothing was delivered" |
| `doc_deletion` | A request whose row was deleted releases the claim of the next one: one deletion, three mails. | `server.go:313-315` "the only way to deliberately mail it again" |
| `doc_shared_address` | Two registrants with one address: the second gets no badge, and the run is green. | `export.go:42-43` "keying on it costs nothing" |
| `doc_bad_row` | A row that opens a quote and does not close it swallows the rows up to the next quote or the end: one logged error, a green run, no badges for them. | `export.go:56-57` "one unusable row never blocks the other registrants' badges" |

These follow from the same models; they are recorded here and have no run.

* A founder row recorded as `dry_run` or `skipped` counts as issued, so after a dry run the
  founder's registration of the next season is suppressed though nothing was mailed, against
  `store.go:264-265`, "has already been delivered". Deleting the row of one season does not help a
  founder who has another.
* A request at work may store its pass between the two statements of a deletion
  (`SaveArtifact` between `AdminDeleteArtifact` and `AdminDeleteRow`) and mail a link that
  works afterwards, against `server.go:315-316`, "stops working immediately".
* A membership that arrives by webhook (keyed by order ID) and in the export (keyed by the
  digest of its address) is served twice, against `SPEC.md:148`, "no consumer receives
  duplicate badges".
* A founder's mail says "Expires: Never" and ends "valid only through the expiration shown"
  (`email.go:156` and the template), the same sentence as for everybody else; the Apple pass
  has two sentences for the two cases (`OneExpiry` checks it).
* A second call of the capture server's `Close` returns while the first still waits
  (`CloseAgain`), against `smtptest/server.go:84`, "waits for connections to drain".
* Blanks at the end of a line are not escaped by `quotedPrintable`, and a mail reader may
  drop them; `BodyArrives` allows for that.
* A name with no letter the artwork can draw passes `Validate` and leaves the headline empty.
* Key files: an `EC PARAMETERS` block before the key, as `openssl ecparam` writes it, is
  refused; only certificates are skipped (`parsePrivateKey`).
* Google object IDs replace every unsafe character by a hyphen (`sanitizeID`), so two webhook
  order IDs may share one object.

## 6. What is not modelled

* Pixels, QR modules, MIME headers and boundaries, ZIP, SHA-1, PKCS#7 and RS256: layout and
  cryptography without state. That they can fail is `BuildFails`.
* STARTTLS, and SMTP commands `net/smtp` never sends (HELO, RSET, NOOP, AUTH LOGIN, a login
  in two parts).
* `cmd/mintpass` and `cmd/contract-check`: one-shot sequential programs over components
  modelled here. `internal/testkeys` is embedded data. The other workflows, `fly.toml` and
  the `Dockerfile` build and deploy the program.
* CSV syntax, date formats, JSON: represented by the classes of lines, cells and payloads that
  lead to different ends. A line with both ends of two open quotes is left out.
* Comparing bearer tokens, request size limits, log lines.
* `GET /healthz` and `GET /admin/processed` only read; the year filter is in `Expiry`, the
  expiry a row shows in `Badge`.
* Timestamps, mode and expiry columns of a ledger row: no modelled decision reads them.
* A deployment without an export (webhooks only), whose fetch is an empty one.
* Two machines on one volume: `fly.toml` mounts one volume on one machine.

## 7. Plan

Done, in this order: `Guard`, `Ledger`, `Pipeline` with `DeliveryOnce` and their proofs; `Ingest`,
`PollCycle` and its proofs; `Config`, `Process` and its proofs; `Expiry`; `SmtpHandover`,
`SmtpDialogue` and their proofs; `Text`, `Badge` and its proofs; `ClaimOwners` and both
refinements.

Next: the listing's order, and the webhook-only deployment. `ClaimOwners` relates `PollCycle`
to `Pipeline` by what both do to rows; a composition of the two would also show what a cycle
adds up from what its mails became.
