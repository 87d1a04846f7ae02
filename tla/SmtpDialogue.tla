---------------------------- MODULE SmtpDialogue ----------------------------
(***************************************************************************)
(* The SMTP dialogue: SMTPTransport.Send (internal/mailer/mailer.go), the  *)
(* goroutine of net/smtp.SendMail it starts, the connection between them,  *)
(* and the server of internal/smtptest, which captures what arrives.       *)
(* SendMail speaks one command at a time and awaits its reply; the message *)
(* goes out in one piece, so that a connection that breaks may deliver any *)
(* part of it. What the server does not understand or SendMail never says  *)
(* (HELO, RSET, NOOP, AUTH LOGIN, a login in two parts) is left out.       *)
(***************************************************************************)
EXTENDS Integers, Sequences

CONSTANTS
  Sends,       \* calls of Send, each with a connection of its own
  Addresses,   \* mail addresses
  Envelopes,   \* [Sends -> [from, to, data]]: what each call is to send
  Settings,    \* [transport, server]: an SMTPTransport and a server's Options
  NoLogin,     \* no user name, on either side
  Limit        \* bound on each kind of trouble and on all together

(* A line of a message: its leading dots, and whether anything follows.    *)
Line == [dots : Nat, text : BOOLEAN]
Terminator == [dots |-> 1, text |-> FALSE]

Troubles == {"lose", "stall", "cancel", "total"}

ASSUME DialogueAssumption ==
  /\ \A s \in Sends : Envelopes[s] \in [from : Addresses, to : Seq(Addresses), data : Seq(Line)]
  /\ Limit \in [Troubles -> Nat]

VARIABLES
  transport,  \* [addr, login]: the SMTPTransport all calls use
  server,     \* [requireAuth, account, failData]: the server's Options
  at,         \* [Sends -> what SendMail waits for, or where it ended]
  asked,      \* [Sends -> how many recipients it has named]
  sendmail,   \* [Sends -> how SendMail ended]
  result,     \* [Sends -> what Send returned]
  ended,      \* [Sends -> BOOLEAN]: the caller's context is done
  link,       \* [Sends -> the state of the connection]
  toServer,   \* [Sends -> Seq(what SendMail wrote and the server has not read)]
  toClient,   \* [Sends -> Seq(reply codes not yet read)]
  session,    \* [Sends -> the step of the server's handle()]
  envelope,   \* [Sends -> [from, to, login]]: the server's session values
  lines,      \* [Sends -> Seq(Line)]: the data read so far
  captured,   \* Seq([send, from, to, data, login]): Server.msgs
  closer,     \* the Close() that shuts the server: "open", "waiting", "returned"
  reclosed,   \* has a later call of Close() returned?
  serving,    \* does the goroutine of serve() still run?
  troubles    \* [Troubles -> Nat]

client  == <<at, asked, sendmail>>
caller  == <<result, ended>>
network == <<link, toServer, toClient>>
handler == <<session, envelope, lines, captured>>
life    == <<closer, reclosed, serving>>
fixed   == <<transport, server>>
vars == <<fixed, client, caller, network, handler, life, troubles>>

Cmd(verb, arg) == [verb |-> verb, arg |-> arg]
NoEnvelope == [from |-> "", to |-> <<>>, login |-> NoLogin]

(* Every SendMail is at one of these; the last two also say that the whole *)
(* message has been written.                                               *)
Early == {"idle", "dial", "greeting", "ehlo", "auth", "abort", "leave", "mail", "rcpt", "data"}
Late  == {"dot", "quit"}
Open  == {"greet", "command", "data"}

Init ==
  /\ \E setting \in Settings : transport = setting.transport /\ server = setting.server
  /\ at = [s \in Sends |-> "idle"]
  /\ asked = [s \in Sends |-> 0]
  /\ sendmail = [s \in Sends |-> "none"]
  /\ result = [s \in Sends |-> "none"]
  /\ ended = [s \in Sends |-> FALSE]
  /\ link = [s \in Sends |-> "none"]
  /\ toServer = [s \in Sends |-> <<>>] /\ toClient = [s \in Sends |-> <<>>]
  /\ session = [s \in Sends |-> "none"]
  /\ envelope = [s \in Sends |-> NoEnvelope]
  /\ lines = [s \in Sends |-> <<>>]
  /\ captured = <<>>
  /\ closer = "open" /\ reclosed = FALSE /\ serving = TRUE
  /\ troubles = [t \in Troubles |-> 0]
-----------------------------------------------------------------------------
(* The caller: Send. *)
Running(s) == at[s] # "idle" /\ sendmail[s] = "none"

(* Without an address, or with a login and an address that has no port,    *)
(* Send fails before anything is started.                                  *)
Misaddressed ==
  transport.addr = "" \/ (transport.addr = "no-port" /\ transport.login # NoLogin)

Send(s) ==
  /\ at[s] = "idle" /\ result[s] = "none"
  /\ IF Misaddressed
     THEN result' = [result EXCEPT ![s] = "error"] /\ UNCHANGED at
     ELSE at' = [at EXCEPT ![s] = "dial"] /\ UNCHANGED result
  /\ UNCHANGED <<fixed, asked, sendmail, ended, network, handler, life, troubles>>

Return(s, outcome) ==
  /\ at[s] # "idle" /\ result[s] = "none"
  /\ result' = [result EXCEPT ![s] = outcome]
  /\ UNCHANGED <<fixed, client, ended, network, handler, life, troubles>>

(* Mutation: the error of SendMail is lost on the way. *)
SendMailDropsError(s) == sendmail[s] # "none" /\ Return(s, "ok")

(* The select of Send: whichever is ready, and either when both are.       *)
SendMailDone(s) == sendmail[s] # "none" /\ Return(s, sendmail[s])

(* Mutation: Send waits for SendMail alone. *)
ContextIgnored(s) == ended[s] /\ SendMailDone(s)

ContextDone(s) == ended[s] /\ Return(s, "error")
-----------------------------------------------------------------------------
(* The goroutine: net/smtp.SendMail. *)
EndSendMail(s, outcome) ==
  /\ sendmail' = [sendmail EXCEPT ![s] = outcome]
  /\ link' = [link EXCEPT ![s] = "down"]
  /\ UNCHANGED <<at, asked, toServer>>

Dial(s) ==
  /\ at[s] = "dial" /\ Running(s)
  /\ IF transport.addr = "good" /\ closer = "open"
     THEN /\ at' = [at EXCEPT ![s] = "greeting"]
          /\ link' = [link EXCEPT ![s] = "up"]
          /\ session' = [session EXCEPT ![s] = "backlog"]
          /\ UNCHANGED <<asked, sendmail, toServer>>
     ELSE EndSendMail(s, "error") /\ UNCHANGED session
  /\ UNCHANGED <<fixed, caller, toClient, envelope, lines, captured, life, troubles>>

(* Write something and wait for the reply to it. *)
Say(s, step, items) ==
  /\ at' = [at EXCEPT ![s] = step]
  /\ toServer' = [toServer EXCEPT ![s] = @ \o items]
  /\ UNCHANGED <<asked, sendmail, link>>

SayRcpt(s) ==
  /\ at' = [at EXCEPT ![s] = "rcpt"]
  /\ asked' = [asked EXCEPT ![s] = @ + 1]
  /\ toServer' = [toServer EXCEPT ![s] = Append(@, Cmd("RCPT", Envelopes[s].to[asked'[s]]))]
  /\ UNCHANGED <<sendmail, link>>

(* textproto.DotWriter: a leading dot is doubled, a dot alone is the end.  *)
Stuff(l) == IF l.dots > 0 THEN [l EXCEPT !.dots = @ + 1] ELSE l
Written(data) ==
  [i \in 1..(Len(data) + 1) |-> Cmd("", IF i <= Len(data) THEN Stuff(data[i]) ELSE Terminator)]

(* The reply SendMail counts as success at each step. *)
Expected ==
  [greeting |-> 220, ehlo |-> 250, auth |-> 235, mail |-> 250, rcpt |-> 250,
   data |-> 354, dot |-> 250, quit |-> 221]

MailFrom(s) == Say(s, "mail", <<Cmd("MAIL", Envelopes[s].from)>>)

Proceed(s) ==
  CASE at[s] = "greeting" -> Say(s, "ehlo", <<Cmd("EHLO", "")>>)
    [] at[s] = "ehlo"     -> IF transport.login # NoLogin
                             THEN Say(s, "auth", <<Cmd("AUTH", transport.login)>>)
                             ELSE MailFrom(s)
    [] at[s] = "auth"     -> MailFrom(s)
    [] at[s] \in {"mail", "rcpt"} ->
                             IF asked[s] < Len(Envelopes[s].to)
                             THEN SayRcpt(s)
                             ELSE Say(s, "data", <<Cmd("DATA", "")>>)
    [] at[s] = "data"     -> Say(s, "dot", Written(Envelopes[s].data))
    [] at[s] = "dot"      -> Say(s, "quit", <<Cmd("QUIT", "")>>)
    [] at[s] = "quit"     -> EndSendMail(s, "ok")

(* Any other reply is an error; a refused login is called off politely.    *)
GiveUp(s) ==
  CASE at[s] = "auth"  -> Say(s, "abort", <<Cmd("*", "")>>)
    [] at[s] = "abort" -> Say(s, "leave", <<Cmd("QUIT", "")>>)
    [] OTHER           -> EndSendMail(s, "error")

ReadReply(s) ==
  /\ Running(s) /\ link[s] = "up" /\ toClient[s] # <<>>
  /\ toClient' = [toClient EXCEPT ![s] = Tail(@)]
  /\ IF at[s] \in DOMAIN Expected /\ Head(toClient[s]) = Expected[at[s]] THEN Proceed(s) ELSE GiveUp(s)
  /\ UNCHANGED <<fixed, caller, handler, life, troubles>>

(* The connection is gone: the next read or write fails. *)
Disconnected(s) ==
  /\ Running(s) /\ link[s] = "down"
  /\ EndSendMail(s, "error")
  /\ UNCHANGED <<fixed, caller, toClient, handler, life, troubles>>
-----------------------------------------------------------------------------
(* The server: serve(), and handle() for each connection. *)
Accept(s) ==
  /\ serving /\ closer = "open" /\ session[s] = "backlog"
  /\ \A t \in Sends : session[t] # "accepted"
  /\ session' = [session EXCEPT ![s] = "accepted"]
  /\ UNCHANGED <<fixed, client, caller, network, envelope, lines, captured, life, troubles>>

(* serve() counts the handler before it starts it, be the listener still   *)
(* open or not: Close may wait already.                                    *)
StartHandler(s) ==
  /\ session[s] = "accepted"
  /\ session' = [session EXCEPT ![s] = "greet"]
  /\ UNCHANGED <<fixed, client, caller, network, envelope, lines, captured, life, troubles>>

(* A reply on a broken connection is lost; handle() then ends, on this     *)
(* error or on the next read: nothing SendMail wrote is left.              *)
Reply(s, code) ==
  toClient' = IF link[s] = "down" THEN toClient ELSE [toClient EXCEPT ![s] = Append(@, code)]

Handled(s, code) ==
  /\ Reply(s, code)
  /\ UNCHANGED <<fixed, client, caller, link, life, troubles>>

Greet(s) ==
  /\ session[s] = "greet"
  /\ session' = [session EXCEPT ![s] = "command"]
  /\ Handled(s, 220) /\ UNCHANGED <<toServer, envelope, lines, captured>>

Read(s, step) ==
  /\ session[s] = step /\ link[s] # "stalled" /\ toServer[s] # <<>>
  /\ toServer' = [toServer EXCEPT ![s] = Tail(@)]

Command(s, verb) == Read(s, "command") /\ Head(toServer[s]).verb = verb
Argument(s) == Head(toServer[s]).arg

Ehlo(s) ==
  /\ Command(s, "EHLO")
  /\ Handled(s, 250) /\ UNCHANGED handler

(* handleAuth: any login will do if the server has no account. *)
LoginAccepted(login) == server.account = NoLogin \/ login = server.account

Auth(s) ==
  /\ Command(s, "AUTH")
  /\ IF LoginAccepted(Argument(s))
     THEN envelope' = [envelope EXCEPT ![s].login = Argument(s)] /\ Handled(s, 235)
     ELSE UNCHANGED envelope /\ Handled(s, 535)
  /\ UNCHANGED <<session, lines, captured>>

(* Mutation: the login is not asked for. *)
MailOpen(s) ==
  /\ Command(s, "MAIL")
  /\ envelope' = [envelope EXCEPT ![s].from = Argument(s), ![s].to = <<>>] /\ Handled(s, 250)
  /\ UNCHANGED <<session, lines, captured>>

Mail(s) ==
  /\ Command(s, "MAIL")
  /\ IF server.requireAuth /\ envelope[s].login = NoLogin
     THEN UNCHANGED envelope /\ Handled(s, 530)
     ELSE envelope' = [envelope EXCEPT ![s].from = Argument(s), ![s].to = <<>>] /\ Handled(s, 250)
  /\ UNCHANGED <<session, lines, captured>>

Rcpt(s) ==
  /\ Command(s, "RCPT")
  /\ envelope' = [envelope EXCEPT ![s].to = Append(@, Argument(s))]
  /\ Handled(s, 250) /\ UNCHANGED <<session, lines, captured>>

Data(s) ==
  /\ Command(s, "DATA")
  /\ IF server.failData
     THEN UNCHANGED <<session, lines>> /\ Handled(s, 554)
     ELSE /\ session' = [session EXCEPT ![s] = "data"]
          /\ lines' = [lines EXCEPT ![s] = <<>>]
          /\ Handled(s, 354)
  /\ UNCHANGED <<envelope, captured>>

(* Mutation: the first character of every line goes.                       *)
UnstuffAlways(l) == [l EXCEPT !.dots = @ - 1]

Unstuff(l) == IF l.dots > 1 THEN [l EXCEPT !.dots = @ - 1] ELSE l

(* readData: line by line up to the lone dot. *)
ReadLine(s) ==
  /\ Read(s, "data") /\ Argument(s) # Terminator
  /\ lines' = [lines EXCEPT ![s] = Append(@, Unstuff(Argument(s)))]
  /\ UNCHANGED <<fixed, client, caller, link, toClient, session, envelope, captured, life, troubles>>

Message(s) ==
  [send |-> s, from |-> envelope[s].from, to |-> envelope[s].to,
   data |-> lines[s], login |-> envelope[s].login]

(* The message is appended, then acknowledged; until the reply nobody can  *)
(* tell the two apart.                                                     *)
Capture(s) ==
  /\ Read(s, "data") /\ Argument(s) = Terminator
  /\ captured' = Append(captured, Message(s))
  /\ session' = [session EXCEPT ![s] = "command"]
  /\ envelope' = [envelope EXCEPT ![s].from = "", ![s].to = <<>>]
  /\ Handled(s, 250) /\ UNCHANGED lines

Quit(s) ==
  /\ Command(s, "QUIT")
  /\ session' = [session EXCEPT ![s] = "ended"]
  /\ Handled(s, 221) /\ UNCHANGED <<envelope, lines, captured>>

(* The "*" that calls off a login is no command of this server.            *)
Unrecognized(s) ==
  /\ Command(s, "*")
  /\ Handled(s, 500) /\ UNCHANGED handler

EndSession(s) ==
  /\ session[s] \in Open /\ link[s] = "down" /\ toServer[s] = <<>>
  /\ session' = [session EXCEPT ![s] = "ended"]
  /\ UNCHANGED <<fixed, client, caller, network, envelope, lines, life, troubles>>

(* Mutation: what has been read is kept when the connection ends.          *)
HangUpKeepsPart(s) ==
  /\ EndSession(s)
  /\ captured' = IF session[s] = "data" THEN Append(captured, Message(s)) ELSE captured

(* A read fails: handle() returns, and a message half read is dropped.     *)
HangUp(s) == EndSession(s) /\ UNCHANGED captured
-----------------------------------------------------------------------------
(* Close(): no new connections, those not yet accepted are reset, and the  *)
(* rest are waited for. A call that finds the server closed returns at     *)
(* once. (Two that pass the first test together end in a panic, and with   *)
(* it the process; nothing more happens then.)                             *)
Close ==
  /\ closer = "open"
  /\ closer' = "waiting"
  /\ session' = [s \in Sends |-> IF session[s] = "backlog" THEN "ended" ELSE session[s]]
  /\ link' = [s \in Sends |-> IF session[s] = "backlog" THEN "down" ELSE link[s]]
  /\ UNCHANGED <<fixed, client, caller, toServer, toClient, envelope, lines, captured, reclosed, serving, troubles>>

CloseAgain ==
  /\ closer # "open"
  /\ reclosed' = TRUE
  /\ UNCHANGED <<fixed, client, caller, network, handler, closer, serving, troubles>>

(* Mutation: Close waits before it closes the listener. *)
ServeStays ==
  /\ serving /\ closer = "returned"
  /\ serving' = FALSE
  /\ UNCHANGED <<fixed, client, caller, network, handler, closer, reclosed, troubles>>

ServeReturns ==
  /\ serving /\ closer # "open" /\ \A s \in Sends : session[s] # "accepted"
  /\ serving' = FALSE
  /\ UNCHANGED <<fixed, client, caller, network, handler, closer, reclosed, troubles>>

(* Mutation: a handler counts only once it runs, which may be late. *)
DrainedEarly == ~serving /\ \A s \in Sends : session[s] \notin Open \ {"greet"}

(* The wait group: serve() and every handler it has started. *)
Drained == ~serving /\ \A s \in Sends : session[s] \notin Open

CloseReturns ==
  /\ closer = "waiting" /\ Drained
  /\ closer' = "returned"
  /\ UNCHANGED <<fixed, client, caller, network, handler, reclosed, serving, troubles>>
-----------------------------------------------------------------------------
Trouble(kind) ==
  /\ troubles[kind] < Limit[kind] /\ troubles["total"] < Limit["total"]
  /\ troubles' = [troubles EXCEPT ![kind] = @ + 1, !["total"] = @ + 1]

(* The connection breaks: replies under way are lost, and the server sees  *)
(* some first part of what was written, then the end.                      *)
Lose(s) ==
  /\ link[s] \in {"up", "stalled"} /\ Trouble("lose")
  /\ link' = [link EXCEPT ![s] = "down"]
  /\ \E n \in 0..Len(toServer[s]) : toServer' = [toServer EXCEPT ![s] = SubSeq(@, 1, n)]
  /\ toClient' = [toClient EXCEPT ![s] = <<>>]
  /\ UNCHANGED <<fixed, client, caller, handler, life>>

(* The connection stays up and delivers nothing more, either way.          *)
Stall(s) ==
  /\ link[s] = "up" /\ Trouble("stall")
  /\ link' = [link EXCEPT ![s] = "stalled"]
  /\ UNCHANGED <<fixed, client, caller, toServer, toClient, handler, life>>

(* The context the caller gave to Send ends. *)
Cancel(s) ==
  /\ ~ended[s] /\ result[s] = "none" /\ Trouble("cancel")
  /\ ended' = [ended EXCEPT ![s] = TRUE]
  /\ UNCHANGED <<fixed, client, result, network, handler, life>>
-----------------------------------------------------------------------------
SendMail(s) == Dial(s) \/ ReadReply(s) \/ Disconnected(s)
Handle(s) ==
  \/ Greet(s) \/ Ehlo(s) \/ Auth(s) \/ Mail(s) \/ Rcpt(s) \/ Data(s)
  \/ ReadLine(s) \/ Capture(s) \/ Quit(s) \/ Unrecognized(s) \/ HangUp(s)

Goroutine(s) ==
  SendMailDone(s) \/ ContextDone(s) \/ SendMail(s) \/ Accept(s) \/ StartHandler(s) \/ Handle(s)

Goroutines == (\E s \in Sends : Goroutine(s)) \/ ServeReturns \/ CloseReturns

Next ==
  \/ Goroutines
  \/ \E s \in Sends : Send(s) \/ Lose(s) \/ Stall(s) \/ Cancel(s)
  \/ Close \/ CloseAgain

Spec == Init /\ [][Next]_vars

(* While some goroutine can run, one does; every dialogue being finite, no *)
(* more is needed. Nobody has to call Send or Close, and no context has to *)
(* end.                                                                    *)
FairSpec == Spec /\ WF_vars(Goroutines)
-----------------------------------------------------------------------------
(* The one type invariant of the dialogue. *)
TypeOK ==
  /\ \E setting \in Settings : transport = setting.transport /\ server = setting.server
  /\ at \in [Sends -> Early \cup Late]
  /\ asked \in [Sends -> Nat]
  /\ sendmail \in [Sends -> {"none", "ok", "error"}]
  /\ result \in [Sends -> {"none", "ok", "error"}]
  /\ ended \in [Sends -> BOOLEAN]
  /\ link \in [Sends -> {"none", "up", "stalled", "down"}]
  /\ session \in [Sends -> {"none", "backlog", "accepted", "ended"} \cup Open]
  /\ lines \in [Sends -> Seq(Line)]
  /\ closer \in {"open", "waiting", "returned"} /\ reclosed \in BOOLEAN /\ serving \in BOOLEAN
  /\ troubles \in [Troubles -> Nat]

CapturedFrom(s) == {i \in 1..Len(captured) : captured[i].send = s}

(* What the server captures is what a Send was given, whole: its sender,   *)
(* its recipients in order, its lines with their dots, under its login;    *)
(* never a part of a message whose connection broke, and never the same    *)
(* call twice (smtptest handle and readData against SendMail).             *)
CapturedAsSent ==
  \A i \in 1..Len(captured) :
    LET m == captured[i] IN
    /\ [from |-> m.from, to |-> m.to, data |-> m.data] = Envelopes[m.send]
    /\ m.login = transport.login
    /\ CapturedFrom(m.send) = {i}

(* A server that wants a login captures nothing of this client without its *)
(* own: SendMail stops at the MAIL the server refuses (later commands ask  *)
(* for no login).                                                          *)
OnlyWithLogin ==
  server.requireAuth => \A i \in 1..Len(captured) :
    captured[i].login # NoLogin /\ LoginAccepted(captured[i].login)

(* What the pipeline builds on: the dialogue implements the handover. A    *)
(* message is refused once SendMail has ended before writing it; until the *)
(* end of the dialogue it may be taken, also after Send returned an error. *)
Fate(s) ==
  IF CapturedFrom(s) # {} THEN "taken"
  ELSE IF at[s] = "idle" THEN "held"
  ELSE IF at[s] \in Early /\ sendmail[s] = "error" THEN "refused" ELSE "handed"

Handover == INSTANCE SmtpHandover WITH message <- [s \in Sends |-> Fate(s)]

ImplementsHandover == Handover!Spec

(* Once the Close that shut the server has returned, what Messages() shows *)
(* no longer changes, though a connection may be accepted before it and    *)
(* handled while it waits (serve and Close). A later call promises nothing.*)
NothingAfterClose == [][closer = "returned" => captured' = captured]_captured

(* A connection that has stalled holds Send only until its context ends.   *)
Hanging(s) == link[s] = "stalled" /\ ~ended[s]

EverySendReturns ==
  <>[](\A s \in Sends : at[s] # "idle" => result[s] # "none" \/ Hanging(s))

(* Close returns, unless a connection stalls with its handler in a read:   *)
(* a goroutine whose caller has gone still finishes its dialogue.          *)
CloseDrains ==
  <>[](closer = "waiting" => \E s \in Sends : session[s] \in Open /\ link[s] = "stalled")
=============================================================================
