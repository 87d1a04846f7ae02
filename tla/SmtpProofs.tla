----------------------------- MODULE SmtpProofs -----------------------------
(***************************************************************************)
(* Proofs about the SMTP dialogue, for any number of calls of Send, any    *)
(* messages, settings and troubles: what the server captures is what was   *)
(* sent, under the right login, and nothing after Close has returned.      *)
(***************************************************************************)
EXTENDS SmtpDialogue, SequenceTheorems, TLAPS

(* What a call is to send, and whether the server may take it.             *)
From(s) == Envelopes[s].from
To(s)   == Envelopes[s].to
Lines(s) == Envelopes[s].data

Admitted ==
  server.requireAuth => transport.login # NoLogin /\ LoginAccepted(transport.login)

Taken(s) == \E i \in 1..Len(captured) : captured[i].send = s

(* The two sides in lockstep: SendMail has written at most one thing the   *)
(* server has not read, and then awaits its reply.                         *)
Asks(s, item) == toServer[s] = <<item>> /\ toClient[s] = <<>>
Hears(s, code) == toClient[s] = <<code>>
Holds(s, from, to, login) == envelope[s] = [from |-> from, to |-> to, login |-> login]
Blank(s) == Holds(s, "", <<>>, NoLogin)
Spoken(s) == session[s] \in {"command", "ended"}
Untaken(s) == ~Taken(s) /\ asked[s] = 0

(* The message as far as it has been read, and what of the rest arrives.   *)
Underway(s) ==
  \E k \in 0..Len(Lines(s)) : \E n \in k..(Len(Lines(s)) + 1) :
    /\ lines[s] = SubSeq(Lines(s), 1, k)
    /\ toServer[s] = SubSeq(Written(Lines(s)), k + 1, n)

Connecting(s) ==
  /\ at[s] \in {"idle", "dial"} =>
       /\ session[s] = "none" /\ toServer[s] = <<>> /\ toClient[s] = <<>>
       /\ Blank(s) /\ Untaken(s)
  /\ at[s] = "greeting" =>
       /\ session[s] \in {"backlog", "accepted", "greet", "command", "ended"}
       /\ session[s] \in {"backlog", "accepted", "greet"} => toClient[s] = <<>>
       /\ toServer[s] = <<>>
       /\ Blank(s) /\ Untaken(s)

LoggingIn(s) ==
  /\ at[s] = "ehlo" =>
       /\ Asks(s, Cmd("EHLO", "")) \/ toServer[s] = <<>>
       /\ Blank(s) /\ Spoken(s) /\ Untaken(s)
  /\ at[s] = "auth" =>
       /\ transport.login # NoLogin
       /\ \/ Asks(s, Cmd("AUTH", transport.login)) /\ Blank(s)
          \/ /\ toServer[s] = <<>>
             /\ Hears(s, 235) => Holds(s, "", <<>>, transport.login) /\ LoginAccepted(transport.login)
       /\ Spoken(s) /\ Untaken(s)
  /\ at[s] \in {"abort", "leave"} =>
       /\ Asks(s, Cmd("*", "")) \/ Asks(s, Cmd("QUIT", "")) \/ toServer[s] = <<>>
       /\ Spoken(s) /\ Untaken(s)

Addressing(s) ==
  /\ at[s] = "mail" =>
       /\ \/ /\ Asks(s, Cmd("MAIL", From(s))) /\ Holds(s, "", <<>>, transport.login)
             /\ transport.login # NoLogin => LoginAccepted(transport.login)
          \/ /\ toServer[s] = <<>>
             /\ Hears(s, 250) => Admitted /\ Holds(s, From(s), <<>>, transport.login)
       /\ Spoken(s) /\ Untaken(s)
  /\ at[s] = "rcpt" =>
       /\ asked[s] \in 1..Len(To(s)) /\ Admitted
       /\ \/ /\ Asks(s, Cmd("RCPT", To(s)[asked[s]]))
             /\ Holds(s, From(s), SubSeq(To(s), 1, asked[s] - 1), transport.login)
          \/ /\ toServer[s] = <<>>
             /\ Hears(s, 250) => Holds(s, From(s), SubSeq(To(s), 1, asked[s]), transport.login)
       /\ Spoken(s) /\ ~Taken(s)

Delivering(s) ==
  /\ at[s] = "data" =>
       /\ Admitted /\ Holds(s, From(s), To(s), transport.login)
       /\ \/ Asks(s, Cmd("DATA", "")) /\ Spoken(s)
          \/ /\ toServer[s] = <<>>
             /\ Hears(s, 354) => session[s] = "data" /\ lines[s] = <<>>
       /\ session[s] \in {"command", "data", "ended"} /\ ~Taken(s)
  /\ at[s] = "dot" =>
       /\ session[s] \in {"command", "data", "ended"}
       /\ session[s] = "data" =>
            /\ Underway(s) /\ toClient[s] = <<>>
            /\ Admitted /\ Holds(s, From(s), To(s), transport.login)
            /\ ~Taken(s)
       /\ session[s] # "data" => toServer[s] = <<>> /\ (toClient[s] # <<>> => Taken(s))
  /\ at[s] = "quit" =>
       /\ Asks(s, Cmd("QUIT", "")) \/ toServer[s] = <<>>
       /\ Spoken(s) /\ Taken(s)

Phase(s) == Connecting(s) /\ LoggingIn(s) /\ Addressing(s) /\ Delivering(s)

Codes == {220, 221, 235, 250, 354, 500, 530, 535, 554}

(* One reply at most is under way, none on a broken connection; success is *)
(* reported for a message that was taken.                                  *)
Replies(s) ==
  /\ toClient[s] = <<>> \/ \E code \in Codes : Hears(s, code)
  /\ link[s] = "down" => toClient[s] = <<>>
  /\ sendmail[s] = "ok" => Taken(s)
  /\ result[s] = "ok" => Taken(s)

Delivered(s) ==
  [send |-> s, from |-> From(s), to |-> To(s), data |-> Lines(s), login |-> transport.login]

Captures ==
  /\ captured \in Seq({Delivered(s) : s \in Sends})
  /\ captured # <<>> => Admitted
  /\ \A i, j \in 1..Len(captured) : captured[i].send = captured[j].send => i = j

Domains ==
  DOMAIN toServer = Sends /\ DOMAIN toClient = Sends /\ DOMAIN envelope = Sends

IInv == TypeOK /\ Domains /\ Captures /\ \A s \in Sends : Phase(s) /\ Replies(s)
-----------------------------------------------------------------------------
(* Sequences of one element, and parts of a sequence. *)
LEMMA Single ==
  ASSUME NEW x
  PROVE  /\ <<x>> # <<>> /\ Head(<<x>>) = x /\ Tail(<<x>>) = <<>> /\ Len(<<x>>) = 1
         /\ Append(<<>>, x) = <<x>> /\ <<>> \o <<x>> = <<x>>
         /\ \A y : <<x>> = <<y>> => x = y
OBVIOUS

LEMMA EnvelopeParts ==
  ASSUME NEW f, NEW t, NEW l, NEW x, NEW y
  PROVE  /\ [[from |-> f, to |-> t, login |-> l] EXCEPT !.login = x] = [from |-> f, to |-> t, login |-> x]
         /\ [[from |-> f, to |-> t, login |-> l] EXCEPT !.to = x] = [from |-> f, to |-> x, login |-> l]
         /\ [[from |-> f, to |-> t, login |-> l] EXCEPT !.from = x] = [from |-> x, to |-> t, login |-> l]
OBVIOUS

LEMMA FirstPart ==
  ASSUME NEW S, NEW q \in Seq(S), NEW k \in 0..Len(q), k < Len(q)
  PROVE  Append(SubSeq(q, 1, k), q[k + 1]) = SubSeq(q, 1, k + 1)
OBVIOUS

LEMMA RestOf ==
  ASSUME NEW S, NEW q \in Seq(S), NEW k \in Nat, NEW n \in Nat, k < n, n <= Len(q)
  PROVE  /\ SubSeq(q, k + 1, n) # <<>>
         /\ Head(SubSeq(q, k + 1, n)) = q[k + 1]
         /\ Tail(SubSeq(q, k + 1, n)) = SubSeq(q, k + 2, n)
OBVIOUS

LEMMA NothingLeft ==
  ASSUME NEW S, NEW q \in Seq(S), NEW k \in 0..Len(q)
  PROVE  SubSeq(q, k + 1, k) = <<>>
OBVIOUS

LEMMA PartOfRest ==
  ASSUME NEW S, NEW q \in Seq(S), NEW k \in Nat, NEW n \in Nat, k <= n, n <= Len(q),
         NEW m \in 0..Len(SubSeq(q, k + 1, n))
  PROVE  /\ k + m \in k..n
         /\ SubSeq(SubSeq(q, k + 1, n), 1, m) = SubSeq(q, k + 1, k + m)
OBVIOUS

LEMMA WholePart ==
  ASSUME NEW S, NEW q \in Seq(S)
  PROVE  SubSeq(q, 1, 0) = <<>> /\ SubSeq(q, 1, Len(q)) = q /\ SubSeq(q, Len(q) + 1, Len(q)) = <<>>
OBVIOUS
-----------------------------------------------------------------------------
(* Doubling the leading dots and dropping them again gives the line back,  *)
(* and no line of the message is taken for its end.                        *)
LEMMA DotsKept ==
  ASSUME NEW l \in Line
  PROVE  Stuff(l) \in Line /\ Stuff(l) # Terminator /\ Unstuff(Stuff(l)) = l
<1>1. PICK n \in Nat, b \in BOOLEAN : l = [dots |-> n, text |-> b]
  BY DEF Line
<1>2. CASE n = 0
  <2>1. Stuff(l) = l /\ l.dots = 0
    BY <1>1, <1>2 DEF Stuff
  <2>2. Unstuff(l) = l /\ l # Terminator
    BY <2>1 DEF Unstuff, Terminator
  <2>3. QED
    BY <2>1, <2>2
<1>3. CASE n > 0
  <2>1. Stuff(l) = [dots |-> n + 1, text |-> b]
    BY <1>1, <1>3 DEF Stuff
  <2>2. Unstuff([dots |-> n + 1, text |-> b]) = [dots |-> n, text |-> b]
    BY <1>3 DEF Unstuff
  <2>3. [dots |-> n + 1, text |-> b] \in Line /\ [dots |-> n + 1, text |-> b] # Terminator
    BY <1>3 DEF Line, Terminator
  <2>4. QED
    BY <1>1, <2>1, <2>2, <2>3
<1>4. QED
  BY <1>1, <1>2, <1>3

LEMMA TerminatorLine == Terminator \in Line
BY DEF Terminator, Line

LEMMA FromFunction ==
  ASSUME NEW S, NEW n \in Nat, NEW f \in [1..n -> S]
  PROVE  f \in Seq(S) /\ Len(f) = n
OBVIOUS

LEMMA WhatIsWritten ==
  ASSUME NEW data \in Seq(Line)
  PROVE  /\ Written(data) \in Seq([verb : {""}, arg : Line])
         /\ Len(Written(data)) = Len(data) + 1
         /\ \A i \in 1..Len(data) : Written(data)[i] = Cmd("", Stuff(data[i]))
         /\ Written(data)[Len(data) + 1] = Cmd("", Terminator)
<1> DEFINE Item(i) == Cmd("", IF i <= Len(data) THEN Stuff(data[i]) ELSE Terminator)
<1>1. \A i \in 1..(Len(data) + 1) : Item(i) \in [verb : {""}, arg : Line]
  BY DotsKept, TerminatorLine DEF Cmd
<1>2. Written(data) = [i \in 1..(Len(data) + 1) |-> Item(i)] /\ Len(data) + 1 \in Nat
  BY DEF Written
<1>3. \A i \in 1..Len(data) : Item(i) = Cmd("", Stuff(data[i]))
  OBVIOUS
<1>4. Item(Len(data) + 1) = Cmd("", Terminator)
  <2>1. ~(Len(data) + 1 <= Len(data))
    OBVIOUS
  <2>2. QED
    BY <2>1, Zenon
<1> HIDE DEF Item
<1>5. Len(Written(data)) = Len(data) + 1 /\ Written(data) \in Seq([verb : {""}, arg : Line])
  <2>1. Written(data) \in [1..(Len(data) + 1) -> [verb : {""}, arg : Line]]
    BY <1>1, <1>2
  <2>2. QED
    BY <1>2, <2>1, FromFunction
<1>6. \A i \in 1..(Len(data) + 1) : Written(data)[i] = Item(i)
  BY <1>2
<1>7. Len(data) + 1 \in 1..(Len(data) + 1) /\ \A i \in 1..Len(data) : i \in 1..(Len(data) + 1)
  OBVIOUS
<1>8. QED
  BY <1>3, <1>4, <1>5, <1>6, <1>7, Zenon
-----------------------------------------------------------------------------
(* A call is disturbed only by what happens to its own connection.         *)
SameAt(t) ==
  /\ at'[t] = at[t] /\ asked'[t] = asked[t] /\ sendmail'[t] = sendmail[t] /\ result'[t] = result[t]
  /\ link'[t] = link[t] /\ toServer'[t] = toServer[t] /\ toClient'[t] = toClient[t]
  /\ session'[t] = session[t] /\ envelope'[t] = envelope[t] /\ lines'[t] = lines[t]
  /\ Taken(t)' <=> Taken(t)

LEMMA Undisturbed ==
  ASSUME NEW t \in Sends, Phase(t), Replies(t), UNCHANGED fixed, SameAt(t)
  PROVE  (Phase(t) /\ Replies(t))'
<1>1. UNCHANGED <<transport, server>>
  BY DEF fixed
<1>2. Admitted' = Admitted /\ \A l : LoginAccepted(l)' = LoginAccepted(l)
  BY <1>1 DEF Admitted, LoginAccepted
<1>3. Connecting(t)'
  BY DEF Phase, Connecting, SameAt, Blank, Holds, Untaken
<1>4. LoggingIn(t)'
  BY <1>1, <1>2 DEF Phase, LoggingIn, SameAt, Blank, Holds, Untaken, Spoken, Asks, Hears, Cmd
<1>5. Addressing(t)'
  BY ZenonT(60), <1>1, <1>2 DEF Phase, Addressing, SameAt, Holds, Untaken, Spoken, Asks, Hears, Cmd
<1>6. Delivering(t)'
  BY ZenonT(60), <1>1, <1>2 DEF Phase, Delivering, SameAt, Holds, Spoken, Asks, Hears, Underway
<1>7. Replies(t)'
  BY DEF Replies, SameAt, Hears
<1>8. QED
  BY <1>3, <1>4, <1>5, <1>6, <1>7 DEF Phase

LEMMA OneDisturbed ==
  ASSUME IInv, UNCHANGED fixed, NEW s \in Sends,
         TypeOK', Domains', Captures', \A t \in Sends \ {s} : SameAt(t),
         (Phase(s) /\ Replies(s))'
  PROVE  IInv'
<1>1. \A t \in Sends \ {s} : (Phase(t) /\ Replies(t))'
  BY Undisturbed DEF IInv
<1>2. QED
  BY <1>1 DEF IInv
-----------------------------------------------------------------------------
LEMMA InitLockstep == Init => IInv
<1> SUFFICES ASSUME Init PROVE IInv
  OBVIOUS
<1>1. TypeOK
  <2>1. \E setting \in Settings : transport = setting.transport /\ server = setting.server
    BY DEF Init
  <2>2. lines \in [Sends -> Seq(Line)]
    BY DEF Init
  <2>3. QED
    BY <2>1, <2>2 DEF Init, TypeOK, Early, Late, Open, Troubles
<1>2. Domains
  BY DEF Init, Domains
<1>3. Captures
  BY DEF Init, Captures
<1>4. ASSUME NEW s \in Sends
      PROVE  Phase(s) /\ Replies(s)
  <2>1. at[s] = "idle" /\ session[s] = "none" /\ toServer[s] = <<>> /\ toClient[s] = <<>>
        /\ envelope[s] = NoEnvelope /\ asked[s] = 0 /\ link[s] = "none"
        /\ sendmail[s] = "none" /\ result[s] = "none"
    BY DEF Init
  <2>2. ~Taken(s)
    BY DEF Init, Taken
  <2>3. QED
    BY <2>1, <2>2 DEF Phase, Connecting, LoggingIn, Addressing, Delivering, Replies,
       Blank, Holds, Untaken, NoEnvelope
<1>5. QED
  BY <1>1, <1>2, <1>3, <1>4 DEF IInv

(* The server reads a command: it is the one SendMail has just written.    *)
JustWritten(s) ==
  \/ at[s] = "ehlo" /\ toServer[s] = <<Cmd("EHLO", "")>>
  \/ at[s] = "auth" /\ toServer[s] = <<Cmd("AUTH", transport.login)>>
  \/ at[s] \in {"abort", "leave"} /\ toServer[s] = <<Cmd("*", "")>>
  \/ at[s] \in {"abort", "leave"} /\ toServer[s] = <<Cmd("QUIT", "")>>
  \/ at[s] = "mail" /\ toServer[s] = <<Cmd("MAIL", From(s))>>
  \/ at[s] = "rcpt" /\ toServer[s] = <<Cmd("RCPT", To(s)[asked[s]])>>
  \/ at[s] = "data" /\ toServer[s] = <<Cmd("DATA", "")>>
  \/ at[s] = "quit" /\ toServer[s] = <<Cmd("QUIT", "")>>

LEMMA ReadCommand ==
  ASSUME IInv, NEW s \in Sends, Read(s, "command")
  PROVE  /\ session[s] = "command" /\ toClient[s] = <<>>
         /\ toServer' = [toServer EXCEPT ![s] = <<>>]
         /\ JustWritten(s)
<1>1. session[s] = "command" /\ toServer[s] # <<>> /\ toServer' = [toServer EXCEPT ![s] = Tail(@)]
  BY DEF Read
<1>2. at[s] \in Early \cup Late /\ Phase(s)
  BY DEF IInv, TypeOK
<1>3. toClient[s] = <<>> /\ JustWritten(s)
  BY <1>1, <1>2 DEF Phase, Connecting, LoggingIn, Addressing, Delivering, Asks, Early, Late, JustWritten
<1>4. \E item : toServer[s] = <<item>>
  BY <1>3 DEF JustWritten
<1>5. Tail(toServer[s]) = <<>>
  BY <1>4, Single
<1>6. QED
  BY <1>1, <1>3, <1>5

LEMMA Parts ==
  ASSUME NEW verb, NEW arg
  PROVE  Head(<<Cmd(verb, arg)>>).verb = verb /\ Head(<<Cmd(verb, arg)>>).arg = arg
BY DEF Cmd

LEMMA WhichCommand ==
  ASSUME IInv, NEW s \in Sends, NEW verb, Command(s, verb)
  PROVE  /\ verb = "EHLO" => at[s] = "ehlo"
         /\ verb = "AUTH" => at[s] = "auth" /\ Argument(s) = transport.login
         /\ verb = "MAIL" => at[s] = "mail" /\ Argument(s) = From(s)
         /\ verb = "RCPT" => at[s] = "rcpt" /\ Argument(s) = To(s)[asked[s]]
         /\ verb = "DATA" => at[s] = "data"
         /\ verb = "QUIT" => at[s] \in {"abort", "leave", "quit"}
         /\ verb = "*"    => at[s] \in {"abort", "leave"}
<1>1. Read(s, "command") /\ Head(toServer[s]).verb = verb
  BY DEF Command
<1>2. \A v, a : toServer[s] = <<Cmd(v, a)>> => verb = v /\ Argument(s) = a
  BY <1>1, Parts DEF Argument
<1>3. \/ at[s] = "ehlo" /\ verb = "EHLO"
      \/ at[s] = "auth" /\ verb = "AUTH" /\ Argument(s) = transport.login
      \/ at[s] \in {"abort", "leave"} /\ verb = "*"
      \/ at[s] \in {"abort", "leave"} /\ verb = "QUIT"
      \/ at[s] = "mail" /\ verb = "MAIL" /\ Argument(s) = From(s)
      \/ at[s] = "rcpt" /\ verb = "RCPT" /\ Argument(s) = To(s)[asked[s]]
      \/ at[s] = "data" /\ verb = "DATA"
      \/ at[s] = "quit" /\ verb = "QUIT"
  <2>1. JustWritten(s)
    BY <1>1, ReadCommand
  <2>2. QED
    BY <1>2, <2>1, Zenon DEF JustWritten
<1>4. QED
  BY <1>3

(* A reply arrives, or is lost on a broken connection. *)
LEMMA ReplyArrives ==
  ASSUME IInv, NEW s \in Sends, toClient[s] = <<>>, NEW code \in Codes, Reply(s, code)
  PROVE  /\ DOMAIN toClient' = Sends
         /\ \A t \in Sends \ {s} : toClient'[t] = toClient[t]
         /\ toClient'[s] = <<>> \/ toClient'[s] = <<code>>
         /\ link[s] = "down" => toClient'[s] = <<>>
<1>1. DOMAIN toClient = Sends
  BY DEF IInv, Domains
<1>2. CASE link[s] = "down"
  BY <1>1, <1>2 DEF Reply
<1>3. CASE link[s] # "down"
  <2>1. toClient' = [toClient EXCEPT ![s] = <<code>>]
    BY <1>3, Single DEF Reply
  <2>2. QED
    BY <1>1, <1>3, <2>1
<1>4. QED
  BY <1>2, <1>3
-----------------------------------------------------------------------------
(* Nothing captured, nothing changed about what was. *)
LEMMA CapturesKept ==
  ASSUME Captures, UNCHANGED <<fixed, captured>>
  PROVE  Captures' /\ Admitted' = Admitted /\ \A s : Taken(s)' <=> Taken(s)
<1>1. UNCHANGED <<transport, server, captured>>
  BY DEF fixed
<1>2. Admitted' = Admitted
  BY <1>1 DEF Admitted, LoginAccepted
<1>3. \A s : Delivered(s)' = Delivered(s)
  BY <1>1 DEF Delivered
<1>4. {Delivered(s) : s \in Sends}' = {Delivered(s) : s \in Sends}
  BY <1>3
<1>5. QED
  BY <1>1, <1>2, <1>4 DEF Captures, Taken

(* What is common to the replies to a command. *)
LEMMA CommandRead ==
  ASSUME IInv, NEW s \in Sends, Read(s, "command"), NEW code \in Codes, Handled(s, code),
         UNCHANGED captured
  PROVE  /\ UNCHANGED <<fixed, transport, server, at, asked, sendmail, result, ended, link>>
         /\ UNCHANGED <<closer, reclosed, serving, troubles>>
         /\ toServer' = [toServer EXCEPT ![s] = <<>>] /\ toServer'[s] = <<>>
         /\ Captures' /\ Admitted' = Admitted /\ \A t : Taken(t)' <=> Taken(t)
         /\ DOMAIN toClient' = Sends
         /\ \A t \in Sends \ {s} : toClient'[t] = toClient[t]
         /\ toClient'[s] = <<>> \/ toClient'[s] = <<code>>
         /\ link[s] = "down" => toClient'[s] = <<>>
<1>1. /\ UNCHANGED <<fixed, transport, server, at, asked, sendmail, result, ended, link>>
      /\ UNCHANGED <<closer, reclosed, serving, troubles>>
      /\ Reply(s, code)
  BY DEF Handled, fixed, client, caller, life
<1>2. toServer' = [toServer EXCEPT ![s] = <<>>] /\ toClient[s] = <<>>
  BY ReadCommand
<1>3. toServer'[s] = <<>>
  BY <1>2 DEF IInv, Domains
<1>4. QED
  BY <1>1, <1>2, <1>3, ReplyArrives, CapturesKept DEF IInv

LEMMA CommandHandled ==
  ASSUME IInv, NEW s \in Sends, Read(s, "command"), NEW code \in Codes, Handled(s, code),
         UNCHANGED captured,
         DOMAIN envelope' = Sends, \A t \in Sends \ {s} : envelope'[t] = envelope[t],
         session' \in [Sends -> {"none", "backlog", "accepted", "ended"} \cup Open],
         \A t \in Sends \ {s} : session'[t] = session[t],
         lines' \in [Sends -> Seq(Line)], \A t \in Sends \ {s} : lines'[t] = lines[t],
         Phase(s)'
  PROVE  IInv'
<1>1. /\ UNCHANGED <<fixed, transport, server, at, asked, sendmail, result, ended, link>>
      /\ UNCHANGED <<closer, reclosed, serving, troubles>>
      /\ toServer' = [toServer EXCEPT ![s] = <<>>]
      /\ Captures' /\ \A t : Taken(t)' <=> Taken(t)
      /\ DOMAIN toClient' = Sends
      /\ \A t \in Sends \ {s} : toClient'[t] = toClient[t]
      /\ toClient'[s] = <<>> \/ toClient'[s] = <<code>>
      /\ link[s] = "down" => toClient'[s] = <<>>
  BY CommandRead
<1>2. TypeOK'
  BY <1>1 DEF IInv, TypeOK
<1>3. Domains'
  BY <1>1 DEF IInv, Domains
<1>4. \A t \in Sends \ {s} : SameAt(t)
  BY <1>1 DEF SameAt, IInv, Domains
<1>5. Replies(s)'
  BY <1>1 DEF IInv, Replies, Hears
<1>6. QED
  BY <1>1, <1>2, <1>3, <1>4, <1>5, OneDisturbed

LEMMA SessionTypes ==
  ASSUME IInv
  PROVE  /\ DOMAIN envelope = Sends /\ DOMAIN toServer = Sends /\ DOMAIN toClient = Sends
         /\ lines \in [Sends -> Seq(Line)]
         /\ session \in [Sends -> {"none", "backlog", "accepted", "ended"} \cup Open]
         /\ {220, 221, 235, 250, 354, 500, 530, 535, 554} \subseteq Codes
BY DEF IInv, Domains, TypeOK, Codes

LEMMA EhloKeeps ==
  ASSUME IInv, NEW s \in Sends, Ehlo(s)
  PROVE  IInv'
<1>1. Read(s, "command") /\ Handled(s, 250) /\ UNCHANGED <<session, envelope, lines, captured>>
  BY DEF Ehlo, Command, handler
<1>2. at[s] = "ehlo"
  BY WhichCommand DEF Ehlo
<1>3. UNCHANGED <<at, asked>> /\ toServer'[s] = <<>> /\ (Taken(s)' <=> Taken(s))
  BY <1>1, CommandRead, SessionTypes
<1>4. Phase(s)'
  BY <1>1, <1>2, <1>3 DEF IInv, Phase, Connecting, LoggingIn, Addressing, Delivering,
     Blank, Holds, Spoken, Untaken
<1>5. QED
  BY <1>1, <1>4, SessionTypes, CommandHandled

LEMMA AuthKeeps ==
  ASSUME IInv, NEW s \in Sends, Auth(s)
  PROVE  IInv'
<1>1. Read(s, "command") /\ UNCHANGED <<session, lines, captured>>
      /\ \/ /\ LoginAccepted(Argument(s)) /\ Handled(s, 235)
            /\ envelope' = [envelope EXCEPT ![s].login = Argument(s)]
         \/ Handled(s, 535) /\ UNCHANGED envelope
  BY DEF Auth, Command
<1>2. at[s] = "auth" /\ Argument(s) = transport.login
  BY WhichCommand DEF Auth
<1>3. Blank(s) /\ Spoken(s) /\ Untaken(s) /\ transport.login # NoLogin
  <2>1. toServer[s] # <<>> /\ Phase(s)
    BY <1>1 DEF Read, IInv
  <2>2. QED
    BY <1>2, <2>1 DEF Phase, LoggingIn
<1>4. CASE Handled(s, 235) /\ LoginAccepted(transport.login)
           /\ envelope' = [envelope EXCEPT ![s].login = transport.login]
  <2>1. UNCHANGED <<transport, server, at, asked>> /\ toServer'[s] = <<>> /\ (Taken(s)' <=> Taken(s))
    BY <1>1, <1>4, CommandRead, SessionTypes
  <2>2. Holds(s, "", <<>>, transport.login)'
    <3>1. envelope'[s] = [envelope[s] EXCEPT !.login = transport.login]
      BY <1>4, SessionTypes
    <3>2. envelope[s] = [from |-> "", to |-> <<>>, login |-> NoLogin]
      BY <1>3 DEF Blank, Holds
    <3>3. transport' = transport
      BY <2>1
    <3>4. QED
      <4>1. envelope'[s] = [[from |-> "", to |-> <<>>, login |-> NoLogin] EXCEPT !.login = transport.login]
        BY <3>1, <3>2, Zenon
      <4>2. envelope'[s] = [from |-> "", to |-> <<>>, login |-> transport.login]
        BY <4>1, EnvelopeParts, Zenon
      <4>3. QED
        BY <3>3, <4>2 DEF Holds
  <2>3. Phase(s)'
    BY <1>1, <1>2, <1>3, <1>4, <2>1, <2>2 DEF Phase, Connecting, LoggingIn, Addressing, Delivering,
       Spoken, Untaken, LoginAccepted, Holds, Hears
  <2>4. QED
    BY <1>1, <1>4, <2>3, SessionTypes, CommandHandled
<1>5. CASE Handled(s, 535) /\ UNCHANGED envelope
  <2>1. UNCHANGED <<transport, server, at, asked>> /\ toServer'[s] = <<>> /\ (Taken(s)' <=> Taken(s))
    BY <1>1, <1>5, CommandRead, SessionTypes
  <2>2. toClient'[s] # <<235>>
    <3>1. toClient'[s] = <<>> \/ toClient'[s] = <<535>>
      BY <1>1, <1>5, CommandRead, SessionTypes
    <3>2. QED
      <4>1. CASE toClient'[s] = <<>>
        BY <4>1, Single
      <4>2. CASE toClient'[s] = <<535>>
        BY <4>2, Single
      <4>3. QED
        BY <3>1, <4>1, <4>2
  <2>3. Phase(s)'
    BY <1>1, <1>2, <1>3, <1>5, <2>1, <2>2 DEF Phase, Connecting, LoggingIn, Addressing, Delivering,
       Spoken, Untaken, Hears
  <2>4. QED
    BY <1>1, <1>5, <2>3, SessionTypes, CommandHandled
<1>6. QED
  BY <1>1, <1>2, <1>4, <1>5

LEMMA OtherReply ==
  ASSUME NEW q, NEW code, NEW other, q = <<>> \/ q = <<code>>, code # other
  PROVE  q # <<other>>
<1>1. CASE q = <<>>
  BY <1>1, Single
<1>2. CASE q = <<code>>
  BY <1>2, Single
<1>3. QED
  BY <1>1, <1>2

LEMMA MailKeeps ==
  ASSUME IInv, NEW s \in Sends, Mail(s)
  PROVE  IInv'
<1>1. Read(s, "command") /\ UNCHANGED <<session, lines, captured>>
      /\ \/ /\ server.requireAuth /\ envelope[s].login = NoLogin
            /\ Handled(s, 530) /\ UNCHANGED envelope
         \/ /\ ~(server.requireAuth /\ envelope[s].login = NoLogin) /\ Handled(s, 250)
            /\ envelope' = [envelope EXCEPT ![s].from = Argument(s), ![s].to = <<>>]
  BY DEF Mail, Command
<1>2. at[s] = "mail" /\ Argument(s) = From(s)
  BY WhichCommand DEF Mail
<1>3. /\ Holds(s, "", <<>>, transport.login) /\ Spoken(s) /\ Untaken(s)
      /\ transport.login # NoLogin => LoginAccepted(transport.login)
  <2>1. toServer[s] # <<>> /\ Phase(s)
    BY <1>1 DEF Read, IInv
  <2>2. QED
    BY <1>2, <2>1 DEF Phase, Addressing
<1>4. CASE /\ ~(server.requireAuth /\ envelope[s].login = NoLogin) /\ Handled(s, 250)
           /\ envelope' = [envelope EXCEPT ![s].from = Argument(s), ![s].to = <<>>]
  <2>1. UNCHANGED <<transport, server, at, asked>> /\ toServer'[s] = <<>> /\ (Taken(s)' <=> Taken(s))
        /\ Admitted' = Admitted
    BY <1>1, <1>4, CommandRead, SessionTypes
  <2>2. Holds(s, From(s), <<>>, transport.login)'
    <3>1. envelope'[s] = [envelope[s] EXCEPT !.from = From(s), !.to = <<>>]
      BY <1>2, <1>4, SessionTypes
    <3>2. envelope[s] = [from |-> "", to |-> <<>>, login |-> transport.login]
      BY <1>3 DEF Holds
    <3>3. envelope'[s] = [[from |-> "", to |-> <<>>, login |-> transport.login]
                             EXCEPT !.from = From(s), !.to = <<>>]
      BY <3>1, <3>2, Zenon
    <3>4. envelope'[s] = [from |-> From(s), to |-> <<>>, login |-> transport.login]
      BY <3>3, EnvelopeParts, Zenon
    <3>5. QED
      BY <2>1, <3>4 DEF Holds, From
  <2>3. Admitted
    <3>1. envelope[s].login = transport.login
      <4>1. [from |-> "", to |-> <<>>, login |-> transport.login].login = transport.login
        OBVIOUS
      <4>2. QED
        BY <1>3, <4>1, Zenon DEF Holds
    <3>2. QED
      BY <1>3, <1>4, <3>1 DEF Admitted
  <2>4. Phase(s)'
    BY <1>1, <1>2, <1>3, <2>1, <2>2, <2>3 DEF Phase, Connecting, LoggingIn, Addressing, Delivering,
       Spoken, Untaken, Hears
  <2>5. QED
    BY SMTT(30), <1>1, <1>4, <2>4, SessionTypes, CommandHandled
<1>5. CASE Handled(s, 530) /\ UNCHANGED envelope
  <2>1. UNCHANGED <<transport, server, at, asked>> /\ toServer'[s] = <<>> /\ (Taken(s)' <=> Taken(s))
    BY <1>1, <1>5, CommandRead, SessionTypes
  <2>2. toClient'[s] = <<>> \/ toClient'[s] = <<530>>
    BY <1>1, <1>5, CommandRead, SessionTypes
  <2>3. toClient'[s] # <<250>>
    BY <2>2, OtherReply
  <2>4. Phase(s)'
    BY <1>1, <1>2, <1>3, <2>1, <2>3 DEF Phase, Connecting, LoggingIn, Addressing, Delivering,
       Spoken, Untaken, Hears
  <2>5. QED
    BY <1>1, <1>5, <2>4, SessionTypes, CommandHandled
<1>6. QED
  BY <1>1, <1>4, <1>5

LEMMA RcptKeeps ==
  ASSUME IInv, NEW s \in Sends, Rcpt(s)
  PROVE  IInv'
<1>1. Read(s, "command") /\ Handled(s, 250) /\ UNCHANGED <<session, lines, captured>>
      /\ envelope' = [envelope EXCEPT ![s].to = Append(@, Argument(s))]
  BY DEF Rcpt, Command
<1>2. at[s] = "rcpt" /\ Argument(s) = To(s)[asked[s]]
  BY WhichCommand DEF Rcpt
<1>3. /\ Holds(s, From(s), SubSeq(To(s), 1, asked[s] - 1), transport.login)
      /\ Spoken(s) /\ ~Taken(s) /\ Admitted /\ asked[s] \in 1..Len(To(s))
  <2>1. toServer[s] # <<>> /\ Phase(s)
    BY <1>1 DEF Read, IInv
  <2>2. QED
    BY <1>2, <2>1 DEF Phase, Addressing
<1>4. UNCHANGED <<transport, server, at, asked>> /\ toServer'[s] = <<>> /\ (Taken(s)' <=> Taken(s))
      /\ Admitted' = Admitted
  BY <1>1, CommandRead, SessionTypes
<1>5. Holds(s, From(s), SubSeq(To(s), 1, asked[s]), transport.login)'
  <2>1. envelope'[s] = [envelope[s] EXCEPT !.to = Append(envelope[s].to, Argument(s))]
    BY <1>1, SessionTypes
  <2>2. envelope[s] = [from |-> From(s), to |-> SubSeq(To(s), 1, asked[s] - 1), login |-> transport.login]
    BY <1>3 DEF Holds
  <2>3. Append(envelope[s].to, Argument(s)) = SubSeq(To(s), 1, asked[s])
    <3>1. envelope[s].to = SubSeq(To(s), 1, asked[s] - 1)
      <4>1. [from |-> From(s), to |-> SubSeq(To(s), 1, asked[s] - 1), login |-> transport.login].to
              = SubSeq(To(s), 1, asked[s] - 1)
        OBVIOUS
      <4>2. QED
        BY <2>2, <4>1, Zenon
    <3>2. To(s) \in Seq(Addresses)
      BY DialogueAssumption DEF To
    <3>3. asked[s] - 1 \in 0..Len(To(s)) /\ asked[s] - 1 < Len(To(s)) /\ asked[s] - 1 + 1 = asked[s]
      BY <1>3, <3>2
    <3>4. Append(SubSeq(To(s), 1, asked[s] - 1), To(s)[asked[s] - 1 + 1]) = SubSeq(To(s), 1, asked[s] - 1 + 1)
      BY <3>2, <3>3, FirstPart
    <3>5. QED
      BY <1>2, <3>1, <3>3, <3>4, Zenon
  <2>4. envelope'[s] = [[from |-> From(s), to |-> SubSeq(To(s), 1, asked[s] - 1), login |-> transport.login]
                           EXCEPT !.to = SubSeq(To(s), 1, asked[s])]
    BY <2>1, <2>2, <2>3, Zenon
  <2>5. envelope'[s] = [from |-> From(s), to |-> SubSeq(To(s), 1, asked[s]), login |-> transport.login]
    BY <2>4, EnvelopeParts, Zenon
  <2>6. QED
    BY <1>4, <2>5 DEF Holds, From, To
<1>6. Phase(s)'
  BY <1>1, <1>2, <1>3, <1>4, <1>5 DEF Phase, Connecting, LoggingIn, Addressing, Delivering,
     Spoken, Hears, To
<1>7. QED
  BY <1>1, <1>6, SessionTypes, CommandHandled

LEMMA DataKeeps ==
  ASSUME IInv, NEW s \in Sends, Data(s)
  PROVE  IInv'
<1>1. Read(s, "command") /\ UNCHANGED <<envelope, captured>> /\ session[s] = "command"
      /\ \/ Handled(s, 554) /\ UNCHANGED <<session, lines>>
         \/ /\ Handled(s, 354)
            /\ session' = [session EXCEPT ![s] = "data"]
            /\ lines' = [lines EXCEPT ![s] = <<>>]
  BY DEF Data, Command, Read
<1>2. at[s] = "data"
  BY WhichCommand DEF Data
<1>3. Holds(s, From(s), To(s), transport.login) /\ Spoken(s) /\ ~Taken(s) /\ Admitted
  <2>1. toServer[s] # <<>> /\ Phase(s)
    BY <1>1 DEF Read, IInv
  <2>2. QED
    BY <1>2, <2>1 DEF Phase, Delivering
<1>4. CASE /\ Handled(s, 354)
           /\ session' = [session EXCEPT ![s] = "data"]
           /\ lines' = [lines EXCEPT ![s] = <<>>]
  <2>1. UNCHANGED <<transport, server, at, asked>> /\ toServer'[s] = <<>> /\ (Taken(s)' <=> Taken(s))
        /\ Admitted' = Admitted
    BY <1>1, <1>4, CommandRead, SessionTypes
  <2>2. session'[s] = "data" /\ lines'[s] = <<>>
    BY <1>4, SessionTypes
  <2>3. Phase(s)'
    BY <1>1, <1>2, <1>3, <2>1, <2>2 DEF Phase, Connecting, LoggingIn, Addressing, Delivering, Holds,
       From, To
  <2>4. /\ lines' \in [Sends -> Seq(Line)] /\ \A t \in Sends \ {s} : lines'[t] = lines[t]
        /\ session' \in [Sends -> {"none", "backlog", "accepted", "ended"} \cup Open]
        /\ \A t \in Sends \ {s} : session'[t] = session[t]
    BY <1>4, SessionTypes DEF Open
  <2>5. QED
    BY <1>1, <1>4, <2>3, <2>4, SessionTypes, CommandHandled
<1>5. CASE Handled(s, 554) /\ UNCHANGED <<session, lines>>
  <2>1. UNCHANGED <<transport, server, at, asked>> /\ toServer'[s] = <<>> /\ (Taken(s)' <=> Taken(s))
        /\ Admitted' = Admitted
    BY <1>1, <1>5, CommandRead, SessionTypes
  <2>2. toClient'[s] = <<>> \/ toClient'[s] = <<554>>
    BY <1>1, <1>5, CommandRead, SessionTypes
  <2>3. toClient'[s] # <<354>>
    BY <2>2, OtherReply
  <2>4. Phase(s)'
    BY <1>1, <1>2, <1>3, <1>5, <2>1, <2>3 DEF Phase, Connecting, LoggingIn, Addressing, Delivering,
       Holds, Spoken, Hears, From, To
  <2>5. QED
    BY <1>1, <1>5, <2>4, SessionTypes, CommandHandled
<1>6. QED
  BY <1>1, <1>4, <1>5

LEMMA QuitKeeps ==
  ASSUME IInv, NEW s \in Sends, Quit(s)
  PROVE  IInv'
<1>1. Read(s, "command") /\ Handled(s, 221) /\ UNCHANGED <<envelope, lines, captured>>
      /\ session' = [session EXCEPT ![s] = "ended"]
  BY DEF Quit, Command
<1>2. at[s] \in {"abort", "leave", "quit"}
  BY WhichCommand DEF Quit
<1>3. UNCHANGED <<at, asked>> /\ toServer'[s] = <<>> /\ (Taken(s)' <=> Taken(s))
  BY <1>1, CommandRead, SessionTypes
<1>4. session'[s] = "ended" /\ \A t \in Sends \ {s} : session'[t] = session[t]
  BY <1>1, SessionTypes
<1>5. session' \in [Sends -> {"none", "backlog", "accepted", "ended"} \cup Open]
  BY <1>1, SessionTypes
<1>6. Phase(s)'
  BY <1>1, <1>2, <1>3, <1>4 DEF IInv, Phase, Connecting, LoggingIn, Addressing, Delivering, Spoken, Untaken
<1>7. QED
  BY <1>1, <1>4, <1>5, <1>6, SessionTypes, CommandHandled

LEMMA UnrecognizedKeeps ==
  ASSUME IInv, NEW s \in Sends, Unrecognized(s)
  PROVE  IInv'
<1>1. Read(s, "command") /\ Handled(s, 500) /\ UNCHANGED <<session, envelope, lines, captured>>
  BY DEF Unrecognized, Command, handler
<1>2. at[s] \in {"abort", "leave"}
  BY WhichCommand DEF Unrecognized
<1>3. UNCHANGED <<at, asked>> /\ toServer'[s] = <<>> /\ (Taken(s)' <=> Taken(s))
  BY <1>1, CommandRead, SessionTypes
<1>4. Phase(s)'
  BY <1>1, <1>2, <1>3 DEF IInv, Phase, Connecting, LoggingIn, Addressing, Delivering, Spoken, Untaken
<1>5. QED
  BY <1>1, <1>4, SessionTypes, CommandHandled
-----------------------------------------------------------------------------
(* The server's steps that read no command. *)
LEMMA GreetKeeps ==
  ASSUME IInv, NEW s \in Sends, Greet(s)
  PROVE  IInv'
<1>1. /\ session[s] = "greet" /\ session' = [session EXCEPT ![s] = "command"] /\ Reply(s, 220)
      /\ UNCHANGED <<fixed, transport, server, at, asked, sendmail, result, ended, link, toServer,
                     envelope, lines, captured, closer, reclosed, serving, troubles>>
  BY DEF Greet, Handled, fixed, client, caller, life
<1>2. at[s] = "greeting" /\ toClient[s] = <<>>
  <2>1. at[s] \in Early \cup Late /\ Phase(s)
    BY DEF IInv, TypeOK
  <2>2. at[s] = "greeting"
    BY <1>1, <2>1 DEF Phase, Connecting, LoggingIn, Addressing, Delivering, Spoken, Early, Late
  <2>3. QED
    BY <1>1, <2>1, <2>2 DEF Phase, Connecting
<1>3. /\ DOMAIN toClient' = Sends
      /\ \A t \in Sends \ {s} : toClient'[t] = toClient[t]
      /\ toClient'[s] = <<>> \/ toClient'[s] = <<220>>
      /\ link[s] = "down" => toClient'[s] = <<>>
  BY <1>1, <1>2, ReplyArrives, SessionTypes
<1>4. session'[s] = "command" /\ \A t \in Sends \ {s} : session'[t] = session[t]
  BY <1>1, SessionTypes
<1>5. TypeOK' /\ Domains'
  BY <1>1, <1>3 DEF IInv, TypeOK, Domains, Open
<1>6. Captures' /\ \A t : Taken(t)' <=> Taken(t)
  BY <1>1, CapturesKept DEF IInv
<1>7. \A t \in Sends \ {s} : SameAt(t)
  BY <1>1, <1>3, <1>4, <1>6 DEF SameAt
<1>8. Phase(s)'
  BY <1>1, <1>2, <1>4, <1>6 DEF IInv, Phase, Connecting, LoggingIn, Addressing, Delivering,
     Blank, Holds, Untaken
<1>9. Replies(s)'
  BY <1>1, <1>3, <1>6, SessionTypes DEF IInv, Replies, Hears
<1>10. QED
  BY <1>1, <1>5, <1>6, <1>7, <1>8, <1>9, OneDisturbed

LEMMA AcceptKeeps ==
  ASSUME IInv, NEW s \in Sends, Accept(s)
  PROVE  IInv'
<1>1. /\ session[s] = "backlog" /\ session' = [session EXCEPT ![s] = "accepted"]
      /\ UNCHANGED <<fixed, transport, server, at, asked, sendmail, result, ended, link, toServer,
                     toClient, envelope, lines, captured, closer, reclosed, serving, troubles>>
  BY DEF Accept, fixed, client, caller, network, life
<1>2. session'[s] = "accepted" /\ \A t \in Sends \ {s} : session'[t] = session[t]
  BY <1>1, SessionTypes
<1>3. TypeOK' /\ Domains'
  BY <1>1 DEF IInv, TypeOK, Domains, Open
<1>4. Captures' /\ \A t : Taken(t)' <=> Taken(t)
  BY <1>1, CapturesKept DEF IInv
<1>5. \A t \in Sends \ {s} : SameAt(t)
  BY <1>1, <1>2, <1>4 DEF SameAt
<1>6. at[s] = "greeting" /\ Phase(s) /\ Replies(s)
  <2>1. at[s] \in Early \cup Late /\ Phase(s)
    BY DEF IInv, TypeOK
  <2>2. QED
    BY <1>1, <2>1 DEF IInv, Phase, Connecting, LoggingIn, Addressing, Delivering, Spoken, Early, Late
<1>7. Phase(s)'
  BY <1>1, <1>2, <1>4, <1>6 DEF Phase, Connecting, LoggingIn, Addressing, Delivering, Blank, Holds, Untaken
<1>8. Replies(s)'
  BY <1>1, <1>4, <1>6 DEF Replies, Hears
<1>9. QED
  BY <1>1, <1>3, <1>4, <1>5, <1>7, <1>8, OneDisturbed

LEMMA StartHandlerKeeps ==
  ASSUME IInv, NEW s \in Sends, StartHandler(s)
  PROVE  IInv'
<1>1. /\ session[s] = "accepted" /\ session' = [session EXCEPT ![s] = "greet"]
      /\ UNCHANGED <<fixed, transport, server, at, asked, sendmail, result, ended, link, toServer,
                     toClient, envelope, lines, captured, closer, reclosed, serving, troubles>>
  BY DEF StartHandler, fixed, client, caller, network, life
<1>2. session'[s] = "greet" /\ \A t \in Sends \ {s} : session'[t] = session[t]
  BY <1>1, SessionTypes
<1>3. TypeOK' /\ Domains'
  BY <1>1 DEF IInv, TypeOK, Domains, Open
<1>4. Captures' /\ \A t : Taken(t)' <=> Taken(t)
  BY <1>1, CapturesKept DEF IInv
<1>5. \A t \in Sends \ {s} : SameAt(t)
  BY <1>1, <1>2, <1>4 DEF SameAt
<1>6. at[s] = "greeting" /\ Phase(s) /\ Replies(s)
  <2>1. at[s] \in Early \cup Late /\ Phase(s)
    BY DEF IInv, TypeOK
  <2>2. QED
    BY <1>1, <2>1 DEF IInv, Phase, Connecting, LoggingIn, Addressing, Delivering, Spoken, Early, Late
<1>7. Phase(s)'
  BY <1>1, <1>2, <1>4, <1>6 DEF Phase, Connecting, LoggingIn, Addressing, Delivering, Blank, Holds, Untaken
<1>8. Replies(s)'
  BY <1>1, <1>4, <1>6 DEF Replies, Hears
<1>9. QED
  BY <1>1, <1>3, <1>4, <1>5, <1>7, <1>8, OneDisturbed

LEMMA HangUpKeeps ==
  ASSUME IInv, NEW s \in Sends, HangUp(s)
  PROVE  IInv'
<1>1. /\ session[s] \in Open /\ link[s] = "down" /\ toServer[s] = <<>>
      /\ session' = [session EXCEPT ![s] = "ended"]
      /\ UNCHANGED <<fixed, transport, server, at, asked, sendmail, result, ended, link, toServer,
                     toClient, envelope, lines, captured, closer, reclosed, serving, troubles>>
  BY DEF HangUp, EndSession, fixed, client, caller, network, life
<1>2. session'[s] = "ended" /\ \A t \in Sends \ {s} : session'[t] = session[t]
  BY <1>1, SessionTypes
<1>3. TypeOK' /\ Domains'
  BY <1>1 DEF IInv, TypeOK, Domains
<1>4. Captures' /\ Admitted' = Admitted /\ \A t : Taken(t)' <=> Taken(t)
  BY <1>1, CapturesKept DEF IInv
<1>5. \A t \in Sends \ {s} : SameAt(t)
  BY <1>1, <1>2, <1>4 DEF SameAt
<1>6. toClient[s] = <<>> /\ Phase(s) /\ Replies(s)
  BY <1>1 DEF IInv, Replies
<1>7. Phase(s)'
  <2>1. \A item : ~Asks(s, item)
    BY <1>1, Single DEF Asks
  <2>2. \A code : toClient'[s] # <<code>>
    BY <1>1, <1>6, Single
  <2>3. Connecting(s)'
    BY <1>1, <1>2, <1>4, <1>6 DEF Phase, Connecting, Blank, Holds, Untaken, Open
  <2>4. LoggingIn(s)'
    BY <1>1, <1>2, <1>4, <1>6, <2>1, <2>2 DEF Phase, LoggingIn, Blank, Holds, Untaken, Spoken, Hears
  <2>5. Addressing(s)'
    BY <1>1, <1>2, <1>4, <1>6, <2>1, <2>2 DEF Phase, Addressing, Untaken, Spoken, Hears, To
  <2>6. Delivering(s)'
    BY ZenonT(60), <1>1, <1>2, <1>4, <1>6, <2>1, <2>2
       DEF Phase, Delivering, Holds, Spoken, Hears, From, To
  <2>7. QED
    BY <2>3, <2>4, <2>5, <2>6 DEF Phase
<1>8. Replies(s)'
  BY <1>1, <1>4, <1>6 DEF Replies, Hears
<1>9. QED
  BY <1>1, <1>3, <1>4, <1>5, <1>7, <1>8, OneDisturbed

LEMMA EnvelopeTypes ==
  ASSUME NEW s \in Sends
  PROVE  From(s) \in Addresses /\ To(s) \in Seq(Addresses) /\ Lines(s) \in Seq(Line)
BY DialogueAssumption DEF From, To, Lines

LEMMA Between ==
  ASSUME NEW size \in Nat, NEW k \in 0..size, NEW n \in k..(size + 1), NEW whole, whole = size + 1
  PROVE  /\ k \in 0..whole /\ n \in k..whole /\ k \in Nat /\ n \in Nat /\ n <= whole
         /\ n # k => k < n /\ n \in (k + 1)..(size + 1)
OBVIOUS

(* The server reads a line of the data: it is the next of the message.     *)
LEMMA ReadNext ==
  ASSUME IInv, NEW s \in Sends, Read(s, "data")
  PROVE  /\ at[s] = "dot" /\ session[s] = "data" /\ toClient[s] = <<>>
         /\ Admitted /\ Holds(s, From(s), To(s), transport.login) /\ ~Taken(s)
         /\ \E k \in 0..Len(Lines(s)) : \E n \in (k + 1)..(Len(Lines(s)) + 1) :
              /\ lines[s] = SubSeq(Lines(s), 1, k)
              /\ Head(toServer[s]) = Written(Lines(s))[k + 1]
              /\ toServer' = [toServer EXCEPT ![s] = SubSeq(Written(Lines(s)), k + 2, n)]
<1>1. session[s] = "data" /\ toServer[s] # <<>> /\ toServer' = [toServer EXCEPT ![s] = Tail(@)]
  BY DEF Read
<1>2. at[s] \in Early \cup Late /\ Phase(s)
  BY DEF IInv, TypeOK
<1>3. at[s] = "dot"
  BY <1>1, <1>2 DEF Phase, Connecting, LoggingIn, Addressing, Delivering, Spoken, Early, Late
<1>4. /\ Underway(s) /\ toClient[s] = <<>>
      /\ Admitted /\ Holds(s, From(s), To(s), transport.login) /\ ~Taken(s)
  BY <1>1, <1>2, <1>3 DEF Phase, Delivering
<1>5. PICK k \in 0..Len(Lines(s)) : \E n \in k..(Len(Lines(s)) + 1) :
        /\ lines[s] = SubSeq(Lines(s), 1, k)
        /\ toServer[s] = SubSeq(Written(Lines(s)), k + 1, n)
  BY <1>4 DEF Underway
<1>6. PICK n \in k..(Len(Lines(s)) + 1) :
        /\ lines[s] = SubSeq(Lines(s), 1, k)
        /\ toServer[s] = SubSeq(Written(Lines(s)), k + 1, n)
  BY <1>5
<1>7. Lines(s) \in Seq(Line)
  BY EnvelopeTypes
<1>8. /\ Written(Lines(s)) \in Seq([verb : {""}, arg : Line])
      /\ Len(Written(Lines(s))) = Len(Lines(s)) + 1
  BY <1>7, WhatIsWritten
<1>9. k \in Nat /\ n \in Nat /\ k < n /\ n <= Len(Written(Lines(s))) /\ n \in (k + 1)..(Len(Lines(s)) + 1)
  <2>1. Len(Lines(s)) \in Nat
    BY <1>7
  <2>2. k \in 0..Len(Written(Lines(s))) /\ n \in k..Len(Written(Lines(s)))
    <3>1. Len(Written(Lines(s))) = Len(Lines(s)) + 1
      BY <1>8
    <3>2. QED
      BY <2>1, <3>1, Between
  <2>3. SubSeq(Written(Lines(s)), k + 1, k) = <<>>
    BY <1>8, <2>2, NothingLeft
  <2>4. n # k
    BY <1>1, <1>6, <2>3
  <2>5. Len(Written(Lines(s))) = Len(Lines(s)) + 1
    BY <1>8
  <2>6. QED
    BY <2>1, <2>4, <2>5, Between
<1>10. /\ Head(toServer[s]) = Written(Lines(s))[k + 1]
       /\ Tail(toServer[s]) = SubSeq(Written(Lines(s)), k + 2, n)
  BY ZenonT(60), <1>6, <1>8, <1>9, RestOf
<1>11. toServer' = [toServer EXCEPT ![s] = SubSeq(Written(Lines(s)), k + 2, n)]
  BY <1>1, <1>10
<1>12. QED
  BY <1>1, <1>3, <1>4, <1>6, <1>9, <1>10, <1>11

LEMMA ReadLineKeeps ==
  ASSUME IInv, NEW s \in Sends, ReadLine(s)
  PROVE  IInv'
<1>1. Read(s, "data") /\ Argument(s) # Terminator
      /\ lines' = [lines EXCEPT ![s] = Append(@, Unstuff(Argument(s)))]
      /\ UNCHANGED <<fixed, transport, server, at, asked, sendmail, result, ended, link,
                     toClient, session, envelope, captured, closer, reclosed, serving, troubles>>
  BY DEF ReadLine, fixed, client, caller, life
<1>2. PICK k \in 0..Len(Lines(s)) : \E n \in (k + 1)..(Len(Lines(s)) + 1) :
        /\ lines[s] = SubSeq(Lines(s), 1, k)
        /\ Head(toServer[s]) = Written(Lines(s))[k + 1]
        /\ toServer' = [toServer EXCEPT ![s] = SubSeq(Written(Lines(s)), k + 2, n)]
  BY <1>1, ReadNext
<1>3. PICK n \in (k + 1)..(Len(Lines(s)) + 1) :
        /\ lines[s] = SubSeq(Lines(s), 1, k)
        /\ Head(toServer[s]) = Written(Lines(s))[k + 1]
        /\ toServer' = [toServer EXCEPT ![s] = SubSeq(Written(Lines(s)), k + 2, n)]
  BY <1>2
<1>4. Lines(s) \in Seq(Line)
  BY EnvelopeTypes
<1>5. k < Len(Lines(s)) /\ Argument(s) = Stuff(Lines(s)[k + 1])
  <2>1. k # Len(Lines(s))
    <3>1. Cmd("", Terminator).arg = Terminator
      BY DEF Cmd
    <3>2. Written(Lines(s))[Len(Lines(s)) + 1] = Cmd("", Terminator)
      BY <1>4, WhatIsWritten
    <3>3. QED
      BY <1>1, <1>3, <3>1, <3>2, Zenon DEF Argument
  <2>2. k < Len(Lines(s)) /\ k + 1 \in 1..Len(Lines(s))
    BY <1>4, <2>1
  <2>3. Head(toServer[s]) = Cmd("", Stuff(Lines(s)[k + 1]))
    BY <1>3, <1>4, <2>2, WhatIsWritten
  <2>4. Cmd("", Stuff(Lines(s)[k + 1])).arg = Stuff(Lines(s)[k + 1])
    BY DEF Cmd
  <2>5. QED
    BY <2>2, <2>3, <2>4, Zenon DEF Argument
<1>6. Lines(s)[k + 1] \in Line
  BY <1>4, <1>5
<1>7. Unstuff(Argument(s)) = Lines(s)[k + 1]
  BY <1>5, <1>6, DotsKept
<1>8. lines'[s] = SubSeq(Lines(s), 1, k + 1)
  <2>1. lines'[s] = Append(lines[s], Unstuff(Argument(s)))
    BY <1>1, SessionTypes
  <2>2. QED
    BY <1>3, <1>4, <1>5, <1>7, <2>1, FirstPart
<1>9. toServer'[s] = SubSeq(Written(Lines(s)), k + 2, n) /\ DOMAIN toServer' = Sends
      /\ \A t \in Sends \ {s} : toServer'[t] = toServer[t] /\ lines'[t] = lines[t]
  BY <1>1, <1>3, SessionTypes
<1>10. lines' \in [Sends -> Seq(Line)]
  BY <1>1, <1>6, <1>7, SessionTypes
<1>11. TypeOK' /\ Domains'
  BY <1>1, <1>9, <1>10 DEF IInv, TypeOK, Domains
<1>12. Captures' /\ Admitted' = Admitted /\ \A t : Taken(t)' <=> Taken(t)
  BY <1>1, CapturesKept DEF IInv
<1>13. \A t \in Sends \ {s} : SameAt(t)
  BY <1>1, <1>9, <1>12 DEF SameAt
<1>14. Underway(s)'
  <2>1. k + 1 \in 0..Len(Lines(s)) /\ n \in (k + 1)..(Len(Lines(s)) + 1) /\ k + 1 + 1 = k + 2
    BY <1>4, <1>5
  <2>2. QED
    BY <1>8, <1>9, <2>1 DEF Underway, Lines
<1>15. Phase(s)'
  BY <1>1, <1>12, <1>14, ReadNext DEF Phase, Connecting, LoggingIn, Addressing, Delivering, Holds, From, To
<1>16. Replies(s)'
  BY <1>1, <1>12 DEF IInv, Replies, Hears
<1>17. QED
  BY <1>1, <1>11, <1>12, <1>13, <1>15, <1>16, OneDisturbed

(* The message of a call that has none yet is captured. *)
LEMMA CapturesGrow ==
  ASSUME Captures, Admitted, UNCHANGED fixed, NEW s \in Sends, ~Taken(s),
         captured' = Append(captured, Delivered(s))
  PROVE  Captures' /\ Taken(s)' /\ \A t \in Sends \ {s} : Taken(t)' <=> Taken(t)
<1>1. UNCHANGED <<transport, server>>
  BY DEF fixed
<1>2. Admitted' /\ \A t : Delivered(t)' = Delivered(t)
  BY <1>1 DEF Admitted, LoginAccepted, Delivered
<1>3. captured \in Seq({Delivered(t) : t \in Sends}) /\ Len(captured) \in Nat
  BY DEF Captures
<1>4. /\ captured' \in Seq({Delivered(t) : t \in Sends})
      /\ Len(captured') = Len(captured) + 1
      /\ captured'[Len(captured) + 1] = Delivered(s)
      /\ \A i \in 1..Len(captured) : captured'[i] = captured[i]
  BY <1>3
<1>5. captured'[Len(captured) + 1].send = s
  <2>1. Delivered(s).send = s
    BY DEF Delivered
  <2>2. QED
    BY <1>4, <2>1, Zenon
<1>6. \A i \in 1..Len(captured) : captured[i].send # s
  BY DEF Taken
<1>7. captured' \in Seq({Delivered(t) : t \in Sends}')
  <2>1. {Delivered(t) : t \in Sends}' = {Delivered(t) : t \in Sends}
    BY <1>2
  <2>2. QED
    BY <1>4, <2>1
<1>8. \A i \in 1..Len(captured') : i \in 1..Len(captured) \/ i = Len(captured) + 1
  BY <1>3, <1>4
<1>9. \A i, j \in 1..Len(captured') : captured'[i].send = captured'[j].send => i = j
  <2> SUFFICES ASSUME NEW i \in 1..Len(captured'), NEW j \in 1..Len(captured'),
                      captured'[i].send = captured'[j].send
               PROVE  i = j
    OBVIOUS
  <2>1. CASE i \in 1..Len(captured) /\ j \in 1..Len(captured)
    BY <1>4, <2>1 DEF Captures
  <2>2. CASE i = Len(captured) + 1 \/ j = Len(captured) + 1
    BY <1>4, <1>5, <1>6, <1>8, <2>2
  <2>3. QED
    BY <1>8, <2>1, <2>2
<1>10. Taken(s)'
  <2>1. Len(captured) + 1 \in 1..Len(captured')
    BY <1>3, <1>4
  <2>2. QED
    BY <1>5, <2>1 DEF Taken
<1>11. ASSUME NEW t \in Sends \ {s}
       PROVE  Taken(t)' <=> Taken(t)
  <2>1. ASSUME Taken(t) PROVE Taken(t)'
    BY <1>3, <1>4, <2>1 DEF Taken
  <2>2. ASSUME Taken(t)' PROVE Taken(t)
    BY <1>4, <1>5, <1>8, <2>2 DEF Taken
  <2>3. QED
    BY <2>1, <2>2
<1>12. QED
  BY <1>2, <1>7, <1>9, <1>10, <1>11 DEF Captures

LEMMA CaptureWhole ==
  ASSUME IInv, NEW s \in Sends, Capture(s)
  PROVE  Message(s) = Delivered(s) /\ toServer' = [toServer EXCEPT ![s] = <<>>]
<1>1. Read(s, "data") /\ Argument(s) = Terminator
  BY DEF Capture
<1>2. PICK k \in 0..Len(Lines(s)) : \E n \in (k + 1)..(Len(Lines(s)) + 1) :
        /\ lines[s] = SubSeq(Lines(s), 1, k)
        /\ Head(toServer[s]) = Written(Lines(s))[k + 1]
        /\ toServer' = [toServer EXCEPT ![s] = SubSeq(Written(Lines(s)), k + 2, n)]
  BY <1>1, ReadNext
<1>3. PICK n \in (k + 1)..(Len(Lines(s)) + 1) :
        /\ lines[s] = SubSeq(Lines(s), 1, k)
        /\ Head(toServer[s]) = Written(Lines(s))[k + 1]
        /\ toServer' = [toServer EXCEPT ![s] = SubSeq(Written(Lines(s)), k + 2, n)]
  BY <1>2
<1>4. Lines(s) \in Seq(Line) /\ Len(Lines(s)) \in Nat
  BY EnvelopeTypes
<1>5. k = Len(Lines(s))
  <2>1. SUFFICES ASSUME k # Len(Lines(s)) PROVE FALSE
    OBVIOUS
  <2>2. k + 1 \in 1..Len(Lines(s)) /\ Lines(s)[k + 1] \in Line
    BY <1>4, <2>1
  <2>3. Head(toServer[s]) = Cmd("", Stuff(Lines(s)[k + 1]))
    BY <1>3, <1>4, <2>2, WhatIsWritten
  <2>4. Cmd("", Stuff(Lines(s)[k + 1])).arg = Stuff(Lines(s)[k + 1])
    BY DEF Cmd
  <2>5. Stuff(Lines(s)[k + 1]) # Terminator
    BY <2>2, DotsKept
  <2>6. QED
    BY <1>1, <2>3, <2>4, <2>5, Zenon DEF Argument
<1>6. lines[s] = Lines(s)
  BY <1>3, <1>4, <1>5, WholePart
<1>7. SubSeq(Written(Lines(s)), k + 2, n) = <<>>
  <2>1. n = k + 1 /\ k + 2 = n + 1
    BY <1>4, <1>5
  <2>2. Written(Lines(s)) \in Seq([verb : {""}, arg : Line]) /\ Len(Written(Lines(s))) = Len(Lines(s)) + 1
    BY <1>4, WhatIsWritten
  <2>3. n \in 0..Len(Written(Lines(s)))
    <3>1. Len(Written(Lines(s))) = Len(Lines(s)) + 1
      BY <2>2
    <3>2. n = Len(Lines(s)) + 1
      BY <1>5, <2>1
    <3>3. QED
      BY <1>4, <3>1, <3>2
  <2>4. QED
    BY <2>1, <2>2, <2>3, NothingLeft
<1>8. Message(s) = Delivered(s)
  <2>1. envelope[s] = [from |-> From(s), to |-> To(s), login |-> transport.login]
    BY <1>1, ReadNext DEF Holds
  <2>2. /\ [from |-> From(s), to |-> To(s), login |-> transport.login].from = From(s)
        /\ [from |-> From(s), to |-> To(s), login |-> transport.login].to = To(s)
        /\ [from |-> From(s), to |-> To(s), login |-> transport.login].login = transport.login
    OBVIOUS
  <2>3. envelope[s].from = From(s) /\ envelope[s].to = To(s) /\ envelope[s].login = transport.login
    BY <2>1, <2>2, Zenon
  <2>4. QED
    BY <1>6, <2>3 DEF Message, Delivered
<1>9. QED
  BY <1>3, <1>7, <1>8

LEMMA CaptureKeeps ==
  ASSUME IInv, NEW s \in Sends, Capture(s)
  PROVE  IInv'
<1>1. /\ Read(s, "data") /\ Reply(s, 250)
      /\ captured' = Append(captured, Message(s))
      /\ session' = [session EXCEPT ![s] = "command"]
      /\ UNCHANGED <<fixed, transport, server, at, asked, sendmail, result, ended, link,
                     lines, closer, reclosed, serving, troubles>>
  BY DEF Capture, Handled, fixed, client, caller, life
<1>2. /\ at[s] = "dot" /\ toClient[s] = <<>> /\ Admitted /\ ~Taken(s)
  BY <1>1, ReadNext
<1>3. captured' = Append(captured, Delivered(s)) /\ toServer' = [toServer EXCEPT ![s] = <<>>]
  BY <1>1, CaptureWhole
<1>4. Captures' /\ Taken(s)' /\ \A t \in Sends \ {s} : Taken(t)' <=> Taken(t)
  BY <1>1, <1>2, <1>3, CapturesGrow DEF IInv
<1>5. /\ DOMAIN toClient' = Sends
      /\ \A t \in Sends \ {s} : toClient'[t] = toClient[t]
      /\ toClient'[s] = <<>> \/ toClient'[s] = <<250>>
      /\ link[s] = "down" => toClient'[s] = <<>>
  <2>1. 250 \in Codes
    BY DEF Codes
  <2>2. Reply(s, 250) /\ toClient[s] = <<>>
    BY <1>1, <1>2
  <2>3. QED
    BY <2>1, <2>2, ReplyArrives
<1>6. /\ session'[s] = "command" /\ toServer'[s] = <<>>
      /\ \A t \in Sends \ {s} : /\ session'[t] = session[t] /\ toServer'[t] = toServer[t]
                                /\ envelope'[t] = envelope[t]
      /\ DOMAIN envelope' = Sends /\ DOMAIN toServer' = Sends
  <2>1. DOMAIN envelope' = Sends /\ \A t \in Sends \ {s} : envelope'[t] = envelope[t]
    <3>1. \E from : envelope' = [envelope EXCEPT ![s].from = from, ![s].to = <<>>]
      BY Zenon DEF Capture
    <3>2. QED
      BY <3>1, SessionTypes
  <2>2. session' = [session EXCEPT ![s] = "command"]
    BY <1>1
  <2>3. QED
    BY <1>3, <2>1, <2>2, SessionTypes
<1>7. TypeOK' /\ Domains'
  BY <1>1, <1>5, <1>6 DEF IInv, TypeOK, Domains, Open
<1>8. \A t \in Sends \ {s} : SameAt(t)
  BY <1>1, <1>4, <1>5, <1>6 DEF SameAt
<1>9. Phase(s)'
  BY <1>1, <1>2, <1>4, <1>6 DEF Phase, Connecting, LoggingIn, Addressing, Delivering
<1>10. Replies(s)'
  BY <1>1, <1>4, <1>5, SessionTypes DEF IInv, Replies, Hears
<1>11. QED
  BY <1>1, <1>4, <1>7, <1>8, <1>9, <1>10, OneDisturbed
-----------------------------------------------------------------------------
(* The caller, the connection and Close. *)
LEMMA SendKeeps ==
  ASSUME IInv, NEW s \in Sends, Send(s)
  PROVE  IInv'
<1>1. /\ at[s] = "idle"
      /\ \/ result' = [result EXCEPT ![s] = "error"] /\ UNCHANGED at
         \/ at' = [at EXCEPT ![s] = "dial"] /\ UNCHANGED result
      /\ UNCHANGED <<fixed, transport, server, asked, sendmail, ended, link, toServer, toClient,
                     session, envelope, lines, captured, closer, reclosed, serving, troubles>>
  BY DEF Send, fixed, network, handler, life
<1>2. at'[s] \in {"idle", "dial"} /\ result'[s] \in {result[s], "error"}
      /\ \A t \in Sends \ {s} : at'[t] = at[t] /\ result'[t] = result[t]
  BY <1>1 DEF IInv, TypeOK
<1>3. TypeOK' /\ Domains'
  <2>1. at' \in [Sends -> Early \cup Late] /\ result' \in [Sends -> {"none", "ok", "error"}]
    BY <1>1 DEF IInv, TypeOK, Early
  <2>2. QED
    BY <1>1, <2>1 DEF IInv, TypeOK, Domains
<1>4. Captures' /\ \A t : Taken(t)' <=> Taken(t)
  BY <1>1, CapturesKept DEF IInv
<1>5. \A t \in Sends \ {s} : SameAt(t)
  BY <1>1, <1>2, <1>4 DEF SameAt
<1>6. Phase(s)'
  BY <1>1, <1>2, <1>4 DEF IInv, Phase, Connecting, LoggingIn, Addressing, Delivering, Blank, Holds, Untaken
<1>7. Replies(s)'
  BY <1>1, <1>2, <1>4 DEF IInv, Replies, Hears
<1>8. QED
  BY <1>1, <1>3, <1>4, <1>5, <1>6, <1>7, OneDisturbed

LEMMA PhaseKept ==
  ASSUME IInv, NEW t \in Sends, UNCHANGED fixed,
         UNCHANGED <<at, asked, toServer, toClient, session, envelope, lines, captured>>
  PROVE  Phase(t)'
<1>1. UNCHANGED <<transport, server>> /\ Phase(t)
  BY DEF fixed, IInv
<1>2. Admitted' = Admitted /\ (Taken(t)' <=> Taken(t)) /\ \A l : LoginAccepted(l)' = LoginAccepted(l)
  BY <1>1 DEF Admitted, LoginAccepted, Taken
<1>3. Connecting(t)' /\ LoggingIn(t)'
  BY <1>1, <1>2 DEF Phase, Connecting, LoggingIn, Blank, Holds, Untaken, Spoken, Asks, Hears, Cmd
<1>4. Addressing(t)'
  BY <1>1, <1>2 DEF Phase, Addressing, Holds, Untaken, Spoken, Asks, Hears, Cmd
<1>5. Delivering(t)'
  BY <1>1, <1>2 DEF Phase, Delivering, Holds, Spoken, Asks, Hears, Underway
<1>6. QED
  BY <1>3, <1>4, <1>5 DEF Phase

LEMMA ReturnKeeps ==
  ASSUME IInv, NEW s \in Sends, SendMailDone(s) \/ ContextDone(s)
  PROVE  IInv'
<1>1. PICK outcome \in {"ok", "error"} : Return(s, outcome) /\ (outcome = "ok" => sendmail[s] = "ok")
  BY DEF SendMailDone, ContextDone, IInv, TypeOK
<1>2. /\ result' = [result EXCEPT ![s] = outcome]
      /\ UNCHANGED <<fixed, transport, server, at, asked, sendmail, ended, link, toServer, toClient,
                     session, envelope, lines, captured, closer, reclosed, serving, troubles>>
  BY <1>1 DEF Return, fixed, client, network, handler, life
<1>3. TypeOK' /\ Domains'
  BY <1>2 DEF IInv, TypeOK, Domains
<1>4. Captures' /\ \A t : Taken(t)' <=> Taken(t)
  BY <1>2, CapturesKept DEF IInv
<1>5. ASSUME NEW t \in Sends
      PROVE  Replies(t)'
  BY <1>1, <1>2, <1>4 DEF IInv, TypeOK, Replies, Hears
<1>6. QED
  BY <1>2, <1>3, <1>4, <1>5, PhaseKept DEF IInv

LEMMA TroubleCounted ==
  ASSUME troubles \in [Troubles -> Nat], NEW kind \in {"lose", "stall", "cancel"}, Trouble(kind)
  PROVE  troubles' \in [Troubles -> Nat]
<1>1. kind \in Troubles /\ "total" \in Troubles
  BY DEF Troubles
<1>2. [troubles EXCEPT ![kind] = @ + 1] \in [Troubles -> Nat]
  BY <1>1
<1>3. troubles["total"] + 1 \in Nat
  BY <1>1
<1>4. troubles' = [[troubles EXCEPT ![kind] = @ + 1] EXCEPT !["total"] = troubles["total"] + 1]
  BY DEF Trouble
<1>5. QED
  BY <1>2, <1>3, <1>4

LEMMA QuietKeeps ==
  ASSUME IInv,
         \/ ServeReturns \/ CloseReturns \/ CloseAgain
         \/ \E s \in Sends : Stall(s) \/ Cancel(s)
  PROVE  IInv'
<1>1. /\ UNCHANGED <<fixed, at, asked, sendmail, result, toServer, toClient, session, envelope, lines, captured>>
      /\ link' = link \/ \E s \in Sends : link[s] = "up" /\ link' = [link EXCEPT ![s] = "stalled"]
  BY DEF ServeReturns, CloseReturns, CloseAgain, Stall, Cancel, client, caller, network, handler
<1>2. TypeOK'
  <2>1. UNCHANGED <<transport, server>>
    BY <1>1 DEF fixed
  <2>2. CASE ServeReturns \/ CloseReturns \/ CloseAgain
    BY <1>1, <2>1, <2>2 DEF IInv, TypeOK, ServeReturns, CloseReturns, CloseAgain, caller, network
  <2>3. CASE \E s \in Sends : Stall(s) \/ Cancel(s)
    <3>1. PICK s \in Sends : Stall(s) \/ Cancel(s)
      BY <2>3
    <3>2. troubles' \in [Troubles -> Nat]
      BY <3>1, TroubleCounted DEF Stall, Cancel, IInv, TypeOK
    <3>3. ended' \in [Sends -> BOOLEAN] /\ UNCHANGED <<closer, reclosed, serving>>
      BY <3>1 DEF Stall, Cancel, caller, life, IInv, TypeOK
    <3>4. link' \in [Sends -> {"none", "up", "stalled", "down"}]
      BY ZenonT(60), <1>1 DEF IInv, TypeOK
    <3>5. QED
      BY <1>1, <2>1, <3>2, <3>3, <3>4 DEF IInv, TypeOK
  <2>4. QED
    BY <2>2, <2>3
<1>3. Domains' /\ Captures' /\ \A t : Taken(t)' <=> Taken(t)
  BY <1>1, CapturesKept DEF IInv, Domains
<1>4. ASSUME NEW t \in Sends
      PROVE  Replies(t)'
  BY <1>1, <1>3 DEF IInv, TypeOK, Replies, Hears
<1>5. QED
  BY <1>1, <1>2, <1>3, <1>4, PhaseKept DEF IInv

LEMMA CutShort ==
  ASSUME NEW x
  PROVE  /\ \A n \in 0..Len(<<>>) : SubSeq(<<>>, 1, n) = <<>>
         /\ \A n \in 0..Len(<<x>>) : SubSeq(<<x>>, 1, n) = <<>> \/ SubSeq(<<x>>, 1, n) = <<x>>
<1>1. \A n \in 0..Len(<<>>) : SubSeq(<<>>, 1, n) = <<>>
  OBVIOUS
<1>2. \A n \in 0..Len(<<x>>) : n = 0 \/ n = 1
  OBVIOUS
<1>3. SubSeq(<<x>>, 1, 0) = <<>> /\ SubSeq(<<x>>, 1, 1) = <<x>>
  <2>1. <<x>> \in Seq({x}) /\ Len(<<x>>) = 1
    OBVIOUS
  <2>2. QED
    BY <2>1, WholePart
<1>4. QED
  BY <1>1, <1>2, <1>3

(* Of what is on its way some first part arrives, no reply does. *)
LEMMA LosePhase ==
  ASSUME IInv, NEW s \in Sends, NEW n \in 0..Len(toServer[s]),
         UNCHANGED <<transport, server, at, asked, session, envelope, lines, captured>>,
         toServer'[s] = SubSeq(toServer[s], 1, n), toClient'[s] = <<>>
  PROVE  Phase(s)'
<1>1. Phase(s)
  BY DEF IInv
<1>2. Admitted' = Admitted /\ (Taken(s)' <=> Taken(s)) /\ \A l : LoginAccepted(l)' = LoginAccepted(l)
  BY DEF Admitted, LoginAccepted, Taken
<1>3. \A item : Asks(s, item) => toServer'[s] = <<>> \/ toServer'[s] = <<item>>
  BY CutShort DEF Asks
<1>4. toServer[s] = <<>> => toServer'[s] = <<>>
  BY CutShort
<1>5. \A code : toClient'[s] # <<code>>
  BY Single
<1>6. Connecting(s)'
  BY <1>1, <1>2, <1>4 DEF Phase, Connecting, Blank, Holds, Untaken
<1>7. LoggingIn(s)'
  BY <1>1, <1>2, <1>3, <1>4, <1>5 DEF Phase, LoggingIn, Blank, Holds, Untaken, Spoken, Asks, Hears, Cmd
<1>8. Addressing(s)'
  <2>1. CASE at[s] = "mail"
    BY ZenonT(60), <1>1, <1>2, <1>3, <1>4, <1>5, <2>1
       DEF Phase, Addressing, Holds, Untaken, Spoken, Asks, Hears, Cmd, From
  <2>2. CASE at[s] = "rcpt"
    BY ZenonT(60), <1>1, <1>2, <1>3, <1>4, <1>5, <2>2
       DEF Phase, Addressing, Holds, Untaken, Spoken, Asks, Hears, Cmd,
       From, To
  <2>3. QED
    BY <2>1, <2>2 DEF Addressing
<1>9. Delivering(s)'
  <2>1. CASE at[s] \in {"data", "quit"}
    BY ZenonT(60), <1>1, <1>2, <1>3, <1>4, <1>5, <2>1
       DEF Phase, Delivering, Holds, Spoken, Asks, Hears, Cmd, From, To
  <2>2. CASE at[s] = "dot"
    <3>1. ASSUME Underway(s)
          PROVE  Underway(s)'
      <4>0. PICK k \in 0..Len(Lines(s)) : \E m \in k..(Len(Lines(s)) + 1) :
              /\ lines[s] = SubSeq(Lines(s), 1, k)
              /\ toServer[s] = SubSeq(Written(Lines(s)), k + 1, m)
        BY <3>1 DEF Underway
      <4>1. PICK m \in k..(Len(Lines(s)) + 1) :
              /\ lines[s] = SubSeq(Lines(s), 1, k)
              /\ toServer[s] = SubSeq(Written(Lines(s)), k + 1, m)
        BY <4>0
      <4>2. Lines(s) \in Seq(Line) /\ Len(Lines(s)) \in Nat
        BY EnvelopeTypes
      <4>3. Written(Lines(s)) \in Seq([verb : {""}, arg : Line])
            /\ Len(Written(Lines(s))) = Len(Lines(s)) + 1
        BY <4>2, WhatIsWritten
      <4>4. k \in Nat /\ m \in Nat /\ k <= m /\ m <= Len(Written(Lines(s)))
        <5>1. Len(Written(Lines(s))) = Len(Lines(s)) + 1
          BY <4>3
        <5>2. QED
          BY <4>2, <5>1, Between
      <4>5. n \in 0..Len(SubSeq(Written(Lines(s)), k + 1, m))
        BY <4>1
      <4>6. /\ k + n \in k..m
            /\ SubSeq(SubSeq(Written(Lines(s)), k + 1, m), 1, n) = SubSeq(Written(Lines(s)), k + 1, k + n)
        BY <4>3, <4>4, <4>5, PartOfRest
      <4>7. k + n \in k..(Len(Lines(s)) + 1)
        BY <4>2, <4>4, <4>6
      <4>8. lines'[s] = SubSeq(Lines(s), 1, k) /\ toServer'[s] = SubSeq(Written(Lines(s)), k + 1, k + n)
        BY <4>1, <4>6
      <4>9. QED
        BY <4>7, <4>8 DEF Underway, Lines
    <3>2. QED
      BY <1>1, <1>2, <1>4, <2>2, <3>1 DEF Phase, Delivering, Holds, From, To
  <2>3. QED
    BY <2>1, <2>2 DEF Delivering
<1>10. QED
  BY <1>6, <1>7, <1>8, <1>9 DEF Phase

LEMMA LoseKeeps ==
  ASSUME IInv, NEW s \in Sends, Lose(s)
  PROVE  IInv'
<1>1. PICK n \in 0..Len(toServer[s]) : toServer' = [toServer EXCEPT ![s] = SubSeq(@, 1, n)]
  BY DEF Lose
<1>2. /\ link' = [link EXCEPT ![s] = "down"] /\ toClient' = [toClient EXCEPT ![s] = <<>>]
      /\ Trouble("lose")
      /\ UNCHANGED <<fixed, transport, server, at, asked, sendmail, result, ended,
                     session, envelope, lines, captured, closer, reclosed, serving>>
  BY DEF Lose, fixed, client, caller, handler, life
<1>3. /\ toServer'[s] = SubSeq(toServer[s], 1, n) /\ toClient'[s] = <<>> /\ link'[s] = "down"
      /\ \A t \in Sends \ {s} : toServer'[t] = toServer[t] /\ toClient'[t] = toClient[t] /\ link'[t] = link[t]
      /\ Domains'
  BY <1>1, <1>2 DEF IInv, Domains, TypeOK
<1>4. TypeOK'
  <2>1. troubles' \in [Troubles -> Nat]
    BY <1>2, TroubleCounted DEF IInv, TypeOK
  <2>2. QED
    BY <1>2, <2>1 DEF IInv, TypeOK
<1>5. Captures' /\ \A t : Taken(t)' <=> Taken(t)
  BY <1>2, CapturesKept DEF IInv
<1>6. \A t \in Sends \ {s} : SameAt(t)
  BY <1>2, <1>3, <1>5 DEF SameAt
<1>7. Phase(s)'
  BY <1>2, <1>3, LosePhase
<1>8. Replies(s)'
  BY <1>2, <1>3, <1>5 DEF IInv, Replies
<1>9. QED
  BY <1>2, <1>3, <1>4, <1>5, <1>6, <1>7, <1>8, OneDisturbed

LEMMA CloseKeeps ==
  ASSUME IInv, Close
  PROVE  IInv'
<1>1. /\ session' = [s \in Sends |-> IF session[s] = "backlog" THEN "ended" ELSE session[s]]
      /\ link' = [s \in Sends |-> IF session[s] = "backlog" THEN "down" ELSE link[s]]
      /\ closer' = "waiting"
      /\ UNCHANGED <<fixed, transport, server, at, asked, sendmail, result, ended, toServer, toClient,
                     envelope, lines, captured, reclosed, serving, troubles>>
  BY DEF Close, fixed, client, caller
<1>2. TypeOK' /\ Domains'
  <2>1. session' \in [Sends -> {"none", "backlog", "accepted", "ended"} \cup Open]
        /\ link' \in [Sends -> {"none", "up", "stalled", "down"}]
    BY <1>1 DEF IInv, TypeOK
  <2>2. QED
    BY <1>1, <2>1 DEF IInv, TypeOK, Domains
<1>3. Captures' /\ Admitted' = Admitted /\ \A t : Taken(t)' <=> Taken(t)
  BY <1>1, CapturesKept DEF IInv
<1>4. ASSUME NEW t \in Sends
      PROVE  (Phase(t) /\ Replies(t))'
  <2>1. Phase(t) /\ Replies(t) /\ at[t] \in Early \cup Late
    BY DEF IInv, TypeOK
  <2>2. CASE session[t] # "backlog"
    <3>1. SameAt(t)
      BY <1>1, <1>3, <2>2 DEF SameAt
    <3>2. QED
      BY <1>1, <2>1, <3>1, Undisturbed
  <2>3. CASE session[t] = "backlog"
    <3>1. at[t] = "greeting" /\ toClient[t] = <<>>
      BY <2>1, <2>3 DEF Phase, Connecting, LoggingIn, Addressing, Delivering, Spoken, Early, Late
    <3>2. session'[t] = "ended"
      BY <1>1, <2>3
    <3>3. Phase(t)'
      BY <1>1, <1>3, <2>1, <3>1, <3>2 DEF Phase, Connecting, LoggingIn, Addressing, Delivering,
         Blank, Holds, Untaken
    <3>4. Replies(t)'
      BY <1>1, <1>3, <2>1, <3>1 DEF Replies
    <3>5. QED
      BY <3>3, <3>4
  <2>4. QED
    BY <2>2, <2>3
<1>5. QED
  BY <1>2, <1>3, <1>4 DEF IInv
-----------------------------------------------------------------------------
(* The steps of SendMail. *)
LEMMA ClientStep ==
  ASSUME IInv, NEW s \in Sends,
         UNCHANGED <<fixed, caller, envelope, lines, captured, life, troubles>>,
         at' \in [Sends -> Early \cup Late], asked' \in [Sends -> Nat],
         sendmail' \in [Sends -> {"none", "ok", "error"}],
         link' \in [Sends -> {"none", "up", "stalled", "down"}],
         session' \in [Sends -> {"none", "backlog", "accepted", "ended"} \cup Open],
         Domains',
         \A t \in Sends \ {s} :
           /\ at'[t] = at[t] /\ asked'[t] = asked[t] /\ sendmail'[t] = sendmail[t]
           /\ link'[t] = link[t] /\ session'[t] = session[t]
           /\ toServer'[t] = toServer[t] /\ toClient'[t] = toClient[t],
         toClient'[s] = <<>>, sendmail'[s] = "ok" => Taken(s), Phase(s)'
  PROVE  IInv'
<1>1. UNCHANGED <<transport, server, result, ended, closer, reclosed, serving>>
  BY DEF fixed, caller, life
<1>2. TypeOK'
  BY <1>1 DEF IInv, TypeOK
<1>3. Captures' /\ \A t : Taken(t)' <=> Taken(t)
  BY CapturesKept DEF IInv
<1>4. \A t \in Sends \ {s} : SameAt(t)
  BY <1>1, <1>3 DEF SameAt
<1>5. Replies(s)'
  BY <1>1, <1>3 DEF IInv, Replies
<1>6. QED
  BY <1>2, <1>3, <1>4, <1>5, OneDisturbed

LEMMA DialKeeps ==
  ASSUME IInv, NEW s \in Sends, Dial(s)
  PROVE  IInv'
<1>1. /\ at[s] = "dial"
      /\ UNCHANGED <<fixed, transport, server, caller, asked, toServer, toClient, envelope, lines, captured,
                     life, troubles>>
  BY DEF Dial, EndSendMail, fixed
<1>2. session[s] = "none" /\ toServer[s] = <<>> /\ toClient[s] = <<>> /\ Blank(s) /\ Untaken(s)
  BY <1>1 DEF IInv, Phase, Connecting
<1>3. Captures' /\ \A t : Taken(t)' <=> Taken(t)
  BY <1>1, CapturesKept DEF IInv
<1>4. CASE /\ at' = [at EXCEPT ![s] = "greeting"]
           /\ link' = [link EXCEPT ![s] = "up"]
           /\ session' = [session EXCEPT ![s] = "backlog"]
           /\ UNCHANGED sendmail
  <2>1. at' \in [Sends -> Early \cup Late] /\ at'[s] = "greeting" /\ \A t \in Sends \ {s} : at'[t] = at[t]
    BY <1>4 DEF IInv, TypeOK, Early
  <2>2. /\ link' \in [Sends -> {"none", "up", "stalled", "down"}]
        /\ session' \in [Sends -> {"none", "backlog", "accepted", "ended"} \cup Open] /\ session'[s] = "backlog"
        /\ \A t \in Sends \ {s} : link'[t] = link[t] /\ session'[t] = session[t]
    BY <1>4 DEF IInv, TypeOK
  <2>3. Phase(s)'
    BY <1>1, <1>2, <1>3, <2>1, <2>2 DEF Phase, Connecting, LoggingIn, Addressing, Delivering,
       Blank, Holds, Untaken
  <2>4. asked' \in [Sends -> Nat] /\ sendmail' \in [Sends -> {"none", "ok", "error"}] /\ Domains'
        /\ (sendmail'[s] = "ok" => Taken(s))
    BY <1>1, <1>4 DEF IInv, TypeOK, Domains, Replies
  <2>5. QED
    BY <1>1, <1>2, <1>4, <2>1, <2>2, <2>3, <2>4, ClientStep
<1>5. CASE EndSendMail(s, "error") /\ UNCHANGED session
  <2>1. /\ sendmail' = [sendmail EXCEPT ![s] = "error"] /\ link' = [link EXCEPT ![s] = "down"]
        /\ UNCHANGED at
    BY <1>5 DEF EndSendMail
  <2>2. Phase(s)'
    BY <1>1, <1>5, <2>1, PhaseKept
  <2>3. /\ at' \in [Sends -> Early \cup Late] /\ asked' \in [Sends -> Nat]
        /\ sendmail' \in [Sends -> {"none", "ok", "error"}] /\ sendmail'[s] = "error"
        /\ link' \in [Sends -> {"none", "up", "stalled", "down"}]
        /\ session' \in [Sends -> {"none", "backlog", "accepted", "ended"} \cup Open]
        /\ \A t \in Sends \ {s} : sendmail'[t] = sendmail[t] /\ link'[t] = link[t]
        /\ Domains'
    BY <1>1, <1>5, <2>1 DEF IInv, TypeOK, Domains
  <2>4. QED
    BY <1>1, <1>2, <1>5, <2>1, <2>2, <2>3, ClientStep
<1>6. QED
  BY <1>4, <1>5 DEF Dial

LEMMA DisconnectedKeeps ==
  ASSUME IInv, NEW s \in Sends, Disconnected(s)
  PROVE  IInv'
<1>1. /\ sendmail' = [sendmail EXCEPT ![s] = "error"] /\ link' = [link EXCEPT ![s] = "down"]
      /\ link[s] = "down"
      /\ UNCHANGED <<fixed, caller, at, asked, toServer, toClient, session, envelope, lines, captured,
                     life, troubles>>
  BY DEF Disconnected, EndSendMail, handler
<1>2. toClient[s] = <<>>
  BY <1>1 DEF IInv, Replies
<1>3. Phase(s)'
  BY <1>1, PhaseKept
<1>4. /\ at' \in [Sends -> Early \cup Late] /\ asked' \in [Sends -> Nat]
      /\ sendmail' \in [Sends -> {"none", "ok", "error"}] /\ sendmail'[s] = "error"
      /\ link' \in [Sends -> {"none", "up", "stalled", "down"}]
      /\ session' \in [Sends -> {"none", "backlog", "accepted", "ended"} \cup Open]
      /\ \A t \in Sends \ {s} : sendmail'[t] = sendmail[t] /\ link'[t] = link[t]
      /\ Domains'
  BY <1>1 DEF IInv, TypeOK, Domains
<1>5. QED
  BY <1>1, <1>2, <1>3, <1>4, ClientStep

(* A reply has come: everything SendMail has written is read. *)
LEMMA ReplyHeard ==
  ASSUME IInv, NEW s \in Sends, ReadReply(s)
  PROVE  /\ toServer[s] = <<>> /\ toClient'[s] = <<>> /\ Hears(s, Head(toClient[s]))
         /\ at[s] \in (Early \cup Late) \ {"idle", "dial"} /\ asked[s] \in Nat
         /\ at[s] \in DOMAIN Expected /\ Head(toClient[s]) = Expected[at[s]] => Proceed(s)
         /\ ~(at[s] \in DOMAIN Expected /\ Head(toClient[s]) = Expected[at[s]]) => GiveUp(s)
         /\ \A t \in Sends \ {s} : toClient'[t] = toClient[t]
         /\ DOMAIN toClient' = Sends /\ DOMAIN toServer = Sends /\ DOMAIN envelope' = Sends
         /\ UNCHANGED <<fixed, transport, server, caller, session, envelope, lines, captured, life, troubles>>
<1>1. /\ toClient[s] # <<>> /\ toClient' = [toClient EXCEPT ![s] = Tail(@)]
      /\ at[s] \in DOMAIN Expected /\ Head(toClient[s]) = Expected[at[s]] => Proceed(s)
      /\ ~(at[s] \in DOMAIN Expected /\ Head(toClient[s]) = Expected[at[s]]) => GiveUp(s)
      /\ UNCHANGED <<fixed, transport, server, caller, session, envelope, lines, captured, life, troubles>>
  BY DEF ReadReply, handler, fixed
<1>2. PICK code \in Codes : toClient[s] = <<code>>
  BY <1>1 DEF IInv, Replies, Hears
<1>3. Head(toClient[s]) = code /\ Tail(toClient[s]) = <<>>
  BY <1>2, Single
<1>4. at[s] \in Early \cup Late /\ Phase(s) /\ asked[s] \in Nat
  BY DEF IInv, TypeOK
<1>5. toServer[s] = <<>> /\ at[s] \notin {"idle", "dial"}
  BY <1>1, <1>4 DEF Phase, Connecting, LoggingIn, Addressing, Delivering, Asks, Early, Late
<1>6. DOMAIN toClient = Sends /\ DOMAIN toServer = Sends /\ DOMAIN envelope = Sends
  BY DEF IInv, Domains
<1>7. toClient' = [toClient EXCEPT ![s] = <<>>]
  BY <1>1, <1>3
<1>8. Hears(s, Head(toClient[s]))
  BY <1>2, <1>3 DEF Hears
<1>9. QED
  BY <1>1, <1>4, <1>5, <1>6, <1>7, <1>8

(* What it writes next is all there is to read. *)
LEMMA Says ==
  ASSUME IInv, NEW s \in Sends, ReadReply(s), NEW step \in Early \cup Late, NEW S, NEW items \in Seq(S),
         at' = [at EXCEPT ![s] = step], toServer' = [toServer EXCEPT ![s] = @ \o items],
         UNCHANGED <<sendmail, link>>, asked' \in [Sends -> Nat],
         \A t \in Sends \ {s} : asked'[t] = asked[t],
         at'[s] = step /\ toServer'[s] = items => Phase(s)'
  PROVE  IInv'
<1>1. toServer[s] \o items = items
  BY ReplyHeard
<1>2. toServer' = [toServer EXCEPT ![s] = items]
  BY <1>1
<1>3. /\ at' \in [Sends -> Early \cup Late] /\ at'[s] = step /\ \A t \in Sends \ {s} : at'[t] = at[t]
      /\ sendmail' \in [Sends -> {"none", "ok", "error"}] /\ link' \in [Sends -> {"none", "up", "stalled", "down"}]
      /\ (sendmail'[s] = "ok" => Taken(s))
  BY DEF IInv, TypeOK, Replies
<1>4. toServer'[s] = items /\ DOMAIN toServer' = Sends /\ \A t \in Sends \ {s} : toServer'[t] = toServer[t]
  BY <1>2, ReplyHeard
<1>5. /\ UNCHANGED <<fixed, caller, session, envelope, lines, captured, life, troubles>>
      /\ toClient'[s] = <<>> /\ \A t \in Sends \ {s} : toClient'[t] = toClient[t]
      /\ Domains'
  BY <1>4, ReplyHeard DEF Domains
<1>6. session' \in [Sends -> {"none", "backlog", "accepted", "ended"} \cup Open]
  BY <1>5 DEF IInv, TypeOK
<1>7. QED
  BY <1>3, <1>4, <1>5, <1>6, ClientStep

LEMMA SaysOne ==
  ASSUME IInv, NEW s \in Sends, ReadReply(s), NEW step \in Early \cup Late, NEW item,
         Say(s, step, <<item>>), at'[s] = step /\ toServer'[s] = <<item>> => Phase(s)'
  PROVE  IInv'
<1>1. <<item>> \in Seq({item})
  OBVIOUS
<1>2. /\ at' = [at EXCEPT ![s] = step] /\ toServer' = [toServer EXCEPT ![s] = @ \o <<item>>]
      /\ UNCHANGED <<sendmail, link, asked>>
  BY DEF Say
<1>3. asked' \in [Sends -> Nat]
  BY <1>2 DEF IInv, TypeOK
<1>4. QED
  BY <1>1, <1>2, <1>3, Says

LEMMA EndsKeeps ==
  ASSUME IInv, NEW s \in Sends, ReadReply(s), NEW outcome \in {"ok", "error"}, EndSendMail(s, outcome),
         outcome = "ok" => Taken(s)
  PROVE  IInv'
<1>1. /\ sendmail' = [sendmail EXCEPT ![s] = outcome] /\ link' = [link EXCEPT ![s] = "down"]
      /\ UNCHANGED <<at, asked, toServer>>
  BY DEF EndSendMail
<1>2. /\ UNCHANGED <<fixed, transport, server, caller, session, envelope, lines, captured, life, troubles>>
      /\ toClient'[s] = <<>> /\ toServer[s] = <<>> /\ \A t \in Sends \ {s} : toClient'[t] = toClient[t]
      /\ Domains'
  BY <1>1, ReplyHeard DEF Domains
<1>3. /\ at' \in [Sends -> Early \cup Late] /\ asked' \in [Sends -> Nat]
      /\ sendmail' \in [Sends -> {"none", "ok", "error"}] /\ sendmail'[s] = outcome
      /\ link' \in [Sends -> {"none", "up", "stalled", "down"}]
      /\ session' \in [Sends -> {"none", "backlog", "accepted", "ended"} \cup Open]
      /\ \A t \in Sends \ {s} : sendmail'[t] = sendmail[t] /\ link'[t] = link[t]
  BY <1>1, <1>2 DEF IInv, TypeOK
<1>4. Phase(s)'
  <2>1. Len(toServer[s]) = 0 /\ toServer'[s] = SubSeq(toServer[s], 1, 0)
    BY <1>1, <1>2
  <2>2. 0 \in 0..Len(toServer[s])
    BY <2>1
  <2>3. QED
    BY <1>1, <1>2, <2>1, <2>2, LosePhase
<1>5. QED
  BY <1>1, <1>2, <1>3, <1>4, ClientStep

LEMMA GiveUpKeeps ==
  ASSUME IInv, NEW s \in Sends, ReadReply(s), GiveUp(s)
  PROVE  IInv'
<1>1. /\ UNCHANGED <<transport, server, session, envelope, lines, captured>>
      /\ toClient'[s] = <<>> /\ (Taken(s)' <=> Taken(s))
  BY ReplyHeard DEF Taken
<1>2. Phase(s)
  BY DEF IInv
<1>3. CASE at[s] = "auth"
  <2>1. Say(s, "abort", <<Cmd("*", "")>>)
    BY <1>3 DEF GiveUp
  <2>2. UNCHANGED asked
    BY <2>1 DEF Say
  <2>3. ASSUME at'[s] = "abort", toServer'[s] = <<Cmd("*", "")>>
        PROVE  Phase(s)'
    BY <1>1, <1>2, <1>3, <2>2, <2>3 DEF Phase, Connecting, LoggingIn, Addressing, Delivering,
       Spoken, Untaken, Asks, Cmd
  <2>4. "abort" \in Early \cup Late
    BY DEF Early
  <2>5. QED
    BY <2>1, <2>3, <2>4, SaysOne
<1>4. CASE at[s] = "abort"
  <2>1. Say(s, "leave", <<Cmd("QUIT", "")>>)
    BY <1>4 DEF GiveUp
  <2>2. UNCHANGED asked
    BY <2>1 DEF Say
  <2>3. ASSUME at'[s] = "leave", toServer'[s] = <<Cmd("QUIT", "")>>
        PROVE  Phase(s)'
    BY <1>1, <1>2, <1>4, <2>2, <2>3 DEF Phase, Connecting, LoggingIn, Addressing, Delivering,
       Spoken, Untaken, Asks, Cmd
  <2>4. "leave" \in Early \cup Late
    BY DEF Early
  <2>5. QED
    BY <2>1, <2>3, <2>4, SaysOne
<1>5. CASE at[s] \notin {"auth", "abort"}
  <2>1. EndSendMail(s, "error")
    BY <1>5 DEF GiveUp
  <2>2. QED
    BY <2>1, EndsKeeps
<1>6. QED
  BY <1>3, <1>4, <1>5

LEMMA MailFromKeeps ==
  ASSUME IInv, NEW s \in Sends, ReadReply(s), MailFrom(s),
         Holds(s, "", <<>>, transport.login), Spoken(s), Untaken(s),
         transport.login # NoLogin => LoginAccepted(transport.login)
  PROVE  IInv'
<1>1. /\ UNCHANGED <<transport, server, session, envelope, lines, captured>>
      /\ toClient'[s] = <<>> /\ (Taken(s)' <=> Taken(s))
  BY ReplyHeard DEF Taken
<1>2. Say(s, "mail", <<Cmd("MAIL", From(s))>>)
  BY DEF MailFrom, From
<1>3. UNCHANGED asked
  BY <1>2 DEF Say
<1>4. ASSUME at'[s] = "mail", toServer'[s] = <<Cmd("MAIL", From(s))>>
      PROVE  Phase(s)'
  BY <1>1, <1>3, <1>4 DEF Phase, Connecting, LoggingIn, Addressing, Delivering,
     Spoken, Untaken, Asks, Cmd, Holds, From, LoginAccepted
<1>5. "mail" \in Early \cup Late
  BY DEF Early
<1>6. QED
  BY <1>2, <1>4, <1>5, SaysOne

LEMMA NextOne ==
  ASSUME NEW n \in Nat, NEW k \in Nat, k < n
  PROVE  k + 1 \in 1..n /\ (k + 1) - 1 = k
OBVIOUS

LEMMA AllNamed ==
  ASSUME NEW n \in Nat, NEW k \in 0..n, ~(k < n)
  PROVE  k = n
OBVIOUS

LEMMA Counted ==
  ASSUME NEW f \in [Sends -> Nat], NEW g, NEW s \in Sends, g = [f EXCEPT ![s] = @ + 1]
  PROVE  g[s] = f[s] + 1 /\ g \in [Sends -> Nat] /\ \A t \in Sends \ {s} : g[t] = f[t]
OBVIOUS

LEMMA OneLong ==
  ASSUME NEW x
  PROVE  <<x>> \in Seq({x})
OBVIOUS

LEMMA RecipientTypes ==
  ASSUME NEW s \in Sends
  PROVE  To(s) \in Seq(Addresses) /\ Len(To(s)) \in Nat
<1>1. Envelopes[s] \in [from : Addresses, to : Seq(Addresses), data : Seq(Line)]
  BY DialogueAssumption
<1>2. To(s) \in Seq(Addresses)
  BY <1>1 DEF To
<1>3. QED
  BY <1>2

(* The next recipient, or the data once all have been named.               *)
NameOrData(s) ==
  IF asked[s] < Len(To(s)) THEN SayRcpt(s) ELSE Say(s, "data", <<Cmd("DATA", "")>>)

LEMMA RecipientsKeep ==
  ASSUME IInv, NEW s \in Sends, ReadReply(s), Spoken(s), ~Taken(s), Admitted,
         asked[s] \in 0..Len(To(s)), Holds(s, From(s), SubSeq(To(s), 1, asked[s]), transport.login),
         NameOrData(s)
  PROVE  IInv'
<1>1. /\ UNCHANGED <<transport, server, session, envelope, lines, captured>>
      /\ toClient'[s] = <<>> /\ (Taken(s)' <=> Taken(s)) /\ asked[s] \in Nat
  BY ReplyHeard DEF Taken
<1>2. To(s) \in Seq(Addresses) /\ Len(To(s)) \in Nat
  BY RecipientTypes
<1>3. Admitted' = Admitted
  BY <1>1 DEF Admitted, LoginAccepted
<1>4. CASE asked[s] < Len(To(s))
  <2>1. /\ asked' = [asked EXCEPT ![s] = @ + 1]
        /\ at' = [at EXCEPT ![s] = "rcpt"]
        /\ toServer' = [toServer EXCEPT ![s] = Append(@, Cmd("RCPT", To(s)[asked'[s]]))]
        /\ UNCHANGED <<sendmail, link>>
    BY <1>4 DEF NameOrData, SayRcpt, To
  <2>2. asked'[s] = asked[s] + 1 /\ asked' \in [Sends -> Nat] /\ \A t \in Sends \ {s} : asked'[t] = asked[t]
    <3>1. asked \in [Sends -> Nat]
      BY DEF IInv, TypeOK
    <3>2. QED
      BY <2>1, <3>1, Counted
  <2>3. asked'[s] \in 1..Len(To(s)) /\ asked'[s] - 1 = asked[s]
    BY <1>1, <1>2, <1>4, <2>2, NextOne
  <2>4. toServer' = [toServer EXCEPT ![s] = @ \o <<Cmd("RCPT", To(s)[asked'[s]])>>]
    <3>1. toServer[s] = <<>>
      BY ReplyHeard
    <3>2. Append(toServer[s], Cmd("RCPT", To(s)[asked'[s]])) = toServer[s] \o <<Cmd("RCPT", To(s)[asked'[s]])>>
      BY <3>1, Single
    <3>3. QED
      BY <2>1, <3>2
  <2>5. ASSUME at'[s] = "rcpt", toServer'[s] = <<Cmd("RCPT", To(s)[asked'[s]])>>
        PROVE  Phase(s)'
    BY <1>1, <1>3, <2>3, <2>5 DEF Phase, Connecting, LoggingIn, Addressing, Delivering,
       Spoken, Asks, Cmd, Holds, From, To
  <2>6. "rcpt" \in Early \cup Late
    BY DEF Early
  <2>7. <<Cmd("RCPT", To(s)[asked'[s]])>> \in Seq({Cmd("RCPT", To(s)[asked'[s]])})
    BY OneLong
  <2>8. QED
    BY <2>1, <2>2, <2>4, <2>5, <2>6, <2>7, Says
<1>5. CASE ~(asked[s] < Len(To(s)))
  <2>1. Say(s, "data", <<Cmd("DATA", "")>>)
    BY <1>5 DEF NameOrData
  <2>2. Holds(s, From(s), To(s), transport.login)
    <3>1. asked[s] = Len(To(s))
      BY <1>2, <1>5, AllNamed
    <3>2. SubSeq(To(s), 1, asked[s]) = To(s)
      BY <1>2, <3>1, WholePart
    <3>3. QED
      BY <3>2
  <2>3. ASSUME at'[s] = "data", toServer'[s] = <<Cmd("DATA", "")>>
        PROVE  Phase(s)'
    BY <1>1, <1>3, <2>2, <2>3 DEF Phase, Connecting, LoggingIn, Addressing, Delivering,
       Spoken, Asks, Cmd, Holds, From, To
  <2>4. "data" \in Early \cup Late
    BY DEF Early
  <2>5. QED
    BY <2>1, <2>3, <2>4, SaysOne
<1>6. QED
  BY <1>4, <1>5

LEMMA Expectations ==
  /\ DOMAIN Expected = {"greeting", "ehlo", "auth", "mail", "rcpt", "data", "dot", "quit"}
  /\ Expected["auth"] = 235 /\ Expected["mail"] = 250 /\ Expected["rcpt"] = 250
  /\ Expected["data"] = 354
BY DEF Expected

LEMMA ReadReplyKeeps ==
  ASSUME IInv, NEW s \in Sends, ReadReply(s)
  PROVE  IInv'
<1>1. CASE ~(at[s] \in DOMAIN Expected /\ Head(toClient[s]) = Expected[at[s]])
  BY <1>1, ReplyHeard, GiveUpKeeps
<1>2. ASSUME at[s] \in DOMAIN Expected, Head(toClient[s]) = Expected[at[s]]
      PROVE  IInv'
  <2>1. Proceed(s) /\ Phase(s) /\ Hears(s, Expected[at[s]]) /\ toClient[s] # <<>>
    BY <1>2, ReplyHeard, Single DEF IInv, Hears
  <2>2. /\ UNCHANGED <<transport, server, session, envelope, lines, captured>>
        /\ toServer[s] = <<>> /\ toClient'[s] = <<>> /\ (Taken(s)' <=> Taken(s))
    BY ReplyHeard DEF Taken
  <2>3. \A item : ~Asks(s, item)
    BY <2>2, Single DEF Asks
  <2>4. CASE at[s] = "greeting"
    <3>1. Say(s, "ehlo", <<Cmd("EHLO", "")>>)
      BY <2>1, <2>4 DEF Proceed
    <3>2. Blank(s) /\ Spoken(s) /\ Untaken(s)
      BY <2>1, <2>4 DEF Phase, Connecting, Spoken
    <3>3. UNCHANGED asked
      BY <3>1 DEF Say
    <3>4. ASSUME at'[s] = "ehlo", toServer'[s] = <<Cmd("EHLO", "")>>
          PROVE  Phase(s)'
      BY <2>2, <3>2, <3>3, <3>4 DEF Phase, Connecting, LoggingIn, Addressing, Delivering,
         Spoken, Untaken, Asks, Cmd, Blank, Holds
    <3>5. "ehlo" \in Early \cup Late
      BY DEF Early
    <3>6. QED
      BY <3>1, <3>4, <3>5, SaysOne
  <2>5. CASE at[s] = "ehlo"
    <3>1. Blank(s) /\ Spoken(s) /\ Untaken(s)
      BY <2>1, <2>5 DEF Phase, LoggingIn
    <3>2. CASE transport.login # NoLogin
      <4>1. Say(s, "auth", <<Cmd("AUTH", transport.login)>>)
        BY <2>1, <2>5, <3>2 DEF Proceed
      <4>2. UNCHANGED asked
        BY <4>1 DEF Say
      <4>3. ASSUME at'[s] = "auth", toServer'[s] = <<Cmd("AUTH", transport.login)>>
            PROVE  Phase(s)'
        BY <2>2, <3>1, <3>2, <4>2, <4>3 DEF Phase, Connecting, LoggingIn, Addressing, Delivering,
           Spoken, Untaken, Asks, Cmd, Blank, Holds
      <4>4. "auth" \in Early \cup Late
        BY DEF Early
      <4>5. QED
        BY <4>1, <4>3, <4>4, SaysOne
    <3>3. CASE transport.login = NoLogin
      <4>1. MailFrom(s)
        BY <2>1, <2>5, <3>3 DEF Proceed
      <4>2. Holds(s, "", <<>>, transport.login)
        BY <3>1, <3>3 DEF Blank
      <4>3. QED
        BY <3>1, <3>3, <4>1, <4>2, MailFromKeeps
    <3>4. QED
      BY <3>2, <3>3
  <2>6. CASE at[s] = "auth"
    <3>1. MailFrom(s) /\ Hears(s, 235)
      BY <2>1, <2>6, Expectations DEF Proceed
    <3>2. /\ Spoken(s) /\ Untaken(s) /\ LoginAccepted(transport.login)
          /\ Holds(s, "", <<>>, transport.login)
      BY <2>1, <2>3, <2>6, <3>1 DEF Phase, LoggingIn
    <3>3. QED
      BY <3>1, <3>2, MailFromKeeps
  <2>7. CASE at[s] \in {"mail", "rcpt"}
    <3>1. NameOrData(s)
      BY <2>1, <2>7 DEF Proceed, To, NameOrData
    <3>2. Hears(s, 250)
      BY <2>1, <2>7, Expectations
    <3>3. To(s) \in Seq(Addresses) /\ Len(To(s)) \in Nat
      BY RecipientTypes
    <3>4. Spoken(s) /\ ~Taken(s) /\ Admitted
      BY <2>1, <2>3, <2>7, <3>2 DEF Phase, Addressing, Untaken
    <3>5. asked[s] \in 0..Len(To(s)) /\ Holds(s, From(s), SubSeq(To(s), 1, asked[s]), transport.login)
      <4>1. CASE at[s] = "mail"
        <5>1. asked[s] = 0 /\ Holds(s, From(s), <<>>, transport.login)
          BY <2>1, <2>3, <3>2, <4>1 DEF Phase, Addressing, Untaken
        <5>2. SubSeq(To(s), 1, 0) = <<>> /\ 0 \in 0..Len(To(s))
          BY <3>3, WholePart
        <5>3. QED
          BY <5>1, <5>2
      <4>2. CASE at[s] = "rcpt"
        <5>1. asked[s] \in 1..Len(To(s)) /\ Holds(s, From(s), SubSeq(To(s), 1, asked[s]), transport.login)
          BY <2>1, <2>3, <3>2, <4>2 DEF Phase, Addressing
        <5>2. QED
          BY <3>3, <5>1
      <4>3. QED
        BY <2>7, <4>1, <4>2
    <3>6. QED
      BY <3>1, <3>4, <3>5, RecipientsKeep
  <2>8. CASE at[s] = "data"
    <3>1. Say(s, "dot", Written(Lines(s)))
      BY <2>1, <2>8 DEF Proceed, Lines
    <3>2. /\ session[s] = "data" /\ lines[s] = <<>> /\ ~Taken(s) /\ Admitted
          /\ Holds(s, From(s), To(s), transport.login)
      <4>1. Hears(s, 354)
        BY <2>1, <2>8, Expectations
      <4>2. Delivering(s)
        BY <2>1 DEF Phase
      <4>3. QED
        BY <2>3, <2>8, <4>1, <4>2 DEF Delivering
    <3>3. UNCHANGED <<asked, sendmail, link>> /\ at' = [at EXCEPT ![s] = "dot"]
          /\ toServer' = [toServer EXCEPT ![s] = @ \o Written(Lines(s))]
      BY <3>1 DEF Say
    <3>4. Lines(s) \in Seq(Line) /\ Len(Lines(s)) \in Nat
      BY EnvelopeTypes
    <3>5. /\ Written(Lines(s)) \in Seq([verb : {""}, arg : Line])
          /\ Len(Written(Lines(s))) = Len(Lines(s)) + 1
      BY <3>4, WhatIsWritten
    <3>6. ASSUME at'[s] = "dot", toServer'[s] = Written(Lines(s))
          PROVE  Phase(s)'
      <4>1. SubSeq(Lines(s), 1, 0) = <<>> /\ SubSeq(Written(Lines(s)), 1, Len(Lines(s)) + 1) = Written(Lines(s))
        BY <3>4, <3>5, WholePart
      <4>2. 0 \in 0..Len(Lines(s)) /\ Len(Lines(s)) + 1 \in 0..(Len(Lines(s)) + 1) /\ 0 + 1 = 1
        BY <3>4
      <4>3. Underway(s)'
        BY <2>2, <3>2, <3>6, <4>1, <4>2 DEF Underway, Lines
      <4>4. Admitted'
        BY <2>2, <3>2 DEF Admitted, LoginAccepted
      <4>5. QED
        BY <2>2, <3>2, <3>6, <4>3, <4>4 DEF Phase, Connecting, LoggingIn, Addressing, Delivering,
           Holds, From, To
    <3>7. "dot" \in Early \cup Late
      BY DEF Late
    <3>8. asked' \in [Sends -> Nat]
      BY <3>3 DEF IInv, TypeOK
    <3>9. QED
      BY <3>3, <3>5, <3>6, <3>7, <3>8, Says
  <2>9. CASE at[s] = "dot"
    <3>1. Say(s, "quit", <<Cmd("QUIT", "")>>)
      BY <2>1, <2>9 DEF Proceed
    <3>2. Spoken(s) /\ Taken(s)
      BY <2>1, <2>9 DEF Phase, Delivering, Spoken
    <3>3. UNCHANGED asked
      BY <3>1 DEF Say
    <3>4. ASSUME at'[s] = "quit", toServer'[s] = <<Cmd("QUIT", "")>>
          PROVE  Phase(s)'
      BY <2>2, <3>2, <3>3, <3>4 DEF Phase, Connecting, LoggingIn, Addressing, Delivering,
         Spoken, Asks, Cmd
    <3>5. "quit" \in Early \cup Late
      BY DEF Late
    <3>6. QED
      BY <3>1, <3>4, <3>5, SaysOne
  <2>10. CASE at[s] = "quit"
    <3>1. EndSendMail(s, "ok")
      BY <2>1, <2>10 DEF Proceed
    <3>2. Taken(s)
      BY <2>1, <2>10 DEF Phase, Delivering
    <3>3. QED
      BY <3>1, <3>2, EndsKeeps
  <2>11. QED
    BY <1>2, <2>4, <2>5, <2>6, <2>7, <2>8, <2>9, <2>10, Expectations
<1>3. QED
  BY <1>1, <1>2

(* Every step of SendMail, of the server and of the world keeps lockstep.  *)
LEMMA HandleKeeps ==
  ASSUME IInv, NEW s \in Sends, Handle(s)
  PROVE  IInv'
<1>1. CASE Greet(s) \/ Ehlo(s) \/ Auth(s)
  BY <1>1, GreetKeeps, EhloKeeps, AuthKeeps
<1>2. CASE Mail(s) \/ Rcpt(s) \/ Data(s)
  BY <1>2, MailKeeps, RcptKeeps, DataKeeps
<1>3. CASE ReadLine(s) \/ Capture(s)
  BY <1>3, ReadLineKeeps, CaptureKeeps
<1>4. CASE Quit(s) \/ Unrecognized(s) \/ HangUp(s)
  BY <1>4, QuitKeeps, UnrecognizedKeeps, HangUpKeeps
<1>5. QED
  BY <1>1, <1>2, <1>3, <1>4 DEF Handle

LEMMA GoroutineKeeps ==
  ASSUME IInv, NEW s \in Sends, Goroutine(s)
  PROVE  IInv'
<1>1. CASE SendMailDone(s) \/ ContextDone(s)
  BY <1>1, ReturnKeeps
<1>2. CASE SendMail(s)
  BY <1>2, DialKeeps, ReadReplyKeeps, DisconnectedKeeps DEF SendMail
<1>3. CASE Accept(s) \/ StartHandler(s) \/ Handle(s)
  BY <1>3, AcceptKeeps, StartHandlerKeeps, HandleKeeps
<1>4. QED
  BY <1>1, <1>2, <1>3 DEF Goroutine

LEMMA StepKeeps == IInv /\ [Next]_vars => IInv'
<1> SUFFICES ASSUME IInv, [Next]_vars PROVE IInv'
  OBVIOUS
<1>1. CASE \E s \in Sends : Goroutine(s)
  BY <1>1, GoroutineKeeps
<1>2. CASE ServeReturns \/ CloseReturns \/ CloseAgain \/ \E s \in Sends : Stall(s) \/ Cancel(s)
  BY <1>2, QuietKeeps
<1>3. CASE \E s \in Sends : Send(s) \/ Lose(s)
  BY <1>3, SendKeeps, LoseKeeps
<1>4. CASE Close
  BY <1>4, CloseKeeps
<1>5. CASE UNCHANGED vars
  <2>1. /\ UNCHANGED <<fixed, transport, server, at, asked, sendmail, result, ended, link, toServer, toClient>>
        /\ UNCHANGED <<session, envelope, lines, captured, closer, reclosed, serving, troubles>>
    BY <1>5 DEF vars, fixed, client, caller, network, handler, life
  <2>2. TypeOK' /\ Domains'
    BY <2>1 DEF IInv, TypeOK, Domains
  <2>3. Captures' /\ \A t : Taken(t)' <=> Taken(t)
    BY <2>1, CapturesKept DEF IInv
  <2>4. ASSUME NEW t \in Sends
        PROVE  (Phase(t) /\ Replies(t))'
    <3>1. SameAt(t)
      BY <2>1, <2>3 DEF SameAt
    <3>2. QED
      BY <2>1, <3>1, Undisturbed DEF IInv
  <2>5. QED
    BY <2>2, <2>3, <2>4 DEF IInv
<1>6. QED
  BY <1>1, <1>2, <1>3, <1>4, <1>5 DEF Next, Goroutines

LEMMA IInvHolds == Spec => []IInv
BY InitLockstep, StepKeeps, PTL DEF Spec

(* The variables keep their types.                                         *)
THEOREM DialogueTypes == Spec => []TypeOK
<1>1. IInv => TypeOK
  BY DEF IInv
<1>2. QED
  BY <1>1, IInvHolds, PTL

(* The server captures each message whole, once, and under the login it    *)
(* was sent with (SendMail and its DotWriter against handle and readData). *)
THEOREM CapturesWhatIsSent == Spec => []CapturedAsSent
<1>1. ASSUME IInv
      PROVE  CapturedAsSent
  <2> SUFFICES ASSUME NEW i \in 1..Len(captured)
               PROVE  /\ [from |-> captured[i].from, to |-> captured[i].to, data |-> captured[i].data]
                           = Envelopes[captured[i].send]
                      /\ captured[i].login = transport.login
                      /\ CapturedFrom(captured[i].send) = {i}
    BY DEF CapturedAsSent
  <2>1. PICK s \in Sends : captured[i] = Delivered(s)
    BY <1>1 DEF IInv, Captures
  <2>2. /\ captured[i].send = s /\ captured[i].from = Envelopes[s].from /\ captured[i].to = Envelopes[s].to
        /\ captured[i].data = Envelopes[s].data /\ captured[i].login = transport.login
    BY <2>1 DEF Delivered, From, To, Lines
  <2>3. Envelopes[s] \in [from : Addresses, to : Seq(Addresses), data : Seq(Line)]
    BY DialogueAssumption
  <2>4. Envelopes[s] = [from |-> Envelopes[s].from, to |-> Envelopes[s].to, data |-> Envelopes[s].data]
    BY <2>3
  <2>5. CapturedFrom(captured[i].send) = {i}
    BY <1>1 DEF IInv, Captures, CapturedFrom
  <2>6. QED
    BY <2>2, <2>4, <2>5
<1>2. QED
  BY <1>1, IInvHolds, PTL

(* A server that wants a login captures nothing without an accepted one    *)
(* (the check at MAIL, which DATA relies on).                              *)
THEOREM CapturesWithLogin == Spec => []OnlyWithLogin
<1>1. ASSUME IInv
      PROVE  OnlyWithLogin
  <2> SUFFICES ASSUME server.requireAuth, NEW i \in 1..Len(captured)
               PROVE  captured[i].login # NoLogin /\ LoginAccepted(captured[i].login)
    BY DEF OnlyWithLogin
  <2>1. PICK s \in Sends : captured[i] = Delivered(s)
    BY <1>1 DEF IInv, Captures
  <2>2. captured[i].login = transport.login /\ captured # <<>>
    BY <2>1 DEF Delivered
  <2>3. QED
    BY <1>1, <2>2 DEF IInv, Captures, Admitted
<1>2. QED
  BY <1>1, IInvHolds, PTL
-----------------------------------------------------------------------------
(* Close waits for serve(), which starts every handler it has accepted a   *)
(* connection for, and for the handlers: once it has returned none is left,*)
(* and with the listener closed none can start.                            *)
Quiet ==
  /\ \A s \in Sends : session[s] = "accepted" => serving
  /\ ~serving => closer # "open"
  /\ closer = "returned" => ~serving /\ \A s \in Sends : session[s] \notin Open

(* Most steps leave serve() and Close alone and accept no connection.      *)
Aside ==
  /\ UNCHANGED <<closer, serving>>
  /\ \A s \in Sends : session'[s] = "accepted" => session[s] = "accepted"

LEMMA SessionMoves ==
  ASSUME IInv, NEW t \in Sends, NEW step, step # "accepted", session' = [session EXCEPT ![t] = step]
  PROVE  \A s \in Sends : session'[s] = "accepted" => session[s] = "accepted"
<1>1. ASSUME NEW s \in Sends PROVE session'[s] = IF s = t THEN step ELSE session[s]
  BY SessionTypes
<1>2. QED
  BY <1>1

LEMMA HandleAside ==
  ASSUME IInv, NEW t \in Sends, Handle(t)
  PROVE  Aside
<1>1. UNCHANGED <<closer, serving>>
  BY ZenonT(60) DEF Handle, Greet, Ehlo, Auth, Mail, Rcpt, Data, ReadLine, Capture, Quit, Unrecognized,
     HangUp, EndSession, Handled, life
<1>2. \/ UNCHANGED session
      \/ \E step \in {"command", "data", "ended"} : session' = [session EXCEPT ![t] = step]
  <2>1. CASE Greet(t) \/ Ehlo(t) \/ Auth(t) \/ Mail(t) \/ Rcpt(t)
    BY <2>1 DEF Greet, Ehlo, Auth, Mail, Rcpt, handler
  <2>2. CASE Data(t) \/ ReadLine(t) \/ Capture(t) \/ Quit(t) \/ Unrecognized(t) \/ HangUp(t)
    BY <2>2 DEF Data, ReadLine, Capture, Quit, Unrecognized, HangUp, EndSession, handler
  <2>3. QED
    BY <2>1, <2>2 DEF Handle
<1>3. \A s \in Sends : session'[s] = "accepted" => session[s] = "accepted"
  <2>1. CASE UNCHANGED session
    BY <2>1
  <2>2. CASE \E step \in {"command", "data", "ended"} : session' = [session EXCEPT ![t] = step]
    BY <2>2, SessionMoves
  <2>3. QED
    BY <1>2, <2>1, <2>2
<1>4. QED
  BY <1>1, <1>3 DEF Aside

LEMMA OthersAside ==
  ASSUME IInv, NEW t \in Sends,
         \/ SendMailDone(t) \/ ContextDone(t) \/ SendMail(t) \/ StartHandler(t)
         \/ Send(t) \/ Lose(t) \/ Stall(t) \/ Cancel(t)
  PROVE  Aside
<1>1. UNCHANGED <<closer, serving>>
  BY ZenonT(60) DEF SendMailDone, ContextDone, Return, SendMail, Dial, ReadReply, Disconnected, StartHandler,
     Send, Lose, Stall, Cancel, life
<1>2. UNCHANGED session \/ \E step \in {"backlog", "greet"} : session' = [session EXCEPT ![t] = step]
  <2>1. CASE SendMailDone(t) \/ ContextDone(t) \/ Send(t) \/ Lose(t) \/ Stall(t) \/ Cancel(t)
    BY <2>1 DEF SendMailDone, ContextDone, Return, Send, Lose, Stall, Cancel, handler
  <2>2. CASE SendMail(t) \/ StartHandler(t)
    BY <2>2 DEF SendMail, Dial, ReadReply, Disconnected, StartHandler, handler
  <2>3. QED
    BY <2>1, <2>2
<1>3. \A s \in Sends : session'[s] = "accepted" => session[s] = "accepted"
  <2>1. CASE UNCHANGED session
    BY <2>1
  <2>2. CASE \E step \in {"backlog", "greet"} : session' = [session EXCEPT ![t] = step]
    BY <2>2, SessionMoves
  <2>3. QED
    BY <1>2, <2>1, <2>2
<1>4. QED
  BY <1>1, <1>3 DEF Aside

LEMMA CapturesOpenly ==
  ASSUME Quiet, closer = "returned", [Next]_vars
  PROVE  captured' = captured
<1>1. ASSUME NEW s \in Sends
      PROVE  ~Capture(s)
  BY DEF Quiet, Capture, Read, Open
<1>2. ASSUME NEW s \in Sends, Handle(s)
      PROVE  UNCHANGED captured
  <2>1. CASE Greet(s) \/ Ehlo(s) \/ Auth(s) \/ Mail(s)
    BY <2>1 DEF Greet, Ehlo, Auth, Mail, handler
  <2>2. CASE Rcpt(s) \/ Data(s) \/ ReadLine(s)
    BY <2>2 DEF Rcpt, Data, ReadLine
  <2>3. CASE Quit(s) \/ Unrecognized(s) \/ HangUp(s)
    BY <2>3 DEF Quit, Unrecognized, HangUp, handler
  <2>4. QED
    BY <1>1, <1>2, <2>1, <2>2, <2>3 DEF Handle
<1>3. ASSUME NEW s \in Sends, SendMailDone(s) \/ ContextDone(s) \/ SendMail(s) \/ Accept(s) \/ StartHandler(s)
      PROVE  UNCHANGED captured
  BY <1>3 DEF SendMailDone, ContextDone, Return, SendMail, Dial, ReadReply, Disconnected, Accept, StartHandler,
              handler
<1>4. ASSUME NEW s \in Sends, Send(s) \/ Lose(s) \/ Stall(s) \/ Cancel(s)
      PROVE  UNCHANGED captured
  BY <1>4 DEF Send, Lose, Stall, Cancel, handler
<1>5. CASE ServeReturns \/ CloseReturns \/ Close \/ CloseAgain \/ UNCHANGED vars
  BY <1>5 DEF ServeReturns, CloseReturns, Close, CloseAgain, handler, vars
<1>6. QED
  BY <1>2, <1>3, <1>4, <1>5 DEF Next, Goroutines, Goroutine

LEMMA SessionsOver ==
  ASSUME Quiet, closer = "returned", [Next]_vars
  PROVE  session' = session
<1>1. ~serving /\ \A t \in Sends : session[t] \notin Open \cup {"accepted"}
  BY DEF Quiet
<1>2. ASSUME NEW t \in Sends, Handle(t)
      PROVE  session' = session
  <2>1. session[t] \notin {"greet", "command", "data"}
    BY <1>1 DEF Open
  <2>2. CASE Read(t, "command")
    BY <2>1, <2>2 DEF Read
  <2>3. CASE Read(t, "data")
    BY <2>1, <2>3 DEF Read
  <2>4. CASE Greet(t) \/ HangUp(t)
    BY <2>1, <2>4 DEF Greet, HangUp, EndSession, Open
  <2>5. QED
    BY <1>2, <2>2, <2>3, <2>4 DEF Handle, Ehlo, Auth, Mail, Rcpt, Data, ReadLine, Capture, Quit,
                                  Unrecognized, Command
<1>3. ASSUME NEW t \in Sends, SendMailDone(t) \/ ContextDone(t) \/ SendMail(t) \/ Accept(t) \/ StartHandler(t)
      PROVE  session' = session
  <2>1. ~(closer = "open")
    OBVIOUS
  <2>2. CASE SendMailDone(t) \/ ContextDone(t) \/ Accept(t)
    BY <2>1, <2>2 DEF SendMailDone, ContextDone, Return, Accept, handler
  <2>3. CASE SendMail(t)
    BY <2>1, <2>3 DEF SendMail, Dial, ReadReply, Disconnected, handler
  <2>4. CASE StartHandler(t)
    BY <1>1, <2>4 DEF StartHandler
  <2>5. QED
    BY <1>3, <2>2, <2>3, <2>4
<1>4. ASSUME NEW t \in Sends, Send(t) \/ Lose(t) \/ Stall(t) \/ Cancel(t)
      PROVE  session' = session
  BY <1>4 DEF Send, Lose, Stall, Cancel, handler
<1>5. CASE ServeReturns \/ CloseAgain \/ UNCHANGED vars
  BY <1>5 DEF ServeReturns, CloseAgain, handler, vars
<1>6. ~CloseReturns /\ ~Close
  BY DEF CloseReturns, Close
<1>7. QED
  BY <1>2, <1>3, <1>4, <1>5, <1>6 DEF Next, Goroutines, Goroutine

LEMMA QuietAside ==
  ASSUME Quiet, [Next]_vars, Aside
  PROVE  Quiet'
<1>1. closer = "returned" => session' = session
  BY SessionsOver
<1>2. QED
  BY <1>1 DEF Quiet, Aside

LEMMA QuietStays ==
  ASSUME IInv, Quiet, [Next]_vars
  PROVE  Quiet'
<1>1. ASSUME NEW t \in Sends, Accept(t)
      PROVE  Quiet'
  BY <1>1 DEF Quiet, Accept, life
<1>2. CASE ServeReturns
  BY <1>2 DEF Quiet, ServeReturns, handler
<1>3. CASE CloseReturns
  BY <1>3 DEF Quiet, CloseReturns, Drained, handler
<1>4. CASE Close
  <2>1. closer' = "waiting" /\ UNCHANGED serving
    BY <1>4 DEF Close
  <2>2. ASSUME NEW s \in Sends, session'[s] = "accepted"
        PROVE  session[s] = "accepted"
    BY <1>4, <2>2 DEF Close
  <2>3. QED
    BY <2>1, <2>2 DEF Quiet
<1>5. CASE CloseAgain \/ UNCHANGED vars
  <2>1. Aside
    BY <1>5 DEF CloseAgain, vars, handler, life, Aside
  <2>2. QED
    BY <2>1, QuietAside
<1>6. QED
  BY <1>1, <1>2, <1>3, <1>4, <1>5, HandleAside, OthersAside, QuietAside DEF Next, Goroutines, Goroutine

(* Once the Close that shut the server has returned, what Messages() shows *)
(* no longer changes.                                                      *)
THEOREM NothingCapturedAfterClose == Spec => NothingAfterClose
<1>1. Init => Quiet
  BY DEF Init, Quiet
<1>2. IInv /\ Quiet /\ [Next]_vars => Quiet'
  BY QuietStays
<1>3. Quiet /\ [Next]_vars => [closer = "returned" => captured' = captured]_captured
  BY CapturesOpenly
<1>4. QED
  BY <1>1, <1>2, <1>3, IInvHolds, PTL DEF Spec, NothingAfterClose
=============================================================================
