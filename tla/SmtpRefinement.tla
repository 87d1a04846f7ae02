--------------------------- MODULE SmtpRefinement ---------------------------
(***************************************************************************)
(* The SMTP dialogue implements the handover, for any number of calls, any *)
(* messages, settings and troubles: each of its steps decides what becomes *)
(* of at most one message, or what one call of Send returns, as            *)
(* SmtpHandover allows.                                                    *)
(***************************************************************************)
EXTENDS SmtpProofs

message == [s \in Sends |-> Fate(s)]

(* What has become of a message, before a step and after it.               *)
LEMMA Fates ==
  ASSUME NEW s
  PROVE  /\ Taken(s) => Fate(s) = "taken"
         /\ ~Taken(s) /\ at[s] = "idle" => Fate(s) = "held"
         /\ ~Taken(s) /\ at[s] # "idle" =>
              Fate(s) = IF at[s] \in Early /\ sendmail[s] = "error" THEN "refused" ELSE "handed"
<1>1. CapturedFrom(s) # {} <=> Taken(s)
  BY DEF CapturedFrom, Taken
<1>2. QED
  BY <1>1 DEF Fate

LEMMA FatesNext ==
  ASSUME NEW s
  PROVE  /\ Taken(s)' => Fate(s)' = "taken"
         /\ ~Taken(s)' /\ at'[s] = "idle" => Fate(s)' = "held"
         /\ ~Taken(s)' /\ at'[s] # "idle" =>
              Fate(s)' = IF at'[s] \in Early /\ sendmail'[s] = "error" THEN "refused" ELSE "handed"
<1>1. CapturedFrom(s)' # {} <=> Taken(s)'
  BY DEF CapturedFrom, Taken
<1>2. QED
  BY <1>1 DEF Fate

(* One message changes, or none does.                                      *)
LEMMA OneFate ==
  ASSUME NEW s \in Sends, NEW from, NEW to, Fate(s) = from, Fate(s)' = to,
         \A t \in Sends \ {s} : Fate(t)' = Fate(t), UNCHANGED result,
         \/ from = to
         \/ from = "held" /\ to = "handed"
         \/ from = "handed" /\ to = "refused"
         \/ from = "handed" /\ to = "taken"
  PROVE  [Handover!Next]_Handover!vars
<1>1. message[s] = from /\ message' = [message EXCEPT ![s] = to]
  BY DEF message
<1>2. CASE from = to
  <2>1. message' = message
    BY <1>1, <1>2 DEF message
  <2>2. QED
    BY <2>1 DEF Handover!vars, message
<1>3. CASE from # to
  <2>1. Handover!Becomes(s, from, to)
    BY <1>1 DEF Handover!Becomes, message
  <2>2. QED
    BY <1>3, <2>1 DEF Handover!Next
<1>4. QED
  BY <1>2, <1>3

LEMMA SameFate ==
  ASSUME NEW t, at'[t] = at[t], sendmail'[t] = sendmail[t], Taken(t)' <=> Taken(t)
  PROVE  Fate(t)' = Fate(t)
<1>1. CASE Taken(t)
  BY <1>1, Fates, FatesNext
<1>2. CASE ~Taken(t)
  BY <1>2, Fates, FatesNext
<1>3. QED
  BY <1>1, <1>2

(* SendMail goes on without deciding anything.                             *)
LEMMA StillHanded ==
  ASSUME NEW s \in Sends, at[s] # "idle", at'[s] # "idle", sendmail[s] = "none", sendmail'[s] # "error",
         Taken(s)' <=> Taken(s)
  PROVE  Fate(s)' = Fate(s)
<1>1. CASE Taken(s)
  BY <1>1, Fates, FatesNext
<1>2. CASE ~Taken(s)
  BY <1>2, Fates, FatesNext
<1>3. QED
  BY <1>1, <1>2
-----------------------------------------------------------------------------
LEMMA InitRefines == Init => Handover!Init
<1> SUFFICES ASSUME Init PROVE Handover!Init
  OBVIOUS
<1>1. ASSUME NEW s \in Sends
      PROVE  Fate(s) = "held"
  <2>1. at[s] = "idle" /\ ~Taken(s)
    BY DEF Init, Taken
  <2>2. QED
    BY <2>1, Fates
<1>2. message = [s \in Sends |-> "held"]
  BY <1>1 DEF message
<1>3. QED
  BY <1>2 DEF Init, Handover!Init, message

(* SendMail either goes on to say something or ends.                       *)
Speaks(s, step) == at' = [at EXCEPT ![s] = step] /\ UNCHANGED sendmail
Ends(s) == UNCHANGED at /\ \E outcome \in {"ok", "error"} : sendmail' = [sendmail EXCEPT ![s] = outcome]

LEMMA SaySpeaks ==
  ASSUME NEW s, NEW step, NEW items, Say(s, step, items)
  PROVE  Speaks(s, step)
BY DEF Say, Speaks

LEMMA EndEnds ==
  ASSUME NEW s, NEW outcome \in {"ok", "error"}, EndSendMail(s, outcome)
  PROVE  Ends(s)
BY DEF EndSendMail, Ends

LEMMA MoveRefines ==
  ASSUME IInv, NEW s \in Sends, Running(s), UNCHANGED <<captured, result>>,
         Ends(s) \/ \E step : step # "idle" /\ Speaks(s, step)
  PROVE  [Handover!Next]_Handover!vars
<1>1. at[s] # "idle" /\ sendmail[s] = "none" /\ \A t : Taken(t)' <=> Taken(t)
  BY DEF Running, Taken
<1>2. DOMAIN at = Sends /\ DOMAIN sendmail = Sends
  BY DEF IInv, TypeOK
<1>3. \A t \in Sends \ {s} : at'[t] = at[t] /\ sendmail'[t] = sendmail[t]
  BY <1>2 DEF Ends, Speaks
<1>4. \A t \in Sends \ {s} : Fate(t)' = Fate(t)
  BY <1>1, <1>3, SameFate
<1>5. CASE sendmail'[s] # "error"
  <2>1. at'[s] # "idle"
    BY <1>1, <1>2 DEF Ends, Speaks
  <2>2. Fate(s)' = Fate(s)
    BY <1>1, <1>5, <2>1, StillHanded
  <2>3. QED
    BY <1>4, <2>2, OneFate
<1>6. CASE sendmail'[s] = "error"
  <2>1. at'[s] = at[s]
    BY <1>1, <1>6 DEF Ends, Speaks
  <2>2. CASE Taken(s)
    <3>1. Fate(s) = "taken" /\ Fate(s)' = "taken"
      BY <1>1, <2>2, Fates, FatesNext
    <3>2. QED
      BY <1>4, <3>1, OneFate
  <2>3. CASE ~Taken(s)
    <3>1. Fate(s) = "handed"
      BY <1>1, <2>3, Fates
    <3>2. Fate(s)' = "refused" \/ Fate(s)' = "handed"
      BY <1>1, <2>1, <2>3, FatesNext
    <3>3. QED
      BY <1>4, <3>1, <3>2, OneFate
  <2>4. QED
    BY <2>2, <2>3
<1>7. QED
  BY <1>5, <1>6

LEMMA ReadReplyMoves ==
  ASSUME NEW s \in Sends, ReadReply(s)
  PROVE  Ends(s) \/ \E step : step # "idle" /\ Speaks(s, step)
<1>1. CASE GiveUp(s)
  <2>1. CASE at[s] = "auth"
    <3>1. Say(s, "abort", <<Cmd("*", "")>>)
      BY <1>1, <2>1 DEF GiveUp
    <3>2. Speaks(s, "abort")
      BY <3>1, SaySpeaks, Zenon
    <3>3. QED
      BY <3>2
  <2>2. CASE at[s] = "abort"
    <3>1. Say(s, "leave", <<Cmd("QUIT", "")>>)
      BY <1>1, <2>2 DEF GiveUp
    <3>2. Speaks(s, "leave")
      BY <3>1, SaySpeaks, Zenon
    <3>3. QED
      BY <3>2
  <2>3. CASE at[s] \notin {"auth", "abort"}
    <3>1. EndSendMail(s, "error")
      BY <1>1, <2>3 DEF GiveUp
    <3>2. QED
      BY <3>1, EndEnds
  <2>4. QED
    BY <2>1, <2>2, <2>3
<1>2. ASSUME Proceed(s), at[s] \in DOMAIN Expected
      PROVE  Ends(s) \/ \E step : step # "idle" /\ Speaks(s, step)
  <2>1. CASE at[s] = "greeting"
    <3>1. Say(s, "ehlo", <<Cmd("EHLO", "")>>)
      BY <1>2, <2>1 DEF Proceed
    <3>2. Speaks(s, "ehlo")
      BY <3>1, SaySpeaks, Zenon
    <3>3. QED
      BY <3>2
  <2>2. ASSUME MailFrom(s)
        PROVE  \E step : step # "idle" /\ Speaks(s, step)
    <3>1. Speaks(s, "mail")
      BY <2>2, SaySpeaks, Zenon DEF MailFrom
    <3>2. QED
      BY <3>1
  <2>3. CASE at[s] = "ehlo"
    <3>1. Say(s, "auth", <<Cmd("AUTH", transport.login)>>) \/ MailFrom(s)
      BY <1>2, <2>3 DEF Proceed
    <3>2. Speaks(s, "auth") \/ MailFrom(s)
      BY <3>1, SaySpeaks, Zenon
    <3>3. QED
      BY <2>2, <3>2
  <2>4. CASE at[s] = "auth"
    <3>1. MailFrom(s)
      BY <1>2, <2>4 DEF Proceed
    <3>2. QED
      BY <2>2, <3>1
  <2>5. CASE at[s] \in {"mail", "rcpt"}
    <3>1. SayRcpt(s) \/ Say(s, "data", <<Cmd("DATA", "")>>)
      BY <1>2, <2>5 DEF Proceed
    <3>2. SayRcpt(s) => Speaks(s, "rcpt")
      BY DEF SayRcpt, Speaks
    <3>3. Speaks(s, "rcpt") \/ Speaks(s, "data")
      BY <3>1, <3>2, SaySpeaks, Zenon
    <3>4. QED
      BY <3>3
  <2>6. CASE at[s] = "data"
    <3>1. Say(s, "dot", Written(Envelopes[s].data))
      BY <1>2, <2>6 DEF Proceed
    <3>2. Speaks(s, "dot")
      BY <3>1, SaySpeaks, Zenon
    <3>3. QED
      BY <3>2
  <2>7. CASE at[s] = "dot"
    <3>1. Say(s, "quit", <<Cmd("QUIT", "")>>)
      BY <1>2, <2>7 DEF Proceed
    <3>2. Speaks(s, "quit")
      BY <3>1, SaySpeaks, Zenon
    <3>3. QED
      BY <3>2
  <2>8. CASE at[s] = "quit"
    <3>1. EndSendMail(s, "ok")
      BY <1>2, <2>8 DEF Proceed
    <3>2. QED
      BY <3>1, EndEnds
  <2>9. QED
    BY <1>2, <2>1, <2>3, <2>4, <2>5, <2>6, <2>7, <2>8, Expectations
<1>3. QED
  BY <1>1, <1>2 DEF ReadReply

LEMMA SendMailRefines ==
  ASSUME IInv, NEW s \in Sends, SendMail(s)
  PROVE  [Handover!Next]_Handover!vars
<1>1. Running(s) /\ UNCHANGED <<captured, result>>
  BY DEF SendMail, Dial, ReadReply, Disconnected, Running, handler, caller
<1>2. CASE Dial(s)
  <2>1. Speaks(s, "greeting") \/ EndSendMail(s, "error")
    BY <1>2 DEF Dial, Speaks
  <2>2. Speaks(s, "greeting") \/ Ends(s)
    BY <2>1, EndEnds
  <2>3. QED
    BY <1>1, <2>2, MoveRefines
<1>3. CASE ReadReply(s)
  BY <1>1, <1>3, ReadReplyMoves, MoveRefines
<1>4. CASE Disconnected(s)
  <2>1. EndSendMail(s, "error")
    BY <1>4 DEF Disconnected
  <2>2. Ends(s)
    BY <2>1, EndEnds
  <2>3. QED
    BY <1>1, <2>2, MoveRefines
<1>5. QED
  BY <1>2, <1>3, <1>4 DEF SendMail

(* Nothing is decided: neither a message nor what a Send returns.          *)
LEMMA NothingDecided ==
  ASSUME UNCHANGED <<at, sendmail, captured, result>>
  PROVE  [Handover!Next]_Handover!vars
<1>1. \A t : Taken(t)' <=> Taken(t)
  BY DEF Taken
<1>2. \A t \in Sends : Fate(t)' = Fate(t)
  BY <1>1, SameFate
<1>3. message' = message
  BY <1>2 DEF message
<1>4. QED
  BY <1>3 DEF Handover!vars, message

LEMMA CaptureRefines ==
  ASSUME IInv, NEW s \in Sends, Capture(s)
  PROVE  [Handover!Next]_Handover!vars
<1>1. /\ captured' = Append(captured, Message(s)) /\ Read(s, "data")
      /\ UNCHANGED <<at, sendmail, result>>
  BY DEF Capture, Handled, client, caller
<1>2. at[s] = "dot" /\ ~Taken(s)
  BY <1>1, ReadNext
<1>3. captured \in Seq({Delivered(t) : t \in Sends}) /\ Message(s).send = s
  BY DEF IInv, Captures, Message
<1>4. /\ Len(captured') = Len(captured) + 1 /\ Len(captured) \in Nat
      /\ captured'[Len(captured) + 1] = Message(s)
      /\ \A i \in 1..Len(captured) : captured'[i] = captured[i]
  BY <1>1, <1>3
<1>5. Taken(s)'
  BY <1>3, <1>4 DEF Taken
<1>6. \A t \in Sends \ {s} : Taken(t)' <=> Taken(t)
  BY <1>3, <1>4 DEF Taken
<1>7. \A t \in Sends \ {s} : Fate(t)' = Fate(t)
  BY <1>1, <1>6, SameFate
<1>8. Fate(s) = "handed" /\ Fate(s)' = "taken"
  <2>1. "dot" \notin Early
    BY DEF Early
  <2>2. QED
    BY <1>2, <1>5, <2>1, Fates, FatesNext
<1>9. QED
  BY <1>1, <1>7, <1>8, OneFate

LEMMA HandleRefines ==
  ASSUME IInv, NEW s \in Sends, Handle(s)
  PROVE  [Handover!Next]_Handover!vars
<1>1. CASE Greet(s) \/ Ehlo(s) \/ Auth(s) \/ Mail(s)
  <2>1. UNCHANGED <<at, sendmail, captured, result>>
    BY <1>1 DEF Greet, Ehlo, Auth, Mail, Handled, handler, client, caller
  <2>2. QED
    BY <2>1, NothingDecided
<1>2. CASE Rcpt(s) \/ Data(s) \/ ReadLine(s)
  <2>1. UNCHANGED <<at, sendmail, captured, result>>
    BY <1>2 DEF Rcpt, Data, ReadLine, Handled, client, caller
  <2>2. QED
    BY <2>1, NothingDecided
<1>3. CASE Quit(s) \/ Unrecognized(s) \/ HangUp(s)
  <2>1. CASE Quit(s) \/ HangUp(s)
    <3>1. UNCHANGED <<at, sendmail, captured, result>>
      BY <2>1 DEF Quit, HangUp, EndSession, Handled, client, caller
    <3>2. QED
      BY <3>1, NothingDecided
  <2>2. CASE Unrecognized(s)
    <3>1. UNCHANGED <<at, sendmail, captured, result>>
      BY <2>2 DEF Unrecognized, Handled, handler, client, caller
    <3>2. QED
      BY <3>1, NothingDecided
  <2>3. QED
    BY <1>3, <2>1, <2>2
<1>4. CASE Capture(s)
  BY <1>4, CaptureRefines
<1>5. QED
  BY <1>1, <1>2, <1>3, <1>4 DEF Handle

(* SendMail has ended only if it was started.                              *)
Unstarted == \A s \in Sends : at[s] = "idle" => sendmail[s] = "none"

LEMMA UnstartedStays ==
  ASSUME IInv, Unstarted, [Next]_vars
  PROVE  Unstarted'
<1>1. DOMAIN at = Sends /\ DOMAIN sendmail = Sends
  BY DEF IInv, TypeOK
<1>2. ASSUME NEW s \in Sends, Running(s), Ends(s) \/ \E step : step # "idle" /\ Speaks(s, step)
      PROVE  Unstarted'
  BY <1>1, <1>2 DEF Running, Ends, Speaks, Unstarted
<1>3. ASSUME NEW s \in Sends, SendMail(s)
      PROVE  Unstarted'
  <2>1. CASE Dial(s)
    <3>1. Running(s) /\ (Speaks(s, "greeting") \/ EndSendMail(s, "error"))
      BY <2>1 DEF Dial, Speaks
    <3>2. QED
      BY <1>2, <3>1, EndEnds
  <2>2. CASE ReadReply(s)
    <3>1. Running(s)
      BY <2>2 DEF ReadReply
    <3>2. QED
      BY <1>2, <2>2, <3>1, ReadReplyMoves
  <2>3. CASE Disconnected(s)
    <3>1. Running(s) /\ EndSendMail(s, "error")
      BY <2>3 DEF Disconnected
    <3>2. QED
      BY <1>2, <3>1, EndEnds
  <2>4. QED
    BY <1>3, <2>1, <2>2, <2>3 DEF SendMail
<1>4. ASSUME NEW s \in Sends, Send(s)
      PROVE  Unstarted'
  BY <1>1, <1>4 DEF Send, Unstarted
<1>5. ASSUME UNCHANGED <<at, sendmail>>
      PROVE  Unstarted'
  BY <1>5 DEF Unstarted
<1>6. ASSUME NEW s \in Sends, Handle(s)
      PROVE  UNCHANGED <<at, sendmail>>
  BY ZenonT(60), <1>6
     DEF Handle, Greet, Ehlo, Auth, Mail, Rcpt, Data, ReadLine, Capture, Quit, Unrecognized, HangUp,
              EndSession, Handled, client
<1>7. ASSUME NEW s \in Sends,
             \/ SendMailDone(s) \/ ContextDone(s) \/ Accept(s) \/ StartHandler(s)
             \/ Lose(s) \/ Stall(s) \/ Cancel(s)
      PROVE  UNCHANGED <<at, sendmail>>
  BY <1>7 DEF SendMailDone, ContextDone, Return, Accept, StartHandler, Lose, Stall, Cancel, client
<1>8. CASE ServeReturns \/ CloseReturns \/ Close \/ CloseAgain \/ UNCHANGED vars
  BY <1>5, <1>8 DEF ServeReturns, CloseReturns, Close, CloseAgain, vars, client
<1>9. QED
  BY <1>3, <1>4, <1>5, <1>6, <1>7, <1>8 DEF Next, Goroutines, Goroutine

(* What Send returns: success only for a message that was taken.           *)
LEMMA ReturnRefines ==
  ASSUME IInv, NEW s \in Sends, SendMailDone(s) \/ ContextDone(s)
  PROVE  [Handover!Next]_Handover!vars
<1>1. PICK outcome \in {"ok", "error"} : Return(s, outcome) /\ (outcome = "ok" => sendmail[s] = "ok")
  BY DEF SendMailDone, ContextDone, IInv, TypeOK
<1>2. /\ result[s] = "none" /\ result' = [result EXCEPT ![s] = outcome]
      /\ UNCHANGED <<at, sendmail, captured>>
  BY <1>1 DEF Return, client, handler
<1>3. \A t : Taken(t)' <=> Taken(t)
  BY <1>2 DEF Taken
<1>4. message' = message
  <2>1. \A t \in Sends : Fate(t)' = Fate(t)
    BY <1>2, <1>3, SameFate
  <2>2. QED
    BY <2>1 DEF message
<1>5. outcome = "ok" => message[s] = "taken"
  BY <1>1, Fates DEF IInv, Replies, message
<1>6. Handover!Returns(s, outcome)
  BY <1>2, <1>4, <1>5 DEF Handover!Returns, message
<1>7. QED
  BY <1>6 DEF Handover!Next

(* Send starts SendMail, or fails at once.                                 *)
LEMMA SendRefines ==
  ASSUME IInv, Unstarted, NEW s \in Sends, Send(s)
  PROVE  [Handover!Next]_Handover!vars
<1>1. /\ at[s] = "idle" /\ result[s] = "none" /\ UNCHANGED <<sendmail, captured>>
      /\ \/ result' = [result EXCEPT ![s] = "error"] /\ UNCHANGED at
         \/ at' = [at EXCEPT ![s] = "dial"] /\ UNCHANGED result
  BY DEF Send, handler
<1>2. \A t : Taken(t)' <=> Taken(t)
  BY <1>1 DEF Taken
<1>3. CASE result' = [result EXCEPT ![s] = "error"] /\ UNCHANGED at
  <2>1. \A t \in Sends : Fate(t)' = Fate(t)
    BY <1>1, <1>2, <1>3, SameFate
  <2>2. message' = message
    BY <2>1 DEF message
  <2>3. Handover!Returns(s, "error")
    BY <1>1, <1>3, <2>2 DEF Handover!Returns, message
  <2>4. QED
    BY <2>3 DEF Handover!Next
<1>4. CASE at' = [at EXCEPT ![s] = "dial"] /\ UNCHANGED result
  <2>1. DOMAIN at = Sends
    BY DEF IInv, TypeOK
  <2>2. at'[s] = "dial" /\ \A t \in Sends \ {s} : at'[t] = at[t] /\ sendmail'[t] = sendmail[t]
    BY <1>1, <1>4, <2>1
  <2>3. \A t \in Sends \ {s} : Fate(t)' = Fate(t)
    BY <1>2, <2>2, SameFate
  <2>4. ~Taken(s)
    BY <1>1 DEF IInv, Phase, Connecting, Untaken
  <2>5. sendmail[s] # "error"
    BY <1>1 DEF Unstarted
  <2>6. Fate(s) = "held" /\ Fate(s)' = "handed"
    BY <1>1, <1>2, <2>2, <2>4, <2>5, Fates, FatesNext
  <2>7. QED
    BY <1>4, <2>3, <2>6, OneFate
<1>5. QED
  BY <1>1, <1>3, <1>4

LEMMA StepRefines == IInv /\ Unstarted /\ [Next]_vars => [Handover!Next]_Handover!vars
<1> SUFFICES ASSUME IInv, Unstarted, [Next]_vars PROVE [Handover!Next]_Handover!vars
  OBVIOUS
<1>1. ASSUME NEW s \in Sends, Goroutine(s)
      PROVE  [Handover!Next]_Handover!vars
  <2>1. CASE Accept(s) \/ StartHandler(s)
    BY <2>1, NothingDecided DEF Accept, StartHandler, client, caller
  <2>2. CASE SendMailDone(s) \/ ContextDone(s)
    BY <2>2, ReturnRefines
  <2>3. CASE SendMail(s)
    BY <2>3, SendMailRefines
  <2>4. CASE Handle(s)
    BY <2>4, HandleRefines
  <2>5. QED
    BY <1>1, <2>1, <2>2, <2>3, <2>4 DEF Goroutine
<1>2. ASSUME NEW s \in Sends, Lose(s) \/ Stall(s) \/ Cancel(s)
      PROVE  [Handover!Next]_Handover!vars
  BY <1>2, NothingDecided DEF Lose, Stall, Cancel, client, caller, handler
<1>3. ASSUME NEW s \in Sends, Send(s)
      PROVE  [Handover!Next]_Handover!vars
  BY <1>3, SendRefines
<1>4. CASE ServeReturns \/ CloseReturns \/ Close \/ CloseAgain \/ UNCHANGED vars
  BY <1>4, NothingDecided DEF ServeReturns, CloseReturns, Close, CloseAgain, vars, client, caller, handler
<1>5. QED
  BY <1>1, <1>2, <1>3, <1>4 DEF Next, Goroutines

(* The dialogue implements the handover the pipeline builds on: a message  *)
(* SendMail gave up before writing it is never taken, none is taken twice, *)
(* and Send returns nil only for one the server took.                      *)
THEOREM DialogueHandsOver == Spec => ImplementsHandover
<1>1. IInv /\ Unstarted /\ [Next]_vars => [Handover!Next]_Handover!vars
  BY StepRefines
<1>2. Init => Unstarted
  BY DEF Init, Unstarted
<1>3. IInv /\ Unstarted /\ [Next]_vars => Unstarted'
  BY UnstartedStays
<1>4. QED
  BY <1>1, <1>2, <1>3, InitRefines, IInvHolds, PTL DEF Spec, ImplementsHandover, Handover!Spec
=============================================================================
