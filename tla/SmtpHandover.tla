---------------------------- MODULE SmtpHandover ----------------------------
(***************************************************************************)
(* What a caller of Send may rely on (internal/mailer/mailer.go,           *)
(* Transport), however the mail server, the network and the caller's       *)
(* context behave: a message is taken at most once; a message that was     *)
(* refused is never taken afterwards; success means that it was taken. An  *)
(* error means nothing by itself: a message may still be taken after it.   *)
(* These are the SMTP events Pipeline is built on; SmtpDialogue implements *)
(* this module.                                                            *)
(***************************************************************************)
CONSTANT Sends

VARIABLES
  message,  \* [Sends -> what has become of the message]
  result    \* [Sends -> what Send has returned]

vars == <<message, result>>

TypeOK ==
  /\ message \in [Sends -> {"held", "handed", "refused", "taken"}]
  /\ result \in [Sends -> {"none", "ok", "error"}]

Init ==
  /\ message = [s \in Sends |-> "held"]
  /\ result = [s \in Sends |-> "none"]

Becomes(s, from, to) ==
  /\ message[s] = from
  /\ message' = [message EXCEPT ![s] = to]
  /\ UNCHANGED result

Returns(s, outcome) ==
  /\ result[s] = "none"
  /\ outcome = "ok" => message[s] = "taken"
  /\ result' = [result EXCEPT ![s] = outcome]
  /\ UNCHANGED message

Next ==
  \E s \in Sends :
    \/ Becomes(s, "held", "handed") \/ Becomes(s, "handed", "refused") \/ Becomes(s, "handed", "taken")
    \/ Returns(s, "ok") \/ Returns(s, "error")

Spec == Init /\ [][Next]_vars
=============================================================================
