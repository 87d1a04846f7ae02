------------------------------- MODULE MCSmtp -------------------------------
(***************************************************************************)
(* Small instances of the SMTP dialogue for TLC: two calls of Send, one to *)
(* two recipients whose only line is a dot, one with a plain line.          *)
(***************************************************************************)
EXTENDS SmtpDialogue, TLC

CONSTANTS s1, s2, club, ana, bob, clubLogin, otherLogin

Dots(n, text) == [dots |-> n, text |-> text]

MCEnvelopes ==
  (s1 :> [from |-> club, to |-> <<ana, bob>>, data |-> <<Dots(1, FALSE)>>])
  @@ (s2 :> [from |-> club, to |-> <<bob>>, data |-> <<Dots(0, TRUE)>>])

Transport(addr, login) == [addr |-> addr, login |-> login]

(* Servers open to all, failing at the data, or for the club only, as the  *)
(* tests of the transport and of the whole stack start them.               *)
OpenToAll  == [requireAuth |-> FALSE, account |-> NoLogin, failData |-> FALSE]
FailsData  == [OpenToAll EXCEPT !.failData = TRUE]
ForTheClub == [OpenToAll EXCEPT !.requireAuth = TRUE, !.account = clubLogin]

MCSettings ==
  {[transport |-> Transport("good", login), server |-> ForTheClub] :
     login \in {NoLogin, clubLogin, otherLogin}}
    \cup {[transport |-> Transport("good", NoLogin), server |-> options] :
            options \in {OpenToAll, FailsData}}
    \cup {[transport |-> Transport("", NoLogin), server |-> OpenToAll],
          [transport |-> Transport("no-port", NoLogin), server |-> OpenToAll],
          [transport |-> Transport("no-port", clubLogin), server |-> OpenToAll]}

OneOfEach == [t \in Troubles |-> IF t = "total" THEN 2 ELSE 1]
=============================================================================
