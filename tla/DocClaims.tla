----------------------------- MODULE DocClaims -----------------------------
(***************************************************************************)
(* What comments and documents of the repository say about the pipeline,   *)
(* stated as properties of the model of its code. The code does not keep   *)
(* them; each is refuted by a run of its own, with only the faults named.  *)
(***************************************************************************)
EXTENDS Pipeline, FiniteSets

(* "If the pipeline fails before a delivery decision, the claim is         *)
(* released and the next cycle retries" (README.md; poll.go says it at the *)
(* release): a request that failed and mailed nothing leaves no pending    *)
(* row behind. Faults: a cancelled request.                                *)
FailureReleasesClaim ==
  [][\A w \in Workers :
       /\ pc[w] \in {"unartifact", "unclaim"} /\ pc'[w] = "idle"
       /\ ~\E m \in mailed \cup wire : OwnMessage(w, m)
       => rows'[Id(w)].action # "pending"]_vars

(* "The SQLite insert happens before the email, so concurrent or retried   *)
(* cycles cannot double-mail" (README.md): a registration nobody deleted   *)
(* is mailed once. Faults: an SMTP error, after which the claim is         *)
(* released because "nothing was delivered" (poll.go, ProcessClassified).  *)
NoDoubleMail == \A m1, m2 \in mailed : m1.id = m2.id => m1 = m2

(* "deleting the row is the only way to deliberately mail it again"        *)
(* (server.go, handleAdminDeleteProcessed): each deletion allows one more  *)
(* mail of the registration. Faults: a deletion by the administrator.      *)
OneMailPerDeletion ==
  \A id \in Ids : Cardinality({m \in mailed : m.id = id}) <= 1 + faults["admin"]
=============================================================================
