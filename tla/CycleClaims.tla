---------------------------- MODULE CycleClaims ----------------------------
(***************************************************************************)
(* What comments and documents of the repository say about poll cycles and *)
(* ingest, stated as properties of the model of its code. The code does    *)
(* not keep them; each is refuted by a run of its own.                     *)
(***************************************************************************)
EXTENDS PollCycle

(* "Email is already required to deliver a badge, so keying on it costs    *)
(* nothing" (export.go, RegistrationID): a run that ends green has put     *)
(* every registrant with a usable row on record. Faults: none, but two     *)
(* registrants with one address.                                           *)
SharedAddressCostsNothing ==
  [][\A c \in Cycles : Respond(c) /\ trigger'.state = "green" =>
       \A k \in DOMAIN cycle[c].spans :
         LET row == RecordOf(c, k) IN
         Usable(row) => entry[RegistrationID(row.email)].name = row.name]_vars

(* "one unusable row never blocks the other registrants' badges"           *)
(* (export.go, ParseExport): a run that ends green has put every           *)
(* registrant on record whose own line of the export is readable and       *)
(* usable. Faults: none, but a row that leaves a quote open.               *)
BadRowBlocksNobody ==
  [][\A c \in Cycles : Respond(c) /\ trigger'.state = "green" =>
       \A n \in DOMAIN cycle[c].feed :
         LET row == cycle[c].feed[n] IN
         Usable(row) => entry[RegistrationID(row.email)].state = "recorded"]_vars
=============================================================================
