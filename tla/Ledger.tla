------------------------------- MODULE Ledger -------------------------------
(***************************************************************************)
(* The SQLite ledger (internal/store/store.go): one row per registration   *)
(* ID, which is the dedupe gate, and one stored wallet pass per            *)
(* registration ID. Each operator below is the effect of ONE SQL           *)
(* statement; the operations of the store that run two statements are two  *)
(* steps of their caller, since no transaction joins them.                 *)
(* Expiry, mode and timestamps of a row are left out: no property reads    *)
(* them.                                                                   *)
(***************************************************************************)
EXTENDS Integers, Guard

CONSTANTS
  Ids,         \* registration IDs
  PassTypes    \* canonical pass types; "founder" is the one treated apart

VARIABLES
  rows,        \* [Ids -> row]: processed_registrations
  artifacts,   \* [Ids -> access token or NoToken]: pass_artifacts
  cleared      \* [Ids -> Nat]: history, how often the row of an ID was deleted

ledger == <<rows, artifacts, cleared>>

NoToken == 0

(* A row that does not exist, and the row Claim inserts. *)
NoRow   == [action |-> "absent",  email |-> "", passType |-> ""]
Pending == [action |-> "pending", email |-> "", passType |-> ""]

RecordedRow == [action : Outcomes, email : Addresses, passType : PassTypes]
Row == {NoRow, Pending} \cup RecordedRow

Exists(id)    == rows[id].action # "absent"
Recorded(id)  == rows[id].action \in Outcomes
IsPending(id) == rows[id].action = "pending"

LedgerTypeOK ==
  /\ rows \in [Ids -> Row]
  /\ artifacts \in [Ids -> Nat]
  /\ cleared \in [Ids -> Nat]

LedgerInit ==
  /\ rows = [id \in Ids |-> NoRow]
  /\ artifacts = [id \in Ids |-> NoToken]
  /\ cleared = [id \in Ids |-> 0]

(* Mutation: INSERT OR REPLACE. *)
InsertOrReplace(id) ==
  /\ rows' = [rows EXCEPT ![id] = Pending]
  /\ UNCHANGED <<artifacts, cleared>>

(* INSERT OR IGNORE: an existing row is left alone, whatever it holds. *)
InsertOrIgnore(id) ==
  /\ rows' = IF Exists(id) THEN rows ELSE [rows EXCEPT ![id] = Pending]
  /\ UNCHANGED <<artifacts, cleared>>

(* Mutation: an upsert, which brings a deleted row back. *)
UpsertRow(id, row) ==
  /\ rows' = [rows EXCEPT ![id] = row]
  /\ UNCHANGED <<artifacts, cleared>>

(* UPDATE ... WHERE registration_id: no row, no effect (ErrNotFound). *)
UpdateRow(id, row) ==
  /\ rows' = IF Exists(id) THEN [rows EXCEPT ![id] = row] ELSE rows
  /\ UNCHANGED <<artifacts, cleared>>

(* The first statement of Release and of DeleteProcessed. *)
DeleteArtifact(id) ==
  /\ artifacts' = [artifacts EXCEPT ![id] = NoToken]
  /\ UNCHANGED <<rows, cleared>>

(* Their second statement. *)
DeleteRow(id) ==
  /\ rows' = [rows EXCEPT ![id] = NoRow]
  /\ cleared' = IF Exists(id) THEN [cleared EXCEPT ![id] = @ + 1] ELSE cleared
  /\ UNCHANGED artifacts

(* INSERT ... ON CONFLICT DO UPDATE: the last writer's token is the live one. *)
UpsertArtifact(id, token) ==
  /\ artifacts' = [artifacts EXCEPT ![id] = token]
  /\ UNCHANGED <<rows, cleared>>

(* Mutation: only badges mailed to the founder in person count. *)
FounderSent(email) ==
  \E id \in Ids : /\ rows[id].email = email
                  /\ rows[id].passType = "founder"
                  /\ rows[id].action = "sent"

(* A founder row of the same address, whatever was decided for it, unless  *)
(* it is still a pending claim.                                            *)
FounderIssued(email) ==
  \E id \in Ids : /\ rows[id].email = email
                  /\ rows[id].passType = "founder"
                  /\ rows[id].action # "pending"

(* The download handler finds the row of a link by its ID and takes its    *)
(* token for the capability. What the row then has to serve is in Badge.   *)
TokenOpens(id, token) == token # NoToken /\ artifacts[id] = token
=============================================================================
