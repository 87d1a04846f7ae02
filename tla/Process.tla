------------------------------ MODULE Process ------------------------------
(***************************************************************************)
(* The life of the server process (cmd/server/main.go, run) and of the     *)
(* database it opens (internal/store/store.go, Open and migrate): load the *)
(* configuration, open and migrate the volume, build the service, serve,   *)
(* and on a signal stop accepting, drain the running requests for a grace  *)
(* period and close the database. The machine may be killed at any step    *)
(* and is started again, perhaps in another environment; a statement or    *)
(* the listener may fail. Kills and failures are bounded by Limit.         *)
(***************************************************************************)
EXTENDS Integers, Sequences, FiniteSets, Config

CONSTANTS
  Envs,         \* the environments the process is started in
  Shipped,      \* schema versions a volume may already have
  MaxRequests,  \* bound on the requests in flight
  Limit         \* [{"kill", "error"} -> Nat]

(* The forward-only migrations: the objects each one creates, in order.    *)
Migrations ==
  << <<"processed_registrations", "idx_processed_action">>,
     <<"pass_artifacts", "idx_artifact_token">>,
     <<"idx_processed_email_pass_type">> >>

Latest == Len(Migrations)
TableOf ==
  [idx_processed_action |-> "processed_registrations",
   idx_artifact_token |-> "pass_artifacts",
   idx_processed_email_pass_type |-> "processed_registrations"]

Created(m) == {Migrations[m][i] : i \in 1..Len(Migrations[m])}
ObjectsUpTo(v) == UNION {Created(m) : m \in 1..v}

ASSUME ProcessAssumption ==
  /\ Shipped \subseteq 0..Latest
  /\ MaxRequests \in Nat
  /\ Limit \in [{"kill", "error"} -> Nat]

(* A PEM variable is a sequence of blocks and text.                        *)
ASSUME EnvsAssumption ==
  \A e \in Envs :
    {e.apple.cert, e.apple.key, e.apple.wwdr, e.google.key} \subseteq Seq(Blocks \cup NotPem)

VARIABLES
  pc,        \* the step of run()
  env,       \* the process environment
  disk,      \* what survives: the versions recorded and the schema objects
  tx,        \* the open migration transaction
  current,   \* the schema version migrate() has read
  service,   \* what buildService built
  inflight,  \* requests being handled
  faults

vars == <<pc, env, disk, tx, current, service, inflight, faults>>

Volume(v) == [versions |-> 1..v, objects |-> ObjectsUpTo(v)]

NoTx      == [version |-> 0, objects |-> {}, next |-> 0, recorded |-> FALSE]
NoService ==
  [guard |-> [mode |-> "", allowlist |-> {}, redirect |-> ""],
   secrets |-> [poll |-> "", webhook |-> "", admin |-> ""],
   transport |-> NoTransport, fetcher |-> NoFetcher, apple |-> NoSigner, google |-> NoIssuer]

Running == {"load", "version", "migrate", "build", "listen", "serving", "draining"}

Version(d) == CHOOSE v \in {0} \cup d.versions : \A w \in d.versions : w <= v

Init ==
  /\ pc = "off"
  /\ env \in Envs
  /\ disk \in {Volume(v) : v \in Shipped}
  /\ tx = NoTx /\ current = 0
  /\ service = NoService
  /\ inflight = 0
  /\ faults = [k \in {"kill", "error"} |-> 0]
-----------------------------------------------------------------------------
Fault(kind) ==
  /\ faults[kind] < Limit[kind]
  /\ faults' = [faults EXCEPT ![kind] = @ + 1]

(* The process is gone, and all its memory with it. *)
End ==
  /\ pc' = "off"
  /\ tx' = NoTx /\ current' = 0 /\ service' = NoService /\ inflight' = 0
  /\ UNCHANGED <<env, disk>>

Goto(step) == pc' = step

(* run() starts; Fly starts the machine again when a request comes in.     *)
Boot ==
  /\ pc = "off"
  /\ env' \in Envs
  /\ Goto("load")
  /\ UNCHANGED <<disk, tx, current, service, inflight, faults>>

Load ==
  /\ pc = "load"
  /\ IF Loads(env) THEN /\ Goto("version")
                        /\ UNCHANGED <<env, disk, tx, current, service, inflight>>
                   ELSE End
  /\ UNCHANGED faults

(* migrate reads the version once, before its loop. *)
ReadVersion ==
  /\ pc = "version"
  /\ current' = Version(disk)
  /\ Goto("migrate")
  /\ UNCHANGED <<env, disk, tx, service, inflight, faults>>

(* One transaction per migration: its statements, the record of its        *)
(* version, and the commit.                                                *)
Pending(m) ==
  /\ m > current /\ m \notin disk.versions
  /\ \A k \in (current + 1)..(m - 1) : k \in disk.versions

Begin(m) ==
  /\ pc = "migrate" /\ tx = NoTx
  /\ Pending(m)
  /\ tx' = [version |-> m, objects |-> {}, next |-> 1, recorded |-> FALSE]
  /\ UNCHANGED <<pc, env, disk, current, service, inflight, faults>>

Statement ==
  LET object == Migrations[tx.version][tx.next] IN
  /\ pc = "migrate" /\ tx # NoTx
  /\ tx.next <= Len(Migrations[tx.version])
  /\ object \in DOMAIN TableOf => TableOf[object] \in disk.objects \cup tx.objects
  /\ tx' = [tx EXCEPT !.objects = @ \cup {object}, !.next = @ + 1]
  /\ UNCHANGED <<pc, env, disk, current, service, inflight, faults>>

(* Mutation: a version may be recorded before its statements have run. *)
RecordEarly ==
  /\ pc = "migrate" /\ tx # NoTx /\ ~tx.recorded
  /\ tx' = [tx EXCEPT !.recorded = TRUE]
  /\ UNCHANGED <<pc, env, disk, current, service, inflight, faults>>

RecordVersion ==
  /\ pc = "migrate" /\ tx # NoTx /\ ~tx.recorded
  /\ tx.next > Len(Migrations[tx.version])
  /\ tx' = [tx EXCEPT !.recorded = TRUE]
  /\ UNCHANGED <<pc, env, disk, current, service, inflight, faults>>

(* Mutation: the version is not part of the transaction. *)
CommitUnrecorded ==
  /\ pc = "migrate" /\ tx.recorded
  /\ disk' = [disk EXCEPT !.objects = @ \cup tx.objects]
  /\ tx' = NoTx
  /\ UNCHANGED <<pc, env, current, service, inflight, faults>>

Commit ==
  /\ pc = "migrate" /\ tx.recorded
  /\ disk' = [versions |-> disk.versions \cup {tx.version}, objects |-> disk.objects \cup tx.objects]
  /\ tx' = NoTx
  /\ UNCHANGED <<pc, env, current, service, inflight, faults>>

Migrated ==
  /\ pc = "migrate" /\ tx = NoTx
  /\ ~\E m \in 1..Latest : Pending(m)
  /\ Goto("build")
  /\ UNCHANGED <<env, disk, tx, current, service, inflight, faults>>

(* Opening the database, a statement or the listener fails: run() returns  *)
(* the error, and an open transaction is rolled back.                      *)
StartFails ==
  /\ pc \in {"version", "migrate", "listen"}
  /\ Fault("error")
  /\ End

Build ==
  /\ pc = "build"
  /\ IF BuildsService(env)
     THEN /\ service' = Service(env)
          /\ Goto("listen")
          /\ UNCHANGED <<env, disk, tx, current, inflight>>
     ELSE End
  /\ UNCHANGED faults

Listen ==
  /\ pc = "listen"
  /\ Goto("serving")
  /\ UNCHANGED <<env, disk, tx, current, service, inflight, faults>>

(* Requests come while the server accepts, and end at any time.            *)
Accept ==
  /\ pc = "serving" /\ inflight < MaxRequests
  /\ inflight' = inflight + 1
  /\ UNCHANGED <<pc, env, disk, tx, current, service, faults>>

(* Mutation: an ending request is counted twice. *)
FinishTwice ==
  /\ inflight > 0
  /\ inflight' = inflight - 2
  /\ UNCHANGED <<pc, env, disk, tx, current, service, faults>>

Finish ==
  /\ inflight > 0
  /\ inflight' = inflight - 1
  /\ UNCHANGED <<pc, env, disk, tx, current, service, faults>>

(* SIGTERM: Shutdown stops accepting and waits; it does not cancel.        *)
Signal ==
  /\ pc = "serving"
  /\ Goto("draining")
  /\ UNCHANGED <<env, disk, tx, current, service, inflight, faults>>

Drained ==
  /\ pc = "draining" /\ inflight = 0
  /\ End
  /\ UNCHANGED faults

(* The grace period runs out first: the database is closed under the       *)
(* requests still running and the process exits with an error.             *)
GraceOver ==
  /\ pc = "draining" /\ inflight > 0
  /\ End
  /\ UNCHANGED faults

(* The machine stops without asking. *)
Kill ==
  /\ pc \in Running
  /\ Fault("kill")
  /\ End
-----------------------------------------------------------------------------
Migrate == (\E m \in 1..Latest : Begin(m)) \/ Statement \/ RecordVersion \/ Commit \/ Migrated
Start   == Boot \/ Load \/ ReadVersion \/ Migrate \/ Build \/ Listen
Stop    == Signal \/ Drained \/ GraceOver \/ Kill

Next == Start \/ StartFails \/ Accept \/ Finish \/ Stop

Spec == Init /\ [][Next]_vars

(* A process that has been started goes on, its grace period ends, and a   *)
(* request that comes in starts a stopped machine.                         *)
FairSpec == Spec /\ WF_vars(Start) /\ WF_vars(Drained \/ GraceOver)
-----------------------------------------------------------------------------
(* The one type invariant of the process. *)
TypeOK ==
  /\ pc \in Running \cup {"off"}
  /\ env \in Envs
  /\ disk.versions \subseteq 1..Latest /\ disk.objects \subseteq ObjectsUpTo(Latest)
  /\ tx.version \in 0..Latest /\ tx.objects \subseteq ObjectsUpTo(Latest)
  /\ tx.next \in Nat /\ tx.recorded \in BOOLEAN
  /\ current \in 0..Latest
  /\ inflight \in 0..MaxRequests
  /\ faults \in [{"kill", "error"} -> Nat]

(* The schema never runs ahead of its record nor behind it: wherever a     *)
(* migration is interrupted, the volume holds exactly the objects of the   *)
(* versions it records, and these have no gap (migrate, one transaction    *)
(* per version).                                                           *)
VolumeConsistent ==
  \E v \in 0..Latest : disk = Volume(v)

(* The first block of some kinds in a file, said of the file alone.        *)
LeadsWith(pem, kinds, block) ==
  \E i \in 1..Len(pem) :
    /\ pem[i] = block /\ block \in kinds
    /\ \A j \in 1..(i - 1) : pem[j] \notin kinds

(* A process that serves holds what its handlers rely on, whatever mixture *)
(* of unset, blank and odd variables it was started with: the latest       *)
(* schema; a guard that can decide; a secret for each guarded endpoint,    *)
(* since one without is closed to everybody; credentials if its guard may  *)
(* send; a complete account if it polls; and for each wallet it offers a   *)
(* key of the right kind, the first of its file, with the first            *)
(* certificate of its own (validate, buildService, NewSigner, NewIssuer).  *)
ServingIsReady ==
  pc \in {"serving", "draining"} =>
    /\ disk = Volume(Latest)
    /\ service.guard.mode \in EmailModes
    /\ service.guard.mode = "allowlist" => service.guard.allowlist \notin {{}, {""}}
    /\ service.guard.mode = "redirect" => service.guard.redirect # ""
    /\ \A endpoint \in {"poll", "webhook", "admin"} : service.secrets[endpoint] # ""
    /\ service.guard.mode # "dry_run" => "" \notin {service.transport.user, service.transport.password}
    /\ service.fetcher # NoFetcher =>
         /\ service.fetcher.year # "0"
         /\ "" \notin {service.fetcher.slug, service.fetcher.email, service.fetcher.password}
    /\ service.apple # NoSigner =>
         /\ service.apple.cert = "CERTIFICATE" /\ LeadsWith(env.apple.cert, Certificates, service.apple.cert)
         /\ LeadsWith(env.apple.key, Keys, service.apple.key)
         /\ env.apple.wwdr # <<>> => service.apple.wwdr = "CERTIFICATE"
    /\ service.google # NoIssuer =>
         service.google.key = "RSA KEY" /\ LeadsWith(env.google.key, Keys, service.google.key)

(* Kills and failures do not wedge the volume: if it is in the end only    *)
(* started in environments that validate, the process serves again and     *)
(* again.                                                                  *)
AlwaysServesAgain == <>[](Loads(env) /\ BuildsService(env)) => []<>(pc = "serving")
=============================================================================
