--------------------------- MODULE ProcessProofs ---------------------------
(***************************************************************************)
(* Proofs about the server process, for any set of environments, any       *)
(* number of requests, kills and failures: the volume always holds exactly *)
(* the schema it records, and a process that serves is ready to.           *)
(***************************************************************************)
EXTENDS Process, WellFoundedInduction, TLAPS

USE DEF Goto

LEMMA LatestNat == Latest \in Nat
BY DEF Latest, Migrations

LEMMA MigrationSizes == \A m \in 1..Latest : Len(Migrations[m]) \in Nat
BY DEF Latest, Migrations

(* The schema grows by what one migration creates. *)
LEMMA NextVolume ==
  ASSUME NEW v \in Nat
  PROVE  Volume(v + 1) = [versions |-> Volume(v).versions \cup {v + 1},
                          objects  |-> Volume(v).objects \cup Created(v + 1)]
<1>1. 1..(v + 1) = (1..v) \cup {v + 1}
  OBVIOUS
<1>2. ObjectsUpTo(v + 1) = ObjectsUpTo(v) \cup Created(v + 1)
  BY <1>1 DEF ObjectsUpTo
<1>3. QED
  BY <1>1, <1>2 DEF Volume

LEMMA VolumeVersion ==
  ASSUME NEW v \in Nat
  PROVE  Version(Volume(v)) = v
<1>1. v \in {0} \cup 1..v /\ \A w \in 1..v : w <= v
  OBVIOUS
<1>2. \A u \in {0} \cup 1..v : (\A w \in 1..v : w <= u) => u = v
  OBVIOUS
<1>3. Volume(v).versions = 1..v
  BY DEF Volume
<1>4. QED
  BY <1>1, <1>2, <1>3 DEF Version
-----------------------------------------------------------------------------
(* The open transaction carries the next migration: the statements run so  *)
(* far, and its version only after all of them.                            *)
Size(m) == Len(Migrations[m])

Halfway(m, n, recorded) ==
  [version |-> m, objects |-> {Migrations[m][i] : i \in 1..(n - 1)}, next |-> n, recorded |-> recorded]

Step(v) ==
  \/ tx = NoTx
  \/ /\ pc = "migrate" /\ v < Latest
     /\ \E n \in 1..(Size(v + 1) + 1) :
          \/ tx = Halfway(v + 1, n, FALSE)
          \/ tx = Halfway(v + 1, n, TRUE) /\ n = Size(v + 1) + 1

At(v) ==
  /\ disk = Volume(v)
  /\ Step(v)
  /\ pc = "migrate" => current \in 0..v
  /\ pc \in {"build", "listen", "serving", "draining"} => v = Latest

Schema == \E v \in 0..Latest : At(v)

(* What has been checked about the environment by each step. *)
Checked ==
  /\ pc \in Running \ {"load"} => Loads(env)
  /\ pc \in {"listen", "serving", "draining"} => service = Service(env) /\ BuildsService(env)

IInv == Schema /\ Checked

LEMMA InitSchema == Init => IInv
<1> SUFFICES ASSUME Init PROVE IInv
  OBVIOUS
<1>1. PICK v \in Shipped : disk = Volume(v)
  BY DEF Init
<1>2. v \in 0..Latest
  BY ProcessAssumption
<1>3. At(v)
  BY <1>1 DEF Init, At, Step
<1>4. QED
  BY <1>2, <1>3 DEF IInv, Schema, Checked, Init, Running

(* A process that ends leaves the volume as it is. *)
LEMMA EndSchema ==
  ASSUME Schema, End
  PROVE  IInv'
<1>1. PICK v \in 0..Latest : At(v)
  BY DEF Schema
<1>2. At(v)'
  BY <1>1 DEF At, Step, End
<1>3. QED
  BY <1>2, LatestNat DEF IInv, Schema, Checked, End, Running

(* A step outside the migration that leaves the disk alone.                *)
LEMMA QuietStep ==
  ASSUME IInv, UNCHANGED <<disk, tx, current, env>>, tx = NoTx,
         pc' \in Running \ {"load", "migrate"}, pc \in Running \ {"load", "version", "migrate"},
         pc' \in {"listen", "serving", "draining"} => service' = Service(env) /\ BuildsService(env)
  PROVE  IInv'
<1>1. PICK v \in 0..Latest : At(v)
  BY DEF IInv, Schema
<1>2. At(v)'
  BY <1>1 DEF At, Step, Running
<1>3. QED
  BY <1>2 DEF IInv, Schema, Checked, Running

LEMMA NoTxOutside ==
  ASSUME Schema, pc # "migrate"
  PROVE  tx = NoTx
BY DEF Schema, At, Step

LEMMA Advance ==
  ASSUME NEW m, NEW o, NEW n, NEW r, NEW p, NEW q
  PROVE  [[version |-> m, objects |-> o, next |-> n, recorded |-> r] EXCEPT !.objects = p, !.next = q]
           = [version |-> m, objects |-> p, next |-> q, recorded |-> r]
<1>1. [[version |-> m, objects |-> o, next |-> n, recorded |-> r] EXCEPT !.objects = p]
        = [version |-> m, objects |-> p, next |-> n, recorded |-> r]
  OBVIOUS
<1>2. [[version |-> m, objects |-> p, next |-> n, recorded |-> r] EXCEPT !.next = q]
        = [version |-> m, objects |-> p, next |-> q, recorded |-> r]
  OBVIOUS
<1>3. QED
  BY <1>1, <1>2, Zenon

LEMMA HalfwayRecorded ==
  ASSUME NEW m, NEW n
  PROVE  ~Halfway(m, n, FALSE).recorded /\ Halfway(m, n, TRUE).recorded
BY Zenon DEF Halfway

LEMMA OpenTx ==
  ASSUME NEW v \in 0..Latest, At(v), tx # NoTx
  PROVE  /\ pc = "migrate" /\ v + 1 \in 1..Latest /\ Size(v + 1) \in Nat
         /\ \E n \in 1..(Size(v + 1) + 1) :
              \/ tx = Halfway(v + 1, n, FALSE)
              \/ tx = Halfway(v + 1, n, TRUE) /\ n = Size(v + 1) + 1
<1>1. pc = "migrate" /\ v < Latest
  BY DEF At, Step
<1>2. v + 1 \in 1..Latest
  BY <1>1, LatestNat
<1>3. Size(v + 1) \in Nat
  BY <1>2, MigrationSizes DEF Size
<1>4. QED
  BY <1>1, <1>2, <1>3, Zenon DEF At, Step

LEMMA CommitSchema ==
  ASSUME IInv, Commit
  PROVE  IInv'
<1>1. PICK v \in 0..Latest : At(v)
  BY DEF IInv, Schema
<1>2. tx # NoTx /\ tx.recorded
  <2>1. tx.recorded
    BY Zenon DEF Commit
  <2>2. ~NoTx.recorded
    BY Zenon DEF NoTx
  <2>3. QED
    BY <2>1, <2>2, Zenon
<1>3. v + 1 \in 1..Latest /\ Size(v + 1) \in Nat
  BY <1>1, <1>2, OpenTx, Zenon
<1>4. tx = Halfway(v + 1, Size(v + 1) + 1, TRUE)
  <2>1. PICK n \in 1..(Size(v + 1) + 1) : \/ tx = Halfway(v + 1, n, FALSE)
                                          \/ tx = Halfway(v + 1, n, TRUE) /\ n = Size(v + 1) + 1
    BY <1>1, <1>2, OpenTx, Zenon
  <2>2. QED
    BY <1>2, <2>1, HalfwayRecorded, Zenon
<1>5. Size(v + 1) + 1 - 1 = Size(v + 1)
  BY <1>3
<1>6. tx.version = v + 1 /\ tx.objects = Created(v + 1)
  BY <1>4, <1>5 DEF Halfway, Created, Size
<1>7. disk' = Volume(v + 1)
  BY <1>1, <1>6, NextVolume DEF Commit, At
<1>8. At(v + 1)'
  <2>1. pc' = "migrate" /\ tx' = NoTx
    BY DEF Commit
  <2>2. current' \in 0..v
    BY <1>1 DEF Commit, At
  <2>3. current' \in 0..(v + 1)
    BY <2>2, LatestNat
  <2>4. QED
    BY <1>7, <2>1, <2>3 DEF At, Step
<1>9. QED
  BY <1>3, <1>8 DEF IInv, Schema, Checked, Commit, Running

LEMMA StatementSchema ==
  ASSUME IInv, Statement
  PROVE  IInv'
<1>1. PICK v \in 0..Latest : At(v)
  BY DEF IInv, Schema
<1>2. tx # NoTx
  BY DEF Statement
<1>3. v + 1 \in 1..Latest /\ Size(v + 1) \in Nat
  BY <1>1, <1>2, OpenTx, Zenon
<1>4. PICK n \in 1..(Size(v + 1) + 1) : \/ tx = Halfway(v + 1, n, FALSE)
                                        \/ tx = Halfway(v + 1, n, TRUE) /\ n = Size(v + 1) + 1
  BY <1>1, <1>2, OpenTx, Zenon
<1>5. tx.version = v + 1 /\ tx.next = n
  BY <1>4 DEF Halfway
<1>6. n <= Size(v + 1)
  BY <1>5 DEF Statement, Size
<1>7. tx = Halfway(v + 1, n, FALSE) /\ n + 1 \in 1..(Size(v + 1) + 1)
  <2>1. n + 1 \in 1..(Size(v + 1) + 1) /\ n # Size(v + 1) + 1
    BY <1>3, <1>6
  <2>2. QED
    BY <1>4, <2>1, Zenon
<1>8. tx' = Halfway(v + 1, n + 1, FALSE)
  <2>1. tx' = [tx EXCEPT !.objects = tx.objects \cup {Migrations[v + 1][n]}, !.next = n + 1]
    BY <1>5 DEF Statement
  <2>2. {Migrations[v + 1][i] : i \in 1..n} =
          {Migrations[v + 1][i] : i \in 1..(n - 1)} \cup {Migrations[v + 1][n]}
    BY <1>3
  <2>3. n + 1 - 1 = n
    BY <1>3
  <2>4. tx = [version |-> v + 1, objects |-> {Migrations[v + 1][i] : i \in 1..(n - 1)},
              next |-> n, recorded |-> FALSE]
    BY <1>7 DEF Halfway
  <2>5. tx.objects = {Migrations[v + 1][i] : i \in 1..(n - 1)}
    BY <2>4
  <2>6. tx' = [version |-> v + 1, objects |-> {Migrations[v + 1][i] : i \in 1..n},
               next |-> n + 1, recorded |-> FALSE]
    BY <2>1, <2>2, <2>4, <2>5, Advance
  <2>7. QED
    BY <2>3, <2>6 DEF Halfway
<1>9. At(v)'
  BY <1>1, <1>3, <1>7, <1>8 DEF At, Step, Statement
<1>10. QED
  BY <1>9 DEF IInv, Schema, Checked, Statement, Running

LEMMA RecordSchema ==
  ASSUME IInv, RecordVersion
  PROVE  IInv'
<1>1. PICK v \in 0..Latest : At(v)
  BY DEF IInv, Schema
<1>2. tx # NoTx
  BY DEF RecordVersion
<1>3. v + 1 \in 1..Latest /\ Size(v + 1) \in Nat
  BY <1>1, <1>2, OpenTx, Zenon
<1>4. PICK n \in 1..(Size(v + 1) + 1) : tx = Halfway(v + 1, n, FALSE)
  <2>1. PICK n \in 1..(Size(v + 1) + 1) : \/ tx = Halfway(v + 1, n, FALSE)
                                          \/ tx = Halfway(v + 1, n, TRUE) /\ n = Size(v + 1) + 1
    BY <1>1, <1>2, OpenTx, Zenon
  <2>2. ~tx.recorded
    BY DEF RecordVersion
  <2>3. QED
    BY <2>1, <2>2, HalfwayRecorded, Zenon
<1>5. n = Size(v + 1) + 1
  BY <1>3, <1>4 DEF RecordVersion, Halfway, Size
<1>6. tx' = Halfway(v + 1, n, TRUE)
  BY <1>4 DEF RecordVersion, Halfway
<1>7. At(v)'
  BY <1>1, <1>3, <1>5, <1>6 DEF At, Step, RecordVersion
<1>8. QED
  BY <1>7 DEF IInv, Schema, Checked, RecordVersion, Running

LEMMA BeginSchema ==
  ASSUME IInv, NEW m \in 1..Latest, Begin(m)
  PROVE  IInv'
<1>1. PICK v \in 0..Latest : At(v)
  BY DEF IInv, Schema
<1>2. current \in 0..v /\ disk.versions = 1..v
  BY <1>1 DEF Begin, At, Volume
<1>3. m \notin 1..v /\ \A k \in (current + 1)..(m - 1) : k \in 1..v
  BY <1>2 DEF Begin, Pending
<1>4. m = v + 1
  <2>1. m > v
    BY <1>3, LatestNat
  <2>2. CASE m > v + 1
    <3>1. v + 1 \in (current + 1)..(m - 1)
      BY <1>2, <2>2, LatestNat
    <3>2. QED
      BY <1>3, <3>1, LatestNat
  <2>3. QED
    BY <2>1, <2>2, LatestNat
<1>5. v < Latest /\ Size(v + 1) \in Nat
  BY <1>4, LatestNat, MigrationSizes DEF Size
<1>6. tx' = Halfway(v + 1, 1, FALSE) /\ 1 \in 1..(Size(v + 1) + 1)
  <2>1. 1..(1 - 1) = {}
    OBVIOUS
  <2>2. {Migrations[v + 1][i] : i \in 1..(1 - 1)} = {}
    BY <2>1
  <2>3. tx' = [version |-> v + 1, objects |-> {}, next |-> 1, recorded |-> FALSE]
    BY <1>4 DEF Begin
  <2>4. tx' = Halfway(v + 1, 1, FALSE)
    BY <2>2, <2>3, Zenon DEF Halfway
  <2>5. QED
    BY <1>5, <2>4
<1>7. At(v)'
  BY <1>1, <1>5, <1>6 DEF At, Step, Begin
<1>8. QED
  BY <1>7 DEF IInv, Schema, Checked, Begin, Running

LEMMA MigratedSchema ==
  ASSUME IInv, Migrated
  PROVE  IInv'
<1>1. PICK v \in 0..Latest : At(v)
  BY DEF IInv, Schema
<1>2. current \in 0..v /\ disk.versions = 1..v
  BY <1>1 DEF Migrated, At, Volume
<1>3. v = Latest
  <2>1. CASE v < Latest
    <3>1. v + 1 \in 1..Latest /\ v + 1 > current /\ v + 1 \notin disk.versions
      BY <1>2, <2>1, LatestNat
    <3>2. \A k \in (current + 1)..(v + 1 - 1) : k \in disk.versions
      BY <1>2, LatestNat
    <3>3. Pending(v + 1)
      BY <3>1, <3>2 DEF Pending
    <3>4. QED
      BY <3>1, <3>3 DEF Migrated
  <2>2. QED
    BY <2>1, LatestNat
<1>4. At(v)'
  BY <1>1, <1>3 DEF At, Step, Migrated
<1>5. QED
  BY <1>4 DEF IInv, Schema, Checked, Migrated, Running

LEMMA ReadVersionSchema ==
  ASSUME IInv, ReadVersion
  PROVE  IInv'
<1>1. PICK v \in 0..Latest : At(v)
  BY DEF IInv, Schema
<1>2. current' = v
  BY <1>1, VolumeVersion DEF ReadVersion, At
<1>3. At(v)'
  BY <1>1, <1>2 DEF At, Step, ReadVersion
<1>4. QED
  BY <1>3 DEF IInv, Schema, Checked, ReadVersion, Running
-----------------------------------------------------------------------------
LEMMA StepKeeps ==
  ASSUME IInv, Next
  PROVE  IInv'
<1>1. Schema /\ Checked
  BY DEF IInv
<1>2. PICK v \in 0..Latest : At(v)
  BY <1>1 DEF Schema
<1>3. CASE Boot
  <2>1. At(v)'
    BY <1>1, <1>2, <1>3, NoTxOutside DEF At, Step, Boot
  <2>2. QED
    BY <1>3, <2>1 DEF IInv, Schema, Checked, Boot, Running
<1>4. CASE Load
  <2>1. CASE ~Loads(env)
    BY <1>1, <1>4, <2>1, EndSchema DEF Load
  <2>2. CASE Loads(env)
    <3>1. At(v)'
      BY <1>1, <1>2, <1>4, <2>2, NoTxOutside DEF At, Step, Load
    <3>2. QED
      BY <1>4, <2>2, <3>1 DEF IInv, Schema, Checked, Load, Running
  <2>3. QED
    BY <2>1, <2>2
<1>5. CASE ReadVersion
  BY <1>5, ReadVersionSchema
<1>6. CASE Migrate
  BY <1>6, BeginSchema, StatementSchema, RecordSchema, CommitSchema, MigratedSchema DEF Migrate
<1>7. CASE Build
  <2>1. CASE ~BuildsService(env)
    BY <1>1, <1>7, <2>1, EndSchema DEF Build
  <2>2. CASE BuildsService(env)
    BY <1>1, <1>7, <2>2, NoTxOutside, QuietStep DEF Build, Running
  <2>3. QED
    BY <2>1, <2>2
<1>8. CASE Listen \/ Signal
  <2>1. pc \in {"listen", "serving"} /\ pc' \in {"serving", "draining"}
    BY <1>8 DEF Listen, Signal
  <2>2. UNCHANGED <<disk, tx, current, env, service>>
    BY <1>8 DEF Listen, Signal
  <2>3. QED
    BY <1>1, <2>1, <2>2, NoTxOutside, QuietStep DEF Checked, Running
<1>9. CASE Accept \/ Finish
  <2>1. UNCHANGED <<pc, disk, tx, current, env, service>>
    BY <1>9 DEF Accept, Finish
  <2>2. At(v)'
    BY <1>2, <2>1 DEF At, Step
  <2>3. QED
    BY <1>1, <2>1, <2>2 DEF IInv, Schema, Checked
<1>10. CASE StartFails \/ Drained \/ GraceOver \/ Kill
  <2>1. End
    BY <1>10 DEF StartFails, Drained, GraceOver, Kill
  <2>2. QED
    BY <1>1, <2>1, EndSchema
<1>11. QED
  BY <1>3, <1>4, <1>5, <1>6, <1>7, <1>8, <1>9, <1>10 DEF Next, Start, Stop

LEMMA IInvHolds == Spec => []IInv
<1>1. IInv /\ UNCHANGED vars => IInv'
  BY DEF IInv, Schema, At, Step, Checked, vars
<1>2. QED
  BY <1>1, StepKeeps, InitSchema, PTL DEF Spec

(* Wherever start-up is killed or fails, the volume holds exactly the      *)
(* objects of the schema versions it records, and these have no gap.       *)
THEOREM SchemaMatchesRecord == Spec => []VolumeConsistent
<1>1. IInv => VolumeConsistent
  BY DEF IInv, Schema, At, VolumeConsistent
<1>2. QED
  BY <1>1, IInvHolds, PTL

(* What a parser returns: nothing, or the first block it does not skip.    *)
LEMMA FirstOfFile ==
  ASSUME NEW pem \in Seq(Blocks \cup NotPem), NEW skipped, FirstBlock(pem, skipped) # "none"
  PROVE  \E i \in 1..Len(pem) :
           /\ pem[i] = FirstBlock(pem, skipped) /\ pem[i] \notin skipped \cup NotPem
           /\ \A j \in 1..(i - 1) : pem[j] \in skipped \cup NotPem
<1> DEFINE at == {i \in 1..Len(pem) : pem[i] \notin skipped \cup NotPem}
<1>1. at # {} /\ FirstBlock(pem, skipped) = pem[CHOOSE i \in at : \A j \in at : i <= j]
  BY Zenon DEF FirstBlock
<1>2. at \subseteq Nat
  OBVIOUS
<1>3. \E i \in at : \A j \in at : i <= j
  <2>1. IsWellFoundedOn(OpToRel(<, Nat), Nat)
    BY NatLessThanWellFounded
  <2>2. \A j, i \in Nat : j < i => <<j, i>> \in OpToRel(<, Nat)
    BY DEF OpToRel
  <2> HIDE DEF at
  <2>3. PICK i \in at : \A j \in at : ~(<<j, i>> \in OpToRel(<, Nat))
    BY <1>1, <1>2, <2>1, WFMin
  <2>4. ASSUME NEW j \in at PROVE i <= j
    <3>1. i \in Nat /\ j \in Nat
      BY <1>2
    <3>2. ~(j < i)
      BY <2>2, <2>3, <3>1, Zenon
    <3>3. QED
      BY <3>1, <3>2
  <2>5. QED
    BY <2>4
<1>4. PICK i \in at : i = (CHOOSE k \in at : \A j \in at : k <= j) /\ \A j \in at : i <= j
  BY <1>3, Zenon
<1>5. ASSUME NEW j \in 1..(i - 1)
      PROVE  pem[j] \in skipped \cup NotPem
  <2>1. i \in 1..Len(pem) /\ Len(pem) \in Nat
    OBVIOUS
  <2>2. j \in 1..Len(pem) /\ ~(i <= j)
    BY <2>1
  <2>3. QED
    BY <1>4, <2>2
<1>6. QED
  BY <1>1, <1>4, <1>5

(* The parsers skip no block of the kinds they look for.                   *)
LEMMA ParsedIsFirst ==
  ASSUME NEW pem \in Seq(Blocks \cup NotPem), NEW skipped, NEW kinds,
         kinds \cap (skipped \cup NotPem) = {}, FirstBlock(pem, skipped) \in kinds, "none" \notin kinds
  PROVE  LeadsWith(pem, kinds, FirstBlock(pem, skipped))
<1>1. PICK i \in 1..Len(pem) :
        /\ pem[i] = FirstBlock(pem, skipped)
        /\ \A j \in 1..(i - 1) : pem[j] \in skipped \cup NotPem
  BY FirstOfFile
<1>2. QED
  BY <1>1 DEF LeadsWith

LEMMA SignerKeys ==
  ASSUME NEW apple, apple.cert \in Seq(Blocks \cup NotPem), apple.key \in Seq(Blocks \cup NotPem),
         SignerBuilds(apple), Signer(apple) # NoSigner
  PROVE  /\ Signer(apple).cert = "CERTIFICATE"
         /\ LeadsWith(apple.cert, Certificates, Signer(apple).cert)
         /\ LeadsWith(apple.key, Keys, Signer(apple).key)
         /\ apple.wwdr # <<>> => Signer(apple).wwdr = "CERTIFICATE"
<1>1. AppleConfigured(apple)
  BY Zenon DEF Signer
<1>2. /\ ParseCertificate(apple.cert) = "CERTIFICATE" /\ ParsePrivateKey(apple.key) \in Keys
      /\ apple.wwdr # <<>> => ParseCertificate(apple.wwdr) = "CERTIFICATE"
  BY <1>1, Zenon DEF SignerBuilds
<1>3. /\ Signer(apple).cert = ParseCertificate(apple.cert) /\ Signer(apple).key = ParsePrivateKey(apple.key)
      /\ Signer(apple).wwdr = IF apple.wwdr = <<>> THEN "none" ELSE ParseCertificate(apple.wwdr)
  BY <1>1 DEF Signer
<1>4. LeadsWith(apple.cert, Certificates, ParseCertificate(apple.cert))
  <2>1. Certificates \cap ((Blocks \ Certificates) \cup NotPem) = {} /\ "none" \notin Certificates
    BY DEF Certificates, NotPem
  <2>2. FirstBlock(apple.cert, Blocks \ Certificates) \in Certificates
    BY <1>2 DEF ParseCertificate, Certificates
  <2>3. QED
    BY <2>1, <2>2, ParsedIsFirst DEF ParseCertificate
<1>5. LeadsWith(apple.key, Keys, ParsePrivateKey(apple.key))
  <2>1. Keys \cap (Certificates \cup NotPem) = {} /\ "none" \notin Keys
    BY DEF Certificates, NotPem, Keys
  <2>2. QED
    BY <1>2, <2>1, ParsedIsFirst DEF ParsePrivateKey
<1>6. QED
  BY <1>2, <1>3, <1>4, <1>5, Zenon

LEMMA IssuerKey ==
  ASSUME NEW google, google.key \in Seq(Blocks \cup NotPem), IssuerBuilds(google), Issuer(google) # NoIssuer
  PROVE  Issuer(google).key = "RSA KEY" /\ LeadsWith(google.key, Keys, Issuer(google).key)
<1>1. GoogleConfigured(google)
  BY Zenon DEF Issuer
<1>2. ParseRSAKey(google.key) = "RSA KEY"
  BY <1>1, Zenon DEF IssuerBuilds
<1>3. Issuer(google).key = ParseRSAKey(google.key)
  BY <1>1 DEF Issuer
<1>4. LeadsWith(google.key, Keys, ParseRSAKey(google.key))
  <2>1. /\ Keys \cap (Certificates \cup {"TRUSTED CERTIFICATE"} \cup NotPem) = {} /\ "none" \notin Keys
        /\ "RSA KEY" \in Keys
    BY DEF Certificates, NotPem, Keys
  <2>2. QED
    BY <1>2, <2>1, ParsedIsFirst DEF ParseRSAKey
<1>5. QED
  BY <1>2, <1>3, <1>4

(* What the parts take from the variables, checked by validate.            *)
LEMMA PartsReady ==
  ASSUME NEW e, Validates(e)
  PROVE  /\ Service(e).guard.mode \in EmailModes
         /\ Service(e).guard.mode = "allowlist" => Service(e).guard.allowlist \notin {{}, {""}}
         /\ Service(e).guard.mode = "redirect" => Service(e).guard.redirect # ""
         /\ \A endpoint \in {"poll", "webhook", "admin"} : Service(e).secrets[endpoint] # ""
         /\ Service(e).guard.mode # "dry_run" =>
               "" \notin {Service(e).transport.user, Service(e).transport.password}
         /\ Service(e).fetcher # NoFetcher =>
               /\ Service(e).fetcher.year # "0"
               /\ "" \notin {Service(e).fetcher.slug, Service(e).fetcher.email, Service(e).fetcher.password}
<1>1. /\ Service(e).guard = [mode |-> EmailMode(e), allowlist |-> Allowlist(e), redirect |-> RedirectTo(e)]
      /\ Service(e).secrets = [poll |-> PollToken(e), webhook |-> WebhookSecret(e), admin |-> AdminSecret(e)]
      /\ Service(e).transport = Transport(e) /\ Service(e).fetcher = Fetcher(e)
  BY DEF Service
<1>2. /\ Service(e).guard.mode = EmailMode(e) /\ Service(e).guard.allowlist = Allowlist(e)
      /\ Service(e).guard.redirect = RedirectTo(e)
  BY <1>1
<1>3. Allowlist(e) # {""}
  BY DEF Allowlist
<1>4. /\ EmailMode(e) \in EmailModes
      /\ EmailMode(e) = "allowlist" => Allowlist(e) # {}
      /\ EmailMode(e) = "redirect" => RedirectTo(e) # ""
      /\ PollToken(e) # ""
  BY Zenon DEF Validates
<1>5. \A endpoint \in {"poll", "webhook", "admin"} : Service(e).secrets[endpoint] # ""
  <2>1. WebhookSecret(e) # "" /\ AdminSecret(e) # ""
    BY <1>4, Zenon DEF WebhookSecret, AdminSecret
  <2>2. /\ Service(e).secrets["poll"] = PollToken(e) /\ Service(e).secrets["webhook"] = WebhookSecret(e)
        /\ Service(e).secrets["admin"] = AdminSecret(e)
    BY <1>1
  <2>3. QED
    BY <1>4, <2>1, <2>2, Zenon
<1>6. EmailMode(e) # "dry_run" => "" \notin {Transport(e).user, Transport(e).password}
  <2>1. SUFFICES ASSUME SendsMail(e) PROVE "" \notin {Transport(e).user, Transport(e).password}
    BY DEF SendsMail
  <2>2. Trim(e.user) # "" /\ e.password # ""
    BY <2>1, Zenon DEF Validates
  <2>3. Transport(e) = [user |-> Trim(e.user), password |-> e.password]
    BY <2>1, Zenon DEF Transport
  <2>4. Transport(e).user = Trim(e.user) /\ Transport(e).password = e.password
    BY <2>3
  <2>5. QED
    BY <2>2, <2>4, Zenon
<1>7. Fetcher(e) # NoFetcher =>
        /\ Fetcher(e).year # "0"
        /\ "" \notin {Fetcher(e).slug, Fetcher(e).email, Fetcher(e).password}
  <2> SUFFICES ASSUME Fetcher(e) # NoFetcher
               PROVE  /\ Fetcher(e).year # "0"
                      /\ "" \notin {Fetcher(e).slug, Fetcher(e).email, Fetcher(e).password}
    OBVIOUS
  <2>1. Configured(e.dgs, SeasonYear(e))
    BY Zenon DEF Fetcher
  <2>2. Fetcher(e) = [slug |-> Trim(e.dgs.slug), year |-> SeasonYear(e),
                      email |-> Trim(e.dgs.email), password |-> e.dgs.password]
    BY <2>1, Zenon DEF Fetcher
  <2>3. Trim(e.dgs.slug) # "" /\ SeasonYear(e) # "0" /\ Trim(e.dgs.email) # "" /\ e.dgs.password # ""
    BY <2>1, Zenon DEF Configured
  <2>4. /\ Fetcher(e).slug = Trim(e.dgs.slug) /\ Fetcher(e).year = SeasonYear(e)
        /\ Fetcher(e).email = Trim(e.dgs.email) /\ Fetcher(e).password = e.dgs.password
    BY <2>2
  <2>5. QED
    BY <2>3, <2>4, Zenon
<1>8. QED
  BY <1>1, <1>2, <1>3, <1>4, <1>5, <1>6, <1>7, Zenon
-----------------------------------------------------------------------------
(* What the migration does not touch: the steps and the requests in flight.*)
Counts ==
  /\ pc \in Running \cup {"off"}
  /\ env \in Envs
  /\ current \in 0..Latest
  /\ inflight \in 0..MaxRequests
  /\ faults \in [{"kill", "error"} -> Nat]

LEMMA InitCounts == Init => Counts
BY ProcessAssumption, LatestNat DEF Init, Counts

LEMMA EndCounts ==
  ASSUME Counts, End,
         faults' \in [{"kill", "error"} -> Nat]
  PROVE  Counts'
BY ProcessAssumption, LatestNat DEF Counts, End

LEMMA FaultCounts ==
  ASSUME Counts, NEW kind \in {"kill", "error"}, Fault(kind)
  PROVE  faults' \in [{"kill", "error"} -> Nat]
BY DEF Counts, Fault

LEMMA StepCounts ==
  ASSUME IInv, Counts, Next
  PROVE  Counts'
<1>1. CASE Boot \/ Migrate \/ Listen \/ Signal
  BY <1>1 DEF Counts, Boot, Migrate, Begin, Statement, RecordVersion, Commit, Migrated, Listen, Signal, Running
<1>2. CASE Load \/ Build
  <2>1. faults' \in [{"kill", "error"} -> Nat]
    BY <1>2 DEF Counts, Load, Build
  <2>2. CASE End
    BY <2>1, <2>2, EndCounts
  <2>3. CASE ~End
    BY <1>2, <2>3 DEF Counts, Load, Build, Running
  <2>4. QED
    BY <2>2, <2>3
<1>3. CASE ReadVersion
  <2>1. PICK v \in 0..Latest : At(v)
    BY DEF IInv, Schema
  <2>2. current' = v
    BY <1>3, <2>1, VolumeVersion, LatestNat DEF ReadVersion, At
  <2>3. QED
    BY <1>3, <2>2 DEF Counts, ReadVersion, Running
<1>4. CASE Accept \/ Finish
  BY <1>4, ProcessAssumption DEF Counts, Accept, Finish
<1>5. CASE Drained \/ GraceOver
  <2>1. faults' \in [{"kill", "error"} -> Nat]
    BY <1>5 DEF Counts, Drained, GraceOver
  <2>2. QED
    BY <1>5, <2>1, EndCounts DEF Drained, GraceOver
<1>6. CASE StartFails \/ Kill
  BY <1>6, FaultCounts, EndCounts DEF StartFails, Kill
<1>7. QED
  BY <1>1, <1>2, <1>3, <1>4, <1>5, <1>6 DEF Next, Start, Stop

LEMMA CountsHold == Spec => []Counts
<1>1. Counts /\ UNCHANGED vars => Counts'
  BY DEF Counts, vars
<1>2. QED
  BY <1>1, StepCounts, IInvHolds, InitCounts, PTL DEF Spec

(* A serving process holds what its handlers rely on: the latest schema, a *)
(* guard that can decide, a secret for every guarded endpoint, credentials *)
(* where it may send, a whole account where it polls, and the leading keys *)
(* of its wallets, whatever the environment it was started in.             *)
THEOREM ReadyToServe == Spec => []ServingIsReady
<1>1. ASSUME IInv, Counts, pc \in {"serving", "draining"}
      PROVE  ServingIsReady
  <2>1. disk = Volume(Latest)
    BY <1>1 DEF IInv, Schema, At
  <2>2. Loads(env) /\ service = Service(env) /\ BuildsService(env)
    BY <1>1 DEF IInv, Checked, Running
  <2>3. Validates(env) /\ SignerBuilds(env.apple) /\ IssuerBuilds(env.google)
    BY <2>2 DEF Loads, BuildsService
  <2>4. service.apple = Signer(env.apple) /\ service.google = Issuer(env.google)
    BY <2>2 DEF Service
  <2>5. {env.apple.cert, env.apple.key, env.google.key} \subseteq Seq(Blocks \cup NotPem)
    BY <1>1, EnvsAssumption DEF Counts
  <2>6. service.apple # NoSigner =>
          /\ service.apple.cert = "CERTIFICATE" /\ LeadsWith(env.apple.cert, Certificates, service.apple.cert)
          /\ LeadsWith(env.apple.key, Keys, service.apple.key)
          /\ env.apple.wwdr # <<>> => service.apple.wwdr = "CERTIFICATE"
    BY <2>3, <2>4, <2>5, SignerKeys
  <2>7. service.google # NoIssuer =>
          service.google.key = "RSA KEY" /\ LeadsWith(env.google.key, Keys, service.google.key)
    BY <2>3, <2>4, <2>5, IssuerKey
  <2>8. QED
    BY <2>1, <2>2, <2>3, <2>6, <2>7, PartsReady, Zenon DEF ServingIsReady
<1>2. IInv /\ Counts => ServingIsReady
  BY <1>1 DEF ServingIsReady
<1>3. QED
  BY <1>2, IInvHolds, CountsHold, PTL
-----------------------------------------------------------------------------
(* The open transaction and the volume stay within the migrations known.   *)
LEMMA SchemaBounds ==
  ASSUME NEW v \in 0..Latest, At(v)
  PROVE  /\ disk.versions \subseteq 1..Latest /\ disk.objects \subseteq ObjectsUpTo(Latest)
         /\ tx.version \in 0..Latest /\ tx.objects \subseteq ObjectsUpTo(Latest)
         /\ tx.next \in Nat /\ tx.recorded \in BOOLEAN
<1>1. disk.versions \subseteq 1..Latest /\ disk.objects \subseteq ObjectsUpTo(Latest)
  <2>1. disk.versions = 1..v /\ disk.objects = ObjectsUpTo(v)
    BY DEF At, Volume
  <2>2. 1..v \subseteq 1..Latest
    BY LatestNat
  <2>3. QED
    BY <2>1, <2>2 DEF ObjectsUpTo
<1>2. CASE tx = NoTx
  BY <1>1, <1>2, LatestNat DEF NoTx
<1>3. CASE tx # NoTx
  <2>1. PICK n \in 1..(Size(v + 1) + 1) : tx = Halfway(v + 1, n, FALSE) \/ tx = Halfway(v + 1, n, TRUE)
    BY <1>3, OpenTx
  <2>2. v + 1 \in 1..Latest /\ Size(v + 1) \in Nat
    BY <1>3, OpenTx
  <2>3. tx.version = v + 1 /\ tx.next = n /\ tx.recorded \in BOOLEAN
        /\ tx.objects = {Migrations[v + 1][i] : i \in 1..(n - 1)}
    <3>1. CASE tx = Halfway(v + 1, n, FALSE)
      BY <3>1 DEF Halfway
    <3>2. CASE tx = Halfway(v + 1, n, TRUE)
      BY <3>2 DEF Halfway
    <3>3. QED
      BY <2>1, <3>1, <3>2
  <2>4. 1..(n - 1) \subseteq 1..Size(v + 1)
    BY <2>2
  <2>5. tx.objects \subseteq Created(v + 1)
    BY <2>3, <2>4 DEF Created, Size
  <2>6. Created(v + 1) \subseteq ObjectsUpTo(Latest)
    BY <2>2 DEF ObjectsUpTo
  <2>7. QED
    BY <1>1, <2>2, <2>3, <2>5, <2>6, LatestNat
<1>4. QED
  BY <1>2, <1>3

(* The variables keep their types: a volume never records a version the    *)
(* program does not know, and requests in flight never go negative.        *)
THEOREM ProcessTypes == Spec => []TypeOK
<1>1. ASSUME IInv, Counts
      PROVE  TypeOK
  <2>1. PICK v \in 0..Latest : At(v)
    BY <1>1 DEF IInv, Schema
  <2>2. QED
    BY <1>1, <2>1, SchemaBounds DEF Counts, TypeOK
<1>2. QED
  BY <1>1, IInvHolds, CountsHold, PTL
=============================================================================
