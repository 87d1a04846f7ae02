------------------------------- MODULE Config -------------------------------
(***************************************************************************)
(* Configuration (internal/config/config.go) and what start-up builds from *)
(* it (cmd/server/main.go, internal/mailer/guard.go). A variable of the    *)
(* environment is unset (""), only "blank" characters, or a value; of a    *)
(* number only what it parses to is kept, and a PEM variable is the        *)
(* sequence of what its file holds, one block or some other text at a time.*)
(***************************************************************************)
EXTENDS Integers, Sequences

(* What most lookups do; passwords and PEM keys are taken as they are.     *)
Trim(v) == IF v = "blank" THEN "" ELSE v

EmailModes == {"live", "allowlist", "redirect", "dry_run"}

EmailMode(env) == IF Trim(env.mode) = "" THEN "live" ELSE env.mode
Allowlist(env) == {Trim(env.allowlist)} \ {""}
RedirectTo(env) == Trim(env.redirect)

SendsMail(env) == EmailMode(env) # "dry_run"

(* A year that is not given is the year 0, which counts as none.           *)
SeasonYear(env) == IF Trim(env.year) = "" THEN "0" ELSE env.year

(* What the guarded endpoints ask for: the webhook and the admin endpoints *)
(* fall back to the secret that is required anyway.                        *)
PollToken(env)     == Trim(env.poll)
WebhookSecret(env) == IF Trim(env.webhook) # "" THEN Trim(env.webhook) ELSE PollToken(env)
AdminSecret(env)   == IF Trim(env.admin) # "" THEN Trim(env.admin) ELSE PollToken(env)

(* Mutation: the secret of the admin endpoints is taken for enough. *)
ValidatesAnySecret(env) ==
  /\ EmailMode(env) \in EmailModes
  /\ EmailMode(env) = "allowlist" => Allowlist(env) # {}
  /\ EmailMode(env) = "redirect" => RedirectTo(env) # ""
  /\ AdminSecret(env) # ""
  /\ SendsMail(env) => Trim(env.user) # "" /\ env.password # ""

Validates(env) ==
  /\ EmailMode(env) \in EmailModes
  /\ EmailMode(env) = "allowlist" => Allowlist(env) # {}
  /\ EmailMode(env) = "redirect" => RedirectTo(env) # ""
  /\ PollToken(env) # ""
  /\ SendsMail(env) => Trim(env.user) # "" /\ env.password # ""

(* Load: malformed numbers and time zones first, then the rules above.     *)
Loads(env) ==
  /\ "bad" \notin {env.port, env.year, env.zone}
  /\ Validates(env)

(* A part is configured when all its variables are there; otherwise it is  *)
(* left out of the service. Its passwords and PEM files are not trimmed.   *)
Configured(dgs, year)  == Trim(dgs.slug) # "" /\ year # "0" /\ Trim(dgs.email) # "" /\ dgs.password # ""
AppleConfigured(apple) == Trim(apple.pass) # "" /\ Trim(apple.team) # "" /\ apple.cert # <<>> /\ apple.key # <<>>
GoogleConfigured(google) ==
  Trim(google.issuer) # "" /\ Trim(google.class) # "" /\ Trim(google.account) # "" /\ google.key # <<>>

(* NewGuard checks its own two rules again. *)
GuardBuilds(env) ==
  CASE EmailMode(env) \in {"live", "dry_run"} -> TRUE
    [] EmailMode(env) = "allowlist"           -> Allowlist(env) # {}
    [] EmailMode(env) = "redirect"            -> RedirectTo(env) # ""
    [] OTHER                                  -> FALSE
-----------------------------------------------------------------------------
(* What a PEM file can hold: certificates and keys, among them some that   *)
(* do not parse, and text outside any block.                               *)
Certificates == {"CERTIFICATE", "bad CERTIFICATE"}
Keys         == {"RSA KEY", "EC KEY"}
Blocks       == Certificates \cup Keys \cup {"TRUSTED CERTIFICATE", "other"}
NotPem       == {"text"}

(* The block a parser takes from a file: the first of those it does not    *)
(* skip. It has to parse, whatever follows it.                             *)
FirstBlock(pem, skipped) ==
  LET at == {i \in 1..Len(pem) : pem[i] \notin skipped \cup NotPem}
  IN IF at = {} THEN "none" ELSE pem[CHOOSE i \in at : \A j \in at : i <= j]

ParseCertificate(pem) == FirstBlock(pem, Blocks \ Certificates)
ParsePrivateKey(pem)  == FirstBlock(pem, Certificates)
ParseRSAKey(pem)      == FirstBlock(pem, Certificates \cup {"TRUSTED CERTIFICATE"})

(* NewSigner and NewIssuer refuse key material they cannot parse.          *)
SignerBuilds(apple) ==
  AppleConfigured(apple) =>
    /\ ParseCertificate(apple.cert) = "CERTIFICATE" /\ ParsePrivateKey(apple.key) \in Keys
    /\ apple.wwdr # <<>> => ParseCertificate(apple.wwdr) = "CERTIFICATE"

IssuerBuilds(google) == GoogleConfigured(google) => ParseRSAKey(google.key) = "RSA KEY"

BuildsService(env) == GuardBuilds(env) /\ SignerBuilds(env.apple) /\ IssuerBuilds(env.google)

(* A part of the service that is left out. *)
NoTransport == [user |-> "", password |-> ""]
NoFetcher   == [slug |-> "", year |-> "0", email |-> "", password |-> ""]
NoSigner    == [cert |-> "none", key |-> "none", wwdr |-> "none"]
NoIssuer    == [key |-> "none"]

Transport(env) ==
  IF SendsMail(env) THEN [user |-> Trim(env.user), password |-> env.password] ELSE NoTransport

Fetcher(env) ==
  IF Configured(env.dgs, SeasonYear(env))
  THEN [slug |-> Trim(env.dgs.slug), year |-> SeasonYear(env),
        email |-> Trim(env.dgs.email), password |-> env.dgs.password]
  ELSE NoFetcher

Signer(apple) ==
  IF AppleConfigured(apple)
  THEN [cert |-> ParseCertificate(apple.cert), key |-> ParsePrivateKey(apple.key),
        wwdr |-> IF apple.wwdr = <<>> THEN "none" ELSE ParseCertificate(apple.wwdr)]
  ELSE NoSigner

Issuer(google) ==
  IF GoogleConfigured(google) THEN [key |-> ParseRSAKey(google.key)] ELSE NoIssuer

(* The running service, with what its handlers take from the configuration.*)
Service(env) ==
  [guard     |-> [mode |-> EmailMode(env), allowlist |-> Allowlist(env), redirect |-> RedirectTo(env)],
   secrets   |-> [poll |-> PollToken(env), webhook |-> WebhookSecret(env), admin |-> AdminSecret(env)],
   transport |-> Transport(env),
   fetcher   |-> Fetcher(env),
   apple     |-> Signer(env.apple),
   google    |-> Issuer(env.google)]
=============================================================================
