----------------------------- MODULE MCProcess -----------------------------
(***************************************************************************)
(* Small instances of the server process for TLC: the environments it is   *)
(* started in. Every environment differs from a good one in one group of   *)
(* variables only.                                                         *)
(***************************************************************************)
EXTENDS Process

(* PEM files: nothing, no block, a certificate, a key, several of them in  *)
(* either order, and files that one parser or both refuse.                 *)
Pems ==
  {<<>>, <<"text">>, <<"CERTIFICATE">>, <<"RSA KEY">>, <<"EC KEY">>,
   <<"CERTIFICATE", "RSA KEY">>, <<"text", "EC KEY", "CERTIFICATE">>,
   <<"RSA KEY", "EC KEY">>, <<"EC KEY", "RSA KEY">>, <<"CERTIFICATE", "bad CERTIFICATE">>,
   <<"TRUSTED CERTIFICATE", "RSA KEY">>, <<"bad CERTIFICATE", "CERTIFICATE", "RSA KEY">>,
   <<"other", "RSA KEY">>}

NoApple == [pass |-> "", team |-> "", cert |-> <<>>, key |-> <<>>, wwdr |-> <<>>]
GoodApple == [pass |-> "set", team |-> "set", cert |-> <<"CERTIFICATE">>, key |-> <<"RSA KEY">>, wwdr |-> <<>>]

Apples ==
  {[GoodApple EXCEPT !.cert = p] : p \in Pems} \cup {[GoodApple EXCEPT !.key = p] : p \in Pems}
    \cup {[GoodApple EXCEPT !.wwdr = p] : p \in {<<"text">>, <<"RSA KEY", "CERTIFICATE">>, <<"bad CERTIFICATE">>}}
    \cup {[GoodApple EXCEPT !.pass = "blank"], [GoodApple EXCEPT !.team = "blank"]}

GoodGoogle == [issuer |-> "set", class |-> "set", account |-> "set", key |-> <<"RSA KEY">>]

Googles ==
  {[GoodGoogle EXCEPT !.key = p] : p \in Pems}
    \cup {[GoodGoogle EXCEPT !.issuer = "blank"], [GoodGoogle EXCEPT !.class = "blank"],
          [GoodGoogle EXCEPT !.account = "blank"]}

GoodEnv ==
  [mode |-> "", allowlist |-> "", redirect |-> "", poll |-> "poll", webhook |-> "", admin |-> "",
   user |-> "set", password |-> "set", port |-> "", year |-> "2026", zone |-> "",
   dgs |-> [slug |-> "set", email |-> "set", password |-> "set"], apple |-> NoApple,
   google |-> [GoodGoogle EXCEPT !.key = <<>>]]

(* The guard; its credentials; the secrets; the export; the wallets.       *)
GuardEnvs ==
  {[GoodEnv EXCEPT !.mode = m, !.allowlist = t[1], !.redirect = t[2]] :
     m \in EmailModes \cup {"blank", "bogus"}, t \in {<<"set", "blank">>, <<"blank", "set">>}}

CredentialEnvs ==
  {[GoodEnv EXCEPT !.mode = m, !.redirect = "set", !.user = c[1], !.password = c[2]] :
     m \in {"", "redirect", "dry_run"}, c \in {<<"set", "">>, <<"blank", "set">>}}

SecretEnvs ==
  {[GoodEnv EXCEPT !.poll = t, !.webhook = w, !.admin = a] :
     t \in {"blank", "poll"}, w \in {"blank", "hook"}, a \in {"blank", "admin"}}

ExportEnvs ==
  {[GoodEnv EXCEPT !.port = "bad"], [GoodEnv EXCEPT !.zone = "bad"], [GoodEnv EXCEPT !.dgs.password = ""],
   [GoodEnv EXCEPT !.dgs.slug = "blank"], [GoodEnv EXCEPT !.dgs.email = "blank"]}
    \cup {[GoodEnv EXCEPT !.year = y] : y \in {"", "blank", "0", "bad"}}

WalletEnvs ==
  {[GoodEnv EXCEPT !.apple = a] : a \in Apples} \cup {[GoodEnv EXCEPT !.google = g] : g \in Googles}

EveryEnv == GuardEnvs \cup CredentialEnvs \cup SecretEnvs \cup ExportEnvs \cup WalletEnvs

Troubled == [kill |-> 2, error |-> 1]
=============================================================================
