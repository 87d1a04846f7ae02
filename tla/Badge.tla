-------------------------------- MODULE Badge --------------------------------
(***************************************************************************)
(* What one badge says wherever it appears: the build of                   *)
(* internal/poll/poll.go makes the expiry, the artwork (internal/badge),   *)
(* the Apple and Google passes (internal/wallet) and the message           *)
(* (internal/email), stores the passes and records the row; the download   *)
(* and listing handlers (internal/server) show what was stored. The order  *)
(* of these steps, their failures and their races are those of Pipeline;   *)
(* here the contents count.                                                *)
(***************************************************************************)
EXTENDS Expiry, Text

CONSTANT Orders   \* families of registrations, with the wallets configured

(* The purchases whose local day and the day after lie in the calendar.    *)
Covered == Winter..(24 * (YearStart[LastYear + 1] - 1) + Winter - 2)

(* Orders are registrations: an ID is the text before and after a suffix,  *)
(* a season is none or a year that ends inside the calendar.               *)
ASSUME OrdersAssumption ==
  \A family \in DOMAIN Orders : \A o \in Orders[family] :
    /\ o.at \in Covered
    /\ o.season \in {0} \cup Epoch..(LastYear - 1)
    /\ o.passType \in PassTypes
    /\ o.id \in Seq(STRING)
    /\ o.name \in Seq(NameKinds) /\ o.serial \in Seq(NameKinds)
    /\ o.body \in Seq(BodyKinds) /\ o.size \in Nat

VARIABLES
  order,     \* the registration build is called with
  badge,     \* what Calculate returned; None before
  artwork,   \* the badge's picture
  apple,     \* the files of the .pkpass, NoPass without one
  google,    \* what the save link carries, NoPass without one
  message,   \* the rendered e-mail
  artifact,  \* the row of pass_artifacts, NoArtifact without one
  row        \* what the ledger shows of the badge

vars == <<order, badge, artwork, apple, google, message, artifact, row>>

None == [kind |-> "none"]
NoPass == [kind |-> "no pass"]
NoPage == ""
NoLink == [id |-> <<>>, token |-> ""]
NoArtifact == [id |-> <<>>, token |-> "", pkpass |-> NoPass, save |-> NoPass]

(* A badge that never expires has the zero time, which prints as a date.   *)
NoDate == Date(0, 0, 0)
ZeroTime == -1
ExpiresAt(b) == IF b.kind = "date" THEN b.at ELSE ZeroTime
Expires(at) == at # ZeroTime
Format(at) == IF at = ZeroTime THEN Date(1, 1, 1) ELSE LocalDate(at - 1)

HasPDGA(o) == o.pdga \notin {"", "blank"}
PDGAURL(o) == IF o.pdga \in {"", "blank"} THEN NoPage ELSE "page"

(* Validate; addresses are those of Ingest. *)
Validate(o) == o.id # <<>> /\ TrimSpace(o.name) # <<>> /\ ~o.zero

Init ==
  /\ \E family \in DOMAIN Orders : order \in Orders[family]
  /\ badge = None
  /\ artwork = None
  /\ apple = NoPass /\ google = NoPass
  /\ message = None
  /\ artifact = NoArtifact
  /\ row = None
-----------------------------------------------------------------------------
(* The artwork (Render): text boxes first, panels over them. *)
Box(x, y, width, height) == [x |-> x, y |-> y, width |-> width, height |-> height]

(* drawScaled: a 7 by 13 face, two rows deeper for its descenders. *)
TextBox(y, scale, length) == Box(60, y, 7 * length * scale, 15 * scale)

LabelLength ==
  [day_pass |-> 8, season_membership |-> 13, founder |-> 7, sponsor |-> 14, unknown |-> 7]

Canvas == Box(0, 0, 1000, 560)
LogoPanel == Box(740, 60, 200, 200)
QRPanel == Box(740, 280, 200, 200)

Render(o, at) ==
  [expires |-> IF Expires(at) THEN Format(at) ELSE NoDate,
   qr      |-> IF HasPDGA(o) THEN <<PDGAURL(o)>> ELSE <<>>,
   text    |-> <<TextBox(60, 3, 23),
                 TextBox(200, 5, Len(Headline(o.name, 19))),
                 TextBox(300, 3, LabelLength[o.passType]),
                 TextBox(380, 2, IF Expires(at) THEN 20 ELSE 13),
                 TextBox(440, 2, 7 + Len(Headline(o.serial, 32))),
                 TextBox(490, 1, 64)>>,
   panels  |-> <<LogoPanel>> \o (IF HasPDGA(o) THEN <<QRPanel>> ELSE <<>>)]

Fits(width, height, length, scale) ==
  13 * scale <= height /\ 7 * length * scale <= width - height - 6

(* fitWordmark: the largest scale at which the long or else the short      *)
(* wordmark fits beside the mark; 0 characters when none does.             *)
Wordmark(width, height) ==
  LET scales(length) == {s \in 1..(height \div 13) : Fits(width, height, length, s)}
      scale == Max({0} \cup scales(23) \cup scales(13))
  IN [scale  |-> scale,
      length |-> IF scale = 0 THEN 0 ELSE IF scale \in scales(23) THEN 23 ELSE 13]

(* Logo: the strip, the mark and the wordmark beside it. *)
Logo(width, height) ==
  LET mark == Wordmark(width, height)
  IN [strip |-> Box(0, 0, width, height),
      scale |-> mark.scale, length |-> mark.length,
      text  |-> Box(height + 6, (height - 13 * mark.scale) \div 2,
                    7 * mark.length * mark.scale, 13 * mark.scale)]
-----------------------------------------------------------------------------
(* The Apple pass: pass.json, the images, the manifest, the signature.     *)
PassJSON(o, at) ==
  [serial   |-> o.id,
   expiry   |-> IF Expires(at) THEN Format(at) ELSE NoDate,
   field    |-> IF Expires(at) THEN Format(at) ELSE NoDate,
   terms    |-> IF Expires(at) THEN "as shown" ELSE "as long as recognised",
   barcodes |-> IF HasPDGA(o) THEN <<PDGAURL(o)>> ELSE <<>>]

Assets ==
  [icon |-> 29, icon2x |-> 58, icon3x |-> 87, logo |-> Logo(160, 50), logo2x |-> Logo(320, 100)]

Digests(files) == files

(* A file joins the others, as files[name] = content does.                 *)
Put(files, name, content) ==
  [file \in DOMAIN files \cup {name} |-> IF file = name THEN content ELSE files[file]]

(* Mutation: the manifest is taken before pass.json joins the files.       *)
PackEarly(json) ==
  LET manifest == Digests(Assets)
      files == Put(Assets, "pass.json", json)
  IN Put(Put(files, "manifest.json", manifest), "signature", manifest)

Pack(json) ==
  LET files == Put(Assets, "pass.json", json)
      manifest == Digests(files)
  IN Put(Put(files, "manifest.json", manifest), "signature", manifest)

(* Mutation: a founder's zero time is formatted like any other. *)
SaveJWTZeroTime(o, at) ==
  [text     |-> IF Expires(at) THEN Format(at) ELSE NoDate,
   interval |-> Format(at),
   barcodes |-> IF HasPDGA(o) THEN <<PDGAURL(o)>> ELSE <<>>]

(* The Google pass, as claims of the save link. *)
SaveJWT(o, at) ==
  [text     |-> IF Expires(at) THEN Format(at) ELSE NoDate,
   interval |-> IF Expires(at) THEN Format(at) ELSE NoDate,
   barcodes |-> IF HasPDGA(o) THEN <<PDGAURL(o)>> ELSE <<>>]
-----------------------------------------------------------------------------
(* The link of the Apple button, and what the download handler makes of    *)
(* it: it takes the extension off again.                                   *)
ApplePassURL(id, token) == [id |-> Append(id, ".pkpass"), token |-> token]

(* Mutation: every extension goes, not just the one that was added. *)
TrimEverySuffix(path) == SelectSeq(path, LAMBDA part : part # ".pkpass")

TrimSuffix(path) == IF path # <<>> /\ Last(path) = ".pkpass" THEN Front(path) ELSE path

Download(url) ==
  IF /\ TrimSuffix(url.id) # <<>> /\ url.token # ""
     /\ artifact.id = TrimSuffix(url.id) /\ artifact.token = url.token
  THEN artifact.pkpass   \* not found when that is NoPass
  ELSE NoPass

(* The message (Render and MIME of internal/email). Its text is the copy   *)
(* of the template with the words of the registration.                     *)
Mail(o, at, pkpass, save) ==
  [kind       |-> "mail",
   subject    |-> IF Expires(at) THEN Format(at) ELSE NoDate,
   expires    |-> IF Expires(at) THEN Format(at) ELSE NoDate,
   appleURL   |-> IF pkpass # NoPass THEN ApplePassURL(o.id, "token") ELSE NoLink,
   googleURL  |-> save,
   attachment |-> pkpass,
   body       |-> QuotedPrintable(o.body),
   inline     |-> Wrap(o.size)]

(* formatTime, before the row is written and when a handler answers.       *)
RecordedExpiry(at) == IF Expires(at) THEN Format(at) ELSE NoDate

Store(o, pkpass, save) ==
  IF pkpass # NoPass \/ save # NoPass
  THEN [id |-> o.id, token |-> "token", pkpass |-> pkpass, save |-> save]
  ELSE NoArtifact

(* build: without a valid registration or an expiry there is no badge.     *)
Refuse ==
  /\ badge = None
  /\ Calculate(order).kind = "error" \/ ~Validate(order)
  /\ badge' = Failed
  /\ UNCHANGED <<order, artwork, apple, google, message, artifact, row>>

Build ==
  LET expiry == Calculate(order)
      at == ExpiresAt(expiry)
  IN /\ badge = None /\ expiry.kind # "error" /\ Validate(order)
     /\ badge' = expiry
     /\ artwork' = Render(order, at)
     /\ apple' = IF "apple" \in order.wallets THEN Pack(PassJSON(order, at)) ELSE NoPass
     /\ google' = IF "google" \in order.wallets THEN SaveJWT(order, at) ELSE NoPass
     /\ message' = Mail(order, at, apple', google')
     /\ artifact' = Store(order, apple', google')
     /\ row' = [kind |-> "row", expires |-> RecordedExpiry(at), year |-> ListedUnder(expiry)]
     /\ UNCHANGED order

Next == Refuse \/ Build
Spec == Init /\ [][Next]_vars
-----------------------------------------------------------------------------
(* A day pass is good for the rest of its local day and the whole of the   *)
(* next one, across month ends, leap days, year ends and both clock        *)
(* changes: it dies at the local midnight two days on, 24 to 49 hours      *)
(* after the purchase (README, SPEC: Date X + 1 day @ 23:59:59).           *)
DayPassCoversNextDay ==
  badge.kind = "date" /\ order.passType = "day_pass" =>
    /\ DayNumber(badge.date) = DayNumber(LocalDate(order.at)) + 1
    /\ badge.date = DateOf(DayNumber(badge.date))
    /\ badge.at - order.at \in 24..49
    /\ LocalDate(badge.at - 1) = badge.date

(* A season badge bought in or before its season has not expired when it   *)
(* is bought, is good through December 31 and dead on January 1, local     *)
(* time, and the admin listing finds it under its season's year.           *)
SeasonLastsItsYear ==
  badge.kind = "date" /\ order.passType # "day_pass" =>
    /\ LocalDate(badge.at - 1) = Date(order.season, 12, 31)
    /\ LocalDate(badge.at) = Date(order.season + 1, 1, 1)
    /\ LocalDate(order.at).year <= order.season => order.at < badge.at
    /\ row.year = order.season

(* Wherever a badge names its end, in print or for a machine, it names the *)
(* day it was given; a founder's badge names none anywhere, never the zero *)
(* time (each surface formats the expiry for itself).                      *)
OneExpiry ==
  row # None =>
    LET last == IF badge = Unexpiring THEN NoDate ELSE badge.date IN
    /\ {artwork.expires, message.subject, message.expires, row.expires} = {last}
    /\ apple # NoPass => {apple["pass.json"].expiry, apple["pass.json"].field} = {last}
    /\ apple # NoPass => (apple["pass.json"].terms = "as shown" <=> last # NoDate)
    /\ google # NoPass => {google.text, google.interval} = {last}
    /\ row.year = 0 <=> last = NoDate

(* The Apple button is there exactly when a pass is attached, and behind   *)
(* it the handler serves that pass, whatever the ID looks like; without an *)
(* Apple pass the stored token opens nothing (handlePassDownload).         *)
ButtonsWork ==
  row # None =>
    /\ message.appleURL # NoLink <=> message.attachment # NoPass
    /\ message.appleURL # NoLink => Download(message.appleURL) = message.attachment
    /\ apple = NoPass => Download(ApplePassURL(order.id, artifact.token)) = NoPass
    /\ message.googleURL = artifact.save

(* Nothing on the artwork is covered or cut off, whatever the name, the ID *)
(* and the pass type; and both logo strips carry the same whole wordmark,  *)
(* the larger one at a larger scale.                                       *)
Inside(inner, outer) ==
  /\ outer.x <= inner.x /\ inner.x + inner.width <= outer.x + outer.width
  /\ outer.y <= inner.y /\ inner.y + inner.height <= outer.y + outer.height

Apart(a, b) ==
  \/ a.x + a.width <= b.x \/ b.x + b.width <= a.x
  \/ a.y + a.height <= b.y \/ b.y + b.height <= a.y

NothingHidden ==
  row # None =>
    LET boxes == artwork.text \o artwork.panels IN
    /\ \A i \in DOMAIN boxes : Inside(boxes[i], Canvas)
    /\ \A i, j \in DOMAIN boxes : i # j => Apart(boxes[i], boxes[j])
    /\ apple # NoPass =>
         /\ \A logo \in {apple["logo"], apple["logo2x"]} :
              logo.length > 0 /\ Inside(logo.text, logo.strip)
         /\ apple["logo"].length = apple["logo2x"].length
         /\ apple["logo"].scale < apple["logo2x"].scale

(* The signature speaks for every file of the pass but itself: the signed  *)
(* manifest holds each of them as it is in the bundle (Build, zipFiles).   *)
SignedWhole ==
  apple # NoPass =>
    LET others == DOMAIN apple \ {"signature", "manifest.json"} IN
    /\ apple["signature"] = apple["manifest.json"]
    /\ DOMAIN apple["manifest.json"] = others
    /\ \A file \in others : apple["manifest.json"][file] = apple[file]

(* A mail reader gets the text that was rendered, but for carriage returns *)
(* and blanks at the end of a line, and no line of the message is longer   *)
(* than the encoders promise (quotedPrintable, wrap).                      *)
BodyArrives ==
  message # None =>
    /\ Significant(ReadText(message.body)) = Significant(Append(order.body, "nl"))
    /\ \A i \in DOMAIN message.body : LineWidth(message.body[i]) <= MaxLine + 1
    /\ LET full == Len(message.inline) - 1 IN
         /\ \A i \in 1..full : message.inline[i] = PartLine
         /\ message.inline[full + 1] \in 0..PartLine
         /\ full * PartLine + message.inline[full + 1] = order.size
=============================================================================
