------------------------------- MODULE Ingest -------------------------------
(***************************************************************************)
(* Ingest (internal/dgs, internal/domain): from the lines of the club-admin*)
(* CSV export, or one webhook payload, to classified registrations.        *)
(* Cells are already trimmed and lower-cased where the code does so; a     *)
(* date, a PDGA number or an item label is reduced to what the code can    *)
(* tell about it.                                                          *)
(***************************************************************************)
EXTENDS Integers, Sequences

CONSTANTS
  Emails,     \* e-mail addresses as people type them
  Address,    \* [Emails -> normalised address, or Blank]
  Names,      \* registrants' names
  Orders,     \* IDs a webhook sender may use
  Blank       \* an empty cell

Addresses == {Address[e] : e \in Emails} \ {Blank}

ASSUME IngestAssumption ==
  /\ Blank \notin Names \cup Orders
  /\ Addresses \cap Orders = {}

(* One line of the export, as encoding/csv finds it: what its quotes do,   *)
(* and its cells. "plain" has none, or empty pairs; "paired" has whole     *)
(* quoted cells; "stray" breaks the syntax where it stands; a name or a    *)
(* note (the last column) may open a quote that the line leaves open; and  *)
(* "closes" ends one left open by an earlier line, or breaks the syntax.   *)
Divisions == {"mem", "fndr", "spon", "totals", "other"}
Openers   == {"opens_name", "opens_notes"}
Row == [quotes : {"plain", "paired", "stray", "closes"} \cup Openers,
        division : Divisions, name : Names \cup {Blank}, email : Emails,
        date : {"good", "zero", "unreadable"}, pdga : {"none", "number", "text", "long"}]

Readable(row) == row.quotes \in {"plain", "paired"}

(* csv.Reader.Read: the record that begins at line n takes in the lines up *)
(* to line m. That is the line itself, unless it leaves a quote open: then *)
(* everything up to the next line with a quote, or to the end of the file, *)
(* is text of the open cell.                                               *)
RecordEnds(lines, n, m) ==
  IF lines[n].quotes \notin Openers THEN m = n
  ELSE /\ \A k \in (n + 1)..(m - 1) : lines[k].quotes = "plain"
       /\ m = Len(lines) \/ (m > n /\ lines[m].quotes # "plain")

(* A quote closed in a later line makes one row of both: the cells before  *)
(* it are the first line's, those after it the last line's. Any other end  *)
(* of an open quote is a syntax error.                                     *)
RecordAt(lines, n, m) ==
  CASE m > n /\ lines[m].quotes = "closes" /\ lines[n].quotes = "opens_name" ->
         [lines[m] EXCEPT !.quotes = "paired", !.division = lines[n].division, !.name = lines[n].name]
    [] m > n /\ lines[m].quotes = "closes" /\ lines[n].quotes = "opens_notes" ->
         [lines[n] EXCEPT !.quotes = "paired"]
    [] OTHER -> lines[n]

(* No fallback: an unknown division or label has no pass type. *)
Unknown == "unknown"

ClassifyDivision(division) ==
  CASE division = "mem"  -> "season_membership"
    [] division = "fndr" -> "founder"
    [] division = "spon" -> "sponsor"
    [] OTHER             -> Unknown

IsTotalsRow(row) == Readable(row) /\ row.division = "totals"

(* A digest of the event and the normalised address, which stands for it:  *)
(* one event is configured at a time, and digests are taken as injective.  *)
RegistrationID(email) == Address[email]

(* Registration.Validate *)
Valid(id, name, email, date) ==
  id # Blank /\ name # Blank /\ Address[email] # Blank /\ date # "zero"

(* The first check of ParseExport's loop that a row fails. *)
RowError(row) ==
  CASE ~Readable(row)                            -> "unreadable"
    [] ClassifyDivision(row.division) = Unknown  -> Unknown
    [] RegistrationID(row.email) = Blank         -> "no_email"
    [] row.date = "unreadable"                   -> "bad_date"
    [] ~Valid(RegistrationID(row.email), row.name, row.email, row.date) -> "invalid"
    [] OTHER                                     -> "none"

Usable(row) == ~IsTotalsRow(row) /\ RowError(row) = "none"

(* A number that cannot be printed as a QR code is dropped with a warning, *)
(* once the row has got as far as its date; the row itself is kept.        *)
PdgaWarning(row) == RowError(row) \in {"none", "invalid"} /\ row.pdga \in {"text", "long"}

Candidate(row) ==
  [id |-> RegistrationID(row.email), name |-> row.name, email |-> row.email,
   passType |-> ClassifyDivision(row.division), pdga |-> row.pdga = "number"]

(* What is read from an export: candidates, and errors with row numbers.   *)
Candidates == [id : Addresses, name : Names, email : Emails,
               passType : {"season_membership", "founder", "sponsor"}, pdga : BOOLEAN]
Whats == {"pdga", "unreadable", Unknown, "no_email", "bad_date", "invalid"}
Reports == [row : Nat, what : Whats]
Parsed == [candidates : Seq(Candidates), errs : Seq(Reports)]

(* What a row that is no summary line reports, each with its row number.   *)
RowErrors(n, row) ==
  LET report(whats) == [i \in DOMAIN whats |-> [row |-> n, what |-> whats[i]]]
      warning == IF PdgaWarning(row) THEN <<"pdga">> ELSE <<>>
      error   == IF Usable(row) THEN <<>> ELSE <<RowError(row)>>
  IN report(warning \o error)

(* Mutation: a bad row is skipped without a word. *)
ReadRowSilently(parsed, n, row) ==
  IF ~Usable(row) THEN parsed
  ELSE [parsed EXCEPT !.candidates = Append(@, Candidate(row))]

(* One turn of the loop: a record adds a candidate, errors, both or, for   *)
(* the export's summary line, nothing.                                     *)
NothingRead == [candidates |-> <<>>, errs |-> <<>>]

ReadRow(parsed, n, row) ==
  IF IsTotalsRow(row) THEN parsed
  ELSE [candidates |-> IF Usable(row) THEN Append(parsed.candidates, Candidate(row))
                       ELSE parsed.candidates,
        errs |-> parsed.errs \o RowErrors(n, row)]
-----------------------------------------------------------------------------
(* A webhook payload: for each field its aliases in order of preference,   *)
(* and the item label as the pass it names and the season year it carries. *)
Labels == [pass : {"day", "season", "other"}, year : {0, 2026}] \cup {[pass |-> Blank, year |-> 0]}
Aliases(S) == [1..3 -> S \cup {Blank}]
Payload == [ids : Aliases(Orders), names : Aliases(Names), email : Emails,
            dates : Aliases({"good", "zero", "unreadable"}), label : Labels]

(* Always asked about three values. *)
FirstNonEmpty(values) ==
  CASE values[1] # Blank                       -> values[1]
    [] values[1] = Blank /\ values[2] # Blank  -> values[2]
    [] values[1] = Blank /\ values[2] = Blank  -> values[3]

ClassifyPassType(label) ==
  CASE label.pass = "day"    -> "day_pass"
    [] label.pass = "season" -> "season_membership"
    [] OTHER                 -> Unknown

Webhook(p) ==
  [id |-> FirstNonEmpty(p.ids), name |-> FirstNonEmpty(p.names), email |-> p.email,
   passType |-> ClassifyPassType(p.label), seasonYear |-> p.label.year]

(* ParseWebhook rejects, in this order: no date, a bad date, an invalid    *)
(* registration, an unknown pass type.                                     *)
WebhookAccepted(p) ==
  /\ FirstNonEmpty(p.dates) \notin {Blank, "unreadable"}
  /\ Valid(Webhook(p).id, Webhook(p).name, p.email, FirstNonEmpty(p.dates))
  /\ Webhook(p).passType # Unknown

(* Only the expiry needs the season year, and finds it missing after the   *)
(* claim: such a registration fails and is released, never guessed at.     *)
Expirable(reg) == reg.passType = "season_membership" => reg.seasonYear # 0
=============================================================================
