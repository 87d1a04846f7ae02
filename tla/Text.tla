-------------------------------- MODULE Text --------------------------------
(***************************************************************************)
(* What the program does to the text it is given before it draws or mails  *)
(* it: drawable and truncate (internal/badge), quotedPrintable and wrap    *)
(* (internal/email). A text is a sequence of characters of which only the  *)
(* kind is kept.                                                           *)
(***************************************************************************)
EXTENDS Integers, SequencesExt

CONSTANTS
  MaxLine,   \* quotedPrintable's maxLine, 74 in the code
  PartLine   \* the width wrap is called with, 76 in the code

(* An escape fits on a line, and wrap gets on. *)
ASSUME TextAssumption ==
  /\ MaxLine \in Nat /\ MaxLine >= 3
  /\ PartLine \in Nat \ {0}

(* Characters of a name: one the bitmap face has, an accented letter, one  *)
(* that folds to two letters, one that cannot be drawn, a blank.           *)
NameKinds == {"ascii", "accent", "ligature", "other", "blank"}

Folded(rune) ==
  CASE rune = "accent"   -> <<"ascii">>
    [] rune = "ligature" -> <<"ascii", "ascii">>
    [] rune = "other"    -> <<>>
    [] OTHER             -> <<rune>>

Drawable(text) == FlattenSeq([i \in DOMAIN text |-> Folded(text[i])])

TrimSpace(text) ==
  LET solid == {i \in DOMAIN text : text[i] # "blank"}
  IN IF solid = {} THEN <<>> ELSE SubSeq(text, Min(solid), Max(solid))

(* At most n characters, the last three of them dots if some were cut.     *)
Truncate(text, n) ==
  LET whole == TrimSpace(text)
  IN IF Len(whole) <= n THEN whole
     ELSE IF n <= 3 THEN SubSeq(whole, 1, n)
     ELSE SubSeq(whole, 1, n - 3) \o <<"ascii", "ascii", "ascii">>

(* Mutation: a name is cut to length before it is folded. *)
HeadlineCutFirst(name, n) == Drawable(Truncate(name, n))

(* What the artwork shows of a name or an ID. *)
Headline(name, n) == Truncate(Drawable(name), n)
-----------------------------------------------------------------------------
(* Characters of a message: a carriage return, a newline, a blank, one     *)
(* that stands for itself, one that must be escaped.                       *)
BodyKinds == {"cr", "nl", "blank", "plain", "escaped"}

Width(char) == IF char = "escaped" THEN 3 ELSE 1

Ended(encoded, soft) == Append(encoded.lines, [text |-> encoded.text, soft |-> soft])

(* Mutation: an escape counts as one character. *)
WriteAtomNarrow(encoded, char) ==
  IF encoded.width + 1 > MaxLine
  THEN [lines |-> Ended(encoded, TRUE), text |-> <<char>>, width |-> 1]
  ELSE [encoded EXCEPT !.text = Append(@, char), !.width = @ + 1]

(* writeAtom: a soft line break comes before what would not fit. *)
WriteAtom(encoded, char) ==
  IF encoded.width + Width(char) > MaxLine
  THEN [lines |-> Ended(encoded, TRUE), text |-> <<char>>, width |-> Width(char)]
  ELSE [encoded EXCEPT !.text = Append(@, char), !.width = @ + Width(char)]

EncodeChar(encoded, char) ==
  CASE char = "cr" -> encoded
    [] char = "nl" -> [lines |-> Ended(encoded, FALSE), text |-> <<>>, width |-> 0]
    [] OTHER       -> WriteAtom(encoded, char)

(* What is written after each character: the lines that have ended, each   *)
(* with how it did, and the line that has not.                             *)
NothingWritten == [lines |-> <<>>, text |-> <<>>, width |-> 0]

Encodings(text) ==
  LET after[i \in 0..Len(text)] ==
        IF i = 0 THEN NothingWritten ELSE EncodeChar(after[i - 1], text[i])
  IN after

QuotedPrintable(text) == Ended(Encodings(text)[Len(text)], FALSE)

(* The lengths of the lines wrap writes for n characters. *)
Wrap(n) ==
  LET lines[m \in 0..n] == IF m > PartLine THEN <<PartLine>> \o lines[m - PartLine] ELSE <<m>>
  IN lines[n]
-----------------------------------------------------------------------------
(* How a mail reader takes the lines apart (RFC 2045): blanks before a     *)
(* hard line break are padding, an escape counts as one character.         *)
WithoutPadding(text) ==
  LET solid == {i \in DOMAIN text : text[i] # "blank"}
  IN IF solid = {} THEN <<>> ELSE SubSeq(text, 1, Max(solid))

ReadLine(line) == IF line.soft THEN line.text ELSE Append(WithoutPadding(line.text), "nl")

ReadText(lines) == FlattenSeq([i \in DOMAIN lines |-> ReadLine(lines[i])])

(* What two texts have in common that differ at most in carriage returns   *)
(* and padding: blanks are held back until a character follows that is not *)
(* the end of the line.                                                    *)
NothingKept == [text |-> <<>>, held |-> <<>>]

KeepChar(kept, char) ==
  CASE char = "cr"    -> kept
    [] char = "blank" -> [text |-> kept.text, held |-> Append(kept.held, char)]
    [] char = "nl"    -> [text |-> Append(kept.text, char), held |-> <<>>]
    [] OTHER          -> [text |-> Append(kept.text \o kept.held, char), held |-> <<>>]

Kept(text) ==
  LET after[i \in 0..Len(text)] ==
        IF i = 0 THEN NothingKept ELSE KeepChar(after[i - 1], text[i])
  IN after[Len(text)]

Significant(text) == Kept(text).text \o Kept(text).held

TextWidth(text) == Len(text) + 2 * Cardinality({i \in DOMAIN text : text[i] = "escaped"})
LineWidth(line) == TextWidth(line.text) + (IF line.soft THEN 1 ELSE 0)
=============================================================================
