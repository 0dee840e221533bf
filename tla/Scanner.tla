------------------------------ MODULE Scanner ------------------------------
(***************************************************************************)
(* The lexical scanner of .api files, pkg/parser/api/scanner/scanner.go.   *)
(* A text is a sequence of runes; a word the scanner compares as a whole   *)
(* ("doc", "interface") is one letter here; the micro sign is "u".  "doc"  *)
(* stands for the keywords after "@", and Single for all one-rune tokens.  *)
(* Positions are the code's: the first rune is at 0, and reading at or     *)
(* past the end gives NUL.  One step is one NextToken call.                *)
(* s.ch is At(position) and s.readPosition is position + 1, always.        *)
(***************************************************************************)
EXTENDS Integers, Sequences, FiniteSets, SequencesExt, FiniteSetsExt

CONSTANT Text   \* the texts a scanner may be created for

Digit   == {"1"}
Letter  == {"a", "h", "m", "s", "n", "doc", "interface"}
Newline == "newline"
Blank   == {" ", Newline}
NUL     == "NUL"
Single  == [QUO |-> "/", MUL |-> "*", LBRACE |-> "{", RBRACE |-> "}", COLON |-> ":"]
Rune    == Digit \cup Letter \cup Blank \cup Range(Single)
             \cup {NUL, "_", ".", "@", "u", "?", "quote", "backquote"}

ASSUME TextAssumption == Text \subseteq (Seq(Rune) \ {<<>>})

VARIABLES
  data,       \* the text being scanned
  position,   \* the place of the next rune to look at
  lines,      \* where the lines met so far end: -1, then the newlines
  scanned     \* what every call so far has returned, and from where

scannerVars == <<data, position, lines, scanned>>

At(p) == IF p < Len(data) THEN data[p + 1] ELSE NUL

\* The first place from p on whose rune is outside S (NUL is never in S).
EndOf(p, S) == Min({q \in p .. (IF p < Len(data) THEN Len(data) ELSE p) : At(q) \notin S})

\* A token of the given type, positioned at "from", that leaves the scanner at "to".
Tok(type, from, to) == [type |-> type, from |-> from, to |-> to]
Err(p)     == Tok("error", p, p)
Illegal(p) == Tok("ILLEGAL", p, p + 1)

(***************************************************************************)
(* Durations.  b is where the digits began, p the unit's rune.  After a    *)
(* unit the duration ends, or more digits and a smaller unit follow.       *)
(***************************************************************************)
AfterUnit(b, p, rest) == IF At(p) \notin Digit THEN Tok("DURATION", b, p) ELSE rest

\* The place of the unit that follows the digits from p on.
UnitAfter(p) == EndOf(p, Digit)

Nano(b, p) == IF At(p + 1) = "s" THEN Tok("DURATION", b, p + 2) ELSE Illegal(p + 1)

AfterMicro(b, p) == IF At(p) = "n" THEN Nano(b, p) ELSE Illegal(p)
Micro(b, p) == IF At(p + 1) = "s" THEN AfterUnit(b, p + 2, AfterMicro(b, UnitAfter(p + 2))) ELSE Illegal(p + 1)

AfterMilli(b, p) == IF At(p) = "u" THEN Micro(b, p) ELSE AfterMicro(b, p)
Milli(b, p) == AfterUnit(b, p + 1, AfterMilli(b, UnitAfter(p + 1)))

AfterSecond(b, p) ==
  IF At(p) # "m" THEN AfterMilli(b, p)
  ELSE IF At(p + 1) = "s" THEN Milli(b, p + 1) ELSE Illegal(p + 1)
Second(b, p) == AfterUnit(b, p + 1, AfterSecond(b, UnitAfter(p + 1)))

AfterMinuteNoSecond(b, p) == AfterSecond(b, p)   \* mutant
AfterMinute(b, p) == IF At(p) = "s" THEN Second(b, p) ELSE AfterSecond(b, p)
Minute(b, p) == AfterUnit(b, p + 1, AfterMinute(b, UnitAfter(p + 1)))
MilliOrMinute(b, p) == IF At(p + 1) = "s" THEN Milli(b, p + 1) ELSE Minute(b, p)

AfterHour(b, p) == IF At(p) = "m" THEN MilliOrMinute(b, p) ELSE AfterMinute(b, p)
Hour(b, p) == AfterUnit(b, p + 1, AfterHour(b, UnitAfter(p + 1)))

IntOrDuration(b) ==
  LET p == UnitAfter(b) IN
    CASE At(p) = "h" -> Hour(b, p)
      [] At(p) \in {"n", "u", "m", "s"} -> AfterHour(b, p)
      [] OTHER -> Tok("INT", b, p)

(***************************************************************************)
(* The other tokens; p is where the token starts.                          *)
(***************************************************************************)
Ident(p) ==
  LET e == EndOf(p, Letter \cup Digit \cup {"_"}) IN
    CASE At(e) = ":" -> Tok("KEY", p, e + 1)
      [] SubSeq(data, p + 1, e) = <<"interface">> /\ At(e) = "{" /\ At(e + 1) = "}"
           -> Tok("ANY", p, e + 2)
      [] OTHER -> Tok("IDENT", p, e)

AtWord(p) ==
  LET e == EndOf(p + 1, Letter) IN
    CASE At(p + 1) = NUL -> Tok("ILLEGAL", p, p)
      [] At(p + 1) \notin Letter \cup {NUL} -> Err(p)
      [] SubSeq(data, p + 2, e) = <<"doc">> -> Tok("AT_DOC", p, e)
      [] OTHER -> Err(e)

Quoted(p, delim, type) ==
  LET e == EndOf(p + 1, Rune \ {delim, NUL})
  IN  IF At(e) = delim THEN Tok(type, p, e + 1) ELSE Err(e)

\* Mutant: the position of an ellipsis is taken after its dots are read.
DotLate(p) ==
  IF At(p + 1) # "." THEN Tok("DOT", p, p + 1)
  ELSE IF At(p + 2) # "." THEN Tok("DOT", p + 1, p + 2)
  ELSE Tok("ELLIPSIS", p + 2, p + 3)

\* Of two dots that no third follows the first is dropped: the token is the second.
Dot(p) ==
  IF At(p + 1) # "." THEN Tok("DOT", p, p + 1)
  ELSE IF At(p + 2) # "." THEN Tok("DOT", p + 1, p + 2)
  ELSE Tok("ELLIPSIS", p, p + 3)

LineComment(p) == Tok("COMMENT", p, EndOf(p, Rune \ {Newline, NUL}))

\* The mode stays documentHalfClose from the first star on: any later "/" ends the document.
Document(p) ==
  LET star  == EndOf(p + 2, Rune \ {"*", NUL})
      slash == EndOf(star, Rune \ {"/", NUL})
  IN  IF At(slash) = "/" THEN Tok("DOCUMENT", p, slash + 1) ELSE Err(slash)

Scan(p) ==
  CASE At(p) = "/" /\ At(p + 1) = "/" -> LineComment(p)
    [] At(p) = "/" /\ At(p + 1) = "*" -> Document(p)
    [] At(p) = "." -> Dot(p)
    [] At(p) = "@" -> AtWord(p)
    [] At(p) = "quote" -> Quoted(p, "quote", "STRING")
    [] At(p) = "backquote" -> Quoted(p, "backquote", "RAW_STRING")
    [] At(p) = NUL -> Tok("EOF", p, p)
    [] At(p) \in Letter \cup {"_"} -> Ident(p)
    [] At(p) \in Digit -> IntOrDuration(p)
    [] At(p) \in {"?", "u"} -> Illegal(p)
    [] OTHER -> Tok(CHOOSE type \in DOMAIN Single : Single[type] = At(p), p, p + 1)

(***************************************************************************)
(* A token as the caller sees it.  EofToken and ErrorToken have no text    *)
(* and the zero position.                                                  *)
(***************************************************************************)
Token(t, line, lineEnd) ==
  IF t.type \in {"EOF", "error"}
  THEN [type |-> t.type, text |-> <<>>, line |-> 0, column |-> 0]
  ELSE [type |-> t.type, line |-> line, column |-> t.from - lineEnd,
        text |-> IF t.type = "ILLEGAL" THEN <<At(t.from)>> ELSE SubSeq(data, t.from + 1, t.to)]

\* isWhiteSpace records a newline each time it sees one.
LinesAfter(p) ==
  LET skipped == {q \in position .. p - 1 : At(q) = Newline}
  IN  lines \o [n \in 1 .. Cardinality(skipped) |->
                  CHOOSE q \in skipped : Cardinality({r \in skipped : r < q}) = n - 1]

ScannerInit ==
  /\ data \in Text
  /\ position = 0
  /\ lines = <<-1>>
  /\ scanned = <<>>

\* NextToken: skip white space, then scan.  The token goes to the caller.
NextToken ==
  LET start == EndOf(position, Blank)
      t     == Scan(start)
  IN  /\ lines' = LinesAfter(start)
      /\ position' = t.to
      /\ scanned' = Append(scanned, [token |-> Token(t, Len(lines'), Last(lines')),
                                     at |-> start, from |-> t.from, to |-> t.to])
      /\ UNCHANGED data

=============================================================================
