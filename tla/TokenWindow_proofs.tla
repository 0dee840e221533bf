------------------------ MODULE TokenWindow_proofs ------------------------
(***************************************************************************)
(* Theorems about the scanner and the parser's token window, for texts of  *)
(* any length: PositionsTrue and CommentsKept.                             *)
(***************************************************************************)
EXTENDS TokenWindow, Unfolding

-----------------------------------------------------------------------------
(* Sequences, sets of places, and the first rune outside a set *)

\* What a sequence holds does not matter here.
IsSeq(s) == \E S : s \in Seq(S)

\* A sequence that gets one more element keeps the others at their places.
LEMMA AppendKeeps ==
  ASSUME NEW s, IsSeq(s), NEW e
  PROVE  /\ IsSeq(Append(s, e)) /\ Len(s) \in Nat /\ DOMAIN s = 1 .. Len(s)
         /\ Len(Append(s, e)) = Len(s) + 1
         /\ DOMAIN Append(s, e) = 1 .. Len(s) + 1
         /\ \A i \in 1 .. Len(s) : Append(s, e)[i] = s[i]
         /\ Append(s, e)[Len(s) + 1] = e
         /\ Last(Append(s, e)) = e
  <1>1. PICK S : s \in Seq(S)
    BY DEF IsSeq
  <1> DEFINE T == S \cup {e}
  <1>2. s \in Seq(T) /\ e \in T
    BY <1>1
  <1> HIDE DEF T
  <1>3. Append(s, e) \in Seq(T)
    BY <1>2
  <1>4. IsSeq(Append(s, e))
    BY <1>3 DEF IsSeq
  <1> QED
    BY <1>2, <1>3, <1>4 DEF Last

\* The text can be read at every place, and a run of runes ends: NUL stands behind it.
TextRead == data \in Seq(Rune)

LEMMA EndOfRun ==
  ASSUME TextRead, NEW p \in Nat, NEW S, NUL \notin S
  PROVE  /\ EndOf(p, S) \in Nat /\ EndOf(p, S) >= p
         /\ At(EndOf(p, S)) \notin S
         /\ \A q \in p .. EndOf(p, S) - 1 : At(q) \in S
  <1> DEFINE e == IF p < Len(data) THEN Len(data) ELSE p
             Outside == {q \in p .. e : At(q) \notin S}
  <1>1. Len(data) \in Nat
    BY DEF TextRead
  <1>2. e \in Nat /\ p <= e /\ ~(e < Len(data))
    BY <1>1
  <1>3. At(e) = NUL
    BY <1>2 DEF At
  <1>4. e \in Outside /\ Outside \in SUBSET Nat
    BY <1>2, <1>3
  <1>5. Min(Outside) \in Outside /\ \A x \in Outside : Min(Outside) <= x
    BY <1>4, MinOf
  <1>6. EndOf(p, S) = Min(Outside)
    BY DEF EndOf
  <1> HIDE DEF e
  <1>7. ASSUME NEW q \in p .. EndOf(p, S) - 1 PROVE At(q) \in S
    <2>1. EndOf(p, S) \in p .. e
      BY <1>5, <1>6
    <2>2. q \in p .. e /\ q < EndOf(p, S)
      BY <1>2, <2>1
    <2>3. q \notin Outside
      BY <1>2, <1>5, <1>6, <2>1, <2>2
    <2> QED
      BY <2>2, <2>3
  <1> QED
    BY <1>2, <1>5, <1>6, <1>7

-----------------------------------------------------------------------------
(* Where the scanning functions take a token from *)

\* No newline from b up to p.
Clean(b, p) == \A q \in b .. p - 1 : At(q) # Newline

\* What a duration function may make of a number that begins at b.
FromNumber(b, t) ==
  /\ t.from \in Nat /\ t.to \in Nat
  /\ \/ t.type = "DURATION" /\ t.from = b /\ t.from < t.to
     \/ t.type = "ILLEGAL" /\ b <= t.from /\ t.to = t.from + 1 /\ Clean(b, t.from)

LEMMA TokIs ==
  \A type, from, to : /\ Tok(type, from, to).type = type
                      /\ Tok(type, from, to).from = from
                      /\ Tok(type, from, to).to = to
  BY DEF Tok

LEMMA DigitsFollow ==
  ASSUME TextRead, NEW b \in Nat, NEW p \in Nat, b <= p, Clean(b, p)
  PROVE  UnitAfter(p) \in Nat /\ b <= UnitAfter(p) /\ p <= UnitAfter(p) /\ Clean(b, UnitAfter(p))
  <1>1. NUL \notin Digit /\ Newline \notin Digit
    BY DEF NUL, Digit, Newline
  <1>2. /\ UnitAfter(p) \in Nat /\ UnitAfter(p) >= p
        /\ \A q \in p .. UnitAfter(p) - 1 : At(q) \in Digit
    BY <1>1, EndOfRun DEF UnitAfter
  <1> QED
    BY <1>1, <1>2 DEF Clean

\* One more rune that is no newline.
LEMMA CleanOneMore ==
  ASSUME NEW b \in Nat, NEW p \in Nat, b <= p, Clean(b, p), At(p) # Newline
  PROVE  Clean(b, p + 1)
  BY DEF Clean

LEMMA IllegalHere ==
  ASSUME NEW b \in Nat, NEW p \in Nat, b <= p, Clean(b, p)
  PROVE  FromNumber(b, Illegal(p))
  BY TokIs DEF FromNumber, Illegal

LEMMA DurationHere ==
  ASSUME NEW b \in Nat, NEW p \in Nat, b < p
  PROVE  FromNumber(b, Tok("DURATION", b, p))
  BY TokIs DEF FromNumber

\* A unit ends the duration, or what follows it does.
LEMMA AfterUnitFrom ==
  ASSUME NEW b \in Nat, NEW p \in Nat, b < p, NEW rest, FromNumber(b, rest)
  PROVE  FromNumber(b, AfterUnit(b, p, rest))
  BY DurationHere DEF AfterUnit

LEMMA NanoFrom ==
  ASSUME NEW b \in Nat, NEW p \in Nat, b <= p, Clean(b, p), At(p) # Newline
  PROVE  FromNumber(b, Nano(b, p))
  BY CleanOneMore, IllegalHere, DurationHere DEF Nano

LEMMA AfterMicroFrom ==
  ASSUME NEW b \in Nat, NEW p \in Nat, b <= p, Clean(b, p)
  PROVE  FromNumber(b, AfterMicro(b, p))
  BY NanoFrom, IllegalHere DEF AfterMicro, Newline

LEMMA MicroFrom ==
  ASSUME TextRead, NEW b \in Nat, NEW p \in Nat, b <= p, Clean(b, p), At(p) # Newline
  PROVE  FromNumber(b, Micro(b, p))
  <1>1. Clean(b, p + 1)
    BY CleanOneMore
  <1>2. CASE At(p + 1) = "s"
    <2>1. Clean(b, p + 2)
      BY <1>1, <1>2, CleanOneMore DEF Newline
    <2>2. FromNumber(b, AfterMicro(b, UnitAfter(p + 2)))
      BY <2>1, DigitsFollow, AfterMicroFrom
    <2> QED
      BY <1>2, <2>2, AfterUnitFrom DEF Micro
  <1> QED
    BY <1>1, <1>2, IllegalHere DEF Micro

LEMMA AfterMilliFrom ==
  ASSUME TextRead, NEW b \in Nat, NEW p \in Nat, b <= p, Clean(b, p)
  PROVE  FromNumber(b, AfterMilli(b, p))
  BY MicroFrom, AfterMicroFrom DEF AfterMilli, Newline

LEMMA MilliFrom ==
  ASSUME TextRead, NEW b \in Nat, NEW p \in Nat, b <= p, Clean(b, p), At(p) # Newline
  PROVE  FromNumber(b, Milli(b, p))
  <1>1. FromNumber(b, AfterMilli(b, UnitAfter(p + 1)))
    BY CleanOneMore, DigitsFollow, AfterMilliFrom
  <1> QED
    BY <1>1, AfterUnitFrom DEF Milli

LEMMA AfterSecondFrom ==
  ASSUME TextRead, NEW b \in Nat, NEW p \in Nat, b <= p, Clean(b, p)
  PROVE  FromNumber(b, AfterSecond(b, p))
  <1>1. CASE At(p) = "m"
    <2>1. Clean(b, p + 1)
      BY <1>1, CleanOneMore DEF Newline
    <2>2. At(p + 1) = "s" => FromNumber(b, Milli(b, p + 1))
      BY <2>1, MilliFrom DEF Newline
    <2> QED
      BY <1>1, <2>1, <2>2, IllegalHere DEF AfterSecond
  <1> QED
    BY <1>1, AfterMilliFrom DEF AfterSecond

LEMMA SecondFrom ==
  ASSUME TextRead, NEW b \in Nat, NEW p \in Nat, b <= p, Clean(b, p), At(p) # Newline
  PROVE  FromNumber(b, Second(b, p))
  <1>1. FromNumber(b, AfterSecond(b, UnitAfter(p + 1)))
    BY CleanOneMore, DigitsFollow, AfterSecondFrom
  <1> QED
    BY <1>1, AfterUnitFrom DEF Second

LEMMA AfterMinuteFrom ==
  ASSUME TextRead, NEW b \in Nat, NEW p \in Nat, b <= p, Clean(b, p)
  PROVE  FromNumber(b, AfterMinute(b, p))
  BY SecondFrom, AfterSecondFrom DEF AfterMinute, Newline

LEMMA MinuteFrom ==
  ASSUME TextRead, NEW b \in Nat, NEW p \in Nat, b <= p, Clean(b, p), At(p) # Newline
  PROVE  FromNumber(b, Minute(b, p))
  <1>1. FromNumber(b, AfterMinute(b, UnitAfter(p + 1)))
    BY CleanOneMore, DigitsFollow, AfterMinuteFrom
  <1> QED
    BY <1>1, AfterUnitFrom DEF Minute

LEMMA AfterHourFrom ==
  ASSUME TextRead, NEW b \in Nat, NEW p \in Nat, b <= p, Clean(b, p)
  PROVE  FromNumber(b, AfterHour(b, p))
  <1>1. CASE At(p) = "m"
    <2>1. Clean(b, p + 1)
      BY <1>1, CleanOneMore DEF Newline
    <2>2. At(p + 1) = "s" => FromNumber(b, Milli(b, p + 1))
      BY <2>1, MilliFrom DEF Newline
    <2>3. FromNumber(b, Minute(b, p))
      BY <1>1, MinuteFrom DEF Newline
    <2> QED
      BY <1>1, <2>2, <2>3 DEF AfterHour, MilliOrMinute
  <1> QED
    BY <1>1, AfterMinuteFrom DEF AfterHour

LEMMA HourFrom ==
  ASSUME TextRead, NEW b \in Nat, NEW p \in Nat, b <= p, Clean(b, p), At(p) # Newline
  PROVE  FromNumber(b, Hour(b, p))
  <1>1. FromNumber(b, AfterHour(b, UnitAfter(p + 1)))
    BY CleanOneMore, DigitsFollow, AfterHourFrom
  <1> QED
    BY <1>1, AfterUnitFrom DEF Hour

\* What NextToken makes of the text from p on, where no white space is: a token that begins
\* there, the second of two dots, an illegal rune behind a number, an "@" that is not passed,
\* or nothing.
Taken(p, t) ==
  /\ t.from \in Nat /\ t.to \in Nat /\ p <= t.from /\ t.from <= t.to
  /\ t.type # "token_bg"
  /\ \/ t.type = "error"
     \/ t.type = "EOF" /\ t.from = p /\ t.to = p
     \/ t.from = p /\ t.from < t.to
     \/ t.type = "DOT" /\ At(p) = "." /\ t.from = p + 1 /\ t.from < t.to
     \/ t.type = "ILLEGAL" /\ At(p) \in Digit /\ Clean(p, t.from) /\ t.from < t.to
     \/ t.type = "ILLEGAL" /\ At(p) = "@" /\ At(p + 1) = NUL /\ t.from = p /\ t.to = p

\* A token that begins at p and is not empty.
LEMMA WholeTaken ==
  ASSUME NEW p \in Nat, NEW e \in Nat, p < e
  PROVE  \A type : type # "token_bg" => Taken(p, Tok(type, p, e))
  BY TokIs DEF Taken

LEMMA ErrTaken ==
  ASSUME NEW p \in Nat, NEW e \in Nat, p <= e
  PROVE  Taken(p, Err(e))
  BY TokIs DEF Taken, Err

LEMMA NumberTaken ==
  ASSUME TextRead, NEW p \in Nat, At(p) \in Digit
  PROVE  Taken(p, IntOrDuration(p))
  <1> DEFINE u == UnitAfter(p)
  <1>1. NUL \notin Digit /\ Newline \notin Digit
    BY DEF NUL, Digit, Newline
  <1>2. Clean(p, p)
    BY DEF Clean
  <1>3. u \in Nat /\ p <= u /\ Clean(p, u)
    BY <1>2, DigitsFollow
  <1>4. At(u) \notin Digit
    BY <1>1, EndOfRun DEF UnitAfter
  <1>5. p < u
    <2>1. p # u
      BY <1>4
    <2> QED
      BY <1>3, <2>1
  <1> HIDE DEF u
  <1>6. ASSUME NEW t, FromNumber(p, t) PROVE Taken(p, t)
    BY <1>6 DEF FromNumber, Taken
  <1>7. Taken(p, Tok("INT", p, u))
    BY <1>3, <1>5, WholeTaken
  <1>8. CASE At(u) = "h"
    <2>1. FromNumber(p, Hour(p, u))
      BY <1>3, <1>8, HourFrom DEF Newline
    <2> QED
      BY <1>6, <1>8, <2>1 DEF IntOrDuration, u
  <1>9. CASE At(u) \in {"n", "u", "m", "s"}
    <2>1. FromNumber(p, AfterHour(p, u))
      BY <1>3, AfterHourFrom
    <2> QED
      BY <1>6, <1>9, <2>1 DEF IntOrDuration, u
  <1>10. CASE At(u) \notin {"h", "n", "u", "m", "s"}
    BY <1>7, <1>10 DEF IntOrDuration, u
  <1> QED
    BY <1>8, <1>9, <1>10

LEMMA Beyond ==
  \A p, e \in Nat : e >= p /\ e # p =>
    e + 1 \in Nat /\ p < e + 1 /\ e + 2 \in Nat /\ p < e + 2 /\ p < e
  OBVIOUS

LEMMA IdentTaken ==
  ASSUME TextRead, NEW p \in Nat, At(p) \in Letter \cup {"_"}
  PROVE  Taken(p, Ident(p))
  <1> DEFINE W == Letter \cup Digit \cup {"_"}
             e == EndOf(p, W)
  <1>1. NUL \notin W /\ At(p) \in W
    BY DEF NUL, Digit, Letter
  <1>2. e \in Nat /\ e >= p /\ At(e) \notin W
    BY <1>1, EndOfRun
  <1>3. e # p
    BY <1>1, <1>2
  <1> HIDE DEF e
  <1>4. /\ Taken(p, Tok("KEY", p, e + 1)) /\ Taken(p, Tok("ANY", p, e + 2))
        /\ Taken(p, Tok("IDENT", p, e))
    <2>1. e + 1 \in Nat /\ p < e + 1 /\ e + 2 \in Nat /\ p < e + 2 /\ p < e
      BY <1>2, <1>3, Beyond
    <2> QED
      BY <1>2, <2>1, WholeTaken
  <1>5. CASE At(e) = ":"
    BY <1>4, <1>5 DEF Ident, e
  <1>6. CASE At(e) # ":" /\ SubSeq(data, p + 1, e) = <<"interface">> /\ At(e) = "{" /\ At(e + 1) = "}"
    BY <1>4, <1>6 DEF Ident, e
  <1>7. CASE At(e) # ":" /\ ~(SubSeq(data, p + 1, e) = <<"interface">> /\ At(e) = "{" /\ At(e + 1) = "}")
    BY <1>4, <1>7 DEF Ident, e
  <1> QED
    BY <1>5, <1>6, <1>7

\* Nothing is a word that begins with another rune than a letter.
LEMMA NoWord ==
  ASSUME TextRead, NEW p \in Nat, At(p + 1) \notin Letter
  PROVE  /\ SubSeq(data, p + 2, EndOf(p + 1, Letter)) # <<"doc">>
         /\ EndOf(p + 1, Letter) = p + 1
  <1> DEFINE e == EndOf(p + 1, Letter)
  <1>1. NUL \notin Letter
    BY DEF NUL, Letter
  <1>2. e \in Nat /\ e >= p + 1 /\ \A q \in p + 1 .. e - 1 : At(q) \in Letter
    BY <1>1, EndOfRun
  <1> HIDE DEF e
  <1>3. e = p + 1
    BY <1>2
  <1>4. Len(SubSeq(data, p + 2, p + 1)) = 0
    BY DEF TextRead
  <1>5. Len(<<"doc">>) = 1
    OBVIOUS
  <1> QED
    BY <1>3, <1>4, <1>5 DEF e

LEMMA AtWordStuck ==
  ASSUME TextRead, NEW p \in Nat, At(p + 1) = NUL
  PROVE  AtWord(p) = Tok("ILLEGAL", p, p)
  <1>1. NUL \notin Letter
    BY DEF NUL, Letter
  <1>2. SubSeq(data, p + 2, EndOf(p + 1, Letter)) # <<"doc">>
    BY <1>1, NoWord
  <1> QED
    BY <1>2 DEF AtWord

LEMMA AtWordTaken ==
  ASSUME TextRead, NEW p \in Nat, At(p) = "@"
  PROVE  Taken(p, AtWord(p))
  <1> DEFINE e == EndOf(p + 1, Letter)
  <1>1. NUL \notin Letter
    BY DEF NUL, Letter
  <1>2. e \in Nat /\ e >= p + 1
    BY <1>1, EndOfRun
  <1>0. At(p + 1) \notin Letter => SubSeq(data, p + 2, e) # <<"doc">>
    BY NoWord
  <1> HIDE DEF e
  <1>3. Taken(p, Err(p)) /\ Taken(p, Err(e)) /\ Taken(p, Tok("AT_DOC", p, e))
    BY <1>2, WholeTaken, ErrTaken
  <1>4. CASE At(p + 1) = NUL
    <2>1. Taken(p, Tok("ILLEGAL", p, p))
      BY <1>4, TokIs DEF Taken
    <2> QED
      BY <1>4, <2>1, AtWordStuck
  <1>5. CASE At(p + 1) \notin Letter \cup {NUL}
    <2>1. AtWord(p) = Err(p)
      BY <1>0, <1>5 DEF AtWord, e
    <2> QED
      BY <1>3, <2>1
  <1>6. CASE At(p + 1) \in Letter /\ SubSeq(data, p + 2, e) = <<"doc">>
    BY <1>1, <1>3, <1>6 DEF AtWord, e
  <1>7. CASE At(p + 1) \in Letter /\ SubSeq(data, p + 2, e) # <<"doc">>
    BY <1>1, <1>3, <1>7 DEF AtWord, e
  <1> QED
    BY <1>4, <1>5, <1>6, <1>7

LEMMA QuotedTaken ==
  ASSUME TextRead, NEW p \in Nat, NEW delim, NEW type \in {"STRING", "RAW_STRING"}
  PROVE  Taken(p, Quoted(p, delim, type))
  <1> DEFINE e == EndOf(p + 1, Rune \ {delim, NUL})
  <1>1. e \in Nat /\ e >= p + 1
    BY EndOfRun
  <1> HIDE DEF e
  <1>2. Taken(p, Tok(type, p, e + 1)) /\ Taken(p, Err(e))
    BY <1>1, WholeTaken, ErrTaken
  <1> QED
    BY <1>2 DEF Quoted, e

LEMMA DotTaken ==
  ASSUME NEW p \in Nat, At(p) = "."
  PROVE  Taken(p, Dot(p))
  <1>1. Taken(p, Tok("DOT", p, p + 1)) /\ Taken(p, Tok("ELLIPSIS", p, p + 3))
    BY WholeTaken
  <1>2. Taken(p, Tok("DOT", p + 1, p + 2))
    BY TokIs DEF Taken
  <1> QED
    BY <1>1, <1>2 DEF Dot

LEMMA CommentTaken ==
  ASSUME TextRead, NEW p \in Nat, At(p) = "/"
  PROVE  Taken(p, LineComment(p))
  <1> DEFINE W == Rune \ {Newline, NUL}
             e == EndOf(p, W)
  <1>1. At(p) \in W
    BY DEF Rune, Single, Range, Newline, NUL
  <1>2. e \in Nat /\ e >= p /\ At(e) \notin W
    BY EndOfRun
  <1>3. e # p
    BY <1>1, <1>2
  <1> HIDE DEF e
  <1> QED
    BY <1>2, <1>3, WholeTaken DEF LineComment, e

LEMMA DocumentTaken ==
  ASSUME TextRead, NEW p \in Nat
  PROVE  Taken(p, Document(p))
  <1> DEFINE star  == EndOf(p + 2, Rune \ {"*", NUL})
             slash == EndOf(star, Rune \ {"/", NUL})
  <1>1. star \in Nat /\ star >= p + 2
    BY EndOfRun
  <1> HIDE DEF star
  <1>2. slash \in Nat /\ slash >= star
    BY <1>1, EndOfRun
  <1> HIDE DEF slash
  <1>3. Taken(p, Tok("DOCUMENT", p, slash + 1)) /\ Taken(p, Err(slash))
    BY <1>1, <1>2, WholeTaken, ErrTaken
  <1> QED
    BY <1>3 DEF Document, slash, star

\* Which function NextToken calls; a rune is of one kind.
LEMMA ScanCases ==
  ASSUME NEW p
  PROVE  /\ At(p) = "/" /\ At(p + 1) = "/" => Scan(p) = LineComment(p)
         /\ At(p) = "/" /\ At(p + 1) = "*" => Scan(p) = Document(p)
         /\ At(p) = "." => Scan(p) = Dot(p)
         /\ At(p) = "@" => Scan(p) = AtWord(p)
         /\ At(p) = "quote" => Scan(p) = Quoted(p, "quote", "STRING")
         /\ At(p) = "backquote" => Scan(p) = Quoted(p, "backquote", "RAW_STRING")
         /\ At(p) = NUL => Scan(p) = Tok("EOF", p, p)
         /\ At(p) \in Letter \cup {"_"} => Scan(p) = Ident(p)
         /\ At(p) \in Digit => Scan(p) = IntOrDuration(p)
         /\ At(p) \in {"?", "u"} => Scan(p) = Illegal(p)
  <1> DEFINE r == At(p)
             c == At(p + 1)
             type == CHOOSE type \in DOMAIN Single : Single[type] = At(p)
  <1>1. Scan(p) =
          CASE r = "/" /\ c = "/" -> LineComment(p)
            [] r = "/" /\ c = "*" -> Document(p)
            [] r = "." -> Dot(p)
            [] r = "@" -> AtWord(p)
            [] r = "quote" -> Quoted(p, "quote", "STRING")
            [] r = "backquote" -> Quoted(p, "backquote", "RAW_STRING")
            [] r = NUL -> Tok("EOF", p, p)
            [] r \in Letter \cup {"_"} -> Ident(p)
            [] r \in Digit -> IntOrDuration(p)
            [] r \in {"?", "u"} -> Illegal(p)
            [] OTHER -> Tok(type, p, p + 1)
    BY DEF Scan
  <1> HIDE DEF r, c, type
  <1>2. /\ r = "/" /\ c = "/" => Scan(p) = LineComment(p)
        /\ r = "/" /\ c = "*" => Scan(p) = Document(p)
    BY <1>1 DEF Letter, Digit, NUL
  <1>3. /\ r = "." => Scan(p) = Dot(p)
        /\ r = "@" => Scan(p) = AtWord(p)
    BY <1>1 DEF Letter, Digit, NUL
  <1>4. /\ r = "quote" => Scan(p) = Quoted(p, "quote", "STRING")
        /\ r = "backquote" => Scan(p) = Quoted(p, "backquote", "RAW_STRING")
        /\ r = NUL => Scan(p) = Tok("EOF", p, p)
    BY <1>1 DEF Letter, Digit, NUL
  <1>5. /\ r \in Letter \cup {"_"} => Scan(p) = Ident(p)
        /\ r \in Digit => Scan(p) = IntOrDuration(p)
        /\ r \in {"?", "u"} => Scan(p) = Illegal(p)
    BY <1>1 DEF Letter, Digit, NUL
  <1> QED
    BY <1>2, <1>3, <1>4, <1>5 DEF r, c

LEMMA ScanTaken ==
  ASSUME TextRead, NEW p \in Nat, At(p) \notin Blank
  PROVE  Taken(p, Scan(p))
  <1>1. CASE At(p) = "/" /\ At(p + 1) = "/"
    BY <1>1, CommentTaken, ScanCases
  <1>2. CASE At(p) = "/" /\ At(p + 1) = "*"
    BY <1>2, DocumentTaken, ScanCases
  <1>3. CASE At(p) = "."
    BY <1>3, DotTaken, ScanCases
  <1>4. CASE At(p) = "@"
    BY <1>4, AtWordTaken, ScanCases
  <1>5. CASE At(p) = "quote"
    <2>1. Taken(p, Quoted(p, "quote", "STRING"))
      BY QuotedTaken
    <2> QED
      BY <1>5, <2>1, ScanCases
  <1>6. CASE At(p) = "backquote"
    <2>1. Taken(p, Quoted(p, "backquote", "RAW_STRING"))
      BY QuotedTaken
    <2> QED
      BY <1>6, <2>1, ScanCases
  <1>7. CASE At(p) = NUL
    <2>1. Taken(p, Tok("EOF", p, p))
      BY TokIs DEF Taken
    <2> QED
      BY <1>7, <2>1, ScanCases
  <1>8. CASE At(p) \in Letter \cup {"_"}
    BY <1>8, IdentTaken, ScanCases
  <1>9. CASE At(p) \in Digit
    BY <1>9, NumberTaken, ScanCases
  <1>10. CASE At(p) \in {"?", "u"}
    <2>1. Taken(p, Illegal(p))
      BY WholeTaken DEF Illegal
    <2> QED
      BY <1>10, <2>1, ScanCases
  <1>11. CASE /\ ~(At(p) = "/" /\ At(p + 1) \in {"/", "*"})
              /\ At(p) \notin {".", "@", "quote", "backquote", NUL, "_", "?", "u"}
              /\ At(p) \notin Letter /\ At(p) \notin Digit
    <2> DEFINE type == CHOOSE type \in DOMAIN Single : Single[type] = At(p)
    <2>1. At(p) \in Rune
      <3>1. NUL \in Rune
        BY DEF Rune
      <3> QED
        BY <3>1 DEF TextRead, At
    <2>2. At(p) \in Range(Single)
      BY <1>11, <2>1 DEF Rune, Blank
    <2>3. type \in DOMAIN Single
      BY <2>2 DEF Range
    <2>4. Scan(p) = Tok(type, p, p + 1)
      BY <1>11 DEF Scan
    <2> HIDE DEF type
    <2>5. type # "token_bg"
      BY <2>3 DEF Single
    <2>6. Taken(p, Tok(type, p, p + 1))
      BY <2>5, WholeTaken
    <2> QED
      BY <2>4, <2>6
  <1> QED
    BY <1>1, <1>2, <1>3, <1>4, <1>5, <1>6, <1>7, <1>8, <1>9, <1>10, <1>11

\* An "@" that the scanner does not pass is what the next call finds.
LEMMA StuckAgain ==
  ASSUME TextRead, NEW p \in Nat, At(p) = "@", At(p + 1) = NUL
  PROVE  Scan(p) = Tok("ILLEGAL", p, p)
  BY ScanCases, AtWordStuck
-----------------------------------------------------------------------------
(* The scanner's invariant *)

\* Where call i begins to look.
Before(i) == IF i = 1 THEN 0 ELSE scanned[i - 1].to

\* What call i has met: white space up to its place, and there a token.
CallMet(i) ==
  /\ scanned[i].at \in Nat /\ At(scanned[i].at) \notin Blank
  /\ Before(i) <= scanned[i].at
  /\ \A q \in Before(i) .. scanned[i].at - 1 : At(q) \in Blank
  /\ Taken(scanned[i].at,
           [type |-> scanned[i].token.type, from |-> scanned[i].from, to |-> scanned[i].to])

\* The newlines up to the cursor that stand in no token.
Skipped ==
  {q \in 0 .. position - 1 :
     At(q) = Newline /\ \A j \in 1 .. Len(scanned) : q \notin scanned[j].from .. scanned[j].to - 1}

\* lines has one place more than newlines were skipped, the last one last.
LinesCounted ==
  /\ Len(lines) = Cardinality(Skipped) + 1
  /\ lines[Len(lines)] = Max({-1} \cup Skipped)

\* A token's line and column as its newlines say.
PlaceTrue(i) ==
  /\ scanned[i].token.line = Cardinality(NewlinesBefore(i)) + 1
  /\ scanned[i].token.column = scanned[i].from - Max({-1} \cup NewlinesBefore(i))

\* A call that did not move the scanner is repeated by all that follow.
StuckStays(i) ==
  StuckAt(i) =>
    /\ scanned[i].from = position /\ At(position) = "@" /\ At(position + 1) = NUL
    /\ \A j \in i .. Len(scanned) : scanned[j].token.type = "ILLEGAL"

Calls ==
  /\ TextRead /\ IsSeq(lines) /\ IsSeq(scanned) /\ position = Before(Len(scanned) + 1)
  /\ position \in Nat
  /\ \A i \in 1 .. Len(scanned) : CallMet(i)
  /\ \A i \in 1 .. Len(scanned) : \A j \in 1 .. i - 1 : scanned[j].to <= scanned[i].at
  /\ \A i \in Real : PlaceTrue(i) /\ StuckStays(i)

LEMMA SeqFacts ==
  ASSUME NEW s, IsSeq(s)
  PROVE  Len(s) \in Nat /\ DOMAIN s = 1 .. Len(s)
  BY DEF IsSeq

\* The text does not change.
LEMMA SameText ==
  ASSUME UNCHANGED data
  PROVE  /\ TextRead' <=> TextRead
         /\ \A p : At(p)' = At(p)
         /\ \A p, t : Taken(p, t)' <=> Taken(p, t)
  <1>1. TextRead' <=> TextRead
    BY DEF TextRead
  <1>2. \A p : At(p)' = At(p)
    BY DEF At
  <1>3. \A b, p : Clean(b, p)' <=> Clean(b, p)
    BY <1>2 DEF Clean
  <1>4. \A p, t : Taken(p, t)' <=> Taken(p, t)
    BY <1>2, <1>3 DEF Taken
  <1> QED
    BY <1>1, <1>2, <1>4

LEMMA TokenIs ==
  ASSUME NEW t, NEW l, NEW e
  PROVE  /\ Token(t, l, e).type = t.type
         /\ t.type \notin {"EOF", "error"} => /\ Token(t, l, e).line = l
                                             /\ Token(t, l, e).column = t.from - e
  BY DEF Token

\* The newlines up to a place are finitely many, and Max chooses the last one, or -1.
LEMMA LastNewline ==
  ASSUME NEW n \in Nat, NEW S \in SUBSET (0 .. n - 1)
  PROVE  /\ IsFiniteSet(S) /\ Cardinality(S) \in Nat
         /\ Max({-1} \cup S) \in {-1} \cup S
         /\ \A x \in {-1} \cup S : x <= Max({-1} \cup S)
  <1>1. IsFiniteSet(S) /\ Cardinality(S) \in Nat
    <2>1. IsFiniteSet(0 .. n - 1)
      BY FS_Interval
    <2> QED
      BY <2>1, FS_Subset, FS_CardinalityType
  <1>2. CASE S = {}
    <2>1. Max({-1} \cup S) = -1
      <3>1. -1 \in {-1} \cup S /\ \A x \in {-1} \cup S : x \in Int /\ x <= -1
        BY <1>2
      <3> QED
        BY <3>1, MaxIs
    <2> QED
      BY <1>1, <1>2, <2>1
  <1>3. CASE S # {}
    <2>1. S \in SUBSET (0 .. n)
      OBVIOUS
    <2>2. PICK m \in S : \A x \in S : x <= m
      BY <1>3, <2>1, Greatest
    <2>3. m \in {-1} \cup S /\ \A x \in {-1} \cup S : x \in Int /\ x <= m
      BY <2>2
    <2>4. Max({-1} \cup S) = m
      BY <2>3, MaxIs
    <2> QED
      BY <1>1, <2>3, <2>4
  <1> QED
    BY <1>2, <1>3

LEMMA SeqInUnion ==
  ASSUME NEW A, NEW B
  PROVE  /\ \A s \in Seq(A) : s \in Seq(A \cup B)
         /\ \A s \in Seq(B) : s \in Seq(A \cup B)
  OBVIOUS

\* isWhiteSpace appends one place per newline, the last one last.
LEMMA LinesGrow ==
  ASSUME TextRead, IsSeq(lines), position \in Nat, NEW p \in Nat,
         NEW S, S = {q \in position .. p - 1 : At(q) = Newline}
  PROVE  /\ IsSeq(LinesAfter(p))
         /\ Len(LinesAfter(p)) = Len(lines) + Cardinality(S)
         /\ S = {} => LinesAfter(p) = lines
         /\ S # {} => LinesAfter(p)[Len(LinesAfter(p))] = Max({-1} \cup S)
  <1> DEFINE k == Cardinality(S)
             nth(n) == CHOOSE q \in S : Cardinality({r \in S : r < q}) = n - 1
             more == [n \in 1 .. k |-> nth(n)]
             T == {lines[i] : i \in 1 .. Len(lines)} \cup {nth(n) : n \in 1 .. k}
  <1>0. LinesAfter(p) = lines \o more
    BY DEF LinesAfter
  <1>1. S \in SUBSET (0 .. p - 1) /\ S \in SUBSET Nat
    OBVIOUS
  <1>2. IsFiniteSet(S) /\ k \in Nat
    BY <1>1, LastNewline
  <1>3. PICK R : lines \in Seq(R)
    BY DEF IsSeq
  <1>4. more \in Seq(T) /\ Len(more) = k
    <2> HIDE DEF nth, k
    <2>1. \A n \in 1 .. k : more[n] \in T
      OBVIOUS
    <2> QED
      BY <1>2, <2>1
  <1>5. lines \in Seq(R \cup T) /\ more \in Seq(R \cup T)
    BY <1>3, <1>4, SeqInUnion
  <1> DEFINE Z == R \cup T
  <1> HIDE DEF T, k, Z
  <1>6. lines \o more \in Seq(Z) /\ Len(lines \o more) = Len(lines) + k
    <2>1. lines \in Seq(Z) /\ more \in Seq(Z)
      BY <1>5 DEF Z
    <2> HIDE DEF more
    <2> QED
      BY <1>4, <2>1
  <1>7. CASE S = {}
    <2>1. k = 0
      BY <1>7, FS_EmptySet DEF k
    <2>2. more = <<>>
      BY <2>1, <1>4
    <2>3. lines \o <<>> = lines
      BY <1>3
    <2> QED
      BY <1>0, <1>6, <1>7, <2>2, <2>3 DEF IsSeq, k
  <1>8. CASE S # {}
    <2>1. PICK m \in S : \A x \in S : x <= m
      <3>1. S \in SUBSET (0 .. p)
        OBVIOUS
      <3> QED
        BY <1>8, <3>1, Greatest
    <2>2. Max({-1} \cup S) = m
      <3>1. m \in {-1} \cup S /\ \A x \in {-1} \cup S : x \in Int /\ x <= m
        BY <1>1, <2>1
      <3> QED
        BY <3>1, MaxIs
    <2>3. k \in Nat /\ k >= 1
      <3>1. k # 0
        BY <1>2, <1>8, FS_EmptySet DEF k
      <3> QED
        BY <1>2, <3>1
    <2>4. Cardinality({r \in S : r < m}) = k - 1
      <3>1. {r \in S : r < m} = S \ {m}
        BY <1>1, <2>1
      <3>2. Cardinality(S \ {m}) = k - 1
        BY <1>2, <2>1, FS_RemoveElement DEF k
      <3> QED
        BY <3>1, <3>2
    <2>5. ASSUME NEW q \in S, Cardinality({r \in S : r < q}) = k - 1 PROVE q = m
      <3>1. SUFFICES ASSUME q # m PROVE FALSE
        OBVIOUS
      <3>2. {r \in S : r < q} \in SUBSET ((S \ {m}) \ {q})
        BY <1>1, <2>1
      <3>3. IsFiniteSet(S \ {m}) /\ Cardinality(S \ {m}) = k - 1
        BY <1>2, <2>1, FS_RemoveElement DEF k
      <3>4. IsFiniteSet((S \ {m}) \ {q}) /\ Cardinality((S \ {m}) \ {q}) = k - 2
        BY <2>3, <3>1, <3>3, FS_RemoveElement
      <3>5. Cardinality({r \in S : r < q}) <= k - 2
        BY <3>2, <3>4, FS_Subset
      <3> QED
        BY <2>3, <2>5, <3>5
    <2>6. nth(k) = m
      <3>1. nth(k) \in S /\ Cardinality({r \in S : r < nth(k)}) = k - 1
        BY <2>1, <2>4
      <3> QED
        BY <2>5, <3>1
    <2>7. more[k] = m
      BY <2>3, <2>6
    <2>8. (lines \o more)[Len(lines) + k] = more[k]
      <3>1. lines \in Seq(Z) /\ more \in Seq(Z)
        BY <1>5 DEF Z
      <3> HIDE DEF more
      <3> QED
        BY <1>4, <2>3, <3>1
    <2> QED
      BY <1>0, <1>6, <1>8, <2>2, <2>7, <2>8 DEF IsSeq, k
  <1> QED
    BY <1>7, <1>8

\* What one call of NextToken adds; n calls were made before.
LEMMA NewCall ==
  ASSUME Calls, LinesCounted, NextToken
  PROVE  LET n == Len(scanned)
             start == EndOf(position, Blank)
             t == Scan(start)
         IN  /\ n \in Nat /\ Len(scanned') = n + 1 /\ IsSeq(scanned')
             /\ DOMAIN scanned = 1 .. n /\ DOMAIN scanned' = 1 .. n + 1
             /\ \A i \in 1 .. n : scanned'[i] = scanned[i]
             /\ Last(scanned') = scanned'[n + 1]
             /\ start \in Nat /\ position <= start /\ At(start) \notin Blank
             /\ \A q \in position .. start - 1 : At(q) \in Blank
             /\ Taken(start, t)
             /\ scanned'[n + 1].at = start
             /\ scanned'[n + 1].from = t.from /\ scanned'[n + 1].to = t.to
             /\ scanned'[n + 1].token.type = t.type
             /\ t.type \notin {"EOF", "error"} =>
                  /\ scanned'[n + 1].token.line = Len(lines')
                  /\ scanned'[n + 1].token.column = t.from - lines'[Len(lines')]
             /\ position' = t.to
             /\ lines' = LinesAfter(start)
             /\ UNCHANGED data
  <1> DEFINE n == Len(scanned)
             start == EndOf(position, Blank)
             t == Scan(start)
             c == [token |-> Token(t, Len(lines'), Last(lines')),
                   at |-> start, from |-> t.from, to |-> t.to]
  <1>1. NUL \notin Blank
    BY DEF NUL, Blank, Newline
  <1>2. /\ start \in Nat /\ position <= start /\ At(start) \notin Blank
        /\ \A q \in position .. start - 1 : At(q) \in Blank
    BY <1>1, EndOfRun DEF Calls
  <1>3. Taken(start, t)
    BY <1>2, ScanTaken DEF Calls
  <1>4. scanned' = Append(scanned, c) /\ position' = t.to /\ lines' = LinesAfter(start) /\ UNCHANGED data
    BY DEF NextToken
  <1>5. /\ c.at = start /\ c.from = t.from /\ c.to = t.to
        /\ c.token = Token(t, Len(lines'), Last(lines'))
    OBVIOUS
  <1>6. /\ c.token.type = t.type
        /\ t.type \notin {"EOF", "error"} => /\ c.token.line = Len(lines')
                                            /\ c.token.column = t.from - lines'[Len(lines')]
    <2> HIDE DEF c, t
    <2> QED
      BY <1>5, TokenIs DEF Last
  <1> HIDE DEF c
  <1>7. /\ n \in Nat /\ Len(scanned') = n + 1 /\ IsSeq(scanned')
        /\ DOMAIN scanned = 1 .. n /\ DOMAIN scanned' = 1 .. n + 1
        /\ \A i \in 1 .. n : scanned'[i] = scanned[i]
        /\ scanned'[n + 1] = c
        /\ Last(scanned') = c
    BY <1>4, AppendKeeps DEF Calls
  <1> HIDE DEF n, t, start
  <1> QED
    BY <1>2, <1>3, <1>4, <1>5, <1>6, <1>7 DEF n, t, start

\* The newlines a call skips are those before its token: none stands between its place
\* and where its token begins.
LEMMA NoNewlineBetween ==
  ASSUME NEW p \in Nat, At(p) \notin Blank, NEW t, Taken(p, t), t.type # "error"
  PROVE  \A q \in p .. t.from - 1 : At(q) # Newline
  BY DEF Taken, Clean, Newline

LEMMA SkippedGrows ==
  ASSUME Calls, LinesCounted, NextToken, Last(scanned').token.type # "error",
         NEW n, n = Len(scanned),
         NEW more, more = {q \in position .. EndOf(position, Blank) - 1 : At(q) = Newline}
  PROVE  /\ Skipped' = Skipped \cup more
         /\ NewlinesBefore(n + 1)' = Skipped \cup more
  <1> DEFINE start == EndOf(position, Blank)
             t == Scan(start)
  <1>1. /\ n \in Nat /\ Len(scanned') = n + 1 /\ \A i \in 1 .. n : scanned'[i] = scanned[i]
        /\ start \in Nat /\ position <= start /\ At(start) \notin Blank
        /\ Taken(start, t) /\ t.type # "error"
        /\ scanned'[n + 1].from = t.from /\ scanned'[n + 1].to = t.to
        /\ position' = t.to /\ UNCHANGED data
    BY NewCall
  <1>0. more = {q \in position .. start - 1 : At(q) = Newline}
    OBVIOUS
  <1> HIDE DEF t, start
  <1>2. \A q \in start .. t.from - 1 : At(q) # Newline
    BY <1>1, NoNewlineBetween
  <1>3. /\ t.from \in Nat /\ t.to \in Nat /\ start <= t.from /\ t.from <= t.to
    BY <1>1 DEF Taken
  <1>4. \A q : At(q)' = At(q)
    BY <1>1, SameText
  <1>5. \A j \in 1 .. n : scanned[j].from \in Nat /\ scanned[j].to \in Nat /\ scanned[j].to <= position
    <2>1. ASSUME NEW j \in 1 .. n PROVE scanned[j].from \in Nat /\ scanned[j].to \in Nat
      <3>1. CallMet(j)
        BY DEF Calls
      <3> QED
        BY <3>1 DEF CallMet, Taken
    <2>2. ASSUME NEW j \in 1 .. n PROVE scanned[j].to <= position
      <3>1. position = scanned[n].to
        BY <1>1 DEF Calls, Before
      <3>2. CASE j = n
        BY <2>1, <3>1, <3>2
      <3>3. CASE j # n
        <4>1. scanned[j].to <= scanned[n].at
          BY <1>1, <3>3 DEF Calls
        <4>2. CallMet(n)
          BY <1>1, <3>3 DEF Calls
        <4>3. scanned[n].at \in Nat /\ scanned[n].at <= scanned[n].from /\ scanned[n].from <= scanned[n].to
          BY <4>2 DEF CallMet, Taken
        <4> QED
          BY <1>1, <2>1, <3>1, <4>1, <4>3
      <3> QED
        BY <3>2, <3>3
    <2> QED
      BY <2>1, <2>2
  <1>6. position \in Nat
    BY DEF Calls
  <1>7. ASSUME NEW q
        PROVE  q \in Skipped \cup more <=>
                 /\ q \in 0 .. t.from - 1 /\ At(q) = Newline
                 /\ \A j \in 1 .. n : q \notin scanned[j].from .. scanned[j].to - 1
    <2>1. q \in more => \A j \in 1 .. n : q \notin scanned[j].from .. scanned[j].to - 1
      BY <1>0, <1>1, <1>5, <1>6
    <2>2. Skipped = {x \in 0 .. position - 1 : At(x) = Newline /\
                       \A j \in 1 .. n : x \notin scanned[j].from .. scanned[j].to - 1}
      BY DEF Skipped
    <2>3. ASSUME q \in 0 .. t.from - 1, At(q) = Newline PROVE q \in 0 .. start - 1
      BY <1>1, <1>2, <1>3, <2>3
    <2> QED
      BY <1>0, <1>1, <1>3, <1>6, <2>1, <2>2, <2>3
  <1>8. ASSUME NEW q
        PROVE  q \in Skipped' <=>
                 /\ q \in 0 .. t.from - 1 /\ At(q) = Newline
                 /\ \A j \in 1 .. n : q \notin scanned[j].from .. scanned[j].to - 1
    <2>1. Skipped' = {x \in 0 .. t.to - 1 : At(x) = Newline /\
                       \A j \in 1 .. n + 1 : x \notin scanned'[j].from .. scanned'[j].to - 1}
      BY <1>1, <1>4 DEF Skipped
    <2>2. (\A j \in 1 .. n + 1 : q \notin scanned'[j].from .. scanned'[j].to - 1) <=>
            /\ q \notin t.from .. t.to - 1
            /\ \A j \in 1 .. n : q \notin scanned[j].from .. scanned[j].to - 1
      BY <1>1
    <2>3. q \in 0 .. t.to - 1 /\ q \notin t.from .. t.to - 1 <=> q \in 0 .. t.from - 1
      BY <1>3
    <2> QED
      BY <2>1, <2>2, <2>3
  <1>9. ASSUME NEW q
        PROVE  q \in NewlinesBefore(n + 1)' <=>
                 /\ q \in 0 .. t.from - 1 /\ At(q) = Newline
                 /\ \A j \in 1 .. n : q \notin scanned[j].from .. scanned[j].to - 1
    <2>1. (n + 1) - 1 = n
      BY <1>1
    <2>2. NewlinesBefore(n + 1)' =
            {x \in 0 .. scanned'[n + 1].from - 1 : At(x)' = Newline /\
               \A j \in 1 .. n : x \notin scanned'[j].from .. scanned'[j].to - 1}
      BY <2>1 DEF NewlinesBefore
    <2> QED
      BY <1>1, <1>4, <2>2
  <1>10. Skipped' = Skipped \cup more /\ NewlinesBefore(n + 1)' = Skipped \cup more
    BY <1>7, <1>8, <1>9, Zenon
  <1> QED
    BY <1>10

LEMMA CallIsMet ==
  ASSUME Calls, NEW i \in 1 .. Len(scanned)
  PROVE  /\ scanned[i].at \in Nat /\ scanned[i].from \in Nat /\ scanned[i].to \in Nat
         /\ scanned[i].at <= scanned[i].from /\ scanned[i].from <= scanned[i].to
         /\ \A j \in 1 .. i - 1 : scanned[j].to <= scanned[i].at
         /\ scanned[i].to <= position
  <1>1. CallMet(i) /\ \A j \in 1 .. i - 1 : scanned[j].to <= scanned[i].at
    BY DEF Calls
  <1>2. /\ scanned[i].at \in Nat /\ scanned[i].from \in Nat /\ scanned[i].to \in Nat
        /\ scanned[i].at <= scanned[i].from /\ scanned[i].from <= scanned[i].to
    BY <1>1 DEF CallMet, Taken
  <1> DEFINE n == Len(scanned)
  <1>3. n \in Nat /\ position = scanned[n].to
    BY SeqFacts DEF Calls, Before
  <1>4. scanned[i].to <= position
    <2>1. CASE i = n
      BY <1>2, <1>3, <2>1
    <2>2. CASE i # n
      <3>1. scanned[i].to <= scanned[n].at
        BY <1>3, <2>2 DEF Calls
      <3>2. CallMet(n)
        BY <1>3, <2>2 DEF Calls
      <3>3. scanned[n].at \in Nat /\ scanned[n].to \in Nat /\ scanned[n].at <= scanned[n].to
        BY <3>2 DEF CallMet, Taken
      <3> QED
        BY <1>2, <1>3, <3>1, <3>3
    <2> QED
      BY <2>1, <2>2
  <1> QED
    BY <1>1, <1>2, <1>4

\* A call leaves what was said of the calls before it.
LEMMA CallsStep ==
  ASSUME Calls, LinesCounted, NextToken
  PROVE  Calls' /\ (Last(scanned').token.type # "error" => LinesCounted')
  <1> DEFINE start == EndOf(position, Blank)
             t == Scan(start)
  <1> PICK n : n = Len(scanned)
    OBVIOUS
  <1>1. /\ n \in Nat /\ Len(scanned') = n + 1 /\ IsSeq(scanned')
        /\ DOMAIN scanned = 1 .. n /\ DOMAIN scanned' = 1 .. n + 1
        /\ \A i \in 1 .. n : scanned'[i] = scanned[i]
        /\ Last(scanned') = scanned'[n + 1]
    BY NewCall
  <1>2. /\ start \in Nat /\ position <= start /\ At(start) \notin Blank
        /\ \A q \in position .. start - 1 : At(q) \in Blank
        /\ Taken(start, t)
        /\ scanned'[n + 1].at = start
        /\ scanned'[n + 1].from = t.from /\ scanned'[n + 1].to = t.to
        /\ scanned'[n + 1].token.type = t.type
        /\ t.type \notin {"EOF", "error"} =>
             /\ scanned'[n + 1].token.line = Len(lines')
             /\ scanned'[n + 1].token.column = t.from - lines'[Len(lines')]
        /\ position' = t.to
        /\ lines' = LinesAfter(start)
        /\ UNCHANGED data
    BY NewCall
  <1>3. /\ t.from \in Nat /\ t.to \in Nat /\ start <= t.from /\ t.from <= t.to
    BY <1>2 DEF Taken
  <1>4. /\ TextRead' /\ \A p : At(p)' = At(p)
        /\ \A p, u : Taken(p, u)' <=> Taken(p, u)
    BY <1>2, SameText DEF Calls
  <1>5. /\ IsSeq(lines) /\ position \in Nat /\ TextRead /\ n = Len(scanned)
        /\ position = IF n = 0 THEN 0 ELSE scanned[n].to
    BY <1>1 DEF Calls, Before
  <1> PICK more : more = {q \in position .. start - 1 : At(q) = Newline}
    OBVIOUS
  <1>6. /\ IsSeq(lines') /\ Len(lines') = Len(lines) + Cardinality(more)
        /\ more = {} => lines' = lines
        /\ more # {} => lines'[Len(lines')] = Max({-1} \cup more)
    BY <1>2, <1>5, LinesGrow
  <1>7. t.type # "error" => /\ Skipped' = Skipped \cup more
                            /\ NewlinesBefore(n + 1)' = Skipped \cup more
    BY <1>1, <1>2, SkippedGrows
  <1>8. Skipped \in SUBSET (0 .. position - 1) /\ more \in SUBSET (0 .. start - 1)
    BY <1>2, <1>5 DEF Skipped
  <1>9. /\ Len(lines') = Cardinality(Skipped \cup more) + 1
        /\ lines'[Len(lines')] = Max({-1} \cup (Skipped \cup more))
    <2>1. /\ IsFiniteSet(Skipped) /\ Cardinality(Skipped) \in Nat
          /\ IsFiniteSet(more) /\ Cardinality(more) \in Nat
          /\ Max({-1} \cup more) \in {-1} \cup more
          /\ \A x \in {-1} \cup more : x <= Max({-1} \cup more)
      BY <1>2, <1>5, <1>8, LastNewline
    <2>2. Skipped \cap more = {}
      BY <1>5, <1>8
    <2>3. Cardinality(Skipped \cup more) = Cardinality(Skipped) + Cardinality(more)
      <3>1. Cardinality(Skipped \cap more) = 0
        BY <2>2, FS_EmptySet
      <3>2. Cardinality(Skipped \cup more)
              = Cardinality(Skipped) + Cardinality(more) - Cardinality(Skipped \cap more)
        BY <2>1, FS_Union, Zenon
      <3> QED
        BY <2>1, <3>1, <3>2
    <2>4. Len(lines') = Cardinality(Skipped \cup more) + 1
      BY <1>6, <2>1, <2>3 DEF LinesCounted
    <2>5. CASE more = {}
      <3>1. Skipped \cup more = Skipped
        BY <2>5
      <3> QED
        BY <1>6, <2>4, <2>5, <3>1 DEF LinesCounted
    <2>6. CASE more # {}
      <3> DEFINE m == Max({-1} \cup more)
      <3>1. m \in more
        BY <1>5, <2>1, <2>6
      <3> HIDE DEF m
      <3>2. /\ m \in {-1} \cup (Skipped \cup more)
            /\ \A x \in {-1} \cup (Skipped \cup more) : x \in Int /\ x <= m
        <4>1. \A x \in {-1} \cup more : x <= m
          BY <2>1 DEF m
        <4> QED
          BY <1>5, <1>8, <3>1, <4>1
      <3>3. Max({-1} \cup (Skipped \cup more)) = m
        BY <3>2, MaxIs
      <3> QED
        BY <1>6, <2>4, <2>6, <3>3 DEF m
    <2> QED
      BY <2>5, <2>6
  <1> HIDE DEF start
  <1>10. Last(scanned').token.type # "error" => LinesCounted'
    BY <1>1, <1>2, <1>7, <1>9 DEF LinesCounted
  <1>11. \A i \in 1 .. n + 1 : Before(i)' = Before(i)
    BY <1>1, <1>5 DEF Before
  <1>12. ASSUME NEW i \in 1 .. n + 1 PROVE CallMet(i)'
    <2>1. CASE i \in 1 .. n
      <3>1. CallMet(i)
        BY <1>5, <2>1 DEF Calls
      <3> QED
        BY <1>1, <1>4, <1>11, <2>1, <3>1 DEF CallMet
    <2>2. CASE i = n + 1
      <3>1. Before(n + 1)' = position
        BY <1>1, <1>5 DEF Before
      <3>2. Taken(start, [type |-> t.type, from |-> t.from, to |-> t.to])
        BY <1>2 DEF Taken
      <3> QED
        BY <1>2, <1>4, <2>2, <3>1, <3>2 DEF CallMet
    <2> QED
      BY <2>1, <2>2
  <1>13. ASSUME NEW i \in 1 .. n + 1, NEW j \in 1 .. i - 1 PROVE scanned'[j].to <= scanned'[i].at
    <2>1. j \in 1 .. n
      BY <1>1
    <2>2. CASE i \in 1 .. n
      BY <1>1, <1>5, <2>1, <2>2, CallIsMet
    <2>3. CASE i = n + 1
      <3>1. scanned[j].to \in Nat /\ scanned[j].to <= position
        BY <1>5, <2>1, CallIsMet
      <3> QED
        BY <1>1, <1>2, <1>5, <2>1, <2>3, <3>1
    <2> QED
      BY <2>2, <2>3
  <1>14. ASSUME NEW i \in Real' PROVE PlaceTrue(i)'
    <2>0. i \in 1 .. n + 1 /\ scanned'[i].token.type \notin {"EOF", "error"}
      BY <1>1 DEF Real
    <2>1. CASE i \in 1 .. n
      <3>1. PlaceTrue(i)
        BY <1>1, <1>5, <2>0, <2>1 DEF Calls, Real
      <3>2. \A j \in 1 .. i - 1 : scanned'[j] = scanned[j]
        BY <1>1, <2>1
      <3>3. NewlinesBefore(i)' = NewlinesBefore(i)
        BY <1>1, <1>4, <2>1, <3>2 DEF NewlinesBefore
      <3> QED
        BY <1>1, <2>1, <3>1, <3>3 DEF PlaceTrue
    <2>2. CASE i = n + 1
      BY <1>2, <1>7, <1>9, <2>0, <2>2 DEF PlaceTrue
    <2> QED
      BY <2>0, <2>1, <2>2
  <1>15. ASSUME NEW i \in Real' PROVE StuckStays(i)'
    <2>0. i \in 1 .. n + 1 /\ scanned'[i].token.type \notin {"EOF", "error"}
      BY <1>1 DEF Real
    <2>1. SUFFICES ASSUME scanned'[i].from = scanned'[i].to
                   PROVE  /\ scanned'[i].from = t.to /\ At(t.to) = "@" /\ At(t.to + 1) = NUL
                          /\ \A j \in i .. n + 1 : scanned'[j].token.type = "ILLEGAL"
      BY <1>1, <1>2, <1>4 DEF StuckStays, StuckAt
    <2>2. CASE i \in 1 .. n
      <3>1. StuckStays(i) /\ StuckAt(i)
        BY <1>1, <1>5, <2>0, <2>1, <2>2 DEF Calls, Real, StuckAt
      <3>2. /\ scanned[i].from = position /\ At(position) = "@" /\ At(position + 1) = NUL
            /\ \A j \in i .. n : scanned[j].token.type = "ILLEGAL"
        BY <1>5, <3>1 DEF StuckStays
      <3>3. start = position
        <4>1. At(position) \notin Blank
          BY <3>2 DEF Blank, Newline
        <4>2. \A q \in position .. start - 1 : At(q) \in Blank
          BY <1>2
        <4>3. position \notin position .. start - 1
          BY <4>1, <4>2
        <4> QED
          BY <1>2, <1>5, <4>3
      <3>4. t = Tok("ILLEGAL", position, position)
        BY <1>5, <3>2, <3>3, StuckAgain DEF t
      <3>5. t.type = "ILLEGAL" /\ t.to = position
        BY <3>4, TokIs
      <3>6. ASSUME NEW j \in i .. n + 1 PROVE scanned'[j].token.type = "ILLEGAL"
        <4>1. CASE j = n + 1
          BY <1>2, <3>5, <4>1
        <4>2. CASE j # n + 1
          BY <1>1, <2>2, <3>2, <4>2
        <4> QED
          BY <4>1, <4>2
      <3> QED
        BY <1>1, <2>2, <3>2, <3>5, <3>6
    <2>3. CASE i = n + 1
      <3>1. /\ t.type = "ILLEGAL" /\ At(start) = "@" /\ At(start + 1) = NUL
            /\ t.from = start /\ t.to = start
        BY <1>2, <1>3, <2>0, <2>1, <2>3 DEF Taken
      <3>2. \A j \in n + 1 .. n + 1 : j = n + 1
        BY <1>1
      <3> QED
        BY <1>2, <2>3, <3>1, <3>2
    <2> QED
      BY <2>0, <2>2, <2>3
  <1>16. position' = Before(Len(scanned) + 1)'
    BY <1>1, <1>2 DEF Before
  <1> QED
    BY <1>1, <1>2, <1>3, <1>4, <1>6, <1>10, <1>12, <1>13, <1>14, <1>15, <1>16 DEF Calls

LEMMA CallsStay ==
  ASSUME UNCHANGED scannerVars
  PROVE  (Calls' <=> Calls) /\ (LinesCounted' <=> LinesCounted)
  <1>1. data' = data /\ position' = position /\ lines' = lines /\ scanned' = scanned
    BY DEF scannerVars
  <1>2. /\ TextRead' <=> TextRead
        /\ \A p : At(p)' = At(p)
        /\ \A p, t : Taken(p, t)' <=> Taken(p, t)
    BY <1>1, SameText
  <1>3. Skipped' = Skipped /\ Real' = Real
    BY <1>1, <1>2 DEF Skipped, Real
  <1>4. \A i : Before(i)' = Before(i) /\ NewlinesBefore(i)' = NewlinesBefore(i)
    BY <1>1, <1>2 DEF Before, NewlinesBefore
  <1>5. \A i : (CallMet(i)' <=> CallMet(i)) /\ (PlaceTrue(i)' <=> PlaceTrue(i))
    BY <1>1, <1>2, <1>4 DEF CallMet, PlaceTrue
  <1>6. \A i : StuckStays(i)' <=> StuckStays(i)
    BY <1>1, <1>2 DEF StuckStays, StuckAt
  <1>7. Before(Len(scanned) + 1)' = Before(Len(scanned) + 1)
    BY <1>1 DEF Before
  <1>8. LinesCounted' <=> LinesCounted
    BY <1>1, <1>3 DEF LinesCounted
  <1>9. IsSeq(lines)' <=> IsSeq(lines)
    BY <1>1 DEF IsSeq
  <1>10. IsSeq(scanned)' <=> IsSeq(scanned)
    BY <1>1 DEF IsSeq
  <1>11. Calls' <=> Calls
    BY <1>1, <1>2, <1>3, <1>5, <1>6, <1>7, <1>9, <1>10 DEF Calls
  <1> QED
    BY <1>8, <1>11

\* After an error the parser asks for no more tokens.
ScanInv == Calls /\ (pc # "failed" => LinesCounted)

LEMMA InitScans == Init => ScanInv
  <1> SUFFICES ASSUME Init PROVE ScanInv
    OBVIOUS
  <1>1. data \in Text /\ position = 0 /\ lines = <<-1>> /\ scanned = <<>>
    BY DEF Init, ScannerInit
  <1>2. TextRead
    BY <1>1, TextAssumption DEF TextRead
  <1>3. /\ IsSeq(lines) /\ IsSeq(scanned) /\ Len(scanned) = 0 /\ DOMAIN scanned = {}
        /\ Len(lines) = 1 /\ lines[1] = -1
    <2>1. <<-1>> \in Seq(Int) /\ <<>> \in Seq(Int)
      OBVIOUS
    <2>2. IsSeq(lines) /\ IsSeq(scanned)
      BY <1>1, <2>1 DEF IsSeq
    <2>3. Len(lines) = 1 /\ lines[1] = -1 /\ Len(scanned) = 0 /\ DOMAIN scanned = {}
      BY <1>1
    <2> QED
      BY <2>2, <2>3
  <1>4. Skipped = {}
    BY <1>1 DEF Skipped
  <1>5. LinesCounted
    <2>1. Max({-1} \cup Skipped) = -1
      <3>1. -1 \in {-1} \cup Skipped /\ \A x \in {-1} \cup Skipped : x \in Int /\ x <= -1
        BY <1>4
      <3> QED
        BY <3>1, MaxIs
    <2>2. Cardinality(Skipped) = 0
      BY <1>4, FS_EmptySet
    <2> QED
      BY <1>3, <2>1, <2>2 DEF LinesCounted
  <1>6. Real = {}
    BY <1>3 DEF Real
  <1>7. position = Before(Len(scanned) + 1)
    BY <1>1, <1>3 DEF Before
  <1> QED
    BY <1>1, <1>2, <1>3, <1>5, <1>6, <1>7 DEF ScanInv, Calls

LEMMA NextScans == ScanInv /\ [Next]_vars => ScanInv'
  <1> SUFFICES ASSUME ScanInv, [Next]_vars PROVE ScanInv'
    OBVIOUS
  <1>1. ASSUME UNCHANGED scannerVars, pc # "failed" \/ pc' = pc PROVE ScanInv'
    BY <1>1, CallsStay DEF ScanInv
  <1>2. CASE AdvanceToEof
    BY <1>1, <1>2 DEF AdvanceToEof, MayAdvance
  <1>3. CASE Advance
    BY <1>1, <1>3 DEF Advance, MayAdvance
  <1>4. CASE Peek
    <2>1. NextToken /\ pc = "scanning"
      BY <1>4 DEF Peek
    <2>2. Calls' /\ (Last(scanned').token.type # "error" => LinesCounted')
      BY <2>1, CallsStep DEF ScanInv
    <2>3. Last(scanned').token.type = "error" => pc' = "failed"
      BY <1>4 DEF Peek, PeekComment, PeekToken, PeekError, Comment
    <2> QED
      BY <2>2, <2>3 DEF ScanInv
  <1>5. CASE UNCHANGED vars
    BY <1>1, <1>5 DEF vars, windowVars
  <1> QED
    BY <1>2, <1>3, <1>4, <1>5 DEF Next

\* A later token has all the newlines before it that an earlier one has.
LEMMA PositionsAscend ==
  ASSUME Calls, NEW i \in Real, NEW j \in Real, i < j, ~StuckAt(i)
  PROVE  LET s == scanned[i].token
             t == scanned[j].token
         IN  s.line < t.line \/ (s.line = t.line /\ s.column < t.column)
  <1> DEFINE n == Len(scanned)
             M(k) == Max({-1} \cup NewlinesBefore(k))
             C(k) == Cardinality(NewlinesBefore(k))
  <1>1. n \in Nat /\ i \in 1 .. n /\ j \in 1 .. n
    BY SeqFacts DEF Calls, Real
  <1>2. /\ scanned[i].from \in Nat /\ scanned[i].to \in Nat /\ scanned[i].from < scanned[i].to
        /\ scanned[j].from \in Nat /\ scanned[i].to <= scanned[j].at /\ scanned[j].at <= scanned[j].from
        /\ scanned[j].at \in Nat
    <2>1. i \in 1 .. j - 1
      BY <1>1
    <2>2. /\ scanned[i].from \in Nat /\ scanned[i].to \in Nat /\ scanned[i].from <= scanned[i].to
          /\ scanned[j].from \in Nat /\ scanned[i].to <= scanned[j].at /\ scanned[j].at <= scanned[j].from
          /\ scanned[j].at \in Nat
      BY <1>1, <2>1, CallIsMet
    <2> QED
      BY <2>2 DEF StuckAt
  <1>3. scanned[i].from < scanned[j].from
    BY <1>2
  <1>4. NewlinesBefore(i) \subseteq NewlinesBefore(j)
    <2>1. ASSUME NEW q \in NewlinesBefore(i), NEW k \in 1 .. j - 1
          PROVE  q \notin scanned[k].from .. scanned[k].to - 1
      <3>1. q \in Nat /\ q < scanned[i].from
        BY <1>2, <2>1 DEF NewlinesBefore
      <3>2. CASE k \in 1 .. i - 1
        BY <2>1, <3>2 DEF NewlinesBefore
      <3>3. CASE k = i
        BY <1>2, <3>1, <3>3
      <3>4. CASE k > i
        <4>1. k \in 1 .. n /\ i \in 1 .. k - 1
          BY <1>1, <3>4
        <4>2. /\ scanned[i].to <= scanned[k].at /\ scanned[k].at <= scanned[k].from
              /\ scanned[k].at \in Nat /\ scanned[k].from \in Nat
          BY <4>1, CallIsMet
        <4> QED
          BY <1>2, <3>1, <4>2
      <3> QED
        BY <1>1, <3>2, <3>3, <3>4
    <2>2. ASSUME NEW q \in NewlinesBefore(i) PROVE q \in 0 .. scanned[j].from - 1 /\ At(q) = Newline
      BY <1>2, <1>3, <2>2 DEF NewlinesBefore
    <2> QED
      BY <2>1, <2>2 DEF NewlinesBefore
  <1>5. /\ IsFiniteSet(NewlinesBefore(i)) /\ C(i) \in Nat /\ M(i) \in Int
        /\ IsFiniteSet(NewlinesBefore(j)) /\ C(j) \in Nat /\ M(j) \in Int
    <2>1. ASSUME NEW k, scanned[k].from \in Nat
          PROVE  IsFiniteSet(NewlinesBefore(k)) /\ C(k) \in Nat /\ M(k) \in Int
      <3>1. NewlinesBefore(k) \in SUBSET (0 .. scanned[k].from - 1)
        BY DEF NewlinesBefore
      <3>2. /\ IsFiniteSet(NewlinesBefore(k)) /\ C(k) \in Nat
            /\ M(k) \in {-1} \cup NewlinesBefore(k)
        BY <2>1, <3>1, LastNewline
      <3> QED
        BY <2>1, <3>1, <3>2
    <2> HIDE DEF C, M
    <2> QED
      BY <1>2, <2>1
  <1>6. C(i) <= C(j) /\ (C(i) = C(j) => NewlinesBefore(i) = NewlinesBefore(j))
    BY <1>4, <1>5, FS_Subset
  <1>7. C(i) = C(j) => M(i) = M(j)
    BY <1>6
  <1>8. /\ scanned[i].token.line = C(i) + 1 /\ scanned[i].token.column = scanned[i].from - M(i)
        /\ scanned[j].token.line = C(j) + 1 /\ scanned[j].token.column = scanned[j].from - M(j)
    BY DEF Calls, PlaceTrue
  <1> HIDE DEF C, M
  <1> QED
    BY <1>2, <1>3, <1>5, <1>6, <1>7, <1>8

LEMMA CallsPositions == Calls => PositionsTrue
  <1> SUFFICES ASSUME Calls, NEW i \in Real
               PROVE  /\ scanned[i].token.line = Cardinality(NewlinesBefore(i)) + 1
                      /\ scanned[i].token.column = scanned[i].from - Max({-1} \cup NewlinesBefore(i))
                      /\ \/ Between(i) \subseteq Blank
                         \/ scanned[i].token.type = "DOT" /\ Between(i) \subseteq Blank \cup {"."}
                         \/ scanned[i].token.type = "ILLEGAL" /\ At(scanned[i].at) \in Digit
                      /\ \A j \in Real : i < j /\ ~StuckAt(i) =>
                           LET s == scanned[i].token
                               t == scanned[j].token
                           IN  s.line < t.line \/ (s.line = t.line /\ s.column < t.column)
    BY Zenon DEF PositionsTrue
  <1>1. PlaceTrue(i)
    BY DEF Calls
  <1>2. i \in 1 .. Len(scanned) /\ scanned[i].token.type \notin {"EOF", "error"}
    BY SeqFacts DEF Calls, Real
  <1>3. CallMet(i)
    BY <1>2 DEF Calls
  <1>4. Between(i) = {At(q) : q \in Before(i) .. scanned[i].from - 1}
    BY DEF Between, Before
  <1>5. /\ scanned[i].at \in Nat /\ Before(i) <= scanned[i].at
        /\ \A q \in Before(i) .. scanned[i].at - 1 : At(q) \in Blank
        /\ Before(i) \in Nat
    <2>1. Before(i) \in Nat
      <3>1. i = 1 => Before(i) = 0
        BY DEF Before
      <3>2. i # 1 => i - 1 \in 1 .. Len(scanned) /\ Before(i) = scanned[i - 1].to
        BY <1>2, SeqFacts DEF Before, Calls
      <3> QED
        BY <3>1, <3>2, CallIsMet
    <2> QED
      BY <1>3, <2>1 DEF CallMet
  <1>6. CASE scanned[i].from = scanned[i].at
    BY <1>1, <1>4, <1>5, <1>6, PositionsAscend DEF PlaceTrue
  <1>7. CASE /\ scanned[i].token.type = "DOT" /\ At(scanned[i].at) = "."
             /\ scanned[i].from = scanned[i].at + 1
    <2>1. \A q \in Before(i) .. scanned[i].from - 1 : At(q) \in Blank \cup {"."}
      BY <1>5, <1>7
    <2> QED
      BY <1>1, <1>4, <1>7, <2>1, PositionsAscend DEF PlaceTrue
  <1>8. CASE scanned[i].token.type = "ILLEGAL" /\ At(scanned[i].at) \in Digit
    BY <1>1, <1>8, PositionsAscend DEF PlaceTrue
  <1>9. \/ scanned[i].from = scanned[i].at
        \/ /\ scanned[i].token.type = "DOT" /\ At(scanned[i].at) = "."
           /\ scanned[i].from = scanned[i].at + 1
        \/ scanned[i].token.type = "ILLEGAL" /\ At(scanned[i].at) \in Digit
    BY <1>2, <1>3 DEF CallMet, Taken
  <1> QED
    BY <1>6, <1>7, <1>8, <1>9

LEMMA Scanned == Spec => []ScanInv
  BY InitScans, NextScans, PTL DEF Spec

\* The line and the column that the scanner counts while it skips runes lead back to each
\* token's first rune, nothing is skipped but white space (and the first of two dots, and a
\* broken duration), and no two tokens share a position: for texts of any length.
THEOREM PositionsLeadBack == Spec => []PositionsTrue
  <1>1. ScanInv => PositionsTrue
    BY CallsPositions DEF ScanInv
  <1> QED
    BY <1>1, Scanned, PTL
-----------------------------------------------------------------------------
(* Where the parser keeps a comment *)

Waiting   == <<"waiting", NoToken>>
Statement == <<"statement", NoToken>>
Tail_     == <<"tail", NoToken>>

\* Everything that holds comments: the groups, and the head and tail of each node.
Holder == {Waiting, Statement, Tail_} \cup ({"head", "leading"} \X DOMAIN node)

Group(h) ==
  CASE h[1] = "waiting"   -> headGroup
    [] h[1] = "statement" -> stmts
    [] h[1] = "tail"      -> tailGroup
    [] h[1] = "head"      -> node[h[2]].head
    [] h[1] = "leading"   -> node[h[2]].leading

In(g, c) == \E i \in DOMAIN g : g[i] = c

\* c is in one place, and that is in h.
InOnly(h, c) ==
  /\ h \in Holder
  /\ \E i \in DOMAIN Group(h) : Group(h)[i] = c /\ \A j \in DOMAIN Group(h) : Group(h)[j] = c => j = i
  /\ \A g \in Holder : In(Group(g), c) => g = h

Earlier(i) == {j \in OtherCalls : j < i}
Later(i)   == {j \in OtherCalls : j > i}

\* The comment of call i starts on the line of the token before it.
OnLineBefore(i) ==
  Earlier(i) # {} /\ scanned[Max(Earlier(i))].token.line = scanned[i].token.line

\* The holder that the comment of call i belongs to.
Where(i) ==
  IF OnLineBefore(i)
  THEN IF Later(i) = {} THEN Tail_ ELSE <<"leading", scanned[Max(Earlier(i))].token>>
  ELSE IF Later(i) # {} /\ scanned[Min(Later(i))].token \in DOMAIN node
       THEN <<"head", scanned[Min(Later(i))].token>>
       ELSE IF cur.type = "EOF" THEN Statement ELSE Waiting

TokensOf(S) == {scanned[j].token : j \in S}

\* The window stands where the calls have brought it.
WindowAt ==
  LET n == Len(scanned) IN
  /\ pc \in {"idle", "scanning", "failed"}
  /\ IsSeq(headGroup) /\ IsSeq(tailGroup) /\ IsSeq(stmts)
  /\ node = [k \in DOMAIN node |-> [head |-> node[k].head, leading |-> node[k].leading]]
  /\ cur.type # "EOF" => stmts = <<>>
  /\ pc # "failed" => \A i \in 1 .. n :
       /\ scanned[i].token.type # "error"
       /\ scanned[i].token.type = "EOF" => i = n /\ pc = "idle"
  /\ pc = "idle" =>
       /\ IF n = 0 THEN peek = NoToken ELSE n \in OtherCalls /\ peek = scanned[n].token
       /\ DOMAIN node = TokensOf(OtherCalls \ {n})
       /\ tailGroup = <<>>
       /\ \A i \in OtherCalls \ {n} : scanned[i].token.type = "ILLEGAL" => cur.type = "ILLEGAL"
  /\ pc = "scanning" =>
       /\ cur = IF OtherCalls = {} THEN NoToken ELSE scanned[Max(OtherCalls)].token
       /\ DOMAIN node = TokensOf(OtherCalls)
       /\ cur \in DOMAIN node => node[cur].leading = <<>>
       /\ \A i \in OtherCalls : scanned[i].token.type = "ILLEGAL" => cur.type = "ILLEGAL"

\* Every comment of the text so far is in the one place it belongs to, and only they are.
CommentsPlaced ==
  pc # "failed" =>
    /\ \A i \in CommentCalls : InOnly(Where(i), scanned[i].token)
    /\ \A h \in Holder : \A k \in DOMAIN Group(h) : Group(h)[k] \in TokensOf(CommentCalls)

WindowInv == ScanInv /\ WindowAt /\ CommentsPlaced

LEMMA GroupIs ==
  /\ Group(Waiting) = headGroup /\ Group(Statement) = stmts /\ Group(Tail_) = tailGroup
  /\ \A k : Group(<<"head", k>>) = node[k].head /\ Group(<<"leading", k>>) = node[k].leading
  BY DEF Group, Waiting, Statement, Tail_

LEMMA HoldersApart ==
  /\ Waiting # Statement /\ Waiting # Tail_ /\ Statement # Tail_
  /\ \A k, l : /\ <<"head", k>> \notin {Waiting, Statement, Tail_, <<"leading", l>>}
               /\ <<"leading", k>> \notin {Waiting, Statement, Tail_, <<"head", l>>}
               /\ (<<"head", k>> = <<"head", l>> => k = l)
               /\ (<<"leading", k>> = <<"leading", l>> => k = l)
  BY DEF Waiting, Statement, Tail_

LEMMA HolderIs ==
  /\ Waiting \in Holder /\ Statement \in Holder /\ Tail_ \in Holder
  /\ \A k : (<<"head", k>> \in Holder <=> k \in DOMAIN node)
         /\ (<<"leading", k>> \in Holder <=> k \in DOMAIN node)
  /\ \A h \in Holder : \/ h \in {Waiting, Statement, Tail_}
                       \/ \E k \in DOMAIN node : h \in {<<"head", k>>, <<"leading", k>>}
  <1>1. \A k : /\ <<"head", k>> \notin {Waiting, Statement, Tail_}
               /\ <<"leading", k>> \notin {Waiting, Statement, Tail_}
    BY HoldersApart
  <1> QED
    BY <1>1 DEF Holder

\* A step that moves what one holder has to another, which had nothing.
Moves(from, to) ==
  /\ from \in Holder /\ from \in Holder' /\ to \in Holder' /\ from # to
  /\ Holder \subseteq Holder'
  /\ Group(to)' = Group(from) /\ Group(from)' = <<>>
  /\ to \in Holder => Group(to) = <<>>
  /\ \A h \in Holder' \ {from, to} : Group(h)' = IF h \in Holder THEN Group(h) ELSE <<>>

LEMMA MovedComments ==
  ASSUME NEW from, NEW to, Moves(from, to), NEW h, NEW c, InOnly(h, c)
  PROVE  InOnly(IF h = from THEN to ELSE h, c)'
  <1> DEFINE g == IF h = from THEN to ELSE h
  <1>0. \A x : ~In(<<>>, x)
    BY DEF In
  <1>1. h \in Holder /\ In(Group(h), c)
    BY DEF InOnly, In
  <1>2. g \in Holder' /\ Group(g)' = Group(h)
    <2>1. CASE h = from
      BY <2>1 DEF Moves
    <2>2. CASE h # from
      <3>1. h # to
        BY <1>0, <1>1 DEF Moves
      <3> QED
        BY <1>1, <2>2, <3>1 DEF Moves
    <2> QED
      BY <2>1, <2>2
  <1>3. ASSUME NEW f \in Holder', In(Group(f)', c) PROVE f = g
    <2>1. f # from
      BY <1>0, <1>3 DEF Moves
    <2>2. CASE f = to
      <3>1. In(Group(from), c)
        BY <1>3, <2>2 DEF Moves
      <3>2. from = h
        BY <3>1 DEF InOnly, Moves
      <3> QED
        BY <2>2, <3>2
    <2>3. CASE f # to
      <3>1. f \in Holder /\ In(Group(f), c)
        BY <1>0, <1>3, <2>1, <2>3 DEF Moves
      <3>2. f = h
        BY <3>1 DEF InOnly
      <3> QED
        BY <2>1, <3>2
    <2> QED
      BY <2>2, <2>3
  <1>4. \E i \in DOMAIN Group(h) : Group(h)[i] = c /\ \A j \in DOMAIN Group(h) : Group(h)[j] = c => j = i
    BY DEF InOnly
  <1> HIDE DEF g
  <1>5. InOnly(g, c)'
    <2>1. \A f \in Holder' : In(Group(f), c)' => f = g
      BY <1>3 DEF In
    <2> QED
      BY <1>2, <1>4, <2>1 DEF InOnly
  <1> QED
    BY <1>5 DEF g

\* Nothing comes from nowhere.
LEMMA MovedOnly ==
  ASSUME NEW from, NEW to, Moves(from, to), NEW h \in Holder', NEW k \in DOMAIN Group(h)'
  PROVE  \E g \in Holder : k \in DOMAIN Group(g) /\ Group(g)[k] = Group(h)'[k]
  <1>1. DOMAIN <<>> = {}
    OBVIOUS
  <1>2. h # from
    BY <1>1 DEF Moves
  <1>3. CASE h = to
    BY <1>3 DEF Moves
  <1>4. CASE h # to
    BY <1>1, <1>2, <1>4 DEF Moves
  <1> QED
    BY <1>3, <1>4

LEMMA GroupNext ==
  /\ Group(Waiting)' = headGroup' /\ Group(Statement)' = stmts' /\ Group(Tail_)' = tailGroup'
  /\ \A k : Group(<<"head", k>>)' = node'[k].head /\ Group(<<"leading", k>>)' = node'[k].leading
  BY DEF Group, Waiting, Statement, Tail_

LEMMA HolderNext ==
  /\ Waiting \in Holder' /\ Statement \in Holder' /\ Tail_ \in Holder'
  /\ \A k : (<<"head", k>> \in Holder' <=> k \in DOMAIN node')
         /\ (<<"leading", k>> \in Holder' <=> k \in DOMAIN node')
  /\ \A h \in Holder' : \/ h \in {Waiting, Statement, Tail_}
                        \/ \E k \in DOMAIN node' : h \in {<<"head", k>>, <<"leading", k>>}
  <1>1. \A k : /\ <<"head", k>> \notin {Waiting, Statement, Tail_}
               /\ <<"leading", k>> \notin {Waiting, Statement, Tail_}
    BY HoldersApart
  <1> QED
    BY <1>1 DEF Holder

LEMMA CallsSplit ==
  ASSUME Calls
  PROVE  /\ DOMAIN scanned = 1 .. Len(scanned) /\ Len(scanned) \in Nat
         /\ CommentCalls \subseteq 1 .. Len(scanned) /\ OtherCalls \subseteq 1 .. Len(scanned)
         /\ \A i \in 1 .. Len(scanned) :
              /\ i \in CommentCalls <=> scanned[i].token.type \in Comment
              /\ i \in OtherCalls <=> scanned[i].token.type \notin Comment
              /\ scanned[i].token.type # "token_bg"
  <1>1. DOMAIN scanned = 1 .. Len(scanned) /\ Len(scanned) \in Nat
    BY SeqFacts DEF Calls
  <1>2. \A i \in 1 .. Len(scanned) : scanned[i].token.type # "token_bg"
    BY DEF Calls, CallMet, Taken
  <1> QED
    BY <1>1, <1>2 DEF CommentCalls, OtherCalls

\* Only an "@" can be stuck.
LEMMA OnlyIllegalStuck ==
  ASSUME Calls, NEW i \in Real, StuckAt(i)
  PROVE  scanned[i].token.type = "ILLEGAL"
  <1>1. i \in 1 .. Len(scanned) /\ scanned[i].token.type \notin {"EOF", "error"}
    BY SeqFacts DEF Calls, Real
  <1>2. CallMet(i)
    BY <1>1 DEF Calls
  <1>3. scanned[i].from = scanned[i].to /\ scanned[i].from \in Nat
    BY <1>2 DEF StuckAt, CallMet, Taken
  <1> QED
    BY <1>1, <1>2, <1>3 DEF CallMet, Taken

LEMMA InFront ==
  \A n \in Nat : \A j \in 1 .. n : j # n => j < n /\ n \in 1 .. n
  OBVIOUS

LEMMA PlaceIsNumber ==
  ASSUME Calls, NEW i \in Real
  PROVE  scanned[i].token.line \in Int /\ scanned[i].token.column \in Int
  <1>1. i \in 1 .. Len(scanned)
    BY SeqFacts DEF Calls, Real
  <1>2. PlaceTrue(i) /\ scanned[i].from \in Nat
    BY <1>1, CallIsMet DEF Calls
  <1>3. NewlinesBefore(i) \in SUBSET (0 .. scanned[i].from - 1)
    BY DEF NewlinesBefore
  <1> DEFINE S == NewlinesBefore(i)
  <1>4. Cardinality(S) \in Nat /\ Max({-1} \cup S) \in {-1} \cup S
    <2> HIDE DEF S
    <2>1. S \in SUBSET (0 .. scanned[i].from - 1)
      BY <1>3 DEF S
    <2> QED
      BY <1>2, <2>1, LastNewline
  <1>5. Max({-1} \cup S) \in Int
    BY <1>2, <1>3, <1>4
  <1> HIDE DEF S
  <1> QED
    BY <1>2, <1>4, <1>5 DEF PlaceTrue, S

\* The peeked token has no node yet: p.node is keyed by tokens, and no two are equal.
LEMMA PeekedIsNew ==
  ASSUME WindowInv, MayAdvance, peek.type # "EOF", Len(scanned) # 0
  PROVE  peek \notin DOMAIN node
  <1> DEFINE n == Len(scanned)
  <1>1. /\ pc = "idle" /\ n \in OtherCalls /\ peek = scanned[n].token
        /\ DOMAIN node = TokensOf(OtherCalls \ {n})
        /\ \A i \in OtherCalls \ {n} : scanned[i].token.type # "ILLEGAL"
        /\ \A i \in 1 .. n : /\ scanned[i].token.type # "error"
                             /\ scanned[i].token.type = "EOF" => i = n
    BY DEF WindowInv, WindowAt, MayAdvance
  <1>2. Calls /\ n \in Nat /\ OtherCalls \subseteq 1 .. n /\ DOMAIN scanned = 1 .. n
    BY CallsSplit DEF WindowInv, ScanInv
  <1>3. ASSUME NEW j \in OtherCalls \ {n} PROVE scanned[j].token # scanned[n].token
    <2>0. j \in OtherCalls /\ j # n
      OBVIOUS
    <2>1. j \in 1 .. n /\ j < n /\ n \in 1 .. n
      <3>1. j \in 1 .. n
        BY <1>2, <2>0
      <3> QED
        BY <1>2, <2>0, <3>1, InFront
    <2>2. j \in Real /\ n \in Real
      BY <1>1, <1>2, <2>1 DEF Real
    <2>3. ~StuckAt(j)
      BY <1>1, <1>2, <1>3, <2>2, OnlyIllegalStuck
    <2>4. \/ scanned[j].token.line < scanned[n].token.line
          \/ /\ scanned[j].token.line = scanned[n].token.line
             /\ scanned[j].token.column < scanned[n].token.column
      BY <1>2, <2>1, <2>2, <2>3, PositionsAscend
    <2>5. /\ scanned[n].token.line \in Int /\ scanned[n].token.column \in Int
      BY <1>2, <2>2, PlaceIsNumber
    <2> QED
      BY <2>4, <2>5
  <1> QED
    BY <1>1, <1>3 DEF TokensOf

-----------------------------------------------------------------------------
(* nextToken's first half *)

LEMMA SameCalls ==
  ASSUME scanned' = scanned
  PROVE  /\ CommentCalls' = CommentCalls /\ OtherCalls' = OtherCalls
         /\ \A i : Earlier(i)' = Earlier(i) /\ Later(i)' = Later(i)
         /\ \A i : OnLineBefore(i)' <=> OnLineBefore(i)
         /\ \A S : TokensOf(S)' = TokensOf(S)
  <1>1. CommentCalls' = CommentCalls /\ OtherCalls' = OtherCalls
    BY DEF CommentCalls, OtherCalls
  <1>2. \A i : Earlier(i)' = Earlier(i) /\ Later(i)' = Later(i)
    BY <1>1 DEF Earlier, Later
  <1>3. \A i : OnLineBefore(i)' <=> OnLineBefore(i)
    BY <1>2 DEF OnLineBefore
  <1>4. \A S : TokensOf(S)' = TokensOf(S)
    BY DEF TokensOf
  <1> QED
    BY <1>1, <1>2, <1>3, <1>4

\* The comments stay placed when one holder's are moved to where they now belong.
LEMMA MovePlaces ==
  ASSUME CommentsPlaced, pc # "failed", NEW from, NEW to, Moves(from, to),
         CommentCalls' = CommentCalls,
         \A i \in CommentCalls :
           /\ scanned'[i] = scanned[i]
           /\ Where(i)' = IF Where(i) = from THEN to ELSE Where(i)
  PROVE  CommentsPlaced'
  <1>1. ASSUME NEW i \in CommentCalls PROVE InOnly(Where(i), scanned[i].token)'
    <2> PICK h : h = Where(i)
      OBVIOUS
    <2> PICK c : c = scanned[i].token
      OBVIOUS
    <2>1. InOnly(h, c)
      BY DEF CommentsPlaced
    <2>2. InOnly(IF h = from THEN to ELSE h, c)'
      BY <2>1, MovedComments
    <2> PICK g : g = IF h = from THEN to ELSE h
      OBVIOUS
    <2>3. InOnly(g, c)'
      BY <2>2
    <2>4. Where(i)' = g /\ scanned'[i].token = c
      OBVIOUS
    <2> QED
      BY <2>3, <2>4 DEF InOnly
  <1>2. ASSUME NEW h \in Holder', NEW k \in DOMAIN Group(h)'
        PROVE  Group(h)'[k] \in TokensOf(CommentCalls)'
    <2>1. PICK g \in Holder : k \in DOMAIN Group(g) /\ Group(g)[k] = Group(h)'[k]
      BY MovedOnly
    <2>2. Group(g)[k] \in TokensOf(CommentCalls)
      BY <2>1 DEF CommentsPlaced
    <2>3. TokensOf(CommentCalls)' = TokensOf(CommentCalls)
      BY DEF TokensOf
    <2> QED
      BY <2>1, <2>2, <2>3
  <1> QED
    BY <1>1, <1>2 DEF CommentsPlaced

LEMMA AdvanceToEofStep ==
  ASSUME WindowInv, AdvanceToEof
  PROVE  WindowAt' /\ CommentsPlaced'
  <1>1. /\ pc = "idle" /\ cur.type \notin {"EOF", "ILLEGAL"} /\ peek.type = "EOF" /\ cur' = peek
        /\ stmts' = stmts \o headGroup /\ headGroup' = <<>>
        /\ peek' = peek /\ tailGroup' = tailGroup /\ node' = node /\ pc' = pc /\ scanned' = scanned
    BY DEF AdvanceToEof, MayAdvance, scannerVars
  <1>2. /\ WindowAt /\ stmts = <<>> /\ IsSeq(headGroup) /\ tailGroup = <<>>
    BY <1>1 DEF WindowInv, WindowAt
  <1>3. stmts' = headGroup /\ IsSeq(<<>>) /\ IsSeq(stmts')
    <2>1. PICK S : headGroup \in Seq(S)
      BY <1>2 DEF IsSeq
    <2>2. <<>> \o headGroup = headGroup
      BY <2>1
    <2>3. <<>> \in Seq(S)
      OBVIOUS
    <2> QED
      BY <1>1, <1>2, <2>2, <2>3 DEF IsSeq
  <1>4. /\ CommentCalls' = CommentCalls /\ OtherCalls' = OtherCalls
        /\ \A i : Later(i)' = Later(i) /\ (OnLineBefore(i)' <=> OnLineBefore(i)) /\ Earlier(i)' = Earlier(i)
        /\ \A S : TokensOf(S)' = TokensOf(S)
    BY <1>1, SameCalls
  <1>5. WindowAt'
    <2>1. TokensOf(OtherCalls \ {Len(scanned)})' = TokensOf(OtherCalls \ {Len(scanned)})
      BY <1>1, <1>4 DEF TokensOf
    <2>2. IsSeq(headGroup)' /\ IsSeq(tailGroup)' /\ IsSeq(stmts)'
      BY <1>1, <1>2, <1>3 DEF IsSeq
    <2>3. Len(scanned) = 0 => FALSE
      BY <1>1 DEF WindowAt, WindowInv, NoToken
    <2>4. \A i \in OtherCalls \ {Len(scanned)} : scanned[i].token.type # "ILLEGAL"
      BY <1>1, <1>2 DEF WindowAt
    <2> QED
      BY <1>1, <1>2, <1>4, <2>1, <2>2, <2>3, <2>4 DEF WindowAt
  <1>6. Holder' = Holder
    BY <1>1 DEF Holder
  <1>7. Moves(Waiting, Statement)
    <2>1. \A h \in Holder' \ {Waiting, Statement} : Group(h)' = Group(h)
      <3> SUFFICES ASSUME NEW h \in Holder' \ {Waiting, Statement} PROVE Group(h)' = Group(h)
        OBVIOUS
      <3>1. CASE h = Tail_
        BY <1>1, <3>1, GroupIs, GroupNext
      <3>2. CASE \E k \in DOMAIN node' : h \in {<<"head", k>>, <<"leading", k>>}
        BY <1>1, <3>2, GroupIs, GroupNext
      <3> QED
        BY <3>1, <3>2, HolderNext
    <2>2. /\ Group(Statement)' = Group(Waiting) /\ Group(Waiting)' = <<>> /\ Group(Statement) = <<>>
      BY <1>1, <1>2, <1>3, GroupIs, GroupNext
    <2> QED
      BY <1>6, <2>1, <2>2, HolderIs, HoldersApart DEF Moves
  <1>8. ASSUME NEW i \in CommentCalls
        PROVE  Where(i)' = IF Where(i) = Waiting THEN Statement ELSE Where(i)
    BY <1>1, <1>4, HoldersApart DEF Where
  <1>9. CommentsPlaced'
    BY <1>1, <1>4, <1>7, <1>8, MovePlaces DEF WindowInv
  <1> QED
    BY <1>5, <1>9

LEMMA AdvanceStep ==
  ASSUME WindowInv, Advance
  PROVE  WindowAt' /\ CommentsPlaced'
  <1> DEFINE n == Len(scanned)
  <1> PICK k : k = peek
    OBVIOUS
  <1>1. /\ pc = "idle" /\ cur.type \notin {"EOF", "ILLEGAL"} /\ k.type # "EOF" /\ cur' = k
        /\ node' = IF k = NoToken THEN node
                   ELSE [x \in DOMAIN node \cup {k} |-> IF x = k THEN NewNode ELSE node[x]]
        /\ headGroup' = IF k = NoToken THEN headGroup ELSE <<>>
        /\ pc' = "scanning" /\ tailGroup' = tailGroup /\ stmts' = stmts /\ scanned' = scanned
    BY DEF Advance, MayAdvance, scannerVars
  <1>2. /\ Calls /\ WindowAt /\ stmts = <<>> /\ tailGroup = <<>>
        /\ IsSeq(headGroup) /\ IsSeq(tailGroup) /\ IsSeq(stmts)
        /\ DOMAIN node = TokensOf(OtherCalls \ {n})
        /\ node = [x \in DOMAIN node |-> [head |-> node[x].head, leading |-> node[x].leading]]
        /\ IF n = 0 THEN k = NoToken ELSE n \in OtherCalls /\ k = scanned[n].token
        /\ \A i \in OtherCalls \ {n} : scanned[i].token.type # "ILLEGAL"
        /\ \A i \in 1 .. n : /\ scanned[i].token.type # "error"
                             /\ scanned[i].token.type = "EOF" => i = n
    BY <1>1 DEF WindowInv, WindowAt, ScanInv
  <1>3. /\ CommentCalls' = CommentCalls /\ OtherCalls' = OtherCalls
        /\ \A i : Later(i)' = Later(i) /\ (OnLineBefore(i)' <=> OnLineBefore(i)) /\ Earlier(i)' = Earlier(i)
        /\ \A S : TokensOf(S)' = TokensOf(S)
    BY <1>1, SameCalls
  <1>4. /\ DOMAIN scanned = 1 .. n /\ n \in Nat /\ OtherCalls \subseteq 1 .. n /\ CommentCalls \subseteq 1 .. n
        /\ \A i \in 1 .. n : scanned[i].token.type # "token_bg"
        /\ \A i \in 1 .. n : i \in CommentCalls <=> scanned[i].token.type \in Comment
        /\ \A i \in 1 .. n : i \in OtherCalls <=> scanned[i].token.type \notin Comment
    BY <1>2, CallsSplit
  <1>5. IsSeq(headGroup)' /\ IsSeq(tailGroup)' /\ IsSeq(stmts)'
    <2>1. <<>> \in Seq({})
      OBVIOUS
    <2> QED
      BY <1>1, <1>2, <2>1 DEF IsSeq
  <1>6. CASE n = 0
    <2>1. OtherCalls = {} /\ CommentCalls = {} /\ k = NoToken
      BY <1>2, <1>4, <1>6
    <2>2. /\ node' = node /\ headGroup' = headGroup /\ Holder' = Holder
      BY <1>1, <2>1 DEF Holder
    <2>3. \A h : Group(h)' = Group(h)
      BY <1>1, <2>2 DEF Group
    <2>4. CommentsPlaced'
      BY <1>1, <1>3, <2>1, <2>2, <2>3 DEF WindowInv, CommentsPlaced
    <2>5. TokensOf(OtherCalls)' = {} /\ DOMAIN node' = {}
      BY <1>2, <1>3, <2>1, <2>2 DEF TokensOf
    <2>6. n = Len(scanned') /\ 1 .. n = {}
      BY <1>1, <1>6
    <2> QED
      BY <1>1, <1>2, <1>3, <1>5, <2>1, <2>2, <2>4, <2>5, <2>6 DEF WindowAt
  <1>7. CASE n # 0
    <2>1. n \in OtherCalls /\ k = scanned[n].token /\ n \in 1 .. n /\ k # NoToken
      BY <1>2, <1>4, <1>7 DEF NoToken
    <2>2. k \notin DOMAIN node
      BY <1>1, <1>7, PeekedIsNew DEF WindowInv, MayAdvance
    <2>3. /\ DOMAIN node' = DOMAIN node \cup {k} /\ node'[k].head = headGroup /\ node'[k].leading = <<>>
          /\ node'[k] = [head |-> node'[k].head, leading |-> node'[k].leading]
          /\ \A x \in DOMAIN node : node'[x] = node[x]
          /\ headGroup' = <<>>
      BY <1>1, <2>1, <2>2 DEF NewNode
    <2>4. node' = [x \in DOMAIN node' |-> [head |-> node'[x].head, leading |-> node'[x].leading]]
      <3>1. \A x \in DOMAIN node : node[x] = [head |-> node[x].head, leading |-> node[x].leading]
        BY <1>2
      <3>2. \A x \in DOMAIN node' : node'[x] = [head |-> node'[x].head, leading |-> node'[x].leading]
        BY <2>3, <3>1
      <3>3. node' = [x \in DOMAIN node' |-> node'[x]]
        BY <1>1, <2>1
      <3> QED
        BY <3>2, <3>3
    <2>5. Max(OtherCalls) = n
      <3>1. \A x \in OtherCalls : x \in Int /\ x <= n
        BY <1>4
      <3> QED
        BY <2>1, <3>1, MaxIs
    <2>6. DOMAIN node' = TokensOf(OtherCalls)'
      <3>1. TokensOf(OtherCalls) = TokensOf(OtherCalls \ {n}) \cup {scanned[n].token}
        BY <2>1 DEF TokensOf
      <3> QED
        BY <1>2, <1>3, <2>1, <2>3, <3>1
    <2>7. WindowAt'
      <3>1. \A i \in OtherCalls : scanned[i].token.type = "ILLEGAL" => k.type = "ILLEGAL"
        BY <1>2, <2>1
      <3>2. \A i \in 1 .. n : scanned[i].token.type \notin {"EOF", "error"}
        BY <1>1, <1>2, <2>1
      <3>3. Len(scanned') = n /\ OtherCalls # {} /\ Max(OtherCalls)' = n
        BY <1>1, <1>3, <2>1, <2>5
      <3> HIDE DEF n
      <3> QED
        BY <1>1, <1>2, <1>3, <1>5, <2>1, <2>3, <2>4, <2>6, <3>1, <3>2, <3>3 DEF WindowAt
    <2> PICK to : to = <<"head", k>>
      OBVIOUS
    <2>8. Moves(Waiting, to)
      <3>1. Holder \subseteq Holder'
        <4> SUFFICES ASSUME NEW h \in Holder PROVE h \in Holder'
          OBVIOUS
        <4>1. CASE h \in {Waiting, Statement, Tail_}
          BY <4>1, HolderNext
        <4>2. CASE \E x \in DOMAIN node : h \in {<<"head", x>>, <<"leading", x>>}
          BY <2>3, <4>2, HolderNext
        <4> QED
          BY <4>1, <4>2, HolderIs
      <3>2. /\ to \in Holder' /\ to \notin Holder /\ Group(to)' = Group(Waiting) /\ Group(Waiting)' = <<>>
        BY <2>2, <2>3, GroupIs, GroupNext, HolderIs, HolderNext
      <3>3. ASSUME NEW h \in Holder' \ {Waiting, to}
            PROVE  Group(h)' = IF h \in Holder THEN Group(h) ELSE <<>>
        <4>1. CASE h = Statement \/ h = Tail_
          BY <1>1, <4>1, GroupIs, GroupNext, HolderIs
        <4>2. CASE \E x \in DOMAIN node : h \in {<<"head", x>>, <<"leading", x>>}
          <5>1. PICK x \in DOMAIN node : h \in {<<"head", x>>, <<"leading", x>>}
            BY <4>2
          <5>2. node'[x] = node[x] /\ h \in Holder
            <6>1. <<"head", x>> \in Holder /\ <<"leading", x>> \in Holder
              BY HolderIs, Zenon
            <6> QED
              BY <2>3, <5>1, <6>1
          <5>3. CASE h = <<"head", x>>
            BY <5>2, <5>3, GroupIs, GroupNext
          <5>4. CASE h = <<"leading", x>>
            BY <5>2, <5>4, GroupIs, GroupNext
          <5> QED
            BY <5>1, <5>3, <5>4
        <4>3. CASE h = <<"leading", k>>
          <5>1. h \notin Holder
            BY <2>2, <4>3, HolderIs
          <5>2. Group(h)' = <<>>
            BY <2>3, <4>3, GroupNext
          <5> QED
            BY <5>1, <5>2
        <4>4. h \in {Waiting, Statement, Tail_} \/ \E x \in DOMAIN node' : h \in {<<"head", x>>, <<"leading", x>>}
          BY HolderNext
        <4> QED
          BY <2>3, <3>3, <4>1, <4>2, <4>3, <4>4
      <3>4. Waiting # to
        BY HoldersApart
      <3> QED
        BY <3>1, <3>2, <3>3, <3>4, HolderIs, HolderNext DEF Moves
    <2>9. ASSUME NEW i \in CommentCalls
          PROVE  Where(i)' = IF Where(i) = Waiting THEN to ELSE Where(i)
      <3>1. i \in 1 .. n /\ i # n /\ i < n
        <4>1. i \in 1 .. n /\ i # n
          BY <1>4, <2>1
        <4> QED
          BY <1>4, <4>1, InFront
      <3>2. n \in Later(i) /\ Later(i) \in SUBSET (1 .. n)
        BY <1>4, <2>1, <3>1 DEF Later
      <3> PICK m : m = Min(Later(i))
        OBVIOUS
      <3>3. m \in Later(i) /\ \A x \in Later(i) : m <= x
        <4>1. Later(i) \in SUBSET Nat /\ Later(i) # {}
          BY <3>2
        <4> QED
          BY <4>1, MinOf
      <3>4. m \in OtherCalls
        BY <3>3 DEF Later
      <3>5. CASE OnLineBefore(i)
        <4> PICK q : q = scanned[Max(Earlier(i))].token
          OBVIOUS
        <4>1. Where(i) = <<"leading", q>>
          BY <3>2, <3>5 DEF Where
        <4>2. scanned'[Max(Earlier(i))'].token = q /\ Later(i)' # {} /\ OnLineBefore(i)'
          BY <1>1, <1>3, <3>2, <3>5
        <4>3. Where(i)' = <<"leading", q>>
          BY <4>2 DEF Where
        <4> QED
          BY <4>1, <4>3, HoldersApart
      <3>6. CASE ~OnLineBefore(i)
        <4>1. Min(Later(i)') = m /\ Min(Later(i))' = m /\ Later(i)' # {}
          BY <1>3, <3>2
        <4>2. CASE scanned[m].token \in DOMAIN node
          <5>1. Where(i) = <<"head", scanned[m].token>>
            BY <3>2, <3>6, <4>2 DEF Where
          <5>2. Where(i)' = <<"head", scanned[m].token>>
            BY <1>1, <1>3, <2>3, <3>6, <4>1, <4>2 DEF Where
          <5> QED
            BY <5>1, <5>2, HoldersApart
        <4>3. CASE scanned[m].token \notin DOMAIN node
          <5>1. m = n
            BY <1>2, <3>4, <4>3 DEF TokensOf
          <5>2. Where(i) = Waiting
            BY <1>1, <3>2, <3>6, <4>3 DEF Where
          <5>3. Where(i)' = <<"head", scanned[m].token>>
            BY <1>1, <1>3, <2>1, <2>3, <3>6, <4>1, <5>1 DEF Where
          <5> QED
            BY <2>1, <5>1, <5>2, <5>3
        <4> QED
          BY <4>2, <4>3
      <3> QED
        BY <3>5, <3>6
    <2>10. CommentsPlaced'
      BY <1>1, <1>3, <2>8, <2>9, MovePlaces DEF WindowInv
    <2> QED
      BY <2>7, <2>10
  <1> QED
    BY <1>6, <1>7

-----------------------------------------------------------------------------
(* nextToken's loop over comments *)

\* What a call adds to the calls, of comments or others; n were made before.
LEMMA PeekCalls ==
  ASSUME WindowInv, Peek, NEW n, n = Len(scanned), NEW c, c = scanned'[n + 1].token
  PROVE  /\ n \in Nat /\ Calls /\ Calls' /\ pc = "scanning"
         /\ Len(scanned') = n + 1 /\ Last(scanned').token = c
         /\ \A i \in 1 .. n : scanned'[i] = scanned[i]
         /\ CommentCalls \subseteq 1 .. n /\ OtherCalls \subseteq 1 .. n
         /\ \A i \in CommentCalls : scanned[i].token.type \in Comment
         /\ CommentCalls' = IF c.type \in Comment THEN CommentCalls \cup {n + 1} ELSE CommentCalls
         /\ OtherCalls' = IF c.type \in Comment THEN OtherCalls ELSE OtherCalls \cup {n + 1}
         /\ TokensOf(CommentCalls)' = IF c.type \in Comment THEN TokensOf(CommentCalls) \cup {c}
                                      ELSE TokensOf(CommentCalls)
         /\ \A S \in SUBSET (1 .. n) : TokensOf(S)' = TokensOf(S)
         /\ \A i \in 1 .. n : Earlier(i)' = Earlier(i) /\ (OnLineBefore(i)' <=> OnLineBefore(i))
         /\ \A i \in 1 .. n : Later(i)' = IF c.type \in Comment THEN Later(i) ELSE Later(i) \cup {n + 1}
         /\ Earlier(n + 1)' = OtherCalls /\ Later(n + 1)' = {}
  <1>1. /\ NextToken /\ pc = "scanning" /\ Calls /\ LinesCounted
    BY DEF Peek, WindowInv, ScanInv
  <1>2. /\ n \in Nat /\ Len(scanned') = n + 1
        /\ DOMAIN scanned = 1 .. n /\ DOMAIN scanned' = 1 .. n + 1
        /\ \A i \in 1 .. n : scanned'[i] = scanned[i]
        /\ Last(scanned') = scanned'[n + 1]
    BY <1>1, NewCall
  <1>3. Calls'
    BY <1>1, CallsStep
  <1>4. /\ CommentCalls \subseteq 1 .. n /\ OtherCalls \subseteq 1 .. n
        /\ \A i \in CommentCalls : scanned[i].token.type \in Comment
    BY <1>2 DEF CommentCalls, OtherCalls
  <1>5. CommentCalls' = IF c.type \in Comment THEN CommentCalls \cup {n + 1} ELSE CommentCalls
    <2>1. CommentCalls' = {i \in 1 .. n + 1 : scanned'[i].token.type \in Comment}
      BY <1>2 DEF CommentCalls
    <2>2. 1 .. n + 1 = (1 .. n) \cup {n + 1} /\ n + 1 \notin 1 .. n
      BY <1>2
    <2>3. CommentCalls = {i \in 1 .. n : scanned[i].token.type \in Comment}
      BY <1>2 DEF CommentCalls
    <2> QED
      BY <1>2, <2>1, <2>2, <2>3
  <1>6. OtherCalls' = IF c.type \in Comment THEN OtherCalls ELSE OtherCalls \cup {n + 1}
    <2>1. OtherCalls' = (1 .. n + 1) \ CommentCalls'
      BY <1>2 DEF OtherCalls
    <2>2. 1 .. n + 1 = (1 .. n) \cup {n + 1} /\ n + 1 \notin 1 .. n
      BY <1>2
    <2>3. OtherCalls = (1 .. n) \ CommentCalls
      BY <1>2 DEF OtherCalls
    <2> QED
      BY <1>4, <1>5, <2>1, <2>2, <2>3
  <1>7. \A S \in SUBSET (1 .. n) : TokensOf(S)' = TokensOf(S)
    BY <1>2 DEF TokensOf
  <1>8. TokensOf(CommentCalls)' = IF c.type \in Comment THEN TokensOf(CommentCalls) \cup {c}
                                  ELSE TokensOf(CommentCalls)
    <2>1. TokensOf(CommentCalls)' = {scanned'[j].token : j \in CommentCalls'}
      BY DEF TokensOf
    <2>2. TokensOf(CommentCalls) = {scanned[j].token : j \in CommentCalls}
      BY DEF TokensOf
    <2>3. \A j \in CommentCalls : scanned'[j] = scanned[j]
      BY <1>2, <1>4
    <2>4. {scanned'[j].token : j \in CommentCalls} = TokensOf(CommentCalls)
      BY <2>2, <2>3
    <2>5. {scanned'[j].token : j \in CommentCalls \cup {n + 1}}
            = {scanned'[j].token : j \in CommentCalls} \cup {c}
      OBVIOUS
    <2>6. CASE c.type \in Comment
      BY <1>5, <2>1, <2>4, <2>5, <2>6
    <2>7. CASE c.type \notin Comment
      BY <1>5, <2>1, <2>4, <2>7
    <2> QED
      BY <2>6, <2>7
  <1>9. \A i \in 1 .. n : Earlier(i)' = Earlier(i)
    BY <1>2, <1>4, <1>6 DEF Earlier
  <1>10. \A i \in 1 .. n : OnLineBefore(i)' <=> OnLineBefore(i)
    <2> SUFFICES ASSUME NEW i \in 1 .. n PROVE OnLineBefore(i)' <=> OnLineBefore(i)
      OBVIOUS
    <2>1. CASE Earlier(i) = {}
      BY <1>9, <2>1 DEF OnLineBefore
    <2>2. CASE Earlier(i) # {}
      <3> PICK m : m = Max(Earlier(i))
        OBVIOUS
      <3>1. Earlier(i) \in SUBSET (0 .. n) /\ Earlier(i) \in SUBSET (1 .. n)
        <4>1. Earlier(i) \subseteq OtherCalls
          BY DEF Earlier
        <4>2. 1 .. n \subseteq 0 .. n
          BY <1>2
        <4> QED
          BY <1>4, <4>1, <4>2
      <3>2. m \in Earlier(i)
        BY <1>2, <2>2, <3>1, MaxOf
      <3>3. scanned'[m] = scanned[m] /\ scanned'[i] = scanned[i]
        BY <1>2, <3>1, <3>2
      <3>4. Max(Earlier(i)') = m
        BY <1>9
      <3> QED
        BY <1>9, <2>2, <3>3, <3>4 DEF OnLineBefore
    <2> QED
      BY <2>1, <2>2
  <1>11. \A i \in 1 .. n : Later(i)' = IF c.type \in Comment THEN Later(i) ELSE Later(i) \cup {n + 1}
    BY <1>2, <1>6 DEF Later
  <1>12. Earlier(n + 1)' = OtherCalls /\ Later(n + 1)' = {}
    <2>1. ASSUME NEW j \in OtherCalls PROVE j < n + 1 /\ ~(j > n + 1)
      <3>1. j \in 1 .. n
        BY <1>4
      <3> QED
        BY <1>2, <3>1
    <2>2. ~(n + 1 < n + 1) /\ ~(n + 1 > n + 1)
      BY <1>2
    <2>3. Earlier(n + 1)' = {j \in OtherCalls' : j < n + 1} /\ Later(n + 1)' = {j \in OtherCalls' : j > n + 1}
      BY DEF Earlier, Later
    <2> QED
      BY <1>6, <2>1, <2>2, <2>3
  <1> QED
    BY <1>1, <1>2, <1>3, <1>4, <1>5, <1>6, <1>7, <1>8, <1>9, <1>10, <1>11, <1>12

\* Two tokens of the text differ in their places, stuck ones apart.
LEMMA TokensDiffer ==
  ASSUME Calls, NEW i \in Real, NEW j \in Real, i < j, ~StuckAt(i)
  PROVE  scanned[i].token # scanned[j].token
  <1>1. \/ scanned[i].token.line < scanned[j].token.line
        \/ /\ scanned[i].token.line = scanned[j].token.line
           /\ scanned[i].token.column < scanned[j].token.column
    BY PositionsAscend
  <1>2. scanned[i].token.line \in Int /\ scanned[i].token.column \in Int
    BY PlaceIsNumber
  <1> QED
    BY <1>1, <1>2

TokensOnce ==
  \A i, j \in Real : i < j /\ scanned[i].token.type # "ILLEGAL" => scanned[i].token # scanned[j].token

LEMMA CallsTokensOnce == Calls => TokensOnce
  BY TokensDiffer, OnlyIllegalStuck DEF TokensOnce

LEMMA TokensOnceNext == Calls' => TokensOnce'
  BY CallsTokensOnce, PTL

\* While the parser looks for the next token, the current one is the last that was no comment.
LEMMA CurrentIs ==
  ASSUME WindowInv, pc = "scanning"
  PROVE  /\ cur.type # "EOF"
         /\ cur # NoToken <=> OtherCalls # {}
         /\ OtherCalls # {} => /\ Max(OtherCalls) \in OtherCalls
                               /\ cur = scanned[Max(OtherCalls)].token
                               /\ cur \in DOMAIN node /\ node[cur].leading = <<>>
  <1> DEFINE n == Len(scanned)
  <1>1. Calls /\ n \in Nat /\ OtherCalls \subseteq 1 .. n
        /\ \A i \in 1 .. n : scanned[i].token.type # "token_bg"
    BY CallsSplit DEF WindowInv, ScanInv
  <1>2. /\ cur = IF OtherCalls = {} THEN NoToken ELSE scanned[Max(OtherCalls)].token
        /\ DOMAIN node = TokensOf(OtherCalls)
        /\ cur \in DOMAIN node => node[cur].leading = <<>>
        /\ \A i \in 1 .. n : scanned[i].token.type # "EOF"
    BY DEF WindowInv, WindowAt
  <1>3. CASE OtherCalls = {}
    BY <1>2, <1>3 DEF NoToken
  <1>4. CASE OtherCalls # {}
    <2> PICK S : S = OtherCalls
      OBVIOUS
    <2>1. S \in SUBSET (0 .. n)
      <3>1. 1 .. n \subseteq 0 .. n
        BY <1>1
      <3> QED
        BY <1>1, <3>1
    <2>2. Max(S) \in S
      BY <1>1, <1>4, <2>1, MaxOf
    <2> PICK m : m = Max(OtherCalls)
      OBVIOUS
    <2>3. m \in OtherCalls /\ m \in 1 .. n
      BY <1>1, <2>2
    <2>4. cur = scanned[m].token
      BY <1>2, <1>4
    <2>5. cur \in DOMAIN node
      BY <1>2, <2>3, <2>4 DEF TokensOf
    <2> QED
      BY <1>1, <1>2, <1>4, <2>3, <2>4, <2>5 DEF NoToken
  <1> QED
    BY <1>3, <1>4

LEMMA PeekErrorStep ==
  ASSUME WindowInv, Peek, PeekError(Last(scanned').token)
  PROVE  WindowAt' /\ CommentsPlaced'
  <1>1. /\ pc' = "failed" /\ cur' = cur /\ headGroup' = headGroup /\ tailGroup' = tailGroup
        /\ node' = node /\ stmts' = stmts /\ pc # "failed"
    BY DEF PeekError, Peek
  <1>2. WindowAt
    BY DEF WindowInv
  <1>3. IsSeq(headGroup)' /\ IsSeq(tailGroup)' /\ IsSeq(stmts)'
    BY <1>1, <1>2 DEF WindowAt, IsSeq
  <1> QED
    BY <1>1, <1>2, <1>3 DEF WindowAt, CommentsPlaced

\* A holder gets a comment that nobody has.
Gets(h, c) ==
  /\ Holder' = Holder /\ h \in Holder
  /\ IsSeq(Group(h)) /\ Group(h)' = Append(Group(h), c)
  /\ \A g \in Holder \ {h} : Group(g)' = Group(g)
  /\ \A g \in Holder : ~In(Group(g), c)

LEMMA NewComment ==
  ASSUME NEW h, NEW c, Gets(h, c)
  PROVE  InOnly(h, c)'
  <1> PICK g : g = Group(h)
    OBVIOUS
  <1>1. /\ DOMAIN g = 1 .. Len(g) /\ Len(g) \in Nat /\ DOMAIN Append(g, c) = 1 .. Len(g) + 1
        /\ \A i \in 1 .. Len(g) : Append(g, c)[i] = g[i]
        /\ Append(g, c)[Len(g) + 1] = c
    <2>1. IsSeq(g)
      BY DEF Gets
    <2> QED
      BY <2>1, AppendKeeps
  <1>2. \A i \in 1 .. Len(g) : g[i] # c
    BY <1>1 DEF Gets, In
  <1>3. Group(h)' = Append(g, c) /\ h \in Holder'
    BY DEF Gets
  <1> DEFINE l == Len(g) + 1
             s == Append(g, c)
  <1>4. l \in DOMAIN s /\ s[l] = c /\ \A j \in DOMAIN s : s[j] = c => j = l
    <2>1. l \in DOMAIN s /\ s[l] = c
      BY <1>1
    <2>2. ASSUME NEW j \in DOMAIN s, j # l PROVE s[j] # c
      <3>1. j \in 1 .. Len(g)
        BY <1>1, <2>2
      <3> QED
        BY <1>1, <1>2, <3>1
    <2> QED
      BY <2>1, <2>2
  <1>5. \A f \in Holder' : In(Group(f), c)' => f = h
    BY DEF Gets, In
  <1> HIDE DEF l, s
  <1>6. Group(h)' = s
    BY <1>3 DEF s
  <1> QED
    BY <1>3, <1>4, <1>5, <1>6 DEF InOnly

LEMMA OldComment ==
  ASSUME NEW h, NEW c, Gets(h, c), NEW f, NEW d, d # c, InOnly(f, d)
  PROVE  InOnly(f, d)'
  <1> PICK g : g = Group(h)
    OBVIOUS
  <1>1. /\ DOMAIN g = 1 .. Len(g) /\ Len(g) \in Nat /\ DOMAIN Append(g, c) = 1 .. Len(g) + 1
        /\ \A i \in 1 .. Len(g) : Append(g, c)[i] = g[i]
        /\ Append(g, c)[Len(g) + 1] = c
    <2>1. IsSeq(g)
      BY DEF Gets
    <2> QED
      BY <2>1, AppendKeeps
  <1> PICK s : s = Append(g, c)
    OBVIOUS
  <1>2. \A i : (i \in DOMAIN s /\ s[i] = d) <=> (i \in DOMAIN g /\ g[i] = d)
    <2> SUFFICES ASSUME NEW i PROVE (i \in DOMAIN s /\ s[i] = d) <=> (i \in DOMAIN g /\ g[i] = d)
      OBVIOUS
    <2>1. CASE i \in 1 .. Len(g)
      BY <1>1, <2>1
    <2>2. CASE i = Len(g) + 1
      <3>1. i \notin 1 .. Len(g)
        BY <1>1, <2>2
      <3> QED
        BY <1>1, <2>2, <3>1
    <2>3. CASE i \notin 1 .. Len(g) + 1
      BY <1>1, <2>3
    <2> QED
      BY <1>1, <2>1, <2>2, <2>3
  <1>3. Group(h)' = s /\ Group(h) = g /\ h \in Holder /\ Holder' = Holder
    BY DEF Gets
  <1>4. \A e \in Holder : \A i : (i \in DOMAIN Group(e)' /\ Group(e)'[i] = d)
                                   <=> (i \in DOMAIN Group(e) /\ Group(e)[i] = d)
    <2> SUFFICES ASSUME NEW e \in Holder
                 PROVE  \A i : (i \in DOMAIN Group(e)' /\ Group(e)'[i] = d)
                                  <=> (i \in DOMAIN Group(e) /\ Group(e)[i] = d)
      OBVIOUS
    <2>1. CASE e = h
      BY <1>2, <1>3, <2>1
    <2>2. CASE e # h
      BY <2>2 DEF Gets
    <2> QED
      BY <2>1, <2>2
  <1>5. \A e \in Holder' : In(Group(e), d)' => e = f
    <2>1. \A e \in Holder : In(Group(e), d)' <=> In(Group(e), d)
      BY <1>4 DEF In
    <2> QED
      BY <1>3, <2>1 DEF InOnly
  <1>6. f \in Holder /\ \E i \in DOMAIN Group(f) : Group(f)[i] = d /\ \A j \in DOMAIN Group(f) : Group(f)[j] = d => j = i
    BY DEF InOnly
  <1>7. \E i \in DOMAIN Group(f)' : Group(f)'[i] = d /\ \A j \in DOMAIN Group(f)' : Group(f)'[j] = d => j = i
    BY <1>4, <1>6
  <1> QED
    BY <1>3, <1>5, <1>6, <1>7 DEF InOnly

LEMMA OnlyComments ==
  ASSUME NEW h, NEW c, Gets(h, c), NEW S,
         \A g \in Holder : \A k \in DOMAIN Group(g) : Group(g)[k] \in S
  PROVE  \A g \in Holder' : \A k \in DOMAIN Group(g)' : Group(g)'[k] \in S \cup {c}
  <1> SUFFICES ASSUME NEW f \in Holder', NEW k \in DOMAIN Group(f)' PROVE Group(f)'[k] \in S \cup {c}
    OBVIOUS
  <1>1. f \in Holder
    BY DEF Gets
  <1>2. CASE f # h
    BY <1>1, <1>2 DEF Gets
  <1>3. CASE f = h
    <2> PICK g : g = Group(h)
      OBVIOUS
    <2>1. IsSeq(g) /\ Group(f)' = Append(g, c)
      BY <1>3 DEF Gets
    <2>2. /\ DOMAIN g = 1 .. Len(g) /\ Len(g) \in Nat /\ DOMAIN Append(g, c) = 1 .. Len(g) + 1
          /\ \A i \in 1 .. Len(g) : Append(g, c)[i] = g[i]
          /\ Append(g, c)[Len(g) + 1] = c
      BY <2>1, AppendKeeps
    <2>3. k \in 1 .. Len(g) \/ k = Len(g) + 1
      BY <2>1, <2>2
    <2> QED
      BY <1>1, <1>3, <2>1, <2>2, <2>3
  <1> QED
    BY <1>2, <1>3

LEMMA PeekCommentStep ==
  ASSUME WindowInv, Peek, PeekComment(Last(scanned').token)
  PROVE  WindowAt' /\ CommentsPlaced'
  <1> PICK n : n = Len(scanned)
    OBVIOUS
  <1> PICK c : c = scanned'[n + 1].token
    OBVIOUS
  <1>1. /\ n \in Nat /\ Calls /\ Calls' /\ pc = "scanning"
        /\ Len(scanned') = n + 1 /\ Last(scanned').token = c
        /\ \A i \in 1 .. n : scanned'[i] = scanned[i]
        /\ CommentCalls \subseteq 1 .. n /\ OtherCalls \subseteq 1 .. n
        /\ \A i \in CommentCalls : scanned[i].token.type \in Comment
    BY PeekCalls
  <1>2. /\ c.type \in Comment /\ cur' = cur /\ node' = node /\ stmts' = stmts /\ pc' = pc
        /\ IF OnCurrentLine(c)
           THEN tailGroup' = Append(tailGroup, c) /\ headGroup' = headGroup
           ELSE headGroup' = Append(headGroup, c) /\ tailGroup' = tailGroup
    BY <1>1 DEF PeekComment
  <1>3. /\ CommentCalls' = CommentCalls \cup {n + 1} /\ OtherCalls' = OtherCalls
        /\ TokensOf(CommentCalls)' = TokensOf(CommentCalls) \cup {c}
        /\ TokensOf(OtherCalls)' = TokensOf(OtherCalls)
        /\ \A i \in 1 .. n : /\ Earlier(i)' = Earlier(i) /\ (OnLineBefore(i)' <=> OnLineBefore(i))
                             /\ Later(i)' = Later(i)
        /\ Earlier(n + 1)' = OtherCalls /\ Later(n + 1)' = {}
    <2>1. \A S \in SUBSET (1 .. n) : TokensOf(S)' = TokensOf(S)
      BY PeekCalls
    <2>2. TokensOf(OtherCalls)' = TokensOf(OtherCalls)
      <3> PICK S : S = OtherCalls
        OBVIOUS
      <3>1. OtherCalls' = S
        BY <1>2, PeekCalls
      <3>2. TokensOf(S)' = TokensOf(S)
        BY <1>1, <2>1
      <3> QED
        BY <3>1, <3>2 DEF TokensOf
    <2> QED
      BY <1>2, <2>2, PeekCalls
  <1>4. /\ WindowAt /\ IsSeq(headGroup) /\ IsSeq(tailGroup) /\ IsSeq(stmts)
        /\ \A i \in 1 .. n : scanned[i].token.type \notin {"EOF", "error"}
    BY <1>1 DEF WindowInv, WindowAt
  <1>5. /\ cur.type # "EOF"
        /\ cur # NoToken <=> OtherCalls # {}
        /\ OtherCalls # {} => /\ Max(OtherCalls) \in OtherCalls
                              /\ cur = scanned[Max(OtherCalls)].token
    BY <1>1, CurrentIs
  <1>6. IsSeq(headGroup)' /\ IsSeq(tailGroup)' /\ IsSeq(stmts)'
    <2>1. IsSeq(Append(headGroup, c)) /\ IsSeq(Append(tailGroup, c))
      BY <1>4, AppendKeeps
    <2> QED
      BY <1>2, <1>4, <2>1 DEF IsSeq
  <1>7. OtherCalls # {} => scanned'[Max(OtherCalls)] = scanned[Max(OtherCalls)]
    BY <1>1, <1>5
  <1>8. WindowAt'
    <2>1. \A i \in 1 .. n + 1 : scanned'[i].token.type \notin {"EOF", "error"}
      <3> SUFFICES ASSUME NEW i \in 1 .. n + 1 PROVE scanned'[i].token.type \notin {"EOF", "error"}
        OBVIOUS
      <3>1. CASE i \in 1 .. n
        BY <1>1, <1>4, <3>1
      <3>2. CASE i = n + 1
        BY <1>2, <3>2 DEF Comment
      <3> QED
        BY <1>1, <3>1, <3>2
    <2>2. \A i \in OtherCalls : scanned'[i] = scanned[i]
      BY <1>1
    <2>3. cur' = IF OtherCalls' = {} THEN NoToken ELSE scanned'[Max(OtherCalls')].token
      BY <1>2, <1>3, <1>5, <1>7
    <2>4. /\ node = [k \in DOMAIN node |-> [head |-> node[k].head, leading |-> node[k].leading]]
          /\ stmts = <<>> /\ DOMAIN node = TokensOf(OtherCalls)
          /\ cur \in DOMAIN node => node[cur].leading = <<>>
          /\ \A i \in OtherCalls : scanned[i].token.type = "ILLEGAL" => cur.type = "ILLEGAL"
      BY <1>1, <1>5 DEF WindowInv, WindowAt
    <2> QED
      BY <1>1, <1>2, <1>3, <1>6, <2>1, <2>2, <2>3, <2>4 DEF WindowAt
  <1>9. c \notin TokensOf(CommentCalls)
    <2> SUFFICES ASSUME NEW i \in CommentCalls PROVE scanned[i].token # c
      BY DEF TokensOf
    <2>1. i \in 1 .. n /\ scanned'[i] = scanned[i] /\ i < n + 1
      <3>1. i \in 1 .. n
        BY <1>1
      <3> QED
        BY <1>1, <3>1
    <2>2. DOMAIN scanned' = 1 .. n + 1
      <3>1. IsSeq(scanned')
        BY <1>1 DEF Calls
      <3> QED
        BY <1>1, <3>1, SeqFacts
    <2>3. i \in Real' /\ n + 1 \in Real' /\ scanned'[i].token.type # "ILLEGAL"
      BY <1>1, <1>2, <2>1, <2>2 DEF Real, Comment
    <2> QED
      BY <1>1, <2>1, <2>3, TokensOnceNext DEF TokensOnce
  <1> PICK h : h = IF OnCurrentLine(c) THEN Tail_ ELSE Waiting
    OBVIOUS
  <1>10. Gets(h, c)
    <2>1. Holder' = Holder
      BY <1>2 DEF Holder
    <2>2. h \in Holder /\ IsSeq(Group(h)) /\ Group(h)' = Append(Group(h), c)
      BY <1>2, <1>4, GroupIs, GroupNext, HolderIs
    <2>3. ASSUME NEW g \in Holder \ {h} PROVE Group(g)' = Group(g)
      <3>1. CASE g \in {Waiting, Statement, Tail_}
        BY <1>2, <2>3, <3>1, GroupIs, GroupNext
      <3>2. CASE \E k \in DOMAIN node : g \in {<<"head", k>>, <<"leading", k>>}
        <4>1. PICK k \in DOMAIN node : g \in {<<"head", k>>, <<"leading", k>>}
          BY <3>2
        <4>2. CASE g = <<"head", k>>
          BY <1>2, <4>2, GroupIs, GroupNext
        <4>3. CASE g = <<"leading", k>>
          BY <1>2, <4>3, GroupIs, GroupNext
        <4> QED
          BY <4>1, <4>2, <4>3
      <3> QED
        BY <3>1, <3>2, HolderIs
    <2>4. \A g \in Holder : ~In(Group(g), c)
      BY <1>1, <1>9 DEF WindowInv, CommentsPlaced, In
    <2> QED
      BY <2>1, <2>2, <2>3, <2>4 DEF Gets
  <1>11. ASSUME NEW i \in CommentCalls PROVE InOnly(Where(i), scanned[i].token)'
    <2> PICK f : f = Where(i)
      OBVIOUS
    <2> PICK d : d = scanned[i].token
      OBVIOUS
    <2>1. i \in 1 .. n
      BY <1>1
    <2>2. d # c
      BY <1>9 DEF TokensOf
    <2>3. InOnly(f, d)
      BY <1>1 DEF WindowInv, CommentsPlaced
    <2>4. InOnly(f, d)'
      BY <1>10, <2>2, <2>3, OldComment
    <2>5. scanned'[i].token = d
      BY <1>1, <2>1
    <2>6. Where(i)' = f
      <3>1. CASE OnLineBefore(i)
        <4> PICK m : m = Max(Earlier(i))
          OBVIOUS
        <4>1. Later(i) # {} => scanned'[m] = scanned[m]
          <5>1. Earlier(i) \subseteq OtherCalls /\ Earlier(i) # {}
            BY <3>1 DEF OnLineBefore, Earlier
          <5>2. 1 .. n \subseteq 0 .. n
            BY <1>1
          <5> PICK S : S = Earlier(i)
            OBVIOUS
          <5>3. S \in SUBSET (0 .. n) /\ S # {} /\ S \subseteq 1 .. n
            BY <1>1, <5>1, <5>2
          <5>4. Max(S) \in S
            BY <1>1, <5>3, MaxOf
          <5>5. m \in 1 .. n
            BY <5>3, <5>4
          <5> QED
            BY <1>1, <5>5
        <4>2. Max(Earlier(i)') = m
          BY <1>3, <2>1
        <4>3. Where(i) = IF Later(i) = {} THEN Tail_ ELSE <<"leading", scanned[m].token>>
          BY <3>1 DEF Where
        <4>4. Where(i)' = IF Later(i)' = {} THEN Tail_ ELSE <<"leading", scanned'[m].token>>
          BY <1>3, <2>1, <3>1, <4>2 DEF Where
        <4> QED
          BY <1>3, <2>1, <4>1, <4>3, <4>4
      <3>2. CASE ~OnLineBefore(i)
        <4> PICK m : m = Min(Later(i))
          OBVIOUS
        <4>1. Later(i) # {} => scanned'[m] = scanned[m]
          <5> SUFFICES ASSUME Later(i) # {} PROVE scanned'[m] = scanned[m]
            OBVIOUS
          <5>1. Later(i) \subseteq OtherCalls
            BY DEF Later
          <5>2. 1 .. n \subseteq Nat
            BY <1>1
          <5> PICK S : S = Later(i)
            OBVIOUS
          <5>3. S \in SUBSET Nat /\ S # {} /\ S \subseteq 1 .. n
            BY <1>1, <5>1, <5>2
          <5>4. Min(S) \in S
            BY <5>3, MinOf
          <5>5. m \in 1 .. n
            BY <5>3, <5>4
          <5> QED
            BY <1>1, <5>5
        <4>2. Min(Later(i)') = m
          BY <1>3, <2>1
        <4>3. Where(i) = IF Later(i) # {} /\ scanned[m].token \in DOMAIN node
                         THEN <<"head", scanned[m].token>>
                         ELSE IF cur.type = "EOF" THEN Statement ELSE Waiting
          BY <3>2 DEF Where
        <4>4. Where(i)' = IF Later(i)' # {} /\ scanned'[m].token \in DOMAIN node'
                          THEN <<"head", scanned'[m].token>>
                          ELSE IF cur'.type = "EOF" THEN Statement ELSE Waiting
          BY <1>3, <2>1, <3>2, <4>2 DEF Where
        <4> QED
          BY <1>2, <1>3, <2>1, <4>1, <4>3, <4>4
      <3> QED
        BY <3>1, <3>2
    <2> QED
      BY <2>4, <2>5, <2>6 DEF InOnly
  <1>12. InOnly(Where(n + 1), scanned[n + 1].token)'
    <2>1. InOnly(h, c)'
      BY <1>10, NewComment
    <2>2. OnLineBefore(n + 1)' <=> OnCurrentLine(c)
      <3> PICK S : S = OtherCalls
        OBVIOUS
      <3>1. OnLineBefore(n + 1)' <=> S # {} /\ scanned'[Max(S)].token.line = c.line
        BY <1>3 DEF OnLineBefore
      <3> QED
        BY <1>5, <1>7, <3>1 DEF OnCurrentLine
    <2>3. Where(n + 1)' = h
      BY <1>2, <1>3, <1>5, <2>2 DEF Where
    <2> QED
      BY <2>1, <2>3 DEF InOnly
  <1>13. \A g \in Holder' : \A k \in DOMAIN Group(g)' : Group(g)'[k] \in TokensOf(CommentCalls)'
    <2> PICK S : S = TokensOf(CommentCalls)
      OBVIOUS
    <2>1. \A g \in Holder : \A k \in DOMAIN Group(g) : Group(g)[k] \in S
      BY <1>1 DEF WindowInv, CommentsPlaced
    <2>2. \A g \in Holder' : \A k \in DOMAIN Group(g)' : Group(g)'[k] \in S \cup {c}
      BY <1>10, <2>1, OnlyComments
    <2> QED
      BY <1>3, <2>2
  <1>14. CommentsPlaced'
    <2>1. \A i \in CommentCalls' : i \in CommentCalls \/ i = n + 1
      BY <1>3
    <2> QED
      BY <1>11, <1>12, <1>13, <2>1 DEF CommentsPlaced
  <1> QED
    BY <1>8, <1>14

\* Two tokens differ unless the first is a stuck "@".
TokensApart ==
  \A i, j \in Real : i < j /\ ~StuckAt(i) => scanned[i].token # scanned[j].token

LEMMA CallsTokensApart == Calls => TokensApart
  BY TokensDiffer DEF TokensApart

LEMMA TokensApartNext == Calls' => TokensApart'
  BY CallsTokensApart, PTL

\* The token after a comment has no node yet: a stuck "@" has no comment after it.
LEMMA AfterCommentIsNew ==
  ASSUME WindowInv, Peek, NEW n, n = Len(scanned), NEW c, c = scanned'[n + 1].token,
         c.type # "error", NEW i \in CommentCalls, Later(i) = {}
  PROVE  c \notin DOMAIN node
  <1>1. /\ n \in Nat /\ Calls /\ Calls' /\ pc = "scanning" /\ Len(scanned') = n + 1
        /\ \A j \in 1 .. n : scanned'[j] = scanned[j]
        /\ CommentCalls \subseteq 1 .. n /\ OtherCalls \subseteq 1 .. n
        /\ \A j \in CommentCalls : scanned[j].token.type \in Comment
    BY PeekCalls
  <1>2. /\ DOMAIN node = TokensOf(OtherCalls)
        /\ \A j \in 1 .. n : scanned[j].token.type \notin {"EOF", "error"}
    BY <1>1 DEF WindowInv, WindowAt
  <1>3. ASSUME NEW j \in OtherCalls PROVE scanned[j].token # c
    <2>1. j \in 1 .. n /\ i \in 1 .. n /\ j # i
      BY <1>1 DEF OtherCalls
    <2>2. ~(j > i)
      BY <1>3 DEF Later
    <2>3. j < i /\ j < n + 1 /\ i \in j .. n
      BY <1>1, <2>1, <2>2
    <2>4. CASE c.type = "EOF"
      BY <1>2, <2>1, <2>4
    <2>5. CASE c.type # "EOF"
      <3>1. DOMAIN scanned' = 1 .. n + 1 /\ DOMAIN scanned = 1 .. n
        <4>1. IsSeq(scanned') /\ IsSeq(scanned)
          BY <1>1 DEF Calls
        <4> QED
          BY <1>1, <4>1, SeqFacts
      <3>2. j \in Real /\ j \in Real'
        BY <1>1, <1>2, <2>1, <3>1 DEF Real
      <3>3. n + 1 \in Real'
        BY <1>1, <2>5, <3>1 DEF Real
      <3>4. ~StuckAt(j)
        <4>1. StuckStays(j)
          BY <1>1, <3>2 DEF Calls
        <4>2. scanned[i].token.type # "ILLEGAL"
          BY <1>1 DEF Comment
        <4> QED
          BY <2>3, <4>1, <4>2 DEF StuckStays
      <3>5. ~StuckAt(j)'
        BY <1>1, <2>1, <3>4 DEF StuckAt
      <3>6. scanned'[j].token # scanned'[n + 1].token
        BY <1>1, <2>3, <3>2, <3>3, <3>5, TokensApartNext DEF TokensApart
      <3> QED
        BY <1>1, <2>1, <3>6
    <2> QED
      BY <2>4, <2>5
  <1> QED
    BY <1>2, <1>3 DEF TokensOf

\* The comments of the tail go to the current token; the others keep their places.
LEMMA PlacesAfterToken ==
  ASSUME WindowInv, Peek, NEW n, n = Len(scanned), NEW c, c = scanned'[n + 1].token,
         c.type \notin Comment \cup {"error"}, DOMAIN node' = DOMAIN node, cur' = cur,
         NEW k, k = cur, NEW i \in CommentCalls
  PROVE  Where(i)' = IF Where(i) = Tail_ THEN <<"leading", k>> ELSE Where(i)
  <1>1. /\ n \in Nat /\ Calls /\ pc = "scanning" /\ Len(scanned') = n + 1
        /\ \A j \in 1 .. n : scanned'[j] = scanned[j]
        /\ CommentCalls \subseteq 1 .. n /\ OtherCalls \subseteq 1 .. n
        /\ \A j \in 1 .. n : Earlier(j)' = Earlier(j) /\ (OnLineBefore(j)' <=> OnLineBefore(j))
        /\ \A j \in 1 .. n : Later(j)' = Later(j) \cup {n + 1}
    BY PeekCalls
  <1>2. i \in 1 .. n /\ i \notin OtherCalls /\ Later(i)' # {}
    BY <1>1 DEF OtherCalls
  <1>3. /\ cur.type # "EOF"
        /\ OtherCalls # {} => cur = scanned[Max(OtherCalls)].token
        /\ DOMAIN node = TokensOf(OtherCalls)
    BY <1>1, CurrentIs DEF WindowInv, WindowAt
  <1>4. Earlier(i) \subseteq OtherCalls /\ Later(i) \subseteq OtherCalls
    BY DEF Earlier, Later
  <1>5. CASE OnLineBefore(i)
    <2> PICK S : S = Earlier(i)
      OBVIOUS
    <2> PICK m : m = Max(S)
      OBVIOUS
    <2>1. S # {} /\ Earlier(i)' = S /\ OnLineBefore(i)'
      BY <1>1, <1>2, <1>5 DEF OnLineBefore
    <2>2. m \in S
      <3>1. 1 .. n \subseteq 0 .. n
        BY <1>1
      <3>2. S \in SUBSET (0 .. n)
        BY <1>1, <1>4, <3>1
      <3> QED
        BY <1>1, <2>1, <3>2, MaxOf
    <2>3. scanned'[m] = scanned[m]
      BY <1>1, <1>4, <2>2
    <2>4. Where(i)' = <<"leading", scanned[m].token>>
      BY <1>2, <2>1, <2>3 DEF Where
    <2>5. CASE Later(i) = {}
      <3>1. S = OtherCalls
        <4> SUFFICES ASSUME NEW j \in OtherCalls PROVE j \in S
          BY <1>4
        <4>1. ~(j > i) /\ j # i /\ j \in 1 .. n
          BY <1>1, <1>2, <2>5 DEF Later
        <4>2. j < i
          BY <1>1, <1>2, <4>1
        <4> QED
          BY <4>2 DEF Earlier
      <3>2. scanned[m].token = k
        BY <1>3, <2>1, <3>1
      <3>3. Where(i) = Tail_
        BY <1>5, <2>5 DEF Where
      <3> QED
        BY <2>4, <3>2, <3>3
    <2>6. CASE Later(i) # {}
      <3>1. Where(i) = <<"leading", scanned[m].token>>
        BY <1>5, <2>6 DEF Where
      <3> QED
        BY <2>4, <3>1, HoldersApart
    <2> QED
      BY <2>5, <2>6
  <1>6. CASE ~OnLineBefore(i)
    <2>0. ~OnLineBefore(i)'
      BY <1>1, <1>2, <1>6
    <2>1. CASE Later(i) = {}
      <3>1. Where(i) = Waiting
        BY <1>3, <1>6, <2>1 DEF Where
      <3>2. Min(Later(i)') = n + 1
        <4> PICK S : S = Later(i)'
          OBVIOUS
        <4>1. S = {n + 1}
          BY <1>1, <1>2, <2>1
        <4>2. S \in SUBSET Nat /\ S # {}
          BY <1>1, <4>1
        <4>3. Min(S) \in S
          BY <4>2, MinOf
        <4> QED
          BY <4>1, <4>3
      <3>3. c \notin DOMAIN node'
        BY <2>1, AfterCommentIsNew
      <3>4. Where(i)' = Waiting
        BY <1>3, <2>0, <3>2, <3>3 DEF Where
      <3> QED
        BY <3>1, <3>4, HoldersApart
    <2>2. CASE Later(i) # {}
      <3> PICK S : S = Later(i)
        OBVIOUS
      <3> PICK m : m = Min(S)
        OBVIOUS
      <3>1. S \in SUBSET Nat /\ S # {} /\ S \subseteq 1 .. n
        <4>1. 1 .. n \subseteq Nat
          BY <1>1
        <4> QED
          BY <1>1, <1>4, <2>2, <4>1
      <3>2. m \in S /\ \A x \in S : m <= x
        BY <3>1, MinOf
      <3>3. Min(Later(i)') = m
        <4> PICK T : T = S \cup {n + 1}
          OBVIOUS
        <4>1. T \in SUBSET Nat /\ T # {} /\ Later(i)' = T
          BY <1>1, <1>2, <3>1
        <4>2. Min(T) \in T /\ \A x \in T : Min(T) <= x
          BY <4>1, MinOf
        <4>3. m \in 1 .. n /\ m \in T
          BY <3>1, <3>2
        <4>4. Min(T) # n + 1
          <5>1. Min(T) <= m
            BY <4>2, <4>3
          <5>2. m < n + 1
            BY <1>1, <4>3
          <5>3. ~(n + 1 <= m)
            BY <1>1, <4>3, <5>2
          <5> QED
            BY <5>1, <5>3
        <4>5. Min(T) \in S /\ Min(T) \in Nat /\ m \in Nat /\ Min(T) <= m /\ m <= Min(T)
          BY <3>1, <3>2, <4>1, <4>2, <4>3, <4>4
        <4> QED
          BY <4>1, <4>5
      <3>4. scanned'[m] = scanned[m] /\ scanned[m].token \in DOMAIN node
        <4>1. m \in OtherCalls /\ m \in 1 .. n
          BY <1>4, <3>1, <3>2
        <4> QED
          BY <1>1, <1>3, <4>1 DEF TokensOf
      <3>5. Where(i) = <<"head", scanned[m].token>>
        BY <1>6, <2>2, <3>4 DEF Where
      <3>6. Where(i)' = <<"head", scanned[m].token>>
        BY <1>2, <2>0, <3>3, <3>4 DEF Where
      <3> QED
        BY <3>5, <3>6, HoldersApart
    <2> QED
      BY <2>1, <2>2
  <1> QED
    BY <1>5, <1>6

LEMMA PeekTokenStep ==
  ASSUME WindowInv, Peek, PeekToken(Last(scanned').token)
  PROVE  WindowAt' /\ CommentsPlaced'
  <1> PICK n : n = Len(scanned)
    OBVIOUS
  <1> PICK c : c = scanned'[n + 1].token
    OBVIOUS
  <1> PICK k : k = cur
    OBVIOUS
  <1>1. /\ n \in Nat /\ Calls /\ pc = "scanning"
        /\ Len(scanned') = n + 1 /\ Last(scanned').token = c
        /\ \A i \in 1 .. n : scanned'[i] = scanned[i]
        /\ CommentCalls \subseteq 1 .. n /\ OtherCalls \subseteq 1 .. n
    BY PeekCalls
  <1>2. /\ c.type \notin Comment \cup {"error"} /\ peek' = c /\ pc' = "idle" /\ tailGroup' = <<>>
        /\ node' = IF tailGroup = <<>> THEN node ELSE [node EXCEPT ![k].leading = tailGroup]
        /\ cur' = cur /\ headGroup' = headGroup /\ stmts' = stmts
    BY <1>1 DEF PeekToken
  <1>3. /\ CommentCalls' = CommentCalls /\ OtherCalls' = OtherCalls \cup {n + 1}
        /\ TokensOf(CommentCalls)' = TokensOf(CommentCalls)
    BY <1>2, PeekCalls
  <1>4. /\ WindowAt /\ CommentsPlaced /\ IsSeq(headGroup) /\ IsSeq(tailGroup) /\ IsSeq(stmts)
        /\ \A i \in 1 .. n : scanned[i].token.type \notin {"EOF", "error"}
        /\ DOMAIN node = TokensOf(OtherCalls)
        /\ \A i \in OtherCalls : scanned[i].token.type = "ILLEGAL" => cur.type = "ILLEGAL"
        /\ cur.type # "EOF" /\ stmts = <<>>
        /\ node = [x \in DOMAIN node |-> [head |-> node[x].head, leading |-> node[x].leading]]
    BY <1>1, CurrentIs DEF WindowInv, WindowAt
  <1>5. \A x \in DOMAIN node : node[x] = [head |-> node[x].head, leading |-> node[x].leading]
    BY <1>4
  <1>6. /\ DOMAIN node' = DOMAIN node
        /\ \A x \in DOMAIN node : /\ node'[x].head = node[x].head
                                  /\ x # k => node'[x] = node[x]
                                  /\ node'[x] = [head |-> node'[x].head, leading |-> node'[x].leading]
        /\ tailGroup # <<>> /\ k \in DOMAIN node => node'[k].leading = tailGroup
        /\ node' = [x \in DOMAIN node' |-> [head |-> node'[x].head, leading |-> node'[x].leading]]
    <2>1. CASE tailGroup = <<>>
      BY <1>2, <1>4, <1>5, <2>1
    <2>2. CASE tailGroup # <<>>
      <3>1. node' = [node EXCEPT ![k].leading = tailGroup]
        BY <1>2, <2>2
      <3>2. DOMAIN node' = DOMAIN node /\ node' = [x \in DOMAIN node |-> node'[x]]
        BY <3>1
      <3>3. \A x \in DOMAIN node : x # k => node'[x] = node[x]
        BY <3>1
      <3>4. k \in DOMAIN node => node'[k] = [head |-> node[k].head, leading |-> tailGroup]
        <4>1. k \in DOMAIN node => node'[k] = [node[k] EXCEPT !.leading = tailGroup]
          BY <3>1
        <4>2. k \in DOMAIN node => node[k] = [head |-> node[k].head, leading |-> node[k].leading]
          BY <1>5
        <4> QED
          BY <4>1, <4>2
      <3>5. \A x \in DOMAIN node : /\ node'[x].head = node[x].head
                                   /\ node'[x] = [head |-> node'[x].head, leading |-> node'[x].leading]
        BY <1>5, <3>3, <3>4
      <3> QED
        BY <3>2, <3>3, <3>4, <3>5
    <2> QED
      BY <2>1, <2>2
  <1>7. WindowAt'
    <2>1. IsSeq(headGroup)' /\ IsSeq(tailGroup)' /\ IsSeq(stmts)'
      <3>1. <<>> \in Seq({})
        OBVIOUS
      <3> QED
        BY <1>2, <1>4, <3>1 DEF IsSeq
    <2>2. (OtherCalls \ {Len(scanned)})' = OtherCalls
      BY <1>1, <1>3
    <2>3. TokensOf(OtherCalls \ {Len(scanned)})' = TokensOf(OtherCalls)
      BY <1>1, <2>2 DEF TokensOf
    <2>4. \A i \in 1 .. n + 1 : /\ scanned'[i].token.type # "error"
                                /\ scanned'[i].token.type = "EOF" => i = n + 1
      <3> SUFFICES ASSUME NEW i \in 1 .. n + 1
                   PROVE  /\ scanned'[i].token.type # "error"
                          /\ scanned'[i].token.type = "EOF" => i = n + 1
        OBVIOUS
      <3>1. CASE i \in 1 .. n
        BY <1>1, <1>4, <3>1
      <3>2. CASE i = n + 1
        BY <1>2, <3>2
      <3> QED
        BY <1>1, <3>1, <3>2
    <2>5. \A i \in OtherCalls : scanned'[i].token.type = "ILLEGAL" => cur'.type = "ILLEGAL"
      BY <1>1, <1>2, <1>4
    <2>6. n + 1 \in OtherCalls' /\ peek' = scanned'[n + 1].token /\ n + 1 # 0 /\ stmts' = <<>>
      BY <1>1, <1>2, <1>3, <1>4
    <2> QED
      BY <1>1, <1>2, <1>4, <1>6, <2>1, <2>2, <2>3, <2>4, <2>5, <2>6 DEF WindowAt
  <1>8. Holder' = Holder
    BY <1>6 DEF Holder
  <1>9. \A i \in CommentCalls : Where(i)' = IF Where(i) = Tail_ THEN <<"leading", k>> ELSE Where(i)
    BY <1>2, <1>6, PlacesAfterToken
  <1>10. \A i \in CommentCalls : scanned'[i] = scanned[i]
    BY <1>1
  <1>11. CASE tailGroup = <<>>
    <2>1. \A h : Group(h)' = Group(h)
      BY <1>2, <1>11 DEF Group
    <2>2. ASSUME NEW i \in CommentCalls PROVE InOnly(Where(i), scanned[i].token)'
      <3> PICK f : f = Where(i)
        OBVIOUS
      <3> PICK d : d = scanned[i].token
        OBVIOUS
      <3>1. InOnly(f, d)
        BY <1>1, <1>4 DEF CommentsPlaced
      <3>2. f # Tail_
        <4>1. DOMAIN <<>> = {}
          OBVIOUS
        <4> QED
          BY <1>11, <3>1, <4>1, GroupIs DEF InOnly
      <3>3. Where(i)' = f /\ scanned'[i].token = d
        BY <1>9, <1>10, <3>2
      <3>4. InOnly(f, d)'
        BY <1>8, <2>1, <3>1 DEF InOnly, In
      <3> QED
        BY <3>3, <3>4 DEF InOnly
    <2>3. \A h \in Holder' : \A j \in DOMAIN Group(h)' : Group(h)'[j] \in TokensOf(CommentCalls)'
      BY <1>1, <1>3, <1>4, <1>8, <2>1 DEF CommentsPlaced
    <2>4. CommentsPlaced'
      BY <1>3, <2>2, <2>3 DEF CommentsPlaced
    <2> QED
      BY <1>7, <2>4
  <1>12. CASE tailGroup # <<>>
    <2>1. k \in DOMAIN node /\ node[k].leading = <<>>
      <3>1. PICK j \in DOMAIN tailGroup : TRUE
        <4>1. DOMAIN tailGroup = 1 .. Len(tailGroup) /\ Len(tailGroup) \in Nat /\ Len(tailGroup) # 0
          <5>1. PICK S : tailGroup \in Seq(S)
            BY <1>4 DEF IsSeq
          <5> QED
            BY <1>12, <5>1
        <4> QED
          BY <4>1
      <3>2. tailGroup[j] \in TokensOf(CommentCalls)
        BY <1>1, <1>4, GroupIs, HolderIs DEF CommentsPlaced
      <3>3. PICK i \in CommentCalls : scanned[i].token = tailGroup[j]
        BY <3>2 DEF TokensOf
      <3>4. Where(i) = Tail_
        <4>1. In(Group(Tail_), scanned[i].token)
          BY <3>3, GroupIs DEF In
        <4> QED
          BY <1>1, <1>4, <4>1, HolderIs DEF CommentsPlaced, InOnly
      <3>5. OnLineBefore(i)
        BY <3>4, HoldersApart DEF Where
      <3>6. OtherCalls # {}
        BY <3>5 DEF OnLineBefore, Earlier
      <3> QED
        BY <1>1, <3>6, CurrentIs
    <2> PICK to : to = <<"leading", k>>
      OBVIOUS
    <2>2. Moves(Tail_, to)
      <3>1. to \in Holder /\ to # Tail_ /\ Tail_ \in Holder
        BY <2>1, HolderIs, HoldersApart
      <3>2. Group(to)' = Group(Tail_) /\ Group(Tail_)' = <<>> /\ Group(to) = <<>>
        BY <1>2, <1>6, <1>12, <2>1, GroupIs, GroupNext
      <3>3. ASSUME NEW h \in Holder \ {Tail_, to} PROVE Group(h)' = Group(h)
        <4>1. CASE h \in {Waiting, Statement}
          BY <1>2, <4>1, GroupIs, GroupNext
        <4>2. CASE \E x \in DOMAIN node : h \in {<<"head", x>>, <<"leading", x>>}
          <5>1. PICK x \in DOMAIN node : h \in {<<"head", x>>, <<"leading", x>>}
            BY <4>2
          <5>2. CASE h = <<"head", x>>
            BY <1>6, <5>2, GroupIs, GroupNext
          <5>3. CASE h = <<"leading", x>>
            <6>1. x # k
              BY <3>3, <5>3
            <6> QED
              BY <1>6, <5>3, <6>1, GroupIs, GroupNext
          <5> QED
            BY <5>1, <5>2, <5>3
        <4> QED
          BY <3>3, <4>1, <4>2, HolderIs
      <3> QED
        BY <1>8, <3>1, <3>2, <3>3 DEF Moves
    <2>3. CommentsPlaced'
      BY <1>1, <1>3, <1>4, <1>9, <1>10, <2>2, MovePlaces
    <2> QED
      BY <1>7, <2>3
  <1> QED
    BY <1>11, <1>12

-----------------------------------------------------------------------------
(* The window's invariant *)

LEMMA InitWindow == Init => WindowInv
  <1> SUFFICES ASSUME Init PROVE WindowAt /\ CommentsPlaced
    BY InitScans DEF WindowInv
  <1>1. /\ scanned = <<>> /\ cur = NoToken /\ peek = NoToken /\ headGroup = <<>> /\ tailGroup = <<>>
        /\ stmts = <<>> /\ node = <<>> /\ pc = "idle"
    BY DEF Init, ScannerInit
  <1>2. Len(scanned) = 0 /\ 1 .. 0 = {} /\ DOMAIN <<>> = {} /\ <<>> \in Seq({})
    BY <1>1
  <1>3. CommentCalls = {} /\ OtherCalls = {} /\ DOMAIN node = {}
    BY <1>1, <1>2 DEF CommentCalls, OtherCalls
  <1>4. TokensOf(OtherCalls \ {Len(scanned)}) = {}
    BY <1>3 DEF TokensOf
  <1>5. node = [k \in DOMAIN node |-> [head |-> node[k].head, leading |-> node[k].leading]]
    BY <1>1
  <1>6. WindowAt
    BY <1>1, <1>2, <1>3, <1>4, <1>5 DEF WindowAt, IsSeq
  <1>7. \A h \in Holder : DOMAIN Group(h) = {}
    <2> SUFFICES ASSUME NEW h \in Holder PROVE DOMAIN Group(h) = {}
      OBVIOUS
    <2>1. h \in {Waiting, Statement, Tail_}
      BY <1>3, HolderIs
    <2> QED
      BY <1>1, <1>2, <2>1, GroupIs
  <1>8. CommentsPlaced
    BY <1>3, <1>7 DEF CommentsPlaced
  <1> QED
    BY <1>6, <1>8

LEMMA StutterWindow ==
  ASSUME WindowInv, UNCHANGED vars
  PROVE  WindowAt' /\ CommentsPlaced'
  <1>1. /\ scanned' = scanned /\ cur' = cur /\ peek' = peek /\ headGroup' = headGroup
        /\ tailGroup' = tailGroup /\ node' = node /\ stmts' = stmts /\ pc' = pc
    BY DEF vars, scannerVars, windowVars
  <1>2. /\ CommentCalls' = CommentCalls /\ OtherCalls' = OtherCalls
        /\ \A i : Earlier(i)' = Earlier(i) /\ Later(i)' = Later(i)
        /\ \A i : OnLineBefore(i)' <=> OnLineBefore(i)
    BY <1>1, SameCalls
  <1>3. WindowAt'
    BY <1>1, <1>2 DEF WindowInv, WindowAt, IsSeq, TokensOf
  <1>4. Holder' = Holder /\ \A h : Group(h)' = Group(h)
    BY <1>1 DEF Holder, Group
  <1>5. \A i : Where(i)' = Where(i)
    BY <1>1, <1>2 DEF Where
  <1>6. CommentsPlaced'
    <2> SUFFICES ASSUME pc # "failed" PROVE CommentsPlaced'
      BY <1>1 DEF CommentsPlaced
    <2>1. ASSUME NEW i \in CommentCalls PROVE InOnly(Where(i), scanned[i].token)'
      <3> PICK f : f = Where(i)
        OBVIOUS
      <3> PICK d : d = scanned[i].token
        OBVIOUS
      <3>1. InOnly(f, d)
        BY DEF WindowInv, CommentsPlaced
      <3>2. InOnly(f, d)'
        BY <1>4, <3>1 DEF InOnly, In
      <3> QED
        BY <1>1, <1>5, <3>2 DEF InOnly
    <2>2. TokensOf(CommentCalls)' = TokensOf(CommentCalls)
      BY <1>1, <1>2 DEF TokensOf
    <2>3. \A h \in Holder' : \A j \in DOMAIN Group(h)' : Group(h)'[j] \in TokensOf(CommentCalls)'
      BY <1>4, <2>2 DEF WindowInv, CommentsPlaced
    <2> QED
      BY <1>2, <2>1, <2>3 DEF CommentsPlaced
  <1> QED
    BY <1>3, <1>6

LEMMA NextWindow == WindowInv /\ [Next]_vars => WindowInv'
  <1> SUFFICES ASSUME WindowInv, [Next]_vars PROVE WindowInv'
    OBVIOUS
  <1>1. ScanInv'
    BY NextScans DEF WindowInv
  <1>2. CASE AdvanceToEof
    BY <1>1, <1>2, AdvanceToEofStep DEF WindowInv
  <1>3. CASE Advance
    BY <1>1, <1>3, AdvanceStep DEF WindowInv
  <1>4. CASE Peek
    <2>1. \/ PeekComment(Last(scanned').token)
          \/ PeekToken(Last(scanned').token)
          \/ PeekError(Last(scanned').token)
      BY <1>4 DEF Peek
    <2> QED
      BY <1>1, <1>4, <2>1, PeekCommentStep, PeekTokenStep, PeekErrorStep DEF WindowInv
  <1>5. CASE UNCHANGED vars
    BY <1>1, <1>5, StutterWindow DEF WindowInv
  <1> QED
    BY <1>2, <1>3, <1>4, <1>5 DEF Next

\* Between any two steps of the parser every comment read so far is in exactly one of the groups
\* and nodes, the one it belongs to, and nothing else is in any; each token that was current has
\* its node, and no token has another's (nextToken of pkg/parser/api/parser/parser.go).
THEOREM WindowInvariant == Spec => []WindowInv
  <1> QED
    BY InitWindow, NextWindow, PTL DEF Spec

-----------------------------------------------------------------------------
(* The places of a comment between two calls of nextToken *)

\* The place with number j in holder h, as Places writes it.
PlaceIn(h, j) == IF h \in {Waiting, Statement} THEN <<h[1], j>> ELSE <<h[1], h[2], j>>

LEMMA PlaceInIs ==
  \A j : /\ PlaceIn(Waiting, j) = <<"waiting", j>> /\ PlaceIn(Statement, j) = <<"statement", j>>
         /\ \A k : /\ PlaceIn(<<"head", k>>, j) = <<"head", k, j>>
                   /\ PlaceIn(<<"leading", k>>, j) = <<"leading", k, j>>
  <1>1. \A k : /\ <<"head", k>> \notin {Waiting, Statement}
               /\ <<"leading", k>> \notin {Waiting, Statement}
    BY HoldersApart
  <1> QED
    BY <1>1 DEF PlaceIn, Waiting, Statement

LEMMA PlacesAre ==
  ASSUME NEW c, NEW x
  PROVE  x \in Places(c) <=>
           \E h \in Holder \ {Tail_} : \E j \in DOMAIN Group(h) : Group(h)[j] = c /\ x = PlaceIn(h, j)
  <1>1. x \in Places(c) <=>
          \/ \E j \in DOMAIN headGroup : headGroup[j] = c /\ x = <<"waiting", j>>
          \/ \E j \in DOMAIN stmts : stmts[j] = c /\ x = <<"statement", j>>
          \/ \E k \in DOMAIN node : \E j \in DOMAIN node[k].head :
               node[k].head[j] = c /\ x = <<"head", k, j>>
          \/ \E k \in DOMAIN node : \E j \in DOMAIN node[k].leading :
               node[k].leading[j] = c /\ x = <<"leading", k, j>>
    <2> DEFINE OfGroup == {<<"waiting", i>> : i \in {j \in DOMAIN headGroup : headGroup[j] = c}}
               OfStmts == {<<"statement", i>> : i \in {j \in DOMAIN stmts : stmts[j] = c}}
               OfNode(k, place) ==
                 {<<place, k, i>> : i \in {j \in DOMAIN node[k][place] : node[k][place][j] = c}}
               OfNodes == UNION {OfNode(k, place) : k \in DOMAIN node, place \in {"head", "leading"}}
    <2>1. Places(c) = OfGroup \cup OfStmts \cup OfNodes
      BY DEF Places
    <2>2. x \in OfGroup <=> \E j \in DOMAIN headGroup : headGroup[j] = c /\ x = <<"waiting", j>>
      OBVIOUS
    <2>3. x \in OfStmts <=> \E j \in DOMAIN stmts : stmts[j] = c /\ x = <<"statement", j>>
      OBVIOUS
    <2>4. x \in OfNodes <=> \E k \in DOMAIN node : x \in OfNode(k, "head") \/ x \in OfNode(k, "leading")
      <3> HIDE DEF OfNode
      <3> QED
        OBVIOUS
    <2>5. \A k : x \in OfNode(k, "head") <=>
                   \E j \in DOMAIN node[k].head : node[k].head[j] = c /\ x = <<"head", k, j>>
      OBVIOUS
    <2>6. \A k : x \in OfNode(k, "leading") <=>
                   \E j \in DOMAIN node[k].leading : node[k].leading[j] = c /\ x = <<"leading", k, j>>
      OBVIOUS
    <2> HIDE DEF OfGroup, OfStmts, OfNode, OfNodes
    <2> QED
      BY <2>1, <2>2, <2>3, <2>4, <2>5, <2>6
  <1>2. ASSUME x \in Places(c)
        PROVE  \E h \in Holder \ {Tail_} : \E j \in DOMAIN Group(h) : Group(h)[j] = c /\ x = PlaceIn(h, j)
    <2>1. CASE \E j \in DOMAIN headGroup : headGroup[j] = c /\ x = <<"waiting", j>>
      <3>1. Waiting \in Holder \ {Tail_}
        BY HolderIs, HoldersApart
      <3> QED
        BY <2>1, <3>1, GroupIs, PlaceInIs
    <2>2. CASE \E j \in DOMAIN stmts : stmts[j] = c /\ x = <<"statement", j>>
      <3>1. Statement \in Holder \ {Tail_}
        BY HolderIs, HoldersApart
      <3> QED
        BY <2>2, <3>1, GroupIs, PlaceInIs
    <2>3. CASE \E k \in DOMAIN node : \E j \in DOMAIN node[k].head :
                 node[k].head[j] = c /\ x = <<"head", k, j>>
      <3>1. PICK k \in DOMAIN node : \E j \in DOMAIN node[k].head :
                                       node[k].head[j] = c /\ x = <<"head", k, j>>
        BY <2>3
      <3> PICK h : h = <<"head", k>>
        OBVIOUS
      <3>2. h \in Holder \ {Tail_} /\ Group(h) = node[k].head /\ \A j : PlaceIn(h, j) = <<"head", k, j>>
        BY GroupIs, HolderIs, HoldersApart, PlaceInIs
      <3> QED
        BY <3>1, <3>2
    <2>4. CASE \E k \in DOMAIN node : \E j \in DOMAIN node[k].leading :
                 node[k].leading[j] = c /\ x = <<"leading", k, j>>
      <3>1. PICK k \in DOMAIN node : \E j \in DOMAIN node[k].leading :
                                       node[k].leading[j] = c /\ x = <<"leading", k, j>>
        BY <2>4
      <3> PICK h : h = <<"leading", k>>
        OBVIOUS
      <3>2. h \in Holder \ {Tail_} /\ Group(h) = node[k].leading /\ \A j : PlaceIn(h, j) = <<"leading", k, j>>
        BY GroupIs, HolderIs, HoldersApart, PlaceInIs
      <3> QED
        BY <3>1, <3>2
    <2> QED
      BY <1>1, <1>2, <2>1, <2>2, <2>3, <2>4
  <1>3. ASSUME NEW h \in Holder \ {Tail_}, NEW j \in DOMAIN Group(h), Group(h)[j] = c, x = PlaceIn(h, j)
        PROVE  x \in Places(c)
    <2>1. CASE h = Waiting
      BY <1>1, <1>3, <2>1, GroupIs, PlaceInIs
    <2>2. CASE h = Statement
      BY <1>1, <1>3, <2>2, GroupIs, PlaceInIs
    <2>3. CASE \E k \in DOMAIN node : h \in {<<"head", k>>, <<"leading", k>>}
      <3>1. PICK k \in DOMAIN node : h \in {<<"head", k>>, <<"leading", k>>}
        BY <2>3
      <3>2. CASE h = <<"head", k>>
        BY <1>1, <1>3, <3>2, GroupIs, PlaceInIs
      <3>3. CASE h = <<"leading", k>>
        BY <1>1, <1>3, <3>3, GroupIs, PlaceInIs
      <3> QED
        BY <3>1, <3>2, <3>3
    <2> QED
      BY <2>1, <2>2, <2>3, HolderIs
  <1> QED
    BY <1>2, <1>3

LEMMA PairOfThree ==
  ASSUME NEW a, NEW b, NEW c
  PROVE  SubSeq(<<a, b, c>>, 1, 2) = <<a, b>>
  <1> PICK s : s = <<a, b, c>>
    OBVIOUS
  <1> PICK t : t = SubSeq(s, 1, 2)
    OBVIOUS
  <1>1. s \in Seq({a, b, c}) /\ Len(s) = 3 /\ s[1] = a /\ s[2] = b
    OBVIOUS
  <1>2. t \in Seq({a, b, c}) /\ Len(t) = 2 /\ t[1] = s[1] /\ t[2] = s[2]
    BY <1>1
  <1>3. t = [i \in 1 .. 2 |-> t[i]]
    BY <1>2
  <1>4. <<a, b>> = [i \in 1 .. 2 |-> <<a, b>>[i]]
    OBVIOUS
  <1>5. \A i \in 1 .. 2 : t[i] = <<a, b>>[i]
    <2>1. \A i \in 1 .. 2 : i = 1 \/ i = 2
      OBVIOUS
    <2> QED
      BY <1>1, <1>2, <2>1
  <1> QED
    BY <1>3, <1>4, <1>5

LEMMA KeptByWindow == WindowInv => CommentsKept
  <1> SUFFICES ASSUME WindowInv, pc = "idle", NEW i \in CommentCalls
               PROVE  LET c      == scanned[i].token
                          before == {j \in OtherCalls : j < i}
                          next   == scanned[Min({j \in OtherCalls : j > i})].token
                      IN  \E place \in Places(c) :
                            /\ Places(c) = {place}
                            /\ IF before # {} /\ scanned[Max(before)].token.line = c.line
                               THEN SubSeq(place, 1, 2) = <<"leading", scanned[Max(before)].token>>
                               ELSE IF next \in DOMAIN node THEN SubSeq(place, 1, 2) = <<"head", next>>
                               ELSE place[1] = IF cur.type = "EOF" THEN "statement" ELSE "waiting"
    BY DEF CommentsKept
  <1> PICK c : c = scanned[i].token
    OBVIOUS
  <1> PICK last : last = scanned[Max(Earlier(i))].token
    OBVIOUS
  <1> PICK next : next = scanned[Min(Later(i))].token
    OBVIOUS
  <1> PICK h : h = Where(i)
    OBVIOUS
  <1>1. Later(i) # {}
    <2> PICK n : n = Len(scanned)
      OBVIOUS
    <2>1. /\ n \in Nat /\ CommentCalls \subseteq 1 .. n /\ OtherCalls \subseteq 1 .. n
      BY CallsSplit DEF WindowInv, ScanInv
    <2>2. i \in 1 .. n /\ i \notin OtherCalls
      BY <2>1 DEF OtherCalls
    <2>3. n \in OtherCalls
      <3>1. n # 0
        BY <2>1, <2>2
      <3> QED
        BY <3>1 DEF WindowInv, WindowAt
    <2>4. n > i
      BY <2>1, <2>2, <2>3
    <2> QED
      BY <2>3, <2>4 DEF Later
  <1>2. InOnly(h, c)
    BY DEF WindowInv, CommentsPlaced
  <1>3. h = IF OnLineBefore(i) THEN <<"leading", last>>
            ELSE IF next \in DOMAIN node THEN <<"head", next>>
            ELSE IF cur.type = "EOF" THEN Statement ELSE Waiting
    BY <1>1 DEF Where
  <1>4. h \in Holder \ {Tail_}
    BY <1>2, <1>3, HoldersApart DEF InOnly
  <1>5. PICK j \in DOMAIN Group(h) : /\ Group(h)[j] = c
                                     /\ \A l \in DOMAIN Group(h) : Group(h)[l] = c => l = j
    BY <1>2 DEF InOnly
  <1> PICK place : place = PlaceIn(h, j)
    OBVIOUS
  <1>6. place \in Places(c)
    BY <1>4, <1>5, PlacesAre
  <1>7. ASSUME NEW x \in Places(c) PROVE x = place
    <2>1. PICK g \in Holder \ {Tail_} : \E l \in DOMAIN Group(g) : Group(g)[l] = c /\ x = PlaceIn(g, l)
      BY PlacesAre
    <2>2. PICK l \in DOMAIN Group(g) : Group(g)[l] = c /\ x = PlaceIn(g, l)
      BY <2>1
    <2>3. g = h
      BY <1>2, <2>2 DEF InOnly, In
    <2>4. l = j
      BY <1>5, <2>2, <2>3
    <2> QED
      BY <2>2, <2>3, <2>4
  <1>8. Places(c) = {place}
    BY <1>6, <1>7
  <1>9. IF OnLineBefore(i) THEN SubSeq(place, 1, 2) = <<"leading", last>>
        ELSE IF next \in DOMAIN node THEN SubSeq(place, 1, 2) = <<"head", next>>
        ELSE place[1] = IF cur.type = "EOF" THEN "statement" ELSE "waiting"
    <2>1. CASE OnLineBefore(i)
      <3>1. place = <<"leading", last, j>>
        BY <1>3, <2>1, PlaceInIs
      <3> QED
        BY <2>1, <3>1, PairOfThree
    <2>2. CASE ~OnLineBefore(i) /\ next \in DOMAIN node
      <3>1. place = <<"head", next, j>>
        BY <1>3, <2>2, PlaceInIs
      <3> QED
        BY <2>2, <3>1, PairOfThree
    <2>3. CASE ~OnLineBefore(i) /\ next \notin DOMAIN node /\ cur.type = "EOF"
      <3>1. place = <<"statement", j>>
        BY <1>3, <2>3, PlaceInIs
      <3> QED
        BY <2>3, <3>1
    <2>4. CASE ~OnLineBefore(i) /\ next \notin DOMAIN node /\ cur.type # "EOF"
      <3>1. place = <<"waiting", j>>
        BY <1>3, <2>4, PlaceInIs
      <3> QED
        BY <2>4, <3>1
    <2> QED
      BY <2>1, <2>2, <2>3, <2>4
  <1> QED
    BY <1>6, <1>8, <1>9 DEF OnLineBefore, Earlier, Later

\* Between two calls of nextToken every comment read so far is in exactly one place: with the token
\* before it when it starts on that token's line, else with the token after it, waiting until that
\* token is current, or a statement when no token follows; whatever the text.
THEOREM CommentsStayPlaced == Spec => []CommentsKept
  <1> QED
    BY KeptByWindow, WindowInvariant, PTL
===============================================================================
