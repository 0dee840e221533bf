----------------------------- MODULE TwoParsers -----------------------------
(***************************************************************************)
(* The two parsers of .api files over one file: the one of pkg/parser/api,  *)
(* which prints it for `goctl api format`, and the one ANTLR generated.     *)
(* GOCTL_EXPERIMENTAL says which one a command takes, so that a file is     *)
(* formatted by one author's goctl and read by another's.                   *)
(***************************************************************************)
EXTENDS FormatTool, OldSyntax

\* The old parser takes the whole file, and what it reads.
Taken(raw) == OldParse(raw).whole

OldMeaning(raw) == MeaningOf(Ok(1, OldParse(raw).node))

-----------------------------------------------------------------------------
(* Files both parsers are meant to read *)

\* What the old parser takes for a key's value, the rest of the key's line, is a value to
\* parseAtServerKVExpression or parseKVExpression as well.
KeyAndValue(t, n) == n \in {ParseAtServerKVExpression(t, 0).at, ParseKVExpression(t, 0).at}
FillsLine(raw) == KeyAndValue(TokenNodes(raw), Len(raw))

ValuesFillLines(toks) ==
    \A i \in DOMAIN toks :
        /\ toks[i].c # ":"
        /\ toks[i].c \in Key => FillsLine(SubSeq(toks, i, LineValueEnd(toks, i)))

\* A field begins and ends a line, and an embedded type has no tag: the old grammar has no
\* such tag, and then takes the type of the field above for the name of this one.
EndsLine(t, r) ==
    /\ ~Failed(r)
    /\ t[r.at + 1].line > t[r.at].line
    /\ r.node.type.dt # "struct"
    /\ r.node.tag = << >> \/ r.node.names # << >>

FieldLine(t, tok) ==
    \E i \in DOMAIN t :
        /\ t[i].line = tok.line /\ \A k \in 1..(i - 1) : t[k].line # tok.line
        /\ EndsLine(t, ParseElemExpr(t, i - 1))

StructFields(s) ==
    LET Fields1(e) == IF e.type.dt = "struct" THEN e.type.elems ELSE << >>
    IN  FlattenSeq([i \in DOMAIN TypeExprs(s) |-> Fields1(TypeExprs(s)[i])])

FieldsOf(ast) == FlattenSeq([i \in DOMAIN ast |-> StructFields(ast[i])])

FieldLinesOf(t, fields) == \A i \in DOMAIN fields : FieldLine(t, Head(fields[i].names \o fields[i].type.toks))
FieldLines(toks) == FieldLinesOf(TokenNodes(toks), FieldsOf(Parse(toks).node))

Plain(toks) == Prints(toks) /\ ValuesFillLines(toks) /\ FieldLines(toks)

-----------------------------------------------------------------------------
(* Properties *)

\* A file that both parsers take declares the same to both.
SameMeaning == Taken(text) /\ Plain(text) => OldMeaning(text) = Meaning(text)

\* The old parser still takes a file it took, once that is formatted, and reads the same,
\* unless the tool is known to change the file.
FormatKeepsReading ==
    Taken(source) /\ Plain(source) =>
        \/ Taken(text) /\ OldMeaning(text) = OldMeaning(source)
        \/ KnownLoss(source, LineComment) # {}

=============================================================================
