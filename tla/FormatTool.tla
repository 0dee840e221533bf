----------------------------- MODULE FormatTool -----------------------------
(***************************************************************************)
(* `goctl api format` (File and Source of pkg/parser/api/format) run again  *)
(* and again over one .api file that its author edits in between: words     *)
(* and comments put in and taken out, lines broken and joined.  A run reads *)
(* the file, parses and prints it, and writes it back.                      *)
(***************************************************************************)
EXTENDS ApiFormat

CONSTANTS Texts,        \* the files to start from, as sequences of lines of token classes
          Words,        \* the token classes the author may type
          Comments,     \* the kinds of comments the author may put in
          MaxWords,     \* how often the author changes a word
          MaxLayout     \* how often the author moves a line break or puts in a comment

VARIABLES text,          \* the file: tokens with their lines, comments included
          source,        \* what the author last made of it
          runs,          \* how often it was formatted since, up to 2
          words, layout  \* how often the author has done so

vars == <<text, source, runs, words, layout>>

\* The tokens of a file given line by line.
OfLines(lines) ==
    FlattenSeq([i \in DOMAIN lines |-> [k \in DOMAIN lines[i] |-> [c |-> lines[i][k], line |-> i]]])

Init ==
    /\ \E l \in Texts : text = OfLines(l)
    /\ source = text
    /\ runs = 0
    /\ words = 0
    /\ layout = 0

\* Source prints the tree unless the parser stops or reports an error.
Printable(r) == ~Failed(r) /\ ~Unprintable(r.node)
Prints(raw) == raw # << >> /\ Printable(Parse(raw))
Source(raw) == Rescan(Format(Parse(raw).node))

-----------------------------------------------------------------------------
(* The author *)

\* The tokens from the i-th on move by so many lines.
Shift(toks, i, by) ==
    [k \in DOMAIN toks |-> IF k < i THEN toks[k] ELSE [toks[k] EXCEPT !.line = @ + by]]

\* A line comment ends its line.
Readable(toks) == \A i \in 1..(Len(toks) - 1) : toks[i].c \in LineComment => toks[i + 1].line > toks[i].line

\* Words are changed before the layout, which is changed only where the tool prints the file:
\* the same texts are reached by fewer ways.
Reword(toks) ==
    /\ layout = 0
    /\ words < MaxWords
    /\ words' = words + 1
    /\ Readable(toks)
    /\ text' = toks
    /\ source' = toks
    /\ runs' = 0
    /\ UNCHANGED layout

Relayout(toks) ==
    /\ layout' = layout + 1
    /\ Readable(toks)
    /\ text' = toks
    /\ source' = toks
    /\ runs' = 0
    /\ UNCHANGED words

Retype == \E i \in DOMAIN text, c \in Words : text[i].c \notin Comment \cup {c} /\ Reword([text EXCEPT ![i].c = c])

Delete == \E i \in DOMAIN text : Reword(RemoveAt(text, i))

Insert == \E i \in DOMAIN text, c \in Words : Reword(InsertAt(text, i, [c |-> c, line |-> text[i].line]))

\* A comment before a token, which goes to the next line, or not.
InsertComment ==
    /\ layout < MaxLayout /\ Prints(text)
    /\ \E i \in DOMAIN text, c \in Comments, by \in {0, 1} :
          Relayout(InsertAt(Shift(text, i, by), i, [c |-> c, line |-> text[i].line]))

BreakLine ==
    /\ layout < MaxLayout /\ Prints(text)
    /\ \E i \in 2..Len(text) : Relayout(Shift(text, i, 1))

JoinLine ==
    /\ layout < MaxLayout /\ Prints(text)
    /\ \E i \in 2..Len(text) :
          /\ text[i].line > text[i - 1].line
          /\ Relayout(Shift(text, i, text[i - 1].line - text[i].line))

-----------------------------------------------------------------------------
(* The tool *)

File ==
    /\ Prints(text)
    /\ text' = Source(text)
    /\ runs' = IF runs = 2 THEN 2 ELSE runs + 1
    /\ UNCHANGED <<source, words, layout>>

Next ==
    \/ Retype \/ Delete \/ Insert \/ InsertComment \/ BreakLine \/ JoinLine
    \/ File

Spec == Init /\ [][Next]_vars

-----------------------------------------------------------------------------
(* What a text declares: its tree without comments, lines and what Format leaves out *)

TextsOf(toks) == FlattenSeq([i \in DOMAIN toks |-> toks[i].text])

RECURSIVE TypeMeaning(_)
TypeMeaning(d) ==
    CASE d.dt = "struct" ->
           <<"{">>
             \o FlattenSeq([i \in DOMAIN d.elems |->
                    <<"field">> \o TextsOf(d.elems[i].names) \o <<"of">> \o TypeMeaning(d.elems[i].type)
                      \o TextsOf(d.elems[i].tag)])
             \o <<"}">>
      [] d.dt = "base" -> TextsOf(d.toks)
      [] d.dt = "map"  -> TextsOf(d.toks) \o TypeMeaning(d.key) \o <<"]">> \o TypeMeaning(d.of)
      [] OTHER         -> TextsOf(d.toks) \o TypeMeaning(d.of)

TypeExprMeaning(e) == <<"type">> \o TextsOf(<<e.name>> \o e.assign) \o TypeMeaning(e.type)

GroupMeaning(s) ==
    IF Hollow(s.values) THEN << >>
    ELSE <<s.kind>> \o FlattenSeq([i \in DOMAIN s.values |-> TextsOf(s.values[i])]) \o <<")">>

BodyMeaning(toks) == IF HasBody(toks) THEN TextsOf(toks) ELSE << >>

LiteralMeaning(toks) == IF IsZeroString(toks[2]) THEN << >> ELSE TextsOf(toks)

DocMeaning(i) ==
    IF i.doc = << >> THEN << >>
    ELSE IF i.doc[1].kind = "literal" THEN LiteralMeaning(i.doc[1].toks) ELSE GroupMeaning(i.doc[1])

ItemMeaning(i) ==
    DocMeaning(i) \o TextsOf(i.handler)
      \o FlattenSeq([k \in DOMAIN i.route |->
            TextsOf(<<i.route[k].method, i.route[k].path>>) \o BodyMeaning(i.route[k].request)
              \o <<"returns">> \o BodyMeaning(i.route[k].response)])

StmtMeaning(s) ==
    CASE s.kind = "syntax"  -> TextsOf(s.toks)
      [] s.kind = "literal" -> LiteralMeaning(s.toks)
      [] s.kind = "info"    -> GroupMeaning(s)
      [] s.kind = "imports" ->
           IF Hollow(s.values) THEN << >>
           ELSE FlattenSeq([i \in DOMAIN s.values |-> <<"import">> \o s.values[i][1].text])
      [] s.kind = "type"    -> TypeExprMeaning(s.expr)
      [] s.kind = "types"   -> FlattenSeq([i \in DOMAIN s.exprs |-> TypeExprMeaning(s.exprs[i])])
      [] s.kind = "comment" -> << >>
      [] s.kind = "service" ->
           FlattenSeq([i \in DOMAIN s.server |-> GroupMeaning(s.server[i])])
             \o <<"service">> \o s.name.text \o FlattenSeq([i \in DOMAIN s.items |-> ItemMeaning(s.items[i])])
             \o <<"}">>

MeaningOf(r) == IF Failed(r) THEN <<"error">> ELSE FlattenSeq([i \in DOMAIN r.node |-> StmtMeaning(r.node[i])])
Meaning(raw) == MeaningOf(Parse(raw))

-----------------------------------------------------------------------------
(* The comments above a declaration or a closing bracket *)

RECURSIVE TypeOpeners(_)

FieldOpeners(e) == <<Head(e.names \o e.type.toks)>> \o TypeOpeners(e.type)

\* The tokens that open or close something inside a type.
TypeOpeners(d) ==
    CASE d.dt = "base"   -> << >>
      [] d.dt = "struct" -> IF d.elems = << >> THEN << >>
                            ELSE FlattenSeq([i \in DOMAIN d.elems |-> FieldOpeners(d.elems[i])]) \o <<d.rbrace>>
      [] OTHER           -> TypeOpeners(d.of)

GroupOpeners(s) ==
    IF Hollow(s.values) THEN << >> ELSE <<s.first>> \o [i \in DOMAIN s.values |-> s.values[i][1]] \o <<s.rparen>>

LiteralOpeners(toks) == IF IsZeroString(toks[2]) THEN << >> ELSE <<toks[1]>>

ItemOpeners(i) ==
    (IF i.doc = << >> THEN << >>
     ELSE IF i.doc[1].kind = "literal" THEN LiteralOpeners(i.doc[1].toks) ELSE GroupOpeners(i.doc[1]))
      \o <<i.handler[1], i.route[1].method>>

Openers(s) ==
    CASE s.kind = "syntax"  -> <<s.toks[1]>>
      [] s.kind = "literal" -> LiteralOpeners(s.toks)
      [] s.kind \in {"info", "imports"} -> GroupOpeners(s)
      [] s.kind = "type"    -> <<s.first>> \o TypeOpeners(s.expr.type)
      [] s.kind = "types"   ->
           IF s.exprs = << >> THEN << >>
           ELSE <<s.first>>
                  \o FlattenSeq([i \in DOMAIN s.exprs |-> <<s.exprs[i].name>> \o TypeOpeners(s.exprs[i].type)])
                  \o <<s.rparen>>
      [] s.kind = "comment" -> << >>
      [] s.kind = "service" ->
           FlattenSeq([i \in DOMAIN s.server |-> GroupOpeners(s.server[i])])
             \o <<s.first>> \o FlattenSeq([i \in DOMAIN s.items |-> ItemOpeners(s.items[i])]) \o <<s.rbrace>>

\* How many comments stand above each of them.
HeadsOf(toks) == [i \in DOMAIN toks |-> Len(toks[i].head)]
OpenersOf(ast) == FlattenSeq([i \in DOMAIN ast |-> Openers(ast[i])])
HeadsIn(r) == IF Printable(r) THEN HeadsOf(OpenersOf(r.node)) ELSE << >>
CommentsAbove(raw) == HeadsIn(Parse(raw))
NowhereFewer(now, before) == Len(now) = Len(before) /\ \A i \in DOMAIN now : now[i] >= before[i]

-----------------------------------------------------------------------------
(* What the tool is known to change *)

TypeExprs(s) == IF s.kind = "type" THEN <<s.expr>> ELSE IF s.kind = "types" THEN s.exprs ELSE << >>

TypesOf(s) == UNION {Parts(TypeExprs(s)[i].type) : i \in DOMAIN TypeExprs(s)}

\* The texts that WriteText is given for a type or for an item of a service, ...
BracesWritten(d) ==
    IF d.dt # "struct" THEN {} ELSE IF d.elems = << >> THEN {} ELSE {FormatToken(d.toks[1]), FormatToken(d.rbrace)}

ItemTextsWritten(i) == {FormatAtDoc(i.doc[k]) : k \in DOMAIN i.doc} \cup {FormatAtHandler(i.handler)}

\* ... and for a statement.
TextsWritten(s) ==
    UNION {BracesWritten(d) : d \in TypesOf(s)}
      \cup (IF s.kind = "types" THEN {FormatToken(s.rparen)} ELSE {})
      \cup (IF s.kind # "service" THEN {}
            ELSE {FormatGroup(s.server[i]) : i \in DOMAIN s.server} \cup {FormatToken(s.name)}
                   \cup UNION {ItemTextsWritten(s.items[i]) : i \in DOMAIN s.items})

\* A percent sign in one of them is taken for a verb.
WritesPercent(s) == \E t \in TextsWritten(s) : \E i \in DOMAIN t : t[i] \in {"percent", "missing", "//%", "//%d"}

\* A line comment behind a map's key: the code drops the comments of the key's first token only,
\* so that behind a pointer, a slice or a struct the comment swallows the bracket.
KeyComment(s) ==
    \E d \in TypesOf(s) : d.dt = "map" /\ Last(FormatDataType(StripFirst(d.key, TRUE, TRUE), TRUE)) \in LineComment

\* A comment between the braces of a service without routes: the closing one follows on its line.
CommentInEmptyService(s, classes) ==
    /\ s.kind = "service"
    /\ s.items = << >>
    /\ \E i \in DOMAIN (s.lbrace.lead \o s.rbrace.head) : (s.lbrace.lead \o s.rbrace.head)[i].c \in classes

KnownLosses(ast, classes) ==
    {why \in {"percent", "key", "empty"} : \E i \in DOMAIN ast :
        \/ why = "percent" /\ WritesPercent(ast[i])
        \/ why = "key" /\ KeyComment(ast[i])
        \/ why = "empty" /\ CommentInEmptyService(ast[i], classes)}

KnownLoss(raw, classes) == KnownLosses(Parse(raw).node, classes)

-----------------------------------------------------------------------------
(* Properties *)

Commented(toks) == \E i \in DOMAIN toks : toks[i].c \in Comment
Layout(toks) == [i \in DOMAIN toks |-> [c |-> toks[i].c, breaks |-> i > 1 /\ toks[i].line > toks[i - 1].line]]

\* Unless the tool is known to change the file, and however often it is formatted, it declares
\* what the author declared: no comment swallows a token, and no line break is gone that tells
\* a name from an embedded type.
FormatKeepsMeaning ==
    runs > 0 => Meaning(text) = Meaning(source) \/ KnownLoss(source, LineComment) # {}

\* A formatted file is printed as it is, up to empty lines; a file with comments may have
\* to be formatted twice before it is, one with percent signs where WriteText meets them
\* never is.
FormatSettles ==
    [][File /\ runs > (IF Commented(source) THEN 1 ELSE 0)
          => Layout(text') = Layout(text) \/ "percent" \in KnownLoss(source, LineComment)]_vars

\* The comments above a statement, a type, a field, a key, a handler, a route or a closing
\* bracket are printed there again; in a service without routes they are drawn to the opening one.
CommentsAboveSurvive ==
    runs > 0 => NowhereFewer(CommentsAbove(text), CommentsAbove(source)) \/ KnownLoss(source, Comment) # {}

=============================================================================
