------------------------------ MODULE ApiFormat ------------------------------
(***************************************************************************)
(* `goctl api format`: Source of pkg/parser/api/format parses a text and    *)
(* prints the tree with the Format functions of pkg/parser/api/ast.  A      *)
(* printed text is a sequence of token classes, comments and line breaks;   *)
(* other white space is left out.  Read again it is a sequence of tokens,   *)
(* in which a line comment swallows what follows it on its line.            *)
(*                                                                         *)
(* A node, for the writer, is its text with the lines it had in the source  *)
(* and whether it begins or ends with comments.                             *)
(***************************************************************************)
EXTENDS ApiSyntax

NL == "\n"

Node(pos, end, head, lead, text) == [pos |-> pos, end |-> end, head |-> head, lead |-> lead, text |-> text]

CommentClasses(cs) == [i \in DOMAIN cs |-> cs[i].c]

-----------------------------------------------------------------------------
(* Token nodes *)

\* TokenNode.Pos and End: the first comment's line, the last comment's line.
TokPos(tok) == IF tok.head # << >> THEN tok.head[1].line ELSE tok.line
TokEnd(tok) == IF tok.lead # << >> THEN Last(tok.lead).line ELSE tok.line

\* Every comment of the head is on a line of its own.
FormatHead(cs) == FlattenSeq([i \in DOMAIN cs |-> <<cs[i].c, NL>>])

\* TokenNode.Format.
FormatToken(tok) == FormatHead(tok.head) \o tok.text \o CommentClasses(tok.lead)

\* transferTokenNode with ignoreHeadComment, ignoreLeadingComment or both.
NoHead(tok) == [tok EXCEPT !.head = << >>]

\* Mutant: the comments above go with those behind.
NoLeadNorHead(tok) == [tok EXCEPT !.lead = << >>, !.head = << >>]

NoLead(tok) == [tok EXCEPT !.lead = << >>]
NoComment(tok) == NoHead(NoLead(tok))

TokNode(tok) == Node(TokPos(tok), TokEnd(tok), tok.head # << >>, tok.lead # << >>, FormatToken(tok))

\* Mutant: a break of one line is not seen.
BreakBeforeTwoLines(nodes, i, sameLine) ==
    /\ i > 1
    /\ ~sameLine \/ nodes[i].head \/ nodes[i - 1].lead
    /\ nodes[i].pos > nodes[i - 1].end + 1

\* Writer.write puts a line break between two nodes that were on different lines, in mode
\* Auto, or whatever the mode if the one before ends or the other begins with comments.
BreakBefore(nodes, i, sameLine) ==
    /\ i > 1
    /\ ~sameLine \/ nodes[i].head \/ nodes[i - 1].lead
    /\ nodes[i].pos > nodes[i - 1].end

\* The i-th part of a text that Fprintf takes for its format, with no arguments: a verb is
\* printed with (MISSING) behind it, and the line break after a percent sign is a verb.
Formatted(text, i) ==
    LET broken == i < Len(text) /\ text[i] = "//%" /\ text[i + 1] = NL IN
    CASE text[i] \in {"percent", "missing"} -> <<"missing">>
      [] broken                             -> <<"//%d", NL, "(", "ident", ")">>
      [] text[i] = "//%" /\ ~broken         -> <<"//%d">>
      [] i > 1 /\ text[i] = NL /\ text[i - 1] = "//%" -> << >>
      [] OTHER -> <<text[i]>>

\* Writer.WriteText takes its text for a format.
WriteText(text) == FlattenSeq([i \in DOMAIN text |-> Formatted(text, i)])

Write(nodes, sameLine) ==
    FlattenSeq([i \in DOMAIN nodes |->
        (IF BreakBefore(nodes, i, sameLine) THEN <<NL>> ELSE << >>) \o nodes[i].text])

\* transferNilInfixNode: only the first head and the last leading comments are kept.
NilInfix(toks) ==
    LET first == toks[1]
        text  == FlattenSeq([i \in DOMAIN toks |-> toks[i].text])
    IN  Node(TokPos(first), IF Last(toks).lead # << >> THEN TokEnd(Last(toks)) ELSE TokPos(first),
             first.head # << >>, Last(toks).lead # << >>,
             FormatHead(first.head) \o text \o CommentClasses(Last(toks).lead))

-----------------------------------------------------------------------------
(* Data types *)

\* transfer2TokenNode's changes to the first token of a type.
StripFirst(d, head, lead) ==
    LET h == IF head THEN NoHead(d.toks[1]) ELSE d.toks[1]
        l == IF lead THEN NoLead(h) ELSE h
    IN  [d EXCEPT !.toks[1] = l]

RECURSIVE DataTypeEnd(_), DataTypeLead(_), FormatDataType(_, _)

\* End and HasLeadingCommentGroup of a type: those of its last part.
DataTypeEnd(d) ==
    CASE d.dt = "base"   -> TokEnd(d.toks[1])
      [] d.dt = "struct" -> TokEnd(d.rbrace)
      [] OTHER           -> DataTypeEnd(d.of)

DataTypeLead(d) ==
    CASE d.dt = "base"   -> d.toks[1].lead # << >>
      [] d.dt = "struct" -> d.rbrace.lead # << >>
      [] OTHER           -> DataTypeLead(d.of)

\* A type and the types it is made of.
RECURSIVE Parts(_)
Parts(d) ==
    {d} \cup (CASE d.dt = "base"   -> {}
                [] d.dt = "map"    -> Parts(d.key) \cup Parts(d.of)
                [] d.dt = "struct" -> UNION {Parts(d.elems[i].type) : i \in DOMAIN d.elems}
                [] OTHER           -> Parts(d.of))

ContainsStruct(d) == \E p \in Parts(d) : p.dt = "struct"

\* transfer2TokenNode of a type.
DataTypeNode(d) ==
    Node(TokPos(d.toks[1]), DataTypeEnd(d), d.toks[1].head # << >>, DataTypeLead(d), FormatDataType(d, FALSE))

\* Brackets, stars and the word map keep the head comments of the first token and drop the rest.
FormatPrefix(d) == FormatHead(d.toks[1].head) \o FlattenSeq([i \in DOMAIN d.toks |-> d.toks[i].text])

\* The Format functions; child is isChild, which a map sets for its key.
FormatMap(d, child) ==
    FormatPrefix(d) \o FormatDataType(StripFirst(d.key, TRUE, TRUE), TRUE) \o <<"]">>
                    \o FormatDataType(StripFirst(d.of, TRUE, child), FALSE)

FormatArray(d, child) == FormatPrefix(d) \o FormatDataType(StripFirst(d.of, TRUE, child), FALSE)
FormatPointer(d) == FormatPrefix(d) \o FormatDataType(StripFirst(d.of, TRUE, FALSE), FALSE)
FormatSlice(d)   == FormatPrefix(d) \o FormatDataType(StripFirst(d.of, TRUE, FALSE), FALSE)

\* The names of a field: comments before the first and after the last of several.
NamesNode(names) ==
    LET Kept(i) == CASE i = 1           -> NoLead(names[i])
                     [] i > 1 /\ i < Len(names) -> NoComment(names[i])
                     [] OTHER           -> NoHead(names[i])
        n == NilInfix([i \in DOMAIN names |-> Kept(i)])
    IN  [n EXCEPT !.text =
            FormatHead(Kept(1).head)
              \o FlattenSeq([i \in DOMAIN names |-> IF i = 1 THEN names[i].text ELSE <<",">> \o names[i].text])
              \o CommentClasses(Kept(Len(names)).lead)]

\* The type of a field: the node transfer2TokenNode makes of a type with a struct always says
\* that it ends with comments.
ElemTypeNode(d) == [DataTypeNode(d) EXCEPT !.lead = @ \/ ContainsStruct(d)]

\* A field inside StructDataType.Format.
FormatElem(e) ==
    Write((IF e.names = << >> THEN << >> ELSE <<NamesNode(e.names)>>)
            \o <<ElemTypeNode(e.type)>>
            \o (IF e.tag = << >> THEN << >> ELSE <<TokNode(e.tag[1])>>), TRUE)

FormatStruct(d) ==
    IF d.elems = << >> THEN FormatHead(d.toks[1].head) \o <<"{", "}">> \o CommentClasses(d.rbrace.lead)
    ELSE WriteText(FormatToken(d.toks[1])) \o <<NL>>
           \o FlattenSeq([i \in DOMAIN d.elems |-> FormatElem(d.elems[i]) \o <<NL>>])
           \o WriteText(FormatToken(d.rbrace))

FormatDataType(d, child) ==
    CASE d.dt = "base"    -> FormatToken(d.toks[1])
      [] d.dt = "map"     -> FormatMap(d, child)
      [] d.dt = "array"   -> FormatArray(d, child)
      [] d.dt = "pointer" -> FormatPointer(d)
      [] d.dt = "slice"   -> FormatSlice(d)
      [] d.dt = "struct"  -> FormatStruct(d)

FormatTypeExpr(e) ==
    Write(<<TokNode(e.name)>> \o [i \in DOMAIN e.assign |-> TokNode(e.assign[i])] \o <<DataTypeNode(e.type)>>, TRUE)

TypeExprNode(e) ==
    Node(TokPos(e.name), DataTypeEnd(e.type), e.name.head # << >>, DataTypeLead(e.type), FormatTypeExpr(e))

FormatTypeLiteral(s) == Write(<<TokNode(s.first), TypeExprNode(s.expr)>>, TRUE)

FormatTypeGroup(s) ==
    IF s.exprs = << >> THEN << >>
    ELSE Write(<<TokNode(s.first), TokNode(s.lparen)>>, TRUE) \o <<NL>>
           \o FlattenSeq([i \in DOMAIN s.exprs |-> FormatTypeExpr(s.exprs[i]) \o <<NL>>])
           \o WriteText(FormatToken(s.rparen))

-----------------------------------------------------------------------------
(* Keys and values, literals *)

IsZeroString(tok) == tok.text = <<"zero">>

\* A group without a value that is not "" is not printed.
Hollow(values) == \A i \in DOMAIN values : IsZeroString(Last(values[i]))

\* A line of a group: a key with its value, or an imported file.
FormatKV(kv) ==
    IF Len(kv) = 1 THEN FormatToken(kv[1]) \o <<NL>>
    ELSE Write(<<TokNode(NoLead(kv[1])), TokNode(kv[2])>>, TRUE) \o <<NL>>

\* info writes its parenthesis in mode Auto, the others on the same line.
FormatGroup(s) ==
    IF Hollow(s.values) THEN << >>
    ELSE Write(<<TokNode(NoLead(s.first)), TokNode(s.lparen)>>, s.kind # "info") \o <<NL>>
           \o FlattenSeq([i \in DOMAIN s.values |-> FormatKV(s.values[i])])
           \o FormatToken(s.rparen)

\* import and @doc with one string.
FormatLiteral(toks) ==
    IF IsZeroString(toks[2]) THEN << >>
    ELSE Write(<<TokNode(NoLead(toks[1])),
                 TokNode(IF toks[1].text = <<"@doc">> THEN NoHead(toks[2]) ELSE toks[2])>>, TRUE)

FormatSyntax(toks) ==
    Write(<<TokNode(NoLead(toks[1])), TokNode(NoLead(toks[2])), TokNode(toks[3])>>, TRUE)

-----------------------------------------------------------------------------
(* Services *)

HasBody(toks) == Len(toks) > 2

\* BodyStmt.Format: the parentheses with their comments, the type without all but its last.
FormatBody(toks) ==
    IF ~HasBody(toks) THEN << >>
    ELSE LET body == SubSeq(toks, 2, Len(toks) - 1)
             expr == [i \in DOMAIN body |-> IF i = Len(body) THEN body[i] ELSE NoComment(body[i])]
             text == FlattenSeq([i \in DOMAIN expr |-> FormatToken(expr[i])])
         IN  Write(<<TokNode(toks[1]),
                     Node(TokPos(body[1]), TokEnd(Last(body)), body[1].head # << >>, Last(body).lead # << >>, text),
                     TokNode(Last(toks))>>, TRUE)

BodyNode(toks) ==
    Node(TokPos(toks[1]), TokEnd(Last(toks)), toks[1].head # << >>, Last(toks).lead # << >>, FormatBody(toks))

\* PathExpr.Format ignores the comments, but they count for the line breaks.
PathNode(p) == [TokNode(p) EXCEPT !.text = p.text]

\* The parenthesis that ends a route loses the comments before it.
NoHeadAtEnd(toks) == [toks EXCEPT ![Len(toks)] = NoHead(toks[Len(toks)])]

\* Mutant: the empty response is looked at before the request.
FormatRouteNoRequest(r) ==
    LET method == TokNode(NoLead(r.method)) IN
    CASE r.response # << >> /\ HasBody(r.response) ->
           Write(<<method, PathNode(r.path), TokNode(r.returns[1]), BodyNode(NoHeadAtEnd(r.response))>>, TRUE)
      [] OTHER -> Write(<<method, TokNode(r.path)>>, TRUE)

\* RouteStmt.Format: an empty response is not printed, nor is an empty request.
FormatRoute(r) ==
    LET method == TokNode(NoLead(r.method)) IN
    CASE r.response # << >> ->
           Write(<<method, PathNode(r.path)>>
                   \o (IF r.request = << >> THEN << >> ELSE <<BodyNode(r.request)>>)
                   \o (IF HasBody(r.response) THEN <<TokNode(r.returns[1]), BodyNode(NoHeadAtEnd(r.response))>>
                       ELSE << >>), TRUE)
      [] r.response = << >> /\ r.request # << >> ->
           Write(<<method, PathNode(r.path), BodyNode(NoHeadAtEnd(r.request))>>, TRUE)
      [] OTHER -> Write(<<method, TokNode(r.path)>>, TRUE)

\* ServiceItemStmt.Format dereferences the handler and the route.
FormatAtDoc(d) == IF d.kind = "literal" THEN FormatLiteral(d.toks) ELSE FormatGroup(d)

FormatAtHandler(toks) == Write(<<TokNode(NoLead(toks[1])), TokNode(NoHead(toks[2]))>>, TRUE)

FormatServiceItem(i) ==
    (IF i.doc = << >> THEN << >> ELSE WriteText(FormatAtDoc(i.doc[1])) \o <<NL>>)
      \o WriteText(FormatAtHandler(i.handler)) \o <<NL>>
      \o FormatRoute(i.route[1]) \o <<NL>>

\* A line break after what is printed, if anything is.
Line(printed) == IF printed = << >> THEN << >> ELSE printed \o <<NL>>

\* ServiceNameExpr.Format.
NameNode(name) == [TokNode(name) EXCEPT !.text = WriteText(@)]

\* Nothing is put between the braces of a service without routes, not even a line break.
FormatService(s) ==
    (IF s.server = << >> THEN << >> ELSE Line(WriteText(FormatGroup(s.server[1]))))
      \o Write(<<TokNode(s.first), NameNode(s.name), TokNode(s.lbrace)>>, TRUE)
      \o (IF s.items = << >> THEN << >> ELSE <<NL>>)
      \o FlattenSeq([i \in DOMAIN s.items |-> FormatServiceItem(s.items[i])])
      \o FormatToken(s.rbrace)

-----------------------------------------------------------------------------
(* Whole files *)

FormatStmt(s) ==
    CASE s.kind = "syntax"  -> FormatSyntax(s.toks)
      [] s.kind = "literal" -> FormatLiteral(s.toks)
      [] s.kind \in {"info", "imports"} -> FormatGroup(s)
      [] s.kind = "type"    -> FormatTypeLiteral(s)
      [] s.kind = "types"   -> FormatTypeGroup(s)
      [] s.kind = "service" -> FormatService(s)
      [] s.kind = "comment" -> <<s.c>>

\* AST.Format: a statement that prints nothing is left out.
Format(ast) == FlattenSeq([i \in DOMAIN ast |-> Line(FormatStmt(ast[i]))])

\* The tree has an item that Format cannot print: it stops with a nil dereference.
Unprintable(ast) ==
    \E i \in DOMAIN ast : ast[i].kind = "service" /\ \E k \in DOMAIN ast[i].items : ast[i].items[k].handler = << >>

\* The printed text read by the scanner: lines are counted, and what follows // on its
\* line belongs to the comment.
Rescan(text) ==
    LET line == [i \in DOMAIN text |-> 1 + Cardinality({k \in 1..(i - 1) : text[k] = NL})]
        Swallowed(i) == \E k \in 1..(i - 1) : text[k] \in LineComment /\ line[k] = line[i]
        kept == SelectSeq([i \in DOMAIN text |-> i], LAMBDA i : text[i] # NL /\ ~Swallowed(i))
    IN  [k \in DOMAIN kept |-> [c |-> text[kept[k]], line |-> line[kept[k]]]]

=============================================================================
