------------------------------ MODULE ApiSyntax ------------------------------
(***************************************************************************)
(* The recursive descent parser of pkg/parser/api/parser/parser.go.  A text *)
(* is a sequence of tokens with their lines, comments included; a token is  *)
(* abstracted to its class.  nextToken attaches the comments to the tokens, *)
(* and every parseXxx function becomes an operator of the same name that    *)
(* maps a position (the current token; the next one is the peeked one) to   *)
(* the position it leaves the parser at and the node it returns.            *)
(***************************************************************************)
EXTENDS Integers, Sequences, SequencesExt

None == "none"

\* Classes of identifiers: words the grammar looks for, Go keywords, all others.  A string
\* with a verb such as %d in it is "percent", and "missing" once (MISSING) is put behind it; a
\* line comment with a verb, so changed or not, is "//%d", one that ends with a percent sign "//%".
Keyword == {"type", "import", "map", "func"}
Method  == {"get", "post"}
Ident   == Keyword \cup Method \cup {"ident", "syntax", "info", "service", "returns", "any", "api"}
Str     == {"string", "zero", "percent", "missing"}   \* "zero" is the string ""
Key     == {"key", "summary"}          \* an identifier with its colon
LineComment == {"//", "//%", "//%d"}
Comment == LineComment \cup {"/*"}
Class   == Ident \cup Str \cup Key \cup Comment \cup
           {"raw", "int", "duration", "interface{}", "@server", "@doc", "@handler", "{", "}", "(", ")",
            "[", "]", "=", ",", ":", ";", "*", "-", "/", "..."}

-----------------------------------------------------------------------------
(* nextToken: comments go to the token before them if they are on its line, else to *)
(* the head of the token after them.                                                *)

\* The raw indices of the tokens that are not comments, and those around the k-th of them.
Code(raw) == SelectSeq([i \in DOMAIN raw |-> i], LAMBDA i : raw[i].c \notin Comment)
CodeBefore(code, k) == IF k = 1 THEN 0 ELSE code[k - 1]
CodeAfter(raw, code, k) == IF k = Len(code) THEN Len(raw) + 1 ELSE code[k + 1]

OffLine(comments, line) == SelectSeq(comments, LAMBDA c : c.line # line)
OnLineOf(comments, line) == SelectSeq(comments, LAMBDA c : c.line = line)

\* The comments from the token at raw index from on, which is 0 for the start of the file.
HeadComments(raw, from, i) ==
    OffLine(SubSeq(raw, from + 1, i - 1), IF from = 0 THEN 0 ELSE raw[from].line)

LeadingComments(raw, i, next) == OnLineOf(SubSeq(raw, i + 1, next - 1), raw[i].line)

TokenAt(raw, code, k) ==
    [text |-> <<raw[code[k]].c>>, line |-> raw[code[k]].line,
     head |-> HeadComments(raw, CodeBefore(code, k), code[k]),
     lead |-> LeadingComments(raw, code[k], CodeAfter(raw, code, k))]

\* The tokens as the parser sees them, with EOF at the end.
TokensAt(raw, code) ==
    [k \in DOMAIN code |-> TokenAt(raw, code, k)]
      \o <<[text |-> <<"eof">>, line |-> 0, lead |-> << >>,
            head |-> HeadComments(raw, CodeBefore(code, Len(code) + 1), Len(raw) + 1)]>>

TokenNodes(raw) == TokensAt(raw, Code(raw))

-----------------------------------------------------------------------------
(* Looking at tokens, and what a parse function returns *)

ClassAt(t, i) == IF i \in DOMAIN t THEN t[i].text[1] ELSE "eof"
Peek(t, s) == ClassAt(t, s + 1)

\* advanceIfPeekTokenIs, once for every set of pat.
Advances(t, s, pat) == \A i \in DOMAIN pat : ClassAt(t, s + i) \in pat[i]

\* A function returns nil with an error reported; it indexes an empty slice; it succeeds.
Error == [at |-> 0]
Panic == [at |-> -1]
Ok(s, node) == [at |-> s, node |-> node]
Failed(r) == r.at <= 0

\* Go on from r, unless it failed; fail unless one of the classes follows.
Then(r, Rest(_)) == IF Failed(r) THEN r ELSE Rest(r)
Followed(t, r, classes) == IF Failed(r) \/ Peek(t, r.at) \in classes THEN r ELSE Error

\* Tokens joined into one: the comments before the last one are dropped, and words with
\* nothing between them run together.
RECURSIVE Joined(_)
Joined(text) ==
    IF Len(text) < 2 THEN text
    ELSE IF text[1] \in Ident /\ text[2] \in Ident THEN Joined(<<"ident">> \o SubSeq(text, 3, Len(text)))
    ELSE <<text[1]>> \o Joined(Tail(text))

JoinTokens(toks) ==
    [text |-> Joined([i \in DOMAIN toks |-> toks[i].text[1]]), line |-> toks[1].line,
     head |-> << >>, lead |-> Last(toks).lead]

-----------------------------------------------------------------------------
(* Keys and values *)

\* sep and an identifier, again and again; 0 if an identifier is missing.
RECURSIVE Chain(_, _, _)
Chain(t, s, sep) ==
    IF Peek(t, s) # sep THEN s
    ELSE IF ~Advances(t, s, <<{sep}, Ident>>) THEN 0
    ELSE Chain(t, s + 2, sep)

\* "/" and an identifier or abc-efg, again and again.
RECURSIVE Segments(_, _)
Segments(t, s) ==
    IF Peek(t, s) # "/" THEN s
    ELSE IF ~Advances(t, s, <<{"/"}, Ident>>) THEN 0
    ELSE IF Peek(t, s + 2) # "-" THEN Segments(t, s + 2)
    ELSE IF Advances(t, s + 2, <<{"-"}, Ident>>) THEN Segments(t, s + 4)
    ELSE 0

\* Where the value of an @server key ends.
AtServerValueEnd(t, s) ==
    CASE Peek(t, s) = "/" -> Segments(t, s)
      [] Peek(t, s) \in {"int", "duration"} -> s + 1
      [] Peek(t, s) \in Str -> IF ClassAt(t, s) = "summary" THEN s + 1 ELSE 0
      [] Peek(t, s) \in Ident ->
           (CASE Peek(t, s + 1) = "," -> Chain(t, s + 1, ",")
              [] Peek(t, s + 1) = "-" -> Chain(t, s + 1, "-")
              [] OTHER -> Segments(t, s + 1))
      [] OTHER -> 0

\* A position as a result; 0 is an error.
Upto(s) == [at |-> s]

ParseAtServerKVExpression(t, s) ==
    IF Peek(t, s) \notin Key THEN Error
    ELSE Then(Upto(AtServerValueEnd(t, s + 1)),
              LAMBDA e : Ok(e.at, <<t[s + 1], JoinTokens(SubSeq(t, s + 2, e.at))>>))

ParseKVExpression(t, s) ==
    IF Advances(t, s, <<Key, Str>>) THEN Ok(s + 2, <<t[s + 1], t[s + 2]>>) ELSE Error

RECURSIVE ParseKVs(_, _, _, _)
ParseKVs(t, s, kvs, atServer) ==
    IF Peek(t, s) = ")" THEN Ok(s, kvs)
    ELSE Then(Followed(t, IF atServer THEN ParseAtServerKVExpression(t, s) ELSE ParseKVExpression(t, s),
                       Key \cup {")"}),
              LAMBDA r : ParseKVs(t, r.at, Append(kvs, r.node), atServer))

\* info, @server and @doc with their parenthesised keys; s is the word before "(".
ParseKVGroup(t, s, kind) ==
    IF Peek(t, s) # "(" THEN Error
    ELSE Then(ParseKVs(t, s + 1, << >>, kind = "@server"),
              LAMBDA r : Ok(r.at + 1, [kind |-> kind, first |-> t[s], lparen |-> t[s + 1],
                                       values |-> r.node, rparen |-> t[r.at + 1]]))

ParseInfoStmt(t, s)     == ParseKVGroup(t, s, "info")
ParseAtServerStmt(t, s) == ParseKVGroup(t, s, "@server")

ParseAtDocStmt(t, s) ==
    CASE Peek(t, s) = "("   -> ParseKVGroup(t, s, "@doc")
      [] Peek(t, s) \in Str -> Ok(s + 1, [kind |-> "literal", toks |-> SubSeq(t, s, s + 1)])
      [] OTHER              -> Error

ParseSyntaxStmt(t, s) ==
    IF Advances(t, s, <<{"="}, Str>>) THEN Ok(s + 2, [kind |-> "syntax", toks |-> SubSeq(t, s, s + 2)])
    ELSE Error

RECURSIVE ParseImports(_, _, _)
ParseImports(t, s, values) ==
    IF Peek(t, s) = ")" THEN Ok(s, values)
    ELSE IF Peek(t, s) \in Str THEN ParseImports(t, s + 1, Append(values, <<t[s + 1]>>))
    ELSE Error

ParseImportStmt(t, s) ==
    CASE Peek(t, s) = "(" ->
           Then(ParseImports(t, s + 1, << >>),
                LAMBDA r : Ok(r.at + 1, [kind |-> "imports", first |-> t[s], lparen |-> t[s + 1],
                                         values |-> r.node, rparen |-> t[r.at + 1]]))
      [] Peek(t, s) \in Str -> Ok(s + 1, [kind |-> "literal", toks |-> SubSeq(t, s, s + 1)])
      [] OTHER -> Error

-----------------------------------------------------------------------------
(* Types *)

Base(tok) == [dt |-> "base", toks |-> <<tok>>]

RECURSIVE ParseDataType(_, _), ParseElemExprList(_, _, _), ParseNames(_, _, _)

\* A prefix of n tokens (a star, brackets) before another type.
ParsePrefixed(t, s, kind, n) ==
    Then(ParseDataType(t, s + n),
         LAMBDA r : Ok(r.at, [dt |-> kind, toks |-> SubSeq(t, s + 1, s + n), of |-> r.node]))

ParsePointerDataType(t, s) ==
    IF Peek(t, s + 1) \notin Ident \cup {"[", "interface{}", "*"} THEN Error
    ELSE ParsePrefixed(t, s, "pointer", 1)

ParseSliceDataType(t, s) == ParsePrefixed(t, s, "slice", 2)

ParseArrayDataType(t, s) ==
    IF Peek(t, s + 2) # "]" THEN Error ELSE ParsePrefixed(t, s, "array", 3)

ParseMapDataType(t, s) ==
    IF Peek(t, s + 1) # "[" THEN Error
    ELSE Then(Followed(t, ParseDataType(t, s + 2), {"]"}), LAMBDA k :
         Then(ParseDataType(t, k.at + 1), LAMBDA v :
              Ok(v.at, [dt |-> "map", toks |-> SubSeq(t, s + 1, s + 2), key |-> k.node, of |-> v.node])))

ParseStructDataType(t, s) ==
    Then(ParseElemExprList(t, s + 1, << >>), LAMBDA r :
         Ok(r.at + 1, [dt |-> "struct", toks |-> <<t[s + 1]>>, elems |-> r.node, rbrace |-> t[r.at + 1]]))

ParseDataType(t, s) ==
    CASE Peek(t, s) \in {"any", "interface{}"} -> Ok(s + 1, Base(t[s + 1]))
      [] Peek(t, s) = "{"        -> ParseStructDataType(t, s)
      [] Peek(t, s) = "map"      -> ParseMapDataType(t, s)
      [] Peek(t, s) \in Ident \ {"map", "any"} ->
           IF Peek(t, s) \in Keyword THEN Error ELSE Ok(s + 1, Base(t[s + 1]))
      [] Peek(t, s) = "[" /\ Peek(t, s + 1) = "]" -> ParseSliceDataType(t, s)
      [] Peek(t, s) = "[" /\ Peek(t, s + 1) \in {"int", "..."} -> ParseArrayDataType(t, s)
      [] Peek(t, s) = "*"        -> ParsePointerDataType(t, s)
      [] OTHER                   -> Error

\* The names of a field after the first one.
ParseNames(t, s, names) ==
    IF Peek(t, s) # "," THEN Ok(s, names)
    ELSE IF ~Advances(t, s, <<{","}, Ident \ Keyword>>) THEN Error
    ELSE ParseNames(t, s + 2, Append(names, t[s + 2]))

\* A word followed by a line break or by a tag is an embedded type, not a name.
Anonymous(t, s) ==
    Peek(t, s) \in Ident /\ (Peek(t, s + 1) = "raw" \/ (s + 2 \in DOMAIN t /\ t[s + 2].line > t[s + 1].line))

\* The names and the type of a field.
ParseElemType(t, s) ==
    CASE Peek(t, s) \in Keyword -> Error
      [] Advances(t, s, <<{"*"}, Ident>>) ->
           Ok(s + 2, [names |-> << >>, type |-> [dt |-> "pointer", toks |-> <<t[s + 1]>>, of |-> Base(t[s + 2])]])
      [] Anonymous(t, s) /\ Peek(t, s) \notin Keyword -> Ok(s + 1, [names |-> << >>, type |-> Base(t[s + 1])])
      [] Peek(t, s) \in Ident \ Keyword /\ ~Anonymous(t, s) ->
           Then(ParseNames(t, s + 1, <<t[s + 1]>>), LAMBDA n :
           Then(ParseDataType(t, n.at), LAMBDA d : Ok(d.at, [names |-> n.node, type |-> d.node])))
      [] OTHER -> Error

WithTag(field, tag) == [names |-> field.names, type |-> field.type, tag |-> tag]

\* A field: its names, its type and the tag.
ParseElemExpr(t, s) ==
    Then(Followed(t, ParseElemType(t, s), Ident \cup {"*", "}", "raw"}), LAMBDA r :
         IF Peek(t, r.at) = "raw" THEN Ok(r.at + 1, WithTag(r.node, <<t[r.at + 1]>>))
         ELSE Ok(r.at, WithTag(r.node, << >>)))

ParseElemExprList(t, s, elems) ==
    IF Peek(t, s) = "}" THEN Ok(s, elems)
    ELSE Then(Followed(t, ParseElemExpr(t, s), Ident \cup {"*", "}"}),
              LAMBDA r : ParseElemExprList(t, r.at, Append(elems, r.node)))

\* a is the token before the type: the name or "=".
ParseTypeAfter(t, s, a) ==
    Then(ParseDataType(t, a),
         LAMBDA r : Ok(r.at, [name |-> t[s + 1], assign |-> SubSeq(t, s + 2, a), type |-> r.node]))

ParseTypeExpr(t, s) ==
    IF Peek(t, s) \notin Ident \ Keyword THEN Error
    ELSE ParseTypeAfter(t, s, IF Peek(t, s + 1) = "=" THEN s + 2 ELSE s + 1)

RECURSIVE ParseTypeExprList(_, _, _)
ParseTypeExprList(t, s, exprs) ==
    IF Peek(t, s) = ")" THEN Ok(s, exprs)
    ELSE Then(Followed(t, ParseTypeExpr(t, s), Ident \cup {")"}),
              LAMBDA r : ParseTypeExprList(t, r.at, Append(exprs, r.node)))

ParseTypeStmt(t, s) ==
    CASE Peek(t, s) = "(" ->
           Then(ParseTypeExprList(t, s + 1, << >>),
                LAMBDA r : Ok(r.at + 1, [kind |-> "types", first |-> t[s], lparen |-> t[s + 1],
                                         exprs |-> r.node, rparen |-> t[r.at + 1]]))
      [] Peek(t, s) \in Ident ->
           Then(ParseTypeExpr(t, s), LAMBDA r : Ok(r.at, [kind |-> "type", first |-> t[s], expr |-> r.node]))
      [] OTHER -> Error

-----------------------------------------------------------------------------
(* Services *)

Stops == {"(", "returns", "@doc", "@handler", ";", "}"}

\* The rest of a path item: "-" and identifiers.
RECURSIVE PathItemEnd(_, _)
PathItemEnd(t, s) ==
    CASE Peek(t, s) \in Stops \cup {"/", "eof"} -> s
      [] Peek(t, s) = "-" -> IF Advances(t, s, <<{"-"}, Ident>>) THEN PathItemEnd(t, s + 2) ELSE 0
      [] Peek(t, s) \in Ident \ Stops -> PathItemEnd(t, s + 1)
      [] OTHER -> 0

ParsePathItem(t, s) == IF Peek(t, s) \in Ident \cup {"int"} THEN PathItemEnd(t, s + 1) ELSE 0

\* Where the path ends: at s itself if there is none.
RECURSIVE PathEnd(_, _), PathAfter(_, _)
PathEnd(t, s) ==
    CASE Peek(t, s) \in Stops -> s
      [] Peek(t, s) = "/" /\ Peek(t, s + 1) \in Stops -> s + 1
      [] Peek(t, s) = "/" /\ t[s + 1].lead = << >> /\ Peek(t, s + 1) \in Ident \cup {"int", ":"} ->
           PathAfter(t, ParsePathItem(t, IF Peek(t, s + 1) = ":" THEN s + 2 ELSE s + 1))
      [] OTHER -> 0

PathAfter(t, e) == IF e = 0 \/ Peek(t, e) \notin Stops \cup {"/"} THEN 0 ELSE PathEnd(t, e)

\* The path's position is that of values[0].
PathOf(t, s, e) ==
    CASE e = 0 -> Error
      [] e = s -> Panic
      [] OTHER -> Ok(e, JoinTokens(SubSeq(t, s + 1, e)))

ParsePathExpr(t, s) == PathOf(t, s, PathEnd(t, s))

Bodies == {<<{"("}, {")"}>>, <<{"("}, Ident, {")"}>>, <<{"("}, {"*"}, Ident, {")"}>>,
           <<{"("}, {"["}, {"]"}, Ident, {")"}>>, <<{"("}, {"["}, {"]"}, {"*"}, Ident, {")"}>>}

\* parseBodyStmt and parseBodyExpr.
ParseBodyStmt(t, s) ==
    IF \E p \in Bodies : Advances(t, s, p)
    THEN LET p == CHOOSE p \in Bodies : Advances(t, s, p) IN Ok(s + Len(p), SubSeq(t, s + 1, s + Len(p)))
    ELSE Error

SkipSemicolon(t, s) == IF Peek(t, s) = ";" THEN s + 1 ELSE s

RouteOf(method, path, request, returns, response) ==
    [method |-> method, path |-> path, request |-> request, returns |-> returns, response |-> response]

\* After the method and the path.
ParseRequest(t, s) ==
    CASE Peek(t, s) = "(" -> Followed(t, ParseBodyStmt(t, s), Stops \ {"("})
      [] Peek(t, s) \in Stops \ {"("} -> Ok(s, << >>)
      [] OTHER -> Error

ParseRouteBodies(t, s, method, path) ==
    Then(ParseRequest(t, s), LAMBDA q :
         IF Peek(t, q.at) # "returns"
         THEN Ok(SkipSemicolon(t, q.at), RouteOf(method, path, q.node, << >>, << >>))
         ELSE Then(ParseBodyStmt(t, q.at + 1), LAMBDA a :
                   Ok(SkipSemicolon(t, a.at), RouteOf(method, path, q.node, <<t[q.at + 1]>>, a.node))))

ParseRouteStmt(t, s) ==
    IF Peek(t, s) \notin Method THEN Error
    ELSE Then(ParsePathExpr(t, s + 1), LAMBDA p : ParseRouteBodies(t, p.at, t[s + 1], p.node))

\* After @doc: @handler, or whatever stands where the parser takes "}" for it.
ParseHandlerAndRoute(t, s, doc) ==
    CASE Peek(t, s) \notin {"@handler", "}"} -> Error
      [] Peek(t, s) \in {"@handler", "}"} /\ Peek(t, s + 1) = "}" ->
           Ok(s + 1, [doc |-> doc, handler |-> << >>, route |-> << >>])
      [] Advances(t, s, <<{"@handler", "}"}, Ident>>) ->
           Then(ParseRouteStmt(t, s + 2),
                LAMBDA r : Ok(r.at, [doc |-> doc, handler |-> SubSeq(t, s + 1, s + 2), route |-> <<r.node>>]))
      [] OTHER -> Error

ParseServiceItemStmt(t, s) ==
    IF Peek(t, s) # "@doc" THEN ParseHandlerAndRoute(t, s, << >>)
    ELSE Then(ParseAtDocStmt(t, s + 1), LAMBDA d : ParseHandlerAndRoute(t, d.at, <<d.node>>))

RECURSIVE ParseServiceItemsStmt(_, _, _)
ParseServiceItemsStmt(t, s, items) ==
    IF Peek(t, s) = "}" THEN Ok(s, items)
    ELSE Then(Followed(t, ParseServiceItemStmt(t, s), {"@doc", "@handler", "}"}),
              LAMBDA r : ParseServiceItemsStmt(t, r.at, Append(items, r.node)))

\* s is the word service, e the last token of the name, which may end with -api.
ParseServiceItems(t, s, e, server) ==
    IF Peek(t, e) # "{" THEN Error
    ELSE Then(ParseServiceItemsStmt(t, e + 1, << >>), LAMBDA r :
              Ok(r.at + 1, [kind |-> "service", server |-> server, first |-> t[s],
                            name |-> JoinTokens(SubSeq(t, s + 1, e)), lbrace |-> t[e + 1],
                            items |-> r.node, rbrace |-> t[r.at + 1]]))

ParseServiceBody(t, s, server) ==
    CASE Peek(t, s) \in Ident /\ Peek(t, s + 1) # "-" -> ParseServiceItems(t, s, s + 1, server)
      [] Advances(t, s, <<Ident, {"-"}, {"api"}>>)    -> ParseServiceItems(t, s, s + 3, server)
      [] OTHER -> Error

ParseService(t, s) ==
    IF ClassAt(t, s) # "@server" THEN ParseServiceBody(t, s, << >>)
    ELSE Then(Followed(t, ParseAtServerStmt(t, s), {"service"}),
              LAMBDA a : ParseServiceBody(t, a.at + 1, <<a.node>>))

-----------------------------------------------------------------------------
(* Statements *)

ParseStmt(t, s) ==
    CASE ClassAt(t, s) = "syntax" -> ParseSyntaxStmt(t, s)
      [] ClassAt(t, s) = "info"   -> ParseInfoStmt(t, s)
      [] ClassAt(t, s) = "type"   -> ParseTypeStmt(t, s)
      [] ClassAt(t, s) = "import" -> ParseImportStmt(t, s)
      [] ClassAt(t, s) \in {"service", "@server"} -> ParseService(t, s)
      [] OTHER -> Error

\* A comment that no token follows is a statement of its own.
CommentStmt(c) == [kind |-> "comment", c |-> c.c]

RECURSIVE ParseStmts(_, _, _)
ParseStmts(t, s, stmts) ==
    IF s = Len(t) THEN Ok(s, stmts \o [i \in DOMAIN t[s].head |-> CommentStmt(t[s].head[i])])
    ELSE Then(ParseStmt(t, s), LAMBDA r : ParseStmts(t, r.at + 1, Append(stmts, r.node)))

Parse(raw) == ParseStmts(TokenNodes(raw), 1, << >>)

=============================================================================
