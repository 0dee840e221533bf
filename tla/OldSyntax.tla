----------------------------- MODULE OldSyntax ------------------------------
(***************************************************************************)
(* The parser that goctl uses with GOCTL_EXPERIMENTAL off: the lexer and the  *)
(* parser ANTLR generated in api/parser/g4/gen/api, with the checks its     *)
(* grammar calls (baseparser.go), and the visitor of api/parser/g4/ast.     *)
(* The first error reported ends it.  A rule is an operator of its name     *)
(* from the position before its first token to the position of its last     *)
(* one and the tree; trees have the shape those of ApiSyntax have.          *)
(*                                                                         *)
(* The rules are LL(1) but for a field, where the generated parser looks    *)
(* ahead as far as both of the field's alternatives go on.                  *)
(***************************************************************************)
EXTENDS ApiSyntax

-----------------------------------------------------------------------------
(* The lexer: characters that start no token are dropped without a word *)

Dropped == {",", ";", "..."} \cup Comment

Tok(text, line) == [text |-> text, line |-> line, head |-> << >>, lead |-> << >>]

\* LINE_VALUE: a colon takes the string after it, or else what follows on its line up to a
\* quote, comments and brackets included.  i is the position of the colon's token.
LineValueEnd(raw, i) ==
    LET Ends(k) == k > Len(raw) \/ raw[k].line > raw[i].line \/ raw[k].c \in Str \cup {"raw"}
        first == CHOOSE k \in (i + 1)..(Len(raw) + 1) : Ends(k) /\ \A m \in (i + 1)..(k - 1) : ~Ends(m)
    IN  IF first = i + 1 /\ first <= Len(raw) /\ raw[first].line = raw[i].line /\ raw[first].c \in Str
        THEN first ELSE first - 1

Classes(raw, from, to) == [k \in 1..(to - from + 1) |-> raw[from + k - 1].c]

RECURSIVE Lex(_, _)
Lex(raw, i) ==
    IF i > Len(raw) THEN <<Tok(<<"eof">>, 0)>>
    ELSE CASE raw[i].c \in Dropped -> Lex(raw, i + 1)
           [] raw[i].c \in Key \cup {":"} ->
                <<Tok(<<raw[i].c>>, raw[i].line),
                  Tok(<<"value">> \o Classes(raw, i + 1, LineValueEnd(raw, i)), raw[i].line)>>
                  \o Lex(raw, LineValueEnd(raw, i) + 1)
           [] raw[i].c = "/" /\ i < Len(raw) /\ raw[i + 1] = [c |-> ":", line |-> raw[i].line] ->
                <<Tok(<<"/:">>, raw[i].line)>> \o Lex(raw, i + 2)
           [] raw[i].c = "duration" ->
                <<Tok(<<"int">>, raw[i].line), Tok(<<"ident">>, raw[i].line)>> \o Lex(raw, i + 1)
           [] OTHER -> <<Tok(<<raw[i].c>>, raw[i].line)>> \o Lex(raw, i + 1)

ID == Ident \ {"returns"}

-----------------------------------------------------------------------------
(* baseparser.go *)

GolangKeyword == {"type", "import", "map", "func"}

\* The word is an ID that checkKeyword, isInterface and VisitBody accept.
IsName(t, s) == Peek(t, s) \in ID \ GolangKeyword

\* isNormal: the tokens on the line of the token after s, of which a line with a star in
\* front or with one word alone makes an embedded type.
OnLine(t, s) == SelectSeq(t, LAMBDA tok : tok.line = t[s + 1].line)

\* Mutant: a word alone makes a field as well.
IsNormalAlone(t, s) == Len(OnLine(t, s)) >= 1 /\ OnLine(t, s)[1].text # <<"*">>

IsNormal(t, s) == Len(OnLine(t, s)) > 1 /\ OnLine(t, s)[1].text # <<"*">>

\* isNormal reports a Go keyword that is alone on its line.
LoneKeyword(t, s) == Len(OnLine(t, s)) = 1 /\ Peek(t, s) \in GolangKeyword

-----------------------------------------------------------------------------
(* syntax, import, info *)

SyntaxLit(t, s) ==
    IF Advances(t, s, <<{"syntax"}, {"="}, Str \ {"zero"}>>)
    THEN Ok(s + 3, <<[kind |-> "syntax", toks |-> SubSeq(t, s + 1, s + 3)]>>) ELSE Error

\* checkImportValue refuses "".
ImportLit(t, s) ==
    IF Advances(t, s, <<{"import"}, Str \ {"zero"}>>)
    THEN Ok(s + 2, <<[kind |-> "literal", toks |-> SubSeq(t, s + 1, s + 2)]>>) ELSE Error

RECURSIVE ImportBlockValues(_, _)
ImportBlockValues(t, s) == IF Peek(t, s) \in Str \ {"zero"} THEN ImportBlockValues(t, s + 1) ELSE s

\* The strings from s to e.
ImportBlockOf(t, s, e) ==
    IF e > s /\ Peek(t, e) = ")"
    THEN Ok(e + 1, <<[kind |-> "imports", values |-> [i \in 1..(e - s) |-> <<t[s + i]>>]]>>) ELSE Error

ImportBlock(t, s) ==
    IF Advances(t, s, <<{"import"}, {"("}>>) THEN ImportBlockOf(t, s + 2, ImportBlockValues(t, s + 2)) ELSE Error

ImportSpec(t, s) == IF Peek(t, s + 1) = "(" THEN ImportBlock(t, s) ELSE ImportLit(t, s)

KvLit(t, s) ==
    IF Advances(t, s, <<Key, {"value"}>>)
    THEN Ok(s + 2, <<t[s + 1], [t[s + 2] EXCEPT !.text = Tail(@)]>>) ELSE Error

RECURSIVE KvLits(_, _, _)
KvLits(t, s, kvs) ==
    IF ~Advances(t, s, <<Key, {"value"}>>) THEN Ok(s, kvs) ELSE KvLits(t, s + 2, Append(kvs, KvLit(t, s).node))

\* At least one key with its value, in brackets.
KvGroup(t, s, kind) ==
    IF ~Advances(t, s, <<{kind}, {"("}, Key>>) THEN Error
    ELSE Then(Followed(t, KvLits(t, s + 2, << >>), {")"}),
              LAMBDA r : Ok(r.at + 1, <<[kind |-> kind, values |-> r.node]>>))

InfoSpec(t, s) == KvGroup(t, s, "info")
AtServer(t, s) == KvGroup(t, s, "@server")

-----------------------------------------------------------------------------
(* Types.  An alias, a struct inside a struct and time.Time parse, and the visitor refuses *)
(* each of them: here they do not parse.                                                    *)

VisitPointerType(star, name) == [dt |-> "pointer", toks |-> <<star>>, of |-> Base(name)]
VisitMapType(toks, key, value) == [dt |-> "map", toks |-> toks, key |-> Base(key), of |-> value]
VisitArrayType(toks, literal) == [dt |-> "slice", toks |-> toks, of |-> literal]

PointerType(t, s) ==
    IF Peek(t, s) = "*" /\ IsName(t, s + 1) THEN Ok(s + 2, VisitPointerType(t[s + 1], t[s + 2])) ELSE Error

\* The tokens of a type, whatever the checks say of its words; 0 if there is none.
RECURSIVE TypeEnd(_, _)
TypeEnd(t, s) ==
    CASE Peek(t, s) \in ID -> IF Peek(t, s + 1) # "[" THEN s + 1
                              ELSE IF Advances(t, s + 2, <<ID, {"]"}>>) THEN TypeEnd(t, s + 4) ELSE 0
      [] Peek(t, s) = "interface{}" -> s + 1
      [] Peek(t, s) = "*" -> IF Peek(t, s + 1) \in ID THEN s + 2 ELSE 0
      [] Peek(t, s) = "[" -> IF Peek(t, s + 1) = "]" THEN TypeEnd(t, s + 2) ELSE 0
      [] OTHER -> 0

RECURSIVE DataType(_, _)

\* checkKey wants one of Go's basic types; any is none.
MapType(t, s) ==
    IF ~Advances(t, s, <<{"map"}, {"["}, ID \ (GolangKeyword \cup {"any"}), {"]"}>>) THEN Error
    ELSE Then(DataType(t, s + 4), LAMBDA v : Ok(v.at, VisitMapType(SubSeq(t, s + 1, s + 2), t[s + 3], v.node)))

ArrayType(t, s) ==
    IF ~Advances(t, s, <<{"["}, {"]"}>>) THEN Error
    ELSE Then(DataType(t, s + 2), LAMBDA v : Ok(v.at, VisitArrayType(SubSeq(t, s + 1, s + 2), v.node)))

DataType(t, s) ==
    CASE Peek(t, s) = "interface{}" -> Ok(s + 1, Base(t[s + 1]))
      [] Peek(t, s) = "*"           -> PointerType(t, s)
      [] Peek(t, s) = "["           -> ArrayType(t, s)
      [] Peek(t, s) \in ID /\ Peek(t, s + 1) = "[" -> MapType(t, s)
      [] IsName(t, s) /\ Peek(t, s + 1) # "["      -> Ok(s + 1, Base(t[s + 1]))
      [] OTHER -> Error

VisitNormalField(name, dataType, tag) == [names |-> <<name>>, type |-> dataType, tag |-> tag]
VisitAnonymousFiled(dataType) == [names |-> << >>, type |-> dataType, tag |-> << >>]

NormalField(t, s) ==
    IF ~IsName(t, s) THEN Error
    ELSE Then(DataType(t, s + 1), LAMBDA d :
              IF Peek(t, d.at) = "raw" THEN Ok(d.at + 1, VisitNormalField(t[s + 1], d.node, <<t[d.at + 1]>>))
              ELSE Ok(d.at, VisitNormalField(t[s + 1], d.node, << >>)))

\* No check: an embedded type may be a Go keyword.
AnonymousFiled(t, s) ==
    CASE Advances(t, s, <<{"*"}, ID>>) ->
           Ok(s + 2, VisitAnonymousFiled(VisitPointerType(t[s + 1], t[s + 2])))
      [] Peek(t, s) \in ID -> Ok(s + 1, VisitAnonymousFiled(Base(t[s + 1])))
      [] OTHER -> Error

\* The tokens up to the closing brace are fields one way or another.
RECURSIVE CanClose(_, _)
CloseAfterTag(t, e) == e > 0 /\ CanClose(t, IF Peek(t, e) = "raw" THEN e + 1 ELSE e)
GoesOnNormal(t, s) == Peek(t, s) \in ID /\ CloseAfterTag(t, TypeEnd(t, s + 1))
GoesOnAnonymous(t, s) ==
    \/ Peek(t, s) \in ID /\ CanClose(t, s + 1)
    \/ Advances(t, s, <<{"*"}, ID>>) /\ CanClose(t, s + 2)
CanClose(t, s) == Peek(t, s) = "}" \/ GoesOnNormal(t, s) \/ GoesOnAnonymous(t, s)

\* The line decides where both alternatives go on; a name that must be a field's is refused
\* on a line of its own.
Field(t, s) ==
    CASE GoesOnNormal(t, s) /\ LoneKeyword(t, s) -> Error
      [] GoesOnNormal(t, s) /\ ~LoneKeyword(t, s) /\ IsNormal(t, s) -> NormalField(t, s)
      [] GoesOnAnonymous(t, s) -> AnonymousFiled(t, s)
      [] OTHER -> Error

RECURSIVE Fields(_, _, _)
Fields(t, s, elems) ==
    IF Peek(t, s) = "}" THEN Ok(s, elems)
    ELSE Then(Field(t, s), LAMBDA r : Fields(t, r.at, Append(elems, r.node)))

\* The classes have no word struct: the token between the name and the brace is left out.
VisitTypeStruct(name, lbrace, fields) ==
    [name |-> name, assign |-> << >>, type |-> [dt |-> "struct", toks |-> <<lbrace>>, elems |-> fields]]

TypeStruct(t, s) ==
    IF ~(IsName(t, s) /\ Peek(t, s + 1) = "{") THEN Error
    ELSE Then(Fields(t, s + 2, << >>), LAMBDA r : Ok(r.at + 1, VisitTypeStruct(t[s + 1], t[s + 2], r.node)))

\* A struct; an alias is parsed as well, to be refused by the visitor.
TypeLitBody(t, s) == TypeStruct(t, s)
TypeBlockBody(t, s) == TypeStruct(t, s)

VisitTypeLit(expr) == [kind |-> "type", expr |-> expr]
VisitTypeBlock(exprs) == [kind |-> "types", exprs |-> exprs]

TypeLit(t, s) ==
    IF Peek(t, s) # "type" THEN Error
    ELSE Then(TypeLitBody(t, s + 1), LAMBDA r : Ok(r.at, <<VisitTypeLit(r.node)>>))

RECURSIVE TypeBlockBodies(_, _, _)
TypeBlockBodies(t, s, exprs) ==
    IF Peek(t, s) = ")" THEN Ok(s, exprs)
    ELSE Then(TypeBlockBody(t, s), LAMBDA r : TypeBlockBodies(t, r.at, Append(exprs, r.node)))

TypeBlock(t, s) ==
    IF ~Advances(t, s, <<{"type"}, {"("}>>) THEN Error
    ELSE Then(TypeBlockBodies(t, s + 2, << >>), LAMBDA r : Ok(r.at + 1, <<VisitTypeBlock(r.node)>>))

TypeSpec(t, s) == IF Peek(t, s + 1) = "(" THEN TypeBlock(t, s) ELSE TypeLit(t, s)

-----------------------------------------------------------------------------
(* Services *)

\* The visitor wants both brackets or none.
VisitAtDoc(brackets) == brackets \in {<<FALSE, FALSE>>, <<TRUE, TRUE>>}

\* A string or keys with their values, from the token after lp on.
AtDocValue(t, s, lp) ==
    CASE Peek(t, lp) \in Str -> Ok(lp + 1, [kind |-> "literal", toks |-> <<t[s + 1], t[lp + 1]>>])
      [] Peek(t, lp) \in Key ->
           Then(KvLits(t, lp, << >>), LAMBDA r : Ok(r.at, [kind |-> "@doc", values |-> r.node]))
      [] OTHER -> Error

AtDoc(t, s) ==
    Then(AtDocValue(t, s, IF Peek(t, s + 1) = "(" THEN s + 2 ELSE s + 1), LAMBDA r :
         IF ~VisitAtDoc(<<Peek(t, s + 1) = "(", Peek(t, r.at) = ")">>) THEN Error
         ELSE Ok(IF Peek(t, r.at) = ")" THEN r.at + 1 ELSE r.at, r.node))

AtHandler(t, s) == IF Advances(t, s, <<{"@handler"}, ID>>) THEN Ok(s + 2, SubSeq(t, s + 1, s + 2)) ELSE Error

\* pathItem is at least one word or number.
RECURSIVE OldPathItem(_, _)
OldPathItem(t, s) == IF Peek(t, s) \in ID \cup {"int"} THEN OldPathItem(t, s + 1) ELSE s

\* "-" and another item, as often as the limit allows.
RECURSIVE DashItems(_, _, _)
DashItems(t, s, limit) ==
    CASE Peek(t, s) # "-" \/ limit = 0   -> s
      [] Peek(t, s + 1) \in ID \cup {"int"} -> DashItems(t, OldPathItem(t, s + 1), limit - 1)
      [] OTHER -> 0

\* A position of 0 stays 0.
RECURSIVE PathParts(_, _)
PathParts(t, s) ==
    CASE s = 0 \/ Peek(t, s) \notin {"/", "/:"} -> s
      [] s > 0 /\ Peek(t, s) \in {"/", "/:"} /\ Peek(t, s + 1) \in ID \cup {"int"} ->
           PathParts(t, DashItems(t, OldPathItem(t, s + 1), IF Peek(t, s) = "/" THEN Len(t) ELSE 1))
      [] OTHER -> 0

PathText(toks) ==
    Joined(FlattenSeq([i \in DOMAIN toks |-> IF toks[i].text = <<"/:">> THEN <<"/", ":">> ELSE toks[i].text]))

\* "/" alone, or parts.
PathTo(t, s, e) == IF e \in {0, s} THEN Error ELSE Ok(e, Tok(PathText(SubSeq(t, s + 1, e)), t[s + 1].line))
Path(t, s) ==
    PathTo(t, s, IF Peek(t, s) = "/" /\ Peek(t, s + 1) \notin ID \cup {"int"} THEN s + 1 ELSE PathParts(t, s))

\* VisitBody refuses Go keywords.
Body(t, s) ==
    CASE Advances(t, s, <<{"("}, {")"}>>) -> Ok(s + 2, SubSeq(t, s + 1, s + 2))
      [] Advances(t, s, <<{"("}, ID \ GolangKeyword, {")"}>>) -> Ok(s + 3, SubSeq(t, s + 1, s + 3))
      [] OTHER -> Error

\* VisitReplybody takes a name, and an array of names or of pointers.
VisitReplybody(d) ==
    \/ d.dt = "base" /\ d.toks[1].text # <<"interface{}">>
    \/ d.dt = "slice" /\ d.of.dt = "base" /\ d.of.toks[1].text # <<"interface{}">>
    \/ d.dt = "slice" /\ d.of.dt = "pointer"

Replybody(t, s) ==
    CASE Advances(t, s, <<{"returns"}, {"("}, {")"}>>) -> Ok(s + 3, SubSeq(t, s + 2, s + 3))
      [] Advances(t, s, <<{"returns"}, {"("}>>) /\ Peek(t, s + 2) # ")" ->
           Then(Followed(t, DataType(t, s + 2), {")"}), LAMBDA d :
                IF VisitReplybody(d.node) THEN Ok(d.at + 1, SubSeq(t, s + 2, d.at + 1)) ELSE Error)
      [] OTHER -> Error

VisitRoute(method, path, request, reply) == RouteOf(method, path, request, << >>, reply)

Route(t, s) ==
    IF Peek(t, s) \notin Method THEN Error
    ELSE Then(Path(t, s + 1), LAMBDA p :
         Then(IF Peek(t, p.at) = "(" THEN Body(t, p.at) ELSE Ok(p.at, << >>), LAMBDA q :
         Then(IF Peek(t, q.at) = "returns" THEN Replybody(t, q.at) ELSE Ok(q.at, << >>), LAMBDA a :
              Ok(a.at, VisitRoute(t[s + 1], p.node, q.node, a.node)))))

VisitServiceRoute(doc, handler, route) == [doc |-> doc, handler |-> handler, route |-> <<route>>]

VisitServiceApi(server, nameToks, routes) ==
    [kind |-> "service", server |-> server, items |-> routes,
     name |-> Tok(Joined([i \in DOMAIN nameToks |-> nameToks[i].text[1]]), nameToks[1].line)]

\* A handler in an @server of the route needs the key "handler", which the classes lack.
ServiceRoute(t, s) ==
    Then(IF Peek(t, s) = "@doc" THEN AtDoc(t, s) ELSE Ok(s, << >>), LAMBDA d :
    Then(AtHandler(t, d.at), LAMBDA h :
    Then(Route(t, h.at), LAMBDA r :
         Ok(r.at, VisitServiceRoute(IF d.at = s THEN << >> ELSE <<d.node>>, h.node, r.node)))))

RECURSIVE ServiceRoutes(_, _, _)
ServiceRoutes(t, s, items) ==
    IF Peek(t, s) = "}" THEN Ok(s, items)
    ELSE Then(ServiceRoute(t, s), LAMBDA r : ServiceRoutes(t, r.at, Append(items, r.node)))

\* Words with a dash or none behind each.
RECURSIVE ServiceName(_, _)
ServiceName(t, s) ==
    CASE Peek(t, s) \notin ID -> s
      [] Peek(t, s) \in ID /\ Peek(t, s + 1) = "-" -> ServiceName(t, s + 2)
      [] OTHER -> ServiceName(t, s + 1)

\* The name is from s + 2 to e.
ServiceBody(t, s, e, server) ==
    IF Peek(t, e) # "{" THEN Error
    ELSE Then(ServiceRoutes(t, e + 1, << >>),
              LAMBDA r : Ok(r.at + 1, <<VisitServiceApi(server, SubSeq(t, s + 2, e), r.node)>>))

ServiceApi(t, s, server) ==
    IF Advances(t, s, <<{"service"}, ID>>) THEN ServiceBody(t, s, ServiceName(t, s + 1), server) ELSE Error

\* Up to three words and empty braces are a type's as well, and types come first: match
\* then misses the word type.
LooksLikeStruct(t, s) == Advances(t, s, <<ID, ID, {"{"}, {"}"}>>) \/ Advances(t, s, <<ID, ID, ID, {"{"}, {"}"}>>)

ServiceSpec(t, s) ==
    IF Peek(t, s) # "@server"
    THEN IF LooksLikeStruct(t, s) THEN Error ELSE ServiceApi(t, s, << >>)
    ELSE Then(AtServer(t, s), LAMBDA a : ServiceApi(t, a.at, a.node))

-----------------------------------------------------------------------------
(* Whole files *)

Spec1(t, s) ==
    CASE Peek(t, s) = "syntax" -> SyntaxLit(t, s)
      [] Peek(t, s) = "import" -> ImportSpec(t, s)
      [] Peek(t, s) = "info"   -> InfoSpec(t, s)
      [] Peek(t, s) = "type"   -> TypeSpec(t, s)
      [] Peek(t, s) \in {"service", "@server"} -> ServiceSpec(t, s)
      [] OTHER -> Error

\* The loop of the rule api ends at the first token that starts no statement: what follows
\* is not looked at.
RECURSIVE Specs(_, _, _)
Specs(t, s, stmts) ==
    IF Peek(t, s) \notin ID \cup Key \cup {"@server"} THEN Ok(s, stmts)
    ELSE Then(Spec1(t, s), LAMBDA r : Specs(t, r.at, stmts \o r.node))

\* The result and whether the whole text was read.
ParsedOf(t, r) ==
    [at |-> r.at, node |-> IF Failed(r) THEN << >> ELSE r.node, whole |-> ~Failed(r) /\ Peek(t, r.at) = "eof"]

ParseTokens(t) == ParsedOf(t, Specs(t, 0, << >>))
OldParse(raw) == ParseTokens(Lex(raw, 1))

=============================================================================
