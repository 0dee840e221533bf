------------------------------ MODULE MCApiCheck ------------------------------
(* Instances of ApiCheck: every import graph over a few paths, and projects of    *)
(* good files whose types and services collide or do not.                         *)
EXTENDS ApiCheck

CONSTANTS a, b, c, plain, dotted, v1, v2

MCPath == {a, b, c}

\* One file is imported under two spellings.
MCSpelledAs == [p \in Path |-> IF p = b THEN {plain, dotted} ELSE {plain}]

\* dir/part.api and part.api have one base name.
MCBaseOf == [p \in Path |-> IF p = a THEN "main" ELSE "part"]

MCBaseType == {"string", "any"}
MCOrder == <<"", "/a", "/b", "/v1", "Req", "Resp", "g1", "g2">>

Base(n) == [dt |-> "base", name |-> n]
AnyType == [dt |-> "any"]
Struct(elems) == [dt |-> "struct", elems |-> elems]
MapOf(key, d) == [dt |-> "map", key |-> key, of |-> d]
PointerTo(d) == [dt |-> "pointer", of |-> d]
SliceOf(d) == [dt |-> "slice", of |-> d]
ArrayOf(d, dots) == [dt |-> "array", of |-> d, dynamic |-> dots]

Type(name, at, elems) == [name |-> name, at |-> at, type |-> Struct(elems)]
Types(s) == [Nothing EXCEPT !.types = s]
Req == Type("Req", 1, <<Base("string")>>)

Route(handler, at, path) ==
    [handler |-> handler, handlerAt |-> at, method |-> "get", path |-> path, at |-> at + 1,
     request |-> None, response |-> None, comment |-> ""]
Service(server, routes) == [name |-> "api", server |-> server, routes |-> routes]
Services(s) == [Nothing EXCEPT !.services = s]

InG1 == <<<<"group", "g1">>, <<"prefix", "/v1">>>>
Bare == Services(<<Service(<< >>, <<Route(None, 5, "/a")>>)>>)
List == Service(InG1, <<Route("list", 5, "/a")>>)

\* Members of every kind; Gone is declared nowhere.
Members == {Base("any"), AnyType, [dt |-> "interface"], Base("Req"), Base("Gone"), Struct(<< >>), Struct(<<Base("Req")>>),
            MapOf(Base("string"), Base("Req")), MapOf(AnyType, Base("Req")), MapOf(PointerTo(Base("string")), AnyType),
            MapOf(Base("string"), Struct(<<AnyType>>)), PointerTo(AnyType), PointerTo(Base("Gone")), PointerTo(Struct(<< >>)),
            SliceOf(Base("Req")), SliceOf(MapOf(Base("string"), Struct(<< >>))),
            ArrayOf(Base("Req"), FALSE), ArrayOf(Base("Req"), TRUE), ArrayOf(PointerTo(Struct(<< >>)), FALSE)}

\* Every type expression of a member or a type, and its parts.
PartTypes == Members \cup {Base("string"), PointerTo(Base("string")), Struct(<<AnyType>>), MapOf(Base("string"), Struct(<< >>))}
MCTypeExpr == PartTypes \cup {Struct(<<d>>) : d \in PartTypes}

RootHolds ==
    {Nothing, Bare, [Bare EXCEPT !.twice = {"import"}], [Bare EXCEPT !.twice = {"info"}],
     Types(<<Req>>), Types(<<[Req EXCEPT !.at = 2]>>),
     Types(<<Type("Req", 1, << >>), Type("Resp", 2, << >>), Type("Req", 3, << >>)>>),
     Types(<<[Req EXCEPT !.type = Base("string")]>>),
     Services(<<List>>), Services(<<List, [List EXCEPT !.routes[1].at = 9, !.routes[1].handlerAt = 8]>>),
     Services(<<Service(<< >>, <<Route("second", 5, "/b"), Route("first", 8, "/a"), Route("third", 11, "/b")>>)>>)}
    \cup {Types(<<Type("Resp", 4, <<m>>)>>) : m \in Members}

Other(service) == [service EXCEPT !.name = "other"]
Takes(service, body) == [service EXCEPT !.routes[1].request = body]
Returns(service, body) == [service EXCEPT !.routes[1].response = body]

PartHolds ==
    {Nothing, Types(<<Req>>), Types(<<Req, [Req EXCEPT !.at = 2]>>),
     Types(<<Type("Resp", 3, <<Base("Req")>>), [Req EXCEPT !.at = 7]>>),
     Services(<<List>>), Services(<<[List EXCEPT !.routes[1].comment = "/* more */", !.routes[1].handler = "more"]>>),
     Services(<<Takes(List, [list |-> FALSE, name |-> "Req"])>>), Services(<<Takes(List, [list |-> TRUE, name |-> "Req"])>>),
     Services(<<Returns(Service(<<<<"group", "g2">>>>, <<Route("list", 5, "/a")>>), [list |-> TRUE, name |-> "Req"]),
                Service(<<<<"group", "g2">>, <<"group", "g1">>>>, <<Route("more", 9, "/b")>>)>>),
     Services(<<Other(List)>>), Services(<<Other(Service(<< >>, << >>))>>)}

Good(imports) == [p \in Path |-> [kind |-> "ok", syntax |-> v1, imports |-> {<<q, plain>> : q \in imports[p]}]]
None3 == [p \in Path |-> {}]
Shapes == {Good([None3 EXCEPT ![a] = {b, c}]), Good([None3 EXCEPT ![a] = {b}, ![b] = {c}]),
           Good([None3 EXCEPT ![a] = {b, c}, ![b] = {c}])}

MCHoldings(d) ==
    IF d \in Shapes
    THEN {[p \in Path |-> CASE p = a -> x [] p = b -> y [] p = c -> z]
            : x \in RootHolds, y \in PartHolds, z \in PartHolds}
    ELSE {[p \in Path |-> Nothing]}
=============================================================================
