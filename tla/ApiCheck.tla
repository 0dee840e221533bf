------------------------------- MODULE ApiCheck -------------------------------
(***************************************************************************)
(* What Parse does with the merged statements of a project: SelfCheck of    *)
(* pkg/parser/api/parser/api.go with the filters of filter.go, and the      *)
(* Analyzer, which makes of them the spec that the generators work on.      *)
(* The statements come in the order in which imports were resolved, that is *)
(* in the order of a Go map.                                                *)
(*                                                                         *)
(* A declaration keeps its place, the line and column of its name; the      *)
(* position that the filters compare has the base name of its file as well. *)
(***************************************************************************)
EXTENDS ApiImport, SequencesExt

CONSTANTS
    BaseOf,       \* filepath.Base of each path
    BaseType,     \* the names that IsBaseType accepts
    TypeExpr,     \* the type expressions of this instance, with their parts
    Order,        \* type names, @server values and route paths in the order of strings
    Holdings(_),  \* what this instance puts into the files of a project
    None

Name == ToSet(Order)
NoValue == ""

\* The statements of a file as its parser returns them.
TypeDecl == [name : Name, at : Nat, type : TypeExpr]
BodyExpr == [list : BOOLEAN, name : STRING]
RouteDecl == [handler : STRING \cup {None}, handlerAt : Nat, method : STRING, path : Name, at : Nat,
              request : BodyExpr \cup {None}, response : BodyExpr \cup {None}, comment : STRING]
ServiceDecl == [name : STRING, server : Seq(STRING \X Name), routes : Seq(RouteDecl)]
Statements == [twice : SUBSET {"import", "info"}, types : Seq(TypeDecl), services : Seq(ServiceDecl)]

\* No two types of a file have their names at one place.
OnePlaceEach(f) == \A i, k \in DOMAIN f.types : f.types[i].at = f.types[k].at => i = k

\* The order names every string that is sorted by, once; files hold statements.
ASSUME CheckAssumption ==
    /\ Order \in Seq(STRING)
    /\ \A i, k \in DOMAIN Order : Order[i] = Order[k] => i = k
    /\ NoValue \in Name
    /\ \A d \in [Path -> {f \in File : Canonical(f)}] :
         \A h \in Holdings(d) : h \in [Path -> Statements] /\ \A p \in Path : OnePlaceEach(h[p])

VARIABLES
    holds,    \* the statements of each file; no step changes them
    outcome,  \* how Parse has ended after the imports
    spec      \* the spec it returns; "from" and "nth" say where a part of it was declared

checkVars == <<holds, outcome, spec>>

Nothing == [twice |-> {}, types |-> << >>, services |-> << >>]
NoSpec == [types |-> << >>, groups |-> << >>]

CheckInit ==
    /\ Init
    /\ holds \in Holdings(disk)
    /\ outcome = "none"
    /\ spec = NoSpec

-----------------------------------------------------------------------------
(* The merged API *)

\* The declarations of a file, each with the file.
Declared(p, decls) == [k \in DOMAIN decls |-> [from |-> p, nth |-> k, decl |-> decls[k]]]

\* TypeStmt and ServiceStmts, one declaration after the other.
TypeStmt     == FlattenSeq([i \in DOMAIN Top.parts |-> Declared(Top.parts[i], holds[Top.parts[i]].types)])
ServiceStmts == FlattenSeq([i \in DOMAIN Top.parts |-> Declared(Top.parts[i], holds[Top.parts[i]].services)])

\* The routes of a service, or of all of them one after the other.
RoutesOf(s) == [k \in DOMAIN s.decl.routes |->
                  [from |-> s.from, of |-> s.nth, nth |-> k, service |-> s.decl, route |-> s.decl.routes[k]]]
RoutesOfAll(services) == FlattenSeq([i \in DOMAIN services |-> RoutesOf(services[i])])

Position(from, at) == <<BaseOf[from], at>>

\* getAtServerValue takes the first value of a key, convertKV the last one.
EntriesFor(server, key) == {i \in DOMAIN server : server[i][1] = key}
FirstValue(server, key) == LET at == EntriesFor(server, key) IN IF at = {} THEN NoValue ELSE server[Min(at)][2]
LastValue(server, key)  == LET at == EntriesFor(server, key) IN IF at = {} THEN NoValue ELSE server[Max(at)][2]

-----------------------------------------------------------------------------
(* SelfCheck *)

\* Mutant: a name that was met before is a duplicate only if it was met just before.
PassesNeighbours(nodes) == \A i \in 2..Len(nodes) : nodes[i].text = nodes[i - 1].text => nodes[i].pos = nodes[i - 1].pos

\* filterBuilder.check: no text that is in m with another position.
Passes(nodes) ==
    FoldLeft(LAMBDA b, n : IF n.text \in DOMAIN b.m /\ b.m[n.text] # n.pos
                           THEN [b EXCEPT !.ok = FALSE]
                           ELSE [b EXCEPT !.m = [x \in DOMAIN @ \cup {n.text} |-> IF x = n.text THEN n.pos ELSE @[x]]],
             [m |-> << >>, ok |-> TRUE], nodes).ok

\* The token nodes that are checked: a text and a position.
TypeNode(t) == [text |-> t.decl.name, pos |-> Position(t.from, t.decl.at)]

HandlerNode(r) ==
    [text |-> <<FirstValue(r.service.server, "group"), r.route.handler>>, pos |-> Position(r.from, r.route.handlerAt)]

\* The text of a route is its prefix and the whole printed line: bodies and comments too.
RouteNode(r) ==
    [text |-> <<FirstValue(r.service.server, "prefix"), r.route.method, r.route.path, r.route.request,
                r.route.response, r.route.comment>>,
     pos |-> Position(r.from, r.route.at)]

\* checkImportStmt and checkInfoStmt, for which only the statements of the root are left.
RootPasses == holds[Root].twice = {}

TypesPass(types) == Passes([i \in DOMAIN types |-> TypeNode(types[i])])

RoutesPass(routes) ==
    /\ Passes([i \in DOMAIN routes |-> HandlerNode(routes[i])])
    /\ Passes([i \in DOMAIN routes |-> RouteNode(routes[i])])

\* Mutant: each service gets a filter of its own.
ServicesPassEach(services) == \A i \in DOMAIN services : RoutesPass(RoutesOf(services[i]))

ServicesPass(services) == RoutesPass(RoutesOfAll(services))

\* An item that a closing brace ended has no handler, and its name is asked for.
HasBareItem(services) == \E r \in ToSet(RoutesOfAll(services)) : r.route.handler = None

\* checkTypeExprContext.
Resolves(known, type) ==
    LET resolves[d \in TypeExpr] ==
          CASE d.dt = "base"   -> d.name \in BaseType \cup known
            [] d.dt = "struct" -> \A i \in DOMAIN d.elems : resolves[d.elems[i]]
            [] d.dt = "map"    -> resolves[d.key] /\ resolves[d.of]
            [] d.dt \in {"pointer", "array", "slice"} -> resolves[d.of]
            [] OTHER -> TRUE
    IN  resolves[type]

Names(types) == {t.decl.name : t \in types}

\* checkTypeDeclareContext.
ContextPasses(types) == \A t \in types : Resolves(Names(types), t.decl.type)

SelfCheck ==
    LET types == TypeStmt
        services == ServiceStmts
    IN  /\ verdict = "merged"
        /\ outcome = "none"
        /\ outcome' = CASE ~RootPasses \/ ~TypesPass(types) -> "refused"
                        [] RootPasses /\ TypesPass(types) /\ HasBareItem(services) -> "panic"
                        [] OTHER -> IF ServicesPass(services) /\ ContextPasses(ToSet(types)) THEN "checked" ELSE "refused"
        /\ UNCHANGED <<holds, spec>>

-----------------------------------------------------------------------------
(* The Analyzer *)

ContainsStruct[d \in TypeExpr] ==
    CASE d.dt = "struct" -> TRUE
      [] d.dt = "map"    -> ContainsStruct[d.key] \/ ContainsStruct[d.of]
      [] d.dt \in {"pointer", "array", "slice"} -> ContainsStruct[d.of]
      [] OTHER -> FALSE

\* astTypeToSpec returns no error.  A pointer to any passes as one to a base type.
Converts[d \in TypeExpr] ==
    CASE d.dt \in {"base", "interface"} -> TRUE
      [] d.dt = "any"     -> FALSE
      [] d.dt = "struct"  -> d.elems # << >> /\ \A i \in DOMAIN d.elems : Converts[d.elems[i]]
      [] d.dt = "map"     -> d.key.dt \in {"base", "any"} /\ ~ContainsStruct[d.of] /\ Converts[d.of]
      [] d.dt = "pointer" -> d.of.dt = "any" \/ Converts[d.of]
      [] d.dt = "array"   -> ~d.dynamic /\ ~ContainsStruct[d.of] /\ Converts[d.of]
      [] d.dt = "slice"   -> ~ContainsStruct[d.of] /\ Converts[d.of]

\* fillTypeExpr takes structs only, and an empty one here.
TypeConverts(t) == t.type.dt = "struct" /\ \A i \in DOMAIN t.type.elems : Converts[t.type.elems[i]]

\* findDefinedType: the file of the first type of that name.
FindDefinedType(all, name) == all[CHOOSE i \in DOMAIN all : /\ all[i].decl.name = name
                                                          /\ \A k \in 1..(i - 1) : all[k].decl.name # name].from

\* A member or a body of a defined type, and where that was declared; other types need no file.
Ref(all, name) == IF name \notin BaseType THEN <<name, FindDefinedType(all, name)>> ELSE << >>

\* getType: a body of a known type, and no list as a request.
BodyConverts(names, body, isRequest) ==
    body # None => /\ isRequest => ~body.list
                   /\ body.name \in BaseType \cup names

\* fillService: and one name of all services with a route.
RoutesConvert(names, routes) ==
    /\ \A r \in routes : BodyConverts(names, r.route.request, TRUE) /\ BodyConverts(names, r.route.response, FALSE)
    /\ \A r, q \in routes : r.service.name = q.service.name

\* sort.SliceStable.
Having(s, key, name) == FlattenSeq([i \in DOMAIN s |-> IF s[i][key] = name THEN <<s[i]>> ELSE << >>])
Sorted(s, key) == FlattenSeq([i \in DOMAIN Order |-> Having(s, key, Order[i])])

SpecType(all, t) ==
    [name |-> t.decl.name, from |-> t.from,
     members |-> [i \in DOMAIN t.decl.type.elems |->
                    LET d == t.decl.type.elems[i] IN IF d.dt = "base" THEN Ref(all, d.name) ELSE << >>]]

BodyRef(all, body) == IF body = None THEN << >> ELSE Ref(all, body.name)

SpecRoute(all, r) ==
    [method |-> r.route.method, path |-> r.route.path, handler |-> r.route.handler, nth |-> r.nth,
     request |-> BodyRef(all, r.route.request), response |-> BodyRef(all, r.route.response)]

SpecGroup(all, s) ==
    LET routes == RoutesOf(s) IN
    [group |-> LastValue(s.decl.server, "group"), prefix |-> LastValue(s.decl.server, "prefix"),
     from |-> s.from, nth |-> s.nth,
     routes |-> Sorted([k \in DOMAIN routes |-> SpecRoute(all, routes[k])], "path")]

\* Mutant: the types are left as they were declared.
AnalyzedUnsorted(types, services) ==
    [types  |-> [i \in DOMAIN types |-> SpecType(types, types[i])],
     groups |-> Sorted([i \in DOMAIN services |-> SpecGroup(types, services[i])], "group")]

Analyzed(types, services) ==
    [types  |-> Sorted([i \in DOMAIN types |-> SpecType(types, types[i])], "name"),
     groups |-> Sorted([i \in DOMAIN services |-> SpecGroup(types, services[i])], "group")]

Convert2Spec ==
    LET types == TypeStmt
        services == ServiceStmts
    IN  /\ outcome = "checked"
        /\ IF /\ \A t \in ToSet(types) : TypeConverts(t.decl)
              /\ RoutesConvert(Names(ToSet(types)), ToSet(RoutesOfAll(services)))
           THEN outcome' = "accepted" /\ spec' = Analyzed(types, services)
           ELSE outcome' = "refused" /\ UNCHANGED spec
        /\ UNCHANGED holds

CheckNext ==
    \/ Next /\ UNCHANGED checkVars
    \/ (SelfCheck \/ Convert2Spec) /\ UNCHANGED vars

\* Only the fairness that Terminates needs.
CheckSpec == CheckInit /\ [][CheckNext]_<<vars, checkVars>> /\ WF_vars(Next)

-----------------------------------------------------------------------------
(* What the author of a project has declared, in no order *)

AllTypes(files) == UNION {ToSet(Declared(p, holds[p].types)) : p \in files}
AllServices(files) == UNION {ToSet(Declared(p, holds[p].services)) : p \in files}
RoutesIn(services) == UNION {ToSet(RoutesOf(s)) : s \in services}

\* What reads the same is at one place.
NoneTwice(nodes) == \A x, y \in nodes : x.text = y.text => x.pos = y.pos

GoodTypes(types) ==
    /\ NoneTwice({TypeNode(t) : t \in types})
    /\ ContextPasses(types)
    /\ \A t \in types : TypeConverts(t.decl)

GoodRoutes(routes, names) ==
    /\ NoneTwice({HandlerNode(r) : r \in routes})
    /\ NoneTwice({RouteNode(r) : r \in routes})
    /\ RoutesConvert(names, routes)

-----------------------------------------------------------------------------
(* Properties *)

\* What Parse says of the declarations of a project does not depend on the order in which Go
\* ranged over the imports: it panics on an item without handler unless it refuses the root's
\* imports or info or a type first, and accepts what is declared once and resolves.
ChecksIndependentOfOrder ==
    outcome \in {"refused", "panic", "accepted"} =>
      LET files == Reachable
          types == AllTypes(files)
          routes == RoutesIn(AllServices(files))
          bare == \E r \in routes : r.route.handler = None
      IN  /\ outcome = "panic" <=> RootPasses /\ NoneTwice({TypeNode(t) : t \in types}) /\ bare
          /\ outcome = "accepted" <=> RootPasses /\ ~bare /\ GoodTypes(types) /\ GoodRoutes(routes, Names(types))

RankOf(x) == CHOOSE i \in DOMAIN Order : Order[i] = x

\* The spec has every type, service and route of the project once, in an order that the
\* project alone decides, so that a second run generates the same: types by name, groups by
\* their group and routes by their path, else as in the file.  Groups of different files with
\* one group name, or none, are in the order of the map (and so are their error codes).
SpecIsProjects ==
    outcome = "accepted" =>
      LET files == Reachable
          types == AllTypes(files)
          services == AllServices(files)
      IN  /\ {<<t.name, t.from>> : t \in ToSet(spec.types)} = {<<t.decl.name, t.from>> : t \in types}
          /\ \A i, k \in DOMAIN spec.types : i < k =>
               /\ RankOf(spec.types[i].name) <= RankOf(spec.types[k].name)
               /\ spec.types[i].from = spec.types[k].from => spec.types[i].name # spec.types[k].name
          /\ {<<g.from, g.nth>> : g \in ToSet(spec.groups)} = {<<s.from, s.nth>> : s \in services}
          /\ \A i, k \in DOMAIN spec.groups : i < k =>
               LET g == spec.groups[i]
                   h == spec.groups[k]
               IN  \/ RankOf(g.group) < RankOf(h.group)
                   \/ g.group = h.group /\ (g.from # h.from \/ g.nth < h.nth)
          /\ \A g \in ToSet(spec.groups) :
               /\ {r.nth : r \in ToSet(g.routes)} = DOMAIN holds[g.from].services[g.nth].routes
               /\ \A k, n \in DOMAIN g.routes : k < n =>
                    LET r == g.routes[k]
                        q == g.routes[n]
                    IN  RankOf(r.path) < RankOf(q.path) \/ (r.path = q.path /\ r.nth < q.nth)

Properly(r, key) == FirstValue(r.service.server, key) = LastValue(r.service.server, key)
Together(r, q, key) ==
    /\ Properly(r, key) /\ Properly(q, key)
    /\ LastValue(r.service.server, key) = LastValue(q.service.server, key)
Bodies(r) == <<r.route.request, r.route.response, r.route.comment>>

\* The generators meet no name twice: no type, no handler in one group, whose file the second
\* one would not get, no route under one prefix, which the server refuses to start with.  It
\* takes declarations at one place of two files of one base name, an @server that gives its
\* group or prefix twice, or two routes that differ in a body or a comment, to get past the
\* filters.
GeneratorsMeetNamesOnce ==
    outcome = "accepted" =>
      LET files == Reachable
          types == AllTypes(files)
          routes == RoutesIn(AllServices(files))
      IN  /\ \A t, u \in types : TypeNode(t).pos # TypeNode(u).pos => t.decl.name # u.decl.name
          /\ \A r, q \in routes :
               /\ Together(r, q, "group") /\ HandlerNode(r).pos # HandlerNode(q).pos =>
                    r.route.handler # q.route.handler
               /\ Together(r, q, "prefix") /\ Bodies(r) = Bodies(q) /\ RouteNode(r).pos # RouteNode(q).pos =>
                    r.route.method # q.route.method \/ r.route.path # q.route.path

=============================================================================
