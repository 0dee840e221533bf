---------------------------- MODULE MCCachedModel ----------------------------
EXTENDS CachedModel

id == <<"id">>
a  == <<"a">>
b  == <<"b">>
ab == <<"a", "b">>

Column(name, type, unsigned, options) == [name |-> name, type |-> type, unsigned |-> unsigned, options |-> options]
Constraint(kind, columns) == [kind |-> kind, columns |-> columns]
Table(name, columns, constraints) == [name |-> name, columns |-> columns, constraints |-> constraints]

\* Tables to read: a primary key of each kind, a column with options of each kind, up to two
\* constraints beside it.
Second ==
    {Column(a, type, FALSE, options) : type \in {"bit", "varchar", "bool", "numeric", "decimal", "geometry"},
        options \in {{"nil"}, {"not null"}, {"comment"}, {"default"}, {"comment", "unique"}, {"comment", "key"}, {"not null", "primary"}}}
      \cup {Column(a, "bigint", TRUE, {option}) : option \in {"not null", "comment"}}

Others ==
    {<< >>, <<Constraint("unique", <<id>>)>>, <<Constraint("unique", <<b, a>>)>>,
     <<Constraint("unique", <<a>>), Constraint("unique", <<a>>)>>,
     <<Constraint("unique", <<ab>>), Constraint("unique", <<a, b>>)>>,
     <<Constraint("index", <<b>>), Constraint("unique", <<a, <<"x">> >>)>>}

ReadTables ==
    {Table(<<"t">>,
           <<Column(id, "bigint", FALSE, options), second, Column(b, "varchar", FALSE, {"not null"}), Column(ab, "bit", FALSE, {"not null"})>>,
           primary \o others) :
        options \in {{"nil"}, {"auto"}, {"auto", "primary"}}, second \in Second,
        primary \in {<< >>, <<Constraint("primary", <<id>>)>>, <<Constraint("primary", <<id, b>>)>>},
        others \in Others}

\* Tables to serve.
Users(auto, constraints) ==
    Table(<<"u">>, <<Column(id, "bigint", FALSE, auto), Column(a, "varchar", FALSE, {"not null"}), Column(b, "varchar", FALSE, {"not null"})>>,
          <<Constraint("primary", <<id>>)>> \o constraints)

\* A value of a may have the key of values of a and b.
TwoIndexes == Users({"auto"}, <<Constraint("unique", <<a>>), Constraint("unique", <<a, b>>)>>)

ServedTables ==
    {Users({"auto"}, <<Constraint("unique", <<a>>)>>), Users({"not null"}, <<Constraint("unique", <<b, a>>)>>),
     Users({"auto"}, <<Constraint("unique", <<id, a>>)>>), Users({"not null"}, << >>), TwoIndexes}

\* A table whose key has the name of one of the other table's.
UserA == Table(<<"u", "a">>, <<Column(b, "varchar", FALSE, {"not null"})>>, <<Constraint("primary", <<b>>)>>)
Broken == Table(<<"w">>, <<Column(b, "geometry", FALSE, {"not null"})>>, <<Constraint("primary", <<b>>)>>)

MCProjects ==
    {<< <<t>> >> : t \in ReadTables \cup ServedTables}
      \cup {<< <<Users({"not null"}, <<Constraint("unique", <<a, b>>)>>)>>, <<UserA>> >>, << <<UserA>>, <<Broken>> >>}

Option(from, cached, ignored, experimental) ==
    [from |-> from, cache |-> cached, strict |-> FALSE, ignored |-> ignored, experimental |-> experimental]
MCOptions ==
    {Option("ddl", TRUE, {}, TRUE), Option("ddl", FALSE, {}, FALSE), Option("mysql", TRUE, {}, TRUE), Option("pg", TRUE, {b}, TRUE)}

MCServed == {<<"u">>}
ClientSymmetry == Permutations(Clients)
\* The second value of a has the key of the first for both a and b, and either before the other
\* gives b and a the same key.
MCDefault == <<"b">>
MCValues == {MCDefault, <<"b", ":", "b", ":", "b">>}

=============================================================================
