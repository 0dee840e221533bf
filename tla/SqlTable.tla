------------------------------ MODULE SqlTable ------------------------------
(***************************************************************************)
(* How `goctl model` learns about a table, in two ways: Parse of            *)
(* model/sql/parser reads a CREATE TABLE statement, and FindColumns,        *)
(* Convert (model/sql/model) and ConvertDataType ask a running MySQL or     *)
(* PostgreSQL database.  Both end in the same description, from which the   *)
(* model is generated.                                                      *)
(*                                                                         *)
(* A name is the sequence of its words, <<"a", "b">> for a_b: joining names *)
(* with "_" and the camel case of names joined without a separator are both *)
(* the concatenation.  A CREATE TABLE statement is a record [name, columns, *)
(* constraints]; a column has options, "nil" for none at all.               *)
(***************************************************************************)
EXTENDS Integers, Sequences, SequencesExt, FiniteSetsExt, TLC

CONSTANT None      \* an error

\* No word holds the separator of a key, or the fields of the model would have no names.
Name == Seq(STRING \ {":"})

\* A CREATE TABLE statement.
ColumnDecl == [name : Name, type : STRING, unsigned : BOOLEAN, options : SUBSET STRING]
ConstraintDecl == [kind : {"primary", "unique", "index"}, columns : Seq(Name)]
Statement == [name : Name, columns : Seq(ColumnDecl), constraints : Seq(ConstraintDecl)]

-----------------------------------------------------------------------------
(* Types: converter/types.go *)

\* The Go types of the types that a statement names, without GOCTL_EXPERIMENTAL, ...
commonMysqlDataTypeMapInt ==
    [bit |-> "byte", tinyint |-> "int64", bigint |-> "int64", decimal |-> "float64",
     numeric |-> "float64", varchar |-> "string", bool |-> "bool", int8 |-> "int64"]

\* ... and of those a database reports.
commonMysqlDataTypeMapString ==
    [bool |-> "bool", tinyint |-> "int64", bigint |-> "int64", decimal |-> "float64",
     bit |-> "byte", varchar |-> "string", int8 |-> "int64"]

\* The types that the statement's parser knows, whose names are looked up among those that a
\* database reports.
commonMysqlDataTypeMap == {"bit", "tinyint", "bigint", "decimal", "numeric", "varchar", "bool", "int8"}

\* The Go types of a statement's types; a type that is not here is not supported.
DeclaredTypes(experimental) ==
    IF experimental
    THEN Restrict(commonMysqlDataTypeMapString, commonMysqlDataTypeMap \cap DOMAIN commonMysqlDataTypeMapString)
    ELSE commonMysqlDataTypeMapInt

\* The databases' own names of the declared types, and those that goctl gives PostgreSQL's.
MysqlNames == [bool |-> "tinyint", numeric |-> "decimal", int8 |-> "bigint"]
PostgreNames == [bigint |-> "int8", decimal |-> "numeric"]
p2m == [int8 |-> "bigint", numeric |-> "bigint"]

Renamed(type, names) == IF type \in DOMAIN names THEN names[type] ELSE type

ReportedType(type, from) ==
    IF from = "mysql" THEN Renamed(type, MysqlNames) ELSE Renamed(Renamed(type, PostgreNames), p2m)

NullType ==
    [int64 |-> "sql.NullInt64", float64 |-> "sql.NullFloat64", bool |-> "sql.NullBool", string |-> "sql.NullString"]

UnsignedType == [int64 |-> "uint64"]

Unsigned(type) == IF type \in DOMAIN UnsignedType THEN UnsignedType[type] ELSE type

\* A type without a null type stays as it is, and becomes unsigned without --strict.
MayConvertNullType(type, isDefaultNull, unsigned, strict) ==
    IF isDefaultNull /\ type \in DOMAIN NullType THEN NullType[type]
    ELSE IF unsigned /\ (strict \/ isDefaultNull) THEN Unsigned(type)
    ELSE type

-----------------------------------------------------------------------------
(* parser.Parse: from a file with CREATE TABLE statements *)

Primaries(t) ==
    FlattenSeq([i \in DOMAIN t.constraints |->
        IF t.constraints[i].kind = "primary" THEN <<t.constraints[i]>> ELSE <<>>])

\* Only a constraint of the table names the primary column, PRIMARY KEY behind a column
\* does not.
PrimaryColumn(t) == IF Primaries(t) = <<>> THEN <<>> ELSE Last(Primaries(t)).columns[1]

PrimaryColumnSet(t) ==
    {k.columns[1] : k \in Range(Primaries(t))}
      \cup {c.name : c \in {c \in Range(t.columns) : "primary" \in c.options}}

Entry(columns, suffix) == [index |-> FlattenSeq(columns) \o <<suffix>>, columns |-> columns]

\* What goes into uniqueKeyMap, in order: columns with UNIQUE or KEY, then constraints.
Entries(t) ==
    FlattenSeq([i \in DOMAIN t.columns |->
        LET c == t.columns[i] IN
        (IF "unique" \in c.options THEN <<Entry(<<c.name>>, "unique")>> ELSE <<>>)
          \o (IF "key" \in c.options THEN <<Entry(<<c.name>>, "idx")>> ELSE <<>>)])
    \o FlattenSeq([i \in DOMAIN t.constraints |->
        IF t.constraints[i].kind = "unique" THEN <<Entry(t.constraints[i].columns, "unique")>> ELSE <<>>])

\* The columns of uniqueKeyMap's entries: a later index of the same name replaces an earlier
\* one, those of the primary column go, and of two indexes on the same columns one does.
UniqueKeys(t) ==
    LET e == Entries(t)
        dropped == {PrimaryColumn(t) \o <<suffix>> : suffix \in {"idx", "unique"}}
    IN  {e[Max({k \in DOMAIN e : e[k].index = e[i].index})].columns :
           i \in {i \in DOMAIN e : e[i].index \notin dropped}}

\* convertColumns: a column without any option is not null.
IsDefaultNull(t, c) ==
    c.options # {"nil"} /\ c.options \cap {"not null", "default"} = {} /\ c.name # PrimaryColumn(t)

ParseError(t, experimental) ==
    \/ \E k \in Range(Primaries(t)) : Len(k.columns) > 1
    \/ Cardinality(PrimaryColumnSet(t)) > 1
    \/ \E c \in Range(t.columns) : c.type \notin DOMAIN DeclaredTypes(experimental)
    \/ \E columns \in UniqueKeys(t) : ~Range(columns) \subseteq {c.name : c \in Range(t.columns)}

\* A table whose primary column is not named is refused by genModel.
MissingPrimaryKey(t) == PrimaryColumn(t) \notin {c.name : c \in Range(t.columns)}

Parse(t, strict, experimental) ==
    IF ParseError(t, experimental) \/ MissingPrimaryKey(t) THEN None
    ELSE [name |-> t.name,
          primary |-> PrimaryColumn(t),
          auto |-> \E c \in Range(t.columns) : c.name = PrimaryColumn(t) /\ "auto" \in c.options,
          unique |-> UniqueKeys(t),
          fields |-> [i \in DOMAIN t.columns |->
             LET c == t.columns[i] IN
             [name |-> c.name,
              type |-> MayConvertNullType(DeclaredTypes(experimental)[c.type], IsDefaultNull(t, c), c.unsigned, strict)]]]

-----------------------------------------------------------------------------
(* The database: FindColumns, Convert and ConvertDataType *)

\* One primary key, no column twice in the table or in a key.
WellKeyed(t) ==
    /\ Len(Primaries(t)) + Cardinality({c \in Range(t.columns) : "primary" \in c.options}) = 1
    /\ IsInjective([i \in DOMAIN t.columns |-> t.columns[i].name])
    /\ \A k \in Range(t.constraints) :
         /\ k.columns # <<>>
         /\ IsInjective(k.columns)
         /\ Range(k.columns) \subseteq {c.name : c \in Range(t.columns)}

\* The statements a database runs.  PostgreSQL has no unsigned types.
Accepted(t, from) == WellKeyed(t) /\ (from = "pg" => \A c \in Range(t.columns) : ~c.unsigned)

\* What the database knows then: whether a column is nullable and has no default, and the
\* indexes, each with a name of its own.
DbDefaultNull(t, c) == c.options \cap {"not null", "default"} = {} /\ c.name \notin PrimaryColumnSet(t)

indexPri == <<"PRIMARY">>
NoIndex == <<>>    \* the index of a column that is in none

DbIndexes(t) ==
    {[index |-> indexPri, nonUnique |-> FALSE, columns |-> k.columns] : k \in Range(Primaries(t))}
    \cup {[index |-> indexPri, nonUnique |-> FALSE, columns |-> <<c.name>>] :
            c \in {c \in Range(t.columns) : "primary" \in c.options}}
    \cup {[index |-> <<"constraint", i>>, nonUnique |-> t.constraints[i].kind = "index", columns |-> t.constraints[i].columns] :
            i \in {i \in DOMAIN t.constraints : t.constraints[i].kind # "primary"}}
    \cup {[index |-> <<"column", i>>, nonUnique |-> FALSE, columns |-> <<t.columns[i].name>>] :
            i \in {i \in DOMAIN t.columns : "unique" \in t.columns[i].options}}

\* FindColumns and getColumns: one entry for each column and each index it is in, or one
\* without index.  seq is the column's place in the index.
FindColumns(t) ==
    FlattenSeq([i \in DOMAIN t.columns |->
        LET c == t.columns[i]
            own == {x \in DbIndexes(t) : c.name \in Range(x.columns)}
            Of(x) == [column |-> c, ordinal |-> i, index |-> x.index, nonUnique |-> x.nonUnique,
                      seq |-> CHOOSE s \in DOMAIN x.columns : x.columns[s] = c.name]
        IN  IF own = {}
            THEN <<[column |-> c, ordinal |-> i, index |-> NoIndex, nonUnique |-> FALSE, seq |-> 0]>>
            ELSE LET order == SetToSeq(own) IN [k \in DOMAIN order |-> Of(order[k])]])

\* Convert: the entries of each index.
Indexed(found, index) == FlattenSeq([i \in DOMAIN found |-> IF found[i].index = index THEN <<found[i]>> ELSE <<>>])

ConvertError(found) == Len(Indexed(found, indexPri)) # 1

UniqueIndexes(found) ==
    {Indexed(found, e.index) : e \in {e \in Range(found) : e.index \notin {NoIndex, indexPri} /\ ~e.nonUnique}}

\* Mutant: the columns of an index in the order of the table.
InTableOrder(entries) == [k \in DOMAIN entries |-> entries[k].column.name]

\* ConvertDataType sorts the columns of an index by their place in it.
ColumnsAt(entries, seq) ==
    FlattenSeq([k \in DOMAIN entries |-> IF entries[k].seq = seq THEN <<entries[k].column.name>> ELSE <<>>])
InIndexOrder(entries) ==
    FlattenSeq([seq \in 1..Max({e.seq : e \in Range(entries)}) |-> ColumnsAt(entries, seq)])

\* A unique index on the primary key alone is left out, as are second ones on the same columns.
ConvertDataType(t, from, strict) ==
    LET found == FindColumns(t)
        key == Indexed(found, indexPri)[1].column
        GoType(c) == commonMysqlDataTypeMapString[ReportedType(c.type, from)]
    IN  IF \/ ConvertError(found)
           \/ \E c \in Range(t.columns) : ReportedType(c.type, from) \notin DOMAIN commonMysqlDataTypeMapString
        THEN None
        ELSE [name |-> t.name,
              primary |-> key.name,
              auto |-> "auto" \in key.options,
              unique |-> {InIndexOrder(x) : x \in UniqueIndexes(found)} \ {<<key.name>>},
              fields |-> [i \in DOMAIN t.columns |->
                 LET c == t.columns[i] IN
                 [name |-> c.name,
                  type |-> MayConvertNullType(GoType(c), DbDefaultNull(t, c), c.unsigned, strict)]]]

-----------------------------------------------------------------------------
(* Agreement *)

\* Parse does not take PRIMARY KEY behind a column for the primary key, takes a column with KEY
\* for a unique index and a column without any option for one that is not null.  It also names
\* an index after its columns, so that the one of (a, b) is lost to one of (a_b), or with the
\* primary key's if that is a_b.
KeyedAlike(t) ==
    /\ WellKeyed(t)
    /\ \A c \in Range(t.columns) :
         /\ "primary" \notin c.options
         /\ c.options # {"nil"} \/ c.name = PrimaryColumn(t)
         /\ "key" \in c.options => "unique" \in c.options
    /\ \A e \in Range(Entries(t)) :
         /\ \A f \in Range(Entries(t)) : e.index = f.index => e.columns = f.columns
         /\ e.index = PrimaryColumn(t) \o <<"unique">> => e.columns = <<PrimaryColumn(t)>>

\* MySQL's bool is a tinyint, which becomes an int64, as do PostgreSQL's numeric and decimal,
\* and with GOCTL_EXPERIMENTAL the numeric of a statement is not supported.
TypedAlike(type, from, experimental) ==
    /\ type = "bool" => from = "pg"
    /\ type = "decimal" => from = "mysql"
    /\ type = "numeric" => from = "mysql" /\ ~experimental

\* The statements that both ways must read alike.
ReadAlike(t, from, experimental) ==
    /\ Accepted(t, from)
    /\ KeyedAlike(t)
    /\ \A c \in Range(t.columns) : TypedAlike(c.type, from, experimental)
=============================================================================
