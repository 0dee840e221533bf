------------------------------ MODULE ModelGen ------------------------------
(***************************************************************************)
(* `goctl model mysql ddl`, `goctl model mysql datasource` and `goctl model *)
(* pg datasource` (model/sql/command), run again and again over one output  *)
(* directory.  For every table they write a file with the generated model,  *)
(* each time anew, and a file for the author's own methods, if there is     *)
(* none.  A generated model is abstracted to its SQL statements, with the   *)
(* values bound to them, and its cache keys.                                *)
(***************************************************************************)
EXTENDS SqlTable

CONSTANTS Projects,    \* what an author may have: files of CREATE TABLE statements
          Options,     \* the flags, and GOCTL_EXPERIMENTAL: [from, cache, strict, ignored, experimental]
          MaxRuns      \* how often commands are run

VARIABLES files,       \* the author's files, which the database has run as well
          dir,         \* table name -> its two generated files, None for the author's if
                       \* it could not be written
          vars_go,     \* whether there is a vars.go
          job,         \* the command under way and the file it is at, or None
          runs         \* how many commands were started

genVars == <<files, dir, vars_go, job, runs>>

ASSUME ProjectAssumption ==
    /\ \A p \in Projects : p \in Seq(Seq(Statement)) /\ p # << >>
    /\ \A o \in Options : o.cache \in BOOLEAN

Tables == Range(FlattenSeq(files))
Names(d) == [i \in DOMAIN d.fields |-> d.fields[i].name]
Without(names, removed) == FlattenSeq([i \in DOMAIN names |-> IF names[i] \in removed THEN <<>> ELSE <<names[i]>>])

-----------------------------------------------------------------------------
(* The generated code *)

\* The columns of the statements, computed when the service starts (var.tpl).
AutoSet(d) == IF d.auto THEN {d.primary} ELSE {}
RowsExpectAutoSet(d, ignored) == Without(Names(d), AutoSet(d) \cup ignored)
RowsWithPlaceHolder(d, ignored) == Without(Names(d), {d.primary} \cup ignored)

\* The fields whose values are bound, listed when the code is generated.
GenInsert(d, o) ==
    [columns |-> RowsExpectAutoSet(d, o.ignored),
     values  |-> FlattenSeq([i \in DOMAIN d.fields |->
                   LET n == d.fields[i].name IN
                   IF n \in o.ignored \/ (n = d.primary /\ d.auto) THEN <<>> ELSE <<n>>])]

\* The fields that an update sets.
GenSet(d, o) ==
    FlattenSeq([i \in DOMAIN d.fields |->
        LET n == d.fields[i].name IN IF n \in o.ignored \/ n = d.primary THEN <<>> ELSE <<n>>])

\* Mutant: the primary key comes last for PostgreSQL as well.
GenUpdateKeyLast(d, o) ==
    [columns |-> RowsWithPlaceHolder(d, o.ignored),
     values  |-> GenSet(d, o) \o <<d.primary>>,
     first   |-> IF o.from = "pg" THEN 2 ELSE 1,
     where   |-> IF o.from = "pg" THEN 1 ELSE Len(RowsWithPlaceHolder(d, o.ignored)) + 1]

\* MySQL's ? are bound in order, with the primary key last; PostgreSQL's columns begin at $2
\* (builder.PostgreSqlJoin), and $1 is the primary key.
GenUpdate(d, o) ==
    [columns |-> RowsWithPlaceHolder(d, o.ignored),
     values  |-> IF o.from = "pg" THEN <<d.primary>> \o GenSet(d, o) ELSE GenSet(d, o) \o <<d.primary>>,
     first   |-> IF o.from = "pg" THEN 2 ELSE 1,
     where   |-> IF o.from = "pg" THEN 1 ELSE Len(RowsWithPlaceHolder(d, o.ignored)) + 1]

\* genCacheKey: the variable that holds the prefix has the words of the table and the columns.
VarLeft(d, columns) == d.name \o FlattenSeq(columns)

GenCacheKeys(d) == {<<d.primary>>} \cup d.unique

GenModel(d, o) ==
    [table |-> d, cache |-> o.cache, ignored |-> o.ignored, pg |-> o.from = "pg",
     insert |-> GenInsert(d, o), update |-> GenUpdate(d, o)]

\* Two indexes have the same FindOneBy method, or two keys of the tables the same variable.
DistinctMethods(d) == \A k1, k2 \in d.unique : FlattenSeq(k1) = FlattenSeq(k2) => k1 = k2
DistinctVars(ds) ==
    \A d1, d2 \in ds : \A k1 \in GenCacheKeys(d1), k2 \in GenCacheKeys(d2) :
        VarLeft(d1, k1) = VarLeft(d2, k2) => d1 = d2 /\ k1 = k2

\* The package compiles: the constructor in the author's file takes a cache if and only if
\* the one it calls does.
Compiles ==
    /\ vars_go
    /\ DOMAIN dir # {}
    /\ \A n \in DOMAIN dir : dir[n].custom = dir[n].gen.cache /\ DistinctMethods(dir[n].gen.table)
    /\ DistinctVars({dir[n].gen.table : n \in {n \in DOMAIN dir : dir[n].gen.cache}})

-----------------------------------------------------------------------------
(* The commands *)

\* The generated files of some tables, and the author's of those that have none.
WriteModels(generated, custom, o) ==
    dir' = [n \in DOMAIN dir \cup {d.name : d \in generated} |->
              [gen    |-> IF n \in {d.name : d \in generated}
                          THEN GenModel(CHOOSE d \in generated : d.name = n, o)
                          ELSE dir[n].gen,
               custom |-> IF n \in DOMAIN dir /\ dir[n].custom # None THEN dir[n].custom
                          ELSE IF n \in {d.name : d \in custom} THEN o.cache
                          ELSE None]]

\* createFile: descriptions ds of tables, under the options o.
CreateFile(ds, o) ==
    /\ WriteModels(ds, ds, o)
    /\ vars_go' = TRUE

\* Go takes the tables in any order.  When a file cannot be written, those before it have been,
\* and of the table it belongs to maybe the generated one.
CreateFails(ds, o) ==
    /\ \E done \in SUBSET ds : \E begun \in {{}} \cup {{d} : d \in ds \ done} : WriteModels(done \cup begun, done, o)
    /\ UNCHANGED vars_go

MysqlDDL(o) ==
    /\ job = None
    /\ runs < MaxRuns
    /\ o.from = "ddl"
    /\ job' = [options |-> o, at |-> 1]
    /\ runs' = runs + 1
    /\ UNCHANGED <<files, dir, vars_go>>

\* genFromDDL: the tables of a file.
Parsed(f, o) == {Parse(t, o.strict, o.experimental) : t \in Range(f)}

\* Each file is read and its models are written before the next one is read.
StartFromDDL(o, ds) ==
    \/ /\ None \in ds
       /\ job' = None
       /\ UNCHANGED <<dir, vars_go>>
    \/ /\ None \notin ds
       /\ CreateFile(ds, o)
       /\ job' = IF job.at = Len(files) THEN None ELSE [job EXCEPT !.at = @ + 1]
    \/ /\ None \notin ds
       /\ CreateFails(ds, o)
       /\ job' = None

FromDDL ==
    /\ job # None
    /\ StartFromDDL(job.options, Parsed(files[job.at], job.options))
    /\ UNCHANGED <<files, runs>>

\* fromMysqlDataSource and fromPostgreSqlDataSource: the tables of the database.
Converted(o) == {ConvertDataType(t, o.from, o.strict) : t \in Tables}

\* All tables of the database, each with a row in FindColumns' answer; nothing is written if
\* one of them cannot be converted.
DataSource(o) ==
    /\ job = None
    /\ runs < MaxRuns
    /\ o.from \in {"mysql", "pg"}
    /\ \A t \in Tables : Accepted(t, o.from)
    /\ runs' = runs + 1
    /\ LET ds == Converted(o) IN
       \/ None \in ds /\ UNCHANGED <<dir, vars_go>>
       \/ None \notin ds /\ (CreateFile(ds, o) \/ CreateFails(ds, o))
    /\ UNCHANGED <<files, job>>

GenInit ==
    /\ files \in Projects
    /\ dir = << >>
    /\ vars_go = FALSE
    /\ job = None
    /\ runs = 0

GenNext ==
    \/ \E o \in Options : MysqlDDL(o)
    \/ FromDDL
    \/ \E o \in Options : DataSource(o)

-----------------------------------------------------------------------------
(* Property *)

\* A statement that the database runs as well is described alike to the generator whether it
\* reads it from a file or asks the database, MySQL or PostgreSQL: the same primary key, unique
\* indexes with their columns in order, and fields with their types, but for what ReadAlike
\* names.  The files do not change with a run.
SourcesAgree ==
    runs = 0 => \A t \in Tables, from \in {"mysql", "pg"}, strict, experimental \in BOOLEAN :
        ReadAlike(t, from, experimental) => Parse(t, strict, experimental) = ConvertDataType(t, from, strict)

=============================================================================
