# Verification of goctl

goctl is the code generator of the go-zero framework (this fork adds an `--auth`
generator). It reads an api, proto or SQL description, and writes a Go project, which
the user then edits and generates again. It is a command: most of its code maps text to
text, and what can go wrong between steps lies in what its runs leave on disk for the next
one, in the order in which it visits maps and files, and in a few goroutines. This
directory models those parts in TLA+, checks them with TLC and proves the main results with
TLAPS.

## The system

| part | state it keeps | operations | who uses it |
|---|---|---|---|
| api scanner, tokens (`pkg/parser/api/scanner`, `token`) | cursor, current character, line table | NextToken and its modes | parser |
| api parser (`pkg/parser/api/parser/parser.go`) | two-token window, errors, syntax tree | parseStmt and one method per construct | import resolution, format |
| import resolution (`parser/api.go`, `importstack`) | import stack, set of imported files, one activation per file | Parse, parseImportedAPI, parseReverse, mergeAPI | every api generator |
| api checks (`parser/analyzer.go`, `filter.go`) | names seen so far with their positions | check of types, services, handlers, routes, imports | import resolution |
| api go generator (`api/gogen`) | the files of a project, the backups in the temporary directory | DoGenProject, genXxx, backupAndSweep | `goctl api go`, `api new`, quickstart |
| template store (`util/pathx/file.go`, `tpl`, `Xxx/template.go`) | the template files of a home, in two layouts | init, clean, update, revert; LoadTemplate | all generators |
| environment store (`pkg/env`, `pkg/collection`) | a sorted map and the file `env` in goctl's home | init, readEnv, WriteEnv, Get | env command, installer, generators |
| tool installer (`pkg/goctl`, `pkg/downloader`, `pkg/protoc*`, `env/check.go`) | cached and installed binaries | Install, Download, Version, Prepare | env command, rpc generator, quickstart |
| rpc generator (`rpc`) | the files of a project | Generate and its GenXxx | `goctl rpc` |
| model generator (`model`) | tables, keys and indexes; the files of a model | Parse, ConvertDataType, genXxx | `goctl model` |
| migrate (`migrate`) | go.mod, the sources of a project | Migrate, rewriteFile, cancelOnSignals | `goctl migrate` |
| old antlr api parser (`api/parser`) | import list, tables of handlers, routes and types | Parse, invokeImportedApi, checks | `api format` and a few helpers |
| plugin, docker, kube, gateway, bug, compare, upgrade, config, other languages' generators | one process call or one template each | | |

How they interact: a generator calls Parse (scanner, parser, import resolution, checks), then
writes files, each through LoadTemplate of the template store, then (gogen) backs the api up
and formats it in place. The environment store is read at the start of every process; the
installer takes the cache directory from it. Processes share nothing but the disk.

What is hard, and the property that makes each part correct:

* import resolution visits imports in the order of a Go map. Its verdict and what it
  merges must not depend on it; each file is read once; a cycle is reported exactly if there is
  one; it ends.
* generators never overwrite what exists, except what they always regenerate. A run that fails
  or is killed leaves files that the next run takes for generated ones. A successful run
  must leave everything the api asks for, and never touch the user's edits.
* a template home has two layouts, and the choice between them is made anew by each step of
  a command from what is on disk. What a successful command promises must hold of what
  generators then read.
* the environment file is read at start and rewritten whole; processes can interleave or die.
* the syntax tree's printer moves comments and line breaks, and a line break decides what a
  field is. Formatting must not change what a file declares, for either of the two parsers
  that `GOCTL_EXPERIMENTAL` chooses between.
* a generated SQL model lists the keys to delete from a cache when it is generated and uses
  them while other services read and write. What the cache says must be what the table has.
* the installer trusts whatever is in its cache, and its version probe races a timer.

## Modules

| module | models | extends |
|---|---|---|
| `ApiImport` | import resolution | |
| `ApiCheck` | SelfCheck's filters over the merged files, and the Analyzer that makes the spec | `ApiImport` |
| `ApiCheck_proofs` | theorems about both | `ApiCheck`, `Unfolding` |
| `TemplateStore` | the template commands over the files of one home | |
| `TemplateStore_proofs` | theorems about it | `TemplateStore`, `Unfolding` |
| `GoGen` | the file pipeline of `goctl api go`, the auth files, the error codes | |
| `GoGen_proofs` | theorems about it | `GoGen` |
| `OrderedMap` | abstract: a map that remembers the order of its keys | |
| `SortedMap` | its implementation by a list and a Go map | instance of `OrderedMap` |
| `EnvStore` | goctl processes around the env file | operators of `OrderedMap` |
| `EnvStore_proofs` | theorems about the sorted map, with the refinement, and about the processes | `EnvStore`, `SortedMap`, `Unfolding` |
| `Scanner` | the scanner of api files, one NextToken call per step | |
| `TokenWindow` | the parser's two-token window over it and the sorting of comments | `Scanner` |
| `TokenWindow_proofs` | theorems about both | `TokenWindow`, `Unfolding` |
| `RpcGen` | the file pipeline of `goctl rpc protoc`, the search for the pb files | |
| `RpcGen_proofs` | theorems about it | `RpcGen`, `Unfolding` |
| `Unfolding` | lemmas: nonempty sets of natural numbers have a least element, bounded ones a greatest; what FlattenSeq computes | |
| `ApiSyntax` | the parser of api files, one operator per parse function | |
| `ApiFormat` | the Format functions of the syntax tree, the writer, the new scan of what is printed | `ApiSyntax` |
| `FormatTool` | `goctl api format` on a file that its author edits; what a file declares | `ApiFormat` |
| `OldSyntax` | the ANTLR parser, its lexer, its checks and its visitor | `ApiSyntax` |
| `TwoParsers` | both parsers over the file of `FormatTool` | `FormatTool`, `OldSyntax` |
| `SqlTable` | a table as parsed from its statement and as asked from a database | |
| `ModelGen` | the `goctl model` commands over one directory | `SqlTable` |
| `CachedModel` | services that use a generated model, on a database and a cache | `ModelGen` |
| `CachedModel_proofs` | theorems about both | `CachedModel`, `Unfolding` |
| `MC...` | instances for TLC | |

### ApiImport

`disk` says what each file is (missing, empty, blank, syntax or semantic error, api with a
syntax version and a set of imports spelled in some way). `stack` is the ImportStack,
`importSet` the `importSet` of the root API, `frames` the activations of parseReverse /
parseImportedAPI with the imports still to visit and the list of APIs collected. `ParseRoot` is
Parse up to the root's own checks; `TakeImport`, with its parts `ImportCycle`, `SkipImported`
and `EnterImport`, is one round of the loop over the import map, for whichever import Go's map
order gives; `MergeNext` is one round of mergeAPI in parseReverse; `ReturnNested` and
`ReturnRoot` are the two ways out of an activation. The `verdict` is what Parse returns: ok,
the error, `log.Fatalln` for a missing or empty file, or the panic on a file without a
statement. Left out: the checks within a file (they are a kind of file here) and the
checks over the merged API, which follow in `ApiCheck`.

### ApiCheck

`holds` gives each file its type and service declarations, with the place of each. When the
imports are merged, `SelfCheck` and `Convert2Spec` follow, over the statements in the order in
which the merge left them (`Top.parts`). `TypeExpr` is the set of type expressions that occur, with
their parts, over which the recursive checks are functions; `Order` has the strings that are sorted by. `Passes` is a filter: a text that was met at another
position is a duplicate, and a position has the base name of its file only. `Resolves` follows
checkTypeExprContext, `Converts` astTypeToSpec, `FindDefinedType` the search for the first type
of a name, `Sorted` sort.SliceStable. `spec` keeps which file each part comes from.
The outcome is compared with the project's declarations as a set, so the properties say what
the user sees: `ChecksIndependentOfOrder`, `SpecIsProjects`, and `GeneratorsMeetNamesOnce`.
The filters do not compare what the generators name things after, and the premises of
`GeneratorsMeetNamesOnce` say where they differ: they read the first value of a repeated `group` or `prefix`, the
Analyzer takes the last; they compare printed routes with bodies and comments, so two routes
that differ only there pass; declarations at one line and column of two files with one base name
pass. The prefix and the path are compared as a pair, never joined. An item that a closing brace
ended has no handler, and SelfCheck panics on it.

### TemplateStore

`store` is the contents of each template by directory, name and owner, `dirs` the directories
that exist, `version` the version of the binary, `cmd` the command that runs with its remaining
tasks (remove a file, create a file and write it, open or close a category), `dir` the
directory that the current task was given by GetTemplateDir. A command can stop anywhere
(`Fail`: an error or a kill), files can be edited between commands, and the binary can be
upgraded. `Loaded` is what LoadTemplate gives a generator.

### GoGen

A job is one call of genFile (or of genPolicyFile); `Jobs` is the set of all calls for an
api, by genXxx function, and `Precedes` is their order, loops over groups included. `Create`,
`Write` and `Skip` are genFile's two halves and its early return, `RemoveOld` the os.Remove of
genTypes and genRoutes; `KeepOld` is one that fails: its error is discarded, so that genFile takes the
old file for one that exists and the run succeeds with it (`kept` is history). `FileOf` maps a job to its file, including the collisions of auth files,
of middleware files and of handlers whose names differ in case only (`HandlerFile`). A file is missing, empty, edited by the user, or a text that remembers the
api and group it was generated from. `Interrupt` is a failed template, a failed write or a kill
at any point. Between runs the user edits, deletes and changes the api.

### SortedMap and OrderedMap

`kv` is the container/list of each map, `slice` the key-value slice each list element holds and
`keys` the Go map; several maps share the supply of elements. SetKV, SetExpression, Remove (`RemoveKey`) and
Reset are one action each (`Set` is a sequence of SetKV). Insert and Copy range over one map
while they set keys of another, possibly the same, so each round of their loop is a step
(`Iterate`) and `loop` is the place they have reached. `OrderedMap` says what the pair of
structures is for: one sequence of key-value pairs per map, in which a known key keeps its
place. The refinement mapping reads the slices along the list.

### EnvStore

A process starts (`Start`: init reads the file, honours four settings in it, fills in defaults
and adds what it finds itself), then ends or rewrites the file in the three steps in which
others can see it: `WriteEnv` checks the request and changes the process's map, `Truncate`
opens the file, `Flush` writes it; `CutWrite` and `End` are the ways to stop in between. Two
writers that have both truncated write over each other from the start of the file, so the end of the
longer text can show behind the shorter (`Behind`). `stale`, `settings` and `disturbed` are
history: who read before another's write was done, what atomic commands would have left,
and whether that comparison still makes sense. Values are abstracted to what init and WriteEnv tell
apart: the default, another good value, nothing, a bad one, the beginning of one.

### Scanner and TokenWindow

`data` is the text, `position` the cursor, `lines` the ends of the lines met so far, and
`scanned` remembers every token returned with the places it was taken from. `Scan` dispatches
as NextToken does; one operator stands for each scanning function, the duration functions
included (`Nano` to `Hour`; what may follow a unit is the matching `After...`). A word that
the scanner compares as a whole is one rune, and one keyword and one delimiter stand for those
treated alike, so columns count words as one. Newlines inside a document or a raw string are not
counted as lines, which the scanner's tests expect too. In `TokenWindow`, `Advance` and
`AdvanceToEof` are the first half of the parser's nextToken and `Peek` one turn of its loop
over comments; `node` is keyed by the token's type, text and position as in the code. The parser
may stop after any call, and does not go past EOF, ILLEGAL or an error.

### RpcGen

A call of Generate is a job of one file; `Calls` lists them in the order of Generate, with
`--multiple` one logic, server and client file per service and rpc. `FileOf` is where mkdir and
the name style put it, which is one place for names that differ in case; a client that would be in the pb files' own
directory gets one of its own (`PackageBase`). `fs` has a file's
references: the package imported, the methods a server has and the logic it calls, what main
registers. `pbs` are the pb files lying about; `RunProtoc` writes one at the proto's go_package
and `FindPbFile` takes the first one of its name in the walk. `Skip`, `Truncate`, `Write`,
`Fail` and the user's steps are as in GoGen. `before`, `done` and `torn` are history: the
files before the run, the request that succeeded, files a kill left empty.

### ApiSyntax, ApiFormat, FormatTool

A text is a sequence of tokens, by class, with their lines. `TokenNodes` is what nextToken
does to comments, and each parse function is an operator of its name from a position to the
position it leaves and the node. `ApiFormat` prints the tree as the Format functions do:
with comments at the head and at the end of tokens moved, dropped or stripped (`StripFirst`,
`NilInfix`), and with a line break between two nodes where the writer puts one (`BreakBefore`).
Where the code prints through `WriteText` the text is the format of Fprintf: a percent sign is a verb, printed
with (MISSING) behind it, and before a line break it takes the break (`Formatted`). Strings have three classes for
that (with a percent sign, empty, any other), and so have line comments ("//", "//%", "//%d" as they are printed
again); block comments, raw strings and names have none.
What is printed is read again (`Rescan`), where a line comment takes the rest of its line.
`FormatTool` edits the text and formats it (`File`): `source` is the file before the last
formatting. `Meaning` is what the tree says without positions and comments. Panics
and nil handlers that Format dereferences are outcomes (`Panic`, `Unprintable`). `KnownLosses` names what the tool changes: a percent sign in a text that
`WriteText` is given (`TextsWritten` says which: @doc, @server, the handler, a service's name, the braces of a struct,
the bracket of a type group, with their comments), a line comment behind a map's key, a comment in a service without routes. The
parser's tokens are those of the Scanner module, the texts here begin where those end.

### OldSyntax, TwoParsers

One operator per rule of the grammar as the generated parser executes it, with the checks
that `baseparser.go` runs inside the rules, and one per Visit function that decides something.
The lexer drops what starts no token and takes the rest of a line for a key's value. The
rules are LL(1) except for the fields of a struct, where the parser looks ahead to the closing
brace. `TwoParsers` asks of a file that both take: do they read the same (`SameMeaning`), and
may it be formatted with one goctl and read by another (`FormatKeepsReading`). `Plain` names
where they are known to differ: a key's value that does not fill its line, a field that does not
begin and end a line, an embedded type with a tag. The last two are misreadings by the old
parser, listed as hazards.

### SqlTable, ModelGen, CachedModel

A CREATE TABLE statement has columns with their options, and constraints. `Parse` follows
`parser.Parse`; `FindColumns`, `Convert` and `ConvertDataType` follow the questions to a database
that has run the statement. Each way has its own type table: `DeclaredTypes` for the types a statement
names, with and without GOCTL_EXPERIMENTAL, `commonMysqlDataTypeMapString` for those a database reports,
which renames what it was told (`MysqlNames`, `PostgreNames`) and whose names goctl renames again for PostgreSQL (`p2m`). `Accepted`
is what a database demands of a statement: one primary key, no column twice in the table or in a key, for PostgreSQL
nothing unsigned. `ReadAlike` says which statements both must describe alike, and so
names the differences: PRIMARY KEY or KEY behind a column, a column without options, index names
that collide (`KeyedAlike`), bool, numeric and PostgreSQL's decimal (`TypedAlike`). `ModelGen` runs `MysqlDDL` (file by file) and `DataSource` over one directory:
`dir` has for each table the generated model and the cache mode of the author's file, which is
written once. `CreateFails` stops after any of the files, in Go's order of the map: some tables have the new model then,
one maybe without the author's file. A model is its statements, with the columns computed when the service starts and
the values bound when it is generated, and its cache keys. `Build` starts services if the
package `Compiles`. In `CachedModel` the methods are the templates' and the steps between them
those of sqlc.CachedConn, which is not in the repository and modelled from its use: look up,
query, fill, execute, delete keys. Clients interleave, crash between steps, and the
cache loses keys. `calm` and `moved` are history: no write met another call halfway, and
whose values an update changed. A value is a sequence of strings, so that joining two of them with
":" in a key can be what joining two others is; a key is one sequence, of the names of the columns and the values.
`Plain` names the values that their index joins to no other key, `SharedKey` those that another index joins to the same.
Ids are numbers, so that the key of an id is never that of an index.
`WrittenAsTold` says what a statement owes its caller: every value under its column and no other row
touched, unless the database has one of three reasons to refuse it.

## Runs

| run | question | bounds |
|---|---|---|
| `import_graphs` | every graph on three files, every kind of file, two syntax versions, one file under two spellings; types and services that collide, do not resolve or do not convert | 3 files: enough for a cycle off the root, a diamond and a bad file at any place; declarations on a fan, a chain and a diamond of good files, 30 sets of them in the root and 11 in each of the others, which share a base name |
| `templates_homes` | a home named by default, with `--home` or in both ways: what init, clean, update, revert leave | two owners of one category, one upgrade, two edited templates at a time, any number of failures |
| `revert_kube_job` | the promise of revert for kube: violated | two templates |
| `gogen_grown` | runs, failures, edits, an api that changes; auth files that collide, error codes, a file that cannot be removed | two apis (a group "errors" whose handlers share a file, before a block without a group and one that is far enough for codes of its own; two groups with one auth file, the first outgrowing its codes), one failure, one file kept, two user steps: the failure tears a file, a user step brings the other api or repairs, and a run follows |
| `sorted_map` | two maps, any operations: list and Go map agree, the loops copy, the refinement | 2 maps, 2 keys, 2 values |
| `env_store` | two processes at a time, refused, killed and cut writes, an upgrade | 3 commands in all (two that overlap and one after them), 2 lines of another text behind one's own |
| `scanner_texts` | every text over four alphabets: positions true and ascending, durations, comments | comments to 6 runes, durations to 6 (three units, or two and a broken third), other tokens to 4, whole pieces to 5 (two commented lines) |
| `document_close` | what closes a document: violated | comments to 6 runes |
| `rpc_grown` | runs with and without `--multiple`, a failure, edits, a proto that changes and moves | four protos: an rpc that becomes a stream, namesakes, two services of one directory, a go_package before, behind and in the output directory |
| `format_edits` | edit and format again: what is declared stays, comments above declarations stay, the printed file is printed as it is | nine files with every construct; one word or comment, with a percent sign or without, put in or replaced anywhere, one line broken or joined |
| `two_parsers` | edit, format, read with both parsers | seven files, the same edits |
| `sql_models` | both ways to read a table agree; every write puts each value under its column; a quiet cache tells the truth | over a thousand tables of four columns with up to two further constraints; two runs with four sets of flags; any file of a package unwritten; two services, two calls, two ids, two values: the one that the database puts by itself, and one that joins to what another index has |

Deadlock checking is off where a system really stops: `ApiCheck` when Parse has returned,
`TokenWindow` when the text or the parse has, `TemplateStore`, `EnvStore`, `FormatTool`, `TwoParsers` and
`CachedModel` when the bounds on edits, upgrades, commands and calls are used up.

Fairness: `Terminates` (ApiImport) and `RunsEnd` (GoGen) assume weak fairness of the one
sequential process, which keeps running until it returns; nothing is assumed of the user,
of failures or of map order.

## Findings

Two runs show a difference between the code and its own comments; each one is quoted in
`PROJECT.json`.

* kube's RevertTemplate writes the deployment template whatever name it is given.
* scanDocument closes a document at any slash once it has met a star, not only at a star and a
  slash: a comment with a product and a quotient in it is cut in the middle.

Other places where the code does less than a user may expect are stated as exceptions in the
properties that hold otherwise, so that the exception is exact:

* `UpdateInstallsLatest` and `CleanDeletesAll` hold for homes with one layout. In a home with
  both, update cleans one directory and initialises the other, and clean leaves the second
  layout for the generators.
* `update -c api` finds gogen only: apigen has the same category and its template is not
  recreated (`Dispatch`, named in `UpdateInstallsLatest`).
* `GeneratorsMeetNamesOnce` leaves out what passes the filters: see `ApiCheck`. Groups of one name
  in different files are in map order in the spec (`SpecIsProjects`), so the error codes that
  gogen numbers by group may change from run to run.
* `FormatKeepsMeaning`, `FormatSettles`, `CommentsAboveSurvive` and `FormatKeepsReading` leave out files that have what
  `KnownLosses` names: percent signs (`WritesPercent`), for WriteText says that it writes the text and gives it to Fprintf
  as the format (`pkg/parser/api/ast/writer.go:358-361`), so that they are rewritten at each format again; a line
  comment behind the key of a map that is a pointer, a slice or a struct (`KeyComment`), which swallows the bracket; a comment between the braces of a service without routes
  (`CommentInEmptyService`), which swallows the closing one. TLC finds each property violated without each exception it has.
* `RegeneratedFresh`: a types.go or routes.go that could not be removed stays as it was, and the run succeeds.
* `ErrCodesDistinct` says exactly when two blocks of a generated auth/error.go share a code; blocks without a group have none.
* `SourcesAgree` leaves out, of the types, bool on MySQL, which is bool from a file and int64, as `model/sql/README.MD:355`
  has it, only from a database; numeric and decimal on PostgreSQL (which become int64), and
  numeric with GOCTL_EXPERIMENTAL, which a file may not have then and a database may (`TypedAlike`).
* `CacheTellsTruth` leaves two kinds of not-found marks to expire: of what the database gives a
  new row by itself, its id or the default of an ignored column (Insert deletes the key of id 0 and
  those of the data it was given), and of values an update gives a row (Update deletes
  the keys of the row as it was). It is stated for writes that no other call met halfway: a
  lookup that has queried before a write and fills after it does put an old row back. Values
  that share a key with others, of their index (`Plain`) or of another (`SharedKey`), are left out: the key of a
  unique index on (a) with the value "b:x:y" is that of one on (a, b) with x and y (`keys.go:87-92`), and FindOneByA
  returns the row that FindOneByAB cached.
* `WritesAsTold`: with `--ignore-columns` naming the primary key of a table whose database gives no
  ids, every Insert is refused.

## Proofs

`ApiCheck_proofs` proves, for any set of files and any import graph, from `ImportAssumption`
alone: the types (`TypeCorrect`), `FilesParsedOnce`, `OrderDoesNotMatter`,
`ReportedCycleIsReal` and `StackMirrorsCalls`. The properties speak of reachability in the graph
and are not inductive. `ImportInvariant` is: the files seen are those on the stack and those
finished; the finished ones are closed under import and acyclic; every import an activation has
passed is finished or is the next activation's file. A cycle is then found exactly when
an import is on the stack, and when the stack is empty everything reachable is finished.
Acyclicity is stated by a set-closure definition (every non-empty set of files has one that
imports none of the set), so that it needs no induction. `StatementsMergedOnce` (the property
`MergedExactlyOnce`) adds `HeldOnce`: of all the places that hold parts, in the activations and in the
nested APIs they have yet to merge, no two hold the same file. Entering a file adds one place for a
file that none held, a merge and a return only move places.

Of `ApiCheck` it proves, for any declarations in these files, from `CheckAssumption` (the order
names what is sorted by once, and no file declares two types at one place), that every run of Parse with its checks is a
run of the import resolution (`ChecksRunImports`), and all three properties. The root's parts stay
what the merge left (`MergedRootStays`), and the outcome is what SelfCheck and the Analyzer say of the
statements in that order (`OutcomeStays`). `ChecksTellTheProject` (`ChecksIndependentOfOrder`) then needs
that a filter's answer does not depend on the order: `PassesIfNoneTwice` shows that a filter accepts exactly
if no text stands at two positions, through the map it has built when it reaches each node
(`FilterStep`). `NamesMetOnce` (`GeneratorsMeetNamesOnce`) reads the same condition for the names the
generators use. `SpecTellsTheProject` (`SpecIsProjects`) is about the order that is left: `SortedKnown`
says of the stable sort that it keeps each element once, puts lower ranks first and equal ones as they
were, and `MergedInOrder` that the declarations of one file keep their order in the merged list.

`GoGen_proofs` proves, for any apis, file names, number of failures and of user steps:
`RunsAreComplete`, `TypesAndRoutesAreFresh`, `EmptyFilesExplained`, `RunsKeepEdits` and which blocks of a
generated auth/error.go have common codes, `ErrCodesOutgrown`. The invariant says what the finished jobs
of the current run have left on disk (`FinishedHasFile`), that the job at hand has an empty file
(`JobAtHand`), and that after the os.Remove of types.go or routes.go, if it did not fail, the file is missing and nothing else is next
(`RemovedIsMissing`), which needs the call order. `AuthFileIsFirst` (the property `AuthCovers`)
follows from `AuthFirst`: a generated auth file is the text of the first job for it, in the api it was
generated from, because later jobs, of this run and of others, find it there; so the job at hand
is the first for its file (`JobIsFirst`).

Of the sorted map `EnvStore_proofs` proves, for any maps, keys and values: `ListAndKeysAgree`, `LoopsCopy` and
`ImplementsTheOrderedMap`. The inductive invariant is that each list element's key leads back to
the element (`ListInKeys`), each mapped key is in the list (`KeysInList`), and an element
stands in one place of one list (`ElementsApart`); the refinement then follows operation by
operation (`SetToPuts`, `RemoveTakesOut`, `EmptiedResets`).

`TemplateStore_proofs` proves, for any owners, templates, homes, failures, edits and upgrades, from
`StoreAssumption`: the types, `EditsSurviveInit`, that init, clean and update keep their promises
(`OtherPromisesKept`), and, where every owner looks up the name it is told to revert (`Loose`
empty), all of `CommandsKeepPromises`. What a command has promised holds only at its end, so
the invariant says what the tasks done so far have left: `CommandRuns`, `TaskOpen` and `TasksLeft`
tie the task at hand to its command and to the directory it was given, `LayoutHeld` says when that
directory is the one the generators read, and `InitProgress`, `CleanProgress`, `UpdateProgress` and
`RevertProgress` say which templates are settled and which still have a task.

`RpcGen_proofs` proves, for any proto files, users and failed runs: the types, `RunGenerates`,
`PbIsOwnUnlessOlder` and `EditsSurvive`. The main part of the invariant (`FilesAsWanted`) is that
between two calls every file is what the calls before the current one make of the files before
the run, first come, first kept for logic and main, last overwrites for servers and clients; the
rest says which pb files there are (`PbsKnown`), that the package found is one of them
(`PbFound`), and that the call at hand is one of the run (`RunAtHand`). `RpcsServed` (the property
`EveryRpcServed`) reads the answer off that invariant at the end of a run: the last server call for a
file decides its methods, and for each of them the logic call has left a text (`IsLogicOf`); `EmptyTorn`
adds that a file is empty only since a run was cut off writing it.

Of the processes around the file it proves, for any settings, paths, writers, starts and cut-off writes, from
`EnvAssumption`: the inductive `StoreInvariant`, `ProcessesStartComplete` (`EnvComplete`),
`PathsWereChecked` (`PathsExisted`) and `LastValuesStand` (`CommandsAddUp`). `ReadEnv` folds over
the lines: that the fold's recursion has a solution for any number of lines follows from the least number
that would have none, and the lemmas say that it keeps the value of the last line of every key. The
invariant says that every map a process holds has each key once and only known keys (`EnvsSound`),
that the paths of the file and of the processes were there when a writer looked, are a default or
were cut off (`FileChecked`), that a process that has only started has asked for nothing (`NothingAsked`), and, until a stale
process writes or a write is cut off: that while one process rewrites the file all others have read
it before and are stale (`OneWriter`), that a process that is not stale has the last value of every
setting or the one it was asked for (`FreshEnvs`), and that whoever reads the file gets the settings
that the commands, one after the other, would have left (`AddsUp`).

`CachedModel_proofs` proves, for any tables, flags and values, any number of clients and calls, from
`ProjectAssumption` (the inputs are statements; whether a cache is asked for is a flag) and
`ServiceAssumption` (two numbers are not written alike, and without ":"): `ServicesStayTyped`, `ServicesWriteAsTold`,
`ServicesCacheTruth` and `SourcesTellAlike`. `Inv` is what every generated model is, whichever of the two ways its table was
read and however often the directory was written over (`GenInv`, `SoundModel`: the columns are distinct, the
primary key and the columns of the indexes are among them, the statements bind the values of the columns they
name in the same order, for PostgreSQL from the second place on), and that rows, entries and calls under way are of
the table that is served (`ServeInv`). `WritesAsTold` follows: a value's place in the list of columns, which is computed when the
service starts, is its place among the values bound when the code was generated. The cache's truth is not
inductive, because between a write and its deletions the cache does tell old things. `CalmInv` says that
it does so only of keys that some call is about to delete (`Pending`), and that what a
call has read and not yet filled in, or is about to list keys from, is still so (`Accurate`). For a write then
the keys it makes untrue must be among those the generated code lists, and no key of other values may
be the same: `JoinTells` shows that values without a separator can be told from what they are joined to,
by counting the separators up to each place. Between an index and the primary key `KeysApart` shows it for all values: behind the name of
a column and its separator an id has none (`OneSeparator`), and another index is left out where it has the key
(`SharedKey`). `SourcesTellAlike` needs of `Inv` only that the author's files hold
statements; the rest is about one statement. `FindColumns` goes by columns, in each column by indexes
in no particular order, so the columns of an index are scattered over what it returns. Each place of an index is
found exactly once (`FoundOnce`), with the column that is there (`PlaceHas`), and sorting by place restores the order
(`IndexOrdered`). On the other side `Entries` is what the columns and constraints with UNIQUE give
(`EntriesFrom`), and neither a shared name nor the name of the primary key loses one of them (`UniqueKeysAre`).
The two type tables give a column the same type for what `TypedAlike` leaves (`SameType`).
Both refuse the same statements, a primary key of several columns or an unknown type (`ParseErrorIs`, `PrimaryFound`).

`TokenWindow_proofs` proves, for texts of any length, from `TextAssumption`: `PositionsLeadBack`
(`PositionsTrue`) and `CommentsStayPlaced` (`CommentsKept`), each from an inductive invariant.
The scanner's, `ScanInv`, says what every call has met: white space from the end of the call before
up to a place that is not blank, and there a token that one of the scanning functions takes
(`CallMet`, with a lemma for each function, the thirteen of durations among them, which skip no
newline when what they have read turns out illegal); that
`lines` has one entry for each newline skipped (`LinesCounted`); and that a call that did not move
is repeated by all that follow (`StuckStays`), which is why two tokens other than "@" never are the
same key of `p.node`. The window's, `WindowInv`, adds which tokens have nodes and which token is current
(`WindowAt`), and, at every step and not only between calls, that each comment is in the one holder that
`Where` names for it and in no other (`CommentsPlaced`). A step of `nextToken` either moves all that one holder has
to another that is empty (`Moves`: the waiting comments to the peeked token's new node or to the
statements, the tail to the current token's node) or adds a new comment to one (`Gets`), and the
same step changes `Where` for just those comments.

`Unfolding` replaces the induction these proofs need ("the first call for this file", "the first
owner of this category", "the last line of this key", "the token after this comment"): the
intervals 0..i are finite sets, strict inclusion of finite sets is well-founded by the library's
theorem, and the smallest interval gives the least element. The greatest one follows from it. In the
same way `FlattenUnfolds` shows that FlattenSeq obeys its recursion for any number of sequences, and
`FlattenLays` that it lays them one after the other: each element stands where its sequence begins plus
its place in it.

Only model-checked:

- liveness: `Terminates`, `RunsEnd`;
- `DurationsExact`, whose reference definition folds over the text and sorts the units;
- the properties of `FormatTool` (the action property `FormatSettles` too) and `TwoParsers`: `ApiSyntax`, `ApiFormat`
  and `OldSyntax` are recursive descent over data, and the proofs would be
  inductions over recursive operators, which the prover does not offer.

`ParsedAtMostOnce` (ApiImport) is proved and not checked by a run.

## What could follow

1. gogen's backups: two goroutines, concurrent commands, names in seconds, the sweep.
2. The installer: cache and destination with failures.
3. The old parser's import recursion and its duplicate checks.

## Not modelled

The text that templates produce where no other file refers to it, other languages'
generators, flag parsing, and commands that make one process call. Of the parsers: what a
word of a class spells. Of the formatter: indentation and alignment. Of the sql generator: imports, tags,
table patterns, types beyond one of each kind (with a null type, without one, renamed by a database, told apart by the
two tables, unsupported), the
types of a configuration file. `PROJECT.json` lists every
component with its reason, and the hazards that no property covers with a note.
