----------------------------- MODULE CachedModel -----------------------------
(***************************************************************************)
(* The models that `goctl model` generates, at work: services built from    *)
(* the output directory call FindOne, FindOneByXxx, Insert, Update and      *)
(* Delete of one of them on a shared database and a shared cache.  The      *)
(* steps of a call are those of sqlc.CachedConn, which is not part of the   *)
(* repository: Take looks a key up and otherwise asks the database and      *)
(* fills the cache, Exec executes a statement and then deletes keys.        *)
(*                                                                         *)
(* Values are sequences of strings: they are joined with ":" in a key.      *)
(***************************************************************************)
EXTENDS ModelGen

CONSTANTS Served,      \* the tables whose models services use
          Clients,     \* the services' calls under way at a time
          Values,      \* what a column holds
          Default,     \* what the database puts where nothing is inserted
          MaxId,       \* how many ids there are
          MaxCalls     \* how many calls are made

VARIABLES model,       \* the generated model in use, or None
          rows,        \* the table: id -> column -> value
          lastId,      \* the last id the database gave to a row
          cache,       \* cache key -> [row], [id] or a mark for not found
          call,        \* client -> its call under way, or NoCall
          calls,       \* how many calls were made
          calm,        \* no write, nor its deletions, met another call halfway, and no
                       \* service crashed between a write and its deletions
          moved        \* the ids of rows whose values an update changed

appVars == <<model, rows, lastId, cache, call, calls, calm, moved>>
vars == <<genVars, appVars>>

Id(n) == <<ToString(n)>>
Ids == {Id(n) : n \in 1..MaxId}

Datum == Seq(STRING)

\* Two numbers are not written alike, and without the separator of a key.
ASSUME ServiceAssumption ==
    /\ \A v \in Values \cup {Default} : v \in Datum
    /\ MaxId \in Nat \ {0} /\ MaxCalls \in Nat
    /\ \A m, n \in 0..MaxId : Id(m) \in Datum /\ ":" \notin Range(Id(m)) /\ (Id(m) = Id(n) => m = n)

Primary == model.table.primary
Columns == Range(Names(model.table))
Indexes == model.table.unique

\* What a caller may pass: an id of 0 where the database gives it.
Data(id) == {r \in [Columns -> Values \cup {id}] : r[Primary] = id /\ \A f \in Columns \ {Primary} : r[f] \in Values}
NewRows == UNION {Data(id) : id \in (IF model.table.auto THEN {Id(0)} ELSE Ids)}

-----------------------------------------------------------------------------
(* Keys *)

JoinColon(values) == FlattenSeq([i \in DOMAIN values |-> IF i = 1 THEN values[1] ELSE <<":">> \o values[i]])

\* One string: behind the prefix of the table, which all keys of a model have, the names of the
\* columns and the values.
Key(columns, values) == JoinColon(columns) \o <<":">> \o JoinColon(values)
PrimaryKey(id) == Key(<<Primary>>, <<id>>)
DataKey(columns, row) == Key(columns, [i \in DOMAIN columns |-> row[columns[i]]])

IndexKeys(row) == {DataKey(columns, row) : columns \in Indexes}

\* The keys that genInsert, genUpdate and genDelete list: of the data given, of the data read
\* before, and of the id given with the data read before.
InsertKeys(data) == {PrimaryKey(data[Primary])} \cup IndexKeys(data)

\* Mutant: the keys of the indexes are left out.
UpdateKeysPrimary(old) == {PrimaryKey(old[Primary])}

UpdateKeys(old) == {PrimaryKey(old[Primary])} \cup IndexKeys(old)
DeleteKeys(id, old) == {PrimaryKey(id)} \cup IndexKeys(old)

-----------------------------------------------------------------------------
(* A call goes from step to step *)

Mark == [kind |-> "mark"]
RowEntry(r) == [kind |-> "row", row |-> r]
IdEntry(id) == [kind |-> "id", id |-> id]

NoCall == [op |-> "none", step |-> "idle"]

Call(op, step, data, columns) ==
    [op |-> op, step |-> step, data |-> data, columns |-> columns, id |-> data[Primary], got |-> Mark]

\* With the row of call's id, or a mark for it: a lookup is over, a write that has the data
\* it wants executes, one that has not fails.
Resume(k, entry) ==
    IF k.op \in {"find", "findBy"} \/ entry.kind = "mark" THEN NoCall
    ELSE [k EXCEPT !.step = "exec", !.got = entry]

\* The primary key is looked up in the cache.
Take(k) ==
    IF PrimaryKey(k.id) \in DOMAIN cache THEN Resume(k, cache[PrimaryKey(k.id)])
    ELSE [k EXCEPT !.step = "query"]

TakeIndex(k) ==
    LET key == DataKey(k.columns, k.data) IN
    IF key \notin DOMAIN cache THEN [k EXCEPT !.step = "queryIndex"]
    ELSE IF cache[key].kind = "mark" THEN NoCall
    ELSE Take([k EXCEPT !.id = cache[key].id])

Begin(c, k) ==
    /\ call[c] = NoCall
    /\ calls < MaxCalls
    /\ calls' = calls + 1
    /\ call' = [call EXCEPT ![c] = k]
    /\ UNCHANGED <<genVars, model, rows, lastId, cache, calm, moved>>

Step(c, from) == call[c].step = from
Goto(c, k) == call' = [call EXCEPT ![c] = k] /\ UNCHANGED <<genVars, model, calls>>

\* Only a model with a cache and unique indexes reads a row before it writes it.
ReadsFirst == model.cache /\ Indexes # {}

-----------------------------------------------------------------------------
(* The generated methods *)

\* The values of an index that a caller may ask for.
Asked(columns, f) == IF f \notin Range(columns) THEN {Default} ELSE IF f = Primary THEN Ids ELSE Values
Sought(columns) ==
    {r \in [Columns -> UNION {Asked(columns, f) : f \in Columns}] : \A f \in Columns : r[f] \in Asked(columns, f)}

FindOne(c) ==
    \E id \in Ids : model.cache /\ Begin(c, Take(Call("find", "take", [f \in Columns |-> id], << >>)))

FindOneByField(c) ==
    \E columns \in Indexes : \E data \in Sought(columns) :
        model.cache /\ Begin(c, TakeIndex(Call("findBy", "take", data, columns)))

Insert(c) == \E data \in NewRows : Begin(c, Call("insert", "exec", data, << >>))

Update(c) ==
    \E id \in Ids : \E data \in Data(id) :
        Begin(c, IF ReadsFirst THEN Take(Call("update", "take", data, << >>)) ELSE Call("update", "exec", data, << >>))

Delete(c) ==
    \E id \in Ids :
        LET data == [f \in Columns |-> id] IN
        Begin(c, IF ReadsFirst THEN Take(Call("delete", "take", data, << >>)) ELSE Call("delete", "exec", data, << >>))

-----------------------------------------------------------------------------
(* CachedConn: reading *)

Set(key, entry) == cache' = [k \in DOMAIN cache \cup {key} |-> IF k = key THEN entry ELSE cache[k]]

QueryPrimary(c) ==
    /\ Step(c, "query")
    /\ LET id == call[c].id IN
       Goto(c, [call[c] EXCEPT !.step = "fill", !.got = IF id \in DOMAIN rows THEN RowEntry(rows[id]) ELSE Mark])
    /\ UNCHANGED <<rows, lastId, cache, calm, moved>>

FillPrimary(c) ==
    /\ Step(c, "fill")
    /\ Set(PrimaryKey(call[c].id), call[c].got)
    /\ Goto(c, Resume(call[c], call[c].got))
    /\ UNCHANGED <<rows, lastId, calm, moved>>

\* The rows whose values the index has: one at most.
Having(columns, data) == {id \in DOMAIN rows : \A i \in DOMAIN columns : rows[id][columns[i]] = data[columns[i]]}

QueryIndex(c) ==
    /\ Step(c, "queryIndex")
    /\ LET found == Having(call[c].columns, call[c].data) IN
       Goto(c, IF found = {} THEN [call[c] EXCEPT !.step = "fillIndex", !.got = Mark]
               ELSE [call[c] EXCEPT !.step = "fillFound", !.got = RowEntry(rows[CHOOSE id \in found : TRUE])])
    /\ UNCHANGED <<rows, lastId, cache, calm, moved>>

\* The row goes to its primary key first.
FillFound(c) ==
    /\ Step(c, "fillFound")
    /\ LET id == call[c].got.row[Primary] IN
       /\ Set(PrimaryKey(id), call[c].got)
       /\ Goto(c, [call[c] EXCEPT !.step = "fillIndex", !.got = IdEntry(id)])
    /\ UNCHANGED <<rows, lastId, calm, moved>>

FillIndex(c) ==
    /\ Step(c, "fillIndex")
    /\ Set(DataKey(call[c].columns, call[c].data), call[c].got)
    /\ Goto(c, NoCall)
    /\ UNCHANGED <<rows, lastId, calm, moved>>

-----------------------------------------------------------------------------
(* CachedConn: writing *)

\* The table after a statement, in a set that is empty if the database refuses it.
Distinct(table) ==
    \A columns \in Indexes : \A i, j \in DOMAIN table :
        i # j => \E k \in DOMAIN columns : table[i][columns[k]] # table[j][columns[k]]

Accepts(table) == IF Distinct(table) THEN {table} ELSE {}

Put(table, id, row) == [i \in DOMAIN table \cup {id} |-> IF i = id THEN row ELSE table[i]]

\* The value a statement puts into a column: that at its place in the list.
Place(columns, f) == CHOOSE i \in DOMAIN columns : columns[i] = f
Bound(columns, values, first, data, f, otherwise) ==
    IF f \in Range(columns) THEN data[values[Place(columns, f) + first - 1]] ELSE otherwise

Inserted(data) ==
    LET s == model.insert
        Row(id) == [f \in Columns |-> IF f = Primary THEN id ELSE Bound(s.columns, s.values, 1, data, f, Default)]
        id == IF Primary \in Range(s.columns) THEN data[s.values[Place(s.columns, Primary)]] ELSE Id(lastId + 1)
    IN  IF \/ Len(s.columns) # Len(s.values)
           \/ Primary \notin Range(s.columns) /\ ~model.table.auto
           \/ id \in DOMAIN rows
        THEN {}
        ELSE Accepts(Put(rows, id, Row(id)))

Updated(data) ==
    LET s == model.update
        id == data[s.values[s.where]]
    IN  IF Len(s.columns) + 1 # Len(s.values) \/ s.columns = << >> THEN {}
        ELSE IF id \notin DOMAIN rows THEN {rows}
        ELSE Accepts(Put(rows, id,
               [f \in Columns |-> Bound(s.columns, s.values, s.first, data, f, rows[id][f])]))

Deleted(id) == [i \in DOMAIN rows \ {id} |-> rows[i]]

Executed(k) ==
    CASE k.op = "insert" -> Inserted(k.data)
      [] k.op = "update" -> Updated(k.data)
      [] k.op = "delete" -> {Deleted(k.id)}

\* Another call has read something and not yet used it.
OthersAt(c, steps) == \E o \in Clients \ {c} : call[o].step \in steps
Halfway(c) == OthersAt(c, {"fill", "fillFound", "fillIndex", "exec", "del"})

NewIds(table) == DOMAIN table \ DOMAIN rows

Exec(c) ==
    /\ Step(c, "exec")
    /\ call[c].op = "insert" /\ model.table.auto => lastId < MaxId
    /\ \/ /\ Executed(call[c]) = {}
          /\ Goto(c, NoCall)
          /\ UNCHANGED <<rows, lastId, calm, moved>>
       \/ \E table \in Executed(call[c]) :
          /\ rows' = table
          /\ lastId' = IF model.table.auto THEN lastId + Cardinality(NewIds(table)) ELSE lastId
          /\ calm' = (calm /\ (table = rows \/ ~Halfway(c)))
          /\ moved' = IF call[c].op = "update" THEN moved \cup {call[c].id} ELSE moved \ {call[c].id}
          /\ Goto(c, IF model.cache THEN [call[c] EXCEPT !.step = "del"] ELSE NoCall)
    /\ UNCHANGED cache

KeysOf(k) ==
    LET old == IF ReadsFirst THEN k.got.row ELSE k.data IN
    CASE k.op = "insert" -> InsertKeys(k.data)
      [] k.op = "update" -> UpdateKeys(old)
      [] k.op = "delete" -> DeleteKeys(k.id, old)

DelCache(c) ==
    /\ Step(c, "del")
    /\ cache' = [key \in DOMAIN cache \ KeysOf(call[c]) |-> cache[key]]
    /\ Goto(c, NoCall)
    /\ calm' = (calm /\ ~OthersAt(c, {"exec"}))
    /\ UNCHANGED <<rows, lastId, moved>>

\* A service crashes, between the steps of a call.
Crash(c) ==
    /\ call[c] # NoCall
    /\ calm' = (calm /\ call[c].step # "del")
    /\ Goto(c, NoCall)
    /\ UNCHANGED <<rows, lastId, cache, moved>>

Expire(key) ==
    /\ cache' = [k \in DOMAIN cache \ {key} |-> cache[k]]
    /\ UNCHANGED <<genVars, model, rows, lastId, call, calls, calm, moved>>

-----------------------------------------------------------------------------
(* The services are built when the commands are done; the table may have a row by then *)

Build(n) ==
    /\ n \in Served
    /\ job = None
    /\ runs = MaxRuns
    /\ model = None
    /\ Compiles
    /\ model' = dir[n].gen
    /\ rows' \in {<< >>} \cup
                {[id \in {Id(1)} |-> r] : r \in {r \in [Range(Names(model'.table)) -> Values \cup {Id(1)}] :
                                               \A f \in DOMAIN r : r[f] = Id(1) <=> f = model'.table.primary}}
    /\ lastId' = Cardinality(DOMAIN rows')
    /\ UNCHANGED <<genVars, cache, call, calls, calm, moved>>

Init ==
    /\ GenInit
    /\ model = None
    /\ rows = << >>
    /\ lastId = 0
    /\ cache = << >>
    /\ call = [c \in Clients |-> NoCall]
    /\ calls = 0
    /\ calm = TRUE
    /\ moved = {}

Method(c) == FindOne(c) \/ FindOneByField(c) \/ Insert(c) \/ Update(c) \/ Delete(c)

Conn(c) ==
    QueryPrimary(c) \/ FillPrimary(c) \/ QueryIndex(c) \/ FillFound(c) \/ FillIndex(c) \/ Exec(c) \/ DelCache(c)

Next ==
    \/ model = None /\ GenNext /\ UNCHANGED appVars
    \/ \E n \in DOMAIN dir : Build(n)
    \/ model # None /\ \E c \in Clients : Method(c) \/ Conn(c) \/ Crash(c)
    \/ \E key \in DOMAIN cache : Expire(key)

Spec == Init /\ [][Next]_vars

-----------------------------------------------------------------------------
(* Properties *)

WrittenAsTold(c) ==
    LET k == call[c]
        id == IF k.op = "insert" /\ model.table.auto THEN Id(lastId + 1) ELSE k.id
    IN  /\ \A i \in DOMAIN rows \ {id} : i \in DOMAIN rows' /\ rows'[i] = rows[i]
        /\ k.op # "delete" /\ (k.op = "insert" \/ id \in DOMAIN rows) =>
             \/ id \in DOMAIN rows' /\ \A f \in Columns \ ({Primary} \cup model.ignored) : rows'[id][f] = k.data[f]
             \/ k.op = "insert" /\ (id \in DOMAIN rows \/ (Primary \in model.ignored /\ ~model.table.auto))
             \/ \E columns \in Indexes : Having(Without(columns, model.ignored), k.data) \ {id} # {}

\* Whatever the order of the columns, those left out and the database: an insert or an update
\* puts every value under its column, in the row it is for, and no other row changes.  The
\* database refuses one only because the row is there already, or its values of an index are,
\* or because --ignore-columns names the primary key and the database does not give ids.
WritesAsTold == [][\A c \in Clients : Exec(c) => WrittenAsTold(c)]_vars

\* Values of several columns that are told apart when joined.
Plain(values) == Len(values) = 1 \/ \A i \in DOMAIN values : ":" \notin Range(values[i])

\* Another index has the same key for some of its values, as that of (a, b) has for x and y when
\* that of (a) has it for "b:x:y".
SharedKey(columns, data) ==
    \E other \in Indexes \ {columns} : \E values \in Sought(other) : DataKey(other, values) = DataKey(columns, data)

\* The database puts one of these values into a new row, and the caller does not know it.
GivenLater(columns, data) ==
    \/ model.table.auto /\ Primary \in Range(columns)
    \/ \E f \in Range(columns) \cap model.ignored : data[f] = Default

\* When no call is under way, and no write met another call halfway, what the cache says of
\* an id or of the values of an index is what the table has.  Two kinds of marks for not
\* found are left to expire: for what the database gives later (Insert deletes the keys of
\* id 0 and of the data it was given), and for values that an update gives a row (Update
\* deletes the keys of the row as it was).  Keys that are joined from other values as well, of
\* the same index or of another one, may speak of those.
CacheTellsTruth ==
    calm /\ model # None /\ (\A c \in Clients : call[c] = NoCall) =>
        /\ \A id \in Ids : PrimaryKey(id) \in DOMAIN cache =>
             IF cache[PrimaryKey(id)].kind = "mark" THEN id \notin DOMAIN rows \/ model.table.auto
             ELSE id \in DOMAIN rows /\ rows[id] = cache[PrimaryKey(id)].row
        /\ \A columns \in Indexes : \A data \in Sought(columns) :
             LET key == DataKey(columns, data) IN
             key \in DOMAIN cache /\ Plain([i \in DOMAIN columns |-> data[columns[i]]]) /\ ~SharedKey(columns, data) =>
               IF cache[key].kind = "mark" THEN Having(columns, data) \subseteq moved \/ GivenLater(columns, data)
               ELSE Having(columns, data) = {cache[key].id}

=============================================================================
