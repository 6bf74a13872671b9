----------------------------- MODULE OntopEngine -----------------------------
(***************************************************************************)
(* The engines of the extension (lib.rs) and the data they are built from. *)
(* ENGINE is a static of each PostgreSQL process: every session and every  *)
(* HTTP worker holds its own, built from the rows of ontop_r2rml_mappings  *)
(* and the user tables that its transaction sees when it refreshes.  The   *)
(* plan cache lives inside the engine; here it is the lossy map that       *)
(* LossyCache promises and PlanCache implements.                           *)
(***************************************************************************)
EXTENDS Naturals, FiniteSets

CONSTANTS Sessions,       \* client backends, which run the SQL functions
          Workers,        \* SPARQL gateway background workers
          Rows,           \* ids of ontop_r2rml_mappings rows
          GoodTtl,        \* R2RML documents that load
          BadTtl,         \* a document that load_from_ttl rejects
          Absent,         \* a row that is not there
          Unwritten,      \* a row the transaction did not touch
          Texts,          \* SPARQL query texts
          Untranslatable, \* the texts the pipeline rejects
          NoSql,          \* no SQL
          NoEngine,       \* ENGINE = None
          NoReply,        \* the last step answered nobody
          TableCounts,    \* bound: how many user tables there may be
          MaxCommits      \* bound: commits to the mapping table

ASSUME BoundsAssumption == TableCounts \subseteq Nat /\ MaxCommits \in Nat
ASSUME ProcessesAssumption == Sessions \cap Workers = {}
ASSUME TextsAssumption == Untranslatable \subseteq Texts

Processes == Sessions \cup Workers
RowValues == GoodTtl \cup {BadTtl, Absent}
Contents == [Rows -> RowValues]
Empty == [r \in Rows |-> Absent]

\* The SQL that translate(t) yields on an engine with mappings m.
SqlOf(t, m) == [text |-> t, maps |-> m]
Sqls == [text : Texts, maps : Contents]
Engines == [maps : Contents,             \* the MappingStore
            tables : TableCounts,     \* metadata.len()
            cache : [Texts -> Sqls \cup {NoSql}],
            own : BOOLEAN]               \* built over own uncommitted writes
Replies == [to : Processes, what : {"refreshed", "hit", "miss", "error"}]

ASSUME MarkersAssumption == /\ NoSql \notin Sqls
                            /\ NoEngine \notin Engines
                            /\ NoReply \notin Replies
                            /\ Unwritten \notin RowValues
                            /\ Absent # BadTtl

VARIABLES table,          \* the committed mapping rows
          tables,         \* how many user tables there are
          txn,            \* txn[s][r]: what session s wrote and did not commit
          engine,         \* engine[p]: ENGINE in process p
          running,        \* the workers in their request loop
          reply,          \* the answer given by the last step
          committed       \* every content the mapping table ever had

dataVars == <<table, tables, txn, committed>>
vars == <<table, tables, txn, engine, running, reply, committed>>

-----------------------------------------------------------------------------
(* The mapping table.  A session writes rows in a transaction; a row that  *)
(* another transaction has written is locked until that one ends.          *)

InTransaction(s) == \E r \in Rows : txn[s][r] # Unwritten
EndTransaction(s) == txn' = [txn EXCEPT ![s] = [r \in Rows |-> Unwritten]]

\* What a statement of process p sees (READ COMMITTED).
DirtyView(p) == \* for a mutant: what READ UNCOMMITTED would see
    [r \in Rows |->
        IF \E s \in Sessions : txn[s][r] # Unwritten
        THEN txn[CHOOSE s \in Sessions : txn[s][r] # Unwritten][r] ELSE table[r]]
View(p) == [r \in Rows |-> IF p \in Sessions /\ txn[p][r] # Unwritten
                           THEN txn[p][r] ELSE table[r]]

Write(s, r, v) ==
    /\ \A q \in Sessions \ {s} : txn[q][r] = Unwritten
    /\ txn' = [txn EXCEPT ![s][r] = v]
    /\ reply' = NoReply
    /\ UNCHANGED <<table, tables, engine, running, committed>>

Commit(s) ==
    /\ InTransaction(s)
    /\ Cardinality(committed) <= MaxCommits
    /\ table' = View(s)
    /\ committed' = committed \cup {View(s)}
    /\ EndTransaction(s)
    /\ reply' = NoReply
    /\ UNCHANGED <<tables, engine, running>>

\* The engine a session built meanwhile is not rolled back with its rows.
Rollback(s) ==
    /\ InTransaction(s)
    /\ EndTransaction(s)
    /\ reply' = NoReply
    /\ UNCHANGED <<table, tables, engine, running, committed>>

CreateOrDropTables(n) ==
    /\ tables' = n
    /\ reply' = NoReply
    /\ UNCHANGED <<table, txn, engine, running, committed>>

-----------------------------------------------------------------------------
(* refresh_engine_from_spi: one row that fails to load fails the loader,   *)
(* and an engine without any mapping is installed all the same.            *)

LoadUnchecked(v) == v \* mutant: a row that does not load is kept all the same
LoadFromDatabase(v) == IF \E r \in Rows : v[r] = BadTtl THEN Empty ELSE v

FetchPgMetadataOfAll == tables + 1 \* mutant: the extension's own tables too
FetchPgMetadata == tables

NewEngineDirty(p) == \* mutant: reads rows that others have not committed
    [maps |-> LoadFromDatabase(DirtyView(p)), tables |-> FetchPgMetadata,
     cache |-> [t \in Texts |-> NoSql], own |-> p \in Sessions /\ InTransaction(p)]
NewEngine(p) == [maps |-> LoadFromDatabase(View(p)),
                 tables |-> FetchPgMetadata,
                 cache |-> [t \in Texts |-> NoSql],
                 own |-> p \in Sessions /\ InTransaction(p)]
RefreshedKeepingCache(p) == \* mutant: replaces the mappings, keeps the plans
    IF engine[p] = NoEngine THEN NewEngine(p)
    ELSE [NewEngine(p) EXCEPT !.cache = engine[p].cache]
Refreshed(p) == NewEngine(p)

\* ontop_refresh, and ontop_load_ontology_turtle of a document that parses: it
\* stores a snapshot row that no refresh ever reads, then refreshes.
Refresh(p) ==
    /\ engine' = [engine EXCEPT ![p] = Refreshed(p)]
    /\ reply' = [to |-> p, what |-> "refreshed"]
    /\ UNCHANGED <<dataVars, running>>

\* The refresh that ontop_translate does on its own.
NeedsRefreshOnlyOnce(p) == engine[p] = NoEngine \* mutant: trusts a small schema
NeedsRefresh(p) == engine[p] = NoEngine \/ engine[p].tables < 2

-----------------------------------------------------------------------------
(* Answering.  ontop_translate goes through the cache of its own engine;   *)
(* the workers' /sparql and ontop_query translate afresh every time.       *)

\* What the lossy cache may have kept.
Kept(e) == {[e EXCEPT !.cache = [t \in Texts |-> IF t \in lost THEN NoSql ELSE @[t]]] :
               lost \in SUBSET Texts}

Answered(p, what) == reply' = [to |-> p, what |-> what]

TranslateWithCache(p, e, t) ==
    \/ /\ e.cache[t] # NoSql
       /\ engine' = [engine EXCEPT ![p] = e]
       /\ Answered(p, "hit")
    \/ /\ e.cache[t] = NoSql /\ t \notin Untranslatable
       /\ engine' = [engine EXCEPT ![p] = [e EXCEPT !.cache[t] = SqlOf(t, e.maps)]]
       /\ Answered(p, "miss")
    \/ /\ e.cache[t] = NoSql /\ t \in Untranslatable
       /\ engine' = [engine EXCEPT ![p] = e]
       /\ Answered(p, "error")

OntopTranslate(p, t) ==
    /\ \E e \in Kept(IF NeedsRefresh(p) THEN Refreshed(p) ELSE engine[p]) :
          TranslateWithCache(p, e, t)
    /\ UNCHANGED <<dataVars, running>>

\* spi_execute_sparql_json_rows, without cache and without refresh.
Execute(p, t) ==
    /\ IF engine[p] = NoEngine \/ t \in Untranslatable
       THEN Answered(p, "error")
       ELSE Answered(p, "miss")
    /\ UNCHANGED <<dataVars, engine, running>>
OntopQuery(p, t) == Execute(p, t)
ServeSparql(w, t) == w \in running /\ Execute(w, t)

\* ontop_clear_cache
ClearCache(p) ==
    /\ engine[p] # NoEngine
    /\ engine' = [engine EXCEPT ![p].cache = [t \in Texts |-> NoSql]]
    /\ reply' = NoReply
    /\ UNCHANGED <<dataVars, running>>

\* The SQL functions, in a client backend or in the worker whose /sql endpoint
\* received the statement that calls them.
CallFunction(p) ==
    \/ Refresh(p)
    \/ \E t \in Texts : OntopTranslate(p, t) \/ OntopQuery(p, t)
    \/ ClearCache(p)

ServeSqlCall(w) == w \in running /\ CallFunction(w)

\* A data-changing statement on /sql commits before the worker answers.
ServeSqlWrite(w, r, v) ==
    /\ w \in running
    /\ \A q \in Sessions : txn[q][r] = Unwritten
    /\ Cardinality(committed) <= MaxCommits
    /\ table' = [table EXCEPT ![r] = v]
    /\ committed' = committed \cup {[table EXCEPT ![r] = v]}
    /\ reply' = NoReply
    /\ UNCHANGED <<tables, txn, engine, running>>

-----------------------------------------------------------------------------
(* Processes.  A worker builds its engine once, before its request loop; a *)
(* panic there is caught and leaves it without one.                        *)

StartWorker(w) ==
    /\ w \notin running
    /\ running' = running \cup {w}
    /\ \/ engine' = [engine EXCEPT ![w] = Refreshed(w)]
       \/ UNCHANGED engine
    /\ reply' = NoReply
    /\ UNCHANGED dataVars

StopWorker(w) ==
    /\ w \in running
    /\ running' = running \ {w}
    /\ engine' = [engine EXCEPT ![w] = NoEngine]
    /\ reply' = NoReply
    /\ UNCHANGED dataVars

\* A backend that exits takes its transaction and its engine with it.
Reconnect(s) ==
    /\ engine' = [engine EXCEPT ![s] = NoEngine]
    /\ EndTransaction(s)
    /\ reply' = NoReply
    /\ UNCHANGED <<table, tables, running, committed>>

-----------------------------------------------------------------------------
Init == /\ table = Empty
        /\ tables \in TableCounts
        /\ txn = [s \in Sessions |-> [r \in Rows |-> Unwritten]]
        /\ engine = [p \in Processes |-> NoEngine]
        /\ running = {}
        /\ reply = NoReply
        /\ committed = {Empty}

Next == \/ \E s \in Sessions :
              \/ \E r \in Rows, v \in RowValues : Write(s, r, v)
              \/ Commit(s)
              \/ Rollback(s)
              \/ CallFunction(s)
              \/ Reconnect(s)
        \/ \E n \in TableCounts : CreateOrDropTables(n)
        \/ \E w \in Workers :
              \/ StartWorker(w)
              \/ StopWorker(w)
              \/ \E t \in Texts : ServeSparql(w, t)
              \/ ServeSqlCall(w)
              \/ \E r \in Rows, v \in RowValues : ServeSqlWrite(w, r, v)

Spec == Init /\ [][Next]_vars

\* The postmaster runs every registered worker, and each keeps polling its
\* socket: requests that keep coming are answered.
Fairness == \A w \in Workers : /\ WF_vars(StartWorker(w))
                               /\ \A t \in Texts : WF_vars(ServeSparql(w, t))
FairSpec == Spec /\ Fairness

-----------------------------------------------------------------------------
TypeOK == /\ table \in Contents
          /\ tables \in TableCounts
          /\ txn \in [Sessions -> [Rows -> RowValues \cup {Unwritten}]]
          /\ engine \in [Processes -> Engines \cup {NoEngine}]
          /\ running \subseteq Workers
          /\ reply \in Replies \cup {NoReply}
          /\ committed \subseteq Contents

\* Whatever an engine's cache would answer is what translating afresh with the
\* mappings of that engine yields: a refresh never leaves a plan behind.
CacheCoherent ==
    \A p \in Processes : engine[p] # NoEngine =>
        \A t \in Texts :
            engine[p].cache[t] \in {NoSql, SqlOf(t, engine[p].maps)}

\* Unless a session refreshed over its own uncommitted writes, an engine holds
\* no mapping but a content the table really had, or none at all: no process
\* ever translates with rows that another one may still roll back.
EnginesSeeCommitted ==
    \A p \in Processes : engine[p] # NoEngine /\ ~engine[p].own =>
        engine[p].maps \in committed \cup {Empty}

\* A document that does not load never shows up in an engine: it takes the rest
\* of its content with it instead.
NoBadMapping == \A p \in Processes : engine[p] # NoEngine =>
                    \A r \in Rows : engine[p].maps[r] # BadTtl

\* The cache of a session pays off only in schemas of two tables or more: in a
\* smaller one ontop_translate rebuilds the engine, and its cache, every time.
HitsNeedTwoTables ==
    reply # NoReply /\ reply.what = "hit" => engine[reply.to].tables >= 2

\* doc/sprint10/multi_bg_worker.md:121: after ontop_refresh() the workers take
\* effect consistently within an acceptable window.
RefreshReachesWorkers ==
    \A s \in Sessions, c \in Contents :
        (/\ reply # NoReply /\ reply.what = "refreshed" /\ reply.to = s
         /\ ~InTransaction(s) /\ table = c)
        ~> (table # c \/ \A w \in running : engine[w] # NoEngine =>
                                               engine[w].maps = LoadFromDatabase(c))
=============================================================================
