# TLA+ models of rs_ontop_core

`rs_ontop_core` is a PostgreSQL extension written in Rust (pgrx).  It keeps R2RML
mappings in a table, translates SPARQL queries to SQL over the mapped tables, runs
the SQL through SPI, and serves SPARQL and SQL over HTTP from background workers.
This directory holds TLA+ specifications of the parts whose behaviour over time is
hard to test, the TLC configurations that check them on small instances, and
theorems about them that TLAPS proves for every instance.

Paths below are relative to the repository.  `src/` is the Rust source.

## 1. The system

### 1.1 Components

| Component | Source | State | Operations | Modelled by |
|---|---|---|---|---|
| Plan cache | `src/optimizer/cache.rs`, `lib.rs:453-495` | `CacheManager` behind `Arc<Mutex<..>>`: a `HashMap` of plans, hit, miss and eviction counters, `last_cleanup` | `get_or_create`, `get`, `insert`, `evict_lru`, `smart_eviction`, `cleanup_expired`, `periodic_cleanup`, `clear` | `PlanCache`, `LossyCache` |
| Engine | `lib.rs:226-302, 499-624, 777-885, 1100-1113` | `ENGINE`, a static of each process: mappings, table metadata, plan cache | `ontop_refresh`, `ontop_translate`, `ontop_query`, `ontop_load_ontology_turtle`, `ontop_clear_cache` | `OntopEngine` |
| Gateway provisioning | `lib.rs:51-224` | advisory lock, registered and connected workers, locals of the call | `_PG_init`, `ontop_start_sparql_server`, `ontop_http_worker_status` (reads only) | `GatewayStart` |
| Gateway worker | `listener.rs` | the request loop, its engine, consecutive errors, tiny_http's queue | `/sparql`, `/sql`, `/ontology`, `OPTIONS`, back-off, stop | `Listener`, `RequestService` |
| SPARQL parser | `src/parser/` | none | text to `ParsedQuery`, property paths to trees | `SparqlParser`, `PropertyPaths` |
| IR conversion | `src/parser/ir_converter.rs`, `src/ir/` | none | `ParsedQuery` to `LogicNode` | `LogicPlan`, `IrConverter`, `PatternScans` |
| Query rewriting | `src/rewriter/`, `src/rewriter.rs` | none | mapping unfolding, unfolding of property paths | `PropertyPaths`, `OptimizerPasses` |
| Reasoner | `src/reasoner/` | axioms of one saturation | `saturate_tbox`, hierarchies, rules, rewriting of atoms (not called by `translate`) | `Saturator`, `TBoxRewriting` |
| Optimizer passes | `src/optimizer/` | none | three fixed passes and a pass manager that repeats its rules up to ten times | `OptimizerPasses`, `PassRules`, `Translation` |
| SQL generation | `src/sql/`, `src/codegen/` | clauses and aliases of one generation | `LogicNode` to SQL | `FlatSql` |
| Federation | `src/federation/`, `src/service.rs` | temporary tables of one translation | SERVICE results into temporary tables | not modelled: the converter never makes a Service node |
| Streaming | `src/listener/database/`, `src/listener/http/` | a cursor, a batch, an HTTP body | batches of rows to chunks | not modelled: neither listener nor engine calls it |
| Mapping store and R2RML loader | `src/mapping*` | `MappingStore` | Turtle to rules, classes, properties | its failure (`OntopEngine`) and the rules it leaves (`MappedTriples`) |
| Statistics, cost model, visualizer, benchmark, configuration, binaries | `src/optimizer/{statistics,stats_collector,visualizer}.rs`, `src/benchmark/`, `src/config.rs`, `src/bin/` | none or unused | reports | not modelled |

`PROJECT.json` lists every component with the same names and the reason for what is
left out.

### 1.2 How they interact

* A client backend calls the SQL functions.  They lock `ENGINE`, clone the engine (its
  parts are `Arc`s), unlock, and translate on the clone.  Only `ontop_translate` goes
  through the plan cache; `ontop_query` and the workers translate afresh every time.
* The plan cache is shared by all clones of one engine.  `translate_with_cache` holds
  its mutex twice, once to look up and once to insert, and translates in between.
* `ontop_refresh` replaces the engine of the process that runs it, with an empty cache.
  No message reaches another process: a worker's engine is built before its loop.
* `ontop_start_sparql_server` counts the workers in `pg_stat_activity` and asks the
  postmaster for one more at a time, under a session-level advisory lock.
* A worker takes requests from tiny_http's queue one at a time.  The queue carries
  accept errors too.  `/sql` can call any SQL function inside the worker, and so build
  its engine (`ontop_refresh`).  Neither statements nor the reading of a body have a
  time limit (`listener.rs:157, 207, 266, 334`).
* The backend statistics behind `pg_stat_activity` are read once per transaction and kept
  to its end, so a call of `ontop_start_sparql_server` sees the workers of one moment.
* A translation (`OntopEngine::translate`) is one thread's work from end to end: text,
  parsed query, plan, unfolding, passes at the root, join order, up to ten rounds of the
  pass manager, SQL.
  Its stages communicate through the plan only.  The converter and the unfolding pass
  iterate over `HashMap`s, and the join order follows estimated costs, so one query can
  take many ways.

### 1.3 What is hard about them

* two holders of one mutex and what may happen between two critical sections (a backend
  has one thread and does not meet this by itself; the cache is written for several);
* wall-clock arithmetic in unsigned integers, with a clock that may be set back, also
  between two readings of one critical section;
* a panic inside a critical section, inside a transaction, inside the engine's start;
* per-process copies of shared data, built from uncommitted rows, never invalidated;
* a start loop that decides by what it can see, while what it started is not yet seen,
  and whose view is frozen for the whole transaction;
* a lock that an error does not release;
* a request loop with a dozen early exits, each of which must have answered;
* a parser without a grammar: sixteen searches over one text, each with its own idea of
  where a part of the query ends, and nothing that compares what they found;
* a fixpoint whose rules feed each other, over a graph that may have cycles;
* a chain of rewritings, each right by itself under assumptions that the one before it
  must have kept: which tables a plan has, in which order, under which names.

The list with source lines is under `hazards` in `PROJECT.json`.

### 1.4 What makes each correct

* Plan cache: bounded; never serves a plan that is too old or another text's; its
  counters account for every plan; a caller sees a map that may forget but never lies.
* Engine: its cache is coherent with its mappings, its mappings were really in the
  table, and a document that does not load never gets in.
* Provisioning: one provisioner at a time; the lock is given back; a call starts all that
  is missing or nothing; not more workers than configured; every call returns.
* Worker: no request lost or answered twice; only SIGTERM, a failed bind or a panic of
  `/ontology` ends it; no result without an engine; every request answered, as long as
  the statements and bodies before it come to an end.
* Parser: the parts it finds are together the query that was written, prologue or not.
* Reasoner: it finds exactly the subsumptions that hold in every model of the ontology,
  and comes to an end; its two halves agree.
* Translation: the SQL answers with exactly the solutions that the query has over the
  triples of the mappings, as often as it has them; it is SQL that PostgreSQL accepts;
  no pass changes what a plan means; the rounds of the pass manager come to an end.

## 2. The modules

| Module | What it is |
|---|---|
| `LossyCache` | the promise of the plan cache: a map that forgets at will, remembers a translation only under its own text, and serves only what it remembers |
| `PlanCache` | the cache and `translate_with_cache`, one action per critical section |
| `MCPlanCache` | its instances: capacity 2 and 7, two cleanup strategies, two build modes, a disabled cache |
| `PlanCacheProofs` | its type invariant, five safety invariants, an action property and that it implements `LossyCache`, proved |
| `OntopEngine` | the engines of several processes over one mapping table with transactions |
| `MCOntopEngine` | its instances and their symmetry |
| `OntopEngineProofs` | its type invariant and four safety invariants, proved |
| `GatewayStart` | the start loop of several sessions, the postmaster and the workers' first steps |
| `MCGatewayStart` | its instance |
| `GatewayStartProofs` | its type invariant, four safety invariants and the variant of its calls, proved |
| `RequestService` | the promise of a worker to its clients: who asked first is served first |
| `Listener` | the request loop of one worker and its clients |
| `MCListener` | the request kinds it is checked with |
| `ListenerProofs` | its type invariant, four safety invariants and that it implements `RequestService`, proved |
| `SolutionBags` | terms and expressions, solutions and bags of them; joins, projections and the scan of a table |
| `MappedTriples` | the triples that the mappings make of a database, and what a pattern matches in them |
| `SparqlAlgebra` | paths; what a query means over the triples of the mappings |
| `SparqlParser` | the parts of a query, each searched for in its tokens |
| `LogicPlan` | the plan tree and the bag of solutions it means over a database |
| `PropertyPaths` | the text of a path to its tree, the tree to a plan |
| `PatternScans` | the patterns of one subject and table, gathered into one scan with filters |
| `PatternScansProofs` | that the scan answers what the patterns do, and when, proved |
| `IrConverter` | a parsed query to plans |
| `PassRules` | what the passes do to single nodes: when two scans are one, when a scan is a lookup, how projections compose |
| `PassRulesProofs` | that these rules keep the bag of solutions of every database, proved |
| `OptimizerPasses` | the passes as operators on plans, which apply the rules throughout |
| `FlatSql` | a plan to one flat SELECT; when the SELECT is legal, and what it answers |
| `Translation` | one query from its text to SQL, one action per stage, over the parts above |
| `MCTranslation` | its queries, their texts, mappings, metadata and databases |
| `Saturator` | the rounds of `saturate_tbox`, and the models of an ontology to judge them by |
| `TBoxRewriting` | the rewriting of a plan's atoms, as the steps of recursive walks down the hierarchies; the single rules |
| `MCReasoner` | its ontologies and its plan |
| `SaturatorProofs` | soundness, closure and completeness of the saturation and the variant of its rounds, proved |
| `TBoxRewritingProofs` | what the hierarchies and the walks give, and that the two halves agree, proved |

### 2.1 `PlanCache`

`manager` is the `CacheManager`: `plans` the `HashMap`, by key; `hits`, `misses`,
`evictions`, `last_cleanup` its counters.  `config` is the `CacheConfig` and whether
the build checks overflow.  `translating[c]` is what caller `c` translates between its
two critical sections, `poisoned` the state of the mutex, `answer` the plan served by
the last step.  `inserted` and `expired` are history variables for `Conservation`.

`Lookup` is the first critical section (`lib.rs:455-478`), `Store` the second
(`lib.rs:484-492`); both are `GetOrCreate`, which runs `periodic_cleanup` first, then
`get`, then, in `Store` only, `insert`.  `GiveUp` is a translation that fails or finds
the mutex poisoned, `Bypass` a disabled cache or a poisoned mutex, `Clear`
`ontop_clear_cache`.

The code reads the wall clock at every use.  A critical section is one step of the model
with several readings: whether a cleanup is due, the cleanup, the age of a plan
(`is_expired`, `cache.rs:46`) and the access to it (`record_access`, `cache.rs:38`).  Each
reading is `After` the one before it: not earlier, unless the clock was set back in
between.  `clock` is the last reading and how often the clock was set back;
`MoveClock` is the clock between the steps.  So `last_accessed` may lie before
`created_at`, in one critical section and without any other caller.

`Callers` are holders of the mutex.  A backend has one thread, so in the system as it is
a lookup and its store have no other call between them; more than one caller is what
the `Mutex` and the clones of the engine are there for, and includes one.

The float score of `smart_eviction` is abstracted: any choice of `to_remove` plans may
be the lowest.  Ages are u64 subtractions: `Minus` wraps at `Word`, `Underflows` is the
panic of a checked build, and a panic in `get` leaves the plan out of the map because
it had been removed before its age was looked at.  Keys are the hashes of the texts;
`KeysAssumption` assumes no two texts of the instance collide.

### 2.2 `OntopEngine`

`table` holds the committed mapping rows, `txn[s]` the uncommitted writes of session
`s`, `engine[p]` the static `ENGINE` of process `p`.  `Refreshed(p)` is
`refresh_engine_from_spi` and reads with the snapshot of `p`'s own transaction.
`OntopTranslate` refreshes when there is no engine or fewer than two tables, then
answers through the cache, of which any part may have been forgotten (that is what
`LossyCache` allows and `PlanCache` implements).  `StartWorker` builds the worker's
engine once, or fails to; `ServeSqlCall` is an SQL function called through `/sql`.
`own` is a history variable: the engine was built over uncommitted writes of its own.

### 2.3 `GatewayStart`

`workers` counts the workers that are registered, starting (connected and visible in
`pg_stat_activity`) and listening.  `call[c]` holds the locals of session `c`'s call
and where it is in the loop.  `lock` is the advisory lock with its depth, since a
session may take it again.  `Fail` is an `Err` inside the closure, after which the lock
is released; `Abort` an ERROR that unwinds the function, after which it is not.
`view[c]` is what the transaction of session `c` sees of `pg_stat_activity`: PostgreSQL
copies the state of the backends at the first look and keeps the copy until the
transaction ends, whatever `stats_fetch_consistency` says, so every later count of the
call repeats the first one.  `Status` is any other look at it in the same transaction,
`ontop_http_worker_status` among them.

### 2.4 `Listener`

`queue` is tiny_http's queue of requests and accept errors, `current` the client whose
request is handled, from the moment it is taken off the queue, `client[c]` what each
client sent and got.  Of a query text the model keeps what the handlers test: whether it
is missing, blank, illegal, malformed, an ASK or another query; whether it starts with
`PREFIX`; and what stands before and after the word `ASK` in it.  `SaysAsk` are the four
tests of `listener.rs:811-814` on these: an ASK after a prefix with a line feed behind it
is none.  `holds` in an answer is what the database knows, kept to state what an ASK
should say.  Error answers go through `DetermineErrorStatusCode`, by SQLSTATE class.
`RunSql` runs any statement, so it may leave an `engine` where there was none.

`RequestService` forgets queues, errors, engines and contents: a client waits for those
that asked before it and is served when none of them is left.  The mapping (`Service`)
takes for those ahead of a client the one whose request is handled and the clients before
it in the queue; an accept error in the queue is a place without a client, and a step
that takes it off changes nothing.  `ServesInOrder` is this refinement.

### 2.5 `Translation` and the modules under it

`query` is a query as it is meant (`asked`) and as it is written (`text`), `parsed` the
`ParsedQuery`, `plan` the `LogicNode` that the stages hand on, `stage` the last stage
that is done, `iterations` the rounds of the pass manager, `sql` the context of the
generator.  `ParseText` is `SparqlParserV2::parse`, `Convert` is
`IRConverter::convert_with_mappings`, `Unfold` is `MappingUnfolder::unfold` with the
`TBoxRewriter` after it (`lib.rs:280-281`), `EliminateRedundantJoins` and `PushFilters`
the two passes that look at the root, `ReorderJoins` the cost-based order, of which every
one may be the cheapest, `RunPasses` one round of the pass manager, `GenerateSql` the
generator.

A text is a sequence of tokens; a property path, which has no blank in it, is one token
that holds its names and signs.  Each `extract_..` of the parser is an operator on the
tokens, with its own idea of what to skip: `SubqueryStarts`, `ExistsStarts` and `Cut` are
what the parser removes before it looks for patterns, `ExpandShorthand` the rewriting of
`;`, `TriplePatterns` the two searches for patterns, assertions of a type first.
`QueryType` looks at the first word of the raw text, as the code does: with a declaration
of a prefix in front an ASK or a CONSTRUCT is a SELECT, whose clauses are then searched
for as those of a SELECT.  `Parse` is recursive like the code: a subquery is parsed by
the whole parser again, with the declarations in front of it.  Of declarations the model
has that they are there, one per line; the names it uses are names after their expansion.
The texts of the instance are written by `TextOf` of `MCTranslation` from the queries that
are meant, some of them with a declaration in front (`Prefixed`).

`ParsePath` splits a path as `PropertyPathParser::parse` does, modifiers of the whole
first.  `UnfoldPath` is `PathUnfolder`: a sequence of one plan, or of none when it fails,
in which case the node stays as it is and the generator refuses it.  A path of any length
becomes a node of its own, for which the generator writes a `WITH RECURSIVE` statement
and then loses it: the text is kept in `subquery_sql` (`flat_generator.rs:704-711`), which
`assemble_sql` does not print, and what it prints is the name, `recursive_path_1`, of a
relation that no statement makes.  Every query with such a path is therefore refused by
PostgreSQL.  The properties of generated SQL except queries with such a node (`Repeats`):
`SqlIsWellFormed` is violated by every one of them without that exception.

`Canonical` and `Aliased` of `IrConverter` are its `var_aliases`: when a rule's object is
its subject's own column the object variable is the subject under another name, and its
patterns join the subject's group.

A plan means a *bag* of solutions (`Meaning`), so that a lost or an extra duplicate
counts.  `SolutionBags` has the bags and what plans are built of: joins, projections, the
scan of a table with its NULLs.  `PassRules` has the decisions that the passes take about
single nodes (`CanMerge`, `IsLookup`, `Pruned`, `SubstitutedAll`); both are free of
recursion, so that theorems can be stated about them, and `OptimizerPasses` carries the
rules through plan trees by recursion.  A query means what the SPARQL algebra says over
the triples that the mappings make of a database (`Answers`), a definition that shares
nothing with the converter.  The generator's context keeps what the code keeps: select
items, all available items, FROM entries with their aliases and ON conditions, WHERE
conditions, grouping, and the names of the alias manager.  Its lookups are the code's, in
their order, fallbacks included: a variable is looked up by alias among the items and
taken for a column of the first table otherwise.  `WellFormed` is what PostgreSQL requires
of names and scopes, `SqlAnswers` the rows the statement returns, with SQL's NULL.
Where the generator compares texts the model does what the comparison does:
`AddExplicitCondition` drops a condition whose text is part of the text that is there
(`WithinText`), `ToSnakeCase` and `ToLowerCase` are the two spellings of a variable's name
that aliases and lookups are made with, and `ExistsFilters` keeps the filters of an EXISTS
block on variables of that block and drops the others.

SQL text is otherwise left out: a column reference is a record, an alias the string the
code allots.  TLA+ has no operators on the characters of a string, so the base of an alias
(the first letters of the table's name) and the spellings of a name are constants that
the instance gives.  PostgreSQL folds the unquoted aliases of a statement to lower case
and the rows are matched to the variables' names again on the way back; that is left
out.  IRIs are the column values they are built from.

A pass is modelled as written even where it never acts in this pipeline:
`RedundantJoinElimination` and `FilterPushdown` look at the root, which is always a
projection; the reordering makes every inner join binary, so the joins that self-join
and foreign-key elimination act on are left with one child, which the generator
refuses (both need keys, which the server's loader never gives).  Unfolding meets
predicates in paths only, since the converter resolves all others by itself; the TBox
rewriter looks for predicate nodes and meets none.

### 2.6 `Saturator` and `TBoxRewriting`

`tbox` is the ontology that is given, `subClass` and `subProperty` the axioms so far,
`domain` and `range` the constraints of the properties.  The code writes the inverse of
`p` as the name `INV_p` and the concept of what has a role as a class name that begins
with the sign for "exists"; here they are the records `Inv(r)` and `Exist(r)`.
`SaturationRound` is one turn of the `while changed` loop, which works on what there is
when the turn begins; `ExtractConstraints` is the loop after it, in which a property with
several classes above its domain keeps the last one, in the order of a `HashSet`: any.

`TBoxRewriting` works on the ontology as given and rewrites a `plan`, of which it keeps
the atoms.  The walks of the code (`get_all_sub_concepts`, `get_all_sub_properties`) are
recursive functions with one set of visited names that all activations share.  Here the
activations are a `stack` of what each has left to visit, and a step is one turn of one
loop: `EnterAtom` begins the walk for the next atom, `Visit` takes a name that was not
visited and begins an activation below it, `Skip` is the `insert` that says the name was
there, `Return` the end of an activation and `ExpandAtom` the end of the walk, which makes
the atom a union over `collected`.  The order within a set is any: the code's is that of a
`HashSet`.  `InferredSubClassOf` to `InferredRange` are rules R1 to R4.  The two halves
share nothing but the ontology, which neither changes, so their order is free;
`RewritingNext` rewrites the plan first and then saturates, and `HierarchiesAgree`
compares what both found at the end.

## 3. The runs

| Run | Checks | Shows |
|---|---|---|
| `PlanCache.cfg` | `TypeOK`, `SizeBound`, `ServedFresh`, `KeyedByOwnText`, `AccessAfterCreation`, `Conservation`, `PoisonCauses`, `ImplementsLossyCache` | the cache keeps its promises in both builds and both cleanup modes, also when the clock is set back, even within a critical section; the refinement to `LossyCache` |
| `PlanCacheEviction.cfg` | `KeepsTargetSize` (violated) | `cache.rs:182` underflows between half and three quarters of `max_size`: a release build evicts everything |
| `OntopEngine.cfg` | `TypeOK`, `CacheCoherent`, `EnginesSeeCommitted`, `NoBadMapping`, `HitsNeedTwoTables` | what an engine may hold, over commits, rollbacks, restarts |
| `OntopEngineRefresh.cfg` | `RefreshReachesWorkers` (violated) | no refresh of a session ever reaches a worker |
| `GatewayStart.cfg` | `TypeOK`, `OneProvisioner`, `LockAccounting`, `FrozenViewSeesNoStart`, `AllOrNothing`, `CallReturns` | the start loop under the view of one transaction, slow starts, errors, full slots |
| `GatewayStartSlow.cfg` | `NoOverProvisioning` (violated) | slow starts are registered again |
| `Listener.cfg` | `TypeOK`, `NoRequestLost`, `OnlyOntologyIsFatal`, `NoEngineNoResult`, `ServesInOrder`, `RequestsAreAnswered` | the request loop over every kind of request, failure and panic; the refinement to `RequestService` |
| `ListenerAsk.cfg` | `AskAnswersTruth` (violated) | a false ASK is answered with true |
| `Translation.cfg` | `TypeOK`, `ParserKeepsQuery`, `PlanMeansQuery`, `PassesKeepMeaning`, `RoundsSettle`, `SqlIsWellFormed`, `SqlAnswersQuery`, `SqlPagesQuery` | 50 queries, every order of tables and joins: what the parser finds is the query, and the SQL answers what the query means, in its order |
| `TranslationOptional.cfg` | `OptionalIsLeftJoin` (violated) | an OPTIONAL becomes an inner join on the way to SQL |
| `TranslationPaths.cfg` | `PathVariablesAreUnique` (violated) | two sequence paths of one query get the same variable between their parts |
| `Reasoner.cfg` | `TypeOK`, `SaturationIsSound`, `SaturationIsComplete`, `HierarchiesAgree`, `Saturates` | of 72 ontologies: the walks for a plan of four atoms end, so does the saturation, it finds exactly what follows, and both find the same names below each atom |

The six violated properties quote what a comment or a document of the repository
says; they are listed under `findings` in `PROJECT.json`.

### 3.1 Bounds

* `PlanCache`: four texts with four keys.  Capacity 2 makes an insertion an eviction;
  capacity 7 is the smallest with a size strictly between half and three quarters, which
  four plans reach.  The clock has three seconds, which with `max_age` 1 and
  `cleanup_interval` 2 give fresh, expired and due in every combination; one step back
  of the clock, at any reading, reaches all underflows.  Five calls (`MaxCalls`)
  fill the cache and come back to it.  `MCBound`, a constraint, leaves out the fifth call
  on the cache of two and the step back on the cache of seven, where each would say again
  what it says on the other.  `Word` is 2^64 in the code and 100 here; the assumption
  that it exceeds every age is all that is used.  The calls are bounded, so the
  run may stop (`CHECK_DEADLOCK FALSE`).  134489 states.
* `OntopEngine`: two sessions are needed for uncommitted writes of another, one row and
  the values absent, loadable and not loadable for every content; `MaxCommits` bounds
  the contents the table goes through.
* `GatewayStart`: targets 1 and 3 with four slots: the target is reached, missed, and
  exceeded by a slow start; two sessions contend for the lock; one aborted call each
  (`MaxAborts`) leaves the lock held and nested.  96405 states.
* `Listener`: two clients and a queue of two let a request wait behind another and
  behind errors; ten errors in a row, the code's own number, are reached.  The requests
  are one of each kind that the handlers treat on their own.  240474 states.
* `Reasoner`: three classes and two properties, with chains, cycles, equal hierarchies,
  domains, ranges, an inverse of another property and one of itself.  The one plan has two
  classes and two properties as atoms, among them the top of each hierarchy and a member
  of each cycle; walks for different atoms share nothing.  A subsumption of
  DL-Lite that fails in some model fails in one of two elements, as the proof of
  completeness shows (section 4); `Individuals` has two.  The run stops when the
  constraints are extracted (`CHECK_DEADLOCK FALSE`).
* `Translation`: the queries take each construct alone and with the others that meet it in
  the code: patterns of one table and of two, a table twice, a variable in columns of both
  tables, classes, UNION of one and of two tables, constant objects, a variable predicate,
  a variable class, FILTER over each of these, EXISTS and NOT EXISTS, BIND, VALUES that
  restrict, that exclude and that are empty, COUNT with GROUP BY, without, and with an
  implicit group, HAVING, ORDER BY with LIMIT, subqueries, ASK and CONSTRUCT, the
  property paths with each operator, alone and joined, a rule whose object is its subject,
  names in camel case, and declarations of prefixes before a SELECT, an ASK and a query with
  a subquery: 50 queries, 1519 states.  The databases have duplicates
  under projection, a value that occurs in columns of different meaning, rows without
  partner, a hierarchy of three levels and an empty table; solutions that should differ do
  differ on one of them.  `MaxIterations` is the code's 10.  A translation ends when its
  SQL is there, so the runs stop (`CHECK_DEADLOCK FALSE`).  The two
  violated runs have the one query, over the metadata that the server loads, that shows
  what they are about.

`Translation.cfg` is a fragment: constants as objects in one table only, subjects that are
keys, columns that are NOT NULL, one rule per predicate, no foreign keys in the metadata
(the server's own loader fills in no keys at all, `lib.rs:541-549`; the primary keys are
there for self-join elimination to act on); the parent `hq` of the topmost department is
no row, no pair of departments is joined by paths of two lengths, and no path is longer
than ten steps; no join condition is part of the text of another, no two variables differ
in case and underscores only, no union stands in a branch of a union, and prefixes are
declared before SELECT and ASK only.  For queries with a path of any length it checks the
parser, the converter and the passes, and says nothing of their SQL, which never runs.
Outside of the fragment the translation is known to differ from the algebra; the
violated runs show two of the differences, and the rest is:

* Type of the query: after a PREFIX an ASK or a CONSTRUCT is a SELECT, whose variables are
  none (`sparql_parser_v2.rs:124-142`).  An ASK then selects `*`, of which its caller looks
  at the first row; a CONSTRUCT, as all tests of it are written, loses its template.
* Texts that are compared: of two conditions of one join the one whose text is part of the
  other's is lost (`flat_generator.rs:1239`; `dep.parent` after `dep.parent_id`).  Two
  variables that differ in case and underscores have one alias (`:192`; `?deptId` and
  `?dept_id`).  EXISTS does not find a variable in camel case (`:1578`).
* Unions: a union that is a branch of a union gives NULL in its columns (`:285-288`);
  `?e a ?n` as a branch is enough.

* Patterns: a constant object on a joined table gives a condition that compares a column
  with itself (`flat_generator.rs:1869`), as joins with a variable-predicate pattern do;
  two constants beside a variable in the column of the first get one name, and both
  filters look at the second's column (`ir_converter.rs:985`; `?e :first_name ?n, "Ann" ;
  :works_in :d1` is enough, `PlanMeansQuery` fails on it);
  of two patterns of one subject and table with the same variable as object the second
  is dropped without a condition (`ir_converter.rs:923`; `?e :p ?x ; :q ?x`);
  a constant subject or a number as object is dropped; of several rules for one
  predicate one is used; a NULL object still gives a row; a foreign-key lookup leaves a
  join of one child (`join_elimination.rs:106`).
* Parser: a pattern after FILTER, VALUES or BIND without a dot is lost; so is the first
  one of an ASK without WHERE, and a third branch of a UNION; the second pattern of an
  OPTIONAL counts as one of the query, a FILTER or BIND of a branch as one of the whole;
  a subject left out before a path that begins with `^` or `(` is not put back; the last
  LIMIT of the text is taken, whoever's it is.
* Paths: `^a/b` is the inverse of the sequence and `a/b*` its closure; parentheses stay
  part of a name; a name that ends in `+` or `*` is a path.  A path of any length has a
  duplicate for each length and stops at ten in the statement that is lost; `p*` has the
  identity over its start nodes only; `p?` reads a table `dual`.
* Prefixes are not expanded in BIND, VALUES and HAVING, and a line that begins with a
  declaration is taken whole, whatever else stands on it.
* The rest: `!=` is no operator of a filter; COUNT(DISTINCT), SELECT DISTINCT and OFFSET
  are ignored; HAVING on an alias becomes a WHERE; EXISTS uses the first rule of a
  predicate and knows no outer column of UNION or VALUES; variables a subquery does not
  project are visible outside; patterns beside a UNION are dropped, and so are variables
  that only its later branches have; a filter of an EXISTS block on a variable from outside
  of it is dropped.

The reasoner too has known limits that its run leaves out.  `symmetric` properties are
not inferred from, against the comment at `saturator.rs:41`; equivalent classes are not
looked at; of several domains one is kept, so a given one may be replaced by a weaker
one; rule R5 expands existentials downwards; the rewriting of a property does not know
sub-properties that come from inverses, nor members of a class that come from a domain.
`rewriter/tbox_rewriter.rs`, which `translate` calls, would build unions with the
parents of a class, but meets no predicate.

Symmetry is used in the safety runs of `PlanCache` and `OntopEngine` only, never with a
liveness property.

### 3.2 Fairness

* `GatewayStart`: `WF_vars(Proceed(c))`, because the function only sleeps and never
  waits for anybody, and `WF_vars(Fork)`, because the postmaster serves what was
  registered.  `CallReturns` does not assume that a worker ever comes up.
* `Listener`: `WF_vars(OwnStep)`: the loop's own steps, which poll with a timeout of 100 ms
  and sleep one second at most.  Handling a request is not fair: it reads a body, runs a
  statement and writes an answer, none with a time limit.  `RequestsAreAnswered` therefore
  has a premise, `HandlingEnds`: the worker comes back to its loop again and again.  One
  statement that never ends is enough to leave every client behind it without an answer,
  and the property says that nothing else is.  Clients and SIGTERM are not fair either.
* `OntopEngineRefresh.cfg`: the workers are started and answer requests.  The
  counterexample is thus not a system that stopped.
* `Reasoner`: weak fairness of `RewritingNext`, which is of `Rewrite` while the plan is
  rewritten and of `Next` after that: the rewriting of a plan and `saturate_tbox` are one
  call each, which its caller waits for.
* `Translation`: none; its properties are of states and of steps.

## 4. The proofs

The assumptions are the named `ASSUME`s of the modules, which TLC evaluates in their runs.

`PlanCacheProofs` proves `Spec => []TypeOK`, `SizeBound`, `ServedFresh`, `KeyedByOwnText`,
`Conservation` and `PoisonCauses` for every set of callers, texts and keys, every
configuration and every clock.  `Conservation` needs that each of the ways a plan leaves
the map is counted once.  The operators on managers (`Without`, `SmartEvictions`,
`CleanupExpired`, `Inserts`) each have a lemma that says what they keep and how they
change the account, and `GetOrCreate` is one lemma used by `Lookup` and `Store`.
`ServedFresh` speaks of the reading at which the age was judged (`looked`), not of the one
at which the access was recorded.  `PoisonCauses` is not inductive with these: that ages
do not underflow as long as the clock was not set back rests on every time that the
manager holds lying in the past (`TimesPast`), which is carried through each critical
section by lemmas of its own.

`AccessesFollowCreation` is about a step: a plan whose last access lies before its creation,
on which `get_access_rate` (`cache.rs:56-57`) underflows later, comes out of a critical
section during which the clock was set back, and of no other.  Its lemmas follow the plan
through the section: cleanups and misses only leave plans out (`IsPartOf`), an
insertion makes one with two equal times, and a hit records a reading after the one at
which the plan was found not to be of the future (`HitInvertsBySetBack`).

It also proves `ImplementsLossyCache`.  The mapping takes for the
store at a text the SQL of the plan under the text's key, and for the reply the answer of
the last step.  A step of the cache that leaves a part of the manager behind and answers
nothing forgets; the one that inserts remembers one text; a hit serves.  Sizes, ages,
counters and panics have no image, and a critical section that panics half way is a step
that forgets.  `MarkersAssumption` says among others that `NoPlan` is no text: a map
could not tell a text from nothing otherwise.  `AnswersAreOwn` follows: an answer is the
translation of the text that was asked.

`GatewayStartProofs` proves `Spec => []TypeOK`, `OneProvisioner`, `LockAccounting`,
`FrozenViewSeesNoStart` (`CallsReportFailures`) and `AllOrNothing`
(`CallsNeverStopHalfWay`) for every number of sessions, every configuration and every
number of slots.  `IInv` adds to them what they rest on: a free lock has depth 0; a call
that has not counted has tallied nothing; and the locals of a call account for the attempt
under way and agree with the view of its transaction, which no step changes while the call
runs (`SoundTally`).  `OneProvisioner` follows from `LockAccounting`: two calls in
progress would be two owners of one lock.  The calls of other sessions are untouched by a
step, so one lemma (`CallStepKeepsInv`) carries the invariant over a step that changes one
call, and one (`WorkerStepKeepsInv`) over the steps of the workers.

`NoStepIsInVain` is the safety half of `CallReturns`: every step of a call reduces the
number `Remaining`, which is at most twice `MaxAttempts` and two, and no step of another
session, of the postmaster or of a worker increases it.  So the loop cannot be kept busy
by workers that come and go.  What is left of `CallReturns` is that a call in progress
can always take a step and that it gets to: ENABLED and fairness, which stay with TLC.

`SaturatorProofs` proves `SaturationSpec => []TypeOK`, `SaturationIsSound`,
`SaturationIsClosed` and `SaturationIsComplete` for every set of classes and properties,
every ontology and every domain of individuals.  `SaturationSpec` is the specification
without fairness, so that `RewritingSpec` implies it as well.  The invariant is `TypeOK`
with `SaturationIsSound`, which is inductive: whatever follows in every model from axioms
that hold in every model holds in every model.  The lemmas are one per kind of initial
axiom and one per inference (two steps, the existentials of a role and of its inverse, the
inverses).  `SaturationIsClosed` says that a saturation that ended has nothing left to
infer.

For completeness there is, for every pair that the saturated axioms do not hold, a model
of the ontology that refutes it, built from the axioms themselves: for a class, individuals
that belong to the classes above it and nothing related (`ClassModel`), since nothing puts
a class below an existential; for a role or its existential, one edge that belongs to the
roles above it, with ends that belong to the classes above its existentials (`EdgeModel`).
That they are models is what each rule of a round is needed for.  Two individuals suffice,
and `IndividualsAssumption` asks for two: over one individual every role is its own
inverse, which no ontology says and the code does not find.

`NoRoundIsInVain` is the safety half of `Saturates` for the rounds: with finitely many
names, `Missing`, the number of pairs of concepts and of roles that are not axioms yet, is
a natural number that every round but the last reduces, since a round adds what it infers
and goes on only if that was new.  The constraints are extracted once.  No cycle can keep
the rounds going; what is left is that a round is always possible and is taken.

`TBoxRewritingProofs` proves `HierarchiesAgree`, for every ontology and every plan.  It is
a statement about two computations that ended, which no step of either preserves.  Both are
compared with a third thing instead, `ToldBelow`: the least set of names that holds a name
and that the given axioms lead down from.

* `HierarchiesAreAsTold`: when the rounds end, the classes below a class are `ToldBelow`
  it.  One direction is an invariant of the rounds (`OnlyToldClasses`, strengthened by:
  nothing is below an existential but existentials, so that no chain between two classes
  goes through one); the other is that a saturated set is closed downwards.  For properties
  the first direction needs that there are no inverses.
* `WalksCollectWhatIsTold`: an atom that is rewritten became the union of what is
  `ToldBelow` its name.  Its invariant `WalkInv` says of a walk in progress that what is
  visited and what waits on the stack is told, and that whatever lies directly below the
  atom or below a visited name is visited or waits in some activation.  The second is what
  the sharing of the visited set endangers: a name that an inner activation visited is
  skipped by the outer one whose turn it would be.  When the stack is empty, what is
  visited is closed downwards.
* `HalvesAgree` puts them together, with the single rules, which are one or two steps of
  the rounds.

`OntopEngineProofs` proves `Spec => []TypeOK`, `CacheCoherent`, `EnginesSeeCommitted`,
`NoBadMapping` and `HitsNeedTwoTables` for every number of sessions, workers, rows, texts
and commits.  The four properties speak of one engine each, so the invariant is that every
engine is `Sound`: a lemma shows it of the engine that a refresh builds, whatever the
snapshot it read (`NewEngineIsSound`), one of an engine that has forgotten plans
(`KeptIsSound`), and one of a translation.  Two lemmas carry it over a step: one for steps
that change an engine, one for steps that change the table, for which it needs that the
table's content is among the committed ones.  That an engine of fewer than two tables is
rebuilt empty before it is asked gives `HitsNeedTwoTables`.  `Absent # BadTtl` is assumed,
a row that is not there being no document that fails.

`ListenerProofs` proves `Spec => []TypeOK`, `NoRequestLost`, `OnlyOntologyIsFatal`,
`BacksOff` and `NoEngineNoResult` for every set of clients and requests and any length of
the queue.  `IInv` adds that nothing has happened before the port is bound (`Idle`) and
that a request is handled only while the loop runs (`Busy`).  An engine may come at the
start or with a statement of `/sql` and never goes, so without one there was none before:
that is why the answers given so far fit.

`NoRequestLost` counts places in a queue: three lemmas say what `Append` and `Tail` do to
the count and that it is finite.  The answers go through `Fits`: each way to answer gives
an answer that the properties of answers allow, and one lemma says that such an answer
keeps the invariant.  `BacksOff` (ten errors in a row are followed by a pause) comes out
of the same invariant; it is proved and no run repeats it.

It also proves `ServesInOrder`, the refinement of `RequestService`.  It rests on
`NoRequestLost`: who waits has one place, so whom it waits for is what stands before
that place (`OnePlaceEach`).  A request that arrives asks; the request that is handled is
served when it is answered.  The head of the queue that is taken off to be handled stays
ahead of everybody else, and `HeadLeaves` says what is then before them.  An error that is
received and a stop for SIGTERM serve nobody.
`ClientsWaitInLine` follows for the worker: of two waiting clients one is ahead.

`PassRulesProofs` is about the optimizer without a plan at hand: what a rule of a pass
does to one node keeps the solutions of every database.  Two bags are `Alike` when a
bijection between them keeps solutions; a lemma (`AlikeMeansSameBag`) says that each
solution then occurs as often in one as in the other.

* `JoinCommutes`, `JoinAssociates`, `JoinRespects` and from them `NeighboursChangePlaces`:
  what the reordering of joins rests on.
* `FiltersCommuteWithJoins`: a filter may go into a side of a join that binds its
  variables in *every* solution.  The pass asks whether a column of the side carries the
  variable; where the column is NULL the two differ.
* `SelfJoinMerges`: two scans that share their key are one scan with the columns of both,
  if the key is a key of the rows, NULL in none, and no variable has two columns.  The
  last is a condition that `self_join_elimination.rs:38-43` does not check: for a
  variable that is one column here and another there, the later insert drops an equation.
  The theorem is false without it; the pass does not act in this pipeline (section 2.5).
* `ScanTwiceIsScan`: a scan twice is a scan, if there is a key among its columns.
* `LookupsAddNothing`: the scan that is only looked up may go, if the database keeps its
  foreign keys and its NOT NULL columns.
* `ProjectionsCompose`, if the outer projection names only what the inner one gives, and
  `PruningKeepsProjections`.

That the passes apply the rules at the right places of a tree, and only there, is
recursion and stays with TLC (`PassesKeepMeaning`).

`PatternScansProofs` is about the converter.  The patterns of a query that have the same
subject and the same table become one scan with one column per variable, constant objects
filters above it; the algebra joins them one by one over the triples.  `GroupAnswers` is
what scan and filters answer, without the variables that stand for constants.

* `PatternIsScan`: the scan of the first pattern answers what the pattern does.
* `PatternJoinsScan`: what a scan answers, joined with what a further pattern answers, is
  what the scan that `AddPattern` makes answers.
* `PatternsAreOneScan` applies both to two patterns; the second theorem can be applied
  again, as its conclusion holds the part of its hypotheses that is about the scan
  (`GroupOf`).

They hold for every database and every mapping, and their hypotheses (`StepTaken`) are
what the converter takes for granted and does not look at.  `KeyedBy`: the subject's column
is a key of the table, since otherwise the scan has a row for each duplicate of a triple,
and rows of one subject do not combine with each other.  `ObjectIsNew`: a variable object
is no variable of the scan yet, since otherwise its equation is lost, and its column is NOT
NULL, since a row without object is no triple; a constant's column gets a name that is not
taken.  `ServedBy`: one rule answers the pattern, since the scan uses the first.  The
argument writes both sides as bags with one member for each row of the table that all
patterns are answered by (`AnswersByRows`, `GroupByRows`, `GroupGrowsByRow`), which a
bijection relates (`FamiliesAlike`).  Which patterns are put into one group, and the joins
between groups, are recursion and stay with TLC (`PlanMeansQuery`).

Checked by TLC only: the liveness properties (`CallReturns`, `RequestsAreAnswered`,
`Saturates`), of which the provers can do the variants but neither ENABLED nor fairness;
and the properties of `Translation`, whose modules recurse over texts, paths and plan trees
with RECURSIVE operators, about which the provers can say nothing: their parts that need no
recursion are in `PassRules` and `PatternScans`, with the theorems above.

## 5. What is not modelled

* What PostgreSQL, pgrx and tiny_http do inside; they appear as environment actions,
  mapped as external.
* The contents of SQL, JSON and HTTP headers.
* Federation and streaming, which no query reaches (section 1.1); rule R5, equivalent
  and disjoint classes of the reasoner; the table of SPARQL functions; the R2RML loader and
  DESCRIBE; estimates of cost, which are floats: any order of joins may be the cheapest.
* Unused code: `warm_up`, `with_cache_config`, `build_logic_plan` and
  `generate_flat_sql` of the listener, `src/cache/`, `src/processor/`, `src/monitoring/`,
  the visualizer and the benchmark.
* Two hazards of the list have no property: what pgrx does with a transaction whose closure
  panicked, and what a group of patterns does with a name that is taken, of a constant's
  column or of a variable, which is outside of the fragment of section 3.1.  Self-join
  elimination leaves a join of one child, which the generator refuses, and so does
  foreign-key elimination; neither acts, since the server's loader gives no keys.
* The ids of workers, which nothing but a log line reads.

## 6. The plan

1. *(done)* `PlanCache` and `LossyCache`; `OntopEngine`; `GatewayStart`; `Listener`.
2. *(done for the fragment of section 3.1)* a query from its text to SQL: parser, paths,
   conversion, all passes, the flat generator, composed in `Translation`.
3. *(done)* the reasoner: `Saturator`, `TBoxRewriting`.
4. *(done)* proofs for `PlanCache`, `OntopEngine`, `GatewayStart`, `Listener`, `Saturator`
   and `TBoxRewriting`: every safety invariant of their runs, the refinements to
   `LossyCache` and `RequestService`, the variants of the start loop and of the rounds.
5. *(done)* the rules of the passes and the scan of a group of patterns, over every
   database.
6. Left to model: nullable columns and several rules per predicate, each with the meaning
   the code gives it; the order of a scan's columns; the way of names back to variables;
   foreign keys; the R2RML loader; DESCRIBE; functions in filters.
7. Left to prove: the parts of `Translation` that need no recursion beyond the rules of
   the passes (the alias manager, the shorthand, the split of a path).

Modules that define passes by recursion over plans use RECURSIVE operators and are for
TLC alone; the modules with proofs stay free of them.
