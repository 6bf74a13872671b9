-------------------------- MODULE OntopEngineProofs --------------------------
(***************************************************************************)
(* What an engine holds, for any number of sessions, workers, rows and     *)
(* texts: an engine is sound when it is built, and every step keeps each   *)
(* engine sound.                                                           *)
(***************************************************************************)
EXTENDS OntopEngine, TLAPS

-----------------------------------------------------------------------------
(* The properties of an engine, one by one.                                *)

Coherent(e) == \A t \in Texts : e.cache[t] \in {NoSql, SqlOf(t, e.maps)}
SeesCommitted(e) == ~e.own => e.maps \in committed \cup {Empty}
HoldsNoBad(e) == \A r \in Rows : e.maps[r] # BadTtl
Sound(e) == e \in Engines /\ Coherent(e) /\ SeesCommitted(e) /\ HoldsNoBad(e)
NothingCached(e) == \A t \in Texts : e.cache[t] = NoSql

\* The contents the table ever had include the one it has: what an engine is built
\* from is one of them.
IInv == /\ TypeOK
        /\ table \in committed
        /\ \A p \in Processes : engine[p] # NoEngine => Sound(engine[p])
        /\ HitsNeedTwoTables

LEMMA IInvGivesProperties ==
    IInv => TypeOK /\ CacheCoherent /\ EnginesSeeCommitted /\ NoBadMapping /\ HitsNeedTwoTables
  BY DEF IInv, Sound, Coherent, SeesCommitted, HoldsNoBad,
         CacheCoherent, EnginesSeeCommitted, NoBadMapping

-----------------------------------------------------------------------------
(* What is read, and the engine that is built from it.                     *)

LEMMA EmptyIsContents == Empty \in Contents
  BY DEF Empty, Contents, RowValues

LEMMA LoadedContents ==
    ASSUME NEW v \in Contents
    PROVE  /\ LoadFromDatabase(v) \in {v, Empty}
           /\ LoadFromDatabase(v) \in Contents
           /\ \A r \in Rows : LoadFromDatabase(v)[r] # BadTtl
<1>1. \A r \in Rows : Empty[r] # BadTtl
  BY MarkersAssumption DEF Empty
<1>. QED
  BY <1>1, EmptyIsContents DEF LoadFromDatabase

LEMMA ViewIsContents ==
    ASSUME TypeOK, NEW p \in Processes
    PROVE  /\ View(p) \in Contents
           /\ ~(p \in Sessions /\ InTransaction(p)) => View(p) = table
<1>1. View(p) \in Contents
  <2>1. CASE p \in Sessions
    <3>1. \A r \in Rows : table[r] \in RowValues /\ txn[p][r] \in RowValues \cup {Unwritten}
      BY <2>1 DEF TypeOK, Contents
    <3>. QED
      BY <3>1 DEF View, Contents
  <2>2. CASE p \notin Sessions
    BY <2>2 DEF View, Contents, TypeOK
  <2>. QED
    BY <2>1, <2>2
<1>2. ASSUME ~(p \in Sessions /\ InTransaction(p)) PROVE View(p) = table
  <2>1. \A r \in Rows : ~(p \in Sessions /\ txn[p][r] # Unwritten)
    BY <1>2 DEF InTransaction
  <2>2. View(p) = [r \in Rows |-> table[r]]
    BY <2>1 DEF View
  <2>. QED
    BY <2>2 DEF TypeOK, Contents
<1>. QED
  BY <1>1, <1>2

LEMMA NewEngineIsSound ==
    ASSUME IInv, NEW p \in Processes
    PROVE  Sound(NewEngine(p)) /\ NothingCached(NewEngine(p))
<1>. DEFINE e == NewEngine(p)
<1>1. e.maps = LoadFromDatabase(View(p)) /\ e.own = (p \in Sessions /\ InTransaction(p))
      /\ e.tables = tables /\ e.cache = [t \in Texts |-> NoSql]
  BY DEF NewEngine, FetchPgMetadata
<1>2. View(p) \in Contents /\ (~e.own => View(p) = table)
  BY <1>1, ViewIsContents DEF IInv
<1>3. e.maps \in {View(p), Empty} /\ e.maps \in Contents /\ HoldsNoBad(e)
  BY <1>1, <1>2, LoadedContents DEF HoldsNoBad
<1>4. NothingCached(e)
  BY <1>1 DEF NothingCached
<1>5. Coherent(e)
  BY <1>4 DEF NothingCached, Coherent
<1>6. SeesCommitted(e)
  BY <1>2, <1>3 DEF SeesCommitted, IInv
<1>7. (p \in Sessions /\ InTransaction(p)) \in BOOLEAN /\ tables \in TableCounts
      /\ [t \in Texts |-> NoSql] \in [Texts -> Sqls \cup {NoSql}]
  BY DEF InTransaction, IInv, TypeOK
<1>8. e \in Engines
  BY <1>1, <1>3, <1>7 DEF NewEngine, FetchPgMetadata, Engines
<1>. HIDE DEF e
<1>. QED
  BY <1>3, <1>4, <1>5, <1>6, <1>8 DEF Sound, e

\* Losing plans makes no engine unsound.
LEMMA KeptIsSound ==
    ASSUME NEW e, Sound(e), NEW f \in Kept(e)
    PROVE  /\ Sound(f) /\ f.tables = e.tables /\ f.maps = e.maps
           /\ NothingCached(e) => NothingCached(f)
<1>1. PICK lost \in SUBSET Texts :
         f = [e EXCEPT !.cache = [t \in Texts |-> IF t \in lost THEN NoSql ELSE e.cache[t]]]
  BY DEF Kept
<1>2. f.maps = e.maps /\ f.tables = e.tables /\ f.own = e.own
      /\ f.cache = [t \in Texts |-> IF t \in lost THEN NoSql ELSE e.cache[t]]
  BY <1>1 DEF Sound, Engines
<1>3. f.cache \in [Texts -> Sqls \cup {NoSql}]
  BY <1>2 DEF Sound, Engines
<1>4. f \in Engines
  BY <1>1, <1>3, <1>2 DEF Sound, Engines
<1>5. Coherent(f)
  BY <1>2 DEF Sound, Coherent
<1>6. SeesCommitted(f) /\ HoldsNoBad(f)
  BY <1>2 DEF Sound, SeesCommitted, HoldsNoBad
<1>7. NothingCached(e) => NothingCached(f)
  BY <1>2 DEF NothingCached
<1>. QED
  BY <1>2, <1>4, <1>5, <1>6, <1>7 DEF Sound

-----------------------------------------------------------------------------
(* A step that changes one engine, or none, and no data.                   *)

LEMMA EngineStepKeepsIInv ==
    ASSUME IInv, NEW p \in Processes, NEW f, f # NoEngine => Sound(f), 
           f \in Engines \cup {NoEngine},
           engine' = [engine EXCEPT ![p] = f],
           UNCHANGED dataVars, running' \subseteq Workers,
           reply' \in Replies \cup {NoReply},
           reply' # NoReply /\ reply'.what = "hit" => reply'.to = p /\ f.tables >= 2
    PROVE  IInv'
<1>1. TypeOK'
  BY DEF IInv, TypeOK, dataVars
<1>2. (table \in committed)'
  BY DEF IInv, dataVars
<1>3. ASSUME NEW q \in Processes, engine'[q] # NoEngine PROVE Sound(engine[q])'
  <2>1. Sound(engine'[q])
    BY <1>3 DEF IInv, TypeOK
  <2>. QED
    BY <2>1 DEF Sound, Coherent, SeesCommitted, HoldsNoBad, dataVars
<1>4. HitsNeedTwoTables'
  BY DEF HitsNeedTwoTables, IInv, TypeOK
<1>. QED
  BY <1>1, <1>2, <1>3, <1>4 DEF IInv

LEMMA DataStepKeepsIInv ==
    ASSUME IInv, UNCHANGED <<engine, running>>,
           table' \in Contents, tables' \in TableCounts,
           txn' \in [Sessions -> [Rows -> RowValues \cup {Unwritten}]],
           committed' \subseteq Contents, committed \subseteq committed', table' \in committed',
           reply' = NoReply
    PROVE  IInv'
<1>1. TypeOK'
  BY DEF IInv, TypeOK
<1>2. ASSUME NEW q \in Processes, engine'[q] # NoEngine PROVE Sound(engine[q])'
  <2>1. Sound(engine[q])
    BY <1>2 DEF IInv
  <2>. QED
    BY <2>1 DEF Sound, Coherent, SeesCommitted, HoldsNoBad
<1>3. HitsNeedTwoTables'
  BY DEF HitsNeedTwoTables
<1>. QED
  BY <1>1, <1>2, <1>3 DEF IInv

-----------------------------------------------------------------------------
(* The SQL functions.                                                      *)

LEMMA RefreshKeepsIInv ==
    ASSUME IInv, NEW p \in Processes, Refresh(p)
    PROVE  IInv'
<1>. DEFINE f == NewEngine(p)
<1>1. Sound(f)
  BY NewEngineIsSound
<1>2. f \in Engines
  BY <1>1 DEF Sound
<1>3. engine' = [engine EXCEPT ![p] = f] /\ UNCHANGED dataVars /\ running' \subseteq Workers
  BY DEF Refresh, Refreshed, IInv, TypeOK
<1>4. reply' = [to |-> p, what |-> "refreshed"]
  BY DEF Refresh
<1>5. reply' \in Replies /\ reply'.what # "hit"
  BY <1>4 DEF Replies
<1>. HIDE DEF f
<1>. QED
  BY <1>1, <1>2, <1>3, <1>5, EngineStepKeepsIInv

\* The engine that ontop_translate answers with, as much of its cache as was kept.
LEMMA TranslateWithCacheKeepsIInv ==
    ASSUME IInv, NEW p \in Processes, NEW e, Sound(e), NEW t \in Texts,
           e.cache[t] # NoSql => e.tables >= 2,
           TranslateWithCache(p, e, t), UNCHANGED <<dataVars, running>>
    PROVE  IInv'
<1>1. running' \subseteq Workers /\ e \in Engines
  BY DEF IInv, TypeOK, Sound
<1>2. CASE e.cache[t] # NoSql /\ engine' = [engine EXCEPT ![p] = e] /\ Answered(p, "hit")
  <2>1. reply' \in Replies /\ reply'.to = p /\ e.tables >= 2
    BY <1>2 DEF Answered, Replies
  <2>. QED
    BY <1>1, <1>2, <2>1, EngineStepKeepsIInv
<1>3. CASE engine' = [engine EXCEPT ![p] = e] /\ Answered(p, "error")
  <2>1. reply' \in Replies /\ reply'.what # "hit"
    BY <1>3 DEF Answered, Replies
  <2>. QED
    BY <1>1, <1>3, <2>1, EngineStepKeepsIInv
<1>4. CASE /\ engine' = [engine EXCEPT ![p] = [e EXCEPT !.cache[t] = SqlOf(t, e.maps)]]
           /\ Answered(p, "miss")
  <2>1. PICK f : f = [e EXCEPT !.cache[t] = SqlOf(t, e.maps)]
    OBVIOUS
  <2>2. PICK k : k = [e.cache EXCEPT ![t] = SqlOf(t, e.maps)]
    OBVIOUS
  <2>3. f = [e EXCEPT !.cache = k]
    BY <2>1, <2>2, Zenon
  <2>4. SqlOf(t, e.maps) \in Sqls
    BY <1>1 DEF SqlOf, Sqls, Engines
  <2>5. k \in [Texts -> Sqls \cup {NoSql}]
        /\ \A x \in Texts : k[x] = IF x = t THEN SqlOf(t, e.maps) ELSE e.cache[x]
    BY <1>1, <2>2, <2>4 DEF Engines
  <2>6. f \in Engines /\ f.maps = e.maps /\ f.own = e.own /\ f.cache = k
    BY <1>1, <2>3, <2>5 DEF Engines
  <2>7. Sound(f)
    BY <2>5, <2>6 DEF Sound, Coherent, SeesCommitted, HoldsNoBad
  <2>8. reply' \in Replies /\ reply'.what # "hit"
    BY <1>4 DEF Answered, Replies
  <2>9. engine' = [engine EXCEPT ![p] = f]
    BY <1>4, <2>1, Zenon
  <2>. QED
    BY <1>1, <2>6, <2>7, <2>8, <2>9, EngineStepKeepsIInv
<1>. QED
  BY <1>2, <1>3, <1>4 DEF TranslateWithCache

LEMMA OntopTranslateKeepsIInv ==
    ASSUME IInv, NEW p \in Processes, NEW t \in Texts, OntopTranslate(p, t)
    PROVE  IInv'
<1>1. CASE NeedsRefresh(p)
  <2>1. PICK e \in Kept(NewEngine(p)) : TranslateWithCache(p, e, t)
    BY <1>1 DEF OntopTranslate, Refreshed
  <2>2. Sound(e) /\ NothingCached(e)
    BY NewEngineIsSound, KeptIsSound
  <2>. QED
    BY <2>1, <2>2, TranslateWithCacheKeepsIInv DEF OntopTranslate, NothingCached
<1>2. CASE ~NeedsRefresh(p)
  <2>1. PICK e \in Kept(engine[p]) : TranslateWithCache(p, e, t)
    BY <1>2 DEF OntopTranslate
  <2>2. Sound(engine[p]) /\ ~(engine[p].tables < 2)
    BY <1>2 DEF NeedsRefresh, IInv
  <2>3. Sound(e) /\ e.tables = engine[p].tables
    BY <2>2, KeptIsSound
  <2>4. engine[p].tables \in Nat
    BY <2>2, BoundsAssumption DEF Sound, Engines
  <2>5. e.tables >= 2
    BY <2>2, <2>3, <2>4
  <2>. QED
    BY <2>1, <2>3, <2>5, TranslateWithCacheKeepsIInv DEF OntopTranslate
<1>. QED
  BY <1>1, <1>2

LEMMA ExecuteKeepsIInv ==
    ASSUME IInv, NEW p \in Processes, NEW t \in Texts, Execute(p, t)
    PROVE  IInv'
<1>1. reply' \in Replies /\ reply'.what # "hit"
  BY DEF Execute, Answered, Replies
<1>2. engine' = [engine EXCEPT ![p] = engine[p]]
  BY DEF Execute, IInv, TypeOK
<1>3. engine[p] \in Engines \cup {NoEngine} /\ (engine[p] # NoEngine => Sound(engine[p]))
  BY DEF IInv, TypeOK
<1>4. UNCHANGED dataVars /\ running' \subseteq Workers
  BY DEF Execute, IInv, TypeOK
<1>. QED
  BY <1>1, <1>2, <1>3, <1>4, EngineStepKeepsIInv

LEMMA ClearCacheKeepsIInv ==
    ASSUME IInv, NEW p \in Processes, ClearCache(p)
    PROVE  IInv'
<1>1. Sound(engine[p])
  BY DEF ClearCache, IInv
<1>2. PICK e : e = engine[p]
  OBVIOUS
<1>3. PICK f : f = [e EXCEPT !.cache = [t \in Texts |-> NoSql]]
  OBVIOUS
<1>4. engine' = [engine EXCEPT ![p] = f]
  BY <1>2, <1>3, Zenon DEF ClearCache
<1>5. f \in Engines /\ f.maps = e.maps /\ f.own = e.own /\ f.cache = [t \in Texts |-> NoSql]
  BY <1>1, <1>2, <1>3 DEF Sound, Engines
<1>6. Sound(f)
  BY <1>1, <1>2, <1>5 DEF Sound, Coherent, SeesCommitted, HoldsNoBad
<1>7. UNCHANGED dataVars /\ running' \subseteq Workers /\ reply' = NoReply
  BY DEF ClearCache, IInv, TypeOK
<1>. QED
  BY <1>4, <1>5, <1>6, <1>7, EngineStepKeepsIInv

LEMMA CallFunctionKeepsIInv ==
    ASSUME IInv, NEW p \in Processes, CallFunction(p)
    PROVE  IInv'
  BY RefreshKeepsIInv, OntopTranslateKeepsIInv, ExecuteKeepsIInv, ClearCacheKeepsIInv
     DEF CallFunction, OntopQuery

-----------------------------------------------------------------------------
(* The sessions' transactions and the processes.                           *)

LEMMA SessionStepKeepsIInv ==
    ASSUME IInv, NEW s \in Sessions,
           \/ \E r \in Rows, v \in RowValues : Write(s, r, v)
           \/ Commit(s)
           \/ Rollback(s)
    PROVE  IInv'
<1>1. ASSUME NEW r \in Rows, NEW v \in RowValues, Write(s, r, v) PROVE IInv'
  <2>1. txn' \in [Sessions -> [Rows -> RowValues \cup {Unwritten}]]
    BY <1>1 DEF Write, IInv, TypeOK
  <2>. QED
    BY <1>1, <2>1, DataStepKeepsIInv DEF Write, IInv, TypeOK
<1>2. EndTransaction(s) => txn' \in [Sessions -> [Rows -> RowValues \cup {Unwritten}]]
  BY DEF EndTransaction, IInv, TypeOK
<1>3. CASE Commit(s)
  <2>1. View(s) \in Contents
    BY ViewIsContents DEF IInv, Processes
  <2>. QED
    BY <1>2, <1>3, <2>1, DataStepKeepsIInv DEF Commit, IInv, TypeOK
<1>4. CASE Rollback(s)
  BY <1>2, <1>4, DataStepKeepsIInv DEF Rollback, IInv, TypeOK
<1>. QED
  BY <1>1, <1>3, <1>4

LEMMA ReconnectKeepsIInv ==
    ASSUME IInv, NEW s \in Sessions, Reconnect(s)
    PROVE  IInv'
<1>1. TypeOK'
  BY DEF Reconnect, EndTransaction, IInv, TypeOK
<1>2. ASSUME NEW q \in Processes, engine'[q] # NoEngine PROVE Sound(engine[q])'
  <2>1. engine'[q] = engine[q]
    BY <1>2 DEF Reconnect, IInv, TypeOK, Processes
  <2>2. Sound(engine[q])
    BY <1>2, <2>1 DEF IInv
  <2>. QED
    BY <2>1, <2>2 DEF Sound, Coherent, SeesCommitted, HoldsNoBad, Reconnect
<1>3. HitsNeedTwoTables' /\ (table \in committed)'
  BY DEF HitsNeedTwoTables, Reconnect, IInv
<1>. QED
  BY <1>1, <1>2, <1>3 DEF IInv

LEMMA WorkerStepKeepsIInv ==
    ASSUME IInv, NEW w \in Workers,
           \/ StartWorker(w)
           \/ StopWorker(w)
           \/ \E r \in Rows, v \in RowValues : ServeSqlWrite(w, r, v)
    PROVE  IInv'
<1>1. w \in Processes
  BY DEF Processes
<1>2. CASE StartWorker(w)
  <2>1. UNCHANGED dataVars /\ running' \subseteq Workers /\ reply' = NoReply
    BY <1>2 DEF StartWorker, IInv, TypeOK
  <2>2. CASE engine' = [engine EXCEPT ![w] = Refreshed(w)]
    <3>1. Sound(NewEngine(w)) /\ NewEngine(w) \in Engines
      BY <1>1, NewEngineIsSound DEF Sound
    <3>. QED
      BY <1>1, <2>1, <2>2, <3>1, EngineStepKeepsIInv DEF Refreshed
  <2>3. CASE UNCHANGED engine
    <3>1. engine' = [engine EXCEPT ![w] = engine[w]]
      BY <1>1, <2>3 DEF IInv, TypeOK
    <3>2. engine[w] \in Engines \cup {NoEngine} /\ (engine[w] # NoEngine => Sound(engine[w]))
      BY <1>1 DEF IInv, TypeOK
    <3>. QED
      BY <1>1, <2>1, <3>1, <3>2, EngineStepKeepsIInv
  <2>. QED
    BY <1>2, <2>2, <2>3 DEF StartWorker
<1>3. CASE StopWorker(w)
  <2>1. UNCHANGED dataVars /\ running' \subseteq Workers /\ reply' = NoReply
        /\ engine' = [engine EXCEPT ![w] = NoEngine]
    BY <1>3 DEF StopWorker, IInv, TypeOK
  <2>. QED
    BY <1>1, <2>1, EngineStepKeepsIInv
<1>4. ASSUME NEW r \in Rows, NEW v \in RowValues, ServeSqlWrite(w, r, v) PROVE IInv'
  <2>1. [table EXCEPT ![r] = v] \in Contents
    BY DEF IInv, TypeOK, Contents
  <2>. QED
    BY <1>4, <2>1, DataStepKeepsIInv DEF ServeSqlWrite, IInv, TypeOK
<1>. QED
  BY <1>2, <1>3, <1>4

-----------------------------------------------------------------------------
\* No step of a session, a worker or the schema leaves an engine unsound.
THEOREM InvariantHolds == Spec => []IInv
<1>1. Init => IInv
  <2>. SUFFICES ASSUME Init PROVE IInv
    OBVIOUS
  <2>1. TypeOK
    BY EmptyIsContents DEF Init, TypeOK
  <2>2. HitsNeedTwoTables
    BY DEF Init, HitsNeedTwoTables
  <2>. QED
    BY <2>1, <2>2 DEF Init, IInv
<1>2. IInv /\ [Next]_vars => IInv'
  <2>. SUFFICES ASSUME IInv, [Next]_vars PROVE IInv'
    OBVIOUS
  <2>1. ASSUME NEW s \in Sessions,
               \/ \E r \in Rows, v \in RowValues : Write(s, r, v)
               \/ Commit(s)
               \/ Rollback(s)
               \/ CallFunction(s)
               \/ Reconnect(s)
        PROVE  IInv'
    BY <2>1, SessionStepKeepsIInv, CallFunctionKeepsIInv, ReconnectKeepsIInv DEF Processes
  <2>2. ASSUME NEW n \in TableCounts, CreateOrDropTables(n) PROVE IInv'
    BY <2>2, DataStepKeepsIInv DEF CreateOrDropTables, IInv, TypeOK
  <2>3. ASSUME NEW w \in Workers,
               \/ StartWorker(w)
               \/ StopWorker(w)
               \/ \E t \in Texts : ServeSparql(w, t)
               \/ ServeSqlCall(w)
               \/ \E r \in Rows, v \in RowValues : ServeSqlWrite(w, r, v)
        PROVE  IInv'
    BY <2>3, WorkerStepKeepsIInv, ExecuteKeepsIInv, CallFunctionKeepsIInv
       DEF Processes, ServeSparql, ServeSqlCall
  <2>4. CASE UNCHANGED vars
    BY <2>4 DEF vars, IInv, TypeOK, HitsNeedTwoTables, Sound, Coherent, SeesCommitted, HoldsNoBad
  <2>. QED
    BY <2>1, <2>2, <2>3, <2>4 DEF Next
<1>. QED
  BY <1>1, <1>2, PTL DEF Spec

\* Every variable keeps its type, for any number of processes, rows and texts.
THEOREM TypeCorrect == Spec => []TypeOK
  BY InvariantHolds, IInvGivesProperties, PTL

\* A refresh never leaves a plan of other mappings in a cache (lib.rs:613-621), however
\* refreshes, translations and writes of all processes interleave.
THEOREM CachesAreCoherent == Spec => []CacheCoherent
  BY InvariantHolds, IInvGivesProperties, PTL

\* No process translates with rows that another may still roll back: what an engine
\* was built from (lib.rs:599-624) was committed, or its own.
THEOREM EnginesHoldCommitted == Spec => []EnginesSeeCommitted
  BY InvariantHolds, IInvGivesProperties, PTL

\* A document that does not load is in no engine (r2rml_loader.rs:245).
THEOREM NoEngineHoldsBad == Spec => []NoBadMapping
  BY InvariantHolds, IInvGivesProperties, PTL

\* In a schema of fewer than two tables the cache never answers (lib.rs:805).
THEOREM HitsTakeTwoTables == Spec => []HitsNeedTwoTables
  BY InvariantHolds, IInvGivesProperties, PTL
=============================================================================
