------------------------------ MODULE PlanCache ------------------------------
(***************************************************************************)
(* One CacheManager (optimizer/cache.rs) behind its Arc<Mutex<..>>, and    *)
(* the clones of OntopEngine that call translate_with_cache (lib.rs) on    *)
(* it.  A call that misses holds the mutex twice: once to look up, once    *)
(* to insert the SQL it translated in between.  All times are whole        *)
(* seconds of the wall clock, which an administrator or NTP may set back   *)
(* between any two readings, those of one critical section included.       *)
(* Every age is an unchecked u64 subtraction: a build with overflow checks *)
(* panics inside the critical section and poisons the mutex, a release     *)
(* build wraps.                                                            *)
(***************************************************************************)
EXTENDS Integers, FiniteSets

CONSTANTS Callers,        \* engine clones sharing the manager
          Texts,          \* SPARQL query texts
          Keys,           \* cache keys ("query_<hash>")
          Hash,           \* Hash[t]: DefaultHasher over the text
          Configs,        \* the CacheConfig values and builds considered
          NoPlan,         \* an absent entry
          NoText,         \* no translation under way
          NoAnswer,       \* no plan was served by the last step
          Word,           \* 2^64: where unsigned arithmetic wraps
          MaxNow,         \* bound: the latest second considered
          MaxStepBacks,   \* bound: how often the clock is set back
          MaxCalls        \* bound: calls of translate_with_cache

\* A CacheConfig, with the build's reaction to an unsigned underflow.
ConfigType == [enabled : BOOLEAN, max_size : Nat, max_age : Nat,
               cleanup_interval : Nat, smart : BOOLEAN, checked : BOOLEAN]

Plans == [sql : Texts, created_at : 0 .. MaxNow, last_accessed : 0 .. MaxNow]

ASSUME BoundsAssumption ==
    /\ MaxNow \in Nat
    /\ MaxStepBacks \in Nat
    /\ MaxCalls \in Nat
    /\ Word \in Nat
ASSUME KeysAssumption ==
    /\ IsFiniteSet(Keys)
    /\ Hash \in [Texts -> Keys]
    /\ \A t, u \in Texts : Hash[t] = Hash[u] => t = u
ASSUME ConfigsAssumption ==
    /\ Configs \subseteq ConfigType
    /\ \A c \in Configs : c.max_size > 0 /\ Word > c.max_age + MaxNow
Answers == [text : Texts, plan : Plans, looked : 0 .. MaxNow]
ASSUME MarkersAssumption == /\ NoPlan \notin Plans /\ NoPlan \notin Texts
                            /\ NoAnswer \notin Answers
                            /\ NoText \notin Texts

VARIABLES config,         \* the configuration the manager was built with
          clock,          \* SystemTime::now(), in seconds, and how often it
                          \* was set back
          manager,        \* the CacheManager: plans, counters, last_cleanup
          poisoned,       \* a panic happened while the mutex was held
          translating,    \* the text each caller translates, or NoText
          answer,         \* the plan served by the last step
          calls,          \* calls begun
          inserted,       \* plans inserted since the last clear
          expired         \* plans dropped as expired by a lookup, since then

callerVars == <<translating, calls>>
vars == <<config, clock, manager, poisoned, translating, answer,
          calls, inserted, expired>>

Managers == [plans : [Keys -> Plans \cup {NoPlan}], hits : Nat, misses : Nat,
             evictions : Nat, last_cleanup : 0 .. MaxNow]

\* What a reading of the clock may show, and what one taken after r may: later,
\* or anything once the clock was set back in between.
Readings == [time : 0 .. MaxNow, stepBacks : 0 .. MaxStepBacks]
After(r) == {l \in Readings : \/ l.stepBacks = r.stepBacks /\ l.time >= r.time
                              \/ l.stepBacks > r.stepBacks}

\* u64 subtraction: what it yields, and when a checked build panics.
Minus(a, b) == IF b <= a THEN a - b ELSE Word + a - b
Underflows(a, b) == config.checked /\ a < b

Cached(m) == {k \in Keys : m.plans[k] # NoPlan}
Size(m) == Cardinality(Cached(m))
Without(m, gone) ==
    [m EXCEPT !.plans = [k \in Keys |-> IF k \in gone THEN NoPlan ELSE @[k]]]
WithPlan(m, k, p) == [m EXCEPT !.plans = [@ EXCEPT ![k] = p]]

\* generate_cache_key: the hash of the text, and of nothing else.
SharedCacheKey(t) == CHOOSE k \in Keys : TRUE \* mutant: hashes the context only
GenerateCacheKey(t) == Hash[t]

\* CachedPlan::new with the placeholder node and the SQL of text t.
NewPlan(t, at) == [sql |-> t, created_at |-> at, last_accessed |-> at]
RecordAccessAsDeadline(p, at) == \* mutant: stores when the plan will expire
    [p EXCEPT !.last_accessed = at + config.max_age]
RecordAccess(p, at) == [p EXCEPT !.last_accessed = at]
IsExpiredSliding(p, at) == \* mutant: an access prolongs the plan's life
    Minus(at, p.last_accessed) > config.max_age
IsExpiredSaturating(p, at) == \* mutant: a saturating age, zero for the future
    at >= p.created_at /\ at - p.created_at > config.max_age
IsExpired(p, at) == Minus(at, p.created_at) > config.max_age

-----------------------------------------------------------------------------
(* smart_eviction and cleanup_expired, run by periodic_cleanup, which each *)
(* read the clock again.  The score of a plan is a float made of its       *)
(* access rate, age and cost; the ranking it induces is left open, so any  *)
(* `to_remove` plans may be the lowest.                                    *)

TargetSize == (config.max_size * 3) \div 4
ToRemove(m) == Minus(Size(m), TargetSize)
HalfEmpty(m) == Size(m) <= config.max_size \div 2

SmartEvictions(m) ==
    IF HalfEmpty(m) THEN {m}
    ELSE {[Without(m, gone) EXCEPT !.evictions = @ + Cardinality(gone)] :
             gone \in {s \in SUBSET Cached(m) :
                          \/ Cardinality(s) = ToRemove(m)
                          \/ s = Cached(m) /\ Size(m) < ToRemove(m)}}
SmartEvictionPanics(m, at) ==
    /\ ~HalfEmpty(m)
    /\ \/ \E k \in Cached(m) :
             \/ Underflows(at, m.plans[k].created_at)
             \/ Underflows(m.plans[k].last_accessed, m.plans[k].created_at)
       \/ Underflows(Size(m), TargetSize)

CleanupExpiredUncounted(m, at) == \* mutant: forgets to count what it removes
    Without(m, {k \in Cached(m) : IsExpired(m.plans[k], at)})
CleanupExpired(m, at) ==
    LET gone == {k \in Cached(m) : IsExpired(m.plans[k], at)}
    IN  [Without(m, gone) EXCEPT !.evictions = @ + Cardinality(gone)]
CleanupExpiredPanics(m, at) ==
    \E k \in Cached(m) : Underflows(at, m.plans[k].created_at)

\* periodic_cleanup: whether it is due, judged at the time `due`, which it also
\* stores, and the removal, judged at the time `at`.
CleanupDue(m, due) == Minus(due, m.last_cleanup) >= config.cleanup_interval
PeriodicCleanupsNextDue(m, due, at) == \* mutant: stores when the next is due
    IF ~CleanupDue(m, due) THEN {m}
    ELSE {[n EXCEPT !.last_cleanup = due + config.cleanup_interval] :
             n \in IF config.smart THEN SmartEvictions(m) ELSE {CleanupExpired(m, at)}}
PeriodicCleanups(m, due, at) ==
    IF ~CleanupDue(m, due) THEN {m}
    ELSE {[n EXCEPT !.last_cleanup = due] :
             n \in IF config.smart THEN SmartEvictions(m) ELSE {CleanupExpired(m, at)}}
PeriodicCleanupPanics(m, due, at) ==
    \/ Underflows(due, m.last_cleanup)
    \/ /\ CleanupDue(m, due)
       /\ IF config.smart THEN SmartEvictionPanics(m, at) ELSE CleanupExpiredPanics(m, at)

-----------------------------------------------------------------------------
(* QueryPlanCache::get and insert.                                         *)

\* get takes the plan out, looks at its age, and puts it back with the time of
\* a second reading as its last access.
GetPanics(m, k, at) == k \in Cached(m) /\ Underflows(at, m.plans[k].created_at)
Hits(m, k, at) == k \in Cached(m) /\ ~IsExpired(m.plans[k], at)
GetHit(m, k, at) ==
    [WithPlan(m, k, RecordAccess(m.plans[k], at)) EXCEPT !.hits = @ + 1]
GetMiss(m, k) == [Without(m, {k}) EXCEPT !.misses = @ + 1]

\* evict_lru: HashMap order decides among equally old accesses.
LeastRecentlyUsed(m) ==
    {k \in Cached(m) : \A j \in Cached(m) :
        m.plans[k].last_accessed <= m.plans[j].last_accessed}
EvictLru(m) ==
    IF Cached(m) = {} THEN {m}
    ELSE {[Without(m, {k}) EXCEPT !.evictions = @ + 1] : k \in LeastRecentlyUsed(m)}
InsertsUnbounded(m, k, p) == {WithPlan(m, k, p)} \* mutant: inserts as warm_up does
InsertsInPlace(m, k, p) == \* mutant: overwrites the victim under the victim's key
    IF Size(m) >= config.max_size
    THEN {WithPlan(m, v, p) : v \in LeastRecentlyUsed(m)} ELSE {WithPlan(m, k, p)}
Inserts(m, k, p) ==
    {WithPlan(n, k, p) :
        n \in IF Size(m) >= config.max_size THEN EvictLru(m) ELSE {m}}

-----------------------------------------------------------------------------
(* translate_with_cache, one action per critical section.                  *)

Init == /\ config \in Configs
        /\ clock = [time |-> 0, stepBacks |-> 0]
        /\ manager = [plans |-> [k \in Keys |-> NoPlan], hits |-> 0, misses |-> 0,
                      evictions |-> 0, last_cleanup |-> clock.time]
        /\ poisoned = FALSE
        /\ translating = [c \in Callers |-> NoText]
        /\ answer = NoAnswer
        /\ calls = 0
        /\ inserted = 0
        /\ expired = 0

\* A panic unwinds through the guard: the mutex stays poisoned, what was
\* already done to the manager stays done, the caller gets an error.
Panic(c, m) == /\ poisoned' = TRUE
               /\ manager' = m
               /\ translating' = [translating EXCEPT ![c] = NoText]
               /\ answer' = NoAnswer
               /\ UNCHANGED <<inserted, expired>>

Serve(c, t, m, looked, used) ==
    /\ manager' = GetHit(m, GenerateCacheKey(t), used)
    /\ answer' = [text |-> t, plan |-> manager'.plans[GenerateCacheKey(t)],
                  looked |-> looked]
    /\ translating' = [translating EXCEPT ![c] = NoText]
    /\ UNCHANGED <<poisoned, inserted, expired>>

StartTranslating(c, t, m) == /\ manager' = m
                             /\ translating' = [translating EXCEPT ![c] = t]
                             /\ UNCHANGED inserted
StorePlan(c, t, m, made) ==
    /\ manager' \in Inserts(m, GenerateCacheKey(t), NewPlan(t, made))
    /\ translating' = [translating EXCEPT ![c] = NoText]
    /\ inserted' = inserted + 1

\* get_or_create(key, create_fn) on a healthy lock, after its cleanup left m.
\* With creates, create_fn yields the plan made when the section started;
\* without, it yields None.
AfterCleanup(c, t, creates, m, looked) ==
    LET k == GenerateCacheKey(t)
    IN  \/ /\ GetPanics(m, k, looked.time)
           /\ clock' = looked
           /\ Panic(c, Without(m, {k}))
        \/ /\ ~GetPanics(m, k, looked.time) /\ Hits(m, k, looked.time)
           /\ clock' \in After(looked)
           /\ Serve(c, t, m, looked.time, clock'.time)
        \/ /\ ~GetPanics(m, k, looked.time) /\ ~Hits(m, k, looked.time)
           /\ clock' = looked
           /\ IF creates THEN StorePlan(c, t, GetMiss(m, k), clock.time)
                         ELSE StartTranslating(c, t, GetMiss(m, k))
           /\ expired' = expired + Cardinality({k} \cap Cached(m))
           /\ answer' = NoAnswer
           /\ UNCHANGED poisoned

\* The clock is read by CachedPlan::new if a plan is made, by periodic_cleanup,
\* by the removal if one is due, by is_expired, and after a hit by record_access;
\* the first of these readings shows the time at which the section starts.
GetOrCreate(c, t, creates) ==
    \E due \in IF creates THEN After(clock) ELSE {clock} :
    \E cleaned \in IF CleanupDue(manager, due.time) THEN After(due) ELSE {due} :
        \/ /\ PeriodicCleanupPanics(manager, due.time, cleaned.time)
           /\ clock' = cleaned
           /\ Panic(c, manager)
        \/ /\ ~PeriodicCleanupPanics(manager, due.time, cleaned.time)
           /\ \E m \in PeriodicCleanups(manager, due.time, cleaned.time),
                 looked \in After(cleaned) : AfterCleanup(c, t, creates, m, looked)

\* The call begins; the cache is consulted unless disabled, and a poisoned
\* lock is an error before anything else.
BeginCall(c) ==
    /\ translating[c] = NoText
    /\ calls < MaxCalls
    /\ calls' = calls + 1
    /\ UNCHANGED config

Lookup(c, t) ==
    /\ BeginCall(c)
    /\ ~poisoned /\ config.enabled
    /\ GetOrCreate(c, t, FALSE)

Bypass(c) == \* a disabled cache, or the error of a poisoned lock
    /\ BeginCall(c)
    /\ poisoned \/ ~config.enabled
    /\ answer' = NoAnswer
    /\ UNCHANGED <<clock, manager, poisoned, translating, inserted, expired>>

\* The lock is taken again and the translated SQL offered to the cache.
Store(c) ==
    /\ translating[c] # NoText
    /\ ~poisoned
    /\ GetOrCreate(c, translating[c], TRUE)
    /\ UNCHANGED <<config, calls>>

\* The translation failed, or the lock was poisoned meanwhile.
GiveUp(c) ==
    /\ translating[c] # NoText
    /\ translating' = [translating EXCEPT ![c] = NoText]
    /\ answer' = NoAnswer
    /\ UNCHANGED <<config, clock, manager, poisoned, calls, inserted, expired>>

\* ontop_clear_cache; last_cleanup is kept, a poisoned lock refuses.
Clear ==
    /\ ~poisoned
    /\ manager' = [Without(manager, Keys) EXCEPT !.hits = 0, !.misses = 0,
                                                 !.evictions = 0]
    /\ inserted' = 0
    /\ expired' = 0
    /\ answer' = NoAnswer
    /\ UNCHANGED <<config, clock, poisoned, callerVars>>

\* Time passes, or the clock is set back, while no caller is in the section.
MoveClock == /\ clock' \in After(clock) \ {clock}
             /\ answer' = NoAnswer
             /\ UNCHANGED <<config, manager, poisoned, callerVars, inserted, expired>>

Next == \/ \E c \in Callers :
              \/ \E t \in Texts : Lookup(c, t)
              \/ Bypass(c)
              \/ Store(c)
              \/ GiveUp(c)
        \/ Clear
        \/ MoveClock

Spec == Init /\ [][Next]_vars

-----------------------------------------------------------------------------
(* What the cache owes its callers.                                        *)

TypeOK == /\ config \in Configs
          /\ clock \in Readings
          /\ manager \in Managers
          /\ poisoned \in BOOLEAN
          /\ translating \in [Callers -> Texts \cup {NoText}]
          /\ answer \in Answers \cup {NoAnswer}
          /\ calls \in 0 .. MaxCalls
          /\ inserted \in Nat
          /\ expired \in Nat

\* However lookups, cleanups and insertions interleave, the cache never holds
\* more plans than max_size (QueryPlanCache::insert evicts before it adds).
SizeBound == Size(manager) <= config.max_size

\* A plan served from the cache was created neither in the future nor more than
\* max_age seconds before its age was looked at, whatever the clock did since it
\* was stored.
ServedFresh == answer # NoAnswer =>
                  /\ answer.plan.created_at <= answer.looked
                  /\ answer.looked - answer.plan.created_at <= config.max_age

\* An entry sits under the key of the very text it was translated from, so a
\* second caller that stores late cannot make one query answer another's.
KeyedByOwnText == \A k \in Cached(manager) : Hash[manager.plans[k].sql] = k

\* get_access_rate subtracts created_at from last_accessed, unchecked.  A plan
\* comes to be accessed before it was created only when the clock is set back
\* within the critical section that serves it, between is_expired and
\* record_access: a clock set back earlier makes the plan expired, not served.
AccessedBeforeCreated(p) == p # NoPlan /\ p.last_accessed < p.created_at
AccessAfterCreation ==
    [][\A k \in Keys :
          /\ AccessedBeforeCreated(manager'.plans[k])
          /\ manager'.plans[k] # manager.plans[k]
          => clock'.stepBacks > clock.stepBacks]_vars

\* ontop_cache_stats accounts for every plan: what was inserted since the last
\* clear is still cached, was counted as an eviction, or was found expired by a
\* lookup.  Only the panic that poisons the lock may lose one.
Conservation == ~poisoned => inserted = Size(manager) + manager.evictions + expired

\* The mutex is poisoned for two reasons only: the clock was set back, or
\* smart_eviction met a cache more than half but less than three quarters full.
EvictionGap == /\ config.smart
               /\ \E n \in 0 .. config.max_size :
                    config.max_size \div 2 < n /\ n < TargetSize
PoisonCauses == poisoned => config.checked /\ (clock.stepBacks > 0 \/ EvictionGap)

\* The manager implements the lossy map a caller sees.
Lossy == INSTANCE LossyCache
           WITH Sql <- [t \in Texts |-> t],
                Nothing <- NoPlan,
                store <- [t \in Texts |->
                            IF manager.plans[Hash[t]] = NoPlan THEN NoPlan
                            ELSE manager.plans[Hash[t]].sql],
                reply <- IF answer = NoAnswer THEN NoPlan
                         ELSE <<answer.text, answer.plan.sql>>
ImplementsLossyCache == Lossy!Spec

\* The comment of smart_eviction (cache.rs:180): it removes the lowest scored
\* plans until the cache holds 75% of max_size.  So one call, even one that
\* also makes room for its own plan, never evicts below that size.
KeepsTargetSize ==
    [][manager'.evictions > manager.evictions + 1 =>
         Size(manager) - (manager'.evictions - manager.evictions) >= TargetSize - 1]_vars
=============================================================================
