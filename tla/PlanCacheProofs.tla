--------------------------- MODULE PlanCacheProofs ---------------------------
(***************************************************************************)
(* The safety invariants of PlanCache, for every set of callers, texts and *)
(* configurations.  The argument goes through the outcomes of each helper: *)
(* a cleanup, an eviction or a lookup yields a manager that is a part of   *)
(* the old one, and only an insertion, which evicted first, adds a plan.   *)
(***************************************************************************)
EXTENDS PlanCache, FiniteSetTheorems, TLAPS

USE DEF Managers

\* n holds nothing that m did not hold.
IsPartOf(n, m) == /\ n \in Managers
                  /\ \A k \in Keys : n.plans[k] \in {m.plans[k], NoPlan}

\* Every plan is under the key of its own text.
SoundPlans(m) == \A k \in Cached(m) : Hash[m.plans[k].sql] = k

Accounted(m) == Size(m) + m.evictions

\* The keys in use are finitely many, so that sizes are numbers.
LEMMA SizeIsNat ==
    ASSUME NEW m
    PROVE  /\ IsFiniteSet(Cached(m))
           /\ Size(m) \in Nat
<1>1. Cached(m) \in SUBSET Keys
  BY DEF Cached
<1>2. IsFiniteSet(Cached(m))
  BY <1>1, KeysAssumption, FS_Subset
<1> QED
  BY <1>2, FS_CardinalityType DEF Size

LEMMA AccountedIsNat ==
    ASSUME NEW m \in Managers
    PROVE  Accounted(m) \in Nat
<1>1. Size(m) \in Nat /\ m.evictions \in Nat
  BY SizeIsNat
<1> QED
  BY <1>1 DEF Accounted

\* A reading is typed, and so is what is read after it.
LEMMA ReadingsAreTyped ==
    ASSUME NEW r \in Readings, NEW l \in After(r)
    PROVE  /\ l \in Readings
           /\ l.time \in 0 .. MaxNow /\ r.time \in 0 .. MaxNow
           /\ l.stepBacks \in Nat /\ r.stepBacks \in Nat
           /\ r.stepBacks <= l.stepBacks
           /\ l.stepBacks = r.stepBacks => r.time <= l.time
  BY BoundsAssumption DEF Readings, After

LEMMA AfterIsTransitive ==
    ASSUME NEW q \in Readings, NEW r \in After(q), NEW l \in After(r)
    PROVE  l \in After(q)
  BY BoundsAssumption DEF Readings, After

\* A part of a manager is no larger, and as sound.
LEMMA PartIsSound ==
    ASSUME NEW m \in Managers, NEW n, IsPartOf(n, m)
    PROVE  /\ Cached(n) \subseteq Cached(m)
           /\ Size(n) <= Size(m)
           /\ SoundPlans(m) => SoundPlans(n)
<1>1. Cached(n) \subseteq Cached(m)
  BY DEF Cached, IsPartOf
<1>2. Size(n) <= Size(m)
  BY <1>1, SizeIsNat, FS_Subset DEF Size
<1>3. SoundPlans(m) => SoundPlans(n)
  BY <1>1 DEF SoundPlans, IsPartOf, Cached
<1> QED
  BY <1>1, <1>2, <1>3

\* Taking plans out: what is left, and how many they were.
LEMMA WithoutLeavesTheRest ==
    ASSUME NEW m \in Managers, NEW gone
    PROVE  /\ Without(m, gone) \in Managers
           /\ IsPartOf(Without(m, gone), m)
           /\ Cached(Without(m, gone)) = Cached(m) \ gone
           /\ Size(Without(m, gone)) = Size(m) - Cardinality(Cached(m) \cap gone)
           /\ Without(m, gone).evictions = m.evictions
           /\ Without(m, gone).last_cleanup = m.last_cleanup
           /\ \A k \in Keys \ gone : Without(m, gone).plans[k] = m.plans[k]
<1>1. Without(m, gone) =
        [plans |-> [k \in Keys |-> IF k \in gone THEN NoPlan ELSE m.plans[k]],
         hits |-> m.hits, misses |-> m.misses, evictions |-> m.evictions,
         last_cleanup |-> m.last_cleanup]
  BY DEF Without
<1>2. Without(m, gone) \in Managers /\ IsPartOf(Without(m, gone), m)
  BY <1>1 DEF IsPartOf
<1>3. Cached(Without(m, gone)) = Cached(m) \ gone
  BY <1>1 DEF Cached
<1>4. Size(Without(m, gone)) = Size(m) - Cardinality(Cached(m) \cap gone)
  BY <1>3, SizeIsNat, FS_Difference DEF Size
<1> QED
  BY <1>1, <1>2, <1>3, <1>4

\* Evicting a set of cached plans and counting them keeps the accounts.
LEMMA EvictionIsAccounted ==
    ASSUME NEW m \in Managers, NEW gone \in SUBSET Cached(m), NEW n,
           n = [Without(m, gone) EXCEPT !.evictions = @ + Cardinality(gone)]
    PROVE  /\ IsPartOf(n, m)
           /\ Accounted(n) = Accounted(m)
           /\ Size(n) = Size(m) - Cardinality(gone)
<1> DEFINE w == Without(m, gone)
<1>1. /\ w \in Managers /\ IsPartOf(w, m)
      /\ Size(w) = Size(m) - Cardinality(gone)
      /\ w.evictions = m.evictions
  <2>1. Cached(m) \cap gone = gone
    OBVIOUS
  <2> QED
    BY <2>1, WithoutLeavesTheRest
<1>2. Cardinality(gone) \in Nat
  BY SizeIsNat, FS_Subset, FS_CardinalityType
<1>3. /\ n.plans = w.plans
      /\ n.evictions = m.evictions + Cardinality(gone)
      /\ n \in Managers
  BY <1>1, <1>2
<1>4. Cached(n) = Cached(w)
  BY <1>3 DEF Cached
<1>5. Size(n) = Size(w)
  BY <1>4 DEF Size
<1>6. IsPartOf(n, m)
  BY <1>1, <1>3 DEF IsPartOf
<1> HIDE DEF w
<1> QED
  BY <1>1, <1>2, <1>3, <1>5, <1>6, SizeIsNat DEF Accounted

\* smart_eviction: whatever the ranking, a part is left and the rest counted.
LEMMA SmartEvictionIsAccounted ==
    ASSUME NEW m \in Managers, NEW n \in SmartEvictions(m)
    PROVE  IsPartOf(n, m) /\ Accounted(n) = Accounted(m)
<1>1. CASE n = m
  BY <1>1 DEF IsPartOf
<1>2. CASE n # m
  <2>1. PICK gone \in SUBSET Cached(m) :
            n = [Without(m, gone) EXCEPT !.evictions = @ + Cardinality(gone)]
    BY <1>2 DEF SmartEvictions
  <2> QED
    BY <2>1, EvictionIsAccounted
<1> QED
  BY <1>1, <1>2

\* cleanup_expired likewise.
LEMMA CleanupExpiredIsAccounted ==
    ASSUME NEW m \in Managers, NEW at
    PROVE  /\ IsPartOf(CleanupExpired(m, at), m)
           /\ Accounted(CleanupExpired(m, at)) = Accounted(m)
<1> DEFINE gone == {k \in Cached(m) : IsExpired(m.plans[k], at)}
<1>1. gone \in SUBSET Cached(m)
  OBVIOUS
<1>2. CleanupExpired(m, at) =
        [Without(m, gone) EXCEPT !.evictions = @ + Cardinality(gone)]
  BY DEF CleanupExpired
<1> HIDE DEF gone
<1> QED
  BY <1>1, <1>2, EvictionIsAccounted

\* So a periodic cleanup, due or not, leaves a part of the manager.
LEMMA PeriodicCleanupIsAccounted ==
    ASSUME NEW m \in Managers, NEW due \in 0 .. MaxNow, NEW at,
           NEW n \in PeriodicCleanups(m, due, at)
    PROVE  IsPartOf(n, m) /\ Accounted(n) = Accounted(m)
<1>1. CASE n = m
  BY <1>1 DEF IsPartOf
<1>2. CASE n # m
  <2>1. PICK l : /\ n = [l EXCEPT !.last_cleanup = due]
                 /\ l \in SmartEvictions(m) \/ l = CleanupExpired(m, at)
    BY <1>2 DEF PeriodicCleanups
  <2>2. IsPartOf(l, m) /\ Accounted(l) = Accounted(m)
    BY <2>1, SmartEvictionIsAccounted, CleanupExpiredIsAccounted
  <2>3. n \in Managers /\ n.plans = l.plans /\ n.evictions = l.evictions
    BY <2>1, <2>2 DEF IsPartOf
  <2>4. Size(n) = Size(l)
    BY <2>3 DEF Size, Cached
  <2> QED
    BY <2>2, <2>3, <2>4 DEF IsPartOf, Accounted
<1> QED
  BY <1>1, <1>2

\* A plan that get returns is no older than max_age and not from the future:
\* a wrapped age is beyond every max_age, and a checked build panicked.
LEMMA HitIsFresh ==
    ASSUME TypeOK, NEW m \in Managers, NEW k \in Keys, NEW at \in 0 .. MaxNow,
           Hits(m, k, at)
    PROVE  /\ m.plans[k] \in Plans
           /\ m.plans[k].created_at <= at
           /\ at - m.plans[k].created_at <= config.max_age
<1>1. m.plans[k] \in Plans
  BY DEF Hits, Cached
<1>2. config.max_age \in Nat /\ Word > config.max_age + MaxNow
  BY ConfigsAssumption DEF TypeOK, ConfigType
<1>3. m.plans[k].created_at \in 0 .. MaxNow
  BY <1>1 DEF Plans
<1>4. ~(Minus(at, m.plans[k].created_at) > config.max_age)
  BY DEF Hits, IsExpired
<1> QED
  BY <1>1, <1>2, <1>3, <1>4, BoundsAssumption DEF Minus

\* Putting a plan under a key changes that key only.
LEMMA WithPlanPutsOne ==
    ASSUME NEW m \in Managers, NEW k \in Keys, NEW p \in Plans
    PROVE  /\ WithPlan(m, k, p) \in Managers
           /\ WithPlan(m, k, p).plans = [m.plans EXCEPT ![k] = p]
           /\ WithPlan(m, k, p).evictions = m.evictions
           /\ Cached(WithPlan(m, k, p)) = Cached(m) \cup {k}
<1>1. [m.plans EXCEPT ![k] = p] \in [Keys -> Plans \cup {NoPlan}]
  OBVIOUS
<1>2. /\ WithPlan(m, k, p) \in Managers
      /\ WithPlan(m, k, p).plans = [m.plans EXCEPT ![k] = p]
      /\ WithPlan(m, k, p).evictions = m.evictions
  BY <1>1 DEF WithPlan
<1>3. Cached(WithPlan(m, k, p)) = Cached(m) \cup {k}
  BY <1>2, MarkersAssumption DEF Cached
<1> QED
  BY <1>2, <1>3

\* A hit keeps the plans, except for one newer access.
LEMMA HitKeepsPlans ==
    ASSUME TypeOK, NEW m \in Managers, NEW k \in Keys, NEW at \in 0 .. MaxNow,
           NEW used \in 0 .. MaxNow, Hits(m, k, at)
    PROVE  /\ GetHit(m, k, used) \in Managers
           /\ RecordAccess(m.plans[k], used) \in Plans
           /\ GetHit(m, k, used).plans =
                 [m.plans EXCEPT ![k] = RecordAccess(m.plans[k], used)]
           /\ GetHit(m, k, used).last_cleanup = m.last_cleanup
           /\ Size(GetHit(m, k, used)) = Size(m)
           /\ Accounted(GetHit(m, k, used)) = Accounted(m)
           /\ SoundPlans(m) => SoundPlans(GetHit(m, k, used))
<1> DEFINE p == RecordAccess(m.plans[k], used)
           w == WithPlan(m, k, p)
           g == GetHit(m, k, used)
<1>1. m.plans[k] \in Plans
  BY HitIsFresh
<1>2. p \in Plans /\ p.sql = m.plans[k].sql
  BY <1>1 DEF RecordAccess, Plans
<1>3. /\ g \in Managers
      /\ g.evictions = m.evictions
      /\ g.last_cleanup = m.last_cleanup
      /\ g.plans = [m.plans EXCEPT ![k] = p]
  <2>1. /\ w \in Managers /\ w.plans = [m.plans EXCEPT ![k] = p]
        /\ w.evictions = m.evictions
    BY <1>2, WithPlanPutsOne
  <2>2. w.last_cleanup = m.last_cleanup
    BY DEF WithPlan
  <2>3. g = [w EXCEPT !.hits = @ + 1]
    BY DEF GetHit
  <2> HIDE DEF w, g, p
  <2> QED
    BY <2>1, <2>2, <2>3
<1>4. Cached(g) = Cached(m)
  BY <1>1, <1>2, <1>3, MarkersAssumption DEF Cached
<1>5. SoundPlans(m) => SoundPlans(g)
  <2> HIDE DEF g, p
  <2> SUFFICES ASSUME SoundPlans(m), NEW j \in Cached(g)
               PROVE  Hash[g.plans[j].sql] = j
    BY DEF SoundPlans
  <2>1. CASE j = k
    BY <1>2, <1>3, <1>4, <2>1 DEF SoundPlans, Cached
  <2>2. CASE j # k
    BY <1>3, <1>4, <2>2 DEF SoundPlans, Cached
  <2> QED
    BY <2>1, <2>2
<1> QED
  BY <1>2, <1>3, <1>4, <1>5 DEF Size, Accounted

\* A miss drops at most the expired plan under the key, and counts it apart.
LEMMA MissDropsOne ==
    ASSUME NEW m \in Managers, NEW k \in Keys
    PROVE  /\ IsPartOf(GetMiss(m, k), m)
           /\ k \notin Cached(GetMiss(m, k))
           /\ Accounted(m) = Accounted(GetMiss(m, k)) + Cardinality({k} \cap Cached(m))
<1> DEFINE w == Without(m, {k})
           g == GetMiss(m, k)
<1>1. /\ w \in Managers /\ IsPartOf(w, m)
      /\ Cached(w) = Cached(m) \ {k}
      /\ Size(w) = Size(m) - Cardinality(Cached(m) \cap {k})
      /\ w.evictions = m.evictions
  BY WithoutLeavesTheRest
<1>2. g = [w EXCEPT !.misses = @ + 1]
  BY DEF GetMiss
<1>3. Cardinality({k} \cap Cached(m)) \in Nat /\ Cached(m) \cap {k} = {k} \cap Cached(m)
  BY FS_Singleton, FS_Intersection, FS_CardinalityType
<1> HIDE DEF w, g
<1>4. g \in Managers /\ g.plans = w.plans /\ g.evictions = m.evictions
  BY <1>1, <1>2
<1>5. Cached(g) = Cached(w) /\ Size(g) = Size(w)
  BY <1>4 DEF Cached, Size
<1>6. IsPartOf(g, m)
  BY <1>1, <1>4 DEF IsPartOf
<1>7. Accounted(m) = Accounted(g) + Cardinality({k} \cap Cached(m))
  <2>1. Size(m) \in Nat /\ Size(g) \in Nat /\ m.evictions \in Nat
    BY SizeIsNat
  <2>2. Size(g) = Size(m) - Cardinality({k} \cap Cached(m))
    BY <1>1, <1>3, <1>5, Zenon
  <2> QED
    BY <1>3, <1>4, <2>1, <2>2 DEF Accounted
<1> QED
  BY <1>1, <1>5, <1>6, <1>7 DEF g

\* evict_lru takes exactly one plan out of a cache that has one.
LEMMA LruEvictsOne ==
    ASSUME NEW m \in Managers, NEW n \in EvictLru(m)
    PROVE  /\ IsPartOf(n, m)
           /\ Accounted(n) = Accounted(m)
           /\ Size(m) > 0 => Size(n) = Size(m) - 1
<1>1. CASE Cached(m) = {}
  <2>1. n = m
    BY <1>1 DEF EvictLru
  <2>2. Size(m) = 0
    BY <1>1, FS_EmptySet DEF Size
  <2> QED
    BY <2>1, <2>2 DEF IsPartOf
<1>2. CASE Cached(m) # {}
  <2>1. PICK k \in Cached(m) : n = [Without(m, {k}) EXCEPT !.evictions = @ + 1]
    BY <1>2 DEF EvictLru, LeastRecentlyUsed
  <2>2. Cardinality({k}) = 1 /\ {k} \in SUBSET Cached(m)
    BY FS_Singleton
  <2>3. n = [Without(m, {k}) EXCEPT !.evictions = @ + Cardinality({k})]
    BY <2>1, <2>2
  <2> QED
    BY <2>2, <2>3, EvictionIsAccounted
<1> QED
  BY <1>1, <1>2

\* An insertion under a free key: the bound holds after it, the plans stay
\* sound, and exactly one plan was added.
LEMMA InsertKeepsBound ==
    ASSUME TypeOK, NEW m \in Managers, NEW t \in Texts, Hash[t] \notin Cached(m),
           Size(m) <= config.max_size, SoundPlans(m), NEW made \in 0 .. MaxNow,
           NEW n \in Inserts(m, Hash[t], NewPlan(t, made))
    PROVE  /\ n \in Managers
           /\ Size(n) <= config.max_size
           /\ SoundPlans(n)
           /\ Accounted(n) = Accounted(m) + 1
<1> DEFINE k == Hash[t]
           p == NewPlan(t, made)
<1>1. k \in Keys /\ p \in Plans
  BY KeysAssumption DEF NewPlan, Plans
<1>2. config.max_size \in Nat /\ config.max_size > 0
  BY ConfigsAssumption DEF TypeOK, ConfigType
<1>3. PICK e : /\ n = WithPlan(e, k, p)
               /\ IF Size(m) >= config.max_size THEN e \in EvictLru(m) ELSE e = m
  BY DEF Inserts
<1>4. /\ IsPartOf(e, m)
      /\ Accounted(e) = Accounted(m)
      /\ Size(e) < config.max_size
  <2>1. CASE Size(m) >= config.max_size
    BY <1>2, <1>3, <2>1, LruEvictsOne, SizeIsNat
  <2>2. CASE ~(Size(m) >= config.max_size)
    BY <1>2, <1>3, <2>2, SizeIsNat DEF IsPartOf
  <2> QED
    BY <2>1, <2>2
<1>5. e \in Managers /\ k \notin Cached(e) /\ SoundPlans(e)
  BY <1>4, PartIsSound DEF IsPartOf
<1>6. /\ n \in Managers
      /\ n.plans = [e.plans EXCEPT ![k] = p]
      /\ n.evictions = e.evictions
      /\ Cached(n) = Cached(e) \cup {k}
  BY <1>1, <1>3, <1>5, WithPlanPutsOne
<1>7. Size(n) = Size(e) + 1
  BY <1>5, <1>6, SizeIsNat, FS_AddElement DEF Size
<1>8. SoundPlans(n)
  <2> SUFFICES ASSUME NEW j \in Cached(n)
               PROVE  Hash[n.plans[j].sql] = j
    BY DEF SoundPlans
  <2>1. CASE j = k
    <3>1. n.plans[j] = p
      BY <1>1, <1>5, <1>6, <2>1
    <3> QED
      BY <3>1, <2>1 DEF NewPlan
  <2>2. CASE j # k
    BY <1>5, <1>6, <2>2 DEF SoundPlans, Cached
  <2> QED
    BY <2>1, <2>2
<1> HIDE DEF k, p
<1> QED
  BY <1>2, <1>4, <1>5, <1>6, <1>7, <1>8, SizeIsNat DEF Accounted

-----------------------------------------------------------------------------
(* The inductive invariant.  SizeBound and Conservation need each other's  *)
(* manager to be typed and its plans to be sound, since an insertion is    *)
(* accounted for only under a key that holds nothing.                      *)

IInv == /\ TypeOK
        /\ SizeBound
        /\ SoundPlans(manager)
        /\ ServedFresh
        /\ Conservation

\* The part of the invariant that a critical section can disturb, and the
\* variables it reads.
LEMMA InvFromManager ==
    ASSUME IInv, UNCHANGED config, clock' \in Readings,
           manager' \in Managers, SoundPlans(manager'),
           Size(manager') <= config.max_size,
           poisoned' \in BOOLEAN, calls' \in 0 .. MaxCalls,
           translating' \in [Callers -> Texts \cup {NoText}],
           inserted' \in Nat, expired' \in Nat,
           \/ answer' = NoAnswer
           \/ /\ answer' \in Answers
              /\ answer'.plan.created_at <= answer'.looked
              /\ answer'.looked - answer'.plan.created_at <= config.max_age,
           ~poisoned' => inserted' = Accounted(manager') + expired'
    PROVE  IInv'
<1>1. TypeOK'
  BY DEF IInv, TypeOK
<1>2. SizeBound'
  BY DEF SizeBound, Size, Cached
<1>3. ServedFresh'
  BY DEF ServedFresh
<1>4. Conservation'
  BY DEF Conservation, Accounted, Size, Cached
<1> QED
  BY <1>1, <1>2, <1>3, <1>4 DEF IInv, SoundPlans, Cached

\* A critical section either panics in its cleanup or goes on with a part of the
\* manager, and its readings of the clock follow one another.
LEMMA WaysThroughTheSection ==
    ASSUME TypeOK, NEW c \in Callers, NEW t \in Texts, NEW creates \in BOOLEAN,
           GetOrCreate(c, t, creates)
    PROVE  \E due \in After(clock) : \E cleaned \in After(due) :
              \/ /\ PeriodicCleanupPanics(manager, due.time, cleaned.time)
                 /\ clock' = cleaned
                 /\ Panic(c, manager)
              \/ \E m \in PeriodicCleanups(manager, due.time, cleaned.time) :
                 \E looked \in After(cleaned) : AfterCleanup(c, t, creates, m, looked)
<1>1. \A q \in Readings : q \in After(q)
  BY BoundsAssumption DEF After, Readings
<1>2. clock \in After(clock) /\ \A q \in After(clock) : q \in After(q)
  BY <1>1 DEF After, TypeOK
<1> QED
  BY <1>2, Zenon DEF GetOrCreate

\* The readings up to the look at the plan's age are typed and come after the
\* clock at the start; so does whatever comes after them.
LEMMA SectionTimes ==
    ASSUME TypeOK, NEW due \in After(clock), NEW cleaned \in After(due),
           NEW looked \in After(cleaned)
    PROVE  /\ due \in Readings /\ due.time \in 0 .. MaxNow
           /\ cleaned \in Readings /\ cleaned.time \in 0 .. MaxNow
           /\ cleaned \in After(clock)
           /\ looked \in Readings /\ looked.time \in 0 .. MaxNow
           /\ looked \in After(clock)
  BY ReadingsAreTyped, AfterIsTransitive DEF TypeOK

LEMMA GetOrCreateKeepsInv ==
    ASSUME IInv, ~poisoned, NEW c \in Callers, NEW t \in Texts,
           NEW creates \in BOOLEAN, GetOrCreate(c, t, creates),
           UNCHANGED config, calls' \in 0 .. MaxCalls
    PROVE  IInv'
<1> DEFINE k == Hash[t]
<1>1. /\ TypeOK /\ manager \in Managers /\ SoundPlans(manager)
      /\ Size(manager) <= config.max_size
      /\ inserted = Accounted(manager) + expired
      /\ clock \in Readings /\ clock.time \in 0 .. MaxNow
      /\ translating \in [Callers -> Texts \cup {NoText}]
      /\ inserted \in Nat /\ expired \in Nat
      /\ config.max_size \in Nat
  BY ConfigsAssumption
     DEF IInv, TypeOK, SizeBound, Conservation, Accounted, ConfigType, Readings
<1>2. k \in Keys
  BY KeysAssumption
\* A part of the manager left behind by a panic.
<1>3. ASSUME NEW n, IsPartOf(n, manager), Panic(c, n), clock' \in Readings
      PROVE  IInv'
  <2>1. n \in Managers /\ SoundPlans(n) /\ Size(n) <= config.max_size
    BY <1>1, <1>3, PartIsSound, SizeIsNat DEF IsPartOf
  <2>2. /\ poisoned' = TRUE /\ manager' = n /\ answer' = NoAnswer
        /\ inserted' = inserted /\ expired' = expired
        /\ translating' \in [Callers -> Texts \cup {NoText}]
    BY <1>1, <1>3 DEF Panic
  <2> QED
    BY <1>1, <1>3, <2>1, <2>2, InvFromManager
<1> DEFINE Way(due, cleaned) ==
              \/ clock' = cleaned /\ Panic(c, manager)
              \/ \E m \in PeriodicCleanups(manager, due.time, cleaned.time) :
                 \E looked \in After(cleaned) : AfterCleanup(c, t, creates, m, looked)
<1>due. PICK due \in After(clock) : \E cleaned \in After(due) : Way(due, cleaned)
  BY <1>1, WaysThroughTheSection
<1>4. PICK cleaned \in After(due) : Way(due, cleaned)
  BY <1>due
<1>5. due.time \in 0 .. MaxNow /\ cleaned \in Readings
  BY <1>1, ReadingsAreTyped
<1>6. CASE clock' = cleaned /\ Panic(c, manager)
  BY <1>1, <1>3, <1>5, <1>6 DEF IsPartOf
<1>7. CASE \E m \in PeriodicCleanups(manager, due.time, cleaned.time) :
           \E looked \in After(cleaned) : AfterCleanup(c, t, creates, m, looked)
  <2>1. PICK m \in PeriodicCleanups(manager, due.time, cleaned.time),
             looked \in After(cleaned) :
               \/ clock' = looked /\ Panic(c, Without(m, {k}))
               \/ /\ Hits(m, k, looked.time)
                  /\ clock' \in After(looked)
                  /\ Serve(c, t, m, looked.time, clock'.time)
               \/ /\ clock' = looked
                  /\ IF creates THEN StorePlan(c, t, GetMiss(m, k), clock.time)
                                ELSE StartTranslating(c, t, GetMiss(m, k))
                  /\ expired' = expired + Cardinality({k} \cap Cached(m))
                  /\ answer' = NoAnswer
                  /\ UNCHANGED poisoned
    BY <1>7 DEF AfterCleanup, GenerateCacheKey
  <2>2. IsPartOf(m, manager) /\ Accounted(m) = Accounted(manager)
    BY <1>1, <1>5, PeriodicCleanupIsAccounted
  <2>3. m \in Managers /\ SoundPlans(m) /\ Size(m) <= config.max_size
    <3>1. Size(m) <= Size(manager) /\ SoundPlans(m) /\ m \in Managers
      BY <1>1, <2>2, PartIsSound DEF IsPartOf
    <3> QED
      BY <1>1, <3>1, SizeIsNat
  <2>4. looked \in Readings /\ looked.time \in 0 .. MaxNow
    BY <1>5, ReadingsAreTyped
  <2>5. CASE clock' = looked /\ Panic(c, Without(m, {k}))
    <3>1. IsPartOf(Without(m, {k}), m)
      BY <2>3, WithoutLeavesTheRest
    <3>2. IsPartOf(Without(m, {k}), manager)
      BY <2>2, <3>1 DEF IsPartOf
    <3> QED
      BY <1>3, <2>4, <2>5, <3>2
  <2>6. CASE /\ Hits(m, k, looked.time)
             /\ clock' \in After(looked)
             /\ Serve(c, t, m, looked.time, clock'.time)
    <3>1. clock' \in Readings /\ clock'.time \in 0 .. MaxNow
      BY <2>4, <2>6, ReadingsAreTyped
    <3>2. /\ manager' = GetHit(m, k, clock'.time)
          /\ answer' = [text |-> t, plan |-> manager'.plans[k], looked |-> looked.time]
          /\ translating' = [translating EXCEPT ![c] = NoText]
          /\ UNCHANGED <<poisoned, inserted, expired>>
      BY <2>6 DEF Serve, GenerateCacheKey
    <3>3. /\ m.plans[k] \in Plans
          /\ m.plans[k].created_at <= looked.time
          /\ looked.time - m.plans[k].created_at <= config.max_age
      BY <1>1, <1>2, <2>3, <2>4, <2>6, HitIsFresh
    <3>4. /\ manager' \in Managers /\ SoundPlans(manager')
          /\ RecordAccess(m.plans[k], clock'.time) \in Plans
          /\ manager'.plans =
                [m.plans EXCEPT ![k] = RecordAccess(m.plans[k], clock'.time)]
          /\ Size(manager') = Size(m)
          /\ Accounted(manager') = Accounted(m)
      <4>1. TypeOK /\ m \in Managers /\ k \in Keys /\ Hits(m, k, looked.time)
        BY <1>1, <1>2, <2>3, <2>6
      <4> HIDE DEF k
      <4> QED
        BY <2>3, <2>4, <3>1, <3>2, <4>1, HitKeepsPlans
    <3>5. /\ manager'.plans[k] \in Plans
          /\ manager'.plans[k].created_at = m.plans[k].created_at
      BY <1>2, <2>3, <3>3, <3>4 DEF RecordAccess, Plans
    <3>6. /\ answer' \in Answers
          /\ answer'.plan.created_at <= answer'.looked
          /\ answer'.looked - answer'.plan.created_at <= config.max_age
      BY <2>4, <3>2, <3>3, <3>5 DEF Answers
    <3>7. translating' \in [Callers -> Texts \cup {NoText}]
      BY <1>1, <3>2
    <3>8. inserted' = Accounted(manager') + expired'
      BY <1>1, <2>2, <3>2, <3>4, Zenon
    <3>9. inserted' \in Nat /\ expired' \in Nat /\ poisoned' \in BOOLEAN
      BY <1>1, <3>2, Zenon DEF TypeOK
    <3>10. Size(manager') <= config.max_size
      BY <2>3, <3>4, Zenon
    <3> QED
      BY <3>1, <3>4, <3>6, <3>7, <3>8, <3>9, <3>10, InvFromManager
  <2>7. CASE /\ clock' = looked
             /\ IF creates THEN StorePlan(c, t, GetMiss(m, k), clock.time)
                           ELSE StartTranslating(c, t, GetMiss(m, k))
             /\ expired' = expired + Cardinality({k} \cap Cached(m))
             /\ answer' = NoAnswer
             /\ UNCHANGED poisoned
    <3> DEFINE g == GetMiss(m, k)
               d == Cardinality({k} \cap Cached(m))
    <3>1. /\ IsPartOf(g, m) /\ g \in Managers
          /\ Hash[t] \notin Cached(g)
          /\ Accounted(m) = Accounted(g) + d
      BY <1>2, <2>3, MissDropsOne DEF IsPartOf
    <3>2. SoundPlans(g) /\ Size(g) <= config.max_size
      BY <1>1, <2>3, <3>1, PartIsSound, SizeIsNat
    <3>3. d \in Nat /\ Accounted(g) \in Nat
      <4>1. d \in Nat
        BY FS_Singleton, FS_Intersection, FS_CardinalityType
      <4>2. g \in Managers
        BY <3>1
      <4> HIDE DEF g
      <4> QED
        BY <4>1, <4>2, AccountedIsNat
    <3> HIDE DEF g, d
    <3>4. /\ expired' = expired + d /\ expired' \in Nat
          /\ answer' = NoAnswer /\ poisoned' \in BOOLEAN /\ clock' \in Readings
      BY <1>1, <2>4, <2>7, <3>3 DEF d, TypeOK
    <3>5. inserted = Accounted(g) + d + expired
      BY <1>1, <2>2, <3>1, Zenon
    <3>6. CASE ~creates
      <4>1. manager' = g /\ inserted' = inserted
            /\ translating' \in [Callers -> Texts \cup {NoText}]
        BY <1>1, <2>7, <3>6 DEF StartTranslating, g
      <4>2. Accounted(manager') = Accounted(g)
        BY <4>1
      <4>3. inserted' = Accounted(manager') + expired'
        BY <1>1, <3>3, <3>4, <3>5, <4>1, <4>2
      <4> QED
        BY <1>1, <3>1, <3>2, <3>4, <4>1, <4>3, InvFromManager
    <3>7. CASE creates
      <4>1. /\ manager' \in Inserts(g, Hash[t], NewPlan(t, clock.time))
            /\ inserted' = inserted + 1
            /\ translating' \in [Callers -> Texts \cup {NoText}]
        BY <1>1, <2>7, <3>7 DEF StorePlan, GenerateCacheKey, g
      <4>2. /\ manager' \in Managers /\ SoundPlans(manager')
            /\ Size(manager') <= config.max_size
            /\ Accounted(manager') = Accounted(g) + 1
        BY <1>1, <3>1, <3>2, <4>1, InsertKeepsBound
      <4>3. inserted' = Accounted(manager') + expired' /\ inserted' \in Nat
        BY <1>1, <3>3, <3>4, <3>5, <4>1, <4>2
      <4> QED
        BY <3>4, <4>1, <4>2, <4>3, InvFromManager
    <3> QED
      BY <3>6, <3>7
  <2> QED
    BY <2>1, <2>5, <2>6, <2>7
<1> QED
  BY <1>4, <1>6, <1>7

\* Steps that leave the manager, its lock and its accounts alone.
LEMMA QuietStepKeepsInv ==
    ASSUME IInv, UNCHANGED <<config, manager, poisoned, inserted, expired>>,
           answer' \in {answer, NoAnswer}, clock' \in Readings,
           calls' \in 0 .. MaxCalls,
           translating' \in [Callers -> Texts \cup {NoText}]
    PROVE  IInv'
<1>1. TypeOK'
  BY DEF IInv, TypeOK
<1>2. SizeBound' /\ SoundPlans(manager)' /\ Conservation'
  BY DEF IInv, SizeBound, SoundPlans, Conservation, Size, Cached
<1>3. ServedFresh'
  BY DEF IInv, ServedFresh
<1> QED
  BY <1>1, <1>2, <1>3 DEF IInv

\* Clearing empties the accounts together with the plans.
LEMMA ClearKeepsInv ==
    ASSUME IInv, Clear
    PROVE  IInv'
<1> DEFINE w == Without(manager, Keys)
<1>1. /\ manager \in Managers /\ SoundPlans(manager)
      /\ config.max_size \in Nat
  BY ConfigsAssumption DEF IInv, TypeOK, ConfigType
<1>2. w \in Managers /\ Cached(w) = {}
  <2>1. Cached(manager) \ Keys = {}
    BY DEF Cached
  <2> QED
    BY <1>1, <2>1, WithoutLeavesTheRest
<1>3. manager' = [w EXCEPT !.hits = 0, !.misses = 0, !.evictions = 0]
  BY DEF Clear
<1> HIDE DEF w
<1>4. manager' \in Managers /\ manager'.plans = w.plans /\ manager'.evictions = 0
  BY <1>2, <1>3
<1>5. Cached(manager') = {}
  BY <1>2, <1>4 DEF Cached
<1>6. Size(manager') = 0
  BY <1>5, FS_EmptySet DEF Size
<1>7. SoundPlans(manager') /\ Accounted(manager') = 0
  BY <1>4, <1>5, <1>6 DEF SoundPlans, Accounted
<1>8. /\ UNCHANGED <<config, clock, poisoned, translating, calls>>
      /\ inserted' = 0 /\ expired' = 0 /\ answer' = NoAnswer
  BY DEF Clear, callerVars
<1>9. /\ clock' \in Readings /\ poisoned' \in BOOLEAN /\ calls' \in 0 .. MaxCalls
      /\ translating' \in [Callers -> Texts \cup {NoText}]
  BY <1>8 DEF IInv, TypeOK
<1> QED
  BY <1>1, <1>4, <1>6, <1>7, <1>8, <1>9, InvFromManager

LEMMA InitEstablishesInv == Init => IInv
<1> SUFFICES ASSUME Init PROVE IInv
  OBVIOUS
<1>1. /\ manager \in Managers
      /\ manager.plans = [k \in Keys |-> NoPlan]
      /\ manager.evictions = 0
  BY BoundsAssumption DEF Init
<1>2. Cached(manager) = {} /\ Size(manager) = 0
  <2>1. Cached(manager) = {}
    BY <1>1 DEF Cached
  <2> QED
    BY <2>1, FS_EmptySet DEF Size
<1>3. TypeOK
  <2>1. clock \in Readings /\ 0 \in 0 .. MaxCalls /\ 0 \in Nat
    BY BoundsAssumption DEF Init, Readings
  <2>2. translating \in [Callers -> Texts \cup {NoText}]
    BY DEF Init
  <2> HIDE DEF Managers
  <2> QED
    BY <1>1, <2>1, <2>2, Zenon DEF Init, TypeOK
<1>4. SizeBound
  BY <1>2, ConfigsAssumption DEF Init, SizeBound, ConfigType
<1>5. SoundPlans(manager)
  BY <1>2 DEF SoundPlans
<1>6. ServedFresh /\ Conservation
  BY <1>1, <1>2 DEF Init, ServedFresh, Conservation
<1> QED
  BY <1>3, <1>4, <1>5, <1>6 DEF IInv

LEMMA NextKeepsInv == IInv /\ [Next]_vars => IInv'
<1> SUFFICES ASSUME IInv, [Next]_vars PROVE IInv'
  OBVIOUS
<1> USE BoundsAssumption
<1>1. ASSUME NEW c \in Callers, NEW t \in Texts, Lookup(c, t) PROVE IInv'
  <2>1. /\ UNCHANGED config /\ BeginCall(c)
        /\ ~poisoned /\ GetOrCreate(c, t, FALSE)
    BY <1>1, Zenon DEF Lookup, BeginCall
  <2>2. calls' \in 0 .. MaxCalls
    BY <2>1 DEF BeginCall, IInv, TypeOK
  <2> QED
    BY <2>1, <2>2, GetOrCreateKeepsInv
<1>2. ASSUME NEW c \in Callers, Bypass(c) PROVE IInv'
  BY <1>2, QuietStepKeepsInv DEF Bypass, BeginCall, IInv, TypeOK
<1>3. ASSUME NEW c \in Callers, Store(c) PROVE IInv'
  <2>1. /\ UNCHANGED config
        /\ calls' \in 0 .. MaxCalls /\ translating[c] \in Texts
        /\ ~poisoned /\ GetOrCreate(c, translating[c], TRUE)
    BY <1>3 DEF Store, IInv, TypeOK
  <2> QED
    BY <2>1, GetOrCreateKeepsInv
<1>4. ASSUME NEW c \in Callers, GiveUp(c) PROVE IInv'
  BY <1>4, QuietStepKeepsInv DEF GiveUp, IInv, TypeOK
<1>5. CASE Clear
  BY <1>5, ClearKeepsInv
<1>6. CASE MoveClock
  BY <1>6, QuietStepKeepsInv DEF MoveClock, After, callerVars, IInv, TypeOK
<1>7. CASE UNCHANGED vars
  BY <1>7, QuietStepKeepsInv DEF vars, IInv, TypeOK
<1> QED
  BY <1>1, <1>2, <1>3, <1>4, <1>5, <1>6, <1>7 DEF Next

THEOREM Invariance == Spec => []IInv
  BY InitEstablishesInv, NextKeepsInv, PTL DEF Spec

\* Every reachable state of the cache and its callers is well typed.
THEOREM TypeCorrect == Spec => []TypeOK
<1>1. IInv => TypeOK
  BY DEF IInv
<1> QED
  BY <1>1, Invariance, PTL

\* The cache never exceeds max_size, whichever way its cleanups rank plans and
\* whenever they run (QueryPlanCache::insert).
THEOREM SizeNeverExceedsBound == Spec => []SizeBound
<1>1. IInv => SizeBound
  BY DEF IInv
<1> QED
  BY <1>1, Invariance, PTL

\* No expired and no future plan is ever served, however the clock is stepped
\* and in either build, provided 2^64 exceeds max_age and the clock together.
THEOREM NoStalePlanIsServed == Spec => []ServedFresh
<1>1. IInv => ServedFresh
  BY DEF IInv
<1> QED
  BY <1>1, Invariance, PTL

\* Entries sit under the key of their own text.
THEOREM EntriesAnswerTheirText == Spec => []KeyedByOwnText
<1>1. IInv => KeyedByOwnText
  BY DEF IInv, SoundPlans, KeyedByOwnText
<1> QED
  BY <1>1, Invariance, PTL

\* The statistics account for every inserted plan until a panic loses one.
THEOREM StatisticsAddUp == Spec => []Conservation
<1>1. IInv => Conservation
  BY DEF IInv
<1> QED
  BY <1>1, Invariance, PTL

-----------------------------------------------------------------------------
(* When a plan comes to be accessed before it was created.  Only a hit and *)
(* an insertion change a plan: the insertion writes one time twice, and    *)
(* the hit found the plan created before its first reading of the clock.   *)

Inverts(k) == /\ AccessedBeforeCreated(manager'.plans[k])
              /\ manager'.plans[k] # manager.plans[k]

LEMMA PartInvertsNone ==
    ASSUME IsPartOf(manager', manager), NEW k \in Keys
    PROVE  ~Inverts(k)
  BY DEF IsPartOf, Inverts, AccessedBeforeCreated

LEMMA HitInvertsBySetBack ==
    ASSUME TypeOK, NEW m, IsPartOf(m, manager), NEW k \in Keys, NEW j \in Keys,
           NEW looked \in Readings, looked \in After(clock), clock' \in After(looked),
           Hits(m, k, looked.time), manager' = GetHit(m, k, clock'.time), Inverts(j)
    PROVE  clock'.stepBacks > clock.stepBacks
<1>1. /\ m \in Managers /\ clock \in Readings
      /\ looked.time \in 0 .. MaxNow /\ clock'.time \in 0 .. MaxNow
      /\ clock'.stepBacks \in Nat /\ looked.stepBacks \in Nat /\ clock.stepBacks \in Nat
      /\ clock.stepBacks <= looked.stepBacks /\ looked.stepBacks <= clock'.stepBacks
      /\ clock'.stepBacks = looked.stepBacks => looked.time <= clock'.time
  BY ReadingsAreTyped DEF TypeOK, IsPartOf
<1>2. m.plans[k] \in Plans /\ m.plans[k].created_at <= looked.time
  BY <1>1, HitIsFresh
<1>3. manager'.plans = [m.plans EXCEPT ![k] = RecordAccess(m.plans[k], clock'.time)]
  BY <1>1, HitKeepsPlans
<1>4. CASE j # k
  <2>1. manager'.plans[j] \in {manager.plans[j], NoPlan}
    BY <1>1, <1>3, <1>4 DEF IsPartOf
  <2> QED
    BY <2>1 DEF Inverts, AccessedBeforeCreated
<1>5. CASE j = k
  <2>1. /\ manager'.plans[j].last_accessed = clock'.time
        /\ manager'.plans[j].created_at = m.plans[k].created_at
    BY <1>1, <1>2, <1>3, <1>5 DEF RecordAccess, Plans
  <2>2. clock'.time < m.plans[k].created_at
    BY <2>1 DEF Inverts, AccessedBeforeCreated
  <2>3. m.plans[k].created_at \in 0 .. MaxNow
    BY <1>2 DEF Plans
  <2> QED
    BY <1>1, <1>2, <2>2, <2>3
<1> QED
  BY <1>4, <1>5

LEMMA InsertionInvertsNone ==
    ASSUME TypeOK, NEW m, IsPartOf(m, manager), NEW t \in Texts, NEW j \in Keys,
           NEW made \in 0 .. MaxNow, manager' \in Inserts(m, Hash[t], NewPlan(t, made))
    PROVE  ~Inverts(j)
<1> DEFINE k == Hash[t]
           p == NewPlan(t, made)
<1>1. /\ m \in Managers /\ k \in Keys /\ p \in Plans
      /\ p.created_at = made /\ p.last_accessed = made
  BY KeysAssumption DEF IsPartOf, NewPlan, Plans
<1>2. PICK e : /\ manager' = WithPlan(e, k, p)
               /\ e \in EvictLru(m) \/ e = m
  BY DEF Inserts
<1>3. IsPartOf(e, m)
  BY <1>1, <1>2, LruEvictsOne DEF IsPartOf
<1>4. e \in Managers /\ IsPartOf(e, manager)
  BY <1>1, <1>3 DEF IsPartOf
<1> HIDE DEF p, k
<1>5. manager'.plans = [e.plans EXCEPT ![k] = p]
  BY <1>1, <1>2, <1>4, WithPlanPutsOne
<1>6. CASE j = k
  BY <1>1, <1>4, <1>5, <1>6 DEF Inverts, AccessedBeforeCreated
<1>7. CASE j # k
  BY <1>4, <1>5, <1>7 DEF Inverts, AccessedBeforeCreated, IsPartOf
<1> QED
  BY <1>6, <1>7

LEMMA SectionInvertsBySetBack ==
    ASSUME TypeOK, NEW c \in Callers, NEW t \in Texts, NEW creates \in BOOLEAN,
           GetOrCreate(c, t, creates), NEW j \in Keys, Inverts(j)
    PROVE  clock'.stepBacks > clock.stepBacks
<1> DEFINE k == Hash[t]
<1>1. /\ manager \in Managers /\ clock \in Readings /\ clock.time \in 0 .. MaxNow
      /\ k \in Keys
  BY KeysAssumption DEF TypeOK, Readings
<1>2. PICK due \in After(clock) : \E cleaned \in After(due) :
         \/ manager' = manager
         \/ \E m \in PeriodicCleanups(manager, due.time, cleaned.time) :
            \E looked \in After(cleaned) : AfterCleanup(c, t, creates, m, looked)
  BY WaysThroughTheSection DEF Panic
<1>3. PICK cleaned \in After(due) :
         \/ manager' = manager
         \/ \E m \in PeriodicCleanups(manager, due.time, cleaned.time) :
            \E looked \in After(cleaned) : AfterCleanup(c, t, creates, m, looked)
  BY <1>2
<1>4. PICK m \in PeriodicCleanups(manager, due.time, cleaned.time),
           looked \in After(cleaned) : AfterCleanup(c, t, creates, m, looked)
  BY <1>3 DEF Inverts
<1>5. IsPartOf(m, manager) /\ m \in Managers
  <2>1. due.time \in 0 .. MaxNow
    BY <1>1, ReadingsAreTyped
  <2> QED
    BY <1>1, <2>1, PeriodicCleanupIsAccounted DEF IsPartOf
<1>6. looked \in Readings /\ looked \in After(clock)
  BY SectionTimes
<1>7. ASSUME NEW n, IsPartOf(n, m) PROVE IsPartOf(n, manager)
  BY <1>5, <1>7 DEF IsPartOf
<1>8. CASE manager' = Without(m, {k})
  <2>1. IsPartOf(manager', m)
    BY <1>5, <1>8, WithoutLeavesTheRest
  <2> QED
    BY <1>7, <2>1, PartInvertsNone
<1>9. CASE /\ Hits(m, k, looked.time)
           /\ clock' \in After(looked)
           /\ manager' = GetHit(m, k, clock'.time)
  BY <1>1, <1>5, <1>6, <1>9, HitInvertsBySetBack
<1>10. CASE IF creates
            THEN manager' \in Inserts(GetMiss(m, k), k, NewPlan(t, clock.time))
            ELSE manager' = GetMiss(m, k)
  <2>1. IsPartOf(GetMiss(m, k), manager)
    BY <1>1, <1>5, <1>7, MissDropsOne
  <2> QED
    BY <1>1, <1>10, <2>1, PartInvertsNone, InsertionInvertsNone
<1> QED
  BY <1>4, <1>8, <1>9, <1>10
     DEF AfterCleanup, GenerateCacheKey, Panic, Serve, StorePlan, StartTranslating

\* The difference that get_access_rate takes unchecked falls below zero only after a hit
\* during which the clock was set back (cache.rs:46, :38 and :56).
THEOREM AccessesFollowCreation == Spec => AccessAfterCreation
<1>1. IInv /\ [Next]_vars => [\A k \in Keys :
         Inverts(k) => clock'.stepBacks > clock.stepBacks]_vars
  <2> SUFFICES ASSUME IInv, Next, NEW k \in Keys, Inverts(k)
               PROVE  clock'.stepBacks > clock.stepBacks
    OBVIOUS
  <2>1. TypeOK
    BY DEF IInv
  <2>2. ASSUME NEW c \in Callers, NEW t \in Texts, Lookup(c, t)
        PROVE  clock'.stepBacks > clock.stepBacks
    BY <2>1, <2>2, SectionInvertsBySetBack DEF Lookup
  <2>3. ASSUME NEW c \in Callers, Store(c)
        PROVE  clock'.stepBacks > clock.stepBacks
    <3>1. translating[c] \in Texts /\ GetOrCreate(c, translating[c], TRUE)
      BY <2>1, <2>3 DEF Store, TypeOK
    <3> QED
      BY <2>1, <3>1, SectionInvertsBySetBack
  <2>4. manager' # manager
    BY DEF Inverts
  <2>5. ~Clear
    <3> SUFFICES ASSUME Clear PROVE FALSE
      OBVIOUS
    <3> DEFINE w == Without(manager, Keys)
    <3>1. manager \in Managers /\ w \in Managers /\ IsPartOf(w, manager)
      BY <2>1, WithoutLeavesTheRest DEF TypeOK
    <3>2. manager' = [w EXCEPT !.hits = 0, !.misses = 0, !.evictions = 0]
      BY DEF Clear
    <3> HIDE DEF w
    <3>3. manager' \in Managers /\ manager'.plans = w.plans
      BY <3>1, <3>2
    <3>4. IsPartOf(manager', manager)
      BY <3>1, <3>3 DEF IsPartOf
    <3> QED
      BY <3>4, PartInvertsNone
  <2> QED
    BY <2>2, <2>3, <2>4, <2>5 DEF Next, Bypass, GiveUp, MoveClock
<1>2. [\A k \in Keys : Inverts(k) => clock'.stepBacks > clock.stepBacks]_vars
         => [\A k \in Keys : /\ AccessedBeforeCreated(manager'.plans[k])
                             /\ manager'.plans[k] # manager.plans[k]
                             => clock'.stepBacks > clock.stepBacks]_vars
  BY DEF Inverts
<1> QED
  BY <1>1, <1>2, Invariance, PTL DEF Spec, AccessAfterCreation

-----------------------------------------------------------------------------
(* Why the mutex is poisoned.  As long as the clock was never set back no  *)
(* time that the manager holds lies ahead of it, and no plan was accessed  *)
(* before it was created, so that the only u64 subtraction left to         *)
(* underflow is the one of smart_eviction.                                 *)

TimesArePast(m, at) ==
    /\ m.last_cleanup <= at
    /\ \A k \in Cached(m) : /\ m.plans[k].created_at <= at
                            /\ m.plans[k].created_at <= m.plans[k].last_accessed

TimesPast == clock.stepBacks = 0 => TimesArePast(manager, clock.time)

LEMMA PartHasPastTimes ==
    ASSUME NEW m \in Managers, NEW n, IsPartOf(n, m), NEW at, TimesArePast(m, at),
           n.last_cleanup <= at
    PROVE  TimesArePast(n, at)
  BY DEF TimesArePast, IsPartOf, Cached

LEMMA PastStaysPast ==
    ASSUME NEW m \in Managers, NEW at \in 0 .. MaxNow, NEW later \in 0 .. MaxNow,
           at <= later, TimesArePast(m, at)
    PROVE  TimesArePast(m, later)
<1>1. ASSUME NEW k \in Cached(m) PROVE m.plans[k].created_at <= later
  <2>1. m.plans[k].created_at \in 0 .. MaxNow /\ m.plans[k].created_at <= at
    BY <1>1 DEF Cached, Plans, TimesArePast
  <2> QED
    BY <2>1
<1> QED
  BY <1>1 DEF TimesArePast

LEMMA CleanupHasPastTimes ==
    ASSUME NEW m \in Managers, NEW due \in 0 .. MaxNow, NEW at,
           NEW n \in PeriodicCleanups(m, due, at), TimesArePast(m, due)
    PROVE  TimesArePast(n, due)
<1>1. CASE n = m
  BY <1>1
<1>2. CASE n # m
  <2>1. IsPartOf(n, m)
    BY PeriodicCleanupIsAccounted
  <2>2. PICK l : n = [l EXCEPT !.last_cleanup = due] /\ l \in Managers
    <3>1. PICK l : /\ n = [l EXCEPT !.last_cleanup = due]
                   /\ l \in SmartEvictions(m) \/ l = CleanupExpired(m, at)
      BY <1>2 DEF PeriodicCleanups
    <3>2. l \in Managers
      BY <3>1, SmartEvictionIsAccounted, CleanupExpiredIsAccounted DEF IsPartOf
    <3> QED
      BY <3>1, <3>2
  <2>3. n.last_cleanup <= due
    BY <2>2
  <2> QED
    BY <2>1, <2>3, PartHasPastTimes
<1> QED
  BY <1>1, <1>2

\* With past times nothing underflows but the gap of smart_eviction.
LEMMA CleanupPanicsInTheGap ==
    ASSUME TypeOK, SizeBound, NEW due \in 0 .. MaxNow, NEW at \in 0 .. MaxNow,
           due <= at, TimesArePast(manager, due), PeriodicCleanupPanics(manager, due, at)
    PROVE  EvictionGap
<1>1. manager.last_cleanup \in 0 .. MaxNow
  BY DEF TypeOK
<1>2. ~Underflows(due, manager.last_cleanup)
  BY <1>1 DEF TimesArePast, Underflows
<1>3. ASSUME NEW k \in Cached(manager)
      PROVE  /\ ~Underflows(at, manager.plans[k].created_at)
             /\ ~Underflows(manager.plans[k].last_accessed, manager.plans[k].created_at)
  <2>1. manager.plans[k] \in Plans
    BY DEF TypeOK, Cached
  <2> QED
    BY <2>1 DEF TimesArePast, Underflows, Plans
<1>4. config.smart /\ SmartEvictionPanics(manager, at)
  BY <1>2, <1>3 DEF PeriodicCleanupPanics, CleanupExpiredPanics
<1>5. ~HalfEmpty(manager) /\ Underflows(Size(manager), TargetSize)
  BY <1>3, <1>4 DEF SmartEvictionPanics
<1>6. config.max_size \in Nat /\ Size(manager) \in Nat
  BY SizeIsNat, ConfigsAssumption DEF TypeOK, ConfigType
<1>7. Size(manager) \in 0 .. config.max_size
  BY <1>6 DEF SizeBound
<1>8. config.max_size \div 2 < Size(manager) /\ Size(manager) < TargetSize
  BY <1>5, <1>6 DEF HalfEmpty, Underflows
<1> QED
  BY <1>4, <1>7, <1>8 DEF EvictionGap

LEMMA OnlyCheckedBuildsPanic ==
    ASSUME NEW m, NEW k, NEW due, NEW at,
           PeriodicCleanupPanics(m, due, at) \/ GetPanics(m, k, at)
    PROVE  config.checked
  BY DEF PeriodicCleanupPanics, SmartEvictionPanics, CleanupExpiredPanics, GetPanics,
         Underflows

LEMMA HitHasPastTimes ==
    ASSUME TypeOK, NEW m \in Managers, NEW k \in Keys, NEW at \in 0 .. MaxNow,
           NEW used \in 0 .. MaxNow, at <= used, Hits(m, k, at), TimesArePast(m, at)
    PROVE  TimesArePast(GetHit(m, k, used), used)
<1> DEFINE g == GetHit(m, k, used)
           p == RecordAccess(m.plans[k], used)
<1>1. m.plans[k] \in Plans /\ m.plans[k].created_at <= at /\ k \in Cached(m)
  BY HitIsFresh DEF Hits
<1>2. /\ p \in Plans /\ p.created_at = m.plans[k].created_at /\ p.last_accessed = used
      /\ m.plans[k].created_at \in 0 .. MaxNow
  BY <1>1 DEF RecordAccess, Plans
<1>3. /\ g \in Managers /\ g.last_cleanup = m.last_cleanup
      /\ g.plans = [m.plans EXCEPT ![k] = p]
  BY HitKeepsPlans
<1> HIDE DEF g, p
<1>4. TimesArePast(m, used)
  BY PastStaysPast
<1>5. ASSUME NEW j \in Cached(g)
      PROVE  /\ g.plans[j].created_at <= used
             /\ g.plans[j].created_at <= g.plans[j].last_accessed
  <2>1. CASE j = k
    BY <1>1, <1>2, <1>3, <2>1
  <2>2. CASE j # k
    BY <1>3, <1>4, <2>2 DEF TimesArePast, Cached
  <2> QED
    BY <2>1, <2>2
<1> QED
  BY <1>3, <1>4, <1>5 DEF TimesArePast, g

LEMMA InsertionHasPastTimes ==
    ASSUME NEW m \in Managers, NEW at \in 0 .. MaxNow, TimesArePast(m, at),
           NEW t \in Texts, NEW made \in 0 .. MaxNow, made <= at,
           NEW n \in Inserts(m, Hash[t], NewPlan(t, made))
    PROVE  TimesArePast(n, at)
<1> DEFINE k == Hash[t]
           p == NewPlan(t, made)
<1>1. /\ k \in Keys /\ p \in Plans
      /\ p.created_at = made /\ p.last_accessed = made
  BY KeysAssumption DEF NewPlan, Plans
<1>2. PICK e : /\ n = WithPlan(e, k, p)
               /\ e \in EvictLru(m) \/ e = m
  BY DEF Inserts
<1>3. IsPartOf(e, m) /\ e.last_cleanup = m.last_cleanup
  <2>1. CASE e = m
    BY <2>1 DEF IsPartOf
  <2>2. CASE e # m
    <3>1. PICK j \in Cached(m) : e = [Without(m, {j}) EXCEPT !.evictions = @ + 1]
      BY <1>2, <2>2 DEF EvictLru, LeastRecentlyUsed
    <3>2. Without(m, {j}).last_cleanup = m.last_cleanup /\ Without(m, {j}) \in Managers
      BY WithoutLeavesTheRest
    <3> QED
      BY <1>2, <2>2, <3>1, <3>2, LruEvictsOne
  <2> QED
    BY <2>1, <2>2
<1>4. TimesArePast(e, at) /\ e \in Managers
  BY <1>3, PartHasPastTimes DEF TimesArePast, IsPartOf
<1> HIDE DEF k, p
<1>5. /\ n.plans = [e.plans EXCEPT ![k] = p]
      /\ Cached(n) = Cached(e) \cup {k}
  BY <1>1, <1>2, <1>4, WithPlanPutsOne
<1>6. n.last_cleanup = e.last_cleanup
  BY <1>2, <1>4 DEF WithPlan
<1>7. \A j \in Cached(n) : /\ n.plans[j].created_at <= at
                          /\ n.plans[j].created_at <= n.plans[j].last_accessed
  BY <1>1, <1>4, <1>5 DEF TimesArePast, Cached
<1> QED
  BY <1>4, <1>6, <1>7 DEF TimesArePast

\* While the clock is never set back, its readings follow one another.
LEMMA ReadingsFollow ==
    ASSUME NEW q \in Readings, NEW l \in After(q), l.stepBacks = 0
    PROVE  /\ q.stepBacks = 0
           /\ q.time <= l.time
           /\ q.time \in 0 .. MaxNow /\ l.time \in 0 .. MaxNow
           /\ l \in Readings
  BY BoundsAssumption DEF Readings, After

\* One critical section keeps the times in the past and panics for cause only.
LEMMA SectionKeepsCauses ==
    ASSUME IInv, TimesPast, ~poisoned, NEW c \in Callers, NEW t \in Texts,
           NEW creates \in BOOLEAN, GetOrCreate(c, t, creates), clock'.stepBacks = 0
    PROVE  /\ TimesArePast(manager', clock'.time)
           /\ poisoned' => config.checked /\ EvictionGap
<1> DEFINE k == Hash[t]
           Way(due, cleaned) ==
              \/ /\ PeriodicCleanupPanics(manager, due.time, cleaned.time)
                 /\ clock' = cleaned
                 /\ Panic(c, manager)
              \/ \E m \in PeriodicCleanups(manager, due.time, cleaned.time) :
                 \E looked \in After(cleaned) : AfterCleanup(c, t, creates, m, looked)
<1>1. /\ TypeOK /\ SizeBound /\ manager \in Managers /\ k \in Keys
      /\ clock \in Readings
  BY KeysAssumption DEF IInv, TypeOK
<1>2. PICK due \in After(clock) : \E cleaned \in After(due) : Way(due, cleaned)
  BY <1>1, WaysThroughTheSection
<1>3. PICK cleaned \in After(due) : Way(due, cleaned)
  BY <1>2
<1>4. due \in Readings /\ cleaned \in Readings
  BY <1>1, ReadingsAreTyped
<1>5. ASSUME cleaned.stepBacks = 0
      PROVE  /\ due.time \in 0 .. MaxNow /\ cleaned.time \in 0 .. MaxNow
             /\ clock.time \in 0 .. MaxNow
             /\ clock.time <= due.time /\ due.time <= cleaned.time
             /\ clock.time <= cleaned.time
             /\ TimesArePast(manager, due.time)
  <2>1. due.stepBacks = 0 /\ clock.stepBacks = 0
    BY <1>1, <1>4, <1>5, ReadingsFollow
  <2>2. /\ due.time \in 0 .. MaxNow /\ cleaned.time \in 0 .. MaxNow
        /\ clock.time \in 0 .. MaxNow
        /\ clock.time <= due.time /\ due.time <= cleaned.time
    BY <1>1, <1>4, <1>5, <2>1, ReadingsFollow
  <2>3. TimesArePast(manager, due.time)
    BY <1>1, <2>1, <2>2, PastStaysPast DEF TimesPast
  <2> QED
    BY <2>2, <2>3
<1>6. CASE /\ PeriodicCleanupPanics(manager, due.time, cleaned.time)
           /\ clock' = cleaned
           /\ Panic(c, manager)
  <2>1. config.checked
    BY <1>6, OnlyCheckedBuildsPanic
  <2>2. EvictionGap
    BY <1>1, <1>5, <1>6, CleanupPanicsInTheGap
  <2>3. TimesArePast(manager, cleaned.time)
    BY <1>1, <1>5, <1>6, PastStaysPast
  <2> QED
    BY <1>6, <2>1, <2>2, <2>3 DEF Panic
<1>7. CASE \E m \in PeriodicCleanups(manager, due.time, cleaned.time) :
           \E looked \in After(cleaned) : AfterCleanup(c, t, creates, m, looked)
  <2>1. PICK m \in PeriodicCleanups(manager, due.time, cleaned.time),
             looked \in After(cleaned) :
          \/ GetPanics(m, k, looked.time) /\ clock' = looked
          \/ /\ Hits(m, k, looked.time)
             /\ clock' \in After(looked)
             /\ manager' = GetHit(m, k, clock'.time)
             /\ poisoned' = poisoned
          \/ /\ IF creates
                THEN manager' \in Inserts(GetMiss(m, k), k, NewPlan(t, clock.time))
                ELSE manager' = GetMiss(m, k)
             /\ clock' = looked
             /\ poisoned' = poisoned
    BY <1>7 DEF AfterCleanup, GenerateCacheKey, Serve, StorePlan, StartTranslating
  <2>2. looked \in Readings
    BY <1>4, ReadingsAreTyped
  <2>3. looked.stepBacks = 0 /\ looked.time \in 0 .. MaxNow
    BY <2>1, <2>2, ReadingsFollow DEF Readings
  <2>4. /\ cleaned.stepBacks = 0
        /\ cleaned.time <= looked.time
    BY <1>4, <2>3, ReadingsFollow
  <2>5. m \in Managers /\ TimesArePast(m, looked.time)
    <3>1. m \in Managers /\ TimesArePast(m, due.time)
      BY <1>1, <1>5, <2>4, PeriodicCleanupIsAccounted, CleanupHasPastTimes DEF IsPartOf
    <3> QED
      BY <1>5, <2>3, <2>4, <3>1, PastStaysPast
  <2>6. ~GetPanics(m, k, looked.time)
    <3> SUFFICES ASSUME GetPanics(m, k, looked.time) PROVE FALSE
      OBVIOUS
    <3>1. m.plans[k].created_at <= looked.time /\ m.plans[k] \in Plans
      BY <2>5 DEF TimesArePast, Cached, GetPanics
    <3> QED
      BY <2>3, <3>1 DEF GetPanics, Underflows, Plans
  <2>7. poisoned' = FALSE
    BY <1>1, <2>1, <2>6 DEF TypeOK
  <2>8. CASE /\ Hits(m, k, looked.time)
             /\ clock' \in After(looked)
             /\ manager' = GetHit(m, k, clock'.time)
    <3>1. looked.time <= clock'.time /\ clock'.time \in 0 .. MaxNow
      BY <2>2, <2>8, ReadingsFollow
    <3>2. TimesArePast(GetHit(m, k, clock'.time), clock'.time)
      <4>1. k \in Keys /\ Hits(m, k, looked.time)
        BY <1>1, <2>8
      <4> HIDE DEF k
      <4> QED
        BY <1>1, <2>3, <2>5, <3>1, <4>1, HitHasPastTimes
    <3> QED
      BY <2>7, <2>8, <3>2
  <2>9. CASE /\ IF creates
                THEN manager' \in Inserts(GetMiss(m, k), k, NewPlan(t, clock.time))
                ELSE manager' = GetMiss(m, k)
             /\ clock' = looked
    <3> DEFINE g == GetMiss(m, k)
    <3>1. IsPartOf(g, m) /\ g \in Managers
      BY <1>1, <2>5, MissDropsOne DEF IsPartOf
    <3>2. g.last_cleanup = m.last_cleanup
      <4>1. /\ Without(m, {k}) \in Managers
            /\ Without(m, {k}).last_cleanup = m.last_cleanup
        BY <2>5, WithoutLeavesTheRest
      <4> QED
        BY <4>1 DEF GetMiss
    <3>3. TimesArePast(g, looked.time)
      BY <2>5, <3>1, <3>2, PartHasPastTimes DEF TimesArePast
    <3> HIDE DEF g
    <3>4. clock.time \in 0 .. MaxNow /\ clock.time <= looked.time
      BY <1>5, <2>3, <2>4
    <3>5. TimesArePast(manager', looked.time)
      BY <2>3, <2>9, <3>1, <3>3, <3>4, InsertionHasPastTimes DEF g
    <3> QED
      BY <2>7, <2>9, <3>5
  <2> QED
    BY <2>1, <2>6, <2>8, <2>9
<1> QED
  BY <1>3, <1>6, <1>7

LEMMA GetOrCreateKeepsCauses ==
    ASSUME IInv, TimesPast, ~poisoned, NEW c \in Callers, NEW t \in Texts,
           NEW creates \in BOOLEAN, GetOrCreate(c, t, creates), UNCHANGED config,
           TypeOK'
    PROVE  TimesPast' /\ PoisonCauses'
<1>1. EvictionGap' <=> EvictionGap
  BY DEF EvictionGap, TargetSize
<1>2. clock'.stepBacks \in Nat
  BY BoundsAssumption DEF TypeOK, Readings
<1>3. CASE clock'.stepBacks = 0
  BY <1>1, <1>3, SectionKeepsCauses DEF TimesPast, PoisonCauses, TimesArePast, Cached
<1>4. CASE clock'.stepBacks # 0
  <2>1. poisoned' => config.checked
    <3> SUFFICES ASSUME poisoned' PROVE config.checked
      OBVIOUS
    <3>1. TypeOK /\ ~poisoned
      BY DEF IInv
    <3>2. \/ \E due \in After(clock) : \E cleaned \in After(due) :
                PeriodicCleanupPanics(manager, due.time, cleaned.time)
          \/ \E m, looked : GetPanics(m, Hash[t], looked.time)
          \/ UNCHANGED poisoned
      BY <3>1, WaysThroughTheSection DEF AfterCleanup, GenerateCacheKey, Serve
    <3> QED
      BY <3>1, <3>2, OnlyCheckedBuildsPanic DEF TypeOK
  <2> QED
    BY <1>2, <1>4, <2>1 DEF TimesPast, PoisonCauses
<1> QED
  BY <1>3, <1>4

\* A panic, and with it the loss of the cache for every later call, has one of two
\* causes: the clock was set back, or smart_eviction met a cache whose size lies
\* between its half and its target (cache.rs:180-212).
THEOREM PoisonHasCause == Spec => []PoisonCauses
<1>1. Init => TimesPast /\ PoisonCauses
  BY BoundsAssumption DEF Init, TimesPast, TimesArePast, PoisonCauses, Cached
<1>2. IInv /\ IInv' /\ TimesPast /\ PoisonCauses /\ [Next]_vars
         => TimesPast' /\ PoisonCauses'
  <2> SUFFICES ASSUME IInv, IInv', TimesPast, PoisonCauses, [Next]_vars
               PROVE  TimesPast' /\ PoisonCauses'
    OBVIOUS
  <2>1. TypeOK'
    BY DEF IInv
  <2>2. ASSUME NEW c \in Callers, NEW t \in Texts, Lookup(c, t)
        PROVE  TimesPast' /\ PoisonCauses'
    <3>1. UNCHANGED config /\ ~poisoned /\ GetOrCreate(c, t, FALSE)
      BY <2>2, Zenon DEF Lookup, BeginCall
    <3> QED
      BY <2>1, <3>1, GetOrCreateKeepsCauses
  <2>3. ASSUME NEW c \in Callers, Store(c) PROVE TimesPast' /\ PoisonCauses'
    <3>1. /\ UNCHANGED config /\ translating[c] \in Texts
          /\ ~poisoned /\ GetOrCreate(c, translating[c], TRUE)
      BY <2>3 DEF Store, IInv, TypeOK
    <3> QED
      BY <2>1, <3>1, GetOrCreateKeepsCauses
  <2>4. CASE UNCHANGED <<config, clock, manager, poisoned>>
    BY <2>4 DEF TimesPast, TimesArePast, PoisonCauses, EvictionGap, TargetSize, Cached
  <2>5. CASE Clear
    <3> DEFINE w == Without(manager, Keys)
    <3>1. /\ manager \in Managers /\ w \in Managers
          /\ w.last_cleanup = manager.last_cleanup
          /\ Cached(w) = {}
      <4>1. manager \in Managers /\ Cached(manager) \ Keys = {}
        BY DEF IInv, TypeOK, Cached
      <4> QED
        BY <4>1, WithoutLeavesTheRest
    <3>2. manager' = [w EXCEPT !.hits = 0, !.misses = 0, !.evictions = 0]
      BY <2>5 DEF Clear
    <3> HIDE DEF w
    <3>3. manager'.last_cleanup = manager.last_cleanup /\ Cached(manager') = {}
      BY <3>1, <3>2 DEF Cached
    <3>4. UNCHANGED <<config, clock, poisoned>>
      BY <2>5 DEF Clear
    <3> QED
      BY <3>3, <3>4 DEF TimesPast, TimesArePast, PoisonCauses, EvictionGap, TargetSize,
                        Cached
  <2>6. CASE MoveClock
    <3>1. /\ clock' \in After(clock) /\ clock \in Readings /\ manager \in Managers
          /\ UNCHANGED <<config, manager, poisoned>>
      BY <2>6 DEF MoveClock, IInv, TypeOK
    <3>2. clock'.stepBacks \in Nat /\ clock.stepBacks \in Nat
      BY <3>1, ReadingsAreTyped
    <3>3. CASE clock'.stepBacks = 0
      <4>1. /\ clock.stepBacks = 0 /\ clock.time <= clock'.time
            /\ clock.time \in 0 .. MaxNow /\ clock'.time \in 0 .. MaxNow
        BY <3>1, <3>3, ReadingsFollow
      <4>2. TimesArePast(manager, clock'.time)
        BY <3>1, <4>1, PastStaysPast DEF TimesPast
      <4> QED
        BY <3>1, <3>3, <4>1, <4>2
           DEF TimesPast, TimesArePast, PoisonCauses, EvictionGap, TargetSize, Cached
    <3>4. CASE clock'.stepBacks # 0
      BY <3>1, <3>2, <3>4 DEF TimesPast, PoisonCauses
    <3> QED
      BY <3>3, <3>4
  <2> QED
    BY <2>2, <2>3, <2>4, <2>5, <2>6
       DEF Next, Bypass, BeginCall, GiveUp, vars
<1> QED
  BY <1>1, <1>2, Invariance, PTL DEF Spec

-----------------------------------------------------------------------------
(* PlanCache implements LossyCache: with its sizes, ages, statistics and   *)
(* panics forgotten, every critical section of a CacheManager is one step  *)
(* of a map that forgets, remembers or serves.  A step that leaves behind  *)
(* a part of the manager and no answer forgets; the only step that makes a *)
(* text known is the insertion of what was translated for it.              *)

\* What manager m knows of text t, the abstract store at t.
Known(m, t) == IF m.plans[Hash[t]] = NoPlan THEN NoPlan ELSE m.plans[Hash[t]].sql
StoreOf(m) == [t \in Texts |-> Known(m, t)]
ReplyOf(a) == IF a = NoAnswer THEN NoPlan ELSE <<a.text, a.plan.sql>>
Stores == [Texts -> {NoPlan} \cup Texts]

LEMMA AbstractState ==
    /\ Lossy!vars = <<StoreOf(manager), ReplyOf(answer)>>
    /\ Lossy!vars' = <<StoreOf(manager'), ReplyOf(answer')>>
  BY DEF Lossy!vars, StoreOf, ReplyOf, Known

LEMMA StoreIsTyped ==
    ASSUME NEW m \in Managers
    PROVE  /\ StoreOf(m) \in Stores
           /\ \A t \in Texts : StoreOf(m)[t] = Known(m, t)
<1>1. \A t \in Texts : Hash[t] \in Keys
  BY KeysAssumption
<1>2. \A t \in Texts : Known(m, t) \in {NoPlan} \cup Texts
  BY <1>1 DEF Known, Plans
<1> QED
  BY <1>2 DEF StoreOf, Stores

\* A part of a manager knows a part of what the manager knows.
LEMMA PartKnowsPart ==
    ASSUME NEW m \in Managers, NEW n, IsPartOf(n, m)
    PROVE  /\ \A t \in Texts : Known(n, t) \in {Known(m, t), NoPlan}
           /\ \A t \in Texts : n.plans[Hash[t]] # NoPlan => Known(n, t) = Known(m, t)
  BY KeysAssumption DEF Known, IsPartOf

\* What a text is known as is the text, the identity being the SQL of a text here.
LEMMA KnownIsOwn ==
    ASSUME NEW m \in Managers, SoundPlans(m), NEW t \in Texts
    PROVE  Known(m, t) \in {t, NoPlan}
<1>1. Hash[t] \in Keys
  BY KeysAssumption
<1>2. ASSUME m.plans[Hash[t]] # NoPlan PROVE m.plans[Hash[t]].sql = t
  <2>1. Hash[t] \in Cached(m) /\ m.plans[Hash[t]] \in Plans
    BY <1>1, <1>2 DEF Cached
  <2>2. m.plans[Hash[t]].sql \in Texts /\ Hash[m.plans[Hash[t]].sql] = Hash[t]
    BY <2>1 DEF SoundPlans, Plans
  <2> QED
    BY <2>2, KeysAssumption
<1> QED
  BY <1>2 DEF Known

-----------------------------------------------------------------------------
(* The steps of the map, in the terms of a manager and its successor.      *)

LEMMA ForgetsAPart ==
    ASSUME manager \in Managers, manager' \in Managers, answer' = NoAnswer,
           \A t \in Texts : Known(manager', t) \in {Known(manager, t), NoPlan}
    PROVE  Lossy!Forget
<1>1. /\ StoreOf(manager') \in Stores
      /\ \A t \in Texts : StoreOf(manager')[t] \in {StoreOf(manager)[t], NoPlan}
  BY StoreIsTyped
<1>2. Stores = [Texts -> {NoPlan} \cup {[u \in Texts |-> u][t] : t \in Texts}]
  BY DEF Stores
<1> QED
  BY <1>1, <1>2 DEF Lossy!Forget, Lossy!KeepsOrForgets, Lossy!Stores, StoreOf, Known

LEMMA RemembersOne ==
    ASSUME manager \in Managers, manager' \in Managers, answer' = NoAnswer,
           NEW t \in Texts, Known(manager', t) = t,
           \A u \in Texts \ {t} : Known(manager', u) \in {Known(manager, u), NoPlan}
    PROVE  Lossy!Remember(t)
<1>1. /\ StoreOf(manager') \in Stores
      /\ StoreOf(manager')[t] = t
      /\ \A u \in Texts \ {t} : StoreOf(manager')[u] \in {StoreOf(manager)[u], NoPlan}
  BY StoreIsTyped
<1>2. Stores = [Texts -> {NoPlan} \cup {[u \in Texts |-> u][v] : v \in Texts}]
  BY DEF Stores
<1> QED
  BY <1>1, <1>2 DEF Lossy!Remember, Lossy!KeepsOrForgets, Lossy!Stores, StoreOf, Known

LEMMA ServesTheKnown ==
    ASSUME manager \in Managers, manager' \in Managers, NEW t \in Texts,
           Known(manager, t) # NoPlan, Known(manager', t) = Known(manager, t),
           \A u \in Texts : Known(manager', u) \in {Known(manager, u), NoPlan},
           answer' # NoAnswer, answer'.text = t, answer'.plan.sql = Known(manager, t)
    PROVE  Lossy!Serve(t)
<1>1. /\ StoreOf(manager') \in Stores
      /\ StoreOf(manager)[t] # NoPlan
      /\ StoreOf(manager')[t] = StoreOf(manager)[t]
      /\ \A u \in Texts : StoreOf(manager')[u] \in {StoreOf(manager)[u], NoPlan}
      /\ ReplyOf(answer') = <<t, StoreOf(manager)[t]>>
  BY StoreIsTyped DEF ReplyOf
<1>2. Stores = [Texts -> {NoPlan} \cup {[u \in Texts |-> u][v] : v \in Texts}]
  BY DEF Stores
<1> QED
  BY <1>1, <1>2 DEF Lossy!Serve, Lossy!KeepsOrForgets, Lossy!Stores, StoreOf, ReplyOf, Known

-----------------------------------------------------------------------------
(* The critical sections.                                                  *)

LEMMA HitServes ==
    ASSUME TypeOK, NEW m, IsPartOf(m, manager), NEW t \in Texts,
           NEW looked \in 0 .. MaxNow, NEW used \in 0 .. MaxNow,
           Hits(m, Hash[t], looked), manager' = GetHit(m, Hash[t], used),
           answer' = [text |-> t, plan |-> manager'.plans[Hash[t]], looked |-> looked]
    PROVE  Lossy!Serve(t)
<1> DEFINE k == Hash[t]
           p == RecordAccess(m.plans[k], used)
<1>1. m \in Managers /\ manager \in Managers /\ k \in Keys
  BY KeysAssumption DEF IsPartOf, TypeOK
<1>2. m.plans[k] \in Plans
  BY <1>1, HitIsFresh
<1>3. p \in Plans /\ p.sql = m.plans[k].sql
  BY <1>2 DEF RecordAccess, Plans
<1>5. manager' \in Managers
  BY <1>1, HitKeepsPlans
<1>6. manager'.plans = [m.plans EXCEPT ![k] = p]
  BY <1>1, HitKeepsPlans
<1>7. m.plans[k] # NoPlan /\ p # NoPlan
  BY <1>2, <1>3, MarkersAssumption
<1>8. manager.plans[k] = m.plans[k]
  BY <1>1, <1>7 DEF IsPartOf
<1> HIDE DEF p
<1>9. Known(manager, t) = m.plans[k].sql /\ Known(manager', t) = m.plans[k].sql
  BY <1>1, <1>3, <1>6, <1>7, <1>8 DEF Known
<1>10. Known(manager, t) # NoPlan
  BY <1>2, <1>9, MarkersAssumption DEF Plans
<1>11. ASSUME NEW u \in Texts
       PROVE  Known(manager', u) \in {Known(manager, u), NoPlan}
  <2>1. CASE u = t
    BY <1>9, <2>1
  <2>2. CASE u # t
    <3>1. Hash[u] \in Keys /\ Hash[u] # k
      BY <2>2, KeysAssumption
    <3>2. manager'.plans[Hash[u]] = m.plans[Hash[u]]
      BY <1>1, <1>6, <3>1
    <3>3. Known(manager', u) = Known(m, u)
      BY <3>2 DEF Known
    <3> QED
      BY <1>1, <3>3, PartKnowsPart
  <2> QED
    BY <2>1, <2>2
<1>12. /\ answer' # NoAnswer /\ answer'.text = t
       /\ answer'.plan.sql = Known(manager, t)
  <2>1. answer'.text = t /\ answer'.plan = p
    BY <1>1, <1>6
  <2>2. answer' \in Answers
    BY <1>1, <1>3, <1>6 DEF Answers
  <2> QED
    BY <1>3, <1>9, <2>1, <2>2, MarkersAssumption
<1> QED
  BY <1>1, <1>5, <1>9, <1>10, <1>11, <1>12, ServesTheKnown

\* An insertion under a free key makes its own text known and no other.
LEMMA InsertionRemembers ==
    ASSUME TypeOK, NEW m, IsPartOf(m, manager), NEW t \in Texts,
           NEW made \in 0 .. MaxNow, manager' \in Managers,
           manager' \in Inserts(m, Hash[t], NewPlan(t, made)), answer' = NoAnswer
    PROVE  Lossy!Remember(t)
<1> DEFINE k == Hash[t]
           p == NewPlan(t, made)
<1>1. m \in Managers /\ manager \in Managers /\ k \in Keys
  BY KeysAssumption DEF IsPartOf, TypeOK
<1>2. p \in Plans /\ p.sql = t /\ p # NoPlan
  BY MarkersAssumption DEF NewPlan, Plans
<1>3. PICK e : /\ manager' = WithPlan(e, k, p)
               /\ e \in EvictLru(m) \/ e = m
  BY DEF Inserts
<1>4. IsPartOf(e, m)
  BY <1>1, <1>3, LruEvictsOne DEF IsPartOf
<1>5. e \in Managers /\ IsPartOf(e, manager)
  BY <1>1, <1>4 DEF IsPartOf
<1>6. manager'.plans = [e.plans EXCEPT ![k] = p]
  BY <1>1, <1>2, <1>3, <1>5, WithPlanPutsOne
<1> HIDE DEF p
<1>7. Known(manager', t) = t
  BY <1>1, <1>2, <1>5, <1>6 DEF Known
<1>8. ASSUME NEW u \in Texts \ {t}
      PROVE  Known(manager', u) \in {Known(manager, u), NoPlan}
  <2>1. Hash[u] \in Keys /\ Hash[u] # k
    BY KeysAssumption
  <2>2. manager'.plans[Hash[u]] = e.plans[Hash[u]]
    BY <1>5, <1>6, <2>1
  <2>3. Known(manager', u) = Known(e, u)
    BY <2>2 DEF Known
  <2> QED
    BY <1>1, <1>5, <2>3, PartKnowsPart
<1> QED
  BY <1>1, <1>7, <1>8, RemembersOne

LEMMA PartForgets ==
    ASSUME TypeOK, IsPartOf(manager', manager), answer' = NoAnswer
    PROVE  Lossy!Forget
<1>1. manager \in Managers /\ manager' \in Managers
  BY DEF TypeOK, IsPartOf
<1> QED
  BY <1>1, PartKnowsPart, ForgetsAPart

LEMMA GetOrCreateIsAStep ==
    ASSUME IInv, IInv', NEW c \in Callers, NEW t \in Texts,
           NEW creates \in BOOLEAN, GetOrCreate(c, t, creates)
    PROVE  Lossy!Next
<1> DEFINE k == Hash[t]
           Way(due, cleaned) ==
              \/ manager' = manager /\ answer' = NoAnswer
              \/ \E m \in PeriodicCleanups(manager, due.time, cleaned.time) :
                 \E looked \in After(cleaned) : AfterCleanup(c, t, creates, m, looked)
<1>1. /\ TypeOK /\ manager \in Managers /\ manager' \in Managers
      /\ clock \in Readings /\ clock.time \in 0 .. MaxNow /\ k \in Keys
  BY KeysAssumption DEF IInv, TypeOK, Readings
<1>2. PICK due \in After(clock) : \E cleaned \in After(due) : Way(due, cleaned)
  BY <1>1, WaysThroughTheSection DEF Panic
<1>3. PICK cleaned \in After(due) : Way(due, cleaned)
  BY <1>2
<1>4. CASE manager' = manager /\ answer' = NoAnswer
  <2>1. IsPartOf(manager', manager)
    BY <1>1, <1>4 DEF IsPartOf
  <2> QED
    BY <1>1, <1>4, <2>1, PartForgets DEF Lossy!Next
<1>5. CASE \E m \in PeriodicCleanups(manager, due.time, cleaned.time) :
           \E looked \in After(cleaned) : AfterCleanup(c, t, creates, m, looked)
  <2>1. PICK m \in PeriodicCleanups(manager, due.time, cleaned.time),
             looked \in After(cleaned) :
          \/ manager' = Without(m, {k}) /\ answer' = NoAnswer
          \/ /\ Hits(m, k, looked.time)
             /\ clock' \in After(looked)
             /\ manager' = GetHit(m, k, clock'.time)
             /\ answer' = [text |-> t, plan |-> manager'.plans[k], looked |-> looked.time]
          \/ /\ IF creates
                THEN manager' \in Inserts(GetMiss(m, k), k, NewPlan(t, clock.time))
                ELSE manager' = GetMiss(m, k)
             /\ answer' = NoAnswer
    BY <1>5 DEF AfterCleanup, GenerateCacheKey, Serve, StorePlan, StartTranslating, Panic
  <2>2. /\ due.time \in 0 .. MaxNow
        /\ looked \in Readings /\ looked.time \in 0 .. MaxNow
    BY <1>1, SectionTimes
  <2>3. IsPartOf(m, manager) /\ m \in Managers
    BY <1>1, <2>2, PeriodicCleanupIsAccounted DEF IsPartOf
  <2>4. ASSUME NEW n, IsPartOf(n, m) PROVE IsPartOf(n, manager)
    BY <2>3, <2>4 DEF IsPartOf
  <2>5. CASE manager' = Without(m, {k}) /\ answer' = NoAnswer
    <3>1. IsPartOf(Without(m, {k}), m)
      BY <2>3, WithoutLeavesTheRest
    <3> QED
      BY <1>1, <2>4, <2>5, <3>1, PartForgets DEF Lossy!Next
  <2>6. CASE /\ Hits(m, k, looked.time)
             /\ clock' \in After(looked)
             /\ manager' = GetHit(m, k, clock'.time)
             /\ answer' = [text |-> t, plan |-> manager'.plans[k], looked |-> looked.time]
    <3>1. clock'.time \in 0 .. MaxNow
      BY <2>2, <2>6, ReadingsAreTyped
    <3> QED
      BY <1>1, <2>2, <2>3, <2>6, <3>1, HitServes DEF Lossy!Next
  <2>7. CASE /\ IF creates
                THEN manager' \in Inserts(GetMiss(m, k), k, NewPlan(t, clock.time))
                ELSE manager' = GetMiss(m, k)
             /\ answer' = NoAnswer
    <3>1. IsPartOf(GetMiss(m, k), m)
      BY <1>1, <2>3, MissDropsOne
    <3>2. IsPartOf(GetMiss(m, k), manager)
      BY <2>4, <3>1
    <3>3. CASE creates
      BY <1>1, <2>7, <3>2, <3>3, InsertionRemembers DEF Lossy!Next
    <3>4. CASE ~creates
      BY <1>1, <2>7, <3>2, <3>4, PartForgets DEF Lossy!Next
    <3> QED
      BY <3>3, <3>4
  <2> QED
    BY <2>1, <2>5, <2>6, <2>7
<1> QED
  BY <1>3, <1>4, <1>5

\* The initial state is the empty map.
LEMMA InitIsInit == Init => Lossy!Init
<1> SUFFICES ASSUME Init PROVE Lossy!Init
  OBVIOUS
<1>1. \A t \in Texts : manager.plans[Hash[t]] = NoPlan
  BY KeysAssumption DEF Init
<1> QED
  BY <1>1 DEF Init, Lossy!Init

\* Every step of the cache is a step of the map, or none.
LEMMA StepIsAStep == IInv /\ IInv' /\ [Next]_vars => [Lossy!Next]_(Lossy!vars)
<1> SUFFICES ASSUME IInv, IInv', [Next]_vars PROVE [Lossy!Next]_(Lossy!vars)
  OBVIOUS
<1>1. TypeOK /\ manager \in Managers
  BY DEF IInv, TypeOK
<1>2. ASSUME NEW c \in Callers, NEW t \in Texts, Lookup(c, t) PROVE Lossy!Next
  <2>1. GetOrCreate(c, t, FALSE)
    BY <1>2, Zenon DEF Lookup
  <2> QED
    BY <2>1, GetOrCreateIsAStep
<1>3. ASSUME NEW c \in Callers, Store(c) PROVE Lossy!Next
  <2>1. translating[c] \in Texts /\ GetOrCreate(c, translating[c], TRUE)
    BY <1>1, <1>3 DEF Store, TypeOK
  <2> QED
    BY <2>1, GetOrCreateIsAStep
<1>4. CASE manager' = manager /\ answer' = NoAnswer
  <2>1. IsPartOf(manager', manager)
    BY <1>1, <1>4 DEF IsPartOf
  <2> QED
    BY <1>1, <1>4, <2>1, PartForgets DEF Lossy!Next
<1>5. CASE Clear
  <2> DEFINE w == Without(manager, Keys)
  <2>1. w \in Managers /\ IsPartOf(w, manager)
    BY <1>1, WithoutLeavesTheRest
  <2>2. /\ manager' = [w EXCEPT !.hits = 0, !.misses = 0, !.evictions = 0]
        /\ answer' = NoAnswer
    BY <1>5 DEF Clear
  <2> HIDE DEF w
  <2>3. manager' \in Managers /\ manager'.plans = w.plans
    BY <2>1, <2>2
  <2>4. IsPartOf(manager', manager)
    BY <2>1, <2>3 DEF IsPartOf
  <2> QED
    BY <1>1, <2>2, <2>4, PartForgets DEF Lossy!Next
<1>6. CASE UNCHANGED vars
  BY <1>6, AbstractState DEF vars
<1> QED
  BY <1>2, <1>3, <1>4, <1>5, <1>6
     DEF Next, Bypass, GiveUp, MoveClock

\* The CacheManager behind translate_with_cache, whatever its callers, its clock and its
\* panics do, is a map that may forget but never serves one text the SQL of another, nor
\* SQL that was not translated for it (lib.rs:453-495, cache.rs).
THEOREM CacheImplementsLossyMap == Spec => ImplementsLossyCache
<1>1. IInv /\ [Next]_vars => IInv'
  BY NextKeepsInv
<1> QED
  BY InitIsInit, StepIsAStep, Invariance, PTL DEF Spec, ImplementsLossyCache, Lossy!Spec

\* What every such map promises: an answer is the SQL of the text that was asked.
THEOREM AnswersAreOwn == Spec => []Lossy!ServesOwn
<1>1. Init => Lossy!ServesOwn
  BY DEF Init, Lossy!ServesOwn
<1>2. IInv /\ Lossy!ServesOwn /\ [Lossy!Next]_(Lossy!vars) => Lossy!ServesOwn'
  <2> SUFFICES ASSUME IInv, Lossy!ServesOwn, [Lossy!Next]_(Lossy!vars)
               PROVE  Lossy!ServesOwn'
    OBVIOUS
  <2>1. ASSUME NEW t \in Texts, Lossy!Serve(t) PROVE Lossy!ServesOwn'
    <3>1. StoreOf(manager)[t] = Known(manager, t) /\ Known(manager, t) \in {t, NoPlan}
      BY StoreIsTyped, KnownIsOwn DEF IInv, TypeOK
    <3>2. /\ StoreOf(manager)[t] # NoPlan
          /\ ReplyOf(answer') = <<t, StoreOf(manager)[t]>>
      BY <2>1 DEF Lossy!Serve, StoreOf, Known, ReplyOf
    <3>3. ReplyOf(answer') = <<t, t>>
      BY <3>1, <3>2
    <3> QED
      BY <3>3 DEF Lossy!ServesOwn, ReplyOf
  <2>2. ASSUME Lossy!Forget \/ \E t \in Texts : Lossy!Remember(t) PROVE Lossy!ServesOwn'
    BY <2>2 DEF Lossy!Forget, Lossy!Remember, Lossy!ServesOwn
  <2>3. CASE UNCHANGED Lossy!vars
    BY <2>3 DEF Lossy!vars, Lossy!ServesOwn
  <2> QED
    BY <2>1, <2>2, <2>3 DEF Lossy!Next
<1>3. IInv /\ [Next]_vars => IInv'
  BY NextKeepsInv
<1> QED
  BY <1>1, <1>2, <1>3, StepIsAStep, Invariance, PTL DEF Spec
=============================================================================
