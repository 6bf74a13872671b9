---------------------------- MODULE MCPlanCache ----------------------------
(* Instances of PlanCache: a cache of two plans that is always at its limit,  *)
(* cleaned in each of the two ways and built in each of the two modes, and    *)
(* one of seven, the smallest with a size strictly between max_size/2 and     *)
(* 3*max_size/4.                                                              *)
EXTENDS PlanCache, TLC

CONSTANTS t1, t2, t3, t4, k1, k2, k3, k4

MCHash == [t \in Texts |-> (t1 :> k1 @@ t2 :> k2 @@ t3 :> k3 @@ t4 :> k4)[t]]

Config(max, smart, checked) ==
    [enabled |-> TRUE, max_size |-> max, max_age |-> 1, cleanup_interval |-> 2,
     smart |-> smart, checked |-> checked]

SmallConfigs == {Config(2, smart, checked) : smart, checked \in BOOLEAN}
                \cup {[Config(2, TRUE, TRUE) EXCEPT !.enabled = FALSE]}
GapConfigs == {Config(7, TRUE, checked) : checked \in BOOLEAN}
MCConfigs == SmallConfigs \cup GapConfigs
ReleaseConfigs == {Config(7, TRUE, FALSE)}

\* Callers are interchangeable, and so are texts, each with its key.
MCSymmetry ==
    {q @@ p @@ [k \in Keys |-> MCHash[p[CHOOSE t \in Texts : MCHash[t] = k]]] :
        p \in Permutations(Texts), q \in Permutations(Callers)}
\* Bound: four calls fill and empty a cache of two plans; the cache of seven takes five,
\* with a clock that is not set back.
MCBound == IF config.max_size = 2 THEN calls <= 4 ELSE clock.stepBacks = 0
=============================================================================
