-------------------------- MODULE GatewayStartProofs --------------------------
(***************************************************************************)
(* The safety invariants of GatewayStart, for every set of sessions, every *)
(* configuration and every number of slots.                                *)
(***************************************************************************)
EXTENDS GatewayStart, TLAPS

\* The attempt under way, whose outcome is not known yet.
Pending(l) == IF l.at = "sleeping" THEN 1 ELSE 0
Counted(l) == l.at \in {"deciding", "sleeping"}

\* A call that has not counted has tallied nothing.
FreshCall(l) == l.at = "counting" => l.started = 0 /\ l.failed = 0 /\ l.attempts = 0

\* The view v of a transaction never changes: no attempt ever seems to succeed, and what
\* is seen to be enough is never added to.
SoundTally(l, v) ==
    Counted(l) =>
        /\ v \in Counts
        /\ l.alive = v
        /\ l.started = 0
        /\ l.attempts >= Pending(l)
        /\ l.failed = l.attempts - Pending(l)
        /\ l.alive >= Target => l.attempts = 0

SoundCall(l, v) == FreshCall(l) /\ SoundTally(l, v)

FreeLock == lock.owner = Nobody => lock.depth = 0

IInv == /\ TypeOK
        /\ FreeLock
        /\ LockAccounting
        /\ \A c \in Callers : SoundCall(call[c], view[c])

-----------------------------------------------------------------------------
LEMMA TypedNumbers ==
    ASSUME TypeOK
    PROVE  /\ Target \in Nat /\ MaxAttempts \in Nat /\ Slots \in Nat
           /\ workers.registered \in Nat /\ workers.starting \in Nat
           /\ workers.listening \in Nat /\ Visible \in Counts /\ Total \in Counts
           /\ Visible \in Nat /\ Visible <= Slots /\ Total <= Slots
           /\ \A c \in Callers : Count(c) \in Counts
<1>1. config.workers \in Nat
  <2>1. config.workers \in 1 .. 64
    BY ConfiguredAssumption DEF TypeOK
  <2> QED
    BY <2>1
<1>2. Slots \in Nat
  BY BoundsAssumption
<1>3. /\ workers.registered \in Nat /\ workers.starting \in Nat
      /\ workers.listening \in Nat /\ Total <= Slots
  BY <1>2 DEF TypeOK, Counts
<1>4. Target \in Nat
  BY <1>1, Zenon DEF Target
<1>5. Visible \in Nat /\ Total \in Nat /\ Visible <= Total
  BY <1>3 DEF Visible, Total
<1>6. Visible \in Counts /\ Total \in Counts /\ Visible <= Slots
  BY <1>2, <1>3, <1>5 DEF Counts
<1>7. MaxAttempts \in Nat
  BY <1>4 DEF MaxAttempts
<1>8. \A c \in Callers : Count(c) \in Counts
  BY <1>6 DEF TypeOK, Count
<1> QED
  BY <1>2, <1>3, <1>4, <1>5, <1>6, <1>7, <1>8

\* Two calls in progress would need two owners of one lock.
LEMMA OneCallAtATime ==
    ASSUME TypeOK, LockAccounting, NEW c \in Callers, NEW d \in Callers,
           Calling(c), Calling(d)
    PROVE  c = d
<1>1. aborted[c] \in Nat /\ aborted[d] \in Nat
  BY BoundsAssumption DEF TypeOK
<1>2. lock.owner = c
  BY <1>1 DEF LockAccounting, Calling
<1>3. lock.owner = d
  BY <1>1 DEF LockAccounting, Calling
<1> QED
  BY <1>2, <1>3

LEMMA IdleIsACall == ASSUME TypeOK PROVE Idle \in Calls
  BY TypedNumbers DEF Idle, Calls, Counts

\* The invariant after a step that changes nothing but the call and the view of one
\* session, and the lock or the aborted calls with them.
LEMMA CallStepKeepsInv ==
    ASSUME IInv, UNCHANGED <<config, workers>>, NEW c \in Callers, NEW l \in Calls,
           NEW v \in Counts \cup {Unread},
           call' = [call EXCEPT ![c] = l], view' = [view EXCEPT ![c] = v], SoundCall(l, v),
           lock' \in [owner : Callers \cup {Nobody}, depth : Nat],
           aborted' \in [Callers -> 0 .. MaxAborts],
           FreeLock', LockAccounting'
    PROVE  IInv'
<1>1. TypeOK'
  <2>1. call' \in [Callers -> Calls] /\ view' \in [Callers -> Counts \cup {Unread}]
    BY DEF IInv, TypeOK
  <2>2. Target' = Target /\ Total' = Total /\ Calls' = Calls
    BY DEF Target, Total, Visible, Calls, MaxAttempts
  <2> QED
    BY <2>1, <2>2 DEF IInv, TypeOK
<1>2. \A d \in Callers : /\ call'[d] = IF d = c THEN l ELSE call[d]
                         /\ view'[d] = IF d = c THEN v ELSE view[d]
  BY DEF IInv, TypeOK
<1>3. \A d \in Callers : SoundCall(call[d], view[d])'
  <2>1. \A d \in Callers : SoundCall(call'[d], view'[d])
    BY <1>2 DEF IInv
  <2> QED
    BY <2>1 DEF SoundCall, FreshCall, SoundTally, Counted, Pending, Target
<1> QED
  BY <1>1, <1>3 DEF IInv

LEMMA SameView ==
    ASSUME IInv, NEW c \in Callers, UNCHANGED view
    PROVE  /\ view[c] \in Counts \cup {Unread}
           /\ view' = [view EXCEPT ![c] = view[c]]
  BY DEF IInv, TypeOK

LEMMA IdleIsSound == \A v : SoundCall(Idle, v)
  BY DEF SoundCall, FreshCall, SoundTally, Counted, Idle

-----------------------------------------------------------------------------
(* Giving the lock back                                                    *)

LEMMA UnlockReleases ==
    ASSUME IInv, NEW c \in Callers, Calling(c), lock' = Unlocked,
           call' = [call EXCEPT ![c] = Idle], UNCHANGED aborted
    PROVE  /\ lock' \in [owner : Callers \cup {Nobody}, depth : Nat]
           /\ FreeLock' /\ LockAccounting'
<1>1. /\ aborted[c] \in Nat /\ lock.depth \in Nat
      /\ lock \in [owner : Callers \cup {Nobody}, depth : Nat]
  BY BoundsAssumption DEF IInv, TypeOK
<1>2. lock.owner = c /\ lock.depth = aborted[c] + 1
  BY <1>1 DEF IInv, LockAccounting, Calling
<1>3. \A d \in Callers : call'[d] = IF d = c THEN Idle ELSE call[d]
  BY DEF IInv, TypeOK
<1>4. ~Calling(c)' /\ \A d \in Callers \ {c} : Calling(d)' <=> Calling(d)
  BY <1>3 DEF Calling, Idle
<1>5. \A d \in Callers \ {c} : aborted[d] + (IF Calling(d) THEN 1 ELSE 0) = 0
  BY <1>2 DEF IInv, LockAccounting
<1>6. CASE lock.depth = 1
  <2>1. lock' = [owner |-> Nobody, depth |-> 0]
    BY <1>6 DEF Unlocked
  <2>2. aborted[c] = 0
    BY <1>1, <1>2, <1>6
  <2>3. LockAccounting'
    BY <1>4, <1>5, <2>1, <2>2, MarkersAssumption DEF LockAccounting
  <2> QED
    BY <2>1, <2>3 DEF FreeLock
<1>7. CASE lock.depth # 1
  <2>1. lock' = [lock EXCEPT !.depth = @ - 1]
    BY <1>7 DEF Unlocked
  <2>2. /\ lock'.owner = c /\ lock'.depth = aborted[c]
        /\ lock' \in [owner : Callers \cup {Nobody}, depth : Nat]
    BY <1>1, <1>2, <2>1
  <2>3. LockAccounting'
    BY <1>4, <1>5, <2>2 DEF LockAccounting
  <2> QED
    BY <2>2, <2>3, MarkersAssumption DEF FreeLock
<1> QED
  BY <1>6, <1>7

LEMMA ReturnKeepsInv ==
    ASSUME IInv, NEW c \in Callers, Calling(c), lock' = Unlocked,
           call' = [call EXCEPT ![c] = Idle], UNCHANGED <<config, workers, view, aborted>>
    PROVE  IInv'
<1>1. aborted' \in [Callers -> 0 .. MaxAborts]
  BY DEF IInv, TypeOK
<1>2. Idle \in Calls
  BY IdleIsACall DEF IInv
<1> QED
  BY <1>1, <1>2, UnlockReleases, IdleIsSound, SameView, CallStepKeepsInv

LEMMA AcquireKeepsInv ==
    ASSUME IInv, NEW c \in Callers, Acquire(c)
    PROVE  IInv'
<1> DEFINE l == [Idle EXCEPT !.at = "counting"]
<1>1. l \in Calls /\ l.at = "counting"
  BY IdleIsACall DEF IInv, Idle, Calls
<1>2. SoundCall(l, view[c])
  <2>1. l.started = 0 /\ l.failed = 0 /\ l.attempts = 0
    BY DEF Idle
  <2> QED
    BY <1>1, <2>1 DEF SoundCall, FreshCall, SoundTally, Counted
<1>3. /\ call' = [call EXCEPT ![c] = l] /\ lock' = [owner |-> c, depth |-> lock.depth + 1]
      /\ lock.owner \in {c, Nobody} /\ ~Calling(c)
      /\ UNCHANGED <<config, workers, view, aborted>>
  BY DEF Acquire, HeldByOther, Locked
<1> HIDE DEF l
<1>4. /\ lock.depth \in Nat /\ aborted \in [Callers -> 0 .. MaxAborts]
      /\ aborted[c] \in Nat
  BY BoundsAssumption DEF IInv, TypeOK
<1>5. lock' \in [owner : Callers \cup {Nobody}, depth : Nat]
  BY <1>3, <1>4
<1>6. lock.depth = aborted[c]
  <2>1. CASE lock.owner = c
    BY <1>3, <1>4, <2>1 DEF IInv, LockAccounting
  <2>2. CASE lock.owner = Nobody
    BY <1>3, <1>4, <2>2, MarkersAssumption DEF IInv, LockAccounting, FreeLock
  <2> QED
    BY <1>3, <2>1, <2>2
<1>7. \A d \in Callers \ {c} : aborted[d] + (IF Calling(d) THEN 1 ELSE 0) = 0
  BY <1>3, MarkersAssumption DEF IInv, LockAccounting
<1>8. \A d \in Callers : call'[d] = IF d = c THEN l ELSE call[d]
  BY <1>3 DEF IInv, TypeOK
<1>9. Calling(c)' /\ \A d \in Callers \ {c} : Calling(d)' <=> Calling(d)
  BY <1>1, <1>8 DEF Calling
<1>10. LockAccounting'
  BY <1>3, <1>4, <1>6, <1>7, <1>9 DEF LockAccounting
<1>11. FreeLock'
  BY <1>3, MarkersAssumption DEF FreeLock
<1> QED
  BY <1>1, <1>2, <1>3, <1>4, <1>5, <1>10, <1>11, SameView, CallStepKeepsInv

\* A step inside the call leaves the lock's accounts alone.
LEMMA InsideCallKeepsLock ==
    ASSUME IInv, NEW c \in Callers, NEW l \in Calls, Calling(c), l.at # "idle",
           call' = [call EXCEPT ![c] = l], UNCHANGED <<lock, aborted>>
    PROVE  /\ lock' \in [owner : Callers \cup {Nobody}, depth : Nat]
           /\ aborted' \in [Callers -> 0 .. MaxAborts]
           /\ FreeLock' /\ LockAccounting'
<1>1. \A d \in Callers : call'[d] = IF d = c THEN l ELSE call[d]
  BY DEF IInv, TypeOK
<1>2. \A d \in Callers : Calling(d)' <=> Calling(d)
  BY <1>1 DEF Calling
<1>3. LockAccounting'
  BY <1>2 DEF IInv, LockAccounting
<1> QED
  BY <1>3 DEF IInv, TypeOK, FreeLock

LEMMA LookKeepsInv ==
    ASSUME IInv, NEW c \in Callers, Status(c) \/ EndTransaction(c)
    PROVE  IInv'
<1>1. PICK v \in Counts \cup {Unread} : view' = [view EXCEPT ![c] = v]
  <2>1. CASE Status(c)
    BY <2>1, TypedNumbers DEF Status, IInv
  <2>2. CASE EndTransaction(c)
    BY <2>2 DEF EndTransaction
  <2> QED
    BY <2>1, <2>2
<1>2. ~Calling(c) /\ UNCHANGED <<config, workers, lock, call, aborted>>
  BY DEF Status, EndTransaction
<1>3. call[c] \in Calls /\ call' = [call EXCEPT ![c] = call[c]]
  BY <1>2 DEF IInv, TypeOK
<1>4. SoundCall(call[c], v)
  BY <1>2 DEF Calling, SoundCall, FreshCall, SoundTally, Counted
<1>5. /\ lock' \in [owner : Callers \cup {Nobody}, depth : Nat]
      /\ aborted' \in [Callers -> 0 .. MaxAborts]
      /\ FreeLock' /\ LockAccounting'
  BY <1>2 DEF IInv, TypeOK, FreeLock, LockAccounting, Calling
<1> QED
  BY <1>1, <1>2, <1>3, <1>4, <1>5, CallStepKeepsInv

LEMMA FirstCountKeepsInv ==
    ASSUME IInv, NEW c \in Callers, FirstCount(c)
    PROVE  IInv'
<1> DEFINE l == [call[c] EXCEPT !.at = "deciding", !.alive = Count(c)]
<1>1. /\ call' = [call EXCEPT ![c] = l] /\ call[c].at = "counting"
      /\ view' = [view EXCEPT ![c] = Count(c)]
      /\ UNCHANGED <<config, workers, lock, aborted>>
  BY DEF FirstCount
<1>2. call[c] \in Calls /\ Count(c) \in Counts
  BY TypedNumbers DEF IInv, TypeOK
<1>3. /\ l \in Calls /\ l.at = "deciding" /\ l.alive = Count(c)
      /\ l.started = call[c].started
      /\ l.failed = call[c].failed /\ l.attempts = call[c].attempts
  BY <1>2 DEF Calls
<1> HIDE DEF l
<1>4. l.started = 0 /\ l.failed = 0 /\ l.attempts = 0
  BY <1>1, <1>3 DEF IInv, SoundCall, FreshCall
<1>5. SoundCall(l, Count(c))
  BY <1>2, <1>3, <1>4 DEF SoundCall, FreshCall, SoundTally, Pending
<1>6. Calling(c) /\ l.at # "idle"
  BY <1>1, <1>3 DEF Calling
<1> QED
  BY <1>1, <1>2, <1>3, <1>5, <1>6, InsideCallKeepsLock, CallStepKeepsInv

\* What a count leaves of the locals of a call.
AfterCount(k, n) == [Tallied(k, n) EXCEPT !.at = "deciding"]

LEMMA TalliedFields ==
    ASSUME TypeOK, NEW k \in Calls, NEW n \in Counts, NEW l, l = AfterCount(k, n)
    PROVE  /\ l \in Calls /\ l.at = "deciding" /\ l.alive = n
           /\ l.attempts = k.attempts
           /\ l.started = IF n > k.alive THEN k.started + (n - k.alive) ELSE k.started
           /\ l.failed = IF n > k.alive THEN k.failed ELSE k.failed + 1
<1>1. Slots \in Nat /\ MaxAttempts \in Nat
  BY TypedNumbers
<1>2. CASE n > k.alive
  <2>1. PICK s : s = k.started + (n - k.alive)
    OBVIOUS
  <2>2. s \in Nat
    BY <1>1, <1>2, <2>1 DEF Calls, Counts
  <2>3. PICK m : m = [k EXCEPT !.started = s, !.alive = n]
    OBVIOUS
  <2>4. Tallied(k, n) = m
    BY <1>2, <2>1, <2>3, Zenon DEF Tallied
  <2>5. /\ m \in Calls /\ m.alive = n /\ m.started = s
        /\ m.attempts = k.attempts /\ m.failed = k.failed
    BY <2>2, <2>3 DEF Calls
  <2>6. l = [m EXCEPT !.at = "deciding"]
    BY <2>4, Zenon DEF AfterCount
  <2>7. /\ l \in Calls /\ l.at = "deciding" /\ l.alive = m.alive
        /\ l.attempts = m.attempts
        /\ l.started = m.started /\ l.failed = m.failed
    BY <2>5, <2>6 DEF Calls
  <2> QED
    BY <1>2, <2>1, <2>5, <2>7
<1>3. CASE ~(n > k.alive)
  <2>0. PICK s \in Nat : s = k.failed + 1
    BY DEF Calls
  <2>1. PICK m : m = [k EXCEPT !.failed = s, !.alive = n]
    OBVIOUS
  <2>2. Tallied(k, n) = m
    BY <1>3, <2>0, <2>1, Zenon DEF Tallied
  <2>3. /\ m \in Calls /\ m.alive = n /\ m.started = k.started
        /\ m.attempts = k.attempts /\ m.failed = s
    BY <2>1 DEF Calls
  <2>4. l = [m EXCEPT !.at = "deciding"]
    BY <2>2, Zenon DEF AfterCount
  <2>5. /\ l \in Calls /\ l.at = "deciding" /\ l.alive = m.alive
        /\ l.attempts = m.attempts
        /\ l.started = m.started /\ l.failed = m.failed
    BY <2>3, <2>4 DEF Calls
  <2> QED
    BY <1>3, <2>0, <2>3, <2>5
<1> QED
  BY <1>2, <1>3

LEMMA RecountKeepsInv ==
    ASSUME IInv, NEW c \in Callers, Recount(c)
    PROVE  IInv'
<1> DEFINE n == Count(c)
           k == call[c]
           l == AfterCount(k, n)
<1>1. l = AfterCount(k, n)
  OBVIOUS
<1>2. /\ call' = [call EXCEPT ![c] = l] /\ k.at = "sleeping"
      /\ UNCHANGED <<config, workers, lock, view, aborted>>
  BY Zenon DEF Recount, AfterCount
<1>3. k \in Calls /\ n \in Counts /\ Slots \in Nat /\ MaxAttempts \in Nat
  BY TypedNumbers DEF IInv, TypeOK
<1>4. /\ k.alive \in Nat /\ k.started \in Nat /\ k.failed \in Nat
      /\ k.attempts \in Nat /\ n \in Nat
  BY <1>3 DEF Calls, Counts
<1>5. SoundCall(k, view[c])
  BY DEF IInv
<1>6. n = k.alive
  BY <1>2, <1>5, MarkersAssumption DEF Count, SoundCall, SoundTally, Counted, Counts
<1> HIDE DEF n, l, k
<1>7. /\ l \in Calls /\ l.at = "deciding" /\ l.alive = n /\ l.attempts = k.attempts
      /\ l.started = IF n > k.alive THEN k.started + (n - k.alive) ELSE k.started
      /\ l.failed = IF n > k.alive THEN k.failed ELSE k.failed + 1
  BY <1>1, <1>3, TalliedFields DEF IInv
<1>8. SoundCall(l, view[c])
  BY <1>2, <1>3, <1>4, <1>5, <1>6, <1>7
     DEF SoundCall, FreshCall, SoundTally, Counted, Pending
<1>9. Calling(c) /\ l.at # "idle"
  BY <1>2, <1>7 DEF Calling, k
<1> QED
  BY <1>2, <1>7, <1>8, <1>9, SameView, InsideCallKeepsLock, CallStepKeepsInv

LEMMA RegisterKeepsInv ==
    ASSUME IInv, NEW c \in Callers, Register(c)
    PROVE  IInv'
<1>1. PICK k : k = call[c]
  OBVIOUS
<1>2. PICK a : a = k.attempts + 1
  OBVIOUS
<1> DEFINE l == [call[c] EXCEPT !.at = "sleeping", !.attempts = call[c].attempts + 1]
<1>3. /\ call' = [call EXCEPT ![c] = l] /\ k.at = "deciding" /\ NeedsMore(c)
      /\ UNCHANGED <<config, lock, view, aborted>>
  <2>1. call' = [call EXCEPT ![c] = l]
    BY Zenon DEF Register
  <2> QED
    BY <1>1, <2>1 DEF Register
<1>4. /\ k \in Calls /\ Target \in Nat /\ MaxAttempts \in Nat
      /\ k.attempts \in Nat /\ k.alive \in Nat
      /\ k.started \in Nat /\ k.failed \in Nat
  BY <1>1, TypedNumbers DEF IInv, TypeOK, Calls, Counts
<1>5. k.alive < Target /\ a \in 0 .. MaxAttempts
  BY <1>1, <1>2, <1>3, <1>4 DEF NeedsMore
<1>6. /\ l \in Calls /\ l.at = "sleeping" /\ l.alive = k.alive /\ l.attempts = a
      /\ l.started = k.started /\ l.failed = k.failed
  <2>1. PICK m : m = [call[c] EXCEPT !.at = "sleeping"]
    OBVIOUS
  <2>2. l = [m EXCEPT !.attempts = call[c].attempts + 1]
    BY <2>1, Zenon
  <2> HIDE DEF l
  <2>3. /\ m \in Calls /\ m.at = "sleeping" /\ m.alive = k.alive
        /\ m.attempts = k.attempts
        /\ m.started = k.started /\ m.failed = k.failed
    BY <1>1, <1>4, <2>1 DEF Calls
  <2>4. l = [m EXCEPT !.attempts = a]
    BY <1>1, <1>2, <2>2
  <2> QED
    BY <1>5, <2>3, <2>4 DEF Calls
<1> HIDE DEF l
<1>7. SoundCall(k, view[c])
  BY <1>1 DEF IInv
<1>10. SoundCall(l, view[c])
  BY <1>2, <1>3, <1>4, <1>5, <1>6, <1>7
     DEF SoundCall, FreshCall, SoundTally, Counted, Pending
<1>11. Calling(c) /\ l.at # "idle"
  BY <1>1, <1>3, <1>6 DEF Calling
<1>12. /\ lock' \in [owner : Callers \cup {Nobody}, depth : Nat]
       /\ aborted' \in [Callers -> 0 .. MaxAborts]
       /\ FreeLock' /\ LockAccounting'
  BY <1>3, <1>6, <1>11, InsideCallKeepsLock
<1>13. \A d \in Callers : call'[d] = IF d = c THEN l ELSE call[d]
  BY <1>3 DEF IInv, TypeOK
<1>14. /\ workers' \in [registered : Counts, starting : Counts, listening : Counts]
       /\ Total' <= Slots /\ Total' <= Total + 1 /\ Total \in Nat /\ Total' \in Nat
  <2>1. /\ workers \in [registered : Counts, starting : Counts, listening : Counts]
        /\ Slots \in Nat /\ Total \in Nat /\ Total <= Slots
    <3>1. TypeOK
      BY DEF IInv
    <3>2. workers \in [registered : Counts, starting : Counts, listening : Counts]
      BY <3>1 DEF TypeOK
    <3> QED
      BY <3>1, <3>2, TypedNumbers DEF Counts
  <2>2. PICK r : r = workers.registered + (IF Total < Slots THEN 1 ELSE 0)
    OBVIOUS
  <2>3. workers' = [workers EXCEPT !.registered = r]
    BY <2>2, Zenon DEF Register
  <2>4. r \in Nat /\ r <= workers.registered + 1
        /\ (Total = Slots => r = workers.registered)
    BY <2>1, <2>2 DEF Counts
  <2>5. /\ workers'.registered = r /\ workers'.starting = workers.starting
        /\ workers'.listening = workers.listening
    BY <2>1, <2>3
  <2>6. Total' \in Nat /\ Total' <= Slots /\ Total' <= Total + 1
    BY <2>1, <2>4, <2>5 DEF Total, Visible, Counts
  <2>7. r \in Counts
    BY <2>1, <2>4, <2>5, <2>6 DEF Total, Visible, Counts
  <2> QED
    BY <2>1, <2>3, <2>6, <2>7
<1>15. TypeOK'
  <2>1. call' \in [Callers -> Calls]
    BY <1>3, <1>6 DEF IInv, TypeOK
  <2>2. Calls' = Calls
    BY <1>3 DEF Calls, MaxAttempts, Target
  <2> QED
    BY <1>3, <1>12, <1>14, <2>1, <2>2 DEF IInv, TypeOK
<1>16. \A d \in Callers : SoundCall(call[d], view[d])'
  <2>1. \A d \in Callers : SoundCall(call'[d], view[d])
    BY <1>10, <1>13 DEF IInv
  <2> QED
    BY <1>3, <2>1 DEF SoundCall, FreshCall, SoundTally, Counted, Pending, Target
<1> QED
  BY <1>12, <1>15, <1>16 DEF IInv

\* An ERROR leaves the lock where it was and is one aborted call more.
LEMMA AbortKeepsInv ==
    ASSUME IInv, NEW c \in Callers, Abort(c)
    PROVE  IInv'
<1>1. /\ call' = [call EXCEPT ![c] = Idle] /\ Calling(c) /\ aborted[c] < MaxAborts
      /\ aborted' = [aborted EXCEPT ![c] = @ + 1] /\ UNCHANGED <<config, workers, lock>>
      /\ view' = [view EXCEPT ![c] = Unread]
  BY DEF Abort
<1>2. Idle \in Calls /\ SoundCall(Idle, Unread) /\ Idle.at = "idle"
  BY IdleIsACall, IdleIsSound DEF IInv, Idle
<1>3. aborted[c] \in Nat /\ aborted[c] + 1 \in 0 .. MaxAborts
      /\ aborted \in [Callers -> 0 .. MaxAborts]
  BY <1>1, BoundsAssumption DEF IInv, TypeOK
<1>4. /\ aborted' \in [Callers -> 0 .. MaxAborts]
      /\ \A d \in Callers : aborted'[d] = IF d = c THEN aborted[c] + 1 ELSE aborted[d]
  BY <1>1, <1>3
<1>5. \A d \in Callers : call'[d] = IF d = c THEN Idle ELSE call[d]
  BY <1>1 DEF IInv, TypeOK
<1>6. ~Calling(c)' /\ \A d \in Callers \ {c} : Calling(d)' <=> Calling(d)
  BY <1>2, <1>5 DEF Calling
<1>7. LockAccounting'
  BY <1>1, <1>3, <1>4, <1>6 DEF IInv, LockAccounting
<1>8. lock' \in [owner : Callers \cup {Nobody}, depth : Nat] /\ FreeLock'
  BY <1>1 DEF IInv, TypeOK, FreeLock
<1> QED
  BY <1>1, <1>2, <1>4, <1>7, <1>8, CallStepKeepsInv

LEMMA DisconnectKeepsInv ==
    ASSUME IInv, NEW c \in Callers, Disconnect(c)
    PROVE  IInv'
<1>1. /\ call' = [call EXCEPT ![c] = Idle] /\ aborted' = [aborted EXCEPT ![c] = 0]
      /\ lock' = (IF lock.owner = c THEN [owner |-> Nobody, depth |-> 0] ELSE lock)
      /\ view' = [view EXCEPT ![c] = Unread] /\ UNCHANGED <<config, workers>>
  BY DEF Disconnect
<1>2. Idle \in Calls /\ SoundCall(Idle, Unread) /\ Idle.at = "idle"
  BY IdleIsACall, IdleIsSound DEF IInv, Idle
<1>3. /\ aborted' \in [Callers -> 0 .. MaxAborts]
      /\ \A d \in Callers : aborted'[d] = IF d = c THEN 0 ELSE aborted[d]
  BY <1>1, BoundsAssumption DEF IInv, TypeOK
<1>4. \A d \in Callers : call'[d] = IF d = c THEN Idle ELSE call[d]
  BY <1>1 DEF IInv, TypeOK
<1>5. ~Calling(c)' /\ \A d \in Callers \ {c} : Calling(d)' <=> Calling(d)
  BY <1>2, <1>4 DEF Calling
<1>6. LockAccounting' /\ FreeLock' /\ lock' \in [owner : Callers \cup {Nobody}, depth : Nat]
  <2>1. CASE lock.owner = c
    <3>1. lock' = [owner |-> Nobody, depth |-> 0]
      BY <1>1, <2>1
    <3>2. \A d \in Callers \ {c} : aborted[d] + (IF Calling(d) THEN 1 ELSE 0) = 0
      BY <2>1 DEF IInv, LockAccounting
    <3> QED
      BY <1>3, <1>5, <3>1, <3>2, MarkersAssumption DEF LockAccounting, FreeLock
  <2>2. CASE lock.owner # c
    <3>1. lock' = lock
      BY <1>1, <2>2
    <3> QED
      BY <1>3, <1>5, <2>2, <3>1 DEF IInv, TypeOK, LockAccounting, FreeLock
  <2> QED
    BY <2>1, <2>2
<1> QED
  BY <1>1, <1>2, <1>3, <1>6, CallStepKeepsInv

-----------------------------------------------------------------------------
(* The workers' own steps                                                  *)

LEMMA WorkerStepKeepsInv ==
    ASSUME IInv, UNCHANGED <<config, lock, view, call, aborted>>,
           workers' \in [registered : Nat, starting : Nat, listening : Nat],
           Total' <= Total
    PROVE  IInv'
<1>1. Total \in Nat /\ Total <= Slots /\ Slots \in Nat /\ Total' \in Nat
  BY TypedNumbers DEF IInv, Visible, Total
<1>2. workers' \in [registered : Counts, starting : Counts, listening : Counts]
  BY <1>1 DEF Total, Visible, Counts
<1>3. TypeOK'
  BY <1>1, <1>2 DEF IInv, TypeOK, Calls, MaxAttempts, Target
<1>4. FreeLock' /\ LockAccounting' /\ \A c \in Callers : SoundCall(call[c], view[c])'
  BY DEF IInv, FreeLock, LockAccounting, Calling, SoundCall, FreshCall, SoundTally,
         Counted, Pending, Target
<1> QED
  BY <1>3, <1>4 DEF IInv

LEMMA ForkKeepsInv == ASSUME IInv, Fork PROVE IInv'
<1>1. /\ workers \in [registered : Nat, starting : Nat, listening : Nat]
      /\ workers.registered > 0 /\ UNCHANGED <<config, lock, view, call, aborted>>
  BY TypedNumbers DEF IInv, TypeOK, Counts, Fork
<1>2. /\ workers'.registered = workers.registered - 1
      /\ workers'.starting \in {workers.starting, workers.starting + 1}
      /\ workers'.listening = workers.listening
      /\ workers' \in [registered : Nat, starting : Nat, listening : Nat]
  <2>1. CASE workers' = [workers EXCEPT !.registered = @ - 1, !.starting = @ + 1]
    <3>1. PICK m : m = [workers EXCEPT !.registered = @ - 1]
      OBVIOUS
    <3>2. workers' = [m EXCEPT !.starting = @ + 1]
      BY <2>1, <3>1, Zenon
    <3>3. /\ m \in [registered : Nat, starting : Nat, listening : Nat]
          /\ m.registered = workers.registered - 1 /\ m.starting = workers.starting
          /\ m.listening = workers.listening
      BY <1>1, <3>1
    <3> QED
      BY <3>2, <3>3
  <2>2. CASE workers' = [workers EXCEPT !.registered = @ - 1]
    BY <1>1, <2>2
  <2> QED
    BY <2>1, <2>2 DEF Fork
<1>3. Total' <= Total
  BY <1>1, <1>2 DEF Total, Visible
<1> QED
  BY <1>1, <1>2, <1>3, WorkerStepKeepsInv

LEMMA BindKeepsInv == ASSUME IInv, Bind PROVE IInv'
<1>1. /\ workers \in [registered : Nat, starting : Nat, listening : Nat]
      /\ workers.starting > 0 /\ UNCHANGED <<config, lock, view, call, aborted>>
  BY TypedNumbers DEF IInv, TypeOK, Counts, Bind
<1>2. /\ workers'.registered = workers.registered
      /\ workers'.starting = workers.starting - 1
      /\ workers'.listening \in {workers.listening, workers.listening + 1}
      /\ workers' \in [registered : Nat, starting : Nat, listening : Nat]
  <2>1. CASE workers' = [workers EXCEPT !.starting = @ - 1, !.listening = @ + 1]
    <3>1. PICK m : m = [workers EXCEPT !.starting = @ - 1]
      OBVIOUS
    <3>2. workers' = [m EXCEPT !.listening = @ + 1]
      BY <2>1, <3>1, Zenon
    <3>3. /\ m \in [registered : Nat, starting : Nat, listening : Nat]
          /\ m.starting = workers.starting - 1 /\ m.listening = workers.listening
          /\ m.registered = workers.registered
      BY <1>1, <3>1
    <3> QED
      BY <3>2, <3>3
  <2>2. CASE workers' = [workers EXCEPT !.starting = @ - 1]
    BY <1>1, <2>2
  <2> QED
    BY <2>1, <2>2 DEF Bind
<1>3. Total' <= Total
  BY <1>1, <1>2 DEF Total, Visible
<1> QED
  BY <1>1, <1>2, <1>3, WorkerStepKeepsInv

LEMMA StopWorkerKeepsInv == ASSUME IInv, StopWorker PROVE IInv'
<1>1. /\ workers \in [registered : Nat, starting : Nat, listening : Nat]
      /\ workers.listening > 0 /\ UNCHANGED <<config, lock, view, call, aborted>>
  BY TypedNumbers DEF IInv, TypeOK, Counts, StopWorker
<1>2. /\ workers'.registered = workers.registered
      /\ workers'.starting = workers.starting
      /\ workers'.listening = workers.listening - 1
      /\ workers' \in [registered : Nat, starting : Nat, listening : Nat]
  BY <1>1 DEF StopWorker
<1>3. Total' <= Total
  BY <1>1, <1>2 DEF Total, Visible
<1> QED
  BY <1>1, <1>2, <1>3, WorkerStepKeepsInv

-----------------------------------------------------------------------------
LEMMA InitSatisfiesInv == ASSUME Init PROVE IInv
<1>1. Slots \in Nat \ {0} /\ Slots \in Nat /\ 0 \in Counts
  BY BoundsAssumption DEF Counts
<1>2. Target \in Nat
  <2>1. config.workers \in 1 .. 64
    BY ConfiguredAssumption DEF Init
  <2>2. config.workers \in Nat
    BY <2>1
  <2> QED
    BY <2>2, Zenon DEF Target
<1>3. Lesser(Target, Slots) \in Counts /\ Lesser(Target, Slots) <= Target
  BY <1>1, <1>2 DEF Lesser, Counts
<1>4. /\ workers.registered = Lesser(Target, Slots)
      /\ workers.starting = 0 /\ workers.listening = 0
      /\ workers \in [registered : Counts, starting : Counts, listening : Counts]
  BY <1>1, <1>3 DEF Init
<1>5. Total = Lesser(Target, Slots) /\ Total <= Slots
  BY <1>1, <1>3, <1>4 DEF Total, Visible, Counts
<1>6. Idle \in Calls
  <2>1. MaxAttempts \in Nat
    BY <1>2 DEF MaxAttempts
  <2> QED
    BY <1>1, <2>1 DEF Idle, Calls
<1>7. \A c \in Callers : call[c] = Idle /\ call[c].at = "idle" /\ aborted[c] = 0
  BY DEF Init, Idle
<1>8. TypeOK
  BY <1>1, <1>4, <1>5, <1>6, BoundsAssumption DEF Init, TypeOK
<1>9. FreeLock /\ LockAccounting
  BY <1>7, MarkersAssumption DEF Init, FreeLock, LockAccounting, Calling
<1>10. \A c \in Callers : SoundCall(call[c], view[c])
  BY <1>7, IdleIsSound
<1> QED
  BY <1>8, <1>9, <1>10 DEF IInv

LEMMA NextKeepsInv == ASSUME IInv, [Next]_vars PROVE IInv'
<1>1. ASSUME NEW c \in Callers, Acquire(c) PROVE IInv'
  BY <1>1, AcquireKeepsInv
<1>2. ASSUME NEW c \in Callers, Proceed(c) PROVE IInv'
  <2>1. CASE FirstCount(c)
    BY <2>1, FirstCountKeepsInv
  <2>2. CASE Register(c)
    BY <2>2, RegisterKeepsInv
  <2>3. CASE Recount(c)
    BY <2>3, RecountKeepsInv
  <2>4. CASE Report(c)
    BY <2>4, ReturnKeepsInv DEF Report, Calling
  <2> QED
    BY <1>2, <2>1, <2>2, <2>3, <2>4 DEF Proceed
<1>3. ASSUME NEW c \in Callers, Fail(c) PROVE IInv'
  BY <1>3, ReturnKeepsInv DEF Fail
<1>4. ASSUME NEW c \in Callers, Abort(c) PROVE IInv'
  BY <1>4, AbortKeepsInv
<1>5. ASSUME NEW c \in Callers, Disconnect(c) PROVE IInv'
  BY <1>5, DisconnectKeepsInv
<1>6. CASE Fork
  BY <1>6, ForkKeepsInv
<1>7. CASE Bind
  BY <1>7, BindKeepsInv
<1>8. CASE StopWorker
  BY <1>8, StopWorkerKeepsInv
<1>9. ASSUME NEW c \in Callers, Status(c) \/ EndTransaction(c) PROVE IInv'
  BY <1>9, LookKeepsInv
<1>10. CASE UNCHANGED vars
  <2>1. workers' \in [registered : Nat, starting : Nat, listening : Nat]
    BY <1>10, TypedNumbers DEF IInv, TypeOK, Counts, vars
  <2>2. Total' = Total /\ Total \in Nat
    BY <1>10, TypedNumbers DEF IInv, Counts, Total, Visible, vars
  <2> QED
    BY <1>10, <2>1, <2>2, WorkerStepKeepsInv DEF vars
<1> QED
  BY <1>1, <1>2, <1>3, <1>4, <1>5, <1>6, <1>7, <1>8, <1>9, <1>10 DEF Next

THEOREM Invariance == Spec => []IInv
<1>1. Init => IInv
  BY InitSatisfiesInv
<1>2. IInv /\ [Next]_vars => IInv'
  BY NextKeepsInv
<1> QED
  BY <1>1, <1>2, PTL DEF Spec

-----------------------------------------------------------------------------
\* The variables stay in their types: above all the slots are never exceeded
\* and no call makes more attempts than MaxAttempts.
THEOREM TypeCorrect == Spec => []TypeOK
<1>1. IInv => TypeOK
  BY DEF IInv
<1> QED
  BY <1>1, Invariance, PTL

\* The advisory lock of lib.rs:152 keeps two sessions out of the loop.
THEOREM CallsAreSerialized == Spec => []OneProvisioner
<1>1. IInv => OneProvisioner
  BY OneCallAtATime DEF IInv, OneProvisioner
<1> QED
  BY <1>1, Invariance, PTL

\* What a session holds of the lock is its call in progress and its aborted ones.
THEOREM LockIsAccounted == Spec => []LockAccounting
<1>1. IInv => LockAccounting
  BY DEF IInv
<1> QED
  BY <1>1, Invariance, PTL

\* What a call decides on: it has seen no start, and used no attempt if it saw enough.
LEMMA DecidingCalls ==
    ASSUME IInv, NEW c \in Callers, call[c].at = "deciding"
    PROVE  /\ call[c].started = 0 /\ call[c].failed = call[c].attempts
           /\ call[c].alive = view[c]
           /\ call[c].alive >= Target => call[c].attempts = 0
<1>1. SoundTally(call[c], view[c]) /\ call[c].attempts \in Nat
  BY TypedNumbers DEF IInv, TypeOK, SoundCall, Calls
<1> QED
  BY <1>1 DEF SoundTally, Counted, Pending

\* A call reports only failures, for its transaction sees no worker come up (lib.rs:103).
THEOREM CallsReportFailures == Spec => []FrozenViewSeesNoStart
<1>1. IInv => FrozenViewSeesNoStart
  BY DecidingCalls DEF FrozenViewSeesNoStart
<1> QED
  BY <1>1, Invariance, PTL

\* A call of the loop at lib.rs:172 registers nothing or goes through all its attempts.
THEOREM CallsNeverStopHalfWay == Spec => []AllOrNothing
<1>1. IInv => AllOrNothing
  <2> SUFFICES ASSUME IInv, NEW c \in Callers, call[c].at = "deciding", ~NeedsMore(c)
               PROVE  call[c].attempts \in {0, MaxAttempts}
    BY DEF AllOrNothing
  <2>1. /\ call[c].attempts \in 0 .. MaxAttempts /\ MaxAttempts \in Nat
        /\ call[c].alive \in Nat /\ Target \in Nat
    BY TypedNumbers DEF IInv, TypeOK, Calls, Counts
  <2> QED
    BY <2>1, DecidingCalls DEF NeedsMore
<1> QED
  BY <1>1, Invariance, PTL

-----------------------------------------------------------------------------
(* The call comes to an end, if it goes on: what CallReturns rests on.     *)

\* How many steps a call may still take until it returns.
Remaining(l) ==
    CASE l.at = "idle" -> 0
      [] l.at = "counting" -> 2 * MaxAttempts + 2
      [] l.at = "deciding" -> 2 * (MaxAttempts - l.attempts) + 1
      [] l.at = "sleeping" -> 2 * (MaxAttempts - l.attempts) + 2

LEMMA RemainingIsNatural ==
    ASSUME TypeOK, NEW l \in Calls
    PROVE  /\ Remaining(l) \in Nat
           /\ l.at # "idle" => Remaining(l) > 0
<1>1. MaxAttempts \in Nat /\ l.attempts \in 0 .. MaxAttempts
      /\ l.at \in {"idle", "counting", "deciding", "sleeping"}
  BY TypedNumbers DEF Calls
<1>. QED
  BY <1>1 DEF Remaining

LEMMA ReturnsToIdle ==
    ASSUME TypeOK, NEW c \in Callers, Calling(c), UNCHANGED config,
           call' = [call EXCEPT ![c] = Idle]
    PROVE  Remaining(call[c])' < Remaining(call[c])
<1>1. call'[c] = Idle /\ call[c] \in Calls
  BY DEF TypeOK
<1>2. Remaining(call[c])' = 0
  BY <1>1 DEF Remaining, Idle
<1>. QED
  BY <1>1, <1>2, RemainingIsNatural DEF Calling

LEMMA FirstCountCounts ==
    ASSUME TypeOK, NEW c \in Callers, FirstCount(c)
    PROVE  Remaining(call[c])' < Remaining(call[c])
<1>. DEFINE l == [call[c] EXCEPT !.at = "deciding", !.alive = Count(c)]
<1>1. call' = [call EXCEPT ![c] = l] /\ call[c].at = "counting" /\ UNCHANGED config
  BY DEF FirstCount
<1>2. call[c] \in Calls /\ MaxAttempts \in Nat /\ call[c].attempts \in 0 .. MaxAttempts
  BY TypedNumbers DEF TypeOK, Calls
<1>3. l.at = "deciding" /\ l.attempts = call[c].attempts
  BY <1>2 DEF Calls
<1>. HIDE DEF l
<1>4. call'[c] = l /\ MaxAttempts' = MaxAttempts
  BY <1>1 DEF TypeOK, MaxAttempts, Target
<1>. QED
  BY <1>1, <1>2, <1>3, <1>4 DEF Remaining

LEMMA RegisterCounts ==
    ASSUME TypeOK, NEW c \in Callers, Register(c)
    PROVE  Remaining(call[c])' < Remaining(call[c])
<1>1. PICK a : a = call[c].attempts + 1
  OBVIOUS
<1>. DEFINE l == [call[c] EXCEPT !.at = "sleeping", !.attempts = a]
<1>2. call' = [call EXCEPT ![c] = [@ EXCEPT !.at = "sleeping",
                                            !.attempts = call[c].attempts + 1]]
      /\ call[c].at = "deciding" /\ NeedsMore(c) /\ UNCHANGED config
  BY Zenon DEF Register
<1>3. call' = [call EXCEPT ![c] = l]
  BY <1>1, <1>2, Zenon
<1>4. call[c] \in Calls /\ MaxAttempts \in Nat /\ call[c].attempts \in 0 .. MaxAttempts
      /\ call[c].attempts < MaxAttempts
  BY <1>2, TypedNumbers DEF TypeOK, Calls, NeedsMore
<1>5. l.at = "sleeping" /\ l.attempts = a
  BY <1>4 DEF Calls
<1>. HIDE DEF l
<1>6. call'[c] = l /\ MaxAttempts' = MaxAttempts
  BY <1>2, <1>3 DEF TypeOK, MaxAttempts, Target
<1>. QED
  BY <1>1, <1>2, <1>4, <1>5, <1>6 DEF Remaining

LEMMA RecountCounts ==
    ASSUME TypeOK, NEW c \in Callers, Recount(c)
    PROVE  Remaining(call[c])' < Remaining(call[c])
<1>1. call' = [call EXCEPT ![c] = AfterCount(call[c], Count(c))]
      /\ call[c].at = "sleeping" /\ UNCHANGED config
  BY Zenon DEF Recount, AfterCount
<1>2. call[c] \in Calls /\ MaxAttempts \in Nat /\ call[c].attempts \in 0 .. MaxAttempts
  BY TypedNumbers DEF TypeOK, Calls
<1>3. AfterCount(call[c], Count(c)).at = "deciding"
      /\ AfterCount(call[c], Count(c)).attempts = call[c].attempts
  BY <1>2 DEF AfterCount, Tallied, Calls
<1>4. call'[c] = AfterCount(call[c], Count(c)) /\ MaxAttempts' = MaxAttempts
  BY <1>1 DEF TypeOK, MaxAttempts, Target
<1>. QED
  BY <1>1, <1>2, <1>3, <1>4 DEF Remaining

\* A session whose call is in progress comes nearer to the end of it with every step of
\* its own, and no step of another session, of the postmaster or of a worker sets it back.
CallsAdvance == \A c \in Callers :
    Calling(c) => UNCHANGED call[c] \/ Remaining(call[c])' < Remaining(call[c])

LEMMA StepsAdvanceCalls == ASSUME IInv, [Next]_vars PROVE CallsAdvance
<1>. SUFFICES ASSUME NEW c \in Callers, Calling(c), ~UNCHANGED call[c]
              PROVE  Remaining(call[c])' < Remaining(call[c])
  BY DEF CallsAdvance
<1>1. TypeOK
  BY DEF IInv
<1>2. ASSUME NEW d \in Callers, NEW l, call' = [call EXCEPT ![d] = l] PROVE d = c
  BY <1>1, <1>2 DEF TypeOK
<1>3. ASSUME NEW d \in Callers, Acquire(d) PROVE FALSE
  BY <1>2, <1>3 DEF Acquire
<1>4. ASSUME NEW d \in Callers, FirstCount(d) PROVE Remaining(call[c])' < Remaining(call[c])
  <2>1. d = c
    BY <1>2, <1>4 DEF FirstCount
  <2>. QED
    BY <1>1, <1>4, <2>1, FirstCountCounts
<1>5. ASSUME NEW d \in Callers, Register(d) PROVE Remaining(call[c])' < Remaining(call[c])
  <2>1. d = c
    BY <1>2, <1>5, Zenon DEF Register
  <2>. QED
    BY <1>1, <1>5, <2>1, RegisterCounts
<1>6. ASSUME NEW d \in Callers, Recount(d) PROVE Remaining(call[c])' < Remaining(call[c])
  <2>1. d = c
    BY <1>2, <1>6, Zenon DEF Recount
  <2>. QED
    BY <1>1, <1>6, <2>1, RecountCounts
<1>7. ASSUME NEW d \in Callers, Report(d) \/ Fail(d) \/ Abort(d) \/ Disconnect(d)
      PROVE  Remaining(call[c])' < Remaining(call[c])
  <2>1. call' = [call EXCEPT ![d] = Idle] /\ UNCHANGED config
    BY <1>7 DEF Report, Fail, Abort, Disconnect
  <2>2. d = c
    BY <1>2, <2>1
  <2>. QED
    BY <1>1, <2>1, <2>2, ReturnsToIdle
<1>8. CASE Fork \/ Bind \/ StopWorker \/ UNCHANGED vars
  BY <1>8 DEF Fork, Bind, StopWorker, vars
<1>9. ASSUME NEW d \in Callers, Status(d) \/ EndTransaction(d) PROVE FALSE
  BY <1>9 DEF Status, EndTransaction
<1>. QED
  BY <1>3, <1>4, <1>5, <1>6, <1>7, <1>8, <1>9 DEF Next, Proceed

\* Every call of ontop_start_sparql_server ends after 2 * MaxAttempts + 2 steps of its own
\* at most, whether or not a worker ever comes up.
THEOREM NoStepIsInVain == Spec => [][CallsAdvance]_vars
<1>1. IInv /\ [Next]_vars => [CallsAdvance]_vars
  BY StepsAdvanceCalls
<1>. QED
  BY <1>1, Invariance, PTL DEF Spec
=============================================================================
