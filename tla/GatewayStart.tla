----------------------------- MODULE GatewayStart -----------------------------
(***************************************************************************)
(* Provisioning of the SPARQL gateway workers (lib.rs): _PG_init registers *)
(* the configured number at server start, and every session may call       *)
(* ontop_start_sparql_server, which counts the workers it can see, and     *)
(* registers one more at a time until it sees enough or has tried often    *)
(* enough.  An advisory lock of the session serializes the calls.          *)
(*                                                                         *)
(* The environment is PostgreSQL: the postmaster forks what is registered  *)
(* sooner or later, a worker shows up in pg_stat_activity when it connects *)
(* and exits when it cannot bind, and a transaction reads all of           *)
(* pg_stat_activity as it was at its first read.                           *)
(***************************************************************************)
EXTENDS Integers, FiniteSets

CONSTANTS Callers,      \* sessions that call ontop_start_sparql_server
          Nobody,       \* the lock is free
          Unread,       \* pg_stat_activity was not read in this transaction
          Configured,   \* values of rs_ontop_core.http_workers
          Slots,        \* max_worker_processes
          MaxAborts     \* bound: calls that end in an ERROR

ASSUME ConfiguredAssumption == Configured \subseteq 1 .. 64
ASSUME BoundsAssumption == Slots \in Nat \ {0} /\ MaxAborts \in Nat
ASSUME MarkersAssumption == Nobody \notin Callers /\ Unread \notin Nat

VARIABLES config,       \* the postmaster's settings
          workers,      \* how many are registered, starting and listening
          lock,         \* the advisory lock HTTP_WORKER_LOCK_KEY
          view,         \* what each session's transaction sees of the workers
          call,         \* the locals of each session's call
          aborted       \* how many calls of each session ended in an ERROR

vars == <<config, workers, lock, view, call, aborted>>

Lesser(a, b) == IF a < b THEN a ELSE b

\* configured_http_gateway_workers_effective
Target == IF config.workers > 1 /\ ~config.reuseport THEN 1 ELSE config.workers
MaxAttempts == 3 * Target

Visible == workers.starting + workers.listening
Total == workers.registered + Visible

Idle == [at |-> "idle", alive |-> 0, started |-> 0, failed |-> 0, attempts |-> 0]
Calling(c) == call[c].at # "idle"

-----------------------------------------------------------------------------
(* The lock belongs to the session: it nests, and an ERROR does not free it *)

HeldByOther(c) == lock.owner \notin {c, Nobody}
Locked(c) == [owner |-> c, depth |-> lock.depth + 1]
Unlocked == IF lock.depth = 1 THEN [owner |-> Nobody, depth |-> 0]
            ELSE [lock EXCEPT !.depth = @ - 1]

-----------------------------------------------------------------------------
(* ontop_start_sparql_server                                               *)

\* What a count of the alive workers returns, first or not in its transaction.
Count(c) == IF view[c] = Unread THEN Visible ELSE view[c]

\* ontop_http_worker_status, or any other look at pg_stat_activity before a call.
Status(c) ==
    /\ ~Calling(c)
    /\ view' = [view EXCEPT ![c] = Count(c)]
    /\ UNCHANGED <<config, workers, lock, call, aborted>>

EndTransaction(c) ==
    /\ ~Calling(c)
    /\ view' = [view EXCEPT ![c] = Unread]
    /\ UNCHANGED <<config, workers, lock, call, aborted>>

AcquireAnyway(c) == \* mutant: goes on without the lock
    /\ ~Calling(c)
    /\ lock' = IF HeldByOther(c) THEN lock ELSE Locked(c)
    /\ call' = [call EXCEPT ![c] = [Idle EXCEPT !.at = "counting"]]
    /\ UNCHANGED <<config, workers, view, aborted>>
\* A session that does not get the lock is told to retry.
Acquire(c) ==
    /\ ~Calling(c)
    /\ ~HeldByOther(c)
    /\ lock' = Locked(c)
    /\ call' = [call EXCEPT ![c] = [Idle EXCEPT !.at = "counting"]]
    /\ UNCHANGED <<config, workers, view, aborted>>

FirstCount(c) ==
    /\ call[c].at = "counting"
    /\ view' = [view EXCEPT ![c] = Count(c)]
    /\ call' = [call EXCEPT ![c] = [@ EXCEPT !.at = "deciding", !.alive = Count(c)]]
    /\ UNCHANGED <<config, workers, lock, aborted>>

NeedsMoreOffByOne(c) == \* mutant: one attempt too many
    call[c].alive < Target /\ call[c].attempts <= MaxAttempts
NeedsMore(c) == /\ call[c].alive < Target
                /\ call[c].attempts < MaxAttempts

\* load_dynamic: nothing is registered when all slots are taken.
Register(c) ==
    /\ call[c].at = "deciding"
    /\ NeedsMore(c)
    /\ workers' = [workers EXCEPT !.registered = @ + (IF Total < Slots THEN 1 ELSE 0)]
    /\ call' = [call EXCEPT ![c] = [@ EXCEPT !.at = "sleeping",
                                             !.attempts = call[c].attempts + 1]]
    /\ UNCHANGED <<config, lock, view, aborted>>

Tallied(l, n) ==
    IF n > l.alive THEN [l EXCEPT !.started = @ + (n - l.alive), !.alive = n]
    ELSE [l EXCEPT !.failed = @ + 1, !.alive = n]

RecountLive(c) == \* mutant: counts in a transaction of its own
    /\ call[c].at = "sleeping"
    /\ call' = [call EXCEPT ![c] = [Tallied(@, Visible) EXCEPT !.at = "deciding"]]
    /\ UNCHANGED <<config, workers, lock, view, aborted>>
RecountOnceGrown(c) == \* mutant: waits until the new worker shows up
    /\ call[c].at = "sleeping"
    /\ Count(c) > call[c].alive
    /\ call' = [call EXCEPT ![c] = [Tallied(@, Count(c)) EXCEPT !.at = "deciding"]]
    /\ UNCHANGED <<config, workers, lock, view, aborted>>
Recount(c) ==
    /\ call[c].at = "sleeping"
    /\ call' = [call EXCEPT ![c] = [Tallied(@, Count(c)) EXCEPT !.at = "deciding"]]
    /\ UNCHANGED <<config, workers, lock, view, aborted>>

Report(c) ==
    /\ call[c].at = "deciding"
    /\ ~NeedsMore(c)
    /\ lock' = Unlocked
    /\ call' = [call EXCEPT ![c] = Idle]
    /\ UNCHANGED <<config, workers, view, aborted>>

FailUnlockless(c) == \* mutant: the error returns before the unlock
    /\ Calling(c)
    /\ call[c].at # "deciding" \/ NeedsMore(c)
    /\ call' = [call EXCEPT ![c] = Idle]
    /\ UNCHANGED <<config, workers, lock, view, aborted>>
\* A query that returns Err ends the closure, not the function: it unlocks.
Fail(c) ==
    /\ Calling(c)
    /\ call[c].at # "deciding" \/ NeedsMore(c)
    /\ lock' = Unlocked
    /\ call' = [call EXCEPT ![c] = Idle]
    /\ UNCHANGED <<config, workers, view, aborted>>

\* A query that raises an ERROR (a cancelled statement, a timeout) unwinds the
\* whole function and ends the transaction.
Abort(c) ==
    /\ Calling(c)
    /\ aborted[c] < MaxAborts
    /\ call' = [call EXCEPT ![c] = Idle]
    /\ view' = [view EXCEPT ![c] = Unread]
    /\ aborted' = [aborted EXCEPT ![c] = @ + 1]
    /\ UNCHANGED <<config, workers, lock>>

Disconnect(c) ==
    /\ lock' = IF lock.owner = c THEN [owner |-> Nobody, depth |-> 0] ELSE lock
    /\ call' = [call EXCEPT ![c] = Idle]
    /\ view' = [view EXCEPT ![c] = Unread]
    /\ aborted' = [aborted EXCEPT ![c] = 0]
    /\ UNCHANGED <<config, workers>>

-----------------------------------------------------------------------------
(* The workers, until they listen.                                         *)

Fork ==
    /\ workers.registered > 0
    /\ \/ workers' = [workers EXCEPT !.registered = @ - 1, !.starting = @ + 1]
       \/ workers' = [workers EXCEPT !.registered = @ - 1]
    /\ UNCHANGED <<config, lock, view, call, aborted>>

\* bind_http_server: without reuseport the port has one owner; any bind may fail.
Bind ==
    /\ workers.starting > 0
    /\ \/ /\ config.reuseport \/ workers.listening = 0
          /\ workers' = [workers EXCEPT !.starting = @ - 1, !.listening = @ + 1]
       \/ workers' = [workers EXCEPT !.starting = @ - 1]
    /\ UNCHANGED <<config, lock, view, call, aborted>>

StopWorker ==
    /\ workers.listening > 0
    /\ workers' = [workers EXCEPT !.listening = @ - 1]
    /\ UNCHANGED <<config, lock, view, call, aborted>>

-----------------------------------------------------------------------------
\* _PG_init registers as many workers as fit.
Init == /\ config \in [workers : Configured, reuseport : BOOLEAN]
        /\ workers = [registered |-> Lesser(Target, Slots), starting |-> 0, listening |-> 0]
        /\ lock = [owner |-> Nobody, depth |-> 0]
        /\ view = [c \in Callers |-> Unread]
        /\ call = [c \in Callers |-> Idle]
        /\ aborted = [c \in Callers |-> 0]

Proceed(c) == FirstCount(c) \/ Register(c) \/ Recount(c) \/ Report(c)

Next == \/ \E c \in Callers : \/ Status(c)
                              \/ EndTransaction(c)
                              \/ Acquire(c)
                              \/ Proceed(c)
                              \/ Fail(c)
                              \/ Abort(c)
                              \/ Disconnect(c)
        \/ Fork \/ Bind \/ StopWorker

\* The function sleeps and never waits, and the postmaster serves what is
\* registered.
Fairness == /\ \A c \in Callers : WF_vars(Proceed(c))
            /\ WF_vars(Fork)

Spec == Init /\ [][Next]_vars /\ Fairness

-----------------------------------------------------------------------------
Counts == 0 .. Slots
Calls == [at : {"idle", "counting", "deciding", "sleeping"}, alive : Counts,
          started : Nat, failed : Nat, attempts : 0 .. MaxAttempts]

TypeOK == /\ config \in [workers : Configured, reuseport : BOOLEAN]
          /\ workers \in [registered : Counts, starting : Counts, listening : Counts]
          /\ Total <= Slots
          /\ lock \in [owner : Callers \cup {Nobody}, depth : Nat]
          /\ view \in [Callers -> Counts \cup {Unread}]
          /\ call \in [Callers -> Calls]
          /\ aborted \in [Callers -> 0 .. MaxAborts]

\* lib.rs:151 serializes the calls: never are two sessions in the loop.
OneProvisioner ==
    \A c, d \in Callers : Calling(c) /\ Calling(d) => c = d

\* Every way out of the function gives the lock back once, except the ERROR
\* that unwinds it: the depth of the session's lock is its calls in progress
\* and its aborted calls, and nobody else can start workers until it leaves.
LockAccounting ==
    \A c \in Callers :
        (IF lock.owner = c THEN lock.depth ELSE 0)
            = aborted[c] + (IF Calling(c) THEN 1 ELSE 0)

\* A call reports every attempt as failed and none as started, whatever it started, and
\* as alive what its transaction saw first: "started=0, failed=30, attempts=30" of
\* tests/bug/bug_5820_worker_target_10_not_reached.md.
FrozenViewSeesNoStart ==
    \A c \in Callers : call[c].at = "deciding" =>
        /\ call[c].started = 0 /\ call[c].failed = call[c].attempts
        /\ call[c].alive = view[c]

\* A call that is done has registered nothing or used up every attempt: the workers
\* that come up while it runs never let it stop at its target.
AllOrNothing ==
    \A c \in Callers :
        call[c].at = "deciding" /\ ~NeedsMore(c) => call[c].attempts \in {0, MaxAttempts}

\* Every call returns, even when no worker ever comes up.
CallReturns == \A c \in Callers : Calling(c) ~> ~Calling(c)

\* lib.rs:151 "Serialize concurrent start calls to avoid over-provisioning
\* workers": there are never more workers than configured.
NoOverProvisioning == Total <= Target
=============================================================================
