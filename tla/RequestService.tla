--------------------------- MODULE RequestService ---------------------------
(***************************************************************************)
(* What the clients of a gateway worker may rely on, with queues, errors,  *)
(* engines and answers' contents left out: who asked first is served       *)
(* first.  A client may ask again once it is served.                       *)
(***************************************************************************)
CONSTANTS Clients

VARIABLES waiting,    \* the clients that have asked and are not yet served
          ahead       \* ahead[c]: those that c still has to wait for

vars == <<waiting, ahead>>

Init == /\ waiting = {}
        /\ ahead = [c \in Clients |-> {}]

\* Whoever waits already is ahead.
Ask(c) == /\ c \notin waiting
          /\ waiting' = waiting \cup {c}
          /\ ahead' = [ahead EXCEPT ![c] = waiting]

\* Nobody is ahead of a client that is served, which is ahead of nobody any more.
Serve(c) == /\ c \in waiting
            /\ ahead[c] = {}
            /\ waiting' = waiting \ {c}
            /\ ahead' = [d \in Clients |-> ahead[d] \ {c}]

Next == \E c \in Clients : Ask(c) \/ Serve(c)

Spec == Init /\ [][Next]_vars

\* Those who wait stand in a line: of any two one is ahead, and who is ahead of somebody
\* is ahead of all behind.
InLine ==
    /\ \A c \in Clients : ahead[c] \subseteq waiting \ {c}
    /\ \A c \in waiting, d \in waiting : c # d => (c \in ahead[d] <=> d \notin ahead[c])
    /\ \A c, d, e \in waiting : c \in ahead[d] /\ d \in ahead[e] => c \in ahead[e]
=============================================================================
