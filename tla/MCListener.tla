----------------------------- MODULE MCListener -----------------------------
(* Two clients of one worker; one request of every kind the handler treats   *)
(* on its own.                                                               *)
EXTENDS Listener

Text(kind) == [kind |-> kind, prefixed |-> FALSE, before |-> "absent", after |-> "absent"]
Ask == [kind |-> "ask", prefixed |-> FALSE, before |-> "start", after |-> "space brace"]
\* A line break between ASK and its brace: only the first test would tell.
BrokenAsk == [kind |-> "ask", prefixed |-> TRUE, before |-> "space", after |-> "other"]
\* The word ASK in a literal of a SELECT.
SelectAsk == [kind |-> "other", prefixed |-> FALSE, before |-> "space", after |-> "space"]

MCRequests ==
    {[method |-> "OPTIONS", path |-> "/sql", text |-> Text("other")],
     [method |-> "GET", path |-> "/ontology", text |-> Text("missing")],
     [method |-> "other", path |-> "/sql", text |-> Text("other")],
     [method |-> "POST", path |-> "/sql", text |-> Text("other")],
     [method |-> "POST", path |-> "/sparql", text |-> Text("malformed")],
     [method |-> "GET", path |-> "/sparql", text |-> BrokenAsk],
     [method |-> "POST", path |-> "/sparql", text |-> SelectAsk],
     [method |-> "GET", path |-> "/sparql", text |-> Text("other")],
     [method |-> "GET", path |-> "other", text |-> Text("missing")]}

MCAsk == {[method |-> "GET", path |-> "/sparql", text |-> Ask]}
=============================================================================
