------------------------------ MODULE Listener ------------------------------
(***************************************************************************)
(* One SPARQL gateway worker (listener.rs): it builds its engine, binds the *)
(* port and answers the HTTP requests one after the other until SIGTERM.   *)
(* The queue is the one of tiny_http, which holds requests and accept       *)
(* errors alike.  Of a query text the model keeps what the handlers test:   *)
(* what kind of text it is and how its first word ASK stands in it.         *)
(***************************************************************************)
EXTENDS Naturals, Sequences, SequencesExt

CONSTANTS Clients,        \* each has one request at a time
          NoClient,       \* no request is being handled
          AcceptError,    \* a queue entry of an accept that failed
          MaxQueue,       \* bound: entries in the queue
          Requests,       \* what a client may send
          ErrorClasses    \* how the database or the translation may fail

Texts ==
    [kind : {"missing", "blank",
             "illegal",      \* fails validate_query_stability
             "malformed",    \* is no SPARQL
             "ask", "other"},
     prefixed : BOOLEAN,     \* starts with PREFIX
     before : {"absent",     \* there is no word ASK,
               "start",      \* the trimmed text starts with it,
               "space",      \* a space or a line feed stands before it
               "other"},
     after : {"absent", "space", "space brace", "other"}]

ASSUME BoundAssumption == MaxQueue \in Nat
ASSUME MarkersAssumption == AcceptError \notin Clients /\ NoClient \notin Clients
ASSUME RequestsAssumption ==
    Requests \subseteq
        [method : {"OPTIONS", "GET", "POST", "other"},
         path : {"/ontology", "/sql", "/sparql", "other"},
         text : Texts]

MaxConsecutiveErrors == 10

Bodies == {"none", "error", "json", "bindings", "true", "false"}
Answers == [status : {200, 204, 400, 404, 408, 409, 500, 503}, body : Bodies,
            holds : BOOLEAN]     \* what the database knows: the query has a solution
Quiet == [state |-> "quiet"]
Waiting(r) == [state |-> "waiting", request |-> r]
Answered(r, a) == [state |-> "answered", request |-> r, answer |-> a]

VARIABLES phase,      \* "binding", "serving", "sleeping" or "stopped"
          engine,     \* has this process an engine?
          queue,      \* tiny_http's queue
          current,    \* the client whose request is being handled
          client,     \* what each client did last
          errors,     \* consecutive_errors
          sigterm,    \* the stop signal has arrived
          cause       \* why the worker stopped

vars == <<phase, engine, queue, current, client, errors, sigterm, cause>>

-----------------------------------------------------------------------------
(* What the handler answers without running anything.                      *)

\* Only GET and POST bodies are looked at.
QueryKind(r) == IF r.method \in {"GET", "POST"} THEN r.text.kind ELSE "missing"

NotRun(status, body) == [status |-> status, body |-> body, holds |-> FALSE]

\* validate_query_stability: the size and the characters of the text.
IsLegal(kind) == kind # "illegal"

\* validate_sparql_syntax: the parser of another crate takes the text.
IsSparql(kind) == kind \notin {"blank", "malformed"}

SqlRejects(kind) == kind \in {"missing", "blank"} \/ ~IsLegal(kind)
SparqlRejects(kind) == kind = "missing" \/ ~IsLegal(kind) \/ ~IsSparql(kind)

Rejections(r) ==
    CASE r.method = "OPTIONS" -> {NotRun(204, "none")}
      [] r.method # "OPTIONS" /\ r.path = "/sql" /\ SqlRejects(QueryKind(r)) ->
            {NotRun(400, "error")}
      [] r.method # "OPTIONS" /\ r.path = "/sparql" /\ SparqlRejects(QueryKind(r)) ->
            {NotRun(400, "error")}
      [] r.method # "OPTIONS" /\ r.path = "other" -> {NotRun(404, "error")}
      [] OTHER -> {}

-----------------------------------------------------------------------------
(* Running a query in a transaction.                                       *)

\* determine_error_status_code: by SQLSTATE class, else by what the text says.
DetermineErrorStatusCode(e) ==
    CASE e \in {"22", "23", "28", "42", "no column", "syntax", "invalid sql"} -> 400
      [] e = "timeout" -> 408
      [] e = "40" -> 409
      [] e \in {"08", "53", "54", "55", "57", "58", "connection"} -> 503
      [] OTHER -> 500

Failed(e) == NotRun(DetermineErrorStatusCode(e), "error")

\* spi_execute_sparql_json_rows: what starts with ASK is one row with its truth
\* value, and any other query the rows of its solutions.
HasRows(t, holds) == t.before = "start" \/ holds

\* Four tests of the text itself, whatever the query is.
SaysAsk(t) == \/ t.before = "start"
              \/ t.before = "space" /\ t.after \in {"space", "space brace"}
              \/ t.prefixed /\ t.after = "space brace"

\* format_sparql_response
FormatSparqlResponse(t, holds) ==
    [status |-> 200, holds |-> holds,
     body |-> IF ~SaysAsk(t) THEN "bindings"
              ELSE IF HasRows(t, holds) THEN "true" ELSE "false"]

\* execute_raw_sql_query
SqlAnswers == {NotRun(200, "json")} \cup {Failed(e) : e \in ErrorClasses}

SparqlAnswersWithoutEngine(t) == \* mutant: an engine that is not there is empty
    {FormatSparqlResponse(t, holds) : holds \in BOOLEAN}
\* execute_ontop_query: without an engine an Err of no special class.
SparqlAnswers(t) ==
    IF engine THEN {FormatSparqlResponse(t, holds) : holds \in BOOLEAN}
                   \cup {Failed(e) : e \in ErrorClasses}
    ELSE {Failed("not initialized")}

\* The engine of a worker without one is reported as JSON null, with status 200.
OntologyAnswers == {NotRun(200, "json"), NotRun(500, "error")}

Panicked == NotRun(500, "error")

-----------------------------------------------------------------------------
(* The clients and the server's queue.                                     *)

Send(c, r) ==
    /\ phase \in {"serving", "sleeping"}
    /\ client[c].state # "waiting"
    /\ Len(queue) < MaxQueue
    /\ client' = [client EXCEPT ![c] = Waiting(r)]
    /\ queue' = Append(queue, c)
    /\ UNCHANGED <<phase, engine, current, errors, sigterm, cause>>

AcceptFails ==
    /\ phase \in {"serving", "sleeping"}
    /\ Len(queue) < MaxQueue
    /\ queue' = Append(queue, AcceptError)
    /\ UNCHANGED <<phase, engine, current, client, errors, sigterm, cause>>

Terminate ==
    /\ sigterm' = TRUE
    /\ UNCHANGED <<phase, engine, queue, current, client, errors, cause>>

-----------------------------------------------------------------------------
(* The worker.                                                             *)

\* A panic while building the engine is caught, and the loop runs without it.
InitializeEngine ==
    /\ phase = "binding"
    /\ engine' \in BOOLEAN
    /\ \/ phase' = "serving" /\ UNCHANGED cause
       \/ phase' = "stopped" /\ cause' = "bind"
    /\ UNCHANGED <<queue, current, client, errors, sigterm>>

Stop(why) == phase' = "stopped" /\ cause' = why

AtLoopHead == phase = "serving" /\ current = NoClient

\* wait_latch returns false once SIGTERM has arrived.
LeaveLoop ==
    /\ AtLoopHead
    /\ sigterm
    /\ Stop("sigterm")
    /\ UNCHANGED <<engine, queue, current, client, errors, sigterm>>

Respond(c, a) == client' = [client EXCEPT ![c] = Answered(@.request, a)]

ReceiveNewest == \* mutant: takes the youngest entry of the queue
    /\ AtLoopHead /\ ~sigterm
    /\ queue # <<>> /\ Last(queue) # AcceptError
    /\ queue' = Front(queue)
    /\ errors' = 0
    /\ current' = Last(queue)
    /\ UNCHANGED <<phase, engine, client, sigterm, cause>>
ReceiveRequest ==
    /\ AtLoopHead /\ ~sigterm
    /\ queue # <<>> /\ Head(queue) # AcceptError
    /\ queue' = Tail(queue)
    /\ errors' = 0
    /\ current' = Head(queue)
    /\ UNCHANGED <<phase, engine, client, sigterm, cause>>

RejectUnanswered == \* mutant: leaves the request without an answer
    /\ current # NoClient
    /\ Rejections(client[current].request) # {}
    /\ current' = NoClient
    /\ UNCHANGED <<phase, engine, queue, client, errors, sigterm, cause>>
\* The early returns of the handlers, once a POST has sent its body.
Reject ==
    /\ current # NoClient
    /\ \E a \in Rejections(client[current].request) : Respond(current, a)
    /\ current' = NoClient
    /\ UNCHANGED <<phase, engine, queue, errors, sigterm, cause>>

ReceiveErrorLate == \* mutant: backs off one error too late
    /\ AtLoopHead /\ ~sigterm
    /\ queue # <<>> /\ Head(queue) = AcceptError
    /\ queue' = Tail(queue)
    /\ errors' = errors + 1
    /\ phase' = IF errors >= MaxConsecutiveErrors THEN "sleeping" ELSE phase
    /\ UNCHANGED <<engine, current, client, sigterm, cause>>
ReceiveError ==
    /\ AtLoopHead /\ ~sigterm
    /\ queue # <<>> /\ Head(queue) = AcceptError
    /\ queue' = Tail(queue)
    /\ errors' = errors + 1
    /\ phase' = IF errors + 1 >= MaxConsecutiveErrors THEN "sleeping" ELSE phase
    /\ UNCHANGED <<engine, current, client, sigterm, cause>>

\* The second of sleep is over.
WakeUp ==
    /\ phase = "sleeping"
    /\ phase' = "serving"
    /\ errors' = 0
    /\ UNCHANGED <<engine, queue, current, client, sigterm, cause>>

Timeout ==
    /\ AtLoopHead /\ ~sigterm
    /\ queue = <<>>
    /\ errors' = 0
    /\ UNCHANGED <<phase, engine, queue, current, client, sigterm, cause>>

Running(path) == /\ current # NoClient
                 /\ Rejections(client[current].request) = {}
                 /\ client[current].request.path = path

\* The transaction returned.
Complete(path, answers) ==
    /\ Running(path)
    /\ \E a \in answers : Respond(current, a)
    /\ current' = NoClient
    /\ UNCHANGED <<phase, queue, errors, sigterm, cause>>

\* A panic that reaches the catch_unwind around the transaction.
CaughtPanicFatal(path) == \* mutant: no catch_unwind around the transaction
    /\ Running(path)
    /\ current' = NoClient
    /\ Stop(path)
    /\ UNCHANGED <<queue, client, errors, sigterm>>
CaughtPanic(path) ==
    /\ Running(path)
    /\ Respond(current, Panicked)
    /\ current' = NoClient
    /\ UNCHANGED <<phase, queue, errors, sigterm, cause>>

\* Any statement runs, SELECT ontop_refresh() among them: ENGINE is no part of the
\* transaction and stays built if the statement then fails.
RunSql ==
    /\ Complete("/sql", SqlAnswers) \/ CaughtPanic("/sql")
    /\ engine' \in {engine, TRUE}

RunSparql ==
    /\ \/ /\ current # NoClient
          /\ Complete("/sparql", SparqlAnswers(client[current].request.text))
       \/ CaughtPanic("/sparql")
    /\ UNCHANGED engine

\* The transaction of /ontology is not in a catch_unwind: its panic unwinds the
\* worker, and the drop of the request answers it on the way.
RunOntology ==
    \/ Complete("/ontology", OntologyAnswers) /\ UNCHANGED engine
    \/ /\ Running("/ontology")
       /\ Stop("/ontology")
       /\ current' = NoClient
       /\ Respond(current, Panicked)
       /\ UNCHANGED <<engine, queue, errors, sigterm>>

-----------------------------------------------------------------------------
Init == /\ phase = "binding"
        /\ engine = FALSE
        /\ queue = <<>>
        /\ current = NoClient
        /\ client = [c \in Clients |-> Quiet]
        /\ errors = 0
        /\ sigterm = FALSE
        /\ cause = "none"

\* What the worker does without waiting for a client or for the database.
OwnStep == LeaveLoop \/ ReceiveRequest \/ ReceiveError \/ WakeUp \/ Timeout

Next == \/ \E c \in Clients, r \in Requests : Send(c, r)
        \/ AcceptFails
        \/ Terminate
        \/ InitializeEngine
        \/ OwnStep
        \/ Reject \/ RunSql \/ RunSparql \/ RunOntology

\* The loop's own calls wait for a tenth of a second or for one.  Reading a body,
\* running a statement and writing an answer have no limit, so handling a request may
\* take for ever.
Spec == Init /\ [][Next]_vars /\ WF_vars(OwnStep)

-----------------------------------------------------------------------------
TypeOK == /\ phase \in {"binding", "serving", "sleeping", "stopped"}
          /\ engine \in BOOLEAN /\ sigterm \in BOOLEAN
          /\ queue \in Seq(Clients \cup {AcceptError}) /\ Len(queue) <= MaxQueue
          /\ current \in Clients \cup {NoClient}
          /\ DOMAIN client = Clients
          /\ \A c \in Clients :
                 /\ client[c].state \in {"quiet", "waiting", "answered"}
                 /\ client[c].state # "quiet" => client[c].request \in Requests
                 /\ client[c].state = "answered" => client[c].answer \in Answers
          /\ errors \in 0 .. MaxConsecutiveErrors
          /\ cause \in {"none", "bind", "sigterm", "/sql", "/sparql", "/ontology"}

Occurrences(c) == Cardinality({i \in 1 .. Len(queue) : queue[i] = c})

\* No request is lost or answered twice: a client that waits is in the queue
\* once or is the one being served, and a client that does not is in neither.
NoRequestLost ==
    \A c \in Clients :
        Occurrences(c) + (IF current = c THEN 1 ELSE 0)
            = (IF client[c].state = "waiting" THEN 1 ELSE 0)

\* A worker that bound its port stops for SIGTERM or for a panic of /ontology:
\* whatever /sql and /sparql run, and however it fails, they answer.
OnlyOntologyIsFatal ==
    phase = "stopped" => cause \in {"bind", "sigterm", "/ontology"}

\* The tenth error in a row puts the worker to sleep before anything else.
BacksOff == errors >= MaxConsecutiveErrors => phase = "sleeping"

\* A client waits for the one being served and for those before it in the queue.
WaitingClients == {c \in Clients : client[c].state = "waiting"}
Ahead(c) == {d \in Clients : \E j \in 1 .. Len(queue) :
                queue[j] = c /\ (d = current \/ \E i \in 1 .. j - 1 : queue[i] = d)}
Service == INSTANCE RequestService WITH
    Clients <- Clients, waiting <- WaitingClients, ahead <- [c \in Clients |-> Ahead(c)]

\* The worker serves its clients in the order in which they asked, whatever errors stand
\* between them in the queue and whether they are answered at once or after a query.
ServesInOrder == Service!Spec

\* A worker that has no engine has answered no SPARQL query with a result: neither its
\* start nor a statement of /sql has built one, and an engine is never taken away.
NoEngineNoResult ==
    ~engine => \A c \in Clients :
        client[c].state = "answered" /\ client[c].request.path = "/sparql"
            => client[c].answer.status # 200

\* Whoever waits is answered unless the worker stops, or handles one request for ever:
\* there is no time limit on a statement or a body, so that is all the loop promises.
HandlingEnds == []<>(current = NoClient)
RequestsAreAnswered ==
    HandlingEnds =>
        \A c \in Clients :
            client[c].state = "waiting" ~> (client[c].state = "answered" \/ phase = "stopped")

\* lib.rs:696 "Handle ASK queries specially - return boolean result": the answer
\* to an ASK is its truth value.
AskAnswersTruth ==
    \A c \in Clients :
        (/\ client[c].state = "answered" /\ client[c].request.text.kind = "ask"
         /\ client[c].answer.status = 200 /\ client[c].request.path = "/sparql")
            => (client[c].answer.body = "true") = client[c].answer.holds
=============================================================================
