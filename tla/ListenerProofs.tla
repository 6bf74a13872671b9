---------------------------- MODULE ListenerProofs ----------------------------
(***************************************************************************)
(* The request loop of a worker, for any number of clients, any requests   *)
(* and any length of the queue: no request is lost, the worker survives    *)
(* what it executes, and what it answers is right.                         *)
(***************************************************************************)
EXTENDS Listener, FiniteSetTheorems, SequenceTheorems, TLAPS

-----------------------------------------------------------------------------
(* How often a client is in a queue.                                       *)

Places(q, c) == {i \in 1 .. Len(q) : q[i] = c}

LEMMA PlacesAreFinite ==
    ASSUME NEW S, NEW q \in Seq(S), NEW c
    PROVE  IsFiniteSet(Places(q, c)) /\ Cardinality(Places(q, c)) \in Nat
<1>1. Len(q) \in Nat
  BY LenProperties
<1>2. IsFiniteSet(1 .. Len(q))
  BY <1>1, FS_Interval
<1>3. Places(q, c) \in SUBSET (1 .. Len(q))
  BY DEF Places
<1>. QED
  BY <1>2, <1>3, FS_Subset, FS_CardinalityType

LEMMA PlacesInAppend ==
    ASSUME NEW S, NEW q \in Seq(S), NEW x \in S, NEW c
    PROVE  Cardinality(Places(Append(q, x), c))
             = Cardinality(Places(q, c)) + (IF x = c THEN 1 ELSE 0)
<1>1. Len(q) \in Nat /\ Len(Append(q, x)) = Len(q) + 1 /\ Append(q, x)[Len(q) + 1] = x
      /\ \A i \in 1 .. Len(q) : Append(q, x)[i] = q[i]
  BY AppendProperties, LenProperties
<1>2. IsFiniteSet(Places(q, c)) /\ Cardinality(Places(q, c)) \in Nat
  BY PlacesAreFinite
<1>3. CASE x = c
  <2>1. Places(Append(q, x), c) = Places(q, c) \cup {Len(q) + 1}
    BY <1>1, <1>3 DEF Places
  <2>2. Len(q) + 1 \notin Places(q, c)
    BY <1>1 DEF Places
  <2>. QED
    BY <1>2, <1>3, <2>1, <2>2, FS_AddElement
<1>4. CASE x # c
  <2>1. Places(Append(q, x), c) = Places(q, c)
    BY <1>1, <1>4 DEF Places
  <2>. QED
    BY <1>2, <1>4, <2>1
<1>. QED
  BY <1>3, <1>4

\* The places in the tail are the later ones, moved up by one.
LEMMA PlacesInTail ==
    ASSUME NEW S, NEW q \in Seq(S), q # <<>>, NEW c
    PROVE  Cardinality(Places(q, c))
             = Cardinality(Places(Tail(q), c)) + (IF Head(q) = c THEN 1 ELSE 0)
<1>1. Len(q) \in Nat \ {0} /\ Tail(q) \in Seq(S) /\ Len(Tail(q)) = Len(q) - 1
      /\ Head(q) = q[1] /\ \A i \in 1 .. Len(Tail(q)) : Tail(q)[i] = q[i + 1]
  BY LenProperties, HeadTailProperties, EmptySeq
<1>. DEFINE later == {i \in 2 .. Len(q) : q[i] = c}
            shift == [i \in Places(Tail(q), c) |-> i + 1]
<1>2. shift \in Bijection(Places(Tail(q), c), later)
  <2>1. shift \in [Places(Tail(q), c) -> later]
    BY <1>1 DEF Places
  <2>2. \A i, j \in Places(Tail(q), c) : shift[i] = shift[j] => i = j
    BY <1>1 DEF Places
  <2>3. \A j \in later : \E i \in Places(Tail(q), c) : shift[i] = j
    <3>. SUFFICES ASSUME NEW j \in later PROVE \E i \in Places(Tail(q), c) : shift[i] = j
      OBVIOUS
    <3>1. j - 1 \in Places(Tail(q), c)
      BY <1>1 DEF Places
    <3>2. shift[j - 1] = j
      BY <3>1
    <3>. QED
      BY <3>1, <3>2, Zenon
  <2>. HIDE DEF shift, later
  <2>4. shift \in Injection(Places(Tail(q), c), later)
    BY <2>1, <2>2 DEF Injection, IsInjective
  <2>. QED
    BY <2>1, <2>3, <2>4 DEF Bijection, Surjection
<1>3. IsFiniteSet(Places(Tail(q), c)) /\ Cardinality(Places(Tail(q), c)) \in Nat
  BY <1>1, PlacesAreFinite
<1>4. IsFiniteSet(later) /\ Cardinality(later) = Cardinality(Places(Tail(q), c))
  BY <1>2, <1>3, FS_Bijection DEF ExistsBijection
<1>5. CASE Head(q) = c
  <2>1. Places(q, c) = later \cup {1}
    BY <1>1, <1>5 DEF Places
  <2>2. 1 \notin later
    BY <1>1
  <2>. QED
    BY <1>3, <1>4, <1>5, <2>1, <2>2, FS_AddElement
<1>6. CASE Head(q) # c
  <2>1. Places(q, c) = later
    BY <1>1, <1>6 DEF Places
  <2>. QED
    BY <1>3, <1>4, <1>6, <2>1
<1>. QED
  BY <1>5, <1>6

LEMMA NowhereInEmpty == \A c : Cardinality(Places(<<>>, c)) = 0
<1>1. \A c : Places(<<>>, c) = {}
  BY DEF Places
<1>. QED
  BY <1>1, FS_EmptySet

-----------------------------------------------------------------------------
(* The invariant.                                                          *)

\* Nothing has happened before the port is bound; a request is handled only while the
\* loop runs.
Idle == phase = "binding" => /\ queue = <<>> /\ current = NoClient
                             /\ \A c \in Clients : client[c].state = "quiet"
Busy == current # NoClient => phase = "serving"
OccursIn(q, c) == Cardinality(Places(q, c))
Waits(c) == IF client[c].state = "waiting" THEN 1 ELSE 0
Runs(c) == IF current = c THEN 1 ELSE 0

IInv == /\ TypeOK
        /\ Idle /\ Busy
        /\ \A c \in Clients : OccursIn(queue, c) + Runs(c) = Waits(c)
        /\ OnlyOntologyIsFatal
        /\ BacksOff
        /\ NoEngineNoResult

LEMMA IInvGivesProperties ==
    IInv => /\ TypeOK /\ NoRequestLost /\ OnlyOntologyIsFatal /\ BacksOff
            /\ NoEngineNoResult
  BY DEF IInv, NoRequestLost, Occurrences, OccursIn, Places, Waits, Runs

\* An answer to a request that the properties of answers allow.
Fits(r, a) ==
    /\ a \in Answers
    /\ ~engine /\ r.path = "/sparql" => a.status # 200

LEMMA RequestsAreTyped ==
    ASSUME NEW r \in Requests
    PROVE  /\ r.method \in {"OPTIONS", "GET", "POST", "other"}
           /\ r.path \in {"/ontology", "/sql", "/sparql", "other"}
  BY RequestsAssumption

LEMMA NotRunFits ==
    ASSUME NEW r, NEW st \in {204, 400, 404, 408, 409, 500, 503}, NEW b \in Bodies
    PROVE  Fits(r, NotRun(st, b))
<1>1. NotRun(st, b).status = st /\ st # 200
  BY DEF NotRun
<1>2. NotRun(st, b) \in Answers
  BY DEF NotRun, Answers
<1>. QED
  BY <1>1, <1>2 DEF Fits

LEMMA FailedFits ==
    ASSUME NEW r, NEW e PROVE Fits(r, Failed(e))
<1>1. DetermineErrorStatusCode(e) \in {204, 400, 404, 408, 409, 500, 503}
  BY DEF DetermineErrorStatusCode
<1>2. "error" \in Bodies
  BY DEF Bodies
<1>. QED
  BY <1>1, <1>2, NotRunFits DEF Failed

LEMMA RejectionsFit ==
    ASSUME NEW r \in Requests, NEW a \in Rejections(r)
    PROVE  Fits(r, a)
<1>1. a \in {NotRun(204, "none"), NotRun(400, "error"), NotRun(404, "error")}
  BY RequestsAreTyped DEF Rejections
<1>2. "none" \in Bodies /\ "error" \in Bodies
  BY DEF Bodies
<1>. QED
  BY <1>1, <1>2, NotRunFits

LEMMA FormattedFits ==
    ASSUME NEW r, NEW holds \in BOOLEAN, engine
    PROVE  Fits(r, FormatSparqlResponse(r.text, holds))
  BY DEF FormatSparqlResponse, Answers, Bodies, Fits

LEMMA SparqlAnswersFit ==
    ASSUME NEW r, NEW a \in SparqlAnswers(r.text)
    PROVE  Fits(r, a)
  BY FormattedFits, FailedFits DEF SparqlAnswers

LEMMA OtherAnswersFit ==
    ASSUME NEW r, r.path # "/sparql", NEW a \in SqlAnswers \cup OntologyAnswers
    PROVE  Fits(r, a)
<1>1. Fits(r, NotRun(200, "json"))
  BY DEF Fits, NotRun, Answers, Bodies
<1>2. Fits(r, NotRun(500, "error"))
  BY NotRunFits DEF Bodies
<1>. QED
  BY <1>1, <1>2, FailedFits DEF SqlAnswers, OntologyAnswers

-----------------------------------------------------------------------------
(* A waiting client is answered.                                           *)

LEMMA AnswerStep ==
    ASSUME IInv, NEW c \in Clients, client[c].state = "waiting",
           NEW a, Fits(client[c].request, a), Respond(c, a), engine' \in {engine, TRUE}
    PROVE  /\ DOMAIN client' = Clients
           /\ \A d \in Clients :
                 /\ client'[d].state \in {"quiet", "waiting", "answered"}
                 /\ client'[d].state # "quiet" => client'[d].request \in Requests
                 /\ client'[d].state = "answered" => client'[d].answer \in Answers
           /\ NoEngineNoResult'
           /\ \A d \in Clients : Waits(d)' = IF d = c THEN 0 ELSE Waits(d)
<1>1. client' = [client EXCEPT ![c] = Answered(client[c].request, a)]
  BY DEF Respond
<1>2. DOMAIN client' = Clients /\ \A d \in Clients \ {c} : client'[d] = client[d]
  BY <1>1 DEF IInv, TypeOK
<1>3. client'[c].state = "answered" /\ client'[c].request = client[c].request
      /\ client'[c].answer = a
  BY <1>1 DEF IInv, TypeOK, Answered
<1>4. client[c].request \in Requests /\ a \in Answers
  BY DEF IInv, TypeOK, Fits
<1>5. \A d \in Clients :
         /\ client'[d].state \in {"quiet", "waiting", "answered"}
         /\ client'[d].state # "quiet" => client'[d].request \in Requests
         /\ client'[d].state = "answered" => client'[d].answer \in Answers
  BY <1>2, <1>3, <1>4 DEF IInv, TypeOK
<1>6. NoEngineNoResult'
  <2>1. ~engine' => ~engine
    OBVIOUS
  <2>. SUFFICES ASSUME ~engine', NEW d \in Clients, client'[d].state = "answered",
                       client'[d].request.path = "/sparql"
                PROVE  client'[d].answer.status # 200
    BY DEF NoEngineNoResult
  <2>2. CASE d = c
    BY <1>3, <2>1, <2>2 DEF Fits
  <2>3. CASE d # c
    BY <1>2, <2>1, <2>3 DEF IInv, NoEngineNoResult
  <2>. QED
    BY <2>2, <2>3
<1>7. \A d \in Clients : Waits(d)' = IF d = c THEN 0 ELSE Waits(d)
  BY <1>2, <1>3 DEF Waits
<1>. QED
  BY <1>2, <1>5, <1>6, <1>7

\* An answer ends the handling of a request.
LEMMA ExecutedStep ==
    ASSUME IInv, current # NoClient,
           NEW a, Fits(client[current].request, a), Respond(current, a),
           current' = NoClient, engine' \in {engine, TRUE},
           UNCHANGED <<queue, errors, sigterm>>,
           \/ UNCHANGED <<phase, cause>>
           \/ Stop("/ontology")
    PROVE  IInv'
<1>1. current \in Clients /\ phase = "serving" /\ errors < MaxConsecutiveErrors
      /\ errors \in Nat
  BY DEF IInv, TypeOK, Busy, BacksOff, MaxConsecutiveErrors
<1>2. client[current].state = "waiting" /\ OccursIn(queue, current) = 0
  <2>1. OccursIn(queue, current) \in Nat
    BY PlacesAreFinite DEF OccursIn, IInv, TypeOK
  <2>. QED
    BY <1>1, <2>1 DEF IInv, Runs, Waits
<1>3. TypeOK'
  BY <1>1, <1>2, AnswerStep DEF IInv, TypeOK, Stop
<1>4. \A d \in Clients : OccursIn(queue, d)' + Runs(d)' = Waits(d)'
  <2>1. \A d \in Clients : OccursIn(queue, d)' = OccursIn(queue, d)
    BY DEF OccursIn, Places
  <2>2. \A d \in Clients : Runs(d)' = 0
    BY MarkersAssumption DEF Runs
  <2>3. \A d \in Clients \ {current} : Runs(d) = 0
    BY DEF Runs
  <2>4. \A d \in Clients : Waits(d)' = IF d = current THEN 0 ELSE Waits(d)
    BY <1>1, <1>2, AnswerStep
  <2>5. \A d \in Clients : OccursIn(queue, d) + Runs(d) = Waits(d) /\ Waits(d) \in {0, 1}
    BY DEF IInv, Waits
  <2>6. ASSUME NEW d \in Clients PROVE OccursIn(queue, d) \in Nat
    BY PlacesAreFinite DEF OccursIn, IInv, TypeOK
  <2>. QED
    BY <1>1, <1>2, <2>1, <2>2, <2>3, <2>4, <2>5, <2>6
<1>5. (Idle /\ Busy /\ OnlyOntologyIsFatal /\ BacksOff)'
  BY <1>1 DEF IInv, Idle, Busy, OnlyOntologyIsFatal, BacksOff, Stop
<1>6. NoEngineNoResult'
  BY <1>1, <1>2, AnswerStep
<1>. QED
  BY <1>3, <1>4, <1>5, <1>6 DEF IInv

LEMMA RejectKeepsIInv ==
    ASSUME IInv, Reject
    PROVE  IInv'
<1>. DEFINE r == client[current].request
<1>1. current \in Clients /\ current # NoClient
  BY DEF Reject, IInv, TypeOK
<1>2. client[current].state # "quiet"
  <2>1. OccursIn(queue, current) \in Nat
    BY <1>1, PlacesAreFinite DEF OccursIn, IInv, TypeOK
  <2>. QED
    BY <1>1, <2>1 DEF IInv, Runs, Waits
<1>3. PICK a \in Rejections(r) : Respond(current, a)
  BY DEF Reject
<1>4. Fits(r, a)
  BY <1>1, <1>2, RejectionsFit DEF IInv, TypeOK
<1>. QED
  BY <1>1, <1>3, <1>4, ExecutedStep DEF Reject

LEMMA RunKeepsIInv ==
    ASSUME IInv, RunSql \/ RunSparql \/ RunOntology
    PROVE  IInv'
<1>. DEFINE r == client[current].request
<1>1. Fits(r, Panicked)
  BY NotRunFits DEF Panicked, Bodies
<1>. engine' \in {engine, TRUE}
  BY DEF RunSql, RunSparql, RunOntology
<1>2. ASSUME NEW path, CaughtPanic(path) PROVE IInv'
  BY <1>1, <1>2, ExecutedStep DEF CaughtPanic, Running
<1>3. ASSUME NEW path, NEW answers, Complete(path, answers),
             \A a \in answers : Fits(r, a)
      PROVE  IInv'
  <2>1. PICK a \in answers : Respond(current, a)
    BY <1>3 DEF Complete
  <2>. QED
    BY <1>3, <2>1, ExecutedStep DEF Complete, Running
<1>4. CASE Complete("/sql", SqlAnswers)
  BY <1>3, <1>4, OtherAnswersFit DEF Complete, Running
<1>5. CASE Complete("/sparql", SparqlAnswers(client[current].request.text))
  BY <1>3, <1>5, SparqlAnswersFit
<1>6. CASE Complete("/ontology", OntologyAnswers)
  BY <1>3, <1>6, OtherAnswersFit DEF Complete, Running
<1>7. CASE /\ Running("/ontology") /\ Stop("/ontology") /\ current' = NoClient
           /\ Respond(current, Panicked) /\ UNCHANGED <<engine, queue, errors, sigterm>>
  BY <1>1, <1>7, ExecutedStep DEF Running
<1>. QED
  BY <1>2, <1>4, <1>5, <1>6, <1>7 DEF RunSql, RunSparql, RunOntology

-----------------------------------------------------------------------------
(* Entries come to the queue and leave it.                                 *)

LEMMA SendKeepsIInv ==
    ASSUME IInv, NEW c \in Clients, NEW r \in Requests, Send(c, r)
    PROVE  IInv'
<1>. DEFINE S == Clients \cup {AcceptError}
<1>1. queue' = Append(queue, c) /\ queue \in Seq(S) /\ Len(queue) < MaxQueue
      /\ client' = [client EXCEPT ![c] = Waiting(r)] /\ client[c].state # "waiting"
      /\ phase # "binding"
  BY DEF Send, IInv, TypeOK
<1>2. DOMAIN client' = Clients /\ \A d \in Clients \ {c} : client'[d] = client[d]
  BY <1>1 DEF IInv, TypeOK
<1>3. client'[c].state = "waiting" /\ client'[c].request = r
  BY <1>1 DEF IInv, TypeOK, Waiting
<1>4. queue' \in Seq(S) /\ Len(queue') <= MaxQueue
  <2>1. Append(queue, c) \in Seq(S) /\ Len(Append(queue, c)) = Len(queue) + 1
    BY <1>1, AppendProperties
  <2>. QED
    BY <1>1, <2>1, LenProperties, BoundAssumption
<1>5. TypeOK'
  <2>1. \A d \in Clients :
           /\ client'[d].state \in {"quiet", "waiting", "answered"}
           /\ client'[d].state # "quiet" => client'[d].request \in Requests
           /\ client'[d].state = "answered" => client'[d].answer \in Answers
    BY <1>2, <1>3 DEF IInv, TypeOK
  <2>. QED
    BY <1>2, <1>4, <2>1 DEF Send, IInv, TypeOK
<1>6. \A d \in Clients : OccursIn(queue, d)' + Runs(d)' = Waits(d)'
  <2>. SUFFICES ASSUME NEW d \in Clients PROVE OccursIn(queue, d)' + Runs(d)' = Waits(d)'
    OBVIOUS
  <2>1. OccursIn(queue, d)' = OccursIn(queue, d) + (IF c = d THEN 1 ELSE 0)
    <3>1. OccursIn(queue, d)' = Cardinality(Places(Append(queue, c), d))
      BY <1>1 DEF OccursIn, Places
    <3>2. queue \in Seq(S) /\ c \in S
      BY <1>1
    <3>. HIDE DEF S
    <3>3. Cardinality(Places(Append(queue, c), d))
              = Cardinality(Places(queue, d)) + (IF c = d THEN 1 ELSE 0)
      BY <3>2, PlacesInAppend
    <3>. QED
      BY <3>1, <3>3 DEF OccursIn
  <2>2. OccursIn(queue, d) \in Nat /\ OccursIn(queue, d) + Runs(d) = Waits(d)
        /\ Runs(d)' = Runs(d)
    BY <1>1, PlacesAreFinite DEF OccursIn, IInv, Runs, Send
  <2>. QED
    BY <1>1, <1>2, <1>3, <2>1, <2>2 DEF Waits, Runs
<1>7. (Idle /\ Busy /\ OnlyOntologyIsFatal /\ BacksOff)'
  BY <1>1 DEF Send, IInv, Idle, Busy, OnlyOntologyIsFatal, BacksOff
<1>8. NoEngineNoResult'
  BY <1>2, <1>3 DEF Send, IInv, NoEngineNoResult
<1>. QED
  BY <1>5, <1>6, <1>7, <1>8 DEF IInv

\* An accept error is nobody's request.
LEMMA AcceptFailsKeepsIInv ==
    ASSUME IInv, AcceptFails
    PROVE  IInv'
<1>. DEFINE S == Clients \cup {AcceptError}
<1>1. queue' = Append(queue, AcceptError) /\ queue \in Seq(S) /\ Len(queue) < MaxQueue
      /\ UNCHANGED <<phase, engine, current, client, errors, sigterm, cause>>
      /\ phase # "binding"
  BY DEF AcceptFails, IInv, TypeOK
<1>2. queue' \in Seq(S) /\ Len(queue') <= MaxQueue
  <2>1. /\ Append(queue, AcceptError) \in Seq(S)
        /\ Len(Append(queue, AcceptError)) = Len(queue) + 1
    BY <1>1, AppendProperties
  <2>. QED
    BY <1>1, <2>1, LenProperties, BoundAssumption
<1>3. \A d \in Clients : OccursIn(queue, d)' = OccursIn(queue, d)
  <2>. SUFFICES ASSUME NEW d \in Clients PROVE OccursIn(queue, d)' = OccursIn(queue, d)
    OBVIOUS
  <2>1. OccursIn(queue, d) \in Nat /\ AcceptError # d
    BY <1>1, PlacesAreFinite, MarkersAssumption DEF OccursIn
  <2>2. OccursIn(queue, d)' = OccursIn(queue, d) + (IF AcceptError = d THEN 1 ELSE 0)
    <3>1. OccursIn(queue, d)' = Cardinality(Places(Append(queue, AcceptError), d))
      BY <1>1 DEF OccursIn, Places
    <3>2. queue \in Seq(S) /\ AcceptError \in S
      BY <1>1
    <3>. HIDE DEF S
    <3>3. Cardinality(Places(Append(queue, AcceptError), d))
              = Cardinality(Places(queue, d)) + (IF AcceptError = d THEN 1 ELSE 0)
      BY <3>2, PlacesInAppend
    <3>. QED
      BY <3>1, <3>3 DEF OccursIn
  <2>. QED
    BY <2>1, <2>2
<1>4. TypeOK'
  BY <1>1, <1>2 DEF IInv, TypeOK
<1>5. \A d \in Clients : OccursIn(queue, d)' + Runs(d)' = Waits(d)'
  BY <1>1, <1>3 DEF IInv, Runs, Waits
<1>. QED
  BY <1>1, <1>4, <1>5
     DEF IInv, Idle, Busy, OnlyOntologyIsFatal, BacksOff, NoEngineNoResult

LEMMA ReceiveRequestKeepsIInv ==
    ASSUME IInv, ReceiveRequest
    PROVE  IInv'
<1>. DEFINE S == Clients \cup {AcceptError}
            c == Head(queue)
<1>1. queue \in Seq(S) /\ queue # <<>> /\ queue' = Tail(queue) /\ c \in Clients
      /\ current = NoClient /\ phase = "serving" /\ errors' = 0
      /\ UNCHANGED <<phase, engine, sigterm, cause>>
  BY HeadTailProperties DEF ReceiveRequest, AtLoopHead, IInv, TypeOK
<1>2. queue' \in Seq(S) /\ Len(queue') <= MaxQueue
  BY <1>1, HeadTailProperties, LenProperties, BoundAssumption DEF IInv, TypeOK
<1>3. \A d \in Clients : /\ OccursIn(queue, d)' \in Nat
                         /\ OccursIn(queue, d) = OccursIn(queue, d)' + (IF c = d THEN 1 ELSE 0)
                         /\ OccursIn(queue, d) = Waits(d)
  <2>. SUFFICES ASSUME NEW d \in Clients
                PROVE  /\ OccursIn(queue, d)' \in Nat
                       /\ OccursIn(queue, d) = OccursIn(queue, d)' + (IF c = d THEN 1 ELSE 0)
                       /\ OccursIn(queue, d) = Waits(d)
    OBVIOUS
  <2>1. OccursIn(queue, d)' = Cardinality(Places(Tail(queue), d))
    BY <1>1 DEF OccursIn, Places
  <2>2. Cardinality(Places(Tail(queue), d)) \in Nat
    BY <1>1, <1>2, PlacesAreFinite
  <2>3. OccursIn(queue, d) = Cardinality(Places(Tail(queue), d)) + (IF c = d THEN 1 ELSE 0)
    BY <1>1, PlacesInTail DEF OccursIn
  <2>4. Runs(d) = 0 /\ OccursIn(queue, d) + Runs(d) = Waits(d)
    BY <1>1, MarkersAssumption DEF IInv, Runs
  <2>. QED
    BY <2>1, <2>2, <2>3, <2>4
<1>5. (Idle /\ Busy /\ OnlyOntologyIsFatal /\ BacksOff)'
  BY <1>1 DEF IInv, Idle, Busy, OnlyOntologyIsFatal, BacksOff, MaxConsecutiveErrors
<1>6. current' = c /\ UNCHANGED client
  BY DEF ReceiveRequest
<1>. HIDE DEF c
<1>7. TypeOK'
  BY <1>1, <1>2, <1>6 DEF IInv, TypeOK, MaxConsecutiveErrors
<1>8. \A d \in Clients : OccursIn(queue, d)' + Runs(d)' = Waits(d)'
  BY <1>3, <1>6 DEF Runs, Waits
<1>9. NoEngineNoResult'
  BY <1>1, <1>6 DEF IInv, NoEngineNoResult
<1>. QED
  BY <1>5, <1>7, <1>8, <1>9 DEF IInv

LEMMA ReceiveErrorKeepsIInv ==
    ASSUME IInv, ReceiveError
    PROVE  IInv'
<1>. DEFINE S == Clients \cup {AcceptError}
<1>1. queue \in Seq(S) /\ queue # <<>> /\ Head(queue) = AcceptError /\ queue' = Tail(queue)
      /\ phase = "serving" /\ current = NoClient /\ errors' = errors + 1
      /\ UNCHANGED <<engine, current, client, sigterm, cause>>
  BY DEF ReceiveError, AtLoopHead, IInv, TypeOK
<1>2. queue' \in Seq(S) /\ Len(queue') <= MaxQueue
  BY <1>1, HeadTailProperties, LenProperties, BoundAssumption DEF IInv, TypeOK
<1>3. \A d \in Clients : OccursIn(queue, d)' = OccursIn(queue, d)
  <2>. SUFFICES ASSUME NEW d \in Clients PROVE OccursIn(queue, d)' = OccursIn(queue, d)
    OBVIOUS
  <2>1. OccursIn(queue, d)' = Cardinality(Places(Tail(queue), d)) /\ AcceptError # d
    BY <1>1, MarkersAssumption DEF OccursIn, Places
  <2>2. Cardinality(Places(Tail(queue), d)) \in Nat
    BY <1>1, <1>2, PlacesAreFinite
  <2>3. OccursIn(queue, d) = Cardinality(Places(Tail(queue), d))
                               + (IF AcceptError = d THEN 1 ELSE 0)
    BY <1>1, PlacesInTail DEF OccursIn
  <2>. QED
    BY <2>1, <2>2, <2>3
<1>4. errors < MaxConsecutiveErrors /\ errors \in Nat
  BY <1>1 DEF IInv, TypeOK, BacksOff, MaxConsecutiveErrors
<1>5. phase' = IF errors + 1 >= MaxConsecutiveErrors THEN "sleeping" ELSE phase
  BY DEF ReceiveError
<1>6. TypeOK'
  BY <1>1, <1>2, <1>4, <1>5 DEF IInv, TypeOK, MaxConsecutiveErrors
<1>7. \A d \in Clients : OccursIn(queue, d)' + Runs(d)' = Waits(d)'
  BY <1>1, <1>3 DEF IInv, Runs, Waits
<1>8. (Idle /\ Busy /\ OnlyOntologyIsFatal)'
  BY <1>1, <1>5 DEF IInv, Idle, Busy, OnlyOntologyIsFatal
<1>9. BacksOff'
  BY <1>1, <1>4, <1>5 DEF BacksOff, MaxConsecutiveErrors
<1>10. NoEngineNoResult'
  BY <1>1 DEF IInv, NoEngineNoResult
<1>. QED
  BY <1>6, <1>7, <1>8, <1>9, <1>10 DEF IInv

-----------------------------------------------------------------------------
(* The other steps of the loop leave clients and queue alone.              *)

LEMMA QuietStepKeepsIInv ==
    ASSUME IInv, UNCHANGED <<queue, current, client>>,
           \/ InitializeEngine \/ LeaveLoop \/ WakeUp \/ Timeout \/ Terminate \/ UNCHANGED vars
    PROVE  IInv'
<1>1. \A d \in Clients : OccursIn(queue, d)' + Runs(d)' = Waits(d)'
  BY DEF IInv, OccursIn, Places, Runs, Waits
<1>2. CASE InitializeEngine
  <2>1. \A c \in Clients : client'[c].state = "quiet"
    BY <1>2 DEF InitializeEngine, IInv, Idle
  <2>2. errors < MaxConsecutiveErrors /\ errors' = errors /\ errors \in Nat
    BY <1>2 DEF InitializeEngine, IInv, TypeOK, BacksOff, MaxConsecutiveErrors
  <2>3. TypeOK'
    BY <1>2 DEF InitializeEngine, IInv, TypeOK
  <2>4. (Idle /\ Busy /\ OnlyOntologyIsFatal /\ BacksOff)'
    BY <1>2, <2>2 DEF InitializeEngine, IInv, Idle, Busy, OnlyOntologyIsFatal, BacksOff,
                      MaxConsecutiveErrors
  <2>5. NoEngineNoResult'
    BY <2>1 DEF NoEngineNoResult
  <2>. QED
    BY <1>1, <2>3, <2>4, <2>5 DEF IInv
<1>3. CASE LeaveLoop \/ WakeUp \/ Timeout \/ Terminate \/ UNCHANGED vars
  <2>1. TypeOK'
    <3>1. /\ phase' \in {"binding", "serving", "sleeping", "stopped"}
          /\ cause' \in {"none", "bind", "sigterm", "/sql", "/sparql", "/ontology"}
      BY <1>3 DEF LeaveLoop, Stop, WakeUp, Timeout, Terminate, vars, IInv, TypeOK
    <3>2. engine' \in BOOLEAN /\ sigterm' \in BOOLEAN
      BY <1>3 DEF LeaveLoop, WakeUp, Timeout, Terminate, vars, IInv, TypeOK
    <3>3. errors' \in 0 .. MaxConsecutiveErrors
      BY <1>3 DEF LeaveLoop, WakeUp, Timeout, Terminate, vars, IInv, TypeOK,
                  MaxConsecutiveErrors
    <3>. QED
      BY <3>1, <3>2, <3>3 DEF IInv, TypeOK
  <2>2. (Idle /\ Busy /\ OnlyOntologyIsFatal)'
    BY <1>3 DEF LeaveLoop, AtLoopHead, Stop, WakeUp, Timeout, Terminate, vars, IInv, Idle, Busy,
                OnlyOntologyIsFatal
  <2>3. BacksOff'
    BY <1>3 DEF LeaveLoop, AtLoopHead, Stop, WakeUp, Timeout, Terminate, vars, IInv, TypeOK,
                BacksOff, MaxConsecutiveErrors
  <2>4. NoEngineNoResult'
    BY <1>3 DEF LeaveLoop, WakeUp, Timeout, Terminate, vars, IInv, NoEngineNoResult
  <2>. QED
    BY <1>1, <2>1, <2>2, <2>3, <2>4 DEF IInv
<1>. QED
  BY <1>2, <1>3

-----------------------------------------------------------------------------
\* The invariant holds, whatever is sent, fails, panics or is signalled.
THEOREM InvariantHolds == Spec => []IInv
<1>1. Init => IInv
  <2>. SUFFICES ASSUME Init PROVE IInv
    OBVIOUS
  <2>1. TypeOK
    <3>1. <<>> \in Seq(Clients \cup {AcceptError}) /\ Len(<<>>) <= MaxQueue
      BY EmptySeq, BoundAssumption
    <3>2. queue \in Seq(Clients \cup {AcceptError}) /\ Len(queue) <= MaxQueue
      BY <3>1 DEF Init
    <3>3. DOMAIN client = Clients /\ \A c \in Clients : client[c].state = "quiet"
      BY DEF Init, Quiet
    <3>4. errors \in 0 .. MaxConsecutiveErrors
      BY DEF Init, MaxConsecutiveErrors
    <3>. QED
      BY <3>2, <3>3, <3>4 DEF Init, TypeOK
  <2>2. \A c \in Clients : OccursIn(queue, c) + Runs(c) = Waits(c)
    BY NowhereInEmpty, MarkersAssumption DEF Init, OccursIn, Runs, Waits, Quiet
  <2>3. Idle /\ Busy /\ OnlyOntologyIsFatal /\ BacksOff
    BY DEF Init, Idle, Busy, OnlyOntologyIsFatal, BacksOff, Quiet, MaxConsecutiveErrors
  <2>4. NoEngineNoResult
    BY DEF Init, NoEngineNoResult, Quiet
  <2>. QED
    BY <2>1, <2>2, <2>3, <2>4 DEF IInv
<1>2. IInv /\ [Next]_vars => IInv'
  <2>. SUFFICES ASSUME IInv, [Next]_vars PROVE IInv'
    OBVIOUS
  <2>1. ASSUME NEW c \in Clients, NEW r \in Requests, Send(c, r) PROVE IInv'
    BY <2>1, SendKeepsIInv
  <2>2. CASE AcceptFails
    BY <2>2, AcceptFailsKeepsIInv
  <2>3. CASE ReceiveRequest \/ ReceiveError
    BY <2>3, ReceiveRequestKeepsIInv, ReceiveErrorKeepsIInv
  <2>4. CASE Reject \/ RunSql \/ RunSparql \/ RunOntology
    BY <2>4, RejectKeepsIInv, RunKeepsIInv
  <2>5. CASE InitializeEngine \/ LeaveLoop \/ WakeUp \/ Timeout \/ Terminate \/ UNCHANGED vars
    <3>1. UNCHANGED <<queue, current, client>>
      BY <2>5 DEF InitializeEngine, LeaveLoop, WakeUp, Timeout, Terminate, vars
    <3>. QED
      BY <2>5, <3>1, QuietStepKeepsIInv
  <2>. QED
    BY <2>1, <2>2, <2>3, <2>4, <2>5 DEF Next, OwnStep
<1>. QED
  BY <1>1, <1>2, PTL DEF Spec

\* The variables of the loop keep their types.
THEOREM TypeCorrect == Spec => []TypeOK
  BY InvariantHolds, IInvGivesProperties, PTL

\* A request that was sent is in the queue once, or handled, or answered, through every
\* early way out of the loop (listener.rs:184-420).
THEOREM NoRequestIsLost == Spec => []NoRequestLost
  BY InvariantHolds, IInvGivesProperties, PTL

\* No query of /sql or /sparql ends the worker, however it fails or panics.
THEOREM QueriesAreNotFatal == Spec => []OnlyOntologyIsFatal
  BY InvariantHolds, IInvGivesProperties, PTL

\* The tenth error in a row puts the worker to sleep (listener.rs:407-419).
THEOREM ErrorsBackOff == Spec => []BacksOff
  BY InvariantHolds, IInvGivesProperties, PTL

\* Until an engine is built, at the start (listener.rs:37) or by a statement of /sql (334),
\* no SPARQL query is answered with 200, and no step takes the engine away.
THEOREM ResultsNeedAnEngine == Spec => []NoEngineNoResult
  BY InvariantHolds, IInvGivesProperties, PTL

-----------------------------------------------------------------------------
(* The worker serves in the order of asking (RequestService).              *)

\* Who waits stands in one place of the queue, or is served and in none.
LEMMA OnePlaceEach ==
    ASSUME IInv, NEW c \in Clients
    PROVE  /\ c \in WaitingClients
                <=> (c = current \/ \E i \in 1 .. Len(queue) : queue[i] = c)
           /\ \A i, j \in 1 .. Len(queue) : queue[i] = c /\ queue[j] = c => i = j
           /\ \A i \in 1 .. Len(queue) : queue[i] = c => c # current
<1>. DEFINE P == Places(queue, c)
<1>1. IsFiniteSet(P) /\ Cardinality(P) \in Nat
  BY PlacesAreFinite DEF IInv, TypeOK
<1>2. Cardinality(P) + Runs(c) = Waits(c)
  BY DEF IInv, OccursIn
<1>3. \A i : i \in P <=> i \in 1 .. Len(queue) /\ queue[i] = c
  BY DEF Places
<1>. HIDE DEF P
<1>4. c \in WaitingClients <=> Waits(c) = 1
  BY DEF WaitingClients, Waits
<1>5. Cardinality(P) = 0 <=> P = {}
  BY <1>1, FS_EmptySet
<1>6. Cardinality(P) = 1 => \E x : P = {x}
  BY <1>1, FS_Singleton
<1>7. c = current => P = {}
  BY <1>1, <1>2, <1>5 DEF Runs, Waits
<1>8. c # current => Cardinality(P) = Waits(c)
  BY <1>1, <1>2 DEF Runs, Waits
<1>9. Cardinality(P) \in {0, 1}
  BY <1>1, <1>2 DEF Runs, Waits
<1>10. c \in WaitingClients <=> (c = current \/ P # {})
  <2>1. c = current => Waits(c) = 1
    BY <1>1, <1>2 DEF Runs, Waits
  <2>2. Waits(c) \in {0, 1}
    BY DEF Waits
  <2>. QED
    BY <1>4, <1>5, <1>8, <2>1, <2>2
<1>11. \A i, j \in P : i = j
  BY <1>5, <1>6, <1>9
<1>. QED
  BY <1>3, <1>7, <1>10, <1>11

\* Whom one waits for, the queue given by its places.
LEMMA AheadInQueue ==
    ASSUME NEW c, NEW d
    PROVE  d \in Ahead(c) <=>
               /\ d \in Clients
               /\ \E j \in 1 .. Len(queue) :
                      queue[j] = c /\ (d = current \/ \E i \in 1 .. j - 1 : queue[i] = d)
  BY DEF Ahead

\* A step that changes neither who waits nor for whom is none of the service.
LEMMA NothingServed ==
    ASSUME WaitingClients' = WaitingClients, \A c \in Clients : Ahead(c)' = Ahead(c)
    PROVE  UNCHANGED Service!vars
  BY DEF Service!vars

LEMMA SomeoneServed ==
    ASSUME NEW c \in WaitingClients, Ahead(c) = {},
           WaitingClients' = WaitingClients \ {c},
           \A d \in Clients : Ahead(d)' = Ahead(d) \ {c}
    PROVE  Service!Next
<1>1. c \in Clients
  BY DEF WaitingClients
<1>2. [d \in Clients |-> Ahead(d)]' = [d \in Clients |-> Ahead(d) \ {c}]
  OBVIOUS
<1>3. [d \in Clients |-> Ahead(d)][c] = {}
  BY <1>1
<1>4. Service!Serve(c)
  BY <1>2, <1>3 DEF Service!Serve
<1>. QED
  BY <1>1, <1>4 DEF Service!Next

LEMMA SendAsks ==
    ASSUME IInv, NEW c \in Clients, NEW r \in Requests, Send(c, r)
    PROVE  Service!Next
<1>. DEFINE S == Clients \cup {AcceptError}
<1>1. /\ queue \in Seq(S) /\ queue' = Append(queue, c) /\ current' = current
      /\ client' = [client EXCEPT ![c] = Waiting(r)] /\ c \notin WaitingClients
  BY DEF Send, IInv, TypeOK, WaitingClients
<1>2. /\ Len(queue) \in Nat /\ Len(queue') = Len(queue) + 1 /\ queue'[Len(queue) + 1] = c
      /\ \A i \in 1 .. Len(queue) : queue'[i] = queue[i]
  <2>1. c \in S
    OBVIOUS
  <2>. HIDE DEF S
  <2>. QED
    BY <1>1, <2>1, AppendProperties, LenProperties
<1>3. WaitingClients' = WaitingClients \cup {c}
  <2>1. \A d \in Clients : client'[d].state = "waiting" <=> d = c \/ client[d].state = "waiting"
    BY <1>1 DEF IInv, TypeOK, Waiting
  <2>. QED
    BY <2>1 DEF WaitingClients
<1>4. c # current /\ \A i \in 1 .. Len(queue) : queue[i] # c
  BY <1>1, OnePlaceEach
<1>5. Ahead(c)' = WaitingClients
  <2>1. \A j \in 1 .. Len(queue') : queue'[j] = c <=> j = Len(queue) + 1
    BY <1>2, <1>4
  <2>2. \A d \in Clients : d \in Ahead(c)'
            <=> (d = current \/ \E i \in 1 .. Len(queue) : queue[i] = d)
    BY <1>1, <1>2, <2>1 DEF Ahead
  <2>3. \A d \in Clients : d \in Ahead(c)' <=> d \in WaitingClients
    BY <2>2, OnePlaceEach
  <2>. QED
    BY <2>3 DEF Ahead, WaitingClients
<1>6. ASSUME NEW d \in Clients, d # c PROVE Ahead(d)' = Ahead(d)
  <2>1. \A j \in 1 .. Len(queue') : queue'[j] = d <=> j \in 1 .. Len(queue) /\ queue[j] = d
    BY <1>2, <1>6
  <2>2. \A j \in 1 .. Len(queue) : \A i \in 1 .. j - 1 : queue'[i] = queue[i]
    BY <1>2
  <2>3. 1 .. Len(queue) \subseteq 1 .. Len(queue')
    BY <1>2
  <2>. QED
    BY <1>1, <2>1, <2>2, <2>3 DEF Ahead
<1>7. [d \in Clients |-> Ahead(d)]'
        = [[d \in Clients |-> Ahead(d)] EXCEPT ![c] = WaitingClients]
  BY <1>5, <1>6
<1>8. Service!Ask(c)
  BY <1>1, <1>3, <1>7 DEF Service!Ask
<1>. QED
  BY <1>8 DEF Service!Next

\* An error in the queue is nobody's place.
LEMMA AcceptFailsServesNobody ==
    ASSUME IInv, AcceptFails
    PROVE  UNCHANGED Service!vars
<1>. DEFINE S == Clients \cup {AcceptError}
<1>1. /\ queue \in Seq(S) /\ queue' = Append(queue, AcceptError)
      /\ current' = current /\ client' = client
  BY DEF AcceptFails, IInv, TypeOK
<1>2. /\ Len(queue) \in Nat /\ Len(queue') = Len(queue) + 1
      /\ queue'[Len(queue) + 1] = AcceptError
      /\ \A i \in 1 .. Len(queue) : queue'[i] = queue[i]
  <2>1. AcceptError \in S
    OBVIOUS
  <2>. HIDE DEF S
  <2>. QED
    BY <1>1, <2>1, AppendProperties, LenProperties
<1>3. ASSUME NEW d \in Clients PROVE Ahead(d)' = Ahead(d)
  <2>1. \A j \in 1 .. Len(queue') : queue'[j] = d <=> j \in 1 .. Len(queue) /\ queue[j] = d
    BY <1>2, MarkersAssumption
  <2>2. \A j \in 1 .. Len(queue) : \A i \in 1 .. j - 1 : queue'[i] = queue[i]
    BY <1>2
  <2>3. 1 .. Len(queue) \subseteq 1 .. Len(queue')
    BY <1>2
  <2>. QED
    BY <1>1, <2>1, <2>2, <2>3 DEF Ahead
<1>. QED
  BY <1>1, <1>3, NothingServed DEF WaitingClients

\* The head of the queue leaves it: to be handled, or as an error.
LEMMA HeadLeaves ==
    ASSUME IInv, AtLoopHead, queue # <<>>, queue' = Tail(queue)
    PROVE  /\ Head(queue) \in Clients \cup {AcceptError}
           /\ current = NoClient
           /\ \A d \in Clients : Ahead(d) =
                 {e \in Clients : \E j \in 1 .. Len(queue') :
                     queue'[j] = d /\ (e = Head(queue) \/ \E i \in 1 .. j - 1 : queue'[i] = e)}
           /\ Head(queue) \in Clients => /\ Ahead(Head(queue)) = {}
                                         /\ Head(queue) \in WaitingClients
                                         /\ \A j \in 1 .. Len(queue') : queue'[j] # Head(queue)
<1>. DEFINE c == Head(queue)
<1>1. queue \in Seq(Clients \cup {AcceptError}) /\ current = NoClient
  BY DEF IInv, TypeOK, AtLoopHead
<1>2. /\ Len(queue) \in Nat \ {0} /\ Len(queue') = Len(queue) - 1 /\ c = queue[1]
      /\ \A i \in 1 .. Len(queue') : queue'[i] = queue[i + 1]
      /\ c \in Clients \cup {AcceptError}
  BY <1>1, HeadTailProperties, LenProperties, EmptySeq
<1>. HIDE DEF c
<1>3. ASSUME NEW d \in Clients, NEW e \in Clients
      PROVE  e \in Ahead(d) <=>
                \E j \in 1 .. Len(queue') :
                   queue'[j] = d /\ (e = c \/ \E i \in 1 .. j - 1 : queue'[i] = e)
  <2>1. e # current
    BY <1>1, MarkersAssumption
  <2>2. ASSUME NEW j \in 1 .. Len(queue'), queue'[j] = d,
               e = c \/ \E i \in 1 .. j - 1 : queue'[i] = e
        PROVE  e \in Ahead(d)
    <3>1. j + 1 \in 1 .. Len(queue) /\ queue[j + 1] = d
      BY <1>2, <2>2
    <3>2. CASE e = c
      BY <1>2, <3>1, <3>2 DEF Ahead
    <3>3. ASSUME NEW i \in 1 .. j - 1, queue'[i] = e PROVE e \in Ahead(d)
      <4>1. i + 1 \in 1 .. (j + 1) - 1 /\ queue[i + 1] = e
        BY <1>2, <3>3
      <4>. QED
        BY <3>1, <4>1 DEF Ahead
    <3>. QED
      BY <2>2, <3>2, <3>3
  <2>3. ASSUME e \in Ahead(d)
        PROVE  \E j \in 1 .. Len(queue') :
                  queue'[j] = d /\ (e = c \/ \E i \in 1 .. j - 1 : queue'[i] = e)
    <3>1. PICK j \in 1 .. Len(queue) : queue[j] = d /\ \E i \in 1 .. j - 1 : queue[i] = e
      BY <2>1, <2>3 DEF Ahead
    <3>2. PICK i \in 1 .. j - 1 : queue[i] = e
      BY <3>1
    <3>3. j - 1 \in 1 .. Len(queue') /\ queue'[j - 1] = d
      BY <1>2, <3>1, <3>2
    <3>4. CASE i = 1
      BY <1>2, <3>2, <3>3, <3>4
    <3>5. CASE i # 1
      <4>1. i - 1 \in 1 .. (j - 1) - 1 /\ queue'[i - 1] = e
        BY <1>2, <3>2, <3>5
      <4>. QED
        BY <3>3, <4>1
    <3>. QED
      BY <3>4, <3>5
  <2>. QED
    BY <2>2, <2>3
<1>4. ASSUME NEW d \in Clients
      PROVE  Ahead(d) =
                {e \in Clients : \E j \in 1 .. Len(queue') :
                   queue'[j] = d /\ (e = c \/ \E i \in 1 .. j - 1 : queue'[i] = e)}
  <2>1. Ahead(d) \subseteq Clients
    BY DEF Ahead
  <2>. QED
    BY <1>3, <2>1
<1>5. ASSUME c \in Clients PROVE \A j \in 1 .. Len(queue') : queue'[j] # c
  <2>. SUFFICES ASSUME NEW j \in 1 .. Len(queue'), queue'[j] = c PROVE FALSE
    OBVIOUS
  <2>1. j + 1 \in 1 .. Len(queue) /\ queue[j + 1] = c /\ 1 \in 1 .. Len(queue) /\ j + 1 # 1
    BY <1>2
  <2>. QED
    BY <1>2, <1>5, <2>1, OnePlaceEach
<1>6. ASSUME c \in Clients PROVE c \in WaitingClients
  <2>1. 1 \in 1 .. Len(queue)
    BY <1>2
  <2>. QED
    BY <1>2, <1>6, <2>1, OnePlaceEach
<1>7. ASSUME c \in Clients PROVE Ahead(c) = {}
  BY <1>4, <1>5, <1>7
<1>. QED
  BY <1>1, <1>2, <1>4, <1>5, <1>6, <1>7 DEF c

LEMMA WaitingAfterAnswer ==
    ASSUME IInv, NEW c \in Clients, NEW a, Respond(c, a)
    PROVE  WaitingClients' = WaitingClients \ {c}
<1>1. \A d \in Clients : client'[d].state = "waiting" <=> d # c /\ client[d].state = "waiting"
  BY DEF Respond, IInv, TypeOK, Answered
<1>. QED
  BY <1>1 DEF WaitingClients

\* A request that is received is as far ahead of the others as it was in the queue.
LEMMA ReceiveRequestServesNobody ==
    ASSUME IInv, ReceiveRequest
    PROVE  UNCHANGED Service!vars
<1>. DEFINE c == Head(queue)
<1>1. AtLoopHead /\ queue # <<>> /\ queue' = Tail(queue) /\ current' = c /\ UNCHANGED client
  BY DEF ReceiveRequest
<1>2. \A d \in Clients : Ahead(d) =
         {e \in Clients : \E j \in 1 .. Len(queue') :
             queue'[j] = d /\ (e = c \/ \E i \in 1 .. j - 1 : queue'[i] = e)}
  BY <1>1, HeadLeaves
<1>. HIDE DEF c
<1>3. ASSUME NEW d \in Clients PROVE Ahead(d)' = Ahead(d)
  <2>1. Ahead(d)' = {e \in Clients : \E j \in 1 .. Len(queue') :
            queue'[j] = d /\ (e = current' \/ \E i \in 1 .. j - 1 : queue'[i] = e)}
    BY DEF Ahead
  <2>. QED
    BY <1>1, <1>2, <2>1
<1>4. WaitingClients' = WaitingClients
  BY <1>1 DEF WaitingClients
<1>. QED
  BY <1>3, <1>4, NothingServed

LEMMA ReceiveErrorServesNobody ==
    ASSUME IInv, ReceiveError
    PROVE  UNCHANGED Service!vars
<1>1. /\ AtLoopHead /\ queue # <<>> /\ queue' = Tail(queue) /\ Head(queue) = AcceptError
      /\ current' = current /\ client' = client
  BY DEF ReceiveError
<1>2. /\ current = NoClient
      /\ \A d \in Clients : Ahead(d) =
             {e \in Clients : \E j \in 1 .. Len(queue') :
                 queue'[j] = d /\ (e = AcceptError \/ \E i \in 1 .. j - 1 : queue'[i] = e)}
  BY <1>1, HeadLeaves
<1>3. \A d \in Clients : Ahead(d)' = Ahead(d)
  BY <1>1, <1>2, MarkersAssumption DEF Ahead
<1>4. WaitingClients' = WaitingClients
  BY <1>1 DEF WaitingClients
<1>. QED
  BY <1>3, <1>4, NothingServed

\* Whose request was handled is served, by an answer, a rejection, an error or a panic.
LEMMA RunServes ==
    ASSUME IInv, Reject \/ RunSql \/ RunSparql \/ RunOntology
    PROVE  Service!Next
<1>1. PICK a : Respond(current, a)
  BY DEF Reject, RunSql, RunSparql, RunOntology, Complete, CaughtPanic
<1>2. current # NoClient /\ current' = NoClient /\ queue' = queue
  BY DEF Reject, RunSql, RunSparql, RunOntology, Complete, CaughtPanic, Running
<1>3. current \in Clients
  BY <1>2 DEF IInv, TypeOK
<1>4. WaitingClients' = WaitingClients \ {current}
  BY <1>1, <1>3, WaitingAfterAnswer
<1>5. current \in WaitingClients /\ \A i \in 1 .. Len(queue) : queue[i] # current
  BY <1>3, OnePlaceEach
<1>6. Ahead(current) = {}
  BY <1>5 DEF Ahead
<1>7. ASSUME NEW d \in Clients PROVE Ahead(d)' = Ahead(d) \ {current}
  <2>1. Ahead(d)' = {e \in Clients : \E j \in 1 .. Len(queue) :
                        queue[j] = d /\ \E i \in 1 .. j - 1 : queue[i] = e}
    BY <1>2, MarkersAssumption DEF Ahead
  <2>2. \A j \in 1 .. Len(queue) : \A i \in 1 .. j - 1 : i \in 1 .. Len(queue)
    <3>1. Len(queue) \in Nat
      BY LenProperties DEF IInv, TypeOK
    <3>. QED
      BY <3>1
  <2>3. current \notin Ahead(d)'
    BY <1>5, <2>1, <2>2
  <2>. QED
    BY <2>1, <2>3 DEF Ahead
<1>. QED
  BY <1>4, <1>5, <1>6, <1>7, SomeoneServed

LEMMA QuietStepServesNobody ==
    ASSUME UNCHANGED <<queue, current, client>>
    PROVE  UNCHANGED Service!vars
<1>1. \A d \in Clients : Ahead(d)' = Ahead(d)
  BY DEF Ahead
<1>2. WaitingClients' = WaitingClients
  BY DEF WaitingClients
<1>. QED
  BY <1>1, <1>2, NothingServed

LEMMA InitIsInit == Init => Service!Init
<1>. SUFFICES ASSUME Init PROVE Service!Init
  OBVIOUS
<1>1. WaitingClients = {}
  BY DEF Init, WaitingClients, Quiet
<1>2. \A c \in Clients : Ahead(c) = {}
  <2>1. Len(<<>>) = 0
    BY EmptySeq
  <2>. QED
    BY <2>1 DEF Init, Ahead
<1>. QED
  BY <1>1, <1>2 DEF Service!Init

\* Every step of the worker, its clients and the signals is a step of the service, or none.
LEMMA StepIsAStep == IInv /\ [Next]_vars => [Service!Next]_(Service!vars)
<1>. SUFFICES ASSUME IInv, [Next]_vars PROVE [Service!Next]_(Service!vars)
  OBVIOUS
<1>1. ASSUME NEW c \in Clients, NEW r \in Requests, Send(c, r) PROVE Service!Next
  BY <1>1, SendAsks
<1>2. CASE AcceptFails
  BY <1>2, AcceptFailsServesNobody
<1>3. CASE ReceiveRequest
  BY <1>3, ReceiveRequestServesNobody
<1>4. CASE ReceiveError
  BY <1>4, ReceiveErrorServesNobody
<1>5. CASE Reject \/ RunSql \/ RunSparql \/ RunOntology
  BY <1>5, RunServes
<1>6. CASE InitializeEngine \/ LeaveLoop \/ WakeUp \/ Timeout \/ Terminate \/ UNCHANGED vars
  <2>1. UNCHANGED <<queue, current, client>>
    BY <1>6 DEF InitializeEngine, LeaveLoop, WakeUp, Timeout, Terminate, vars
  <2>. QED
    BY <2>1, QuietStepServesNobody
<1>. QED
  BY <1>1, <1>2, <1>3, <1>4, <1>5, <1>6 DEF Next, OwnStep

\* A request that waits, in the queue with errors around it, in execution or asleep with
\* the worker, is served when all that were sent before it have been (listener.rs:184-420).
THEOREM WorkerServesInOrder == Spec => ServesInOrder
  BY InitIsInit, StepIsAStep, InvariantHolds, PTL DEF Spec, ServesInOrder, Service!Spec

\* What such a service promises: of two clients that wait one is ahead of the other, and
\* of all who are behind that one.
THEOREM ClientsWaitInLine == Spec => []Service!InLine
<1>. DEFINE A == [c \in Clients |-> Ahead(c)]
            W == WaitingClients
<1>1. Service!Init => Service!InLine
  BY DEF Service!Init, Service!InLine
<1>2. Service!InLine /\ [Service!Next]_(Service!vars) => Service!InLine'
  <2>. SUFFICES ASSUME Service!InLine, [Service!Next]_(Service!vars) PROVE Service!InLine'
    OBVIOUS
  <2>0. W \subseteq Clients /\ W' \subseteq Clients
    BY DEF WaitingClients
  <2>1. /\ \A c \in Clients : A[c] \subseteq W \ {c}
        /\ \A c \in W, d \in W : c # d => (c \in A[d] <=> d \notin A[c])
        /\ \A c, d, e \in W : c \in A[d] /\ d \in A[e] => c \in A[e]
    BY DEF Service!InLine
  <2>2. ASSUME NEW c \in Clients, Service!Ask(c) PROVE Service!InLine'
    <3>1. c \notin W /\ W' = W \cup {c} /\ A' = [A EXCEPT ![c] = W]
      BY <2>2 DEF Service!Ask
    <3>2. A'[c] = W /\ \A d \in Clients \ {c} : A'[d] = A[d]
      <4>. HIDE DEF A, W
      <4>1. DOMAIN A = Clients
        BY DEF A
      <4>. QED
        BY <3>1, <4>1
    <3>. HIDE DEF A, W
    <3>3. \A d \in Clients : A'[d] \subseteq W' \ {d}
      BY <2>0, <2>1, <3>1, <3>2
    <3>4. \A d, e \in W' : d # e => (d \in A'[e] <=> e \notin A'[d])
      BY <2>0, <2>1, <3>1, <3>2
    <3>5. \A d, e, f \in W' : d \in A'[e] /\ e \in A'[f] => d \in A'[f]
      BY <2>0, <2>1, <3>1, <3>2
    <3>. QED
      BY <3>3, <3>4, <3>5 DEF Service!InLine, A, W
  <2>3. ASSUME NEW c \in Clients, Service!Serve(c) PROVE Service!InLine'
    <3>1. c \in W /\ W' = W \ {c} /\ A' = [d \in Clients |-> A[d] \ {c}]
      BY <2>3 DEF Service!Serve
    <3>. HIDE DEF A, W
    <3>2. \A d \in Clients : A'[d] = A[d] \ {c}
      BY <3>1
    <3>3. \A d \in Clients : A'[d] \subseteq W' \ {d}
      BY <2>0, <2>1, <3>1, <3>2
    <3>4. \A d, e \in W' : d # e => (d \in A'[e] <=> e \notin A'[d])
      BY <2>0, <2>1, <3>1, <3>2
    <3>5. \A d, e, f \in W' : d \in A'[e] /\ e \in A'[f] => d \in A'[f]
      BY <2>0, <2>1, <3>1, <3>2
    <3>. QED
      BY <3>3, <3>4, <3>5 DEF Service!InLine, A, W
  <2>4. CASE UNCHANGED Service!vars
    BY <2>4 DEF Service!vars, Service!InLine
  <2>. QED
    BY <2>2, <2>3, <2>4 DEF Service!Next
<1>. QED
  BY <1>1, <1>2, InitIsInit, StepIsAStep, InvariantHolds, PTL DEF Spec
=============================================================================
