----------------------------- MODULE Translation -----------------------------
(***************************************************************************)
(* A query on its way from its text to SQL (listener.rs, then              *)
(* OntopEngine::translate of lib.rs), one action per stage.  The order in  *)
(* which a HashMap gives its entries and the order of joins that is        *)
(* estimated to be cheapest are free, so one query has many behaviours.    *)
(*                                                                         *)
(* The SERVICE materializer acts on no plan here; the rewriting by the     *)
(* TBox finds nothing to rewrite, the plan being already on tables.        *)
(***************************************************************************)
EXTENDS IrConverter, OptimizerPasses, FlatSql

CONSTANTS Queries,       \* pairs [asked, text]: what is meant, and its tokens
          Databases,     \* the databases a translation is judged on
          Columns,       \* the columns of each table
          MaxIterations  \* MAX_ITERATIONS of the pass manager

ASSUME TranslationAssumption == MaxIterations \in Nat \ {0}

VARIABLES query,
          stage,       \* the last stage that is done
          parsed,      \* what the parser makes of the text
          plan,
          iterations,  \* rounds of the pass manager
          sql
vars == <<query, stage, parsed, plan, iterations, sql>>

Stages == {"received", "parsed", "converted", "unfolded", "deduplicated", "pushed", "reordered",
           "optimized", "generated"}

Init == /\ query \in Queries
        /\ stage = "received"
        /\ parsed = <<>>
        /\ plan = Nothing
        /\ iterations = 0
        /\ sql = EmptyContext

ParseText == /\ stage = "received"
             /\ stage' = "parsed"
             /\ parsed' = Parse(query.text)
             /\ UNCHANGED <<query, plan, iterations, sql>>

Convert == /\ stage = "parsed"
           /\ stage' = "converted"
           /\ plan' \in ConvertWithMappings(parsed)
           /\ UNCHANGED <<query, parsed, iterations, sql>>

\* MappingUnfolder::unfold, then TBoxRewriter::rewrite.
Unfold == /\ stage = "converted"
          /\ stage' = "unfolded"
          /\ plan' = Unfolding(plan)
          /\ UNCHANGED <<query, parsed, iterations, sql>>

EliminateRedundantJoins ==
    /\ stage = "unfolded"
    /\ stage' = "deduplicated"
    /\ plan' = RedundantJoinElimination(plan)
    /\ UNCHANGED <<query, parsed, iterations, sql>>

PushFilters == /\ stage = "deduplicated"
               /\ stage' = "pushed"
               /\ plan' = FilterPushdown(plan)
               /\ UNCHANGED <<query, parsed, iterations, sql>>

ReorderJoins == /\ stage = "pushed"
                /\ stage' = "reordered"
                /\ plan' \in JoinReordering(plan)
                /\ UNCHANGED <<query, parsed, iterations, sql>>

\* A round that changes no more than the order of the conjuncts of a condition,
\* which comes out of a HashMap, may still look like a change.
LooksChanged(before, after) ==
    IF before # after THEN {TRUE}
    ELSE IF \E n \in Nodes(after) : n.kind = "join" /\ Cardinality(n.cond) > 1
         THEN {TRUE, FALSE} ELSE {FALSE}

\* A wrong version: without the limit on the rounds.
RunPassesUnbounded ==
    /\ stage = "reordered"
    /\ plan' = Round(plan)
    /\ iterations' = iterations + 1
    /\ \E changed \in LooksChanged(plan, plan') :
          stage' = IF changed THEN "reordered" ELSE "optimized"
    /\ UNCHANGED <<query, parsed, sql>>

RunPasses == /\ stage = "reordered"
             /\ plan' = Round(plan)
             /\ iterations' = iterations + 1
             /\ \E changed \in LooksChanged(plan, plan') :
                   stage' = IF changed /\ iterations' < MaxIterations
                            THEN "reordered" ELSE "optimized"
             /\ UNCHANGED <<query, parsed, sql>>

GenerateSql == /\ stage = "optimized"
               /\ stage' = "generated"
               /\ sql' = Generate(plan)
               /\ UNCHANGED <<query, parsed, plan, iterations>>

Next == \/ ParseText \/ Convert \/ Unfold \/ EliminateRedundantJoins \/ PushFilters \/ ReorderJoins
        \/ RunPasses \/ GenerateSql

Spec == Init /\ [][Next]_vars

-----------------------------------------------------------------------------
TypeOK == /\ query \in Queries
          /\ stage \in Stages
          /\ iterations \in 0..MaxIterations
          /\ stage \notin {"received", "parsed"} => plan.kind = "construction"
          /\ stage = "generated" => Len(sql.from) > 0 \/ sql.failed

Asked == query.asked
PlanMeans(p, db) == Bag(Meaning(p, db))
QueryMeans(db) == Bag(Answers(Asked, db))

\* What the parser took for the query; with UNION, the patterns outside are not used.
RECURSIVE Understood(_)
Understood(p) ==
    LET every == ExtensionalData(SelectOne, [v \in Vars(query.text) |-> v])
    IN  [p EXCEPT
           !.where = IF p.union = <<>> THEN WithPaths(@) ELSE <<>>,
           !.optional = [i \in DOMAIN @ |-> WithPaths(@[i])],
           !.union = [i \in DOMAIN @ |-> WithPaths(@[i])],
           !.filters = FlattenSeq([i \in DOMAIN @ |-> ParsedFilter(@[i], every)]),
           !.having = [i \in DOMAIN @ |-> ParseFilterExpr(@[i])],
           !.binds = [i \in DOMAIN @ |-> [@[i] EXCEPT !.expr = ParseFilterExpr(@)]],
           !.subs = [i \in DOMAIN @ |-> Understood(@[i])]]
\* The parts that the parser looks up one by one, each with a search of its own over
\* the whole text, are together the query that was written: it asks for the same
\* solutions, in the same order and as many of them.
ParserKeepsQuery ==
    stage = "parsed" =>
        /\ parsed.order = Asked.order /\ parsed.limit = Asked.limit
        /\ \A db \in Databases : Bag(Answers(Understood(parsed), db)) = QueryMeans(db)

\* The converter's plan has the solutions the query has over the triples of the
\* mappings: grouping the patterns of a subject into one scan loses nothing.
PlanMeansQuery ==
    stage = "converted" => \A db \in Databases : PlanMeans(plan, db) = QueryMeans(db)

\* No pass between the converter and the generator changes what a plan means.
PassesKeepMeaning ==
    [][stage \notin {"received", "parsed"} =>
          \A db \in Databases : PlanMeans(plan', db) = PlanMeans(plan, db)]_vars

\* The passes are repeated until they have nothing left to do: the limit on the
\* number of rounds never cuts the work short.
RoundsSettle == stage = "optimized" => Round(plan) = plan

\* A path of any length: its SQL selects from a relation that no statement makes.
Repeats == \E n \in Nodes(plan) : n.kind = "recursive"

\* Translation never fails, and its SQL is sound but for paths of any length: each table
\* of a FROM clause exists and has a name of its own, each reference is to a table and a
\* column in its scope, and an aggregate is compared in HAVING only.
SqlIsWellFormed ==
    stage = "generated" => ~sql.failed /\ (~Repeats => WellFormed(sql, Columns))

\* What the SQL answers over a database is what the query means, with the number of
\* times each solution occurs, whatever order of joins was chosen.  (An empty list of
\* items is printed as *: of an ASK, the only query without items here, the rows count.)
SqlAnswersQuery ==
    stage = "generated" /\ ~sql.failed /\ ~Repeats =>
        \A db \in Databases : Bag(SqlAnswers(sql, db)) = QueryMeans(db)

\* The rows come in the order that was asked for, and no more of them: the items of
\* ORDER BY have the values of the variables of the query's, beside each answer, and
\* LIMIT is the query's.
Keyed(q, db) ==
    LET keyed == [x \in Range(q.select) \cup {"by " \o o.var : o \in Range(q.order)} |->
                    IF x \in Range(q.select) THEN Var(x)
                    ELSE Var((CHOOSE o \in Range(q.order) : "by " \o o.var = x).var)]
    IN  {<<x[1], Project(x[2], DOMAIN keyed, keyed)>> : x \in Solutions(q, db)}
SqlPagesQuery ==
    stage = "generated" /\ ~sql.failed /\ ~Repeats =>
        /\ sql.limit = Asked.limit
        /\ [i \in DOMAIN sql.order |-> sql.order[i].desc]
              = [i \in DOMAIN Asked.order |-> Asked.order[i].desc]
        /\ LET key(i) == Item(sql.order[i].expr, "by " \o Asked.order[i].var)
               withKeys == [sql EXCEPT !.items = @ \o [i \in DOMAIN sql.order |-> key(i)]]
           IN  \A db \in Databases : Bag(SqlAnswers(withKeys, db)) = Bag(Keyed(Asked, db))

\* The variables that unfolding makes up between the parts of a path are that path's
\* own: the plans of two paths of a query share no variable but the query's.
PathVariablesAreUnique ==
    stage = "converted" =>
        LET unfolded == {UnfoldPath(n.subject, n.path, n.object) :
                            n \in {x \in Nodes(plan) : x.kind = "path"}}
        IN  \A p, q \in unfolded \ {<<>>} :
                p # q => UsedVariables(p[1]) \cap UsedVariables(q[1]) \subseteq Vars(query.text)

\* OPTIONAL is a left join: a solution of the main patterns is never lost because
\* the optional ones do not match it.
OptionalIsLeftJoin ==
    stage = "generated" /\ ~sql.failed =>
        \A db \in Databases :
            \A s \in {x[2] : x \in BgpAnswers(Asked.where, db)} :
                \E x \in SqlAnswers(sql, db) :
                    \A v \in DOMAIN s \cap Range(Asked.select) :
                        v \in DOMAIN x[2] /\ x[2][v] = s[v]
=============================================================================
