------------------------------ MODULE LogicPlan ------------------------------
(***************************************************************************)
(* The plan tree (ir/node.rs) and what a plan means: the bag of solutions  *)
(* it has over a database, before ORDER BY and LIMIT.  A variable whose    *)
(* column is NULL is not bound.                                            *)
(*                                                                         *)
(* Variables, tables and columns are strings, as in the code.  A condition *)
(* is the set of its conjuncts; Option::None is the empty set.             *)
(***************************************************************************)
EXTENDS SparqlAlgebra

-----------------------------------------------------------------------------
(* Nodes                                                                   *)

ExtensionalData(t, m) == [kind |-> "scan", table |-> t, cols |-> m]
Join(cs, cond, type) ==
    [kind |-> "join", children |-> cs, cond |-> cond, type |-> type]
Filter(e, c) == [kind |-> "filter", expr |-> e, child |-> c]
Union(cs) == [kind |-> "union", children |-> cs]
Construction(vs, b, c) ==
    [kind |-> "construction", vars |-> vs, bindings |-> b, child |-> c]
Aggregation(g, a, c) ==
    [kind |-> "aggregation", group |-> g, aggregates |-> a, child |-> c]
Limit(limit, order, c) ==
    [kind |-> "limit", limit |-> limit, order |-> order, child |-> c]
Values(vs, rows) == [kind |-> "values", vars |-> vs, rows |-> rows]
SubQuery(inner, correlated) ==
    [kind |-> "subquery", inner |-> inner, correlated |-> correlated]
Path(s, p, o) == [kind |-> "path", subject |-> s, path |-> p, object |-> o]
\* base: the plan of one step, for both base_path and recursive_path.
RecursivePath(base, s, o, min) ==
    [kind |-> "recursive", base |-> base, subject |-> s, object |-> o, min |-> min]

HasChildren(n) == n.kind \in {"join", "union"}
HasChild(n) == n.kind \in {"filter", "construction", "aggregation", "limit"}
WithChildren(n, cs) == [n EXCEPT !.children = cs]
WithChild(n, c) == [n EXCEPT !.child = c]
FilteredBy(n, es) == FoldLeft(LAMBDA c, e : Filter(e, c), n, es)
Ends(n) == {t.name : t \in {x \in {n.subject, n.object} : IsVar(x)}}

RECURSIVE UsedVariables(_)
UsedVariables(n) ==
    CASE n.kind = "scan" -> DOMAIN n.cols
      [] n.kind = "values" -> Range(n.vars)
      [] HasChildren(n) ->
            UNION {UsedVariables(n.children[i]) : i \in DOMAIN n.children}
      [] n.kind = "filter" -> UsedVariables(n.child) \cup VarsOf(n.expr)
      [] n.kind = "construction" ->
            UsedVariables(n.child) \cup Range(n.vars) \cup VarsOfAll(Range(n.bindings))
      [] n.kind = "aggregation" ->
            UsedVariables(n.child) \cup Range(n.group) \cup VarsOfAll(Range(n.aggregates))
      [] n.kind = "limit" -> UsedVariables(n.child)
      [] n.kind = "subquery" -> UsedVariables(n.inner) \cup n.correlated
      [] n.kind = "path" -> Ends(n)
      [] n.kind = "recursive" -> UsedVariables(n.base) \cup Ends(n)

\* Every node of the tree.
RECURSIVE Nodes(_)
Nodes(n) == {n} \cup
    (CASE HasChildren(n) -> UNION {Nodes(n.children[i]) : i \in DOMAIN n.children}
       [] HasChild(n) -> Nodes(n.child)
       [] OTHER -> {})

\* Every way to pick one member of each set of a sequence.
Picks(S) == LET extended(picks, next) == {Append(p, x) : p \in picks, x \in next}
            IN  FoldLeft(extended, {<<>>}, S)

-----------------------------------------------------------------------------
(* Meaning                                                                 *)

SelectOne == "(SELECT 1)"      \* the table of a query that has no patterns
TableRows(t, db) == IF t = SelectOne THEN {NoVars} ELSE db[t]

\* The pairs that one or more steps connect; none at all too, if min is 0.
Repeated(n, steps, db) ==
    LET at(t, s) == IF IsVar(t) THEN s[t.name] ELSE t.value
        rel == {<<at(n.subject, x[2]), at(n.object, x[2])>> : x \in steps}
        pairs == Closure(rel) \cup (IF n.min = 0 THEN Same(db) ELSE {})
    IN  {<<q, [v \in Ends(n) |-> IF n.subject = Var(v) THEN q[1] ELSE q[2]]>> : q \in pairs}

RECURSIVE Meaning(_, _)
Meaning(n, db) ==
    CASE n.kind = "scan" -> Scanned(n.cols, TableRows(n.table, db))
      [] n.kind = "values" -> ValuesAnswers(n.vars, n.rows)
      [] n.kind = "join" ->
            LET step(acc, c) == IF n.type = "inner" THEN InnerJoin(acc, Meaning(c, db))
                                                    ELSE LeftJoin(acc, Meaning(c, db))
            IN  FoldLeft(step, Meaning(Head(n.children), db), Tail(n.children))
      [] n.kind = "union" ->
            UNION {{<<<<i, x[1]>>, x[2]>> : x \in Meaning(n.children[i], db)} :
                      i \in DOMAIN n.children}
      [] n.kind = "filter" -> Satisfying(Meaning(n.child, db), <<n.expr>>, db)
      [] n.kind = "construction" ->
            {<<x[1], Project(x[2], Range(n.vars), n.bindings)>> : x \in Meaning(n.child, db)}
      [] n.kind = "aggregation" ->
            Grouped(Meaning(n.child, db), Range(n.group), n.aggregates)
      [] n.kind = "limit" -> Meaning(n.child, db)
      [] n.kind = "subquery" -> Meaning(n.inner, db)
      [] n.kind = "path" -> PatternAnswers(<<n.subject, n.path, n.object>>, db)
      [] n.kind = "recursive" -> Repeated(n, Meaning(n.base, db), db)
=============================================================================
