---------------------------- MODULE SolutionBags ----------------------------
(***************************************************************************)
(* Expressions, solutions and the joins and projections of them.  A        *)
(* solution binds variables to values; a bag is a set of pairs             *)
(* <<origin, solution>>: the origin tells duplicates apart.                *)
(***************************************************************************)
EXTENDS Naturals, Sequences, FiniteSets, TLC, SequencesExt, Functions

CONSTANT Null         \* SQL's NULL, no value of any column

-----------------------------------------------------------------------------
(* Terms and expressions.  FILTERs compare two terms or ask whether        *)
(* patterns have a solution; aggregates only count.                        *)

Var(v) == [kind |-> "var", name |-> v]
Const(c) == [kind |-> "const", value |-> c]
Eq(l, r) == [kind |-> "eq", left |-> l, right |-> r]
Count(v) == [kind |-> "count", name |-> v]
\* filters: the equations within the block.
Exists(negated, pats, corr, filters) ==
    [kind |-> "exists", negated |-> negated, patterns |-> pats, correlated |-> corr,
     filters |-> filters]

IsVar(t) == t.kind = "var"
\* extract_vars_from_expr: nothing is looked up in an EXISTS.
VarsOf(e) == CASE e.kind \in {"var", "count"} -> {e.name}
               [] e.kind = "eq" -> {x.name : x \in {y \in {e.left, e.right} :
                                                      y.kind \in {"var", "count"}}}
               [] OTHER -> {}
VarsOfAll(es) == UNION {VarsOf(e) : e \in es}

-----------------------------------------------------------------------------
(* Solutions and bags of them                                              *)

NoVars == [v \in {} |-> Null]
Unit == {<<"unit", NoVars>>}   \* one solution that binds nothing

\* What either binds; the first where both do.
Merge(a, b) == [v \in DOMAIN a \cup DOMAIN b |-> IF v \in DOMAIN a THEN a[v] ELSE b[v]]
Compatible(a, b) == \A v \in DOMAIN a \cap DOMAIN b : a[v] = b[v]
InnerJoin(L, R) == {<<<<p[1][1], p[2][1]>>, Merge(p[1][2], p[2][2])>> :
                       p \in {q \in L \X R : Compatible(q[1][2], q[2][2])}}
LeftJoin(L, R) ==
    InnerJoin(L, R) \cup
    {<<<<l[1], "none">>, l[2]>> :
        l \in {k \in L : \A r \in R : ~Compatible(k[2], r[2])}}

Project(s, vs, b) ==
    LET bound == {v \in vs \cap DOMAIN b : VarsOf(b[v]) \subseteq DOMAIN s}
    IN  [v \in bound |-> IF b[v].kind = "const" THEN b[v].value ELSE s[b[v].name]]
Passed(vs) == [v \in Range(vs) |-> Var(v)]

\* A count is of the members of the group that x is the solution of.
CountIn(B, v) == ToString(Cardinality({x \in B : v \in DOMAIN x[2]}))
ValueIn(e, x) == CASE e.kind = "var" -> x[2][e.name]
                   [] e.kind = "const" -> e.value
                   [] e.kind = "count" -> CountIn(x[1][3], e.name)
Unbound(e, x) == e.kind = "var" /\ e.name \notin DOMAIN x[2]
\* Does x satisfy an equation?
Compares(e, x) == /\ ~Unbound(e.left, x) /\ ~Unbound(e.right, x)
                  /\ ValueIn(e.left, x) = ValueIn(e.right, x)

\* How often each solution occurs.
Bag(B) == [s \in {x[2] : x \in B} |-> Cardinality({x \in B : x[2] = s})]

-----------------------------------------------------------------------------
(* Rows of a table, some columns of which are bound to variables; a        *)
(* variable whose column is NULL is not bound.                             *)

Solution(m, row) == [v \in {x \in DOMAIN m : row[m[x]] # Null} |-> row[m[v]]]
Scanned(m, rows) == {<<row, Solution(m, row)>> : row \in rows}
=============================================================================
