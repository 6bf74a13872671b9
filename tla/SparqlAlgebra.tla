---------------------------- MODULE SparqlAlgebra ----------------------------
(***************************************************************************)
(* Paths, and what a query means: the bag of solutions it has, by the      *)
(* SPARQL algebra, over the triples that the mappings make of a database.  *)
(***************************************************************************)
EXTENDS MappedTriples

CONSTANT NoLimit      \* a query without LIMIT

-----------------------------------------------------------------------------
(* Property paths; PropertyPath::Predicate is the constant itself.         *)

InversePath(p) == [kind |-> "inverse", of |-> p]
SequencePath(ps) == [kind |-> "sequence", parts |-> ps]
AlternativePath(ps) == [kind |-> "alternative", parts |-> ps]
StarPath(p) == [kind |-> "star", of |-> p]
PlusPath(p) == [kind |-> "plus", of |-> p]
OptionalPath(p) == [kind |-> "optional", of |-> p]
NegatedPath(ps) == [kind |-> "negated", parts |-> ps]
IsPath(p) == p.kind \in {"inverse", "sequence", "alternative", "star", "plus", "optional",
                         "negated"}

-----------------------------------------------------------------------------
(* Groups                                                                  *)

\* One solution per group; with nothing to group by, one in any case.  The
\* origin of a group has its members.
Grouped(B, g, a) ==
    LET Key(s) == [v \in g \cap DOMAIN s |-> s[v]]
        keys == IF g = {} THEN {NoVars} ELSE {Key(x[2]) : x \in B}
        Members(k) == {x \in B : Key(x[2]) = k}
    IN  {<<<<"group", k, Members(k)>>,
           k @@ [x \in DOMAIN a |-> CountIn(Members(k), a[x].name)]>> : k \in keys}

-----------------------------------------------------------------------------
(* What paths and groups of patterns match                                 *)

\* The pairs of resources that a path connects, each as often as SPARQL counts it:
\* once for a path of any length.
RECURSIVE Closure(_), PairsOf(_, _)
Closure(rel) ==
    LET more == rel \cup {<<q[1][1], q[2][2]>> : q \in {x \in rel \X rel : x[1][2] = x[2][1]}}
    IN  IF more = rel THEN rel ELSE Closure(more)
Resources(db) == UNION {{t[1].value, t[3].value} : t \in Triples(db)}
Same(db) == {<<r, r>> : r \in Resources(db)}
Once(rel) == {<<q, q>> : q \in rel}
PairsOf(p, db) ==
    LET step(t) == <<t, <<t[1].value, t[3].value>>>>
        inner == PairsOf(p.of, db)
        rel == {x[2] : x \in inner}
        follow(A, B) == {<<<<x[1][1], x[2][1]>>, <<x[1][2][1], x[2][2][2]>>>> :
                            x \in {y \in A \X B : y[1][2][2] = y[2][2][1]}}
    IN  CASE p.kind = "const" -> {step(t) : t \in {x \in Triples(db) : x[2] = p}}
          [] p.kind = "negated" ->
                {step(t) : t \in {x \in Triples(db) : x[2] \notin Range(p.parts)}}
          [] p.kind = "inverse" -> {<<x[1], <<x[2][2], x[2][1]>>>> : x \in inner}
          [] p.kind = "sequence" ->
                FoldLeft(LAMBDA acc, part : follow(acc, PairsOf(part, db)),
                         PairsOf(p.parts[1], db), Tail(p.parts))
          [] p.kind = "alternative" ->
                UNION {{<<<<i, x[1]>>, x[2]>> : x \in PairsOf(p.parts[i], db)} :
                          i \in DOMAIN p.parts}
          [] p.kind = "optional" -> Once(rel \cup Same(db))
          [] p.kind = "plus" -> Once(Closure(rel))
          [] p.kind = "star" -> Once(Closure(rel) \cup Same(db))

PathAnswers(pat, db) ==
    LET ends(x) == \A i \in {1, 2} : LET t == pat[2 * i - 1] IN IsVar(t) \/ t.value = x[2][i]
        joined(x) == pat[1] = pat[3] => x[2][1] = x[2][2]
    IN  {<<x[1], [v \in PatternVars(pat) |-> x[2][IF pat[1] = Var(v) THEN 1 ELSE 2]]>> :
            x \in {y \in PairsOf(pat[2], db) : ends(y) /\ joined(y)}}
PatternAnswers(pat, db) ==
    IF IsPath(pat[2]) THEN PathAnswers(pat, db) ELSE TripleAnswers(pat, db)
BgpAnswers(pats, db) ==
    FoldLeft(LAMBDA acc, pat : InnerJoin(acc, PatternAnswers(pat, db)), Unit, pats)

Agrees(s, t, vs) == \A v \in vs \cap DOMAIN s \cap DOMAIN t : s[v] = t[v]
Holds(e, x, db) ==
    IF e.kind = "exists"
    THEN e.negated # \E y \in BgpAnswers(e.patterns, db) :
                        /\ Agrees(x[2], y[2], e.correlated)
                        /\ \A i \in DOMAIN e.filters :
                              Compares(e.filters[i], <<y[1], y[2] @@ x[2]>>)
    ELSE Compares(e, x)
Satisfying(B, es, db) == {x \in B : \A i \in DOMAIN es : Holds(es[i], x, db)}

-----------------------------------------------------------------------------
(* A query: select, where, optional, union, filters, group and counts are  *)
(* its parts; values its VALUES block (one or none), binds its BINDs,      *)
(* having its HAVINGs and subs its subqueries.  The modifiers order and    *)
(* limit do not change what it answers, only how much of it is returned.   *)

ValuesAnswers(vs, rows) == {<<i, [v \in Range(vs) |-> rows[i][v]]>> : i \in DOMAIN rows}

IsGrouped(q) == DOMAIN q.counts # {} \/ q.group # <<>>
GroupVars(q) == Range(IF q.group # <<>> THEN q.group
                      ELSE SelectSeq(q.select, LAMBDA v : v \notin DOMAIN q.counts))
Extended(B, binds) ==
    LET extend(acc, b) ==
          {<<x[1], IF b.expr.kind = "const" THEN (b.alias :> b.expr.value) @@ x[2]
                   ELSE IF b.expr.name \in DOMAIN x[2]
                   THEN (b.alias :> x[2][b.expr.name]) @@ x[2] ELSE x[2]>> : x \in acc}
    IN  FoldLeft(extend, B, binds)

RECURSIVE Solutions(_, _), Answers(_, _)
\* Before the projection.
Solutions(q, db) ==
    LET alts == UNION {{<<<<i, x[1]>>, x[2]>> : x \in BgpAnswers(q.union[i], db)} :
                          i \in DOMAIN q.union}
        base == IF q.union = <<>> THEN BgpAnswers(q.where, db)
                                  ELSE InnerJoin(BgpAnswers(q.where, db), alts)
        opt == FoldLeft(LAMBDA acc, pats : LeftJoin(acc, BgpAnswers(pats, db)),
                        base, q.optional)
        sub == FoldLeft(LAMBDA acc, s : InnerJoin(acc, Answers(s, db)), opt, q.subs)
        vals == FoldLeft(LAMBDA acc, b : InnerJoin(acc, ValuesAnswers(b.vars, b.rows)),
                         sub, q.values)
        kept == Satisfying(Extended(vals, q.binds), q.filters, db)
        counts == [a \in DOMAIN q.counts |-> Count(q.counts[a])]
    IN  IF IsGrouped(q) THEN Satisfying(Grouped(kept, GroupVars(q), counts), q.having, db)
                        ELSE kept
Answers(q, db) ==
    {<<x[1], Project(x[2], Range(q.select), Passed(q.select))>> : x \in Solutions(q, db)}
=============================================================================
