--------------------------- MODULE OptimizerPasses ---------------------------
(***************************************************************************)
(* The rewriting of a plan between the converter and the SQL generator:    *)
(* two passes that look at the root only, the reordering of joins, and the *)
(* six rules that the pass manager repeats.  A pass gives the set of plans *)
(* it may produce; all but the reordering produce one.                     *)
(*                                                                         *)
(* Join order is by estimated cost; costs are left out and any order may   *)
(* be the cheapest.  The converter emits no predicate that still has to be *)
(* unfolded, so the TBox rewriting changes nothing here and the unfolding  *)
(* has to do with paths only.                                              *)
(***************************************************************************)
EXTENDS PropertyPaths, PassRules

MapChildren(n, F(_)) == WithChildren(n, [i \in DOMAIN n.children |-> F(n.children[i])])

-----------------------------------------------------------------------------
(* RedundantJoinElimination and FilterPushdown, at the root                *)

SameScan(a, b) == a.kind = "scan" /\ b.kind = "scan" /\ a = b
Deduped(cs) ==
    FoldLeft(LAMBDA acc, c : IF \E i \in DOMAIN acc : SameScan(acc[i], c)
                             THEN acc ELSE Append(acc, c), <<>>, cs)
RedundantJoinElimination(n) ==
    IF n.kind # "join" THEN n
    ELSE IF Len(Deduped(n.children)) = 1 THEN Deduped(n.children)[1]
    ELSE WithChildren(n, Deduped(n.children))

\* Pushes the filter into the first child that has its variables.
FilterPushdown(n) ==
    IF n.kind # "filter" \/ VarsOf(n.expr) = {} THEN n
    ELSE IF n.child.kind # "join" THEN n
    ELSE LET cs == n.child.children
             fits == {i \in DOMAIN cs : VarsOf(n.expr) \subseteq UsedVariables(cs[i])}
         IN  IF fits = {} THEN n
             ELSE LET i == Min(fits)
                  IN  WithChildren(n.child, [cs EXCEPT ![i] = Filter(n.expr, cs[i])])

-----------------------------------------------------------------------------
(* JoinReordering: left-deep binary joins in the order of least cost; the  *)
(* condition goes to the outermost join.                                   *)

LeftDeepJoin(cs, cond) ==
    LET bare == FoldLeft(LAMBDA acc, c : Join(<<acc, c>>, {}, "inner"), cs[1], Tail(cs))
    IN  [bare EXCEPT !.cond = cond]
Orders(cs) == {[i \in DOMAIN cs |-> cs[p[i]]] : p \in Permutations(DOMAIN cs)}

RECURSIVE JoinReordering(_)
JoinReordering(n) ==
    IF HasChildren(n)
    THEN UNION {IF n.kind = "join" /\ n.type = "inner" /\ Len(cs) > 1
                THEN {LeftDeepJoin(order, n.cond) : order \in Orders(cs)}
                ELSE {WithChildren(n, cs)} :
                  cs \in Picks([i \in DOMAIN n.children |-> JoinReordering(n.children[i])])}
    ELSE IF HasChild(n) THEN {WithChild(n, c) : c \in JoinReordering(n.child)}
    ELSE {n}

-----------------------------------------------------------------------------
(* UnfoldingPass: an inner join gets a condition on the columns of every   *)
(* variable that its children share.  It looks for columns in scans, in    *)
(* joins and under projections, not under filters, unions and VALUES.      *)
(* A path that can be unfolded is replaced by its plan.                    *)

RECURSIVE CollectVars(_, _)
CollectVars(n, v) == \* the columns that v has in n
    CASE n.kind = "scan" -> IF v \in DOMAIN n.cols THEN <<n.cols[v]>> ELSE <<>>
      [] n.kind = "join" ->
            FlattenSeq([i \in DOMAIN n.children |-> CollectVars(n.children[i], v)])
      [] n.kind = "construction" -> CollectVars(n.child, v)
      [] OTHER -> <<>>

ColumnOfChild(i, c) == [kind |-> "child", child |-> i, col |-> c]  \* t<i>.<c>
EqualitiesFor(v, cs) ==
    LET places == FlattenSeq([i \in DOMAIN cs |->
                      LET cols == CollectVars(cs[i], v)
                      IN  [j \in DOMAIN cols |-> ColumnOfChild(i, cols[j])]])
    IN  {Eq(places[1], places[j]) : j \in 2..Len(places)}

\* A wrong version: recomputes a condition only where there is none, and drops it
\* otherwise.
RECURSIVE UnfoldingToggles(_)
UnfoldingToggles(n) ==
    CASE n.kind = "join" ->
            LET cs == [i \in DOMAIN n.children |-> UnfoldingToggles(n.children[i])]
                vars == UNION {UsedVariables(cs[i]) : i \in DOMAIN cs}
                eqs == UNION {EqualitiesFor(v, cs) : v \in vars}
            IN  Join(cs, IF n.cond = {} THEN eqs ELSE {}, n.type)
      [] n.kind = "union" -> MapChildren(n, UnfoldingToggles)
      [] HasChild(n) -> WithChild(n, UnfoldingToggles(n.child))
      [] OTHER -> n

RECURSIVE Unfolding(_)
Unfolding(n) ==
    CASE n.kind = "join" ->
            LET cs == [i \in DOMAIN n.children |-> Unfolding(n.children[i])]
                vars == UNION {UsedVariables(cs[i]) : i \in DOMAIN cs}
                eqs == UNION {EqualitiesFor(v, cs) : v \in vars}
            IN  Join(cs, IF n.type = "inner" /\ eqs # {} THEN eqs ELSE n.cond, n.type)
      [] n.kind = "path" ->
            LET unfolded == UnfoldPath(n.subject, n.path, n.object)
            IN  IF unfolded = <<>> THEN n ELSE Unfolding(unfolded[1])
      [] n.kind = "union" -> MapChildren(n, Unfolding)
      [] HasChild(n) -> WithChild(n, Unfolding(n.child))
      [] OTHER -> n

-----------------------------------------------------------------------------
(* SelfJoinEliminationPass: two scans of a table that agree on the variable*)
(* of every key column become one.  Aggregations are not entered.          *)

Merged(a, b) == ExtensionalData(a.table, MergedColumns(a.cols, b.cols))

RECURSIVE MergeScans(_)
MergeScans(cs) == \* merges into the first child, then goes on with the second
    IF cs = <<>> THEN <<>>
    ELSE LET absorb(acc, c) == IF CanMerge(acc.first, c)
                               THEN [acc EXCEPT !.first = Merged(@, c)]
                               ELSE [acc EXCEPT !.rest = Append(@, c)]
             pass == FoldLeft(absorb, [first |-> cs[1], rest |-> <<>>], Tail(cs))
         IN  <<pass.first>> \o MergeScans(pass.rest)

Entered(n) == n.kind \in {"filter", "construction"}

RECURSIVE SelfJoinElimination(_)
SelfJoinElimination(n) ==
    CASE n.kind = "join" ->
            WithChildren(n, MergeScans(MapChildren(n, SelfJoinElimination).children))
      [] n.kind = "union" -> MapChildren(n, SelfJoinElimination)
      [] Entered(n) -> WithChild(n, SelfJoinElimination(n.child))
      [] OTHER -> n

-----------------------------------------------------------------------------
(* JoinEliminationPass: drops a scan that only looks up a NOT NULL foreign *)
(* key of another one.                                                     *)

\* Pairs in the order of the two loops; a dropped child takes no further part.
Discarded(cs) ==
    LET n == Len(cs)
        pairs == [k \in 1..(n * n) |-> <<((k - 1) \div n) + 1, ((k - 1) % n) + 1>>]
        look(acc, p) == IF p[1] # p[2] /\ {p[1], p[2]} \cap acc = {}
                           /\ IsLookup(cs[p[1]], cs[p[2]])
                        THEN acc \cup {p[2]} ELSE acc
    IN  FoldLeft(look, {}, pairs)
Without(cs, out) ==
    LET kept == SelectSeq([i \in DOMAIN cs |-> i], LAMBDA i : i \notin out)
    IN  [k \in DOMAIN kept |-> cs[kept[k]]]

RECURSIVE JoinElimination(_)
JoinElimination(n) ==
    CASE n.kind = "join" ->
            LET cs == MapChildren(n, JoinElimination).children
            IN  WithChildren(n, Without(cs, Discarded(cs)))
      [] n.kind = "union" -> MapChildren(n, JoinElimination)
      [] Entered(n) -> WithChild(n, JoinElimination(n.child))
      [] OTHER -> n

-----------------------------------------------------------------------------
(* LeftToInnerJoinPass: by the NOT NULL columns of the second child        *)

RECURSIVE LeftToInner(_)
LeftToInner(n) ==
    CASE n.kind = "join" ->
            LET j == MapChildren(n, LeftToInner)
                right == j.children[2]
            IN  IF j.type = "left" /\ Len(j.children) >= 2 /\ right.kind = "scan"
                   /\ (right.table \in DOMAIN NotNull =>
                         Range(right.cols) \subseteq NotNull[right.table])
                THEN [j EXCEPT !.type = "inner"] ELSE j
      [] n.kind = "union" -> MapChildren(n, LeftToInner)
      [] Entered(n) -> WithChild(n, LeftToInner(n.child))
      [] OTHER -> n

-----------------------------------------------------------------------------
(* NormalizeProjectionPass merges a projection of a projection;            *)
(* PruneUnusedColumnsPass drops the bindings that are not projected.       *)

RECURSIVE NormalizeProjection(_)
NormalizeProjection(n) ==
    CASE n.kind = "construction" ->
            LET c == NormalizeProjection(n.child)
            IN  IF c.kind = "construction"
                THEN Construction(n.vars, SubstitutedAll(n.bindings, c.bindings), c.child)
                ELSE WithChild(n, c)
      [] HasChildren(n) -> MapChildren(n, NormalizeProjection)
      [] HasChild(n) -> WithChild(n, NormalizeProjection(n.child))
      [] OTHER -> n

RECURSIVE PruneUnusedColumns(_)
PruneUnusedColumns(n) ==
    CASE n.kind = "construction" ->
            Construction(n.vars, Pruned(n.vars, n.bindings), PruneUnusedColumns(n.child))
      [] HasChildren(n) -> MapChildren(n, PruneUnusedColumns)
      [] HasChild(n) -> WithChild(n, PruneUnusedColumns(n.child))
      [] OTHER -> n

\* One round of PassManager::run.
Round(n) ==
    PruneUnusedColumns(NormalizeProjection(LeftToInner(
        JoinElimination(SelfJoinElimination(Unfolding(n))))))
=============================================================================
