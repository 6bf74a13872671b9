----------------------------- MODULE IrConverter -----------------------------
(***************************************************************************)
(* From a parsed query to a plan (parser/ir_converter.rs).  The guessing   *)
(* of columns that no rule maps is left out; every rule is usable: its     *)
(* table has its columns.                                                  *)
(***************************************************************************)
EXTENDS PropertyPaths, PatternScans

-----------------------------------------------------------------------------
(* One scan per table and subject (build_join_from_patterns_with_vars).    *)

\* A wrong version: any class will do.
MatchingAnyClass(pat) == Rules(pat[2].value)

\* The rules that a pattern with a constant predicate can use.
Matching(pat) ==
    IF pat[2].value = RdfType
    THEN SelectSeq(Rules(RdfType), LAMBDA r : r.constant = pat[3].value)
    ELSE Rules(pat[2].value)

\* The table is the one already used for the subject, or that of the first rule
\* (choosing by the likeness of names in between is left out).
TableOf(pat, preferred) ==
    LET rs == Matching(pat)
        known == pat[1] \in DOMAIN preferred
    IN  IF known /\ OfTable(rs, preferred[pat[1]]) # <<>>
        THEN preferred[pat[1]]
        ELSE IF rs # <<>> THEN rs[1].table
        ELSE preferred[pat[1]]
Resolves(pat, preferred) ==
    \/ Matching(pat) # <<>>
    \/ pat[2].value = RdfType /\ pat[1] \in DOMAIN preferred

\* resolve_var_alias: the variable that stands for x, as far as aliases are known.
Canonical(x, aliases) == IF x \in DOMAIN aliases THEN aliases[x] ELSE x
\* A rule whose object is its own subject's column makes the object another name of
\* the subject; what stood for the object stands under the subject's name from then on.
Aliased(aliases, s, o) ==
    [x \in DOMAIN aliases \cup {o} |-> IF Canonical(x, aliases) = o THEN s
                                                                  ELSE aliases[x]]
\* acc.preferred: the table of a subject; acc.groups: the patterns by table and
\* subject; acc.aliases: var_aliases; acc.ok: every pattern so far has a table.
Place(acc, pat) ==
    LET before(x) == Canonical(x, acc.aliases)
        looked == <<before(pat[1]), pat[2], pat[3]>>
    IN  IF ~acc.ok \/ ~Resolves(looked, acc.preferred) THEN [acc EXCEPT !.ok = FALSE]
    ELSE LET t == TableOf(looked, acc.preferred)
             rules == OfTable(Rules(pat[2].value), t)
             sameColumn == /\ IsVar(pat[1]) /\ IsVar(pat[3])
                           /\ rules # <<>> /\ rules[1].subject = rules[1].object
                           /\ before(pat[1]) # before(pat[3])
             aliases == IF sameColumn THEN Aliased(acc.aliases, before(pat[1]), before(pat[3]))
                                      ELSE acc.aliases
             subject == Canonical(pat[1], aliases)
             own == subject :> t
             object == IF IsVar(pat[3]) THEN Canonical(pat[3], aliases) :> t ELSE NoVars
             key == <<t, subject>>
         IN  [acc EXCEPT
                !.aliases = aliases,
                !.preferred = IF pat[2].value = RdfType THEN @ @@ own @@ object
                                                        ELSE own @@ @ @@ object,
                !.groups = IF key \in DOMAIN @ THEN [@ EXCEPT ![key] = Append(@, pat)]
                                               ELSE @ @@ (key :> <<pat>>)]

GroupsOf(pats) ==
    FoldLeft(Place, [preferred |-> NoVars, groups |-> NoVars, aliases |-> NoVars, ok |-> TRUE],
             SelectSeq(pats, NotType) \o SelectSeq(pats, IsType))

GroupNode(t, pats) ==
    LET add(acc, pat) == AddPattern(t, acc, pat)
        g == FoldLeft(add, NoPatterns, pats)
    IN  FilteredBy(ExtensionalData(t, g.cols), g.filters)

-----------------------------------------------------------------------------
(* Left-deep joins with a condition on the columns of the shared variables *)

RECURSIVE ColumnsOf(_)
ColumnsOf(n) == \* extract_var_bindings
    CASE n.kind = "scan" -> n.cols
      [] n.kind = "values" -> [v \in Range(n.vars) |-> v]
      [] n.kind = "filter" -> ColumnsOf(n.child)
      [] n.kind = "union" -> ColumnsOf(n.children[1])
      [] n.kind = "join" ->
            FoldLeft(LAMBDA acc, c : ColumnsOf(c) @@ acc, NoVars, n.children)
      [] n.kind = "construction" ->
            LET vars == {v \in Range(n.vars) : n.bindings[v].kind = "var"}
            IN  [v \in vars |-> n.bindings[v].name]
                  @@ Restrict(ColumnsOf(n.child), Range(n.vars) \cap DOMAIN ColumnsOf(n.child))
      [] n.kind = "aggregation" ->
            [v \in Range(n.group) \cup DOMAIN n.aggregates |-> v]
      [] n.kind = "limit" -> ColumnsOf(n.child)
      [] n.kind = "subquery" -> ColumnsOf(n.inner)
      [] n.kind = "path" -> NoVars

CreateJoinCondition(l, r) ==
    {Eq(Var(l[v]), Var(r[v])) : v \in DOMAIN l \cap DOMAIN r}

LeftDeep(ns) ==
    LET step(acc, n) ==
          [plan |-> Join(<<acc.plan, n>>, CreateJoinCondition(acc.cols, ColumnsOf(n)),
                         "inner"),
           cols |-> ColumnsOf(n) @@ acc.cols]
    IN  FoldLeft(step, [plan |-> ns[1], cols |-> ColumnsOf(ns[1])], Tail(ns)).plan

Nothing == Values(<<>>, <<>>)

-----------------------------------------------------------------------------
(* A variable predicate, or rdf:type with a variable class, becomes a      *)
(* union over every rule that may answer it.                               *)

RequiresExpansion(pat) == IsVar(pat[2]) \/ (IsType(pat) /\ IsVar(pat[3]))

Candidates(pat) ==
    LET OfPredicate(p) == [i \in DOMAIN Rules(p) |-> <<p, Rules(p)[i]>>]
    IN  IF IsVar(pat[2])
        THEN LET more(p, found) == OfPredicate(p) \o found
             IN  FoldSet(more, <<>>, DOMAIN Mappings)
        ELSE OfPredicate(RdfType)

\* build_pattern_branch_from_rule: <<>> when the rule cannot answer the pattern.
Branch(pat, p, rule) ==
    LET subject == IF IsVar(pat[1]) THEN pat[1].name ELSE "__subj_const_0"
        object == IF IsVar(pat[3]) THEN pat[3].name ELSE "__obj_const_1"
        byColumn == rule.object # NoColumn
        cols == (IF byColumn THEN object :> rule.object ELSE NoVars)
                  @@ (subject :> rule.subject)
        filters == (IF IsVar(pat[1]) THEN <<>> ELSE <<Eq(Var(subject), pat[1])>>)
                     \o (IF IsVar(pat[3]) \/ ~byColumn THEN <<>>
                         ELSE <<Eq(Var(object), pat[3])>>)
        node == FilteredBy(ExtensionalData(rule.table, cols), filters)
        constants == (IF IsVar(pat[2]) THEN pat[2].name :> Const(p) ELSE NoVars)
                       @@ (IF IsVar(pat[3]) /\ ~byColumn
                           THEN object :> Const(rule.constant) ELSE NoVars)
        passed == [v \in UsedVariables(node) |-> Var(v)]
        bindings == constants @@ passed
    IN  IF ~byColumn /\ ~IsVar(pat[3]) /\ rule.constant # pat[3].value THEN <<>>
        ELSE IF constants = NoVars THEN <<node>>
        ELSE <<Construction(SetToSeq(DOMAIN bindings), bindings, node)>>

UnionOfBranches(branches) ==
    CASE Len(branches) = 0 -> Nothing
      [] Len(branches) = 1 -> branches[1]
      [] OTHER -> Union(branches)
Branches(pat, cs) == FlattenSeq([i \in DOMAIN cs |-> Branch(pat, cs[i][1], cs[i][2])])
Expanded(pat) == UnionOfBranches(Branches(pat, Candidates(pat)))

\* The plans of a basic graph pattern: the groups come out of a HashMap, in any
\* order; the paths come after them.
HasPath(pat) == IsPath(pat[2])
NoPath(pat) == ~IsPath(pat[2])
PathNodes(paths) == [i \in DOMAIN paths |-> Path(paths[i][1], paths[i][2], paths[i][3])]
GroupNodes(groups, order) ==
    [i \in DOMAIN order |-> GroupNode(order[i][1], groups[order[i]])]
PlansOfGroups(placed, paths) ==
    IF ~placed.ok THEN {Nothing}
    ELSE {LeftDeep(GroupNodes(placed.groups, order) \o PathNodes(paths)) :
             order \in SetToSeqs(DOMAIN placed.groups)}
GroupedPlans(pats) == PlansOfGroups(GroupsOf(SelectSeq(pats, NoPath)), SelectSeq(pats, HasPath))

PatternPlans(pat) == IF RequiresExpansion(pat) THEN {Expanded(pat)}
                                                ELSE GroupedPlans(<<pat>>)

PlansOf(pats) ==
    CASE pats = <<>> -> {ExtensionalData(SelectOne, NoVars)}
      [] \E i \in DOMAIN pats : RequiresExpansion(pats[i]) ->
            {LeftDeep(ns) : ns \in Picks([i \in DOMAIN pats |-> PatternPlans(pats[i])])}
      [] OTHER -> GroupedPlans(pats)
BgpPlans(pats) == PlansOf(WithPaths(pats))

-----------------------------------------------------------------------------
(* Filter expressions, from their tokens (parse_filter_expr); EXISTS, from *)
(* the tokens of its block (parse_exists_filter_expr)                      *)

\* expand_bind_aliases_in_filter: BIND by BIND, an alias becomes ( its expression ).
AliasExpanded(ts, binds) ==
    LET expand(acc, b) ==
          FlattenSeq([i \in DOMAIN acc |->
                        IF acc[i] = Var(b.alias) THEN <<W("(")>> \o b.expr \o <<W(")")>>
                                                 ELSE <<acc[i]>>])
    IN  FoldLeft(expand, ts, binds)

OutsideParens(ts, i) == ~\E j \in Positions(ts, "(") : j < i /\ i < Closing(ts, j)
RECURSIVE ParseFilterExpr(_)
ParseFilterExpr(ts) ==
    LET eqs == {i \in Positions(ts, "=") : OutsideParens(ts, i)}
    IN  CASE eqs # {} -> Eq(ParseFilterExpr(SubSeq(ts, 1, Min(eqs) - 1)),
                            ParseFilterExpr(SubSeq(ts, Min(eqs) + 1, Len(ts))))
          [] eqs = {} /\ ts[1] = W("(") -> ParseFilterExpr(Inside(ts, 1))
          [] eqs = {} /\ ts[1] = W("COUNT") -> Count(ts[3].name)
          \* token_to_term: what follows the question mark is the name, an operator
          \* that is no operator of parse_filter_expr included.
          [] OTHER -> IF Len(ts) = 2 /\ IsVar(ts[1]) /\ ts[2].kind = "word"
                      THEN Var(ts[1].name \o " " \o ts[2].text) ELSE ts[1]

\* substitute_bind_aliases: what the text expansion has left of the aliases.
AliasSubstituted(e, exprs) ==
    LET of(x) == IF IsVar(x) /\ x.name \in DOMAIN exprs THEN exprs[x.name] ELSE x
    IN  IF e.kind = "eq" THEN Eq(of(e.left), of(e.right)) ELSE of(e)

\* extract_exists_filters: FILTER ( ?v = ... ) within the block.
ExistsFilters(ts) ==
    LET order == SetToSortSeq({i \in Positions(ts, "FILTER") : IsWord(ts, i + 1, "(")}, <)
    IN  [k \in DOMAIN order |-> ParseFilterExpr(Inside(ts, order[k] + 1))]

\* A sequence of one filter node's expression, or of none.
ParsedExists(negated, block, core) ==
    LET pats == TriplePatterns(block)
        ends == UNION {{pat[i].name : i \in {j \in {1, 3} : IsVar(pat[j])}} : pat \in Range(pats)}
    IN  IF pats = <<>> THEN <<>>
        ELSE <<Exists(negated, pats, ends \cap UsedVariables(core), ExistsFilters(block))>>
ParsedFilter(ts, core) ==
    IF IsExists(ts) THEN ParsedExists(ts[1] = W("NOT EXISTS"), Tail(ts), core)
                    ELSE <<ParseFilterExpr(ts)>>
WithFilters(core, filters) ==
    FoldLeft(LAMBDA c, ts : FilteredBy(c, ParsedFilter(ts, c)), core, filters)

-----------------------------------------------------------------------------
(* The whole query (convert_with_mappings), q as the parser gives it.      *)

JoinNodeToCore(core, n) ==
    IF core.kind = "join" THEN WithChildren(core, Append(core.children, n))
                          ELSE Join(<<core, n>>, {}, "inner")

\* A query with UNION has no plan for the patterns outside of it; a filter on the
\* alias of a BIND has to wait for it.
Alternatives(bgps) == Picks([i \in DOMAIN bgps |-> BgpPlans(bgps[i])])
CorePlans(q) ==
    LET leftJoin(l, r) == Join(<<l, r>>, {}, "left")
        aliases == {b.alias : b \in Range(q.binds)}
        ready(ts) == Vars(ts) \cap aliases = {}
    IN  IF q.union # <<>> THEN {Union(branches) : branches \in Alternatives(q.union)}
        ELSE {WithFilters(FoldLeft(leftJoin, main, rights), SelectSeq(q.filters, ready)) :
                main \in BgpPlans(q.where), rights \in Alternatives(q.optional)}

\* promote_correlated_vars: the subquery passes on the variables it shares.
RECURSIVE Promoted(_, _)
Promoted(n, vs) ==
    LET more(seq) == seq \o SetToSeq(vs \ Range(seq))
    IN  CASE n.kind = "construction" ->
               Construction(more(n.vars), n.bindings @@ [v \in vs |-> Var(v)], Promoted(n.child, vs))
          [] n.kind = "aggregation" -> [n EXCEPT !.group = more(@)]
          [] n.kind \in {"filter", "limit"} -> WithChild(n, Promoted(n.child, vs))
          [] OTHER -> n
CollectQueryVars(q) ==
    UNION {PatternVars(pat) : pat \in Range(q.where)} \cup Range(q.select)
      \cup UNION {Vars(ts) : ts \in Range(q.filters)}
\* s: a pair of the parsed subquery and its plan.
JoinSubQuery(core, s) ==
    LET shared == CollectQueryVars(s[1]) \cap DOMAIN ColumnsOf(core)
        n == SubQuery(Promoted(s[2], shared), shared)
    IN  IF core = ExtensionalData(SelectOne, NoVars) THEN n ELSE JoinNodeToCore(core, n)

\* Each BIND is a projection of everything there is so far and the alias.
WithBind(core, b) ==
    LET bindings == (b.alias :> ParseFilterExpr(b.expr)) @@ Passed(SetToSeq(UsedVariables(core)))
    IN  Construction(SetToSeq(DOMAIN bindings), bindings, core)

BuildAggregationNode(q, child) ==
    LET counts == [a \in DOMAIN q.counts |-> Count(q.counts[a])]
    IN  Construction(q.select, Passed(q.select),
                     Aggregation(SetToSeq(GroupVars(q)), counts, child))

JoinedWith(core, q, inners) == \* inners: the plans of the subqueries
    FoldLeft(LAMBDA c, b : JoinNodeToCore(c, Values(b.vars, b.rows)),
             FoldLeft(JoinSubQuery, core, [i \in DOMAIN inners |-> <<q.subs[i], inners[i]>>]),
             q.values)
BoundExprs(q) == [a \in {b.alias : b \in Range(q.binds)} |->
                    ParseFilterExpr((CHOOSE b \in Range(q.binds) : b.alias = a).expr)]
FilteredOnAliases(core, q) ==
    LET substituted(es) == [i \in DOMAIN es |-> AliasSubstituted(es[i], BoundExprs(q))]
        filter(c, ts) == FilteredBy(c, substituted(ParsedFilter(AliasExpanded(ts, q.binds), c)))
    IN  FoldLeft(filter, core, q.filters)
Counted(core, q) == IF ~IsGrouped(q) THEN core
                    ELSE WithFilters(BuildAggregationNode(q, core), q.having)
Limited(core, q) == IF q.limit = NoLimit /\ q.order = <<>> THEN core
                    ELSE Limit(q.limit, q.order, core)
Finished(q, core, inners) ==
    Construction(q.select, Restrict(BoundExprs(q) @@ Passed(q.select), Range(q.select)),
        Limited(Counted(FilteredOnAliases(FoldLeft(WithBind, JoinedWith(core, q, inners), q.binds),
                                          q), q), q))

RECURSIVE ConvertWithMappings(_)
ConvertWithMappings(q) ==
    {Finished(q, core, inners) :
        core \in CorePlans(q),
        inners \in Picks([i \in DOMAIN q.subs |-> ConvertWithMappings(q.subs[i])])}
=============================================================================
