------------------------------- MODULE FlatSql -------------------------------
(***************************************************************************)
(* The SQL generator (sql/flat_generator.rs) and the answers of the        *)
(* statement it makes.  The generator walks the plan and collects, in one  *)
(* context, the select items, the FROM entries and the conditions of one   *)
(* flat SELECT; a UNION and a subquery become derived tables, EXISTS a     *)
(* condition.                                                              *)
(*                                                                         *)
(* A column reference is a record, an item an expression with its alias.   *)
(***************************************************************************)
EXTENDS PropertyPaths

CONSTANTS BaseAlias,  \* generate_base_alias: the first letters of a table's name
          SnakeCase,  \* to_snake_case, of the names of variables that it changes
          LowerCase   \* to_lowercase, likewise

Column(t, c) == [kind |-> "col", table |-> t, col |-> c]
Item(e, a) == [expr |-> e, alias |-> a]
FromTable(src, name, alias) ==
    [source |-> src, name |-> name, alias |-> alias, type |-> "cross", on |-> {}]

\* items, avail: select_items, all_available_items; vars: the variables of the
\* alias manager; failed: an error ended the walk.
EmptyContext == [items |-> <<>>, avail |-> <<>>, from |-> <<>>, where |-> {},
                 group |-> <<>>, having |-> {}, order |-> <<>>, limit |-> NoLimit,
                 vars |-> {}, failed |-> FALSE]

ToSnakeCase(v) == IF v \in DOMAIN SnakeCase THEN SnakeCase[v] ELSE v
ToLowerCase(v) == IF v \in DOMAIN LowerCase THEN LowerCase[v] ELSE v
RawAlias(v) == "col_" \o v
ColAlias(v) == RawAlias(ToSnakeCase(v))
VarAlias(ctx, v) == IF v \in ctx.vars THEN ColAlias(v) ELSE v
Named(items, names) == SelectSeq(items, LAMBDA i : i.alias \in names)

\* A wrong version: does not look whether the alias is taken.
AllocateBaseAlias(ctx, t) == BaseAlias[t]

\* allocate_table_alias: the base, or the base with the first number that is free
\* (one that is allotted and then not used, for an empty VALUES, is forgotten here).
AllocateTableAlias(ctx, t) ==
    LET used == {ctx.from[i].name : i \in DOMAIN ctx.from}
        numbered(k) == IF k = 0 THEN BaseAlias[t] ELSE BaseAlias[t] \o "_" \o ToString(k)
    IN  numbered(Min({k \in 0..Len(ctx.from) : numbered(k) \notin used}))

-----------------------------------------------------------------------------
(* Expressions                                                             *)

\* A variable is looked up in the select items, in all available items, and
\* taken for a column of the first table if it is in neither.
TranslateVar(ctx, v) ==
    LET hits == Named(ctx.items \o ctx.avail, {VarAlias(ctx, v), v})
    IN  IF hits # <<>> THEN hits[1].expr
                       ELSE Column(ctx.from[1].alias, VarAlias(ctx, v))
\* What the passes call t0.c is no alias; no available item is what it falls back to.
Unresolved == Column("", "")

\* generate_exists_subquery: one table for each pattern, by the first rule of its
\* predicate, with its columns compared to each other, to constants, to the columns of
\* the query around it and as its filters say; nothing at all if a table or a column of
\* the query around it cannot be found, which is looked up under a lower-case name.
NoRows == [kind |-> "exists", negated |-> FALSE, from |-> <<>>,
           where |-> {Eq(Const("0"), Const("1"))}]
ExistsTables(pats) ==
    [i \in DOMAIN pats |->
       LET rule == Rules(pats[i][2].value)[1]
       IN  [name |-> "ex" \o ToString(i), table |-> rule.table,
            terms |-> (IF rule.object = NoColumn THEN NoVars ELSE pats[i][3] :> rule.object)
                        @@ (pats[i][1] :> rule.subject)]]
\* Triples of the number of a table, a term and the column of the table it is in.
ExistsCells(ts) ==
    UNION {{<<i, x, Column(ts[i].name, ts[i].terms[x])>> : x \in DOMAIN ts[i].terms} :
             i \in DOMAIN ts}
\* outer: the columns of the query around it, pairs of a variable and its column.
\* A filter on a variable that no pattern of the block has is left out.
ExistsConditions(cells, outer, filters) ==
    LET firsts == {c \in cells : IsVar(c[2]) /\ \A d \in cells : d[2] = c[2] => c[1] <= d[1]}
        right(f) == IF IsVar(f.right) THEN {c[3] : c \in {x \in firsts : x[2] = f.right}}
                                      ELSE {f.right}
        shared == {p \in cells \X cells : p[1][2] = p[2][2] /\ p[1][1] < p[2][1]}
        linked == {p \in cells \X outer : p[1][2] = Var(p[2][1])}
        filtered(f) == {c \in firsts : c[2] = f.left} \X right(f)
    IN  {Eq(p[1][3], p[2][3]) : p \in shared}
          \cup {Eq(c[3], c[2]) : c \in {x \in cells : ~IsVar(x[2])}}
          \cup {Eq(p[1][3], p[2][2]) : p \in linked}
          \cup {Eq(p[1][3], p[2]) : p \in UNION {filtered(f) : f \in Range(filters)}}
GenerateExists(ctx, pats, correlated, filters) ==
    LET usable == \A i \in DOMAIN pats :
                      pats[i][2].kind = "const" /\ Rules(pats[i][2].value) # <<>>
        ts == ExistsTables(pats)
        hits(v) == Named(ctx.avail, {RawAlias(ToLowerCase(v)), v}) \* find_column_for_var
        inside == UNION {DOMAIN t.terms : t \in Range(ts)}
    IN  IF ~usable \/ \E v \in correlated : hits(v) = <<>> \/ Var(v) \notin inside THEN NoRows
        ELSE [NoRows EXCEPT
                !.from = ts,
                !.where = ExistsConditions(ExistsCells(ts), {<<v, hits(v)[1].expr>> : v \in correlated},
                                           filters)]

RECURSIVE Translate(_, _)
Translate(ctx, e) ==
    CASE e.kind = "var" -> TranslateVar(ctx, e.name)
      [] e.kind = "eq" -> Eq(Translate(ctx, e.left), Translate(ctx, e.right))
      [] e.kind = "count" -> [kind |-> "agg", of |-> TranslateVar(ctx, e.name)]
      [] e.kind = "exists" ->
            [GenerateExists(ctx, e.patterns, e.correlated, e.filters)
               EXCEPT !.negated = e.negated]
      [] e.kind = "child" -> Unresolved
      [] OTHER -> e

\* Of EXISTS, those that are not of its own tables.
RECURSIVE ColumnsIn(_)
ColumnsIn(e) == CASE e.kind = "col" -> {e}
                  [] e.kind = "eq" -> ColumnsIn(e.left) \cup ColumnsIn(e.right)
                  [] e.kind = "agg" -> ColumnsIn(e.of)
                  [] e.kind = "exists" ->
                        {c \in UNION {ColumnsIn(w) : w \in e.where} :
                           \A t \in Range(e.from) : c.table # t.name}
                  [] OTHER -> {}
HasAggregate(e) == e.kind = "eq" /\ \E x \in {e.left, e.right} : x.kind = "count"

\* condition_references_known_columns; what follows the alias of a VALUES table,
\* "val(...)", does not look like a reference to it.
Known(ctx, conds) ==
    \A c \in UNION {ColumnsIn(e) : e \in conds} :
        \/ \E i \in DOMAIN ctx.avail : ctx.avail[i].expr = c
        \/ \E i \in DOMAIN ctx.from : c.table = ctx.from[i].alias
                                      /\ ctx.from[i].alias # ctx.from[i].name

-----------------------------------------------------------------------------
(* Joins                                                                   *)

\* prev.contains(condition): a condition is written a.x = b.y, so it is in the text of
\* another with the same left side and a column on the right whose name is longer.
WithinText(c, d) ==
    \/ c = d
    \/ /\ {c.kind, d.kind} = {"eq"} /\ c.left = d.left
       /\ {c.right.kind, d.right.kind} = {"col"} /\ c.right.table = d.right.table
       /\ IsPrefix(c.right.col, d.right.col)

\* add_join_condition: on the last table of the FROM clause, whatever the type was; a
\* condition that is found in the text of those before it is skipped.
AddJoinCondition(ctx, cond, type) ==
    LET m == Len(ctx.from)
        there == \E d \in ctx.from[m].on : WithinText(cond, d)
    IN  [ctx EXCEPT !.from[m].on = IF there THEN @ ELSE @ \cup {cond}, !.from[m].type = type]
\* An explicit condition is one text, all its conjuncts in parentheses.
AddExplicitCondition(ctx, conds, type) ==
    IF Cardinality(conds) = 1 THEN AddJoinCondition(ctx, CHOOSE c \in conds : TRUE, type)
    ELSE LET m == Len(ctx.from)
         IN  [ctx EXCEPT !.from[m].on = @ \cup conds, !.from[m].type = type]

\* A wrong version: relies on what is available, where VALUES and UNION are not.
InferFromAvailable(ctx, lists) ==
    LET first(a) == Named(ctx.avail, {a})[1].expr
        overall == {Eq(first(i.alias), i.expr) :
                      i \in {x \in Range(ctx.avail) : x.expr # first(x.alias)}}
    IN  [ctx EXCEPT !.where = @ \cup overall]

\* infer_conditions: children that name the same column alias must agree on it,
\* and so must all items that were available so far.
InferConditions(ctx, lists) ==
    LET differ(x, y) == x.alias = y.alias /\ x.expr # y.expr
        with(x, list) == [k \in DOMAIN SelectSeq(list, LAMBDA y : differ(x, y)) |->
                            Eq(x.expr, SelectSeq(list, LAMBDA y : differ(x, y))[k].expr)]
        pairs(i, j) == FlattenSeq([k \in DOMAIN lists[i] |-> with(lists[i][k], lists[j])])
        later(i) == FlattenSeq([k \in 1..(Len(lists) - i) |-> pairs(i, i + k)])
        between == FlattenSeq([i \in DOMAIN lists |-> later(i)])
        first(a) == Named(ctx.avail, {a})[1].expr
        overall == {Eq(first(i.alias), i.expr) :
                      i \in {x \in Range(ctx.avail) : x.expr # first(x.alias)}}
        add(acc, cond) == AddJoinCondition(acc, cond, "inner")
    IN  [FoldLeft(add, ctx, between) EXCEPT !.where = @ \cup (overall \ Range(between))]

HandleJoin(n, ctx, lists) ==
    LET conds == {Translate(ctx, e) : e \in n.cond}
    IN  IF conds # {} /\ Known(ctx, conds) THEN AddExplicitCondition(ctx, conds, n.type)
                                           ELSE InferConditions(ctx, lists)

-----------------------------------------------------------------------------
(* Leaves and projections                                                  *)

HandleExtensionalData(n, ctx) ==
    LET t == AllocateTableAlias(ctx, n.table)
        items == [i \in 1..Cardinality(DOMAIN n.cols) |->
                    LET v == SetToSeq(DOMAIN n.cols)[i]
                    IN  Item(Column(t, n.cols[v]), ColAlias(v))]
    IN  [ctx EXCEPT
           !.from = Append(@, FromTable([kind |-> "table", table |-> n.table], t, t)),
           !.vars = @ \cup DOMAIN n.cols,
           !.items = @ \o items,
           !.avail = @ \o items]

HandleValues(n, ctx) ==
    LET t == AllocateTableAlias(ctx, "vals")
        src == [kind |-> "values", vars |-> n.vars, rows |-> n.rows]
        items == [i \in DOMAIN n.vars |-> Item(Column(t, ColAlias(n.vars[i])),
                                               ColAlias(n.vars[i]))]
        ctx1 == [ctx EXCEPT !.vars = @ \cup Range(n.vars)]
    IN  IF n.rows = <<>>
        THEN LET e == AllocateTableAlias(ctx, "vals_empty")
                 one == FromTable([kind |-> "table", table |-> SelectOne], e, e)
             IN  [ctx1 EXCEPT
                    !.where = @ \cup {Eq(Const("0"), Const("1"))},
                    !.from = Append(@, IF @ = <<>> THEN one
                                       ELSE [one EXCEPT !.type = "inner",
                                                        !.on = {Eq(Const("0"), Const("1"))}])]
        ELSE [ctx1 EXCEPT !.from = Append(@, FromTable(src, t, t \o "(...)")),
                          !.items = @ \o items]

\* One select item for each projected variable: from the items of the child, by
\* its binding, or from all available items; none if it is nowhere.
Projected(n, ctx, child, v) ==
    LET names(x) == {x, ColAlias(x), RawAlias(x)}
        own(x) == Named(child, names(x))
        b == IF v \in DOMAIN n.bindings THEN n.bindings[v] ELSE Var(v)
        found == own(v)
                   \o (IF b.kind = "var" THEN own(b.name) ELSE <<Item(b, v)>>)
                   \o Named(ctx.avail \o child, names(v))
    IN  IF found = <<>> THEN <<>> ELSE <<Item(found[1].expr, v)>>

HandleConstruction(n, before, ctx) ==
    LET child == SubSeq(ctx.items, Len(before.items) + 1, Len(ctx.items))
        new == FlattenSeq([i \in DOMAIN n.vars |-> Projected(n, ctx, child, n.vars[i])])
        bound(v) == v \in DOMAIN n.bindings /\ n.bindings[v].kind = "const"
                      /\ Named(child, {v, ColAlias(v), RawAlias(v)}) = <<>>
        constants == SelectSeq(n.vars, bound)
        fresh(v) == Named(ctx.avail \o child, {ColAlias(v)}) = <<>>
        named == SelectSeq(constants, fresh)
        extra == [i \in DOMAIN named |-> Item(n.bindings[named[i]], ColAlias(named[i]))]
    IN  [ctx EXCEPT !.items = before.items \o new,
                    !.avail = @ \o child \o extra \o new,
                    !.vars = @ \cup Range(constants)]

HandleAggregation(n, ctx) ==
    LET key(v) == Named(ctx.items, {v}) \o Named(ctx.items, {RawAlias(v)})
                    \o Named(ctx.items, {VarAlias(ctx, v)})
                    \o Named(ctx.avail, {v}) \o Named(ctx.avail, {RawAlias(v)})
                    \o <<Item(Column("", v), v)>>
        keys == [i \in DOMAIN n.group |-> key(n.group[i])[1]]
        names == SetToSeq(DOMAIN n.aggregates)
        counts == [i \in DOMAIN names |->
                     Item(Translate(ctx, n.aggregates[names[i]]), names[i])]
    IN  [ctx EXCEPT !.items = keys \o counts,
                    !.group = @ \o [i \in DOMAIN keys |-> keys[i].expr]]

\* handle_filter: a condition on an aggregate is for HAVING.
HandleFilter(n, ctx) ==
    LET c == Translate(ctx, n.expr)
    IN  IF HasAggregate(n.expr) THEN [ctx EXCEPT !.having = @ \cup {c}]
                                ELSE [ctx EXCEPT !.where = @ \cup {c}]

\* find_column_expression; if v is nowhere, its name.
FindColumnExpression(ctx, v) ==
    (Named(ctx.items, {ColAlias(v), v, RawAlias(v)}) \o Named(ctx.avail, {VarAlias(ctx, v), ColAlias(v)})
       \o <<Item(Column("", v), v)>>)[1].expr
\* A wrong version: the items of SELECT in their order, whatever the variables are.
HandleLimitByPosition(n, ctx) ==
    [ctx EXCEPT !.limit = n.limit,
                !.order = @ \o [i \in DOMAIN n.order |->
                                  [expr |-> ctx.items[i].expr, desc |-> n.order[i].desc]]]
HandleLimit(n, ctx) ==
    [ctx EXCEPT !.limit = n.limit,
                !.order = @ \o [i \in DOMAIN n.order |->
                                  [expr |-> FindColumnExpression(ctx, n.order[i].var),
                                   desc |-> n.order[i].desc]]]

-----------------------------------------------------------------------------
(* The walk                                                                *)

\* The columns of a derived table: every variable of every branch; the select
\* items: the variables of the first branch.
UnionAliases(n) == {ColAlias(v) : v \in UsedVariables(n)}
UnionSource(n, branches) ==
    LET part(b) == [sql |-> b,
                    cols |-> [a \in UnionAliases(n) |->
                                LET is(i) == a \in {i.alias, ColAlias(i.alias)}
                                    hits == SelectSeq(b.items, is)
                                IN  IF hits = <<>> THEN Null ELSE hits[1].alias]]
    IN  [kind |-> "union", parts |-> [i \in DOMAIN branches |-> part(branches[i])]]
HandleUnion(n, ctx, branches) ==
    LET t == AllocateTableAlias(ctx, "union")
        vars == SetToSeq(UsedVariables(n.children[1]))
        items == [i \in DOMAIN vars |-> Item(Column(t, ColAlias(vars[i])), ColAlias(vars[i]))]
    IN  IF branches = <<>> \/ \E i \in DOMAIN branches : branches[i].failed
        THEN [ctx EXCEPT !.failed = TRUE]
        ELSE [ctx EXCEPT !.from = Append(@, FromTable(UnionSource(n, branches), t, t)),
                         !.vars = @ \cup Range(vars),
                         !.items = @ \o items]

CollectOutputVars(n) == Range(n.vars) \* of a plan that is a projection
\* inner: the statement of the subquery; cols: the column of it that each of the
\* derived table's columns is.
HandleSubQuery(n, ctx, inner) ==
    LET t == AllocateTableAlias(ctx, "sq")
        vs == CollectOutputVars(n.inner)
        src == [kind |-> "subquery", sql |-> inner,
                cols |-> [c \in {ColAlias(v) : v \in vs} |-> CHOOSE v \in vs : ColAlias(v) = c]]
        outer(v) == Named(ctx.avail, {ColAlias(v), v})
        conds == {Eq(outer(v)[1].expr, Column(t, ColAlias(v))) :
                    v \in {x \in n.correlated : outer(x) # <<>>}}
        add(items, i) == IF Named(items, {i.alias}) = <<>> THEN Append(items, i) ELSE items
        news == FlattenSeq([i \in 1..Cardinality(vs) |->
                   LET v == SetToSeq(vs)[i] c == Column(t, ColAlias(v))
                   IN  <<Item(c, ColAlias(v)), Item(c, v)>>])
    IN  IF inner.failed THEN [ctx EXCEPT !.failed = TRUE]
        ELSE [ctx EXCEPT
                !.from = Append(@, IF @ = <<>> THEN FromTable(src, t, t)
                                   ELSE [FromTable(src, t, t) EXCEPT !.type = "inner", !.on = conds]),
                !.vars = @ \cup vs \cup n.correlated,
                !.items = FoldLeft(add, @, news),
                !.avail = FoldLeft(add, @, news)]

\* What no database has: the name of the recursive statement that is made for a path of
\* any length, but never becomes part of the SQL; the table rdf_triples.
Missing == [kind |-> "missing"]

\* generate_recursive_path_cte; step: the statement of one step, made for its errors only.
HandleRecursivePath(n, ctx, step) ==
    LET t == "recursive_path_" \o ToString(Len(ctx.from) + 1)
        name(x, default) == IF IsVar(x) THEN x.name ELSE default
        subject == name(n.subject, "path_start")
        object == name(n.object, "path_end")
        items == <<Item(Column(t, "start_node"), ColAlias(subject)),
                   Item(Column(t, "end_node"), ColAlias(object))>>
    IN  IF step.failed THEN [ctx EXCEPT !.failed = TRUE]
        ELSE [ctx EXCEPT !.from = Append(@, FromTable(Missing, t, t)),
                         !.vars = @ \cup {subject, object},
                         !.items = @ \o items,
                         !.avail = @ \o items]
\* A path that was not unfolded: over a table rdf_triples.
HandlePath(n, ctx) ==
    LET t == AllocateTableAlias(ctx, "path_result")
        add(items, i) == IF Named(items, {i.alias}) = <<>> THEN Append(items, i) ELSE items
        ends == (IF IsVar(n.subject) THEN <<Item(Column(t, "start_node"), n.subject.name)>> ELSE <<>>)
                  \o (IF IsVar(n.object) THEN <<Item(Column(t, "end_node"), n.object.name)>> ELSE <<>>)
    IN  [ctx EXCEPT !.from = Append(@, FromTable(Missing, t, t)),
                    !.items = FoldLeft(add, @, ends),
                    !.avail = FoldLeft(add, @, ends)]

RECURSIVE Traverse(_, _), Generate(_)
Traverse(n, ctx) ==
    CASE ctx.failed -> ctx
      [] n.kind = "scan" -> HandleExtensionalData(n, ctx)
      [] n.kind = "values" -> HandleValues(n, ctx)
      [] n.kind = "union" ->
            HandleUnion(n, ctx, [i \in DOMAIN n.children |-> Generate(n.children[i])])
      [] n.kind = "join" ->
            IF Len(n.children) < 2 THEN [ctx EXCEPT !.failed = TRUE]
            ELSE LET visit(acc, c) ==
                        LET next == Traverse(c, acc.ctx)
                        IN  [ctx |-> next,
                             lists |-> Append(acc.lists,
                                SubSeq(next.items, Len(acc.ctx.items) + 1, Len(next.items)))]
                     all == FoldLeft(visit, [ctx |-> ctx, lists |-> <<>>], n.children)
                 IN  IF all.ctx.failed THEN all.ctx
                                       ELSE HandleJoin(n, all.ctx, all.lists)
      [] n.kind = "filter" ->
            LET c == Traverse(n.child, ctx)
            IN  IF c.failed THEN c ELSE HandleFilter(n, c)
      [] n.kind = "construction" ->
            LET c == Traverse(n.child, ctx)
            IN  IF c.failed THEN c ELSE HandleConstruction(n, ctx, c)
      [] n.kind = "aggregation" ->
            LET c == Traverse(n.child, ctx)
            IN  IF c.failed THEN c ELSE HandleAggregation(n, c)
      [] n.kind = "limit" ->
            LET c == Traverse(n.child, ctx)
            IN  IF c.failed THEN c ELSE HandleLimit(n, c)
      [] n.kind = "subquery" -> HandleSubQuery(n, ctx, Generate(n.inner))
      [] n.kind = "recursive" -> HandleRecursivePath(n, ctx, Generate(n.base))
      [] n.kind = "path" -> HandlePath(n, ctx)

\* A plan that is itself a union has no SELECT items of its own, so whoever asks this
\* generator for the names of its columns learns of none.
Generate(plan) ==
    LET ctx == Traverse(plan, EmptyContext)
    IN  IF plan.kind = "union" THEN [ctx EXCEPT !.items = <<>>] ELSE ctx

-----------------------------------------------------------------------------
(* The statement is one PostgreSQL accepts: names of tables differ, and    *)
(* every reference is to a column of a table in its scope.                 *)

ColumnsOfSource(src, columns) ==
    CASE src.kind = "table" -> IF src.table = SelectOne THEN {} ELSE columns[src.table]
      [] src.kind = "values" -> {ColAlias(v) : v \in Range(src.vars)}
      [] src.kind = "union" -> DOMAIN src.parts[1].cols
      [] src.kind = "subquery" -> DOMAIN src.cols
      [] src.kind = "missing" -> {}

\* The references of es are in the scope of the first k tables.
InScope(es, sql, k, columns) ==
    \A c \in UNION {ColumnsIn(e) : e \in es} :
        \E i \in 1..k : /\ sql.from[i].name = c.table
                        /\ c.col \in ColumnsOfSource(sql.from[i].source, columns)

\* The statements that a source is made of.
Parts(src) == CASE src.kind = "union" -> {p.sql : p \in Range(src.parts)}
                [] src.kind = "subquery" -> {src.sql}
                [] OTHER -> {}
Aliases(sql) == {i.alias : i \in Range(sql.items)}

RECURSIVE WellFormed(_, _)
WellFormed(sql, columns) ==
    LET n == Len(sql.from)
        \* ORDER BY may name an item.
        sorted == {o.expr : o \in {x \in Range(sql.order) :
                                      x.expr \notin {Column("", a) : a \in Aliases(sql)}}}
    IN  /\ \A i, j \in 1..n : sql.from[i].name = sql.from[j].name => i = j
        /\ \A i \in 1..n : InScope(sql.from[i].on, sql, i, columns)
        /\ InScope(sql.where, sql, n, columns)
        /\ InScope({i.expr : i \in Range(sql.items)}, sql, n, columns)
        /\ InScope(Range(sql.group) \cup sql.having \cup sorted, sql, n, columns)
        /\ \A e \in sql.where : e.kind # "exists" => \A x \in {e.left, e.right} : x.kind # "agg"
        /\ \A i \in 1..n :
              /\ \A p \in Parts(sql.from[i].source) : WellFormed(p, columns)
              /\ sql.from[i].source.kind = "subquery" =>
                    Range(sql.from[i].source.cols) \subseteq Aliases(sql.from[i].source.sql)
              /\ sql.from[i].source # Missing

-----------------------------------------------------------------------------
(* Its answers                                                             *)

\* env: the row of each table in scope.
Value(e, env) == IF e.kind = "col" THEN env[e.table][e.col] ELSE e.value
RECURSIVE True(_, _, _)
True(e, env, db) ==
    IF e.kind = "exists"
    THEN e.negated # \E rows \in Picks([i \in DOMAIN e.from |-> db[e.from[i].table]]) :
                        LET own == [x \in {t.name : t \in Range(e.from)} |->
                                      rows[CHOOSE i \in DOMAIN e.from : e.from[i].name = x]]
                        IN  \A w \in e.where : True(w, own @@ env, db)
    ELSE LET l == Value(e.left, env) r == Value(e.right, env)
         IN  l # Null /\ r # Null /\ l = r

RECURSIVE RowsOf(_, _), SqlAnswers(_, _)
RowsOf(src, db) == \* pairs of an origin and a row
    LET cell(x, a) == IF a \in DOMAIN x THEN x[a] ELSE Null
        derived(sql, cols) == {<<x[1], [a \in DOMAIN cols |-> cell(x[2], cols[a])]>> :
                                 x \in SqlAnswers(sql, db)}
    IN  CASE src.kind = "table" -> {<<r, r>> : r \in TableRows(src.table, db)}
          [] src.kind = "values" ->
                {<<i, [c \in {ColAlias(v) : v \in Range(src.vars)} |->
                         src.rows[i][CHOOSE v \in Range(src.vars) : ColAlias(v) = c]]>> :
                    i \in DOMAIN src.rows}
          [] src.kind = "union" ->
                UNION {{<<<<i, x[1]>>, x[2]>> : x \in derived(src.parts[i].sql, src.parts[i].cols)} :
                         i \in DOMAIN src.parts}
          [] src.kind = "subquery" -> derived(src.sql, src.cols)
          [] src.kind = "missing" -> {} \* the statement is refused

\* One pair of the origins and the environment for each row of the FROM clause.
FromRows(sql, db) ==
    LET extend(acc, t) ==
          LET rows == RowsOf(t.source, db)
              with(e, r) == <<Append(e[1], r[1]), (t.name :> r[2]) @@ e[2]>>
              ok(x) == \A c \in t.on : True(c, x[2], db)
              matched == {x \in {with(e, r) : <<e, r>> \in acc \X rows} : ok(x)}
              nulls == [c \in UNION {DOMAIN r[2] : r \in rows} |-> Null]
              alone == {e \in acc : \A r \in rows : ~ok(with(e, r))}
          IN  IF t.type # "left" THEN matched
              ELSE matched \cup {with(e, <<"none", nulls>>) : e \in alone}
    IN  FoldLeft(extend, {<<<<>>, NoVars>>}, sql.from)

\* Before LIMIT, in any order.
SqlAnswers(sql, db) ==
    LET rows == {x \in FromRows(sql, db) : \A c \in sql.where : True(c, x[2], db)}
        first(a) == Named(sql.items, {a})[1].expr
        counted == sql.having # {} \/ \E i \in Range(sql.items) : i.expr.kind = "agg"
        Row(f) == [a \in {b \in Aliases(sql) : f[b] # Null} |-> f[a]]
        Key(x) == [i \in DOMAIN sql.group |-> Value(sql.group[i], x[2])]
        members(k) == {x \in rows : Key(x) = k}
        cell(e, k) == CASE e.kind = "agg" ->
                              ToString(Cardinality({x \in members(k) : Value(e.of, x[2]) # Null}))
                        [] e.kind = "const" -> e.value
                        [] e.kind = "col" -> Value(e, (CHOOSE x \in members(k) : TRUE)[2])
        groups == IF sql.group = <<>> THEN {<<>>} ELSE {Key(x) : x \in rows}
        kept == {k \in groups : \A c \in sql.having : cell(c.left, k) = cell(c.right, k)}
    IN  IF counted \/ sql.group # <<>>
        THEN {<<k, Row([a \in Aliases(sql) |-> cell(first(a), k)])>> : k \in kept}
        ELSE {<<x[1], Row([a \in Aliases(sql) |-> Value(first(a), x[2])])>> : x \in rows}
=============================================================================
