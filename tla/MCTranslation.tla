---------------------------- MODULE MCTranslation ----------------------------
(* Employees and departments, the tables of the project's own test cases.   *)
EXTENDS Translation

E == Var("e")
F == Var("f")
D == Var("d")
N == Var("n")
M == Var("m")
I == Var("i")

MCRule(t, s, o) == [table |-> t, subject |-> s, object |-> o, constant |-> NoConstant]
MCClass(t, s, c) == [table |-> t, subject |-> s, object |-> NoColumn, constant |-> c]
MCMappings ==
    "first_name" :> <<MCRule("employees", "employee_id", "first_name")>>
    \* The object is the subject's own column.
    @@ "number" :> <<MCRule("departments", "department_id", "department_id")>>
    @@ "works_in" :> <<MCRule("employees", "employee_id", "department_id")>>
    @@ "department_name" :> <<MCRule("departments", "department_id", "department_name")>>
    @@ "parent" :> <<MCRule("departments", "department_id", "parent")>>
    @@ "part_of" :> <<MCRule("departments", "department_id", "parent_id")>>
    @@ RdfType :> <<MCClass("employees", "employee_id", "Employee"),
                    MCClass("departments", "department_id", "Department")>>
MCColumns == "employees" :> {"employee_id", "first_name", "department_id"}
             @@ "departments" :> {"department_id", "department_name", "parent_id", "parent"}
MCBaseAlias == "employees" :> "emp" @@ "departments" :> "dep" @@ "union" :> "uni"
               @@ "vals" :> "val" @@ "vals_empty" :> "val" @@ "sq" :> "sq" @@ "path_result" :> "pat" @@ SelectOne :> "t0"

MCPrimaryKeys == "employees" :> {"employee_id"} @@ "departments" :> {"department_id"}
MCNotNull == MCColumns
\* The metadata that the server loads knows no keys and no constraints.
MCUnknown == "employees" :> {} @@ "departments" :> {}

MCForeignKeys ==
    "employees" :> {[columns |-> <<"department_id">>, target |-> "departments",
                     targets |-> <<"department_id">>]}
    @@ "departments" :> {}

Employee(i, n, d) == [employee_id |-> i, first_name |-> n, department_id |-> d]
\* parent: the name of the department above
Department(i, n, p, above) ==
    [department_id |-> i, department_name |-> n, parent_id |-> p, parent |-> above]
MCDatabases ==
    {[employees |-> {Employee("e1", "Ann", "d1"), Employee("e2", "Ann", "d1"),
                     Employee("e3", "Sales", "d2")},
      departments |-> {Department("d1", "Sales", "d2", "Sales"),
                       Department("d2", "Sales", "d3", "Lab"), Department("d3", "Lab", "hq", "hq")}],
     [employees |-> {Employee("d1", "Bob", "d1"), Employee("e2", "d1", "e2")},
      departments |-> {Department("d1", "d1", "e2", "Bob"), Department("e2", "Bob", "hq", "hq")}],
     [employees |-> {}, departments |-> {Department("d1", "Sales", "hq", "hq")}]}

\* Triple patterns
Name(e, n) == <<e, Const("first_name"), n>>
WorksIn(e, d) == <<e, Const("works_in"), d>>
Called(d, m) == <<d, Const("department_name"), m>>
Number(d, i) == <<d, Const("number"), i>>
IsA(e, c) == <<e, Const(RdfType), c>>
Anything == <<E, Var("p"), Var("o")>>
PartOf == Const("part_of")
Lives == Const("works_in")
Label == Const("department_name")

Ask(vs, pats) ==
    [form |-> "SELECT", select |-> vs, where |-> pats, optional |-> <<>>, union |-> <<>>,
     filters |-> <<>>, values |-> <<>>, binds |-> <<>>, group |-> <<>>, counts |-> NoVars,
     having |-> <<>>, order |-> <<>>, limit |-> NoLimit, subs |-> <<>>]
WithFilter(q, x, c) == [q EXCEPT !.filters = <<Eq(Var(x), Const(c))>>]
WithExists(q, negated, pats, filters) ==
    LET vs == UNION {PatternVars(pat) : pat \in Range(pats)}
    IN  [q EXCEPT !.filters = <<Exists(negated, pats, vs, filters)>>]
WithValues(q, x, cs) ==
    [q EXCEPT !.values = <<[vars |-> <<x>>, rows |-> [i \in DOMAIN cs |-> x :> cs[i]]]>>]
Binding(q, e, a) == [q EXCEPT !.binds = <<[alias |-> a, expr |-> e]>>]
WithCount(q, a, x, g) == [q EXCEPT !.counts = a :> x, !.group = g]
WithHaving(q, e) == [q EXCEPT !.having = <<e>>]
WithOrder(q, vs, desc, n) ==
    [q EXCEPT !.order = [i \in DOMAIN vs |-> [var |-> vs[i], desc |-> desc[i]]], !.limit = n]
WithSub(q, s) == [q EXCEPT !.subs = <<s>>]

OneTable == Ask(<<"e", "n", "d">>, <<Name(E, N), WorksIn(E, D)>>)
TwoTables == Ask(<<"n", "m">>, <<WorksIn(E, D), Name(E, N), Called(D, M)>>)
Colleagues == Ask(<<"e", "f">>, <<WorksIn(E, D), WorksIn(F, D)>>)
SameName == Ask(<<"e", "f", "d">>, <<Name(E, N), Name(F, N), WorksIn(F, D), Called(D, N)>>)
Typed == Ask(<<"e", "d">>, <<IsA(E, Const("Employee")), WorksIn(E, D), IsA(D, Const("Department"))>>)
Union2(a, b) == [Ask(<<"e", "n">>, <<>>) EXCEPT !.union = <<a, b>>]
EitherName == Union2(<<Name(E, N)>>, <<Called(E, N)>>)
EitherJoin == Union2(<<WorksIn(E, D), Called(D, N)>>, <<Name(E, N)>>)
\* The variables of TwoTables in camel case
EmpName == Var("empName")
DeptName == Var("deptName")
DeptId == Var("deptId")
MCSnakeCase == "empName" :> "emp_name" @@ "deptName" :> "dept_name" @@ "deptId" :> "dept_id"
MCLowerCase == "empName" :> "empname" @@ "deptName" :> "deptname" @@ "deptId" :> "deptid"
CamelCase == Ask(<<"empName", "deptName">>,
                 <<WorksIn(E, DeptId), Name(E, EmpName), Called(DeptId, DeptName)>>)
PerDeptId == WithCount(Ask(<<"deptId", "empName">>, <<WorksIn(E, DeptId)>>), "empName", "e",
                       <<"deptId">>)
\* ?i is ?d, which is known before or after the table of ?i's other pattern
Numbered == Ask(<<"m", "i", "f">>, <<Called(D, M), Number(D, I), <<I, PartOf, F>>>>)
NumberedLast == Ask(<<"n", "i", "m">>, <<Name(I, N), Number(D, I), Called(D, M)>>)
Everything == Ask(<<"e", "p", "o">>, <<Anything>>)
Classes == Ask(<<"e", "n">>, <<IsA(E, N)>>)

Staff == Ask(<<"d", "m">>, <<Called(D, M)>>)
\* Paths
Above == <<D, PlusPath(PartOf), F>>
PathQueries ==
    {Ask(<<"d", "f">>, <<Above>>),
     Ask(<<"e", "f", "m">>, <<WorksIn(E, D), Above, Called(F, M)>>),
     Ask(<<"d", "f">>, <<<<D, StarPath(PartOf), F>>, Called(F, M)>>),
     Ask(<<"d", "e">>, <<<<D, InversePath(Lives), E>>>>),
     Ask(<<"n", "m">>, <<Name(E, N), <<E, SequencePath(<<Lives, Label>>), M>>>>),
     Ask(<<"e", "m">>, <<<<E, SequencePath(<<Lives, PlusPath(PartOf), Label>>), M>>>>),
     Ask(<<"e", "f">>, <<<<E, AlternativePath(<<Lives, PartOf>>), F>>>>),
     Ask(<<"e", "m">>, <<<<E, AlternativePath(<<Lives, PartOf>>), F>>, Called(F, M)>>)}

PerDepartment == WithCount(Ask(<<"d", "k">>, <<WorksIn(E, D)>>), "k", "e", <<"d">>)

-----------------------------------------------------------------------------
(* The text of a query.  Each pattern ends with a dot, or with a semicolon *)
(* where the next one has its subject; what is no triple pattern comes     *)
(* after those.                                                            *)

Ws(ts) == [i \in DOMAIN ts |-> W(ts[i])]
Braced(ts) == <<W("{")>> \o ts \o <<W("}")>>
Parens(ts) == <<W("(")>> \o ts \o <<W(")")>>
Flat(seq, Part(_)) == FlattenSeq([i \in DOMAIN seq |-> Part(seq[i])])

Signed(parts, sign) ==
    FlattenSeq([i \in DOMAIN parts |-> (IF i = 1 THEN <<>> ELSE <<W(sign)>>) \o parts[i]])
RECURSIVE PathText(_)
PathText(p) ==
    LET atom(x) == IF x.kind = "const" THEN <<x>> ELSE Parens(PathText(x))
        element(x) == IF x.kind \in {"sequence", "alternative"} THEN Parens(PathText(x))
                                                               ELSE PathText(x)
    IN  CASE p.kind = "const" -> <<p>>
          [] p.kind = "inverse" -> <<W("^")>> \o atom(p.of)
          [] p.kind = "sequence" ->
                Signed([i \in DOMAIN p.parts |-> element(p.parts[i])], "/")
          [] p.kind = "alternative" ->
                Signed([i \in DOMAIN p.parts |-> PathText(p.parts[i])], "|")
          [] p.kind = "star" -> atom(p.of) \o <<W("*")>>
          [] p.kind = "plus" -> atom(p.of) \o <<W("+")>>
TokenOf(t) == IF t = Const(RdfType) THEN W("a")
              ELSE IF IsPath(t) THEN PathToken(PathText(t)) ELSE t
PatternTokens(pats) ==
    FlattenSeq([i \in DOMAIN pats |->
        LET shared == i > 1 /\ pats[i - 1][1] = pats[i][1]
            next == i < Len(pats) /\ pats[i + 1][1] = pats[i][1]
        IN  (IF shared THEN <<>> ELSE <<pats[i][1]>>) \o <<TokenOf(pats[i][2]), pats[i][3]>>
              \o (IF next THEN <<W(";")>> ELSE <<W(".")>>)])
CountTokens(x) == <<W("COUNT")>> \o Parens(<<Var(x)>>)
ExprTokens(e) ==
    LET side(x) == IF x.kind = "count" THEN CountTokens(x.name) ELSE <<x>>
    IN  IF e.kind = "eq" THEN side(e.left) \o <<W("=")>> \o side(e.right) ELSE side(e)
EqTokens(e) == <<W("FILTER")>> \o Parens(ExprTokens(e))
FilterTokens(e) ==
    IF e.kind # "exists" THEN EqTokens(e)
    ELSE <<W("FILTER"), IF e.negated THEN W("NOT EXISTS") ELSE W("EXISTS")>>
           \o Braced(PatternTokens(e.patterns) \o Flat(e.filters, EqTokens))
ValuesTokens(b) ==
    <<W("VALUES"), Var(b.vars[1])>> \o Braced([i \in DOMAIN b.rows |-> Const(b.rows[i][b.vars[1]])])
BindTokens(b) == <<W("BIND")>> \o Parens(ExprTokens(b.expr) \o <<W("AS"), Var(b.alias)>>)
OptionalTokens(pats) == <<W("OPTIONAL")>> \o Braced(PatternTokens(pats))
OrderTokens(o) == IF o.desc THEN <<W("DESC")>> \o Parens(<<Var(o.var)>>) ELSE <<Var(o.var)>>

RECURSIVE TextOf(_)
TextOf(q) ==
    LET item(v) == IF v \notin DOMAIN q.counts THEN <<Var(v)>>
                   ELSE Parens(CountTokens(q.counts[v]) \o <<W("AS"), Var(v)>>)
        head == CASE q.form = "SELECT" -> <<W("SELECT")>> \o Flat(q.select, item)
                  [] q.form = "ASK" -> <<W("ASK")>>
                  [] q.form = "CONSTRUCT" ->
                        <<W("CONSTRUCT")>> \o Braced(<<Var(q.select[1]), Const("is"), Var(q.select[2]), W(".")>>)
        branch(pats) == Braced(PatternTokens(pats))
        unions == FlattenSeq([i \in DOMAIN q.union |->
                     (IF i = 1 THEN <<>> ELSE <<W("UNION")>>) \o branch(q.union[i])])
        sub(s) == Braced(TextOf(s))
        block == PatternTokens(q.where) \o unions \o Flat(q.optional, OptionalTokens)
                   \o Flat(q.subs, sub) \o Flat(q.values, ValuesTokens)
                   \o Flat(q.binds, BindTokens) \o Flat(q.filters, FilterTokens)
        having(e) == Parens(ExprTokens(e))
        clause(w, ts) == IF ts = <<>> THEN <<>> ELSE <<W(w)>> \o ts
    IN  head \o <<W("WHERE")>> \o Braced(block)
          \o clause("GROUP BY", [i \in DOMAIN q.group |-> Var(q.group[i])])
          \o clause("HAVING", Flat(q.having, having))
          \o clause("ORDER BY", Flat(q.order, OrderTokens))
          \o (IF q.limit = NoLimit THEN <<>> ELSE <<W("LIMIT"), Const(q.limit)>>)
Written(qs) == {[asked |-> q, text |-> TextOf(q)] : q \in qs}
\* With a declaration of a prefix in front.
Prefixed(qs) == {[q EXCEPT !.text = <<W("PREFIX"), Const("ex:")>> \o @] : q \in Written(qs)}

MCQueries == Prefixed({TwoTables, WithSub(Staff, PerDepartment),
                       [OneTable EXCEPT !.form = "ASK", !.select = <<>>]})
  \cup Written(PathQueries \cup
    {CamelCase, WithOrder(WithFilter(CamelCase, "deptName", "Sales"), <<"empName">>, <<TRUE>>, "2"),
     PerDeptId, Numbered, NumberedLast,
     Ask(<<"d", "f">>, <<<<D, Const("parent"), M>>, Called(F, M)>>),
     WithExists(Staff, FALSE, <<WorksIn(E, D), Name(E, N)>>, <<Eq(N, Const("Ann"))>>),
     OneTable, TwoTables, Colleagues, SameName, Typed, EitherName, EitherJoin, Everything,
     Classes,
     Ask(<<"e">>, <<Name(E, Const("Ann")), WorksIn(E, Const("d1"))>>),
     Ask(<<"e", "n">>, <<Name(E, N), WorksIn(E, Const("d1"))>>),
     WithFilter(TwoTables, "m", "Sales"), WithFilter(EitherName, "n", "Sales"),
     WithFilter(SameName, "d", "d1"),
     WithValues(OneTable, "d", <<"d1", "d2">>), WithValues(TwoTables, "m", <<"Sales">>),
     WithValues(Colleagues, "f", <<"e1", "d1">>), WithValues(OneTable, "n", <<>>),
     PerDepartment, WithHaving(PerDepartment, Eq(Count("e"), Const("2"))),
     WithOrder(PerDepartment, <<"k">>, <<TRUE>>, "1"),
     WithCount(Ask(<<"m", "k">>, <<WorksIn(E, D), Called(D, M)>>), "k", "e", <<>>),
     WithCount(Ask(<<"k">>, <<WorksIn(E, D), Called(D, M)>>), "k", "e", <<>>),
     WithExists(Staff, TRUE, <<WorksIn(E, D)>>, <<>>),
     WithExists(TwoTables, FALSE, <<WorksIn(F, D), Name(F, M)>>, <<>>),
     WithOrder(TwoTables, <<"m", "d">>, <<FALSE, TRUE>>, "2"),
     Binding(WithFilter(Ask(<<"e", "x">>, <<Name(E, N), WorksIn(E, D)>>), "x", "Ann"), N, "x"),
     Binding(Ask(<<"n", "x">>, <<Name(E, N)>>), Const("person"), "x"),
     WithSub(Ask(<<"m", "k">>, <<Called(D, M)>>), PerDepartment),
     WithSub(Ask(<<"d", "k">>, <<>>), PerDepartment),
     [OneTable EXCEPT !.form = "ASK", !.select = <<>>],
     [Typed EXCEPT !.form = "CONSTRUCT"]})

\* Queries of the runs that show what goes wrong.
MCOptionalQueries ==
    Written({[Ask(<<"d", "m", "e">>, <<Called(D, M)>>) EXCEPT !.optional = <<<<WorksIn(E, D)>>>>]})
\* ?e ?m ?n ?f: works_in/department_name of the one, works_in/part_of of the other
MCPathQueries ==
    Written({Ask(<<"e", "m", "f", "n">>,
                 <<<<E, SequencePath(<<Lives, Label>>), M>>, <<F, SequencePath(<<Lives, PartOf>>), N>>>>)})
=============================================================================
