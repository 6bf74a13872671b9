----------------------------- MODULE SparqlParser -----------------------------
(***************************************************************************)
(* The parser (parser/sparql_parser_v2.rs).  It knows no grammar: each     *)
(* part of a query is searched for in the text on its own, by keyword,     *)
(* bracket or regular expression.                                          *)
(*                                                                         *)
(* A text is a sequence of tokens: variables, constants (IRIs, literals),  *)
(* paths, and words for everything else; "ORDER BY", "GROUP BY" and        *)
(* "NOT EXISTS" are one word.  So the model does not see keywords inside   *)
(* of IRIs and literals, letter case, or a missing blank.  A PREFIX        *)
(* declaration stays in the text, the word and the prefix; the names of a  *)
(* WHERE block that begin with it are IRIs in the tokens already.          *)
(***************************************************************************)
EXTENDS SparqlAlgebra

W(t) == [kind |-> "word", text |-> t]
\* A property path: no blank in it, so one token; ts are its names and signs.
PathToken(ts) == [kind |-> "path", text |-> ts]
IsWord(ts, i, t) == i \in DOMAIN ts /\ ts[i] = W(t)
Positions(ts, t) == {i \in DOMAIN ts : ts[i] = W(t)}
IsTerm(x) == x.kind \in {"var", "const"}
Vars(ts) == {x.name : x \in {y \in Range(ts) : IsVar(y)}}
IsSeparator(ts, i) == IsWord(ts, i, ".") \/ IsWord(ts, i, ";")

\* Where the bracket that opens at i is closed; 0 if it is not.
Closing(ts, i) ==
    LET close == IF ts[i] = W("{") THEN "}" ELSE ")"
        Count2(t, j) == Cardinality({k \in i..j : ts[k] = W(t)})
        ends == {j \in i..Len(ts) : Count2(ts[i].text, j) = Count2(close, j)}
    IN  IF ends = {} THEN 0 ELSE Min(ends)
Inside(ts, i) == SubSeq(ts, i + 1, Closing(ts, i) - 1)

\* The part of ts before the first of the words that stands outside of braces.
Depth(ts, i) == Cardinality({j \in 1..i : ts[j] = W("{")})
                  - Cardinality({j \in 1..i : ts[j] = W("}")})
TopLevel(ts, t) == {i \in Positions(ts, t) : Depth(ts, i) = 0}
Until(ts, words) ==
    LET ends == UNION {TopLevel(ts, t) : t \in words}
    IN  IF ends = {} THEN ts ELSE SubSeq(ts, 1, Min(ends) - 1)
\* What follows the first such word, up to the next one of ends.
Clause(ts, t, ends) ==
    IF TopLevel(ts, t) = {} THEN <<>>
    ELSE Until(SubSeq(ts, Min(TopLevel(ts, t)) + 1, Len(ts)), ends)

-----------------------------------------------------------------------------
(* Blocks that are cut out of the text: spans from a start to the brace    *)
(* that closes it                                                          *)

\* { SELECT ... }, not inside of another one
SubqueryStarts(ts) ==
    LET all == {i \in Positions(ts, "{") : IsWord(ts, i + 1, "SELECT") /\ Closing(ts, i) # 0}
    IN  {i \in all : \A j \in all : j < i => Closing(ts, j) < i}
\* FILTER [NOT] EXISTS { ... }
ExistsStarts(ts) ==
    {i \in Positions(ts, "FILTER") :
        /\ IsWord(ts, i + 1, "EXISTS") \/ IsWord(ts, i + 1, "NOT EXISTS")
        /\ IsWord(ts, i + 2, "{") /\ Closing(ts, i + 2) # 0}

Cut(ts, spans) ==
    LET kept == SelectSeq([i \in DOMAIN ts |-> i], LAMBDA i : i \notin spans)
    IN  [k \in DOMAIN kept |-> ts[kept[k]]]
StripSubqueries(ts) == Cut(ts, UNION {i..Closing(ts, i) : i \in SubqueryStarts(ts)})
StripExists(ts) == Cut(ts, UNION {i..Closing(ts, i + 2) : i \in ExistsStarts(ts)})

\* extract_where_block: the whole text if there is no WHERE.
WhereBlock(ts) ==
    LET opens == {i \in Positions(ts, "{") : \E w \in Positions(ts, "WHERE") : w < i}
    IN  IF opens = {} THEN ts ELSE Inside(ts, Min(opens))

-----------------------------------------------------------------------------
(* Triple patterns: the text is split at every dot and semicolon.  What    *)
(* begins with a variable is kept, two tokens are completed by the last    *)
(* subject, anything else is dropped; if nothing is left, the text itself  *)
(* is searched.                                                            *)

Segments(ts) ==
    LET cuts == <<0>> \o SelectSeq([i \in DOMAIN ts |-> i], LAMBDA i : IsSeparator(ts, i))
                  \o <<Len(ts) + 1>>
    IN  [k \in 1..(Len(cuts) - 1) |-> SubSeq(ts, cuts[k] + 1, cuts[k + 1] - 1)]

\* acc.subject: the last subject, a sequence of one or none.
StartsLikeTerm(x) == \/ IsTerm(x) \/ x = W("a")
                     \/ x.kind = "path" /\ IsTerm(x.text[1])
AppendSegment(acc, seg) ==
    IF Len(seg) >= 3 /\ IsVar(seg[1])
    THEN [subject |-> <<seg[1]>>, out |-> acc.out \o seg \o <<W(".")>>]
    ELSE IF Len(seg) = 2 /\ acc.subject # <<>> /\ StartsLikeTerm(seg[1])
    THEN [acc EXCEPT !.out = @ \o acc.subject \o seg \o <<W(".")>>]
    ELSE acc
ExpandShorthand(ts) ==
    LET out == FoldLeft(AppendSegment, [subject |-> <<>>, out |-> <<>>], Segments(ts)).out
    IN  IF out = <<>> THEN ts ELSE out

TripleAt(ts, i) == /\ IsVar(ts[i])
                   /\ i + 3 <= Len(ts) /\ IsTerm(ts[i + 2]) /\ IsSeparator(ts, i + 3)
TriplesAt(ts, at) ==
    [k \in DOMAIN at |-> <<ts[at[k]],
                           IF ts[at[k] + 1] = W("a") THEN Const(RdfType) ELSE ts[at[k] + 1],
                           ts[at[k] + 2]>>]
\* The type assertions come first.
PatternsOf(ts) ==
    LET isType(i) == TripleAt(ts, i) /\ ts[i + 1] = W("a")
        isOther(i) == TripleAt(ts, i) /\ ts[i + 1] # W("a")
        index == [i \in DOMAIN ts |-> i]
    IN  TriplesAt(ts, SelectSeq(index, isType)) \o TriplesAt(ts, SelectSeq(index, isOther))
TriplePatterns(ts) == PatternsOf(ExpandShorthand(ts))

-----------------------------------------------------------------------------
(* The other parts of a WHERE block                                        *)

IsFlat(ts, i) == /\ IsWord(ts, i, "{") /\ Closing(ts, i) # 0
                 /\ Positions(Inside(ts, i), "{") = {}
NonEmpty(s) == s # <<>>
PatternsAt(ts, order) ==
    SelectSeq([k \in DOMAIN order |-> TriplePatterns(Inside(ts, order[k]))], NonEmpty)
PatternsIn(ts, starts) == PatternsAt(ts, SetToSortSeq(starts, <))

\* OPTIONAL { ... } without braces inside
OptionalPatterns(ts) ==
    PatternsIn(ts, {i + 1 : i \in {j \in Positions(ts, "OPTIONAL") : IsFlat(ts, j + 1)}})

\* { ... } UNION { ... }, pair by pair: a third alternative is not looked at.
RECURSIVE UnionStarts(_, _)
UnionStarts(ts, from) ==
    LET second(i) == Closing(ts, i) + 2
        pairs == {i \in from..Len(ts) :
                     /\ IsFlat(ts, i) /\ IsWord(ts, Closing(ts, i) + 1, "UNION")
                     /\ IsFlat(ts, second(i))}
    IN  IF pairs = {} THEN {}
        ELSE LET i == Min(pairs)
             IN  {i, second(i)} \cup UnionStarts(ts, Closing(ts, second(i)) + 1)
UnionPatterns(ts) == PatternsIn(ts, UnionStarts(ts, 1))

\* A filter is the tokens of its expression, or of its EXISTS block with the word
\* before it; filters inside of such a block are not listed.
FilterExpressions(ts) ==
    LET blocks == ExistsStarts(ts)
        within(i) == \E b \in blocks : b < i /\ i < Closing(ts, b + 2)
        plain == {i \in Positions(ts, "FILTER") :
                     ~within(i) /\ IsWord(ts, i + 1, "(") /\ Closing(ts, i + 1) # 0}
        top == {b \in blocks : ~within(b)}
        order == SetToSortSeq(plain \cup top, <)
    IN  [k \in DOMAIN order |->
           IF order[k] \in top
           THEN <<ts[order[k] + 1]>> \o Inside(ts, order[k] + 2)
           ELSE Inside(ts, order[k] + 1)]
IsExists(f) == f # <<>> /\ f[1] \in {W("EXISTS"), W("NOT EXISTS")}

\* A filter on other variables than these is dropped.
AllowedVars(patterns, projected, vals) ==
    UNION {UNION {{pat[i].name : i \in {j \in {1, 3} : IsVar(pat[j])}} :
                     pat \in Range(patterns)},
           Range(projected), UNION {Range(b.vars) : b \in Range(vals)}}
RetainedFilters(filters, allowed) ==
    LET retained(f) == IsExists(f) \/ Vars(f) \subseteq allowed
    IN  SelectSeq(filters, retained)

\* VALUES ?v { c1 c2 } or VALUES ( ?v ?w ) { ( c1 d1 ) ( c2 d2 ) }, the first one.
VarsBefore(ts, i) == \* the variables that VALUES lists before the brace at i
    IF IsVar(ts[i - 1]) THEN <<ts[i - 1].name>>
    ELSE LET open == CHOOSE j \in Positions(ts, "(") : Closing(ts, j) = i - 1
         IN  [k \in DOMAIN Inside(ts, open) |-> Inside(ts, open)[k].name]
ExtractValues(ts) ==
    LET starts == Positions(ts, "VALUES")
        brace == Min({i \in Positions(ts, "{") : i > Min(starts)})
        vs == VarsBefore(ts, brace)
        cells == SelectSeq(Inside(ts, brace), IsTerm)
        rows == Len(cells) \div Len(vs)
        cell(r, v) == cells[(r - 1) * Len(vs) + CHOOSE k \in DOMAIN vs : vs[k] = v].value
    IN  IF starts = {} THEN <<>>
        ELSE <<[vars |-> vs, rows |-> [r \in 1..rows |-> [v \in Range(vs) |-> cell(r, v)]]]>>

\* BIND ( expr AS ?alias )
ExtractBinds(ts) ==
    LET order == SetToSortSeq({i \in Positions(ts, "BIND") : IsWord(ts, i + 1, "(")}, <)
    IN  [k \in DOMAIN order |->
           LET inner == Inside(ts, order[k] + 1)
           IN  [alias |-> inner[Len(inner)].name, expr |-> SubSeq(inner, 1, Len(inner) - 2)]]

-----------------------------------------------------------------------------
(* What surrounds it                                                       *)

SelectPart(ts) ==
    LET s == Positions(ts, "SELECT") w == Positions(ts, "WHERE")
    IN  IF s = {} \/ w = {} \/ Min(w) < Min(s) THEN <<>>
        ELSE SubSeq(ts, Min(s) + 1, Min(w) - 1)

Distinct(names) == FoldLeft(LAMBDA acc, v : IF v \in Range(acc) THEN acc ELSE Append(acc, v),
                            <<>>, names)
\* Aliases first, then the variables outside of parentheses.
ProjectedVars(ts) ==
    LET part == SelectPart(ts)
        index == [i \in DOMAIN part |-> i]
        alias(i) == IsVar(part[i]) /\ IsWord(part, i - 1, "AS")
        outside(i) == IsVar(part[i]) /\ ~\E j \in Positions(part, "(") :
                                            j < i /\ i < Closing(part, j)
        found == SelectSeq(index, alias) \o SelectSeq(index, outside)
    IN  Distinct([k \in DOMAIN found |-> part[found[k]].name])
\* COUNT ( [DISTINCT] ?v ) AS ?alias
AggregateExprs(ts) ==
    LET part == SelectPart(ts)
        as(i) == Closing(part, i + 1) + 1
        calls == {i \in Positions(part, "COUNT") : IsWord(part, as(i), "AS")}
    IN  [a \in {part[as(i) + 1].name : i \in calls} |->
           LET i == CHOOSE c \in calls : part[as(c) + 1].name = a
           IN  part[as(i) - 2].name]

GroupBy(ts) == LET part == SelectSeq(Clause(ts, "GROUP BY", {"HAVING", "ORDER BY", "LIMIT"}), IsVar)
               IN  [k \in DOMAIN part |-> part[k].name]
\* The conditions, each in its parentheses.
Having(ts) ==
    LET part == Clause(ts, "HAVING", {"ORDER BY", "LIMIT"})
        outer == {i \in Positions(part, "(") :
                     ~\E j \in Positions(part, "(") : j < i /\ i < Closing(part, j)}
        order == SetToSortSeq(outer, <)
    IN  [k \in DOMAIN order |-> SubSeq(part, order[k], Closing(part, order[k]))]
OrderBy(ts) ==
    LET part == Clause(ts, "ORDER BY", {"LIMIT"})
        at == SelectSeq([i \in DOMAIN part |-> i], LAMBDA i : IsVar(part[i]))
        desc(i) == \/ IsWord(part, i - 1, "DESC")
                   \/ /\ IsWord(part, i - 1, "(")
                      /\ IsWord(part, i - 2, "DESC")
    IN  [k \in DOMAIN at |-> [var |-> part[at[k]].name, desc |-> desc(at[k])]]
\* The last LIMIT of the text, in whatever query it stands.
ExtractLimit(ts) ==
    IF Positions(ts, "LIMIT") = {} THEN NoLimit
    ELSE ts[Max(Positions(ts, "LIMIT")) + 1].value

\* The type of a query is what its text begins with; anything else makes it a SELECT.
QueryType(ts) ==
    IF ts[1] \in {W("CONSTRUCT"), W("ASK"), W("DESCRIBE")} THEN ts[1].text ELSE "SELECT"
ConstructTemplate(ts) == IF QueryType(ts) = "CONSTRUCT"
                         THEN TriplePatterns(Inside(ts, Min(Positions(ts, "{"))))
                         ELSE <<>>
DescribeResources(ts) ==
    IF QueryType(ts) # "DESCRIBE" THEN <<>>
    ELSE LET w == Positions(ts, "WHERE")
         IN  SelectSeq(IF w = {} THEN Tail(ts) ELSE SubSeq(ts, 2, Min(w) - 1), IsTerm)

\* A wrong version: patterns of an EXISTS block are taken for patterns of the query.
PatternTextWithExists(ts) == StripSubqueries(WhereBlock(ts))
\* The text that patterns are looked for in.
PatternText(ts) == StripExists(StripSubqueries(WhereBlock(ts)))

\* The variables of a CONSTRUCT's template are projected too.
TemplateVars(template) ==
    LET found == FlattenSeq([i \in DOMAIN template |-> SelectSeq(template[i], IsVar)])
    IN  [k \in DOMAIN found |-> found[k].name]
ParsedParts(ts, block, main, projected, vals, subs) ==
    [select |-> projected, where |-> main,
     optional |-> OptionalPatterns(block), union |-> UnionPatterns(block),
     filters |-> RetainedFilters(FilterExpressions(StripSubqueries(WhereBlock(ts))),
                                 AllowedVars(main, projected, vals)),
     values |-> vals, binds |-> ExtractBinds(ts),
     group |-> GroupBy(ts), counts |-> AggregateExprs(ts), having |-> Having(ts),
     order |-> OrderBy(ts), limit |-> ExtractLimit(ts), subs |-> subs,
     resources |-> DescribeResources(ts)]
\* extract_prefix_declarations: a subquery is parsed with those of the text around it
\* (a declaration is a line of its own; the code takes the whole line).
PrefixDeclarations(ts) ==
    LET order == SetToSortSeq(Positions(ts, "PREFIX"), <)
    IN  FlattenSeq([k \in DOMAIN order |-> SubSeq(ts, order[k], order[k] + 1)])
RECURSIVE Parse(_)
Parse(ts) ==
    LET starts == SetToSortSeq(SubqueryStarts(ts), <)
        inherited(k) == PrefixDeclarations(ts) \o Inside(ts, starts[k])
        subs == [k \in DOMAIN starts |-> Parse(inherited(k))]
    IN  ParsedParts(ts, PatternText(ts), TriplePatterns(PatternText(ts)),
                    Distinct(ProjectedVars(ts) \o TemplateVars(ConstructTemplate(ts))),
                    ExtractValues(ts), subs)
=============================================================================
