---------------------------- MODULE PatternScans ----------------------------
(***************************************************************************)
(* One scan for the patterns of a subject that a table answers (parser/    *)
(* ir_converter.rs, build_join_from_patterns_with_vars).  IrConverter      *)
(* groups the patterns and joins the scans.                                *)
(***************************************************************************)
EXTENDS MappedTriples

IsType(pat) == pat[2] = Const(RdfType)
NotType(pat) == ~IsType(pat)

OfTable(rs, t) == SelectSeq(rs, LAMBDA r : r.table = t)
RuleFor(t, pat) == OfTable(Rules(pat[2].value), t)[1]

\* The scan of a group: its columns, and the filters above it.
NoPatterns == [cols |-> NoVars, filters |-> <<>>]

\* The variable that a constant object's column is bound to, named by their number.
ConstantVar(cols) == "__obj_const_" \o ToString(Cardinality(Range(cols)))

\* Adds a pattern to the scan of its group.  A variable keeps its first column;
\* a constant object becomes a filter; a constant subject is not looked at.
OneColumn(v, c) == [x \in {v} |-> c]
AddPattern(t, acc, pat) ==
    LET rule == RuleFor(t, pat)
        withSub == IF IsVar(pat[1]) THEN Merge(acc.cols, OneColumn(pat[1].name, rule.subject))
                                    ELSE acc.cols
        constant == ConstantVar(withSub)
    IN  CASE IsVar(pat[3]) ->
               [acc EXCEPT !.cols = Merge(withSub, OneColumn(pat[3].name, rule.object))]
          [] ~IsVar(pat[3]) /\ NotType(pat) ->
               [cols |-> Merge(OneColumn(constant, rule.object), withSub),
                filters |-> Append(acc.filters, Eq(Var(constant), pat[3]))]
          [] OTHER -> [acc EXCEPT !.cols = withSub]
=============================================================================
