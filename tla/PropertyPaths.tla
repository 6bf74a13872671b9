---------------------------- MODULE PropertyPaths ----------------------------
(***************************************************************************)
(* Property paths: from their text to a tree                               *)
(* (parser/property_path_parser.rs), and from the tree to a plan on tables *)
(* (rewriter/path_unfolder.rs).                                            *)
(***************************************************************************)
EXTENDS LogicPlan, SparqlParser

-----------------------------------------------------------------------------
(* PropertyPathParser::parse: modifiers of the whole text first, then the  *)
(* inverse, then "/", then "|".  What is in parentheses is not looked into *)
(* and ends up as the name of a predicate.                                 *)

SplitPath(ts, sign) ==
    LET inParens(i) == \E j \in Positions(ts, "(") : j < i /\ i < Closing(ts, j)
        cuts == <<0>> \o SelectSeq([i \in DOMAIN ts |-> i],
                                   LAMBDA i : ts[i] = W(sign) /\ ~inParens(i))
                  \o <<Len(ts) + 1>>
        parts == [k \in 1..(Len(cuts) - 1) |-> SubSeq(ts, cuts[k] + 1, cuts[k + 1] - 1)]
    IN  SelectSeq(parts, NonEmpty)
PathName(ts) == FoldLeft(LAMBDA acc, x : acc \o (IF x.kind = "word" THEN x.text ELSE x.value),
                         "", ts)

RECURSIVE ParsePath(_)
ParsePath(ts) ==
    LET Parts(sign) == [i \in DOMAIN SplitPath(ts, sign) |-> ParsePath(SplitPath(ts, sign)[i])]
        modified(t) == ts[Len(ts)] = W(t)
    IN  IF modified("*") THEN StarPath(ParsePath(Front(ts)))
        ELSE IF modified("+") THEN PlusPath(ParsePath(Front(ts)))
        ELSE IF modified("?") THEN OptionalPath(ParsePath(Front(ts)))
        ELSE IF ts[1] = W("^") THEN InversePath(ParsePath(Tail(ts)))
        ELSE IF Len(SplitPath(ts, "/")) > 1 THEN SequencePath(Parts("/"))
        ELSE IF Len(SplitPath(ts, "|")) > 1 THEN AlternativePath(Parts("|"))
        ELSE IF ts[1] = W("!") THEN NegatedPath(SelectSeq(Tail(ts), IsTerm))
        ELSE Const(PathName(ts))
\* The predicate of a pattern, as the converter takes it.
Predicate(t) == IF t.kind = "path" THEN ParsePath(t.text) ELSE t
WithPaths(pats) == [i \in DOMAIN pats |-> [pats[i] EXCEPT ![2] = Predicate(@)]]

-----------------------------------------------------------------------------
(* PathUnfolder.  A result is a sequence of one plan, or of none when the  *)
(* path cannot be unfolded.                                                *)

MaxPathDepth == 10

\* create_extensional_data: the first rule of the predicate, an end that is no
\* variable as a filter on its column.
CreateExtensionalData(rule, s, o) ==
    LET objectColumn == IF rule.object = NoColumn THEN "id" ELSE rule.object
        name(t, prefix, col) == IF IsVar(t) THEN t.name ELSE prefix \o col
        subject == name(s, "__subj_", rule.subject)
        object == name(o, "__obj_", objectColumn)
        filter(x, t) == IF IsVar(t) THEN <<>> ELSE <<Eq(Var(x), t)>>
    IN  FilteredBy(ExtensionalData(rule.table, (object :> objectColumn) @@ (subject :> rule.subject)),
                   filter(subject, s) \o filter(object, o))

\* The variable after the kth part.  Each Path node has an unfolder of its own, which
\* counts its sequences from 1; a path has one at most.
IntermediateVar(k) == Var("__path_var_1_" \o ToString(k - 1))

\* Every solution s = s, over a table "dual".
Identity(s) ==
    Construction(<<IF IsVar(s) THEN s.name ELSE "__subj">>,
                 IF IsVar(s) THEN s.name :> s ELSE NoVars,
                 Filter(Eq(s, s), ExtensionalData("dual", NoVars)))

RECURSIVE UnfoldPath(_, _, _)
UnfoldPath(s, p, o) ==
    LET inner == UnfoldPath(s, p.of, o)
        \* the parts of a sequence, from end to end
        n == Len(p.parts)
        end(k) == CASE k = 0 -> s [] k = n -> o [] OTHER -> IntermediateVar(k)
        steps == [k \in 1..n |-> UnfoldPath(end(k - 1), p.parts[k], end(k))]
        branches == [k \in 1..n |-> UnfoldPath(s, p.parts[k], o)]
        join(acc, step) == Join(<<acc, step[1]>>, {}, "inner")
    IN  CASE p.kind = "const" ->
               IF Rules(p.value) = <<>> THEN <<>>
               ELSE <<CreateExtensionalData(Rules(p.value)[1], s, o)>>
          [] p.kind = "inverse" -> UnfoldPath(o, p.of, s)
          [] p.kind = "sequence" ->
               IF n > MaxPathDepth \/ <<>> \in Range(steps) THEN <<>>
               ELSE <<FoldLeft(join, steps[1][1], Tail(steps))>>
          [] p.kind = "alternative" ->
               IF <<>> \in Range(branches) THEN <<>> ELSE <<Union(FlattenSeq(branches))>>
          [] p.kind = "optional" ->
               IF inner = <<>> THEN <<>> ELSE <<Union(inner \o <<Identity(s)>>)>>
          [] p.kind = "star" -> IF inner = <<>> THEN <<>> ELSE <<RecursivePath(inner[1], s, o, 0)>>
          [] p.kind = "plus" -> IF inner = <<>> THEN <<>> ELSE <<RecursivePath(inner[1], s, o, 1)>>
          [] p.kind = "negated" -> <<>>
=============================================================================
