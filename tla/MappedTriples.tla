---------------------------- MODULE MappedTriples ----------------------------
(***************************************************************************)
(* The triples that the mappings make of a database, and the patterns      *)
(* they match.  IRIs are the column values they are made of.               *)
(***************************************************************************)
EXTENDS SolutionBags

CONSTANTS Mappings,     \* MappingStore: rules of a predicate, in their order
          RdfType,      \* the predicate rdf:type
          NoColumn,     \* a rule without object column
          NoConstant    \* a rule without object constant

\* A rule makes a triple of each row: its subject column, the predicate, and
\* its object column or its object constant.
ASSUME MappingsAssumption ==
    \A p \in DOMAIN Mappings : \A i \in DOMAIN Mappings[p] :
        LET r == Mappings[p][i] IN (r.object = NoColumn) # (r.constant = NoConstant)

Rules(p) == IF p \in DOMAIN Mappings THEN Mappings[p] ELSE <<>>

\* A triple pattern <<s, p, o>>, of which p may be a path.
PatternVars(pat) == {pat[i].name : i \in {j \in 1..3 : IsVar(pat[j])}}

Triples(db) ==
    UNION {UNION {{<<Const(row[r.subject]), Const(p),
                     IF r.object = NoColumn THEN Const(r.constant)
                                            ELSE Const(row[r.object])>> :
                     row \in {x \in db[r.table] :
                                /\ x[r.subject] # Null
                                /\ r.object # NoColumn => x[r.object] # Null}} :
                  r \in Range(Rules(p))} : p \in DOMAIN Mappings}

Matches(pat, tr) == /\ \A i \in 1..3 : IsVar(pat[i]) \/ pat[i] = tr[i]
                    /\ \A i, j \in 1..3 : IsVar(pat[i]) /\ pat[i] = pat[j] => tr[i] = tr[j]

\* The solutions of a pattern without a path.
PlaceOf(v, pat) == CHOOSE i \in 1..3 : pat[i] = Var(v)
TripleAnswers(pat, db) ==
    {<<tr, [v \in PatternVars(pat) |-> tr[PlaceOf(v, pat)].value]>> :
        tr \in {x \in Triples(db) : Matches(pat, x)}}
=============================================================================
