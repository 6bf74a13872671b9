------------------------------ MODULE MCReasoner ------------------------------
EXTENDS TBoxRewriting
P == "p"
Q == "q"
MCSubClasses == {{}, {<<"A", "B">>}, {<<"A", "B">>, <<"B", "C">>}, {<<"A", "B">>, <<"B", "A">>}}
MCSubProperties == {{}, {<<P, Q>>}, {<<P, Q>>, <<Q, P>>}}
OneOf(xs) == {[p \in {P, Q} |-> IF p = P THEN x[1] ELSE x[2]] : x \in xs}
MCTBoxes ==
    [subClass : MCSubClasses, subProperty : MCSubProperties,
     domain : OneOf({<<NoClass, NoClass>>, <<NoClass, "A">>}),
     range : OneOf({<<"B", NoClass>>}),
     inverse : OneOf({<<NoProperty, NoProperty>>, <<Q, NoProperty>>, <<P, NoProperty>>})]
MCPlans == {<<ClassAtom("C"), PropertyAtom(P), ClassAtom("B"), PropertyAtom(Q)>>}
=============================================================================
