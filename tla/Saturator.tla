------------------------------ MODULE Saturator ------------------------------
(***************************************************************************)
(* saturate_tbox (reasoner/saturator.rs): the axioms that follow from an   *)
(* ontology, found by rounds of inference until one finds nothing new.     *)
(* The code writes an inverse role as INV_p and an existential concept as  *)
(* a class name that starts with a sign for "exists"; here they are        *)
(* records.  A Vec without duplicates is a set.                            *)
(***************************************************************************)
EXTENDS Integers, FiniteSets

CONSTANTS Classes, Properties,
          NoClass, NoProperty,  \* a property without domain, range or inverse
          TBoxes,               \* the ontologies
          Individuals           \* what an interpretation is about

Roles == [prop : Properties, inverse : BOOLEAN]
Role(p) == [prop |-> p, inverse |-> FALSE]
Inv(r) == [prop |-> r.prop, inverse |-> ~r.inverse]
Named(c) == [kind |-> "class", class |-> c]
Exist(r) == [kind |-> "exist", role |-> r]
Concepts == {Named(c) : c \in Classes} \cup {Exist(r) : r \in Roles}

TBoxType == [subClass : SUBSET (Classes \X Classes),
             subProperty : SUBSET (Properties \X Properties),
             domain : [Properties -> Classes \cup {NoClass}],
             range : [Properties -> Classes \cup {NoClass}],
             inverse : [Properties -> Properties \cup {NoProperty}]]

ASSUME NamesAssumption == NoClass \notin Classes /\ NoProperty \notin Properties
ASSUME TBoxesAssumption == TBoxes \subseteq TBoxType
\* Over a single individual every role is its own inverse, whatever the ontology.
ASSUME IndividualsAssumption == \E x, y \in Individuals : x # y

VARIABLES tbox,                   \* what is given
          subClass, subProperty,  \* axioms so far: pairs of concepts, pairs of roles
          domain, range,
          stage
vars == <<tbox, subClass, subProperty, domain, range, stage>>

-----------------------------------------------------------------------------
\* Wrong versions: a property without a domain has one too; a range taken for a domain.
DomainOfAll(t) == {<<Exist(Role(p)), Named(t.domain[p])>> : p \in Properties}
RangeOfSubjects(t) == {<<Exist(Role(p)), Named(t.range[p])>> :
                          p \in {q \in Properties : t.range[q] # NoClass}}
DomainAxioms(t) == {<<Exist(Role(p)), Named(t.domain[p])>> :
                       p \in {q \in Properties : t.domain[q] # NoClass}}
RangeAxioms(t) == {<<Exist(Inv(Role(p))), Named(t.range[p])>> :
                      p \in {q \in Properties : t.range[q] # NoClass}}
WithInverse(t) == {p \in Properties : t.inverse[p] # NoProperty}
InverseAxioms(t) == {<<Inv(Role(p)), Role(t.inverse[p])>> : p \in WithInverse(t)}
                    \cup {<<Role(t.inverse[p]), Inv(Role(p))>> : p \in WithInverse(t)}
ClassAxioms(t) == {<<Named(a[1]), Named(a[2])>> : a \in t.subClass}
                  \cup DomainAxioms(t) \cup RangeAxioms(t)
PropertyAxioms(t) == {<<Role(a[1]), Role(a[2])>> : a \in t.subProperty} \cup InverseAxioms(t)

Init == /\ tbox \in TBoxes
        /\ subClass = ClassAxioms(tbox)
        /\ subProperty = PropertyAxioms(tbox)
        /\ domain = tbox.domain
        /\ range = tbox.range
        /\ stage = "saturating"

\* Pairs of S that R connects in two steps; what starts and ends at one place is left out.
TwoSteps(R, S) == {x \in S \X S : x[1] # x[2] /\ \E y \in S : <<x[1], y>> \in R /\ <<y, x[2]>> \in R}
\* A wrong version: the inverses forgotten.
InvertedNone(R) == {}
Inverted(R) == {<<Inv(a[1]), Inv(a[2])>> : a \in R}
Existentials(R) == {<<Exist(a[1]), Exist(a[2])>> : a \in R}

\* What one round infers from the axioms there are when it begins.
InferredClasses == TwoSteps(subClass, Concepts)
                   \cup Existentials(subProperty) \cup Existentials(Inverted(subProperty))
InferredProperties == TwoSteps(subProperty, Roles) \cup Inverted(subProperty)

\* A wrong version: goes on for as long as it infers something, new or not.
RoundWhileInferring ==
    /\ stage = "saturating"
    /\ subClass' = subClass \cup InferredClasses
    /\ subProperty' = subProperty \cup InferredProperties
    /\ stage' = IF InferredClasses = {} /\ InferredProperties = {}
                THEN "saturated" ELSE "saturating"
    /\ UNCHANGED <<tbox, domain, range>>

SaturationRound ==
    /\ stage = "saturating"
    /\ subClass' = subClass \cup InferredClasses
    /\ subProperty' = subProperty \cup InferredProperties
    /\ stage' = IF subClass' = subClass /\ subProperty' = subProperty
                THEN "saturated" ELSE "saturating"
    /\ UNCHANGED <<tbox, domain, range>>

\* The classes above a role's existential; a property keeps one of those, the last that
\* the HashSet's order gives.
ClassesOf(r) == {c \in Classes : <<Exist(r), Named(c)>> \in subClass}
KeepsOne(before, after, p, r) ==
    IF ClassesOf(r) = {} THEN after[p] = before[p] ELSE after[p] \in ClassesOf(r)
ExtractConstraints ==
    /\ stage = "saturated"
    /\ stage' = "extracted"
    /\ domain' \in {d \in [Properties -> Classes \cup {NoClass}] :
                       \A p \in Properties : KeepsOne(domain, d, p, Role(p))}
    /\ range' \in {d \in [Properties -> Classes \cup {NoClass}] :
                      \A p \in Properties : KeepsOne(range, d, p, Inv(Role(p)))}
    /\ UNCHANGED <<tbox, subClass, subProperty>>

Next == SaturationRound \/ ExtractConstraints

SaturationSpec == Init /\ [][Next]_vars
\* saturate_tbox is one call, which its caller waits for.
Spec == SaturationSpec /\ WF_vars(Next)

-----------------------------------------------------------------------------
(* Interpretations (the semantics of DL-Lite), to judge axioms by.         *)

Interpretations == [class : [Classes -> SUBSET Individuals],
                    prop : [Properties -> SUBSET (Individuals \X Individuals)]]
Related(I, r, x, y) == IF r.inverse THEN <<y, x>> \in I.prop[r.prop]
                                    ELSE <<x, y>> \in I.prop[r.prop]
IsIn(I, c, x) == IF c.kind = "class" THEN x \in I.class[c.class]
                 ELSE \E y \in Individuals : Related(I, c.role, x, y)
ClassBelow(I, a) == \A x \in Individuals : IsIn(I, a[1], x) => IsIn(I, a[2], x)
PropertyBelow(I, a) ==
    \A x, y \in Individuals : Related(I, a[1], x, y) => Related(I, a[2], x, y)

HasDomain(I, p, c) == \A x, y \in Individuals : <<x, y>> \in I.prop[p] => x \in I.class[c]
HasRange(I, p, c) == \A x, y \in Individuals : <<x, y>> \in I.prop[p] => y \in I.class[c]
AreInverse(I, p, q) ==
    \A x, y \in Individuals : <<x, y>> \in I.prop[p] <=> <<y, x>> \in I.prop[q]
IsModel(I, t) ==
    /\ \A a \in t.subClass : I.class[a[1]] \subseteq I.class[a[2]]
    /\ \A a \in t.subProperty : I.prop[a[1]] \subseteq I.prop[a[2]]
    /\ \A p \in Properties : /\ t.domain[p] # NoClass => HasDomain(I, p, t.domain[p])
                             /\ t.range[p] # NoClass => HasRange(I, p, t.range[p])
                             /\ t.inverse[p] # NoProperty => AreInverse(I, p, t.inverse[p])
ModelsOf == [t \in TBoxes |-> {I \in Interpretations : IsModel(I, t)}]
Models == ModelsOf[tbox]

-----------------------------------------------------------------------------
TypeOK == /\ tbox \in TBoxes
          /\ subClass \in SUBSET (Concepts \X Concepts)
          /\ subProperty \in SUBSET (Roles \X Roles)
          /\ domain \in [Properties -> Classes \cup {NoClass}]
          /\ range \in [Properties -> Classes \cup {NoClass}]
          /\ stage \in {"saturating", "saturated", "extracted"}

\* Whatever a round infers, and whatever domain or range is kept in the end, holds in
\* every model of the ontology that was given.
SaturationIsSound ==
    \A I \in Models :
        /\ \A a \in subClass : ClassBelow(I, a)
        /\ \A a \in subProperty : PropertyBelow(I, a)
        /\ \A p \in Properties : /\ domain[p] # NoClass => HasDomain(I, p, domain[p])
                                 /\ range[p] # NoClass => HasRange(I, p, range[p])

\* When the rounds end, every subsumption that holds in all models has been found, for
\* classes, existentials and roles with their inverses.
SaturationIsComplete ==
    stage = "saturated" =>
        /\ \A a \in Concepts \X Concepts :
              a[1] # a[2] /\ (\A I \in Models : ClassBelow(I, a)) => a \in subClass
        /\ \A a \in Roles \X Roles :
              a[1] # a[2] /\ (\A I \in Models : PropertyBelow(I, a)) => a \in subProperty

\* The rounds come to an end, with cycles among classes, properties and inverses too
\* (where they begin after the walks of TBoxRewriting, the walks do as well).
Saturates == <>(stage = "extracted")
=============================================================================
