--------------------------- MODULE SaturatorProofs ---------------------------
(***************************************************************************)
(* Saturation is sound and complete for every ontology.  The axioms it     *)
(* adds hold in all models of what was given, whatever the individuals     *)
(* are.  What it has not found when its rounds end does not follow: for    *)
(* each such pair there is a model of the ontology, of two individuals at  *)
(* most, that refutes it; it is built from the saturated axioms            *)
(* themselves, and that it is a model is what each rule of a round is      *)
(* needed for.                                                             *)
(***************************************************************************)
EXTENDS Saturator, FiniteSetTheorems, TLAPS

-----------------------------------------------------------------------------
(* Names, roles and concepts.                                              *)

LEMMA NamesAreTyped ==
    /\ \A p \in Properties : Role(p) \in Roles
    /\ \A r \in Roles : Inv(r) \in Roles /\ Exist(r) \in Concepts
    /\ \A c \in Classes : Named(c) \in Concepts
  BY DEF Roles, Role, Inv, Exist, Named, Concepts

LEMMA InverseRelates ==
    ASSUME NEW I, NEW r \in Roles, NEW x, NEW y
    PROVE  Related(I, Inv(r), x, y) <=> Related(I, r, y, x)
  BY DEF Related, Inv, Roles

LEMMA RoleRelates ==
    ASSUME NEW I, NEW p \in Properties, NEW x, NEW y
    PROVE  Related(I, Role(p), x, y) <=> <<x, y>> \in I.prop[p]
  BY DEF Related, Role

LEMMA MembersOfConcepts ==
    ASSUME NEW I, NEW x
    PROVE  /\ \A c \in Classes : IsIn(I, Named(c), x) <=> x \in I.class[c]
           /\ \A r \in Roles : IsIn(I, Exist(r), x)
                                   <=> \E y \in Individuals : Related(I, r, x, y)
  BY DEF IsIn, Named, Exist

-----------------------------------------------------------------------------
(* The axioms of an ontology are axioms, and hold in its models.           *)

LEMMA ClassAxiomsTyped ==
    ASSUME NEW t \in TBoxType
    PROVE  ClassAxioms(t) \subseteq Concepts \X Concepts
<1>1. DomainAxioms(t) \subseteq Concepts \X Concepts
  BY NamesAreTyped DEF DomainAxioms, TBoxType
<1>2. RangeAxioms(t) \subseteq Concepts \X Concepts
  BY NamesAreTyped DEF RangeAxioms, TBoxType
<1>3. {<<Named(a[1]), Named(a[2])>> : a \in t.subClass} \subseteq Concepts \X Concepts
  BY NamesAreTyped DEF TBoxType
<1>. QED
  BY <1>1, <1>2, <1>3 DEF ClassAxioms

LEMMA PropertyAxiomsTyped ==
    ASSUME NEW t \in TBoxType
    PROVE  PropertyAxioms(t) \subseteq Roles \X Roles
<1>1. \A p \in WithInverse(t) : t.inverse[p] \in Properties
  BY DEF WithInverse, TBoxType
<1>2. InverseAxioms(t) \subseteq Roles \X Roles
  BY <1>1, NamesAreTyped DEF InverseAxioms, WithInverse
<1>3. {<<Role(a[1]), Role(a[2])>> : a \in t.subProperty} \subseteq Roles \X Roles
  BY NamesAreTyped DEF TBoxType
<1>. QED
  BY <1>2, <1>3 DEF PropertyAxioms

LEMMA ClassAxiomsHold ==
    ASSUME NEW t \in TBoxType, NEW I \in Interpretations, IsModel(I, t),
           NEW a \in ClassAxioms(t)
    PROVE  ClassBelow(I, a)
<1>1. CASE a \in {<<Named(b[1]), Named(b[2])>> : b \in t.subClass}
  <2>1. PICK b \in t.subClass : a = <<Named(b[1]), Named(b[2])>>
    BY <1>1
  <2>2. b[1] \in Classes /\ b[2] \in Classes /\ I.class[b[1]] \subseteq I.class[b[2]]
    BY DEF TBoxType, IsModel
  <2>. QED
    BY <2>1, <2>2, MembersOfConcepts DEF ClassBelow
<1>2. CASE a \in DomainAxioms(t)
  <2>1. PICK p \in Properties : /\ t.domain[p] # NoClass
                                /\ a = <<Exist(Role(p)), Named(t.domain[p])>>
    BY <1>2 DEF DomainAxioms
  <2>2. t.domain[p] \in Classes /\ HasDomain(I, p, t.domain[p]) /\ Role(p) \in Roles
    BY <2>1, NamesAreTyped DEF TBoxType, IsModel
  <2>3. ASSUME NEW x \in Individuals, IsIn(I, a[1], x) PROVE IsIn(I, a[2], x)
    <3>1. PICK y \in Individuals : <<x, y>> \in I.prop[p]
      BY <2>1, <2>2, <2>3, MembersOfConcepts, RoleRelates
    <3>. QED
      BY <2>1, <2>2, <3>1, MembersOfConcepts DEF HasDomain
  <2>. QED
    BY <2>3 DEF ClassBelow
<1>3. CASE a \in RangeAxioms(t)
  <2>1. PICK p \in Properties : /\ t.range[p] # NoClass
                                /\ a = <<Exist(Inv(Role(p))), Named(t.range[p])>>
    BY <1>3 DEF RangeAxioms
  <2>2. /\ t.range[p] \in Classes /\ HasRange(I, p, t.range[p])
        /\ Role(p) \in Roles /\ Inv(Role(p)) \in Roles
    BY <2>1, NamesAreTyped DEF TBoxType, IsModel
  <2>3. ASSUME NEW x \in Individuals, IsIn(I, a[1], x) PROVE IsIn(I, a[2], x)
    <3>1. PICK y \in Individuals : <<y, x>> \in I.prop[p]
      BY <2>1, <2>2, <2>3, MembersOfConcepts, RoleRelates, InverseRelates
    <3>. QED
      BY <2>1, <2>2, <3>1, MembersOfConcepts DEF HasRange
  <2>. QED
    BY <2>3 DEF ClassBelow
<1>. QED
  BY <1>1, <1>2, <1>3 DEF ClassAxioms

LEMMA PropertyAxiomsHold ==
    ASSUME NEW t \in TBoxType, NEW I \in Interpretations, IsModel(I, t),
           NEW a \in PropertyAxioms(t)
    PROVE  PropertyBelow(I, a)
<1>1. CASE a \in {<<Role(b[1]), Role(b[2])>> : b \in t.subProperty}
  <2>1. PICK b \in t.subProperty : a = <<Role(b[1]), Role(b[2])>>
    BY <1>1
  <2>2. b[1] \in Properties /\ b[2] \in Properties /\ I.prop[b[1]] \subseteq I.prop[b[2]]
    BY DEF TBoxType, IsModel
  <2>. QED
    BY <2>1, <2>2, RoleRelates DEF PropertyBelow
<1>2. CASE a \in InverseAxioms(t)
  <2>1. PICK p \in WithInverse(t) : \/ a = <<Inv(Role(p)), Role(t.inverse[p])>>
                                    \/ a = <<Role(t.inverse[p]), Inv(Role(p))>>
    BY <1>2 DEF InverseAxioms
  <2>2. /\ p \in Properties /\ t.inverse[p] \in Properties
        /\ AreInverse(I, p, t.inverse[p]) /\ Role(p) \in Roles
    BY NamesAreTyped DEF WithInverse, TBoxType, IsModel
  <2>3. \A x, y \in Individuals :
           Related(I, Inv(Role(p)), x, y) <=> Related(I, Role(t.inverse[p]), x, y)
    BY <2>2, InverseRelates, RoleRelates DEF AreInverse
  <2>. QED
    BY <2>1, <2>3 DEF PropertyBelow
<1>. QED
  BY <1>1, <1>2 DEF PropertyAxioms

-----------------------------------------------------------------------------
(* Inference keeps to axioms that hold.                                    *)

LEMMA InferenceTyped ==
    ASSUME NEW R \in SUBSET (Roles \X Roles)
    PROVE  /\ Inverted(R) \in SUBSET (Roles \X Roles)
           /\ Existentials(R) \in SUBSET (Concepts \X Concepts)
  BY NamesAreTyped DEF Inverted, Existentials

LEMMA TwoClassSteps ==
    ASSUME NEW I, NEW R, \A b \in R : ClassBelow(I, b),
           NEW a \in TwoSteps(R, Concepts)
    PROVE  ClassBelow(I, a)
<1>1. PICK y \in Concepts : <<a[1], y>> \in R /\ <<y, a[2]>> \in R
  BY DEF TwoSteps
<1>2. ClassBelow(I, <<a[1], y>>) /\ ClassBelow(I, <<y, a[2]>>)
  BY <1>1
<1>. QED
  BY <1>2 DEF ClassBelow

LEMMA TwoPropertySteps ==
    ASSUME NEW I, NEW R, \A b \in R : PropertyBelow(I, b),
           NEW a \in TwoSteps(R, Roles)
    PROVE  PropertyBelow(I, a)
<1>1. PICK y \in Roles : <<a[1], y>> \in R /\ <<y, a[2]>> \in R
  BY DEF TwoSteps
<1>2. PropertyBelow(I, <<a[1], y>>) /\ PropertyBelow(I, <<y, a[2]>>)
  BY <1>1
<1>. QED
  BY <1>2 DEF PropertyBelow

LEMMA InvertedHold ==
    ASSUME NEW I, NEW R \in SUBSET (Roles \X Roles), \A b \in R : PropertyBelow(I, b),
           NEW a \in Inverted(R)
    PROVE  PropertyBelow(I, a)
<1>1. PICK b \in R : a = <<Inv(b[1]), Inv(b[2])>>
  BY DEF Inverted
<1>2. b[1] \in Roles /\ b[2] \in Roles /\ PropertyBelow(I, b)
  OBVIOUS
<1>. QED
  BY <1>1, <1>2, InverseRelates DEF PropertyBelow

LEMMA ExistentialsHold ==
    ASSUME NEW I, NEW R \in SUBSET (Roles \X Roles), \A b \in R : PropertyBelow(I, b),
           NEW a \in Existentials(R)
    PROVE  ClassBelow(I, a)
<1>1. PICK b \in R : a = <<Exist(b[1]), Exist(b[2])>>
  BY DEF Existentials
<1>2. b[1] \in Roles /\ b[2] \in Roles /\ PropertyBelow(I, b)
  OBVIOUS
<1>3. \A x \in Individuals : IsIn(I, Exist(b[1]), x) => IsIn(I, Exist(b[2]), x)
  BY <1>2, MembersOfConcepts DEF PropertyBelow
<1>. QED
  BY <1>1, <1>3 DEF ClassBelow

-----------------------------------------------------------------------------
(* The theorems.                                                           *)

LEMMA InitTyped == Init => TypeOK
<1>. SUFFICES ASSUME Init PROVE TypeOK
  OBVIOUS
<1>1. tbox \in TBoxType
  BY TBoxesAssumption DEF Init
<1>. QED
  BY <1>1, ClassAxiomsTyped, PropertyAxiomsTyped DEF Init, TypeOK, TBoxType

\* The axioms stay pairs of concepts and pairs of roles, and every property has one
\* domain and one range or none, whatever the rounds infer (saturator.rs:32-144).
THEOREM TypeCorrect == SaturationSpec => []TypeOK
<1>1. Init => TypeOK
  BY InitTyped
<1>2. TypeOK /\ [Next]_vars => TypeOK'
  <2>. SUFFICES ASSUME TypeOK, [Next]_vars PROVE TypeOK'
    OBVIOUS
  <2>1. CASE SaturationRound
    <3>1. Inverted(subProperty) \in SUBSET (Roles \X Roles)
      BY InferenceTyped DEF TypeOK
    <3>2. InferredClasses \subseteq Concepts \X Concepts
      BY <3>1, InferenceTyped DEF TypeOK, InferredClasses, TwoSteps
    <3>3. InferredProperties \subseteq Roles \X Roles
      BY <3>1 DEF InferredProperties, TwoSteps
    <3>. QED
      BY <2>1, <3>2, <3>3 DEF TypeOK, SaturationRound
  <2>2. CASE ExtractConstraints
    BY <2>2 DEF TypeOK, ExtractConstraints
  <2>3. CASE UNCHANGED vars
    BY <2>3 DEF TypeOK, vars
  <2>. QED
    BY <2>1, <2>2, <2>3 DEF Next
<1>. QED
  BY <1>1, <1>2, PTL DEF SaturationSpec

\* The axioms that hold in a model, and the domains and ranges that do.
AxiomsHold(I) == /\ \A a \in subClass : ClassBelow(I, a)
                 /\ \A a \in subProperty : PropertyBelow(I, a)
ConstraintsHold(I) ==
    \A p \in Properties : /\ domain[p] # NoClass => HasDomain(I, p, domain[p])
                          /\ range[p] # NoClass => HasRange(I, p, range[p])

LEMMA ClassesAboveDomain ==
    ASSUME NEW I, AxiomsHold(I), NEW p \in Properties, NEW c \in ClassesOf(Role(p)),
           I \in Interpretations
    PROVE  HasDomain(I, p, c)
<1>1. ClassBelow(I, <<Exist(Role(p)), Named(c)>>) /\ c \in Classes /\ Role(p) \in Roles
  BY NamesAreTyped DEF ClassesOf, AxiomsHold
<1>2. ASSUME NEW x \in Individuals, NEW y \in Individuals, <<x, y>> \in I.prop[p]
      PROVE  x \in I.class[c]
  <2>1. IsIn(I, Exist(Role(p)), x)
    BY <1>1, <1>2, MembersOfConcepts, RoleRelates
  <2>. QED
    BY <1>1, <2>1, MembersOfConcepts DEF ClassBelow
<1>. QED
  BY <1>2 DEF HasDomain

LEMMA ClassesAboveRange ==
    ASSUME NEW I, AxiomsHold(I), NEW p \in Properties, NEW c \in ClassesOf(Inv(Role(p))),
           I \in Interpretations
    PROVE  HasRange(I, p, c)
<1>1. /\ ClassBelow(I, <<Exist(Inv(Role(p))), Named(c)>>) /\ c \in Classes
      /\ Role(p) \in Roles /\ Inv(Role(p)) \in Roles
  BY NamesAreTyped DEF ClassesOf, AxiomsHold
<1>2. ASSUME NEW x \in Individuals, NEW y \in Individuals, <<x, y>> \in I.prop[p]
      PROVE  y \in I.class[c]
  <2>1. IsIn(I, Exist(Inv(Role(p))), y)
    BY <1>1, <1>2, MembersOfConcepts, RoleRelates, InverseRelates
  <2>. QED
    BY <1>1, <2>1, MembersOfConcepts DEF ClassBelow
<1>. QED
  BY <1>2 DEF HasRange

LEMMA IsAModel ==
    ASSUME tbox \in TBoxes, NEW I
    PROVE  I \in Models <=> I \in Interpretations /\ IsModel(I, tbox)
BY DEF Models, ModelsOf

\* Whatever a round infers, and whatever domain or range is kept in the end, holds in
\* every model of the ontology that was given (saturator.rs:32-144).
THEOREM Soundness == SaturationSpec => []SaturationIsSound
<1>1. TypeOK /\ Init => SaturationIsSound
  <2>. SUFFICES ASSUME TypeOK, Init, NEW I \in Models
                PROVE  AxiomsHold(I) /\ ConstraintsHold(I)
    BY DEF SaturationIsSound, AxiomsHold, ConstraintsHold
  <2>1. I \in Interpretations /\ IsModel(I, tbox) /\ tbox \in TBoxType
    BY TBoxesAssumption, IsAModel DEF Init
  <2>2. AxiomsHold(I)
    BY <2>1, ClassAxiomsHold, PropertyAxiomsHold DEF Init, AxiomsHold
  <2>3. ConstraintsHold(I)
    BY <2>1 DEF Init, ConstraintsHold, IsModel
  <2>. QED
    BY <2>2, <2>3
<1>2. TypeOK /\ SaturationIsSound /\ [Next]_vars => SaturationIsSound'
  <2>. SUFFICES ASSUME TypeOK, SaturationIsSound, [Next]_vars, NEW I \in Models'
                PROVE  AxiomsHold(I)' /\ ConstraintsHold(I)'
    BY DEF SaturationIsSound, AxiomsHold, ConstraintsHold
  <2>1. I \in Models /\ I \in Interpretations
    <3>1. tbox \in TBoxes /\ tbox' = tbox
      BY DEF TypeOK, Next, SaturationRound, ExtractConstraints, vars
    <3>2. Models' = Models
      BY <3>1 DEF Models, ModelsOf
    <3> QED
      BY <3>1, <3>2, IsAModel
  <2>2. AxiomsHold(I) /\ ConstraintsHold(I)
    BY <2>1 DEF SaturationIsSound, AxiomsHold, ConstraintsHold
  <2>3. CASE SaturationRound
    <3>1. Inverted(subProperty) \in SUBSET (Roles \X Roles)
      BY InferenceTyped DEF TypeOK
    <3>2. \A a \in Inverted(subProperty) : PropertyBelow(I, a)
      BY <2>2, InvertedHold DEF TypeOK, AxiomsHold
    <3>3. \A a \in InferredProperties : PropertyBelow(I, a)
      BY <2>2, <3>2, TwoPropertySteps DEF InferredProperties, AxiomsHold
    <3>4. \A a \in Existentials(subProperty) : ClassBelow(I, a)
      BY <2>2, ExistentialsHold DEF TypeOK, AxiomsHold
    <3>5. \A a \in Existentials(Inverted(subProperty)) : ClassBelow(I, a)
      BY <3>1, <3>2, ExistentialsHold
    <3>6. \A a \in InferredClasses : ClassBelow(I, a)
      BY <2>2, <3>4, <3>5, TwoClassSteps DEF InferredClasses, AxiomsHold
    <3>7. AxiomsHold(I)'
      BY <2>2, <2>3, <3>3, <3>6 DEF AxiomsHold, SaturationRound, ClassBelow, PropertyBelow
    <3>8. ConstraintsHold(I)'
      BY <2>2, <2>3 DEF ConstraintsHold, SaturationRound
    <3>. QED
      BY <3>7, <3>8
  <2>4. CASE ExtractConstraints
    <3>1. AxiomsHold(I)'
      BY <2>2, <2>4 DEF AxiomsHold, ExtractConstraints
    <3>2. ASSUME NEW p \in Properties, domain'[p] # NoClass PROVE HasDomain(I, p, domain'[p])
      <4>1. KeepsOne(domain, domain', p, Role(p))
        BY <2>4 DEF ExtractConstraints
      <4>. QED
        BY <2>1, <2>2, <3>2, <4>1, ClassesAboveDomain DEF KeepsOne, ConstraintsHold
    <3>3. ASSUME NEW p \in Properties, range'[p] # NoClass PROVE HasRange(I, p, range'[p])
      <4>1. KeepsOne(range, range', p, Inv(Role(p)))
        BY <2>4 DEF ExtractConstraints
      <4>. QED
        BY <2>1, <2>2, <3>3, <4>1, ClassesAboveRange DEF KeepsOne, ConstraintsHold
    <3>. QED
      BY <3>1, <3>2, <3>3 DEF ConstraintsHold
  <2>5. CASE UNCHANGED vars
    BY <2>2, <2>5 DEF AxiomsHold, ConstraintsHold, vars
  <2>. QED
    BY <2>3, <2>4, <2>5 DEF Next
<1>. QED
  BY <1>1, <1>2, TypeCorrect, PTL DEF SaturationSpec

\* What was given is never lost, and once a round finds nothing new there is nothing
\* left that a rule would infer.
Closed == /\ ClassAxioms(tbox) \subseteq subClass
          /\ PropertyAxioms(tbox) \subseteq subProperty
          /\ stage # "saturating" => /\ InferredClasses \subseteq subClass
                                     /\ InferredProperties \subseteq subProperty

\* The rounds end with a set that holds the given axioms and is closed under the rules
\* (saturator.rs:55-130): the flag that ends them never misses a pair.
THEOREM SaturationIsClosed == SaturationSpec => []Closed
<1>1. Init => Closed
  BY DEF Init, Closed
<1>2. Closed /\ [Next]_vars => Closed'
  <2>. SUFFICES ASSUME Closed, [Next]_vars PROVE Closed'
    OBVIOUS
  <2>1. CASE SaturationRound
    <3>1. stage' # "saturating" => subClass' = subClass /\ subProperty' = subProperty
      BY <2>1 DEF SaturationRound
    <3>2. InferredClasses \subseteq subClass' /\ InferredProperties \subseteq subProperty'
      BY <2>1 DEF SaturationRound
    <3>3. stage' # "saturating" => /\ InferredClasses' \subseteq subClass'
                                  /\ InferredProperties' \subseteq subProperty'
      BY <3>1, <3>2 DEF InferredClasses, InferredProperties
    <3>. QED
      BY <2>1, <3>3 DEF Closed, SaturationRound
  <2>2. CASE ExtractConstraints
    BY <2>2 DEF Closed, ExtractConstraints, InferredClasses, InferredProperties
  <2>3. CASE UNCHANGED vars
    BY <2>3 DEF Closed, vars, InferredClasses, InferredProperties
  <2>. QED
    BY <2>1, <2>2, <2>3 DEF Next
<1>. QED
  BY <1>1, <1>2, PTL DEF SaturationSpec

-----------------------------------------------------------------------------
(* Completeness.                                                           *)

\* What lies above a concept or a role, itself included.
AboveConcept(c) == {c} \cup {d \in Concepts : <<c, d>> \in subClass}
AboveRole(r) == {r} \cup {s \in Roles : <<r, s>> \in subProperty}

\* Two sets of axioms that no rule of a round adds to.
IsClosed == /\ InferredClasses \subseteq subClass
            /\ InferredProperties \subseteq subProperty

-----------------------------------------------------------------------------
(* What the rules yield, for what lies above.                              *)

LEMMA AboveConceptIsUpward ==
    ASSUME TypeOK, IsClosed, NEW c \in Concepts, NEW d \in AboveConcept(c), NEW e,
           <<d, e>> \in subClass
    PROVE  e \in AboveConcept(c)
<1>1. d \in Concepts /\ e \in Concepts
  BY DEF TypeOK, AboveConcept
<1>2. CASE d = c
  BY <1>1, <1>2 DEF AboveConcept
<1>3. CASE d # c /\ e # c
  <2>1. <<c, e>> \in TwoSteps(subClass, Concepts)
    BY <1>1, <1>3 DEF TwoSteps, AboveConcept
  <2> QED
    BY <1>1, <2>1 DEF IsClosed, InferredClasses, AboveConcept
<1> QED
  BY <1>1, <1>2, <1>3 DEF AboveConcept

LEMMA AboveRoleIsUpward ==
    ASSUME TypeOK, IsClosed, NEW r \in Roles, NEW s \in AboveRole(r), NEW u,
           <<s, u>> \in subProperty
    PROVE  u \in AboveRole(r)
<1>1. s \in Roles /\ u \in Roles
  BY DEF TypeOK, AboveRole
<1>2. CASE s = r
  BY <1>1, <1>2 DEF AboveRole
<1>3. CASE s # r /\ u # r
  <2>1. <<r, u>> \in TwoSteps(subProperty, Roles)
    BY <1>1, <1>3 DEF TwoSteps, AboveRole
  <2> QED
    BY <1>1, <2>1 DEF IsClosed, InferredProperties, AboveRole
<1> QED
  BY <1>1, <1>2, <1>3 DEF AboveRole

LEMMA InverseOfInverse ==
    ASSUME NEW r \in Roles
    PROVE  Inv(r) \in Roles /\ Inv(Inv(r)) = r
  BY DEF Inv, Roles

LEMMA InvertedIsFound ==
    ASSUME IsClosed, NEW r, NEW s, <<r, s>> \in subProperty
    PROVE  <<Inv(r), Inv(s)>> \in subProperty
<1>1. <<Inv(r), Inv(s)>> \in Inverted(subProperty)
  BY DEF Inverted
<1> QED
  BY <1>1 DEF IsClosed, InferredProperties

\* To lie above an inverse is to have the inverse lie above.
LEMMA AboveInverse ==
    ASSUME TypeOK, IsClosed, NEW r \in Roles, NEW s \in Roles
    PROVE  Inv(s) \in AboveRole(r) <=> s \in AboveRole(Inv(r))
<1>1. /\ Inv(r) \in Roles /\ Inv(Inv(r)) = r
      /\ Inv(s) \in Roles /\ Inv(Inv(s)) = s
  BY InverseOfInverse
<1>2. ASSUME Inv(s) \in AboveRole(r) PROVE s \in AboveRole(Inv(r))
  <2>1. CASE Inv(s) = r
    BY <1>1, <2>1 DEF AboveRole
  <2>2. CASE <<r, Inv(s)>> \in subProperty
    <3>1. <<Inv(r), Inv(Inv(s))>> \in subProperty
      BY <2>2, InvertedIsFound
    <3> QED
      BY <1>1, <3>1 DEF AboveRole
  <2> QED
    BY <1>2, <2>1, <2>2 DEF AboveRole
<1>3. ASSUME s \in AboveRole(Inv(r)) PROVE Inv(s) \in AboveRole(r)
  <2>1. CASE s = Inv(r)
    BY <1>1, <2>1 DEF AboveRole
  <2>2. CASE <<Inv(r), s>> \in subProperty
    <3>1. <<Inv(Inv(r)), Inv(s)>> \in subProperty
      BY <2>2, InvertedIsFound
    <3> QED
      BY <1>1, <3>1 DEF AboveRole
  <2> QED
    BY <1>3, <2>1, <2>2 DEF AboveRole
<1> QED
  BY <1>2, <1>3

\* The existential of a role above lies above the role's existential.
LEMMA ExistentialIsAbove ==
    ASSUME IsClosed, NEW r \in Roles, NEW s \in AboveRole(r)
    PROVE  Exist(s) \in AboveConcept(Exist(r))
<1>1. CASE s = r
  BY <1>1 DEF AboveConcept
<1>2. CASE s \in Roles /\ <<r, s>> \in subProperty
  <2>1. <<Exist(r), Exist(s)>> \in Existentials(subProperty)
    BY <1>2 DEF Existentials
  <2>2. <<Exist(r), Exist(s)>> \in subClass
    BY <2>1 DEF IsClosed, InferredClasses
  <2> QED
    BY <1>2, <2>2, NamesAreTyped DEF AboveConcept
<1> QED
  BY <1>1, <1>2 DEF AboveRole

-----------------------------------------------------------------------------
(* A class without roles: everything is in what lies above the class, and  *)
(* nothing is related.  No axiom has a class below an existential, so that *)
(* this is a model.                                                        *)

ClassModel(c) ==
    [class |-> [d \in Classes |-> IF Named(d) \in AboveConcept(Named(c))
                                  THEN Individuals ELSE {}],
     prop |-> [p \in Properties |-> {}]]

LEMMA ClassAxiomsAbove ==
    ASSUME TypeOK, IsClosed, ClassAxioms(tbox) \subseteq subClass, NEW c \in Concepts
    PROVE  \A a \in tbox.subClass :
              Named(a[1]) \in AboveConcept(c) => Named(a[2]) \in AboveConcept(c)
<1> SUFFICES ASSUME NEW a \in tbox.subClass, Named(a[1]) \in AboveConcept(c)
             PROVE  Named(a[2]) \in AboveConcept(c)
  OBVIOUS
<1>1. <<Named(a[1]), Named(a[2])>> \in subClass
  BY DEF ClassAxioms
<1> QED
  BY <1>1, AboveConceptIsUpward

LEMMA ClassModelIsModel ==
    ASSUME TypeOK, IsClosed, ClassAxioms(tbox) \subseteq subClass, NEW c \in Classes
    PROVE  ClassModel(c) \in Models
<1> DEFINE I == ClassModel(c)
<1>1. I \in Interpretations
  BY DEF ClassModel, Interpretations
<1>2. tbox \in TBoxType
  BY TBoxesAssumption DEF TypeOK
<1>3. \A p \in Properties : I.prop[p] = {}
  BY DEF ClassModel
<1>4. ASSUME NEW a \in tbox.subClass PROVE I.class[a[1]] \subseteq I.class[a[2]]
  <2>1. Named(a[1]) \in AboveConcept(Named(c)) => Named(a[2]) \in AboveConcept(Named(c))
    BY ClassAxiomsAbove, NamesAreTyped
  <2>2. a[1] \in Classes /\ a[2] \in Classes
    BY <1>2 DEF TBoxType
  <2> QED
    BY <2>1, <2>2 DEF ClassModel
<1>5. ASSUME NEW a \in tbox.subProperty PROVE I.prop[a[1]] \subseteq I.prop[a[2]]
  BY <1>2, <1>3 DEF TBoxType
<1>6. ASSUME NEW p \in Properties
      PROVE  /\ \A d : HasDomain(I, p, d) /\ HasRange(I, p, d)
             /\ tbox.inverse[p] # NoProperty => AreInverse(I, p, tbox.inverse[p])
  BY <1>2, <1>3 DEF HasDomain, HasRange, AreInverse, TBoxType
<1> HIDE DEF I
<1>7. IsModel(I, tbox)
  BY <1>4, <1>5, <1>6 DEF IsModel
<1> QED
  BY <1>1, <1>7, IsAModel DEF TypeOK, I

-----------------------------------------------------------------------------
(* A role with two ends: one pair is related by what lies above the role,  *)
(* and each end is in what lies above its existential.                     *)

EdgeModel(r, x, y) ==
    [class |-> [d \in Classes |->
                  {u \in {x} : Named(d) \in AboveConcept(Exist(r))}
                  \cup {u \in {y} : Named(d) \in AboveConcept(Exist(Inv(r)))}],
     prop |-> [p \in Properties |->
                  {u \in {<<x, y>>} : Role(p) \in AboveRole(r)}
                  \cup {u \in {<<y, x>>} : Role(p) \in AboveRole(Inv(r))}]]

LEMMA EdgeModelParts ==
    ASSUME NEW r \in Roles, NEW x \in Individuals, NEW y \in Individuals, x # y
    PROVE  /\ EdgeModel(r, x, y) \in Interpretations
           /\ \A d \in Classes, u \in Individuals :
                 u \in EdgeModel(r, x, y).class[d] <=>
                    \/ u = x /\ Named(d) \in AboveConcept(Exist(r))
                    \/ u = y /\ Named(d) \in AboveConcept(Exist(Inv(r)))
           /\ \A p \in Properties, u, v \in Individuals :
                 <<u, v>> \in EdgeModel(r, x, y).prop[p] <=>
                    \/ u = x /\ v = y /\ Role(p) \in AboveRole(r)
                    \/ u = y /\ v = x /\ Role(p) \in AboveRole(Inv(r))
  BY DEF EdgeModel, Interpretations

\* Exactly what lies above the role relates the first end to the second.
LEMMA EdgeModelRelates ==
    ASSUME TypeOK, IsClosed, NEW r \in Roles, NEW x \in Individuals,
           NEW y \in Individuals, x # y, NEW s \in Roles, NEW u \in Individuals
    PROVE  Related(EdgeModel(r, x, y), s, x, u) <=> u = y /\ s \in AboveRole(r)
<1> DEFINE I == EdgeModel(r, x, y)
           p == s.prop
<1>1. p \in Properties /\ Role(p) \in Roles /\ s \in {Role(p), Inv(Role(p))}
  BY DEF Roles, Role, Inv
<1>2. CASE s = Role(p)
  <2>1. Related(I, s, x, u) <=> <<x, u>> \in I.prop[p]
    BY <1>1, <1>2, RoleRelates
  <2> QED
    BY <1>1, <1>2, <2>1, EdgeModelParts
<1>3. CASE s = Inv(Role(p))
  <2>1. Related(I, s, x, u) <=> <<u, x>> \in I.prop[p]
    BY <1>1, <1>3, RoleRelates, InverseRelates
  <2>2. s \in AboveRole(r) <=> Role(p) \in AboveRole(Inv(r))
    BY <1>1, <1>3, AboveInverse
  <2> QED
    BY <1>1, <2>1, <2>2, EdgeModelParts
<1> QED
  BY <1>1, <1>2, <1>3

\* What a property's domain or range axiom puts above the ends of a role.
LEMMA ConstraintsAbove ==
    ASSUME TypeOK, IsClosed, ClassAxioms(tbox) \subseteq subClass,
           NEW r \in Roles, NEW p \in Properties, Role(p) \in AboveRole(r)
    PROVE  /\ tbox.domain[p] # NoClass =>
                 Named(tbox.domain[p]) \in AboveConcept(Exist(r))
           /\ tbox.range[p] # NoClass =>
                 Named(tbox.range[p]) \in AboveConcept(Exist(Inv(r)))
<1>1. /\ Inv(r) \in Roles /\ Role(p) \in Roles /\ Inv(Role(p)) \in Roles
      /\ Exist(r) \in Concepts /\ Exist(Inv(r)) \in Concepts
      /\ Inv(Inv(r)) = r /\ Inv(Inv(Role(p))) = Role(p)
  BY NamesAreTyped, InverseOfInverse
<1>2. Exist(Role(p)) \in AboveConcept(Exist(r))
  BY ExistentialIsAbove
<1>3. Inv(Role(p)) \in AboveRole(Inv(r))
  BY <1>1, AboveInverse
<1>4. Exist(Inv(Role(p))) \in AboveConcept(Exist(Inv(r)))
  BY <1>1, <1>3, ExistentialIsAbove
<1>5. ASSUME tbox.domain[p] # NoClass
      PROVE  <<Exist(Role(p)), Named(tbox.domain[p])>> \in subClass
  BY <1>5 DEF ClassAxioms, DomainAxioms
<1>6. ASSUME tbox.range[p] # NoClass
      PROVE  <<Exist(Inv(Role(p))), Named(tbox.range[p])>> \in subClass
  BY <1>6 DEF ClassAxioms, RangeAxioms
<1> QED
  BY <1>1, <1>2, <1>4, <1>5, <1>6, AboveConceptIsUpward

LEMMA InversesAbove ==
    ASSUME TypeOK, IsClosed, PropertyAxioms(tbox) \subseteq subProperty,
           NEW r \in Roles, NEW p \in WithInverse(tbox)
    PROVE  Role(p) \in AboveRole(r) <=> Role(tbox.inverse[p]) \in AboveRole(Inv(r))
<1> DEFINE q == tbox.inverse[p]
<1>1. p \in Properties /\ q \in Properties
  BY TBoxesAssumption DEF WithInverse, TypeOK, TBoxType
<1>2. /\ Role(p) \in Roles /\ Role(q) \in Roles /\ Inv(r) \in Roles
      /\ Inv(Inv(r)) = r
  BY <1>1, NamesAreTyped, InverseOfInverse
<1>3. /\ <<Inv(Role(p)), Role(q)>> \in subProperty
      /\ <<Role(q), Inv(Role(p))>> \in subProperty
  BY DEF PropertyAxioms, InverseAxioms
<1>4. Role(p) \in AboveRole(r) <=> Inv(Role(p)) \in AboveRole(Inv(r))
  BY <1>2, AboveInverse
<1>5. Inv(Role(p)) \in AboveRole(Inv(r)) <=> Role(q) \in AboveRole(Inv(r))
  BY <1>2, <1>3, AboveRoleIsUpward
<1> QED
  BY <1>4, <1>5

LEMMA SubPropertiesAbove ==
    ASSUME TypeOK, IsClosed, PropertyAxioms(tbox) \subseteq subProperty, NEW r \in Roles,
           NEW a \in tbox.subProperty, Role(a[1]) \in AboveRole(r)
    PROVE  Role(a[2]) \in AboveRole(r)
<1>1. <<Role(a[1]), Role(a[2])>> \in subProperty
  BY DEF PropertyAxioms
<1> QED
  BY <1>1, AboveRoleIsUpward

LEMMA EdgeModelIsModel ==
    ASSUME TypeOK, IsClosed, ClassAxioms(tbox) \subseteq subClass,
           PropertyAxioms(tbox) \subseteq subProperty, NEW r \in Roles,
           NEW x \in Individuals, NEW y \in Individuals, x # y
    PROVE  EdgeModel(r, x, y) \in Models
<1> DEFINE I == EdgeModel(r, x, y)
<1>1. /\ I \in Interpretations /\ tbox \in TBoxType
      /\ Inv(r) \in Roles /\ Inv(Inv(r)) = r
      /\ Exist(r) \in Concepts /\ Exist(Inv(r)) \in Concepts
  BY EdgeModelParts, TBoxesAssumption, NamesAreTyped, InverseOfInverse DEF TypeOK
<1> HIDE DEF I
<1>2. ASSUME NEW a \in tbox.subClass PROVE I.class[a[1]] \subseteq I.class[a[2]]
  <2>1. a[1] \in Classes /\ a[2] \in Classes
    BY <1>1 DEF TBoxType
  <2>2. I.class[a[1]] \subseteq Individuals
    BY <1>1, <2>1 DEF Interpretations
  <2>3. /\ Named(a[1]) \in AboveConcept(Exist(r)) =>
              Named(a[2]) \in AboveConcept(Exist(r))
        /\ Named(a[1]) \in AboveConcept(Exist(Inv(r))) =>
              Named(a[2]) \in AboveConcept(Exist(Inv(r)))
    BY <1>1, ClassAxiomsAbove
  <2> QED
    BY <2>1, <2>2, <2>3, EdgeModelParts DEF I
<1>3. ASSUME NEW a \in tbox.subProperty PROVE I.prop[a[1]] \subseteq I.prop[a[2]]
  <2>1. a[1] \in Properties /\ a[2] \in Properties
    BY <1>1 DEF TBoxType
  <2>2. I.prop[a[1]] \subseteq Individuals \X Individuals
    BY <1>1, <2>1 DEF Interpretations
  <2>3. /\ Role(a[1]) \in AboveRole(r) => Role(a[2]) \in AboveRole(r)
        /\ Role(a[1]) \in AboveRole(Inv(r)) => Role(a[2]) \in AboveRole(Inv(r))
    BY <1>1, SubPropertiesAbove
  <2>4. \A u, v \in Individuals : <<u, v>> \in I.prop[a[1]] => <<u, v>> \in I.prop[a[2]]
    BY <2>1, <2>3, EdgeModelParts DEF I
  <2> QED
    BY <2>2, <2>4
<1>4. ASSUME NEW p \in Properties, tbox.domain[p] # NoClass
      PROVE  HasDomain(I, p, tbox.domain[p])
  <2>1. tbox.domain[p] \in Classes
    BY <1>1, <1>4 DEF TBoxType
  <2>2. /\ Role(p) \in AboveRole(r) => Named(tbox.domain[p]) \in AboveConcept(Exist(r))
        /\ Role(p) \in AboveRole(Inv(r)) =>
              Named(tbox.domain[p]) \in AboveConcept(Exist(Inv(r)))
    BY <1>1, <1>4, ConstraintsAbove
  <2> QED
    BY <2>1, <2>2, EdgeModelParts DEF HasDomain, I
<1>5. ASSUME NEW p \in Properties, tbox.range[p] # NoClass
      PROVE  HasRange(I, p, tbox.range[p])
  <2>1. tbox.range[p] \in Classes
    BY <1>1, <1>5 DEF TBoxType
  <2>2. /\ Role(p) \in AboveRole(r) =>
              Named(tbox.range[p]) \in AboveConcept(Exist(Inv(r)))
        /\ Role(p) \in AboveRole(Inv(r)) =>
              Named(tbox.range[p]) \in AboveConcept(Exist(r))
    BY <1>1, <1>5, ConstraintsAbove
  <2> QED
    BY <2>1, <2>2, EdgeModelParts DEF HasRange, I
<1>6. ASSUME NEW p \in Properties, tbox.inverse[p] # NoProperty
      PROVE  AreInverse(I, p, tbox.inverse[p])
  <2>1. tbox.inverse[p] \in Properties /\ p \in WithInverse(tbox)
    BY <1>1, <1>6 DEF TBoxType, WithInverse
  <2>2. /\ Role(p) \in AboveRole(r) <=> Role(tbox.inverse[p]) \in AboveRole(Inv(r))
        /\ Role(p) \in AboveRole(Inv(r)) <=> Role(tbox.inverse[p]) \in AboveRole(r)
    BY <1>1, <2>1, InversesAbove
  <2>3. ASSUME NEW q \in Properties
        PROVE  \A u, v \in Individuals : <<u, v>> \in I.prop[q] <=>
                  \/ u = x /\ v = y /\ Role(q) \in AboveRole(r)
                  \/ u = y /\ v = x /\ Role(q) \in AboveRole(Inv(r))
    BY EdgeModelParts DEF I
  <2>4. ASSUME NEW u \in Individuals, NEW v \in Individuals
        PROVE  <<u, v>> \in I.prop[p] <=> <<v, u>> \in I.prop[tbox.inverse[p]]
    BY <2>1, <2>2, <2>3
  <2> QED
    BY <2>4 DEF AreInverse
<1>7. IsModel(I, tbox)
  BY <1>2, <1>3, <1>4, <1>5, <1>6 DEF IsModel
<1> QED
  BY <1>1, <1>7, IsAModel DEF TypeOK, I

-----------------------------------------------------------------------------
(* The theorem.                                                            *)

LEMMA ClosedIsComplete ==
    ASSUME TypeOK, IsClosed, ClassAxioms(tbox) \subseteq subClass,
           PropertyAxioms(tbox) \subseteq subProperty
    PROVE  /\ \A a \in Concepts \X Concepts :
                 a[1] # a[2] /\ (\A I \in Models : ClassBelow(I, a)) => a \in subClass
           /\ \A a \in Roles \X Roles :
                 a[1] # a[2] /\ (\A I \in Models : PropertyBelow(I, a)) => a \in subProperty
<1>1. PICK x \in Individuals, y \in Individuals : x # y
  BY IndividualsAssumption
<1>2. ASSUME NEW b \in Concepts, NEW d \in Concepts, b # d,
             \A I \in Models : ClassBelow(I, <<b, d>>)
      PROVE  <<b, d>> \in subClass
  <2>1. SUFFICES d \in AboveConcept(b)
    BY <1>2 DEF AboveConcept
  <2>2. ASSUME NEW c \in Classes, b = Named(c) PROVE d \in AboveConcept(b)
    <3> DEFINE I == ClassModel(c)
    <3>1. ClassBelow(I, <<b, d>>)
      BY <1>2, ClassModelIsModel
    <3>2. IsIn(I, b, x)
      BY <1>1, <2>2, MembersOfConcepts DEF ClassModel, AboveConcept
    <3>3. IsIn(I, d, x)
      BY <1>1, <3>1, <3>2 DEF ClassBelow
    <3>4. ASSUME NEW e \in Classes, d = Named(e) PROVE d \in AboveConcept(b)
      <4>1. x \in I.class[e]
        BY <3>3, <3>4, MembersOfConcepts
      <4> QED
        BY <2>2, <3>4, <4>1 DEF ClassModel
    <3>5. ASSUME NEW s \in Roles, d = Exist(s) PROVE FALSE
      <4>1. PICK u \in Individuals : Related(I, s, x, u)
        BY <3>3, <3>5, MembersOfConcepts
      <4>2. \A p \in Properties : I.prop[p] = {}
        BY DEF ClassModel
      <4>3. s.prop \in Properties
        BY DEF Roles
      <4> QED
        BY <4>1, <4>2, <4>3 DEF Related
    <3> QED
      BY <3>4, <3>5 DEF Concepts
  <2>3. ASSUME NEW r \in Roles, b = Exist(r) PROVE d \in AboveConcept(b)
    <3> DEFINE I == EdgeModel(r, x, y)
    <3>1. ClassBelow(I, <<b, d>>)
      BY <1>1, <1>2, EdgeModelIsModel
    <3>2. \A s \in Roles, u \in Individuals :
             Related(I, s, x, u) <=> u = y /\ s \in AboveRole(r)
      BY <1>1, EdgeModelRelates
    <3>3. IsIn(I, b, x)
      BY <1>1, <2>3, <3>2, MembersOfConcepts DEF AboveRole
    <3>4. IsIn(I, d, x)
      BY <1>1, <3>1, <3>3 DEF ClassBelow
    <3> HIDE DEF I
    <3>5. ASSUME NEW e \in Classes, d = Named(e) PROVE d \in AboveConcept(b)
      <4>1. x \in I.class[e]
        BY <3>4, <3>5, MembersOfConcepts
      <4>2. Named(e) \in AboveConcept(Exist(r))
        BY <1>1, <4>1, EdgeModelParts DEF I
      <4> QED
        BY <2>3, <3>5, <4>2
    <3>6. ASSUME NEW s \in Roles, d = Exist(s) PROVE d \in AboveConcept(b)
      <4>1. s \in AboveRole(r)
        BY <3>2, <3>4, <3>6, MembersOfConcepts
      <4> QED
        BY <2>3, <3>6, <4>1, ExistentialIsAbove
    <3> QED
      BY <3>5, <3>6 DEF Concepts
  <2> QED
    BY <2>2, <2>3 DEF Concepts
<1>3. ASSUME NEW r \in Roles, NEW s \in Roles, r # s,
             \A I \in Models : PropertyBelow(I, <<r, s>>)
      PROVE  <<r, s>> \in subProperty
  <2> DEFINE I == EdgeModel(r, x, y)
  <2>1. PropertyBelow(I, <<r, s>>)
    BY <1>1, <1>3, EdgeModelIsModel
  <2>2. \A t \in Roles : Related(I, t, x, y) <=> t \in AboveRole(r)
    BY <1>1, EdgeModelRelates
  <2> HIDE DEF I
  <2>3. Related(I, r, x, y)
    BY <2>2 DEF AboveRole
  <2>4. Related(I, s, x, y)
    BY <1>1, <2>1, <2>3 DEF PropertyBelow
  <2> QED
    BY <1>3, <2>2, <2>4 DEF AboveRole
<1>4. \A b, d \in Concepts :
         b # d /\ (\A I \in Models : ClassBelow(I, <<b, d>>)) => <<b, d>> \in subClass
  BY <1>2
<1>5. \A r, s \in Roles :
         r # s /\ (\A I \in Models : PropertyBelow(I, <<r, s>>)) => <<r, s>> \in subProperty
  BY <1>3
<1>6. \A a \in Concepts \X Concepts :
         a = <<a[1], a[2]>> /\ a[1] \in Concepts /\ a[2] \in Concepts
  OBVIOUS
<1>7. \A a \in Roles \X Roles : a = <<a[1], a[2]>> /\ a[1] \in Roles /\ a[2] \in Roles
  OBVIOUS
<1> QED
  BY <1>4, <1>5, <1>6, <1>7

\* When the rounds end, every subsumption between different classes, existentials or
\* roles that holds in all models of the ontology has been found (saturator.rs:55-130).
THEOREM Completeness == SaturationSpec => []SaturationIsComplete
<1>1. TypeOK /\ Closed => SaturationIsComplete
  <2> SUFFICES ASSUME TypeOK, Closed, stage = "saturated"
               PROVE  SaturationIsComplete
    BY DEF SaturationIsComplete
  <2>1. /\ IsClosed /\ ClassAxioms(tbox) \subseteq subClass
        /\ PropertyAxioms(tbox) \subseteq subProperty
    BY DEF Closed, IsClosed
  <2> QED
    BY <2>1, ClosedIsComplete DEF SaturationIsComplete
<1> QED
  BY <1>1, TypeCorrect, SaturationIsClosed, PTL

-----------------------------------------------------------------------------
(* The rounds come to an end.                                              *)

LEMMA NamesAreFinite ==
    ASSUME IsFiniteSet(Classes), IsFiniteSet(Properties)
    PROVE  IsFiniteSet(Roles) /\ IsFiniteSet(Concepts)
<1> DEFINE both == [x \in Properties \X BOOLEAN |-> [prop |-> x[1], inverse |-> x[2]]]
           named == [c \in Classes |-> Named(c)]
           exist == [r \in Roles |-> Exist(r)]
<1>1. IsFiniteSet(BOOLEAN)
  <2>1. BOOLEAN = {TRUE, FALSE}
    BY Zenon
  <2>2. ASSUME NEW a, NEW b PROVE IsFiniteSet({a, b})
    <3>1. IsFiniteSet({a} \cup {b})
      BY FS_Singleton, FS_Union
    <3>2. {a} \cup {b} = {a, b}
      OBVIOUS
    <3> QED
      BY <3>1, <3>2
  <2> QED
    BY <2>1, <2>2, Zenon
<1>2. IsFiniteSet(Properties \X BOOLEAN)
  BY <1>1, FS_Product
<1>3. both \in Surjection(Properties \X BOOLEAN, Roles)
  <2>1. ASSUME NEW r \in Roles PROVE \E x \in Properties \X BOOLEAN : both[x] = r
    <3>1. <<r.prop, r.inverse>> \in Properties \X BOOLEAN
      BY DEF Roles
    <3>2. both[<<r.prop, r.inverse>>] = r
      BY <3>1 DEF Roles
    <3> QED
      BY <3>1, <3>2
  <2>2. both \in [Properties \X BOOLEAN -> Roles]
    BY DEF Roles
  <2> QED
    BY <2>1, <2>2 DEF Surjection
<1>4. IsFiniteSet(Roles)
  BY <1>2, <1>3, FS_Surjection
<1>5. /\ named \in Surjection(Classes, {Named(c) : c \in Classes})
      /\ exist \in Surjection(Roles, {Exist(r) : r \in Roles})
  BY DEF Surjection
<1>6. IsFiniteSet({Named(c) : c \in Classes}) /\ IsFiniteSet({Exist(r) : r \in Roles})
  BY <1>4, <1>5, FS_Surjection
<1> QED
  BY <1>4, <1>6, FS_Union DEF Concepts

\* What is not among the axioms yet.
Missing == Cardinality((Concepts \X Concepts) \ subClass)
             + Cardinality((Roles \X Roles) \ subProperty)
RoundsRunOut ==
    SaturationRound => /\ Missing \in Nat /\ Missing' \in Nat
                       /\ stage' = "saturated" \/ Missing' < Missing

LEMMA LessIsMissing ==
    ASSUME NEW S, IsFiniteSet(S), NEW A \in SUBSET S, NEW B \in SUBSET S, A \subseteq B
    PROVE  /\ Cardinality(S \ A) \in Nat /\ Cardinality(S \ B) \in Nat
           /\ Cardinality(S \ B) <= Cardinality(S \ A)
           /\ A # B => Cardinality(S \ B) < Cardinality(S \ A)
<1>1. IsFiniteSet(S \ A) /\ IsFiniteSet(S \ B) /\ S \ B \in SUBSET (S \ A)
  BY FS_Difference
<1>2. Cardinality(S \ A) \in Nat /\ Cardinality(S \ B) \in Nat
  BY <1>1, FS_CardinalityType
<1>3. /\ Cardinality(S \ B) <= Cardinality(S \ A)
      /\ Cardinality(S \ A) = Cardinality(S \ B) => S \ A = S \ B
  BY <1>1, FS_Subset
<1>4. A # B => S \ A # S \ B
  OBVIOUS
<1> QED
  BY <1>2, <1>3, <1>4

\* Every round but the last finds a pair that was missing, of the finitely many there are,
\* so that no cycle of classes, properties or inverses keeps the rounds going: the variant
\* that Saturates rests on (saturator.rs:55-130).
THEOREM NoRoundIsInVain ==
    ASSUME IsFiniteSet(Classes), IsFiniteSet(Properties)
    PROVE  SaturationSpec => [][RoundsRunOut]_vars
<1>1. ASSUME TypeOK, TypeOK', SaturationRound
      PROVE  /\ Missing \in Nat /\ Missing' \in Nat
             /\ stage' = "saturated" \/ Missing' < Missing
  <2> DEFINE CC == Concepts \X Concepts
             RR == Roles \X Roles
  <2>1. IsFiniteSet(CC) /\ IsFiniteSet(RR)
    BY NamesAreFinite, FS_Product
  <2>2. /\ subClass \in SUBSET CC /\ subClass' \in SUBSET CC
        /\ subProperty \in SUBSET RR /\ subProperty' \in SUBSET RR
    BY <1>1 DEF TypeOK, Concepts, Roles, Named, Exist
  <2>3. /\ subClass \subseteq subClass' /\ subProperty \subseteq subProperty'
        /\ stage' = "saturated" \/ subClass' # subClass \/ subProperty' # subProperty
    BY <1>1 DEF SaturationRound
  <2>4. /\ Missing = Cardinality(CC \ subClass) + Cardinality(RR \ subProperty)
        /\ Missing' = Cardinality(CC \ subClass') + Cardinality(RR \ subProperty')
    BY DEF Missing
  <2> HIDE DEF CC, RR
  <2>5. /\ Cardinality(CC \ subClass) \in Nat /\ Cardinality(CC \ subClass') \in Nat
        /\ Cardinality(CC \ subClass') <= Cardinality(CC \ subClass)
        /\ subClass # subClass' => Cardinality(CC \ subClass') < Cardinality(CC \ subClass)
    BY <2>1, <2>2, <2>3, LessIsMissing
  <2>6. /\ Cardinality(RR \ subProperty) \in Nat /\ Cardinality(RR \ subProperty') \in Nat
        /\ Cardinality(RR \ subProperty') <= Cardinality(RR \ subProperty)
        /\ subProperty # subProperty' =>
              Cardinality(RR \ subProperty') < Cardinality(RR \ subProperty)
    BY <2>1, <2>2, <2>3, LessIsMissing
  <2> QED
    BY <2>3, <2>4, <2>5, <2>6
<1>2. TypeOK /\ TypeOK' /\ [Next]_vars => [RoundsRunOut]_vars
  BY <1>1 DEF RoundsRunOut
<1> QED
  BY <1>2, TypeCorrect, PTL DEF SaturationSpec
=============================================================================
