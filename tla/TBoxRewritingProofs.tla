------------------------- MODULE TBoxRewritingProofs -------------------------
(***************************************************************************)
(* The two halves of the reasoner agree for every ontology and every plan. *)
(* Both are compared with what the given axioms lead down to: first what   *)
(* saturation puts below a name, whose rounds may not find more than that, *)
(* then what a walk collects, which on a cyclic hierarchy must stop and    *)
(* may not leave out a name because an outer turn had not come to it yet.  *)
(***************************************************************************)
EXTENDS TBoxRewriting, SaturatorProofs, SequenceTheorems

-----------------------------------------------------------------------------
(* Hierarchies: what lies below a name is what the ontology says is.       *)

ClosedDown(told, D) == \A a \in told : a[2] \in D => a[1] \in D

\* The least set with n in it that the axioms told lead down from.
Least(told, names, n) ==
    {x \in names : \A D \in SUBSET names : n \in D /\ ClosedDown(told, D) => x \in D}
ToldBelow(c) == Least(tbox.subClass, Classes, c)
ToldUnder(p) == Least(tbox.subProperty, Properties, p)

InheritsConstraints(q, p) ==
    /\ tbox.domain[p] # NoClass => <<Exist(Role(q)), Named(tbox.domain[p])>> \in subClass
    /\ tbox.range[p] # NoClass => <<Exist(Inv(Role(q))), Named(tbox.range[p])>> \in subClass

\* The classes below a class are those it is told of, step by step; so are the properties,
\* where none has an inverse, and at least those otherwise.  A property has the domain and
\* the range of every property above it.
HierarchiesAreTold ==
    stage # "saturating" =>
        /\ \A c \in Classes : Below(c) = ToldBelow(c)
        /\ \A p \in Properties : /\ ToldUnder(p) \subseteq Under(p)
                                 /\ WithInverse(tbox) = {} => Under(p) = ToldUnder(p)
        /\ \A p \in Properties : \A q \in Under(p) : InheritsConstraints(q, p)

LEMMA LeastGrows ==
    ASSUME NEW told, NEW names, told \in SUBSET (names \X names),
           NEW x \in names, NEW y \in names, NEW z \in names
    PROVE  /\ x \in Least(told, names, x)
           /\ <<x, y>> \in told => x \in Least(told, names, y)
           /\ x \in Least(told, names, y) /\ y \in Least(told, names, z)
                => x \in Least(told, names, z)
<1>1. x \in Least(told, names, x)
  BY DEF Least
<1>2. ASSUME <<x, y>> \in told PROVE x \in Least(told, names, y)
  <2>1. ASSUME NEW D \in SUBSET names, y \in D, ClosedDown(told, D) PROVE x \in D
    BY <1>2, <2>1 DEF ClosedDown
  <2>. QED
    BY <2>1 DEF Least
<1>3. ASSUME x \in Least(told, names, y), y \in Least(told, names, z)
      PROVE  x \in Least(told, names, z)
  BY <1>3 DEF Least
<1>. QED
  BY <1>1, <1>2, <1>3

LEMMA ToldIsTyped ==
    ASSUME TypeOK
    PROVE  /\ tbox.subClass \in SUBSET (Classes \X Classes)
           /\ tbox.subProperty \in SUBSET (Properties \X Properties)
  BY TBoxesAssumption DEF TypeOK, TBoxType

\* Nothing is below an existential but existentials, and no class is found below another
\* but by what is told.
OnlyToldClasses ==
    /\ \A a \in subClass : a[2].kind = "exist" => a[1].kind = "exist"
    /\ \A x, c \in Classes : <<Named(x), Named(c)>> \in subClass => x \in ToldBelow(c)
\* Without inverses, roles are compared with roles of the same direction.
OnlyToldProperties ==
    WithInverse(tbox) = {} =>
        \A a \in subProperty : /\ a[1].inverse = a[2].inverse
                               /\ a[1].prop \in ToldUnder(a[2].prop)

LEMMA NamedIsNoExistential ==
    /\ \A c : Named(c).kind = "class" /\ Named(c).class = c
    /\ \A r : Exist(r).kind = "exist"
    /\ \A x \in Concepts : x.kind = "class" => x.class \in Classes /\ x = Named(x.class)
    /\ \A x \in Concepts : x.kind \in {"class", "exist"}
  BY DEF Named, Exist, Concepts

LEMMA GivenClassesAreTold ==
    ASSUME TypeOK, subClass = ClassAxioms(tbox)
    PROVE  OnlyToldClasses
<1>1. \A a \in ClassAxioms(tbox) :
         \/ \E b \in tbox.subClass : a = <<Named(b[1]), Named(b[2])>>
         \/ a[1].kind = "exist" /\ a[2].kind = "class"
  BY NamedIsNoExistential DEF ClassAxioms, DomainAxioms, RangeAxioms
<1>2. \A a \in subClass : a[2].kind = "exist" => a[1].kind = "exist"
  BY <1>1, NamedIsNoExistential
<1>3. ASSUME NEW x \in Classes, NEW c \in Classes, <<Named(x), Named(c)>> \in subClass
      PROVE  x \in ToldBelow(c)
  <2>1. PICK b \in tbox.subClass : <<Named(x), Named(c)>> = <<Named(b[1]), Named(b[2])>>
    BY <1>1, <1>3, NamedIsNoExistential
  <2>2. x = b[1] /\ c = b[2]
    BY <2>1, NamedIsNoExistential
  <2>3. <<x, c>> \in tbox.subClass
    BY <2>2, ToldIsTyped
  <2>. QED
    BY <2>3, ToldIsTyped, LeastGrows DEF ToldBelow
<1>. QED
  BY <1>2, <1>3 DEF OnlyToldClasses

LEMMA InferredClassesAreTold ==
    ASSUME TypeOK, OnlyToldClasses, subClass' = subClass \cup InferredClasses, tbox' = tbox
    PROVE  OnlyToldClasses'
<1>1. ASSUME NEW a \in Existentials(subProperty) \cup Existentials(Inverted(subProperty))
      PROVE  a[1].kind = "exist" /\ a[2].kind = "exist"
  BY NamedIsNoExistential DEF Existentials
<1>2. ASSUME NEW x, NEW y, NEW z, <<x, y>> \in subClass, <<y, z>> \in subClass,
             z.kind = "exist"
      PROVE  x.kind = "exist"
  BY <1>2 DEF OnlyToldClasses
<1>3. ASSUME NEW x \in Classes, NEW y \in Concepts, NEW c \in Classes,
             <<Named(x), y>> \in subClass, <<y, Named(c)>> \in subClass
      PROVE  x \in ToldBelow(c)
  <2>1. y.kind # "exist"
    BY <1>3, NamedIsNoExistential DEF OnlyToldClasses
  <2>2. y.class \in Classes /\ y = Named(y.class)
    BY <2>1, NamedIsNoExistential
  <2>3. x \in ToldBelow(y.class) /\ y.class \in ToldBelow(c)
    BY <1>3, <2>2 DEF OnlyToldClasses
  <2>. QED
    BY <2>2, <2>3, ToldIsTyped, LeastGrows DEF ToldBelow
<1>4. \A a \in subClass' : a[2].kind = "exist" => a[1].kind = "exist"
  <2>. SUFFICES ASSUME NEW a \in subClass', a[2].kind = "exist" PROVE a[1].kind = "exist"
    OBVIOUS
  <2>1. CASE a \in subClass
    BY <2>1 DEF OnlyToldClasses
  <2>2. CASE a \in TwoSteps(subClass, Concepts)
    BY <1>2, <2>2 DEF TwoSteps
  <2>. QED
    BY <1>1, <2>1, <2>2 DEF InferredClasses
<1>5. ASSUME NEW x \in Classes, NEW c \in Classes, <<Named(x), Named(c)>> \in subClass'
      PROVE  x \in ToldBelow(c)
  <2>1. CASE <<Named(x), Named(c)>> \in subClass
    BY <2>1 DEF OnlyToldClasses
  <2>2. CASE <<Named(x), Named(c)>> \in TwoSteps(subClass, Concepts)
    BY <1>3, <2>2 DEF TwoSteps
  <2>3. <<Named(x), Named(c)>> \notin
           Existentials(subProperty) \cup Existentials(Inverted(subProperty))
    BY <1>1, NamedIsNoExistential
  <2>. QED
    BY <1>5, <2>1, <2>2, <2>3 DEF InferredClasses
<1>. QED
  BY <1>4, <1>5 DEF OnlyToldClasses, ToldBelow

LEMMA RolesAreTyped ==
    /\ \A p \in Properties : Role(p) \in Roles /\ Role(p).prop = p /\ Role(p).inverse = FALSE
    /\ \A r \in Roles : /\ r.prop \in Properties /\ r.inverse \in BOOLEAN
                        /\ r.inverse = FALSE => r = Role(r.prop)
    /\ \A r \in Roles : /\ Inv(r) \in Roles /\ Inv(r).prop = r.prop
                        /\ Inv(r).inverse = ~r.inverse
  BY DEF Role, Inv, Roles

LEMMA GivenPropertiesAreTold ==
    ASSUME TypeOK, subProperty = PropertyAxioms(tbox)
    PROVE  OnlyToldProperties
<1>. SUFFICES ASSUME WithInverse(tbox) = {}, NEW a \in subProperty
              PROVE  a[1].inverse = a[2].inverse /\ a[1].prop \in ToldUnder(a[2].prop)
  BY DEF OnlyToldProperties
<1>1. InverseAxioms(tbox) = {}
  BY DEF InverseAxioms
<1>2. PICK b \in tbox.subProperty : a = <<Role(b[1]), Role(b[2])>>
  BY <1>1 DEF PropertyAxioms
<1>3. b[1] \in Properties /\ b[2] \in Properties /\ b = <<b[1], b[2]>>
  BY ToldIsTyped
<1>4. a[1] = Role(b[1]) /\ a[2] = Role(b[2])
  BY <1>2
<1>5. b[1] \in ToldUnder(b[2])
  <2>1. <<b[1], b[2]>> \in tbox.subProperty
    BY <1>3
  <2>. QED
    BY <1>3, <2>1, ToldIsTyped, LeastGrows DEF ToldUnder
<1>. QED
  BY <1>3, <1>4, <1>5, RolesAreTyped

LEMMA InferredPropertiesAreTold ==
    ASSUME TypeOK, OnlyToldProperties, tbox' = tbox,
           subProperty' = subProperty \cup InferredProperties
    PROVE  OnlyToldProperties'
<1>. SUFFICES ASSUME WithInverse(tbox) = {}, NEW a \in subProperty'
              PROVE  a[1].inverse = a[2].inverse /\ a[1].prop \in ToldUnder(a[2].prop)
  BY DEF OnlyToldProperties, ToldUnder, WithInverse
<1>1. \A b \in subProperty : /\ b[1] \in Roles /\ b[2] \in Roles
                             /\ b[1].inverse = b[2].inverse
                             /\ b[1].prop \in ToldUnder(b[2].prop)
  BY DEF OnlyToldProperties, TypeOK
<1>2. CASE a \in subProperty
  BY <1>1, <1>2
<1>3. CASE a \in TwoSteps(subProperty, Roles)
  <2>1. PICK y : <<a[1], y>> \in subProperty /\ <<y, a[2]>> \in subProperty
    BY <1>3 DEF TwoSteps
  <2>2. /\ a[1] \in Roles /\ y \in Roles /\ a[2] \in Roles
        /\ a[1].inverse = y.inverse /\ y.inverse = a[2].inverse
        /\ a[1].prop \in ToldUnder(y.prop) /\ y.prop \in ToldUnder(a[2].prop)
    BY <1>1, <2>1
  <2>3. a[1].prop \in Properties /\ y.prop \in Properties /\ a[2].prop \in Properties
    BY <2>2, RolesAreTyped
  <2>. QED
    BY <2>2, <2>3, ToldIsTyped, LeastGrows DEF ToldUnder
<1>4. CASE a \in Inverted(subProperty)
  <2>1. PICK b \in subProperty : a = <<Inv(b[1]), Inv(b[2])>>
    BY <1>4 DEF Inverted
  <2>2. a[1] = Inv(b[1]) /\ a[2] = Inv(b[2])
    BY <2>1
  <2>. QED
    BY <1>1, <2>1, <2>2, RolesAreTyped
<1>. QED
  BY <1>2, <1>3, <1>4 DEF InferredProperties

\* Saturated axioms leave nothing below a name out.
LEMMA BelowIsClosed ==
    ASSUME TypeOK, ClassAxioms(tbox) \subseteq subClass,
           TwoSteps(subClass, Concepts) \subseteq subClass, NEW c \in Classes
    PROVE  ClosedDown(tbox.subClass, Below(c))
<1>. SUFFICES ASSUME NEW a \in tbox.subClass, a[2] \in Below(c) PROVE a[1] \in Below(c)
  BY DEF ClosedDown
<1>1. a[1] \in Classes /\ a[2] \in Classes
  BY ToldIsTyped
<1>2. <<Named(a[1]), Named(a[2])>> \in subClass
  BY DEF ClassAxioms
<1>3. CASE a[2] = c \/ a[1] = c
  BY <1>1, <1>2, <1>3 DEF Below
<1>4. CASE a[2] # c /\ a[1] # c
  <2>1. <<Named(a[2]), Named(c)>> \in subClass
    BY <1>4 DEF Below
  <2>2. Named(a[1]) # Named(c) /\ Named(a[1]) \in Concepts /\ Named(c) \in Concepts
    BY <1>1, <1>4, NamedIsNoExistential DEF Concepts
  <2>3. Named(a[2]) \in Concepts
    BY <1>1 DEF Concepts
  <2>4. <<Named(a[1]), Named(c)>> \in TwoSteps(subClass, Concepts)
    BY <1>2, <2>1, <2>2, <2>3 DEF TwoSteps
  <2>. QED
    BY <1>1, <2>4 DEF Below
<1>. QED
  BY <1>3, <1>4

LEMMA UnderIsClosed ==
    ASSUME TypeOK, PropertyAxioms(tbox) \subseteq subProperty,
           TwoSteps(subProperty, Roles) \subseteq subProperty, NEW p \in Properties
    PROVE  ClosedDown(tbox.subProperty, Under(p))
<1>. SUFFICES ASSUME NEW a \in tbox.subProperty, a[2] \in Under(p) PROVE a[1] \in Under(p)
  BY DEF ClosedDown
<1>1. a[1] \in Properties /\ a[2] \in Properties
  BY ToldIsTyped
<1>2. <<Role(a[1]), Role(a[2])>> \in subProperty
  BY DEF PropertyAxioms
<1>3. CASE a[2] = p \/ a[1] = p
  BY <1>1, <1>2, <1>3 DEF Under
<1>4. CASE a[2] # p /\ a[1] # p
  <2>1. <<Role(a[2]), Role(p)>> \in subProperty
    BY <1>4 DEF Under
  <2>2. Role(a[1]) # Role(p)
    BY <1>1, <1>4, RolesAreTyped
  <2>3. Role(a[1]) \in Roles /\ Role(a[2]) \in Roles /\ Role(p) \in Roles
    BY <1>1, RolesAreTyped
  <2>4. <<Role(a[1]), Role(p)>> \in TwoSteps(subProperty, Roles)
    BY <1>2, <2>1, <2>2, <2>3 DEF TwoSteps
  <2>. QED
    BY <1>1, <2>4 DEF Under
<1>. QED
  BY <1>3, <1>4

LEMMA ClosedContainsLeast ==
    ASSUME NEW told, NEW names, NEW n, NEW D \in SUBSET names, n \in D, ClosedDown(told, D)
    PROVE  Least(told, names, n) \subseteq D
  BY DEF Least

LEMMA ClassesBelowAreTold ==
    ASSUME TypeOK, OnlyToldClasses, Closed, stage # "saturating", NEW c \in Classes
    PROVE  Below(c) = ToldBelow(c)
<1>1. Below(c) \subseteq ToldBelow(c)
  <2>1. c \in ToldBelow(c)
    BY ToldIsTyped, LeastGrows DEF ToldBelow
  <2>. QED
    BY <2>1 DEF Below, OnlyToldClasses
<1>2. ToldBelow(c) \subseteq Below(c)
  <2>1. Below(c) \in SUBSET Classes /\ c \in Below(c)
    BY DEF Below
  <2>2. ClosedDown(tbox.subClass, Below(c))
    BY BelowIsClosed DEF Closed, InferredClasses
  <2>. QED
    BY <2>1, <2>2, ClosedContainsLeast DEF ToldBelow
<1>. QED
  BY <1>1, <1>2

LEMMA PropertiesUnderAreTold ==
    ASSUME TypeOK, OnlyToldProperties, Closed, stage # "saturating", NEW p \in Properties
    PROVE  /\ ToldUnder(p) \subseteq Under(p)
           /\ WithInverse(tbox) = {} => Under(p) = ToldUnder(p)
<1>1. ToldUnder(p) \subseteq Under(p)
  <2>1. Under(p) \in SUBSET Properties /\ p \in Under(p)
    BY DEF Under
  <2>2. ClosedDown(tbox.subProperty, Under(p))
    BY UnderIsClosed DEF Closed, InferredProperties
  <2>. QED
    BY <2>1, <2>2, ClosedContainsLeast DEF ToldUnder
<1>2. ASSUME WithInverse(tbox) = {} PROVE Under(p) \subseteq ToldUnder(p)
  <2>1. p \in ToldUnder(p)
    BY ToldIsTyped, LeastGrows DEF ToldUnder
  <2>2. ASSUME NEW x \in Properties, <<Role(x), Role(p)>> \in subProperty
        PROVE  x \in ToldUnder(p)
    <3>1. Role(x).prop \in ToldUnder(Role(p).prop)
      BY <1>2, <2>2 DEF OnlyToldProperties
    <3>. QED
      BY <3>1, RolesAreTyped
  <2>. QED
    BY <2>1, <2>2 DEF Under
<1>. QED
  BY <1>1, <1>2

LEMMA ConstraintsAreInherited ==
    ASSUME TypeOK, Closed, stage # "saturating",
           NEW p \in Properties, NEW q \in Under(p)
    PROVE  InheritsConstraints(q, p)
<1>1. /\ q \in Properties
      /\ q # p => <<Role(q), Role(p)>> \in subProperty
  BY DEF Under
<1>2. /\ Role(p) \in Roles /\ Role(q) \in Roles
      /\ Inv(Role(p)) \in Roles /\ Inv(Role(q)) \in Roles
  BY <1>1, RolesAreTyped
<1>3. ASSUME NEW r \in Roles, NEW s \in Roles, NEW c \in Classes,
             <<Exist(r), Exist(s)>> \in subClass, <<Exist(s), Named(c)>> \in subClass
      PROVE  <<Exist(r), Named(c)>> \in subClass
  <2>1. Exist(r) \in Concepts /\ Exist(s) \in Concepts /\ Named(c) \in Concepts
    BY DEF Concepts
  <2>2. Exist(r) # Named(c)
    BY NamedIsNoExistential
  <2>3. <<Exist(r), Named(c)>> \in TwoSteps(subClass, Concepts)
    BY <1>3, <2>1, <2>2 DEF TwoSteps
  <2>. QED
    BY <2>3 DEF Closed, InferredClasses
<1>4. ASSUME q # p
      PROVE  /\ <<Exist(Role(q)), Exist(Role(p))>> \in subClass
             /\ <<Exist(Inv(Role(q))), Exist(Inv(Role(p)))>> \in subClass
  <2>1. <<Exist(Role(q)), Exist(Role(p))>> \in Existentials(subProperty)
    BY <1>1, <1>4 DEF Existentials
  <2>2. <<Inv(Role(q)), Inv(Role(p))>> \in Inverted(subProperty)
    BY <1>1, <1>4 DEF Inverted
  <2>3. <<Exist(Inv(Role(q))), Exist(Inv(Role(p)))>> \in Existentials(Inverted(subProperty))
    BY <2>2 DEF Existentials
  <2>. QED
    BY <2>1, <2>3 DEF Closed, InferredClasses
<1>5. ASSUME tbox.domain[p] # NoClass
      PROVE  <<Exist(Role(q)), Named(tbox.domain[p])>> \in subClass
  <2>1. tbox.domain[p] \in Classes
    BY <1>5, TBoxesAssumption DEF TypeOK, TBoxType
  <2>2. <<Exist(Role(p)), Named(tbox.domain[p])>> \in subClass
    BY <1>5 DEF Closed, ClassAxioms, DomainAxioms
  <2>. QED
    BY <1>2, <1>3, <1>4, <2>1, <2>2
<1>6. ASSUME tbox.range[p] # NoClass
      PROVE  <<Exist(Inv(Role(q))), Named(tbox.range[p])>> \in subClass
  <2>1. tbox.range[p] \in Classes
    BY <1>6, TBoxesAssumption DEF TypeOK, TBoxType
  <2>2. <<Exist(Inv(Role(p))), Named(tbox.range[p])>> \in subClass
    BY <1>6 DEF Closed, ClassAxioms, RangeAxioms
  <2>. QED
    BY <1>2, <1>3, <1>4, <2>1, <2>2
<1>. QED
  BY <1>5, <1>6 DEF InheritsConstraints

\* When the rounds end (saturator.rs:55-130), exactly the classes that the given axioms
\* lead down to are below a class, however long the chain and with cycles too: what the
\* walk of owl2ql.rs:369-389 collects.  Domains, ranges and inverses put no class below
\* another, and what is below a property has its domain and range.
THEOREM HierarchiesAreAsTold == SaturationSpec => []HierarchiesAreTold
<1>1. Init => OnlyToldClasses /\ OnlyToldProperties
  <2>1. Init => TypeOK
    BY InitTyped
  <2>. QED
    BY <2>1, GivenClassesAreTold, GivenPropertiesAreTold DEF Init
<1>2. TypeOK /\ OnlyToldClasses /\ OnlyToldProperties /\ [Next]_vars
        => OnlyToldClasses' /\ OnlyToldProperties'
  <2>. SUFFICES ASSUME TypeOK, OnlyToldClasses, OnlyToldProperties, [Next]_vars
                PROVE  OnlyToldClasses' /\ OnlyToldProperties'
    OBVIOUS
  <2>1. CASE SaturationRound
    BY <2>1, InferredClassesAreTold, InferredPropertiesAreTold DEF SaturationRound
  <2>2. CASE ExtractConstraints \/ UNCHANGED vars
    <3>1. UNCHANGED <<tbox, subClass, subProperty>>
      BY <2>2 DEF ExtractConstraints, vars
    <3>. QED
      BY <3>1 DEF OnlyToldClasses, OnlyToldProperties, ToldBelow, ToldUnder, WithInverse
  <2>. QED
    BY <2>1, <2>2 DEF Next
<1>3. TypeOK /\ OnlyToldClasses /\ OnlyToldProperties /\ Closed => HierarchiesAreTold
  BY ClassesBelowAreTold, PropertiesUnderAreTold, ConstraintsAreInherited
     DEF HierarchiesAreTold
<1>. QED
  BY <1>1, <1>2, <1>3, TypeCorrect, SaturationIsClosed, PTL DEF SaturationSpec

\* Steps down stay in L, and L is all that they reach.
IsReached(L, told, names, n) ==
    /\ n \in L
    /\ L \subseteq names
    /\ \A x \in L, s \in names : <<s, x>> \in told => s \in L
    /\ \A D \in SUBSET L : n \in D /\ (\A x \in D, s \in names : <<s, x>> \in told => s \in D)
                              => D = L

LEMMA StepsOfLeast ==
    ASSUME NEW told, NEW names, told \in SUBSET (names \X names), NEW n \in names
    PROVE  IsReached(Least(told, names, n), told, names, n)
<1>1. n \in Least(told, names, n) /\ Least(told, names, n) \subseteq names
  <2>1. Least(told, names, n) \subseteq names
    BY DEF Least
  <2> QED
    BY <2>1, LeastGrows
<1>2. ASSUME NEW x \in Least(told, names, n), NEW s \in names, <<s, x>> \in told
      PROVE  s \in Least(told, names, n)
  <2>1. x \in names
    BY DEF Least
  <2> QED
    BY <1>2, <2>1, LeastGrows
<1>3. ASSUME NEW D \in SUBSET Least(told, names, n), n \in D,
             \A x \in D, s \in names : <<s, x>> \in told => s \in D
      PROVE  Least(told, names, n) \subseteq D
  <2>1. D \in SUBSET names
    BY DEF Least
  <2>2. ClosedDown(told, D)
    BY <1>3 DEF ClosedDown
  <2> QED
    BY <1>3, <2>1, <2>2 DEF Least
<1> QED
  BY <1>1, <1>2, <1>3 DEF IsReached

-----------------------------------------------------------------------------
(* The walks.                                                              *)

Names == Classes \cup Properties
Told(a) == IF a.kind = "class" THEN ToldBelow(a.name) ELSE ToldUnder(a.name)

\* An activation has s left to visit.
Waits(s, q) == \E j \in DOMAIN q : s \in q[j]
\* What lies directly below a name that is reached is reached too, or still waits.
NothingForgotten ==
    \A x \in collected \cup {Atom.name} : \A s \in DirectlyBelow(Atom.kind, x) :
        s \in collected \/ Waits(s, stack)
\* Nothing is reached or waits but what is told of.
OnlyTold == /\ collected \subseteq Told(Atom)
            /\ \A s : Waits(s, stack) => s \in Told(Atom)
AsTold == \A i \in DOMAIN rewritten : rewritten[i] = Told(plan[i])
Sized == Len(rewritten) <= Len(plan)
WalkInv == /\ Sized
           /\ AsTold
           /\ walking => OnlyTold /\ NothingForgotten

LEMMA AtomsAreTyped ==
    ASSUME WalkTypeOK
    PROVE  /\ plan \in Seq(Atoms) /\ rewritten \in Seq(SUBSET Names)
           /\ stack \in Seq(SUBSET Names) /\ collected \in SUBSET Names
           /\ \A i \in DOMAIN plan :
                 \/ plan[i].kind = "class" /\ plan[i].name \in Classes
                 \/ plan[i].kind = "property" /\ plan[i].name \in Properties
<1>1. /\ plan \in Seq(Atoms) /\ rewritten \in Seq(SUBSET Names)
      /\ stack \in Seq(SUBSET Names) /\ collected \in SUBSET Names
  BY PlansAssumption DEF WalkTypeOK, Names
<1>2. \A a \in Atoms : \/ a.kind = "class" /\ a.name \in Classes
                       \/ a.kind = "property" /\ a.name \in Properties
  BY DEF Atoms, ClassAtom, PropertyAtom
<1> QED
  BY <1>1, <1>2

LEMMA BelowIsTyped ==
    ASSUME NEW kind, NEW x
    PROVE  DirectlyBelow(kind, x) \in SUBSET Names
  BY DEF DirectlyBelow, SubConcepts, SubProperties, Names

\* One step down from what an atom is told of is told of as well, and what is closed
\* under such steps has all of it.
LEMMA StepsDown ==
    ASSUME TypeOK, NEW a,
           \/ a.kind = "class" /\ a.name \in Classes
           \/ a.kind = "property" /\ a.name \in Properties
    PROVE  /\ a.name \in Told(a)
           /\ \A x \in Told(a) : DirectlyBelow(a.kind, x) \subseteq Told(a)
           /\ \A D \in SUBSET Told(a) :
                 a.name \in D /\ (\A x \in D : DirectlyBelow(a.kind, x) \subseteq D)
                     => D = Told(a)
<1>1. CASE a.kind = "class" /\ a.name \in Classes
  <2>1. Told(a) = Least(tbox.subClass, Classes, a.name)
    BY <1>1 DEF Told, ToldBelow
  <2>2. \A x, s : s \in DirectlyBelow(a.kind, x) <=> s \in Classes /\ <<s, x>> \in tbox.subClass
    BY <1>1 DEF DirectlyBelow, SubConcepts
  <2>3. tbox.subClass \in SUBSET (Classes \X Classes)
    BY ToldIsTyped
  <2> DEFINE L == Least(tbox.subClass, Classes, a.name)
  <2>4. IsReached(L, tbox.subClass, Classes, a.name)
    BY <1>1, <2>3, StepsOfLeast
  <2> HIDE DEF L
  <2>5. \A x \in L : DirectlyBelow(a.kind, x) \subseteq L
    BY <2>2, <2>4 DEF IsReached
  <2>6. ASSUME NEW D \in SUBSET L, a.name \in D,
               \A x \in D : DirectlyBelow(a.kind, x) \subseteq D
        PROVE  D = L
    BY <2>2, <2>4, <2>6 DEF IsReached
  <2> QED
    BY <2>1, <2>4, <2>5, <2>6 DEF IsReached, L
<1>2. CASE a.kind = "property" /\ a.name \in Properties
  <2>1. Told(a) = Least(tbox.subProperty, Properties, a.name)
    BY <1>2 DEF Told, ToldUnder
  <2>2. \A x, s : s \in DirectlyBelow(a.kind, x) <=> s \in Properties /\ <<s, x>> \in tbox.subProperty
    BY <1>2 DEF DirectlyBelow, SubProperties
  <2>3. tbox.subProperty \in SUBSET (Properties \X Properties)
    BY ToldIsTyped
  <2> DEFINE L == Least(tbox.subProperty, Properties, a.name)
  <2>4. IsReached(L, tbox.subProperty, Properties, a.name)
    BY <1>2, <2>3, StepsOfLeast
  <2> HIDE DEF L
  <2>5. \A x \in L : DirectlyBelow(a.kind, x) \subseteq L
    BY <2>2, <2>4 DEF IsReached
  <2>6. ASSUME NEW D \in SUBSET L, a.name \in D,
               \A x \in D : DirectlyBelow(a.kind, x) \subseteq D
        PROVE  D = L
    BY <2>2, <2>4, <2>6 DEF IsReached
  <2> QED
    BY <2>1, <2>4, <2>5, <2>6 DEF IsReached, L
<1> QED
  BY <1>1, <1>2

LEMMA LastReplaced ==
    ASSUME NEW S, NEW q \in Seq(S), q # <<>>, NEW e \in S
    PROVE  LET r == [q EXCEPT ![Len(q)] = e]
           IN  /\ r \in Seq(S) /\ Len(r) = Len(q)
               /\ \A j \in 1..Len(q) : r[j] = IF j = Len(q) THEN e ELSE q[j]
<1> DEFINE r == [q EXCEPT ![Len(q)] = e]
<1>1. Len(q) \in Nat /\ q \in [1..Len(q) -> S]
  OBVIOUS
<1>2. r \in [1..Len(q) -> S]
  BY <1>1
<1>3. \A j \in 1..Len(q) : r[j] = IF j = Len(q) THEN e ELSE q[j]
  BY <1>1
<1> HIDE DEF r
<1>4. r \in Seq(S) /\ Len(r) = Len(q)
  BY <1>1, <1>2
<1> QED
  BY <1>3, <1>4 DEF r

LEMMA Extended ==
    ASSUME NEW S, NEW q \in Seq(S), NEW e \in S
    PROVE  /\ Append(q, e) \in Seq(S) /\ Len(Append(q, e)) = Len(q) + 1
           /\ \A j \in 1..Len(q) : Append(q, e)[j] = q[j]
           /\ Append(q, e)[Len(q) + 1] = e
  OBVIOUS

LEMMA Shortened ==
    ASSUME NEW S, NEW q \in Seq(S), q # <<>>
    PROVE  /\ Len(q) \in Nat \ {0}
           /\ Front(q) \in Seq(S) /\ Len(Front(q)) = Len(q) - 1
           /\ \A j \in 1..(Len(q) - 1) : Front(q)[j] = q[j]
<1>1. Len(q) \in Nat \ {0} /\ \A j \in 1..Len(q) : q[j] \in S
  OBVIOUS
<1>2. PICK n \in Nat : Len(q) = n + 1 /\ Len(q) - 1 = n
  BY <1>1
<1>3. Front(q) = SubSeq(q, 1, n) /\ \A j \in 1..n : q[j] \in S
  BY <1>1, <1>2 DEF Front
<1>4. /\ SubSeq(q, 1, n) \in Seq(S)
      /\ Len(SubSeq(q, 1, n)) = IF 1 <= n THEN n - 1 + 1 ELSE 0
      /\ \A j \in 1..(n - 1 + 1) : SubSeq(q, 1, n)[j] = q[1 + j - 1]
  BY <1>3, SubSeqProperties
<1>5. Len(SubSeq(q, 1, n)) = n /\ \A j \in 1..n : SubSeq(q, 1, n)[j] = q[j]
  BY <1>4
<1> QED
  BY <1>1, <1>2, <1>3, <1>4, <1>5

LEMMA WaitsIn ==
    ASSUME NEW S, NEW q \in Seq(S), NEW s
    PROVE  Waits(s, q) <=> \E j \in 1..Len(q) : s \in q[j]
  BY DEF Waits

\* r is q but for x, which its last activation has no more left to visit.
VisitedIn(r, q, x) ==
    /\ Len(r) = Len(q)
    /\ \A j \in 1..Len(q) : r[j] = IF j = Len(q) THEN q[j] \ {x} ELSE q[j]

\* The turns of a loop: one that visits or skips x takes only x away, a call adds what is
\* below, and a return takes away nothing that waits.
LEMMA TurnsOfStack ==
    ASSUME NEW S, NEW q \in Seq(S), q # <<>>, NEW x, NEW B \in S, NEW r \in Seq(S),
           VisitedIn(r, q, x)
    PROVE  /\ \A s : Waits(s, r) => Waits(s, q)
           /\ \A s : Waits(s, q) /\ s # x => Waits(s, r)
           /\ \A s : Waits(s, Append(r, B)) <=> Waits(s, r) \/ s \in B
           /\ q[Len(q)] = {} => \A s : Waits(s, Front(q)) <=> Waits(s, q)
<1> USE DEF VisitedIn
<1>1. /\ Len(q) \in Nat \ {0} /\ Front(q) \in Seq(S) /\ Len(Front(q)) = Len(q) - 1
      /\ \A j \in 1..(Len(q) - 1) : Front(q)[j] = q[j]
  BY Shortened
<1>2. /\ Append(r, B) \in Seq(S) /\ Len(Append(r, B)) = Len(q) + 1
      /\ \A j \in 1..Len(q) : Append(r, B)[j] = r[j]
      /\ Append(r, B)[Len(q) + 1] = B
  BY Extended
<1>3. ASSUME NEW s
      PROVE  /\ Waits(s, q) <=> \E j \in 1..Len(q) : s \in q[j]
             /\ Waits(s, r) <=> \E j \in 1..Len(q) : s \in r[j]
             /\ Waits(s, Append(r, B)) <=> \E j \in 1..(Len(q) + 1) : s \in Append(r, B)[j]
             /\ Waits(s, Front(q)) <=> \E j \in 1..(Len(q) - 1) : s \in Front(q)[j]
  BY <1>1, <1>2, WaitsIn
<1>4. ASSUME NEW s
      PROVE  /\ Waits(s, r) => Waits(s, q)
             /\ Waits(s, q) /\ s # x => Waits(s, r)
  BY <1>3
<1>5. ASSUME NEW s PROVE Waits(s, Append(r, B)) <=> Waits(s, r) \/ s \in B
  <2>1. \A j \in 1..(Len(q) + 1) : j \in 1..Len(q) \/ j = Len(q) + 1
    BY <1>1
  <2>2. Len(q) + 1 \in 1..(Len(q) + 1) /\ 1..Len(q) \subseteq 1..(Len(q) + 1)
    BY <1>1
  <2> QED
    BY <1>2, <1>3, <2>1, <2>2
<1>6. ASSUME q[Len(q)] = {}, NEW s PROVE Waits(s, Front(q)) <=> Waits(s, q)
  <2>1. \A j \in 1..Len(q) : j \in 1..(Len(q) - 1) \/ j = Len(q)
    BY <1>1
  <2>2. 1..(Len(q) - 1) \subseteq 1..Len(q)
    BY <1>1
  <2> QED
    BY <1>1, <1>3, <1>6, <2>1, <2>2
<1> QED
  BY <1>4, <1>5, <1>6

LEMMA NothingWaits ==
    ASSUME NEW B, NEW s
    PROVE  ~Waits(s, <<>>) /\ (Waits(s, <<B>>) <=> s \in B)
  BY DEF Waits

LEMMA StackIsTyped ==
    ASSUME WalkTypeOK, stack # <<>>
    PROVE  /\ Top \in SUBSET Names
           /\ Front(stack) \in Seq(SUBSET Names)
           /\ \A x : /\ Left(x) \in Seq(SUBSET Names) /\ Len(Left(x)) = Len(stack)
                     /\ \A j \in 1..Len(stack) :
                           Left(x)[j] = IF j = Len(stack) THEN stack[j] \ {x} ELSE stack[j]
           /\ \A x, B : B \in SUBSET Names => Append(Left(x), B) \in Seq(SUBSET Names)
<1>1. stack \in Seq(SUBSET Names)
  BY AtomsAreTyped
<1>2. Top \in SUBSET Names
  BY <1>1, Shortened DEF Top
<1>3. Front(stack) \in Seq(SUBSET Names)
  BY <1>1, Shortened
<1>4. ASSUME NEW x
      PROVE  /\ Left(x) \in Seq(SUBSET Names) /\ Len(Left(x)) = Len(stack)
             /\ \A j \in 1..Len(stack) :
                   Left(x)[j] = IF j = Len(stack) THEN stack[j] \ {x} ELSE stack[j]
  <2>1. Top \ {x} \in SUBSET Names
    BY <1>2
  <2>2. /\ Left(x) \in Seq(SUBSET Names) /\ Len(Left(x)) = Len(stack)
        /\ \A j \in 1..Len(stack) :
              Left(x)[j] = IF j = Len(stack) THEN Top \ {x} ELSE stack[j]
    BY <1>1, <2>1, LastReplaced DEF Left, Top
  <2> QED
    BY <2>2 DEF Top
<1>5. ASSUME NEW x, NEW B \in SUBSET Names PROVE Append(Left(x), B) \in Seq(SUBSET Names)
  BY <1>4, Extended
<1> QED
  BY <1>2, <1>3, <1>4, <1>5

\* Names stay names and atoms are entered one at a time, within the plan.
THEOREM WalkTypeCorrect == RewritingSpec => []WalkTypeOK
<1>1. RewritingInit => WalkTypeOK
  <2>1. \A S : <<>> \in Seq(S)
    OBVIOUS
  <2> QED
    BY <2>1, Zenon DEF RewritingInit, WalkTypeOK
<1>2. WalkTypeOK /\ [RewritingNext]_<<vars, walkVars>> => WalkTypeOK'
  <2> SUFFICES ASSUME WalkTypeOK, [RewritingNext]_<<vars, walkVars>> PROVE WalkTypeOK'
    OBVIOUS
  <2>1. /\ plan \in Plans /\ plan \in Seq(Atoms) /\ rewritten \in Seq(SUBSET Names)
        /\ stack \in Seq(SUBSET Names) /\ collected \in SUBSET Names
        /\ walking \in BOOLEAN /\ walking => Len(rewritten) < Len(plan)
    BY AtomsAreTyped DEF WalkTypeOK
  <2>2. Len(rewritten) < Len(plan) =>
           Atom.name \in Names
    BY <2>1, AtomsAreTyped DEF Atom, Names
  <2>3. SUFFICES /\ plan' \in Plans /\ rewritten' \in Seq(SUBSET Names)
                 /\ stack' \in Seq(SUBSET Names) /\ collected' \in SUBSET Names
                 /\ walking' \in BOOLEAN /\ (walking' => Len(rewritten') < Len(plan'))
    BY <2>3, Zenon DEF WalkTypeOK, Names
  <2>4. CASE EnterAtom
    <3>1. DirectlyBelow(Atom.kind, Atom.name) \in SUBSET Names
      BY BelowIsTyped
    <3> QED
      BY <2>1, <2>2, <2>4, <3>1 DEF EnterAtom
  <2>5. CASE Visit
    <3>1. PICK x \in Top : /\ collected' = collected \cup {x}
                           /\ stack' = Append(Left(x), DirectlyBelow(Atom.kind, x))
      BY <2>5 DEF Visit
    <3>2. x \in Names /\ stack' \in Seq(SUBSET Names)
      BY <2>5, <3>1, BelowIsTyped, StackIsTyped DEF Visit
    <3> QED
      BY <2>1, <2>5, <3>1, <3>2 DEF Visit
  <2>6. CASE Skip
    <3>1. PICK x \in Top : stack' = Left(x)
      BY <2>6 DEF Skip
    <3>2. stack' \in Seq(SUBSET Names)
      BY <2>6, <3>1, StackIsTyped DEF Skip
    <3> QED
      BY <2>1, <2>6, <3>2 DEF Skip
  <2>7. CASE Return
    <3>1. stack' \in Seq(SUBSET Names)
      BY <2>7, StackIsTyped DEF Return
    <3> QED
      BY <2>1, <2>7, <3>1 DEF Return
  <2>8. CASE ExpandAtom
    <3>1. Append(rewritten, collected \cup {Atom.name}) \in Seq(SUBSET Names)
      BY <2>1, <2>2, <2>8 DEF ExpandAtom
    <3> QED
      BY <2>1, <2>8, <3>1 DEF ExpandAtom
  <2>9. CASE UNCHANGED walkVars
    <3>1. /\ plan' = plan /\ rewritten' = rewritten /\ walking' = walking
          /\ collected' = collected /\ stack' = stack
      BY <2>9 DEF walkVars
    <3>2. plan' \in Plans /\ rewritten' \in Seq(SUBSET Names)
      BY <2>1, <3>1
    <3>3. stack' \in Seq(SUBSET Names) /\ collected' \in SUBSET Names
      BY <2>1, <3>1
    <3>4. walking' \in BOOLEAN
      <4>1. walking \in BOOLEAN
        BY DEF WalkTypeOK
      <4>2. walking' = walking
        BY <3>1
      <4> QED
        BY <4>1, <4>2
    <3>5. walking' => Len(rewritten') < Len(plan')
      BY <2>1, <3>1, Zenon
    <3> QED
      BY <3>2, <3>3, <3>4, <3>5
  <2> QED
    BY <2>4, <2>5, <2>6, <2>7, <2>8, <2>9 DEF RewritingNext, Rewrite
<1> QED
  BY <1>1, <1>2, PTL DEF RewritingSpec
LEMMA SaturationGoesOn == RewritingSpec => SaturationSpec
<1>1. RewritingInit => Init
  BY DEF RewritingInit
<1>2. [RewritingNext]_<<vars, walkVars>> => [Next]_vars
  BY DEF RewritingNext, vars
<1> QED
  BY <1>1, <1>2, PTL DEF RewritingSpec, SaturationSpec

LEMMA WalkBegins ==
    ASSUME WalkTypeOK, TypeOK, Sized, EnterAtom, tbox' = tbox
    PROVE  (OnlyTold /\ NothingForgotten)'
<1> DEFINE n == Atom.name
           below == DirectlyBelow(Atom.kind, n)
<1>1. /\ Len(rewritten) \in Nat /\ Len(plan) \in Nat
      /\ Len(rewritten) + 1 \in DOMAIN plan
  BY AtomsAreTyped DEF EnterAtom
<1>2. /\ n \in Told(Atom) /\ below \subseteq Told(Atom)
  BY <1>1, AtomsAreTyped, StepsDown DEF Atom
<1>3. /\ Atom' = Atom /\ Told(Atom)' = Told(Atom)
      /\ \A x : DirectlyBelow(Atom.kind, x)' = DirectlyBelow(Atom.kind, x)
  BY DEF EnterAtom, Atom, Told, ToldBelow, ToldUnder, DirectlyBelow, SubConcepts,
         SubProperties
<1>4. \A s : Waits(s, stack') <=> s \in below
  BY NothingWaits DEF EnterAtom
<1>5. collected' \subseteq {n}
  BY DEF EnterAtom
<1>6. OnlyTold'
  BY <1>2, <1>3, <1>4, <1>5 DEF OnlyTold, Waits
<1>7. NothingForgotten'
  BY <1>3, <1>4, <1>5 DEF NothingForgotten, Waits
<1> QED
  BY <1>6, <1>7
\* What a step of a walk keeps.
LEMMA AtomStays ==
    ASSUME UNCHANGED <<tbox, plan, rewritten>>
    PROVE  /\ Atom' = Atom /\ Told(Atom)' = Told(Atom)
           /\ \A x : DirectlyBelow(Atom.kind, x)' = DirectlyBelow(Atom.kind, x)
  BY DEF Atom, Told, ToldBelow, ToldUnder, DirectlyBelow, SubConcepts, SubProperties

LEMMA StepsDownAtom ==
    ASSUME WalkTypeOK, TypeOK, walking
    PROVE  /\ Atom.name \in Told(Atom)
           /\ \A x \in Told(Atom) : DirectlyBelow(Atom.kind, x) \subseteq Told(Atom)
           /\ \A D \in SUBSET Told(Atom) :
                 Atom.name \in D /\ (\A x \in D : DirectlyBelow(Atom.kind, x) \subseteq D)
                     => D = Told(Atom)
<1>1. /\ Len(rewritten) \in Nat /\ Len(plan) \in Nat
      /\ Len(rewritten) + 1 \in DOMAIN plan
  BY AtomsAreTyped DEF WalkTypeOK
<1> QED
  BY <1>1, AtomsAreTyped, StepsDown DEF Atom

LEMMA WalkGoesOn ==
    ASSUME WalkTypeOK, TypeOK, OnlyTold, NothingForgotten, tbox' = tbox,
           Visit \/ Skip \/ Return
    PROVE  (OnlyTold /\ NothingForgotten)'
<1>1. /\ stack \in Seq(SUBSET Names) /\ stack # <<>> /\ walking
      /\ UNCHANGED <<plan, rewritten>>
  BY AtomsAreTyped DEF Visit, Skip, Return
<1>2. /\ Atom' = Atom /\ Told(Atom)' = Told(Atom)
      /\ \A x : DirectlyBelow(Atom.kind, x)' = DirectlyBelow(Atom.kind, x)
  BY <1>1, AtomStays
<1>3. \A s : s \in Top => Waits(s, stack)
  BY <1>1, Shortened, WaitsIn DEF Top
<1>4. ASSUME NEW x, NEW B \in SUBSET Names
      PROVE  /\ \A s : Waits(s, Left(x)) => Waits(s, stack)
             /\ \A s : Waits(s, stack) /\ s # x => Waits(s, Left(x))
             /\ \A s : Waits(s, Append(Left(x), B)) <=> Waits(s, Left(x)) \/ s \in B
             /\ Top = {} => \A s : Waits(s, Front(stack)) <=> Waits(s, stack)
  <2>1. Left(x) \in Seq(SUBSET Names) /\ VisitedIn(Left(x), stack, x)
    BY <1>1, StackIsTyped DEF VisitedIn
  <2> QED
    BY <1>1, <2>1, TurnsOfStack DEF Top
<1>5. CASE Visit
  <2>1. PICK x \in Top : /\ collected' = collected \cup {x}
                         /\ stack' = Append(Left(x), DirectlyBelow(Atom.kind, x))
    BY <1>5 DEF Visit
  <2> DEFINE B == DirectlyBelow(Atom.kind, x)
  <2>2. /\ \A s : Waits(s, Left(x)) => Waits(s, stack)
        /\ \A s : Waits(s, stack) /\ s # x => Waits(s, Left(x))
        /\ \A s : Waits(s, stack') <=> Waits(s, Left(x)) \/ s \in B
    BY <1>4, <2>1, BelowIsTyped
  <2>3. x \in Told(Atom) /\ B \subseteq Told(Atom)
    BY <1>1, <1>3, StepsDownAtom DEF OnlyTold
  <2>4. collected' \subseteq Told(Atom)
    BY <2>1, <2>3 DEF OnlyTold
  <2>5. \A s : Waits(s, stack') => s \in Told(Atom)
    BY <2>2, <2>3 DEF OnlyTold
  <2>6. ASSUME NEW y \in collected' \cup {Atom.name}, NEW s \in DirectlyBelow(Atom.kind, y)
        PROVE  s \in collected' \/ Waits(s, stack')
    BY <2>1, <2>2, <2>6 DEF NothingForgotten
  <2> QED
    BY <1>2, <2>4, <2>5, <2>6 DEF OnlyTold, NothingForgotten, Waits
<1>6. CASE Skip
  <2>1. PICK x \in Top \cap collected : stack' = Left(x)
    BY <1>6 DEF Skip
  <2>2. /\ \A s : Waits(s, stack') => Waits(s, stack)
        /\ \A s : Waits(s, stack) /\ s # x => Waits(s, stack')
    BY <1>4, <2>1, BelowIsTyped
  <2>3. collected' = collected
    BY <1>6 DEF Skip
  <2>4. \A s : Waits(s, stack') => s \in Told(Atom)
    BY <2>2 DEF OnlyTold
  <2>5. ASSUME NEW y \in collected \cup {Atom.name}, NEW s \in DirectlyBelow(Atom.kind, y)
        PROVE  s \in collected \/ Waits(s, stack')
    BY <2>1, <2>2, <2>5 DEF NothingForgotten
  <2> QED
    BY <1>2, <2>3, <2>4, <2>5 DEF OnlyTold, NothingForgotten, Waits
<1>7. CASE Return
  <2>1. \A s : Waits(s, stack') <=> Waits(s, stack)
    BY <1>4, <1>7, BelowIsTyped DEF Return
  <2>2. collected' = collected
    BY <1>7 DEF Return
  <2> QED
    BY <1>2, <2>1, <2>2 DEF OnlyTold, NothingForgotten, Waits
<1> QED
  BY <1>5, <1>6, <1>7

\* The outermost activation has returned: what is collected is all that is told of.
LEMMA WalkEnds ==
    ASSUME WalkTypeOK, TypeOK, OnlyTold, NothingForgotten, walking, stack = <<>>
    PROVE  collected \cup {Atom.name} = Told(Atom)
<1> DEFINE D == collected \cup {Atom.name}
<1>1. D \in SUBSET Told(Atom)
  BY StepsDownAtom DEF OnlyTold
<1>2. \A s : ~Waits(s, stack)
  BY DEF Waits
<1>3. \A x \in D : DirectlyBelow(Atom.kind, x) \subseteq D
  BY <1>2 DEF NothingForgotten
<1> QED
  BY <1>1, <1>3, StepsDownAtom

LEMMA AtomIsExpanded ==
    ASSUME WalkTypeOK, TypeOK, WalkInv, ExpandAtom, tbox' = tbox
    PROVE  (Sized /\ AsTold)'
<1>1. /\ rewritten \in Seq(SUBSET Names) /\ Atom.name \in Names
      /\ Len(rewritten) < Len(plan) /\ Len(rewritten) \in Nat /\ Len(plan) \in Nat
  BY AtomsAreTyped DEF ExpandAtom, WalkTypeOK, Atom, Names
<1>2. collected \cup {Atom.name} = Told(plan[Len(rewritten) + 1])
  BY WalkEnds DEF ExpandAtom, WalkInv, Atom
<1>3. rewritten' = Append(rewritten, Told(plan[Len(rewritten) + 1])) /\ plan' = plan
  BY <1>2 DEF ExpandAtom
<1>4. Told(plan[Len(rewritten) + 1]) \in SUBSET Names
  BY <1>1, <1>2, AtomsAreTyped
<1>5. \A a : Told(a)' = Told(a)
  BY DEF Told, ToldBelow, ToldUnder
<1>6. /\ DOMAIN rewritten = 1..Len(rewritten)
      /\ DOMAIN rewritten' = 1..(Len(rewritten) + 1)
      /\ Len(rewritten') = Len(rewritten) + 1
      /\ \A i \in 1..Len(rewritten) : rewritten'[i] = rewritten[i]
      /\ rewritten'[Len(rewritten) + 1] = Told(plan[Len(rewritten) + 1])
  BY <1>1, <1>3, <1>4, Extended
<1>7. Sized'
  BY <1>1, <1>3, <1>6 DEF Sized
<1>8. ASSUME NEW i \in DOMAIN rewritten' PROVE rewritten'[i] = Told(plan[i])
  <2>1. i \in 1..Len(rewritten) \/ i = Len(rewritten) + 1
    BY <1>1, <1>6
  <2> QED
    BY <1>6, <2>1 DEF WalkInv, AsTold
<1>9. AsTold'
  BY <1>3, <1>5, <1>8 DEF AsTold
<1> QED
  BY <1>7, <1>9
\* A walk on a hierarchy, cyclic or not, collects exactly what it leads down to, and what
\* an activation has left to visit is enough to see that: whatever lies below a visited
\* name is visited or waits (owl2ql.rs:369-389, 482-509).
THEOREM WalksCollectWhatIsTold == RewritingSpec => []WalkInv
<1>1. RewritingInit => WalkInv
  <2> SUFFICES ASSUME RewritingInit PROVE WalkInv
    OBVIOUS
  <2>1. Len(rewritten) = 0 /\ DOMAIN rewritten = {} /\ Len(plan) \in Nat /\ ~walking
    BY PlansAssumption DEF RewritingInit
  <2> QED
    BY <2>1 DEF WalkInv, Sized, AsTold
<1>2. WalkInv /\ WalkTypeOK /\ TypeOK /\ [RewritingNext]_<<vars, walkVars>> => WalkInv'
  <2> SUFFICES ASSUME WalkInv, WalkTypeOK, TypeOK, [RewritingNext]_<<vars, walkVars>>
               PROVE  WalkInv'
    OBVIOUS
  <2>1. tbox' = tbox
    BY DEF RewritingNext, Next, SaturationRound, ExtractConstraints, vars
  <2>2. ASSUME UNCHANGED <<plan, rewritten>> PROVE (Sized /\ AsTold)'
    BY <2>1, <2>2 DEF WalkInv, Sized, AsTold, Told, ToldBelow, ToldUnder
  <2>3. CASE EnterAtom
    BY <2>1, <2>2, <2>3, WalkBegins DEF WalkInv, EnterAtom
  <2>4. CASE Visit \/ Skip \/ Return
    <3>1. UNCHANGED <<plan, rewritten>> /\ walking
      BY <2>4 DEF Visit, Skip, Return
    <3>2. (OnlyTold /\ NothingForgotten)'
      BY <2>1, <2>4, <3>1, WalkGoesOn DEF WalkInv
    <3> QED
      BY <2>2, <3>1, <3>2 DEF WalkInv
  <2>5. CASE ExpandAtom
    BY <2>1, <2>5, AtomIsExpanded DEF WalkInv, ExpandAtom
  <2>6. CASE UNCHANGED walkVars
    <3>1. UNCHANGED <<plan, rewritten>> /\ (walking' <=> walking)
          /\ collected' = collected /\ stack' = stack
      BY <2>6 DEF walkVars
    <3>2. /\ Atom' = Atom /\ Told(Atom)' = Told(Atom)
          /\ \A x : DirectlyBelow(Atom.kind, x)' = DirectlyBelow(Atom.kind, x)
      BY <2>1, <3>1, AtomStays
    <3>3. (OnlyTold /\ NothingForgotten)' <=> OnlyTold /\ NothingForgotten
      BY <3>1, <3>2 DEF OnlyTold, NothingForgotten, Waits
    <3> QED
      BY <2>2, <3>1, <3>3 DEF WalkInv
  <2> QED
    BY <2>3, <2>4, <2>5, <2>6 DEF RewritingNext, Rewrite
<1> QED
  BY <1>1, <1>2, WalkTypeCorrect, TypeCorrect, SaturationGoesOn, PTL DEF RewritingSpec

\* One application of a rule to the given axioms is a round's doing too.
LEMMA RulesAreFound ==
    ASSUME TypeOK, Closed, stage # "saturating"
    PROVE  /\ \A a \in InferredSubClassOf : <<Named(a[1]), Named(a[2])>> \in subClass
           /\ \A a \in InferredSubPropertyOf : <<Role(a[1]), Role(a[2])>> \in subProperty
<1>1. ASSUME NEW a \in InferredSubClassOf PROVE <<Named(a[1]), Named(a[2])>> \in subClass
  <2>1. /\ a[1] \in Classes /\ a[2] \in Classes /\ a[1] # a[2]
        /\ \E y \in Classes : <<a[1], y>> \in tbox.subClass /\ <<y, a[2]>> \in tbox.subClass
    BY DEF InferredSubClassOf, TwoSteps
  <2>2. PICK y \in Classes : <<a[1], y>> \in tbox.subClass /\ <<y, a[2]>> \in tbox.subClass
    BY <2>1
  <2>3. ASSUME NEW u \in Classes, NEW v \in Classes, <<u, v>> \in tbox.subClass
        PROVE  <<Named(u), Named(v)>> \in subClass
    <3>1. <<Named(u), Named(v)>> \in ClassAxioms(tbox)
      BY <2>3 DEF ClassAxioms
    <3> QED
      BY <3>1 DEF Closed
  <2>4. <<Named(a[1]), Named(y)>> \in subClass /\ <<Named(y), Named(a[2])>> \in subClass
    BY <2>1, <2>2, <2>3
  <2>5. Named(a[1]) # Named(a[2])
    BY <2>1, NamedIsNoExistential
  <2>6. <<Named(a[1]), Named(a[2])>> \in TwoSteps(subClass, Concepts)
    BY <2>1, <2>4, <2>5, NamesAreTyped DEF TwoSteps
  <2> QED
    BY <2>6 DEF Closed, InferredClasses
<1>2. ASSUME NEW a \in InferredSubPropertyOf PROVE <<Role(a[1]), Role(a[2])>> \in subProperty
  <2>1. /\ a[1] \in Properties /\ a[2] \in Properties /\ a[1] # a[2]
        /\ \E y \in Properties :
              <<a[1], y>> \in tbox.subProperty /\ <<y, a[2]>> \in tbox.subProperty
    BY DEF InferredSubPropertyOf, TwoSteps
  <2>2. PICK y \in Properties :
           <<a[1], y>> \in tbox.subProperty /\ <<y, a[2]>> \in tbox.subProperty
    BY <2>1
  <2>3. ASSUME NEW u \in Properties, NEW v \in Properties, <<u, v>> \in tbox.subProperty
        PROVE  <<Role(u), Role(v)>> \in subProperty
    <3>1. <<Role(u), Role(v)>> \in PropertyAxioms(tbox)
      BY <2>3 DEF PropertyAxioms
    <3> QED
      BY <3>1 DEF Closed
  <2>4. <<Role(a[1]), Role(y)>> \in subProperty /\ <<Role(y), Role(a[2])>> \in subProperty
    BY <2>1, <2>2, <2>3
  <2>5. Role(a[1]) # Role(a[2])
    BY <2>1, RolesAreTyped
  <2>6. <<Role(a[1]), Role(a[2])>> \in TwoSteps(subProperty, Roles)
    BY <2>1, <2>4, <2>5, NamesAreTyped DEF TwoSteps
  <2> QED
    BY <2>6 DEF Closed, InferredProperties
<1> QED
  BY <1>1, <1>2

LEMMA NamesAgree ==
    ASSUME HierarchiesAreTold, stage # "saturating"
    PROVE  /\ \A c \in Classes : ClassAgrees(c, ToldBelow(c))
           /\ \A p \in Properties : PropertyAgrees(p, ToldUnder(p))
<1>1. \A c \in Classes : ClassAgrees(c, ToldBelow(c))
  BY DEF HierarchiesAreTold, ClassAgrees
<1>2. ASSUME NEW p \in Properties PROVE PropertyAgrees(p, ToldUnder(p))
  <2>1. /\ ToldUnder(p) \subseteq Under(p)
        /\ WithInverse(tbox) = {} => ToldUnder(p) = Under(p)
        /\ \A q \in ToldUnder(p) : InheritsConstraints(q, p)
    BY DEF HierarchiesAreTold
  <2>2. ASSUME NEW a \in InferredDomain(p, ToldUnder(p))
        PROVE  <<Exist(Role(a[1])), Named(a[2])>> \in subClass
    BY <2>1 DEF InferredDomain, InheritedBy, InheritsConstraints
  <2>3. ASSUME NEW a \in InferredRange(p, ToldUnder(p))
        PROVE  <<Exist(Inv(Role(a[1]))), Named(a[2])>> \in subClass
    BY <2>1 DEF InferredRange, InheritedBy, InheritsConstraints
  <2> QED
    BY <2>1, <2>2, <2>3 DEF PropertyAgrees
<1> QED
  BY <1>1, <1>2

\* The two halves of the reasoner agree for every ontology and every plan: an atom becomes
\* the union of exactly the classes that saturation puts below it (of the properties too,
\* where none has an inverse), and the single rules R1 to R4 infer nothing that the rounds
\* do not (tbox_rewriter.rs:68-187, owl2ql.rs:97-127, saturator.rs:55-130).
THEOREM HalvesAgree == RewritingSpec => []HierarchiesAgree
<1>1. WalkInv /\ WalkTypeOK /\ TypeOK /\ Closed /\ HierarchiesAreTold => HierarchiesAgree
  <2> SUFFICES ASSUME WalkInv, WalkTypeOK, TypeOK, Closed, HierarchiesAreTold,
                      stage # "saturating"
               PROVE  HierarchiesAgree
    BY DEF HierarchiesAgree
  <2>1. ASSUME NEW i \in DOMAIN rewritten
        PROVE  /\ plan[i].kind = "class" => ClassAgrees(plan[i].name, rewritten[i])
               /\ plan[i].kind = "property" => PropertyAgrees(plan[i].name, rewritten[i])
    <3>1. i \in DOMAIN plan
      BY AtomsAreTyped DEF WalkInv, Sized
    <3>2. rewritten[i] = Told(plan[i])
      BY DEF WalkInv, AsTold
    <3>3. CASE plan[i].kind = "class" /\ plan[i].name \in Classes
      BY <3>2, <3>3, NamesAgree DEF Told
    <3>4. CASE plan[i].kind = "property" /\ plan[i].name \in Properties
      BY <3>2, <3>4, NamesAgree DEF Told
    <3> QED
      BY <3>1, <3>3, <3>4, AtomsAreTyped
  <2> QED
    BY <2>1, RulesAreFound DEF HierarchiesAgree
<1> QED
  BY <1>1, WalksCollectWhatIsTold, WalkTypeCorrect, TypeCorrect, SaturationIsClosed,
     HierarchiesAreAsTold, SaturationGoesOn, PTL
=============================================================================
