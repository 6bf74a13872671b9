---------------------------- MODULE TBoxRewriting ----------------------------
(***************************************************************************)
(* The other half of the reasoner, which works on the ontology as it is    *)
(* given: hierarchies that are walked from a name down, single inference   *)
(* rules (reasoner/owl2ql.rs), and the rewriting of each atom of a plan    *)
(* into a union over the names below it (reasoner/tbox_rewriter.rs).       *)
(*                                                                         *)
(* A walk is recursive in the code.  Here its activations are a stack of   *)
(* what each has left to visit, and a step is one turn of one loop.  The   *)
(* code walks down the properties before the first plan and keeps what it  *)
(* finds; the ontology does not change in between.  The nodes of a plan    *)
(* between its atoms are entered and stay as they are.                     *)
(***************************************************************************)
EXTENDS Saturator, Sequences, SequencesExt

ClassAtom(c) == [kind |-> "class", name |-> c]
PropertyAtom(p) == [kind |-> "property", name |-> p]
Atoms == {ClassAtom(c) : c \in Classes} \cup {PropertyAtom(p) : p \in Properties}

CONSTANT Plans  \* plans, as the atoms ?x a C and ?x p ?y that the rewriter comes to

ASSUME PlansAssumption == Plans \subseteq Seq(Atoms)

VARIABLES plan,
          rewritten,  \* the names that each atom so far became the union of
          walking,
          collected,  \* the names that the walk has visited
          stack       \* what its activations have left to visit, the innermost last
walkVars == <<plan, rewritten, walking, collected, stack>>

-----------------------------------------------------------------------------
\* from_tbox: what is directly below a class, or below a property.
SubConcepts(c) == {x \in Classes : <<x, c>> \in tbox.subClass}
SubProperties(p) == {x \in Properties : <<x, p>> \in tbox.subProperty}
DirectlyBelow(kind, x) == IF kind = "class" THEN SubConcepts(x) ELSE SubProperties(x)

RewritingInit == /\ Init
                 /\ plan \in Plans
                 /\ rewritten = <<>>
                 /\ walking = FALSE
                 /\ collected = {}
                 /\ stack = <<>>

Atom == plan[Len(rewritten) + 1]

\* A property has itself among its sub-properties, at depth 0.
EnterAtom == /\ ~walking
             /\ Len(rewritten) < Len(plan)
             /\ walking' = TRUE
             /\ collected' = IF Atom.kind = "property" THEN {Atom.name} ELSE {}
             /\ stack' = <<DirectlyBelow(Atom.kind, Atom.name)>>
             /\ UNCHANGED <<plan, rewritten>>

Top == stack[Len(stack)]
Left(x) == [stack EXCEPT ![Len(stack)] = @ \ {x}]

\* A wrong version: does not look below what it visits.
VisitOnly == /\ walking
             /\ stack # <<>>
             /\ \E x \in Top \ collected :
                   /\ collected' = collected \cup {x}
                   /\ stack' = Left(x)
             /\ UNCHANGED <<plan, rewritten, walking>>
Visit == /\ walking
         /\ stack # <<>>
         /\ \E x \in Top \ collected :
               /\ collected' = collected \cup {x}
               /\ stack' = Append(Left(x), DirectlyBelow(Atom.kind, x))
         /\ UNCHANGED <<plan, rewritten, walking>>

\* insert says that it is collected already.
Skip == /\ walking
        /\ stack # <<>>
        /\ \E x \in Top \cap collected : stack' = Left(x)
        /\ UNCHANGED <<plan, rewritten, walking, collected>>

Return == /\ walking
          /\ stack # <<>>
          /\ Top = {}
          /\ stack' = Front(stack)
          /\ UNCHANGED <<plan, rewritten, walking, collected>>

\* The atom becomes the union of its copies for these names; alone it stays as it is.
ExpandAtom == /\ walking
              /\ stack = <<>>
              /\ rewritten' = Append(rewritten, collected \cup {Atom.name})
              /\ walking' = FALSE
              /\ UNCHANGED <<plan, collected, stack>>

Rewrite == EnterAtom \/ Visit \/ Skip \/ Return \/ ExpandAtom
IsRewritten == Len(rewritten) = Len(plan) /\ ~walking

\* The halves share nothing but the ontology, which neither changes: the plan is
\* rewritten by one call, and the ontology saturated by the next.
RewritingNext == \/ Rewrite /\ UNCHANGED vars
                 \/ IsRewritten /\ Next /\ UNCHANGED walkVars

RewritingSpec == /\ RewritingInit /\ [][RewritingNext]_<<vars, walkVars>>
                 /\ WF_<<vars, walkVars>>(RewritingNext)

-----------------------------------------------------------------------------
(* apply_rules: one application each of R1 to R4.                          *)

InferredSubClassOf == TwoSteps(tbox.subClass, Classes)
InferredSubPropertyOf == TwoSteps(tbox.subProperty, Properties)
\* names: the sub-properties of p.
InheritedBy(constraints, p, names) ==
    IF constraints[p] = NoClass THEN {} ELSE names \X {constraints[p]}
InferredDomain(p, names) == InheritedBy(tbox.domain, p, names)
InferredRange(p, names) == InheritedBy(tbox.range, p, names)

-----------------------------------------------------------------------------
\* Nothing is walked for but an atom of the plan.
WalkTypeOK == /\ plan \in Plans
              /\ rewritten \in Seq(SUBSET (Classes \cup Properties))
              /\ walking \in BOOLEAN
              /\ walking => Len(rewritten) < Len(plan)
              /\ collected \in SUBSET (Classes \cup Properties)
              /\ stack \in Seq(SUBSET (Classes \cup Properties))

\* What the saturated axioms put below a name, itself included.
Below(c) == {x \in Classes : <<Named(x), Named(c)>> \in subClass} \cup {c}
Under(p) == {x \in Properties : <<Role(x), Role(p)>> \in subProperty} \cup {p}

ClassAgrees(c, names) == names = Below(c)
PropertyAgrees(p, names) ==
    /\ names \subseteq Under(p)
    /\ WithInverse(tbox) = {} => names = Under(p)
    /\ \A a \in InferredDomain(p, names) : <<Exist(Role(a[1])), Named(a[2])>> \in subClass
    /\ \A a \in InferredRange(p, names) : <<Exist(Inv(Role(a[1]))), Named(a[2])>> \in subClass

\* The two halves of the reasoner agree: an atom is rewritten to the names that the
\* saturated axioms put below it, and nothing is inferred by a rule alone.  Where a
\* property has an inverse, saturation finds more than the walk down the properties.
HierarchiesAgree ==
    stage # "saturating" =>
        /\ \A i \in DOMAIN rewritten :
              /\ plan[i].kind = "class" => ClassAgrees(plan[i].name, rewritten[i])
              /\ plan[i].kind = "property" => PropertyAgrees(plan[i].name, rewritten[i])
        /\ \A a \in InferredSubClassOf : <<Named(a[1]), Named(a[2])>> \in subClass
        /\ \A a \in InferredSubPropertyOf : <<Role(a[1]), Role(a[2])>> \in subProperty
=============================================================================
