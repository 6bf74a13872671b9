--------------------------- MODULE PassRulesProofs ---------------------------
(***************************************************************************)
(* Which rewritings of a plan keep its answers, over every database: the   *)
(* order of joins, filters under joins, scans that become one, lookups     *)
(* that go, projections of projections.  Each theorem names what a rule    *)
(* of the optimizer takes for granted.                                     *)
(***************************************************************************)
EXTENDS PassRules, FiniteSetTheorems, TLAPS

-----------------------------------------------------------------------------
(* Bags                                                                    *)

\* Every origin has one solution.
IsBag(B) == /\ \A x \in B : x = <<x[1], x[2]>>
            /\ \A x, y \in B : x[1] = y[1] => x = y

\* The same solutions, as often, whatever their origins.
Alike(A, B) == \E f \in Bijection(A, B) : \A x \in A : f[x][2] = x[2]

With(B, s) == {x \in B : x[2] = s}

LEMMA BijectionFacts ==
    ASSUME NEW A, NEW B, NEW f \in Bijection(A, B)
    PROVE  /\ f \in [A -> B]
           /\ \A x, y \in A : f[x] = f[y] => x = y
           /\ \A y \in B : \E x \in A : f[x] = y
  BY DEF Bijection, Injection, Surjection, IsInjective

LEMMA IsBijection ==
    ASSUME NEW A, NEW B, NEW f \in [A -> B],
           \A x, y \in A : f[x] = f[y] => x = y,
           \A y \in B : \E x \in A : f[x] = y
    PROVE  f \in Bijection(A, B)
  BY DEF Bijection, Injection, Surjection, IsInjective

LEMMA AlikeMeansSameBag ==
    ASSUME NEW A, NEW B, IsFiniteSet(A), Alike(A, B)
    PROVE  Bag(A) = Bag(B)
<1>1. PICK f \in Bijection(A, B) : \A x \in A : f[x][2] = x[2]
  BY DEF Alike
<1>2. /\ f \in [A -> B]
      /\ \A x, y \in A : f[x] = f[y] => x = y
      /\ \A y \in B : \E x \in A : f[x] = y
  BY BijectionFacts
<1>3. {x[2] : x \in A} = {x[2] : x \in B}
  BY <1>1, <1>2
<1>4. ASSUME NEW s PROVE Cardinality(With(A, s)) = Cardinality(With(B, s))
  <2>. DEFINE g == [x \in With(A, s) |-> f[x]]
  <2>1. g \in Bijection(With(A, s), With(B, s))
    <3>1. g \in [With(A, s) -> With(B, s)]
      BY <1>1, <1>2 DEF With
    <3>2. \A x, y \in With(A, s) : g[x] = g[y] => x = y
      BY <1>2 DEF With
    <3>3. \A y \in With(B, s) : \E x \in With(A, s) : g[x] = y
      BY <1>1, <1>2 DEF With
    <3>. HIDE DEF g
    <3>. QED
      BY <3>1, <3>2, <3>3, IsBijection
  <2>2. IsFiniteSet(With(A, s))
    BY FS_Subset DEF With
  <2>. QED
    BY <2>1, <2>2, FS_Bijection DEF ExistsBijection
<1>5. \A s : With(A, s) = {x \in A : x[2] = s} /\ With(B, s) = {x \in B : x[2] = s}
  BY DEF With
<1>6. Bag(A) = [s \in {x[2] : x \in A} |-> Cardinality(With(A, s))]
      /\ Bag(B) = [s \in {x[2] : x \in B} |-> Cardinality(With(B, s))]
  BY <1>5 DEF Bag
<1>. QED
  BY <1>3, <1>4, <1>6

LEMMA AlikeIsEquivalence ==
    ASSUME NEW A, NEW B, NEW C
    PROVE  /\ Alike(A, A)
           /\ Alike(A, B) => Alike(B, A)
           /\ Alike(A, B) /\ Alike(B, C) => Alike(A, C)
<1>1. Alike(A, A)
  <2>. DEFINE f == [x \in A |-> x]
  <2>1. f \in Bijection(A, A)
    BY IsBijection
  <2>. QED
    BY <2>1 DEF Alike
<1>2. ASSUME Alike(A, B) PROVE Alike(B, A)
  <2>1. PICK f \in Bijection(A, B) : \A x \in A : f[x][2] = x[2]
    BY <1>2 DEF Alike
  <2>2. /\ f \in [A -> B] /\ \A x, y \in A : f[x] = f[y] => x = y
        /\ \A y \in B : \E x \in A : f[x] = y
    BY BijectionFacts
  <2>. DEFINE g == [y \in B |-> CHOOSE x \in A : f[x] = y]
  <2>3. \A y \in B : g[y] \in A /\ f[g[y]] = y
    BY <2>2
  <2>4. g \in [B -> A]
    BY <2>3
  <2>. HIDE DEF g
  <2>5. g \in Bijection(B, A)
    BY <2>2, <2>3, <2>4, IsBijection
  <2>. QED
    BY <2>1, <2>3, <2>5 DEF Alike
<1>3. ASSUME Alike(A, B), Alike(B, C) PROVE Alike(A, C)
  <2>1. PICK f \in Bijection(A, B) : \A x \in A : f[x][2] = x[2]
    BY <1>3 DEF Alike
  <2>2. PICK g \in Bijection(B, C) : \A x \in B : g[x][2] = x[2]
    BY <1>3 DEF Alike
  <2>3. /\ f \in [A -> B] /\ \A x, y \in A : f[x] = f[y] => x = y
        /\ \A y \in B : \E x \in A : f[x] = y
    BY BijectionFacts
  <2>4. /\ g \in [B -> C] /\ \A x, y \in B : g[x] = g[y] => x = y
        /\ \A y \in C : \E x \in B : g[x] = y
    BY BijectionFacts
  <2>. DEFINE h == [x \in A |-> g[f[x]]]
  <2>5. h \in [A -> C] /\ \A x, y \in A : h[x] = h[y] => x = y
    BY <2>3, <2>4
  <2>6. \A y \in C : \E x \in A : h[x] = y
    BY <2>3, <2>4
  <2>7. \A x \in A : h[x][2] = x[2]
    BY <2>1, <2>2, <2>3
  <2>. HIDE DEF h
  <2>8. h \in Bijection(A, C)
    BY <2>5, <2>6, IsBijection
  <2>. QED
    BY <2>7, <2>8 DEF Alike
<1>. QED
  BY <1>1, <1>2, <1>3

\* Two bags whose members come from one another.
LEMMA AlikeBothWays ==
    ASSUME NEW A, NEW B, NEW f, NEW g,
           \A x \in A : f[x] \in B /\ g[f[x]] = x /\ f[x][2] = x[2],
           \A y \in B : g[y] \in A /\ f[g[y]] = y
    PROVE  Alike(A, B)
<1>. DEFINE h == [x \in A |-> f[x]]
<1>1. h \in Bijection(A, B)
  BY IsBijection
<1>. QED
  BY <1>1 DEF Alike

-----------------------------------------------------------------------------
(* Joins: any order will do                                                *)

LEMMA MergeCommutes ==
    ASSUME NEW a, NEW b, Compatible(a, b)
    PROVE  Merge(a, b) = Merge(b, a)
  BY DEF Compatible, Merge

LEMMA MergeAssociates ==
    ASSUME NEW a, NEW b, NEW c
    PROVE  Merge(Merge(a, b), c) = Merge(a, Merge(b, c))
  BY DEF Merge

LEMMA CompatibleWithMerge ==
    ASSUME NEW a, NEW b, NEW c
    PROVE  /\ (Compatible(a, b) /\ Compatible(Merge(a, b), c))
                <=> (Compatible(a, b) /\ Compatible(a, c) /\ Compatible(b, c))
           /\ (Compatible(b, c) /\ Compatible(a, Merge(b, c)))
                <=> (Compatible(a, b) /\ Compatible(a, c) /\ Compatible(b, c))
<1>1. /\ DOMAIN Merge(a, b) = DOMAIN a \cup DOMAIN b
      /\ DOMAIN Merge(b, c) = DOMAIN b \cup DOMAIN c
      /\ \A v \in DOMAIN a : Merge(a, b)[v] = a[v]
      /\ \A v \in DOMAIN b : Merge(b, c)[v] = b[v]
      /\ \A v \in DOMAIN b \ DOMAIN a : Merge(a, b)[v] = b[v]
      /\ \A v \in DOMAIN c \ DOMAIN b : Merge(b, c)[v] = c[v]
  BY DEF Merge
<1>2. (Compatible(a, b) /\ Compatible(Merge(a, b), c))
        <=> (Compatible(a, b) /\ Compatible(a, c) /\ Compatible(b, c))
  BY <1>1 DEF Compatible
<1>3. (Compatible(b, c) /\ Compatible(a, Merge(b, c)))
        <=> (Compatible(a, b) /\ Compatible(a, c) /\ Compatible(b, c))
  BY <1>1 DEF Compatible
<1>. QED
  BY <1>2, <1>3

\* A member of a join, made of a member of each side.
Pair(x, y) == <<<<x[1], y[1]>>, Merge(x[2], y[2])>>
Fit(x, y) == Compatible(x[2], y[2])
Pairs(L, R) == {j \in L \X R : Fit(j[1], j[2])}

LEMMA JoinMembers ==
    ASSUME NEW L, NEW R
    PROVE  /\ InnerJoin(L, R) = {Pair(j[1], j[2]) : j \in Pairs(L, R)}
           /\ \A z : z \in InnerJoin(L, R)
                        <=> \E x \in L, y \in R : Fit(x, y) /\ z = Pair(x, y)
<1>1. \A z : z \in InnerJoin(L, R) <=> \E j \in Pairs(L, R) : z = Pair(j[1], j[2])
  BY DEF InnerJoin, Pair, Fit, Pairs
<1>2. ASSUME NEW z
      PROVE  (\E j \in Pairs(L, R) : z = Pair(j[1], j[2]))
                <=> \E x \in L, y \in R : Fit(x, y) /\ z = Pair(x, y)
  <2>1. ASSUME NEW j \in Pairs(L, R) PROVE j[1] \in L /\ j[2] \in R /\ Fit(j[1], j[2])
    BY DEF Pairs
  <2>2. ASSUME NEW x \in L, NEW y \in R, Fit(x, y)
        PROVE  <<x, y>> \in Pairs(L, R) /\ <<x, y>>[1] = x /\ <<x, y>>[2] = y
    BY <2>2 DEF Pairs
  <2>3. ASSUME NEW x \in L, NEW y \in R, Fit(x, y), z = Pair(x, y)
        PROVE  \E j \in Pairs(L, R) : z = Pair(j[1], j[2])
    <3>1. z = Pair(<<x, y>>[1], <<x, y>>[2])
      BY <2>2, <2>3
    <3>. QED
      BY <2>2, <2>3, <3>1
  <2>. QED
    BY <2>1, <2>3
<1>3. InnerJoin(L, R) = {Pair(j[1], j[2]) : j \in Pairs(L, R)}
  BY <1>1
<1>. QED
  BY <1>1, <1>2, <1>3

LEMMA PairsDiffer ==
    ASSUME NEW L, NEW R, IsBag(L), IsBag(R),
           NEW x \in L, NEW y \in R, NEW u \in L, NEW v \in R, Pair(x, y)[1] = Pair(u, v)[1]
    PROVE  x = u /\ y = v
  BY DEF Pair, IsBag

LEMMA JoinIsBag ==
    ASSUME NEW L, NEW R, IsBag(L), IsBag(R)
    PROVE  IsBag(InnerJoin(L, R))
<1>1. \A z \in InnerJoin(L, R) : z = <<z[1], z[2]>>
  BY JoinMembers DEF Pair
<1>2. ASSUME NEW z \in InnerJoin(L, R), NEW w \in InnerJoin(L, R), z[1] = w[1] PROVE z = w
  <2>1. PICK x \in L, y \in R : z = Pair(x, y)
    BY JoinMembers
  <2>2. PICK u \in L, v \in R : w = Pair(u, v)
    BY JoinMembers
  <2>. QED
    BY <1>2, <2>1, <2>2, PairsDiffer
<1>. QED
  BY <1>1, <1>2 DEF IsBag

\* Which of two sides comes first does not matter.
THEOREM JoinCommutes ==
    ASSUME NEW L, NEW R
    PROVE  Alike(InnerJoin(L, R), InnerJoin(R, L))
<1>. DEFINE swap(z) == <<<<z[1][2], z[1][1]>>, z[2]>>
            f == [z \in InnerJoin(L, R) |-> swap(z)]
            g == [z \in InnerJoin(R, L) |-> swap(z)]
<1>1. \A x \in L, y \in R : Fit(x, y) => swap(Pair(x, y)) = Pair(y, x)
  BY MergeCommutes DEF Pair, Fit
<1>2. \A x \in L, y \in R : Fit(y, x) => swap(Pair(y, x)) = Pair(x, y)
  BY MergeCommutes DEF Pair, Fit
<1>3. \A x \in L, y \in R : Fit(x, y) <=> Fit(y, x)
  BY DEF Fit, Compatible
<1>4. \A z : swap(z)[2] = z[2]
  OBVIOUS
<1>. HIDE DEF swap
<1>5. ASSUME NEW z \in InnerJoin(L, R)
      PROVE  f[z] \in InnerJoin(R, L) /\ g[f[z]] = z /\ f[z][2] = z[2]
  <2>1. PICK x \in L, y \in R : Fit(x, y) /\ z = Pair(x, y)
    BY JoinMembers
  <2>2. f[z] = Pair(y, x)
    BY <1>1, <2>1
  <2>3. Pair(y, x) \in InnerJoin(R, L)
    BY <1>3, <2>1, JoinMembers
  <2>. QED
    BY <1>2, <1>3, <1>4, <2>1, <2>2, <2>3
<1>6. ASSUME NEW z \in InnerJoin(R, L)
      PROVE  g[z] \in InnerJoin(L, R) /\ f[g[z]] = z
  <2>1. PICK y \in R, x \in L : Fit(y, x) /\ z = Pair(y, x)
    BY JoinMembers
  <2>2. g[z] = Pair(x, y)
    BY <1>2, <2>1
  <2>3. Pair(x, y) \in InnerJoin(L, R)
    BY <1>3, <2>1, JoinMembers
  <2>. QED
    BY <1>1, <1>3, <2>1, <2>2, <2>3
<1>. HIDE DEF f, g
<1>. QED
  BY <1>5, <1>6, AlikeBothWays

\* Nor does it matter which two of three are joined first.
THEOREM JoinAssociates ==
    ASSUME NEW A, NEW B, NEW C
    PROVE  Alike(InnerJoin(InnerJoin(A, B), C), InnerJoin(A, InnerJoin(B, C)))
<1>. DEFINE L == InnerJoin(InnerJoin(A, B), C)
            R == InnerJoin(A, InnerJoin(B, C))
            right(z) == <<<<z[1][1][1], <<z[1][1][2], z[1][2]>>>>, z[2]>>
            left(z) == <<<<<<z[1][1], z[1][2][1]>>, z[1][2][2]>>, z[2]>>
            f == [z \in L |-> right(z)]
            g == [z \in R |-> left(z)]
            All(x, y, w) == Fit(x, y) /\ Fit(x, w) /\ Fit(y, w)
<1>1. \A x \in A, y \in B, w \in C : right(Pair(Pair(x, y), w)) = Pair(x, Pair(y, w))
  BY MergeAssociates DEF Pair
<1>2. \A x \in A, y \in B, w \in C : left(Pair(x, Pair(y, w))) = Pair(Pair(x, y), w)
  BY MergeAssociates DEF Pair
<1>3. \A z : right(z)[2] = z[2]
  OBVIOUS
<1>4. \A x \in A, y \in B, w \in C : /\ (Fit(x, y) /\ Fit(Pair(x, y), w)) <=> All(x, y, w)
                                     /\ (Fit(y, w) /\ Fit(x, Pair(y, w))) <=> All(x, y, w)
  <2>1. \A x, y : Pair(x, y)[2] = Merge(x[2], y[2])
    BY DEF Pair
  <2>. QED
    BY <2>1, CompatibleWithMerge DEF Fit
<1>. HIDE DEF right, left, All
<1>5. \A z : z \in L
               <=> \E x \in A, y \in B, w \in C : All(x, y, w) /\ z = Pair(Pair(x, y), w)
  <2>1. \A z : z \in L <=> \E u \in InnerJoin(A, B), w \in C : Fit(u, w) /\ z = Pair(u, w)
    BY JoinMembers
  <2>2. \A u : u \in InnerJoin(A, B) <=> \E x \in A, y \in B : Fit(x, y) /\ u = Pair(x, y)
    BY JoinMembers
  <2>. HIDE DEF L
  <2>. QED
    BY <1>4, <2>1, <2>2
<1>6. \A z : z \in R
               <=> \E x \in A, y \in B, w \in C : All(x, y, w) /\ z = Pair(x, Pair(y, w))
  <2>1. \A z : z \in R <=> \E x \in A, u \in InnerJoin(B, C) : Fit(x, u) /\ z = Pair(x, u)
    BY JoinMembers
  <2>2. \A u : u \in InnerJoin(B, C) <=> \E y \in B, w \in C : Fit(y, w) /\ u = Pair(y, w)
    BY JoinMembers
  <2>. HIDE DEF R
  <2>. QED
    BY <1>4, <2>1, <2>2
<1>. HIDE DEF L, R
<1>7. ASSUME NEW z \in L PROVE f[z] \in R /\ g[f[z]] = z /\ f[z][2] = z[2]
  <2>1. PICK x \in A, y \in B, w \in C : All(x, y, w) /\ z = Pair(Pair(x, y), w)
    BY <1>5
  <2>2. f[z] = Pair(x, Pair(y, w)) /\ f[z] \in R
    BY <1>1, <1>6, <2>1
  <2>. QED
    BY <1>2, <1>3, <2>1, <2>2
<1>8. ASSUME NEW z \in R PROVE g[z] \in L /\ f[g[z]] = z
  <2>1. PICK x \in A, y \in B, w \in C : All(x, y, w) /\ z = Pair(x, Pair(y, w))
    BY <1>6
  <2>2. g[z] = Pair(Pair(x, y), w) /\ g[z] \in L
    BY <1>2, <1>5, <2>1
  <2>. QED
    BY <1>1, <2>1, <2>2
<1>. HIDE DEF f, g
<1>9. Alike(L, R)
  BY <1>7, <1>8, AlikeBothWays
<1>. QED
  BY <1>9 DEF L, R

\* Whatever a bag is joined with, another that is alike does as well.
THEOREM JoinRespects ==
    ASSUME NEW A, NEW B, NEW C, IsBag(A), IsBag(B), Alike(A, B)
    PROVE  /\ Alike(InnerJoin(A, C), InnerJoin(B, C))
           /\ Alike(InnerJoin(C, A), InnerJoin(C, B))
<1>1. PICK h \in Bijection(A, B) : \A x \in A : h[x][2] = x[2]
  BY DEF Alike
<1>2. /\ h \in [A -> B] /\ \A x, y \in A : h[x] = h[y] => x = y
      /\ \A y \in B : \E x \in A : h[x] = y
  BY BijectionFacts
<1>. DEFINE there(o) == h[CHOOSE x \in A : x[1] = o][1]
            back(o) == (CHOOSE x \in A : h[x][1] = o)[1]
            f == [z \in InnerJoin(A, C) |-> <<<<there(z[1][1]), z[1][2]>>, z[2]>>]
            g == [z \in InnerJoin(B, C) |-> <<<<back(z[1][1]), z[1][2]>>, z[2]>>]
<1>3. \A x \in A : there(x[1]) = h[x][1]
  BY DEF IsBag
<1>4. \A x \in A : back(h[x][1]) = x[1]
  BY <1>2 DEF IsBag
<1>. HIDE DEF there, back
<1>5. ASSUME NEW x \in A, NEW y \in C
      PROVE  /\ Fit(x, y) <=> Fit(h[x], y)
             /\ Pair(x, y) = <<<<x[1], y[1]>>, Merge(x[2], y[2])>>
             /\ Pair(h[x], y) = <<<<h[x][1], y[1]>>, Merge(x[2], y[2])>>
  BY <1>1 DEF Fit, Pair
<1>6. ASSUME NEW x \in A, NEW y \in C, Fit(x, y)
      PROVE  /\ Pair(x, y) \in InnerJoin(A, C) /\ f[Pair(x, y)] = Pair(h[x], y)
             /\ Pair(h[x], y) \in InnerJoin(B, C) /\ g[Pair(h[x], y)] = Pair(x, y)
  <2>1. Pair(x, y) \in InnerJoin(A, C) /\ Pair(h[x], y) \in InnerJoin(B, C)
    BY <1>2, <1>5, <1>6, JoinMembers
  <2>2. f[Pair(x, y)] = Pair(h[x], y)
    BY <1>3, <1>5, <2>1
  <2>3. g[Pair(h[x], y)] = Pair(x, y)
    BY <1>4, <1>5, <2>1
  <2>. QED
    BY <2>1, <2>2, <2>3
<1>7. \A z \in InnerJoin(A, C) : f[z][2] = z[2]
  OBVIOUS
<1>. HIDE DEF f, g
<1>8. ASSUME NEW z \in InnerJoin(A, C)
      PROVE  f[z] \in InnerJoin(B, C) /\ g[f[z]] = z /\ f[z][2] = z[2]
  <2>1. PICK x \in A, y \in C : Fit(x, y) /\ z = Pair(x, y)
    BY JoinMembers
  <2>. QED
    BY <1>6, <1>7, <2>1
<1>9. ASSUME NEW z \in InnerJoin(B, C) PROVE g[z] \in InnerJoin(A, C) /\ f[g[z]] = z
  <2>1. PICK u \in B, y \in C : Fit(u, y) /\ z = Pair(u, y)
    BY JoinMembers
  <2>2. PICK x \in A : h[x] = u
    BY <1>2
  <2>3. Fit(x, y)
    BY <1>5, <2>1, <2>2
  <2>. QED
    BY <1>6, <2>1, <2>2, <2>3
<1>10. Alike(InnerJoin(A, C), InnerJoin(B, C))
  BY <1>8, <1>9, AlikeBothWays
<1>11. Alike(InnerJoin(C, A), InnerJoin(C, B))
  BY <1>10, JoinCommutes, AlikeIsEquivalence
<1>. QED
  BY <1>10, <1>11

\* JoinReordering: two neighbours of a left-deep join may change places.
THEOREM NeighboursChangePlaces ==
    ASSUME NEW A, NEW B, NEW C, IsBag(B), IsBag(C)
    PROVE  Alike(InnerJoin(InnerJoin(A, B), C), InnerJoin(InnerJoin(A, C), B))
<1>1. Alike(InnerJoin(InnerJoin(A, B), C), InnerJoin(A, InnerJoin(B, C)))
  BY JoinAssociates
<1>2. Alike(InnerJoin(A, InnerJoin(B, C)), InnerJoin(A, InnerJoin(C, B)))
  BY JoinIsBag, JoinCommutes, JoinRespects
<1>3. Alike(InnerJoin(A, InnerJoin(C, B)), InnerJoin(InnerJoin(A, C), B))
  BY JoinAssociates, AlikeIsEquivalence
<1>. QED
  BY <1>1, <1>2, <1>3, AlikeIsEquivalence

-----------------------------------------------------------------------------
(* Filters                                                                 *)

Term(t) == t.kind \in {"var", "const"}

\* An equation holds of what binds its variables, whatever else that binds.
LEMMA MoreBound ==
    ASSUME NEW e, e.kind = "eq", Term(e.left), Term(e.right),
           NEW x, NEW z, VarsOf(e) \subseteq DOMAIN x[2], DOMAIN x[2] \subseteq DOMAIN z[2],
           \A v \in DOMAIN x[2] : z[2][v] = x[2][v]
    PROVE  Compares(e, x) <=> Compares(e, z)
<1>1. ASSUME NEW t \in {e.left, e.right}
      PROVE  ValueIn(t, x) = ValueIn(t, z) /\ ~Unbound(t, x) /\ ~Unbound(t, z)
  <2>1. t.kind = "var" => t.name \in DOMAIN x[2]
    BY DEF VarsOf
  <2>2. CASE t.kind = "var"
    BY <2>1, <2>2 DEF ValueIn, Unbound
  <2>3. CASE t.kind = "const"
    BY <2>3 DEF ValueIn, Unbound
  <2>. QED
    BY <2>2, <2>3 DEF Term
<1>. QED
  BY <1>1 DEF Compares

\* FilterPushdown: a filter may go into the side of a join that binds its variables in
\* every solution; a side that has a column for them is not enough if that may be NULL.
THEOREM FiltersCommuteWithJoins ==
    ASSUME NEW L, NEW R, NEW e, e.kind = "eq", Term(e.left), Term(e.right),
           \A x \in L : VarsOf(e) \subseteq DOMAIN x[2]
    PROVE  InnerJoin({x \in L : Compares(e, x)}, R) = {z \in InnerJoin(L, R) : Compares(e, z)}
<1>1. ASSUME NEW x \in L, NEW y \in R PROVE Compares(e, x) <=> Compares(e, Pair(x, y))
  <2>1. Pair(x, y)[2] = Merge(x[2], y[2])
    BY DEF Pair
  <2>2. /\ DOMAIN x[2] \subseteq DOMAIN Pair(x, y)[2]
        /\ \A v \in DOMAIN x[2] : Pair(x, y)[2][v] = x[2][v]
    BY <2>1 DEF Merge
  <2>. QED
    BY <2>2, MoreBound
<1>. DEFINE S == {x \in L : Compares(e, x)}
<1>2. \A z : z \in InnerJoin(S, R) <=> \E x \in S, y \in R : Fit(x, y) /\ z = Pair(x, y)
  BY JoinMembers
<1>3. \A z : z \in InnerJoin(L, R) <=> \E x \in L, y \in R : Fit(x, y) /\ z = Pair(x, y)
  BY JoinMembers
<1>4. \A z : z \in InnerJoin(S, R) <=> z \in InnerJoin(L, R) /\ Compares(e, z)
  <2>. HIDE DEF S
  <2>1. \A x : x \in S <=> x \in L /\ Compares(e, x)
    BY DEF S
  <2>. QED
    BY <1>1, <1>2, <1>3, <2>1
<1>. QED
  BY <1>4

-----------------------------------------------------------------------------
(* Scans of one table                                                      *)

\* The columns K are a key of the rows: no two agree on them, and none is NULL.
IsKey(K, rows) ==
    /\ \A r \in rows, k \in K : r[k] # Null
    /\ \A r, s \in rows : (\A k \in K : r[k] = s[k]) => r = s

LEMMA ScanIsBag ==
    ASSUME NEW m, NEW rows
    PROVE  IsBag(Scanned(m, rows))
  BY DEF IsBag, Scanned

LEMMA SolutionFacts ==
    ASSUME NEW m, NEW row, NEW v
    PROVE  /\ v \in DOMAIN Solution(m, row) <=> v \in DOMAIN m /\ row[m[v]] # Null
           /\ v \in DOMAIN Solution(m, row) => Solution(m, row)[v] = row[m[v]]
  BY DEF Solution

\* Two scans that join on a key and give each variable one column are one scan.
LEMMA ScansMerge ==
    ASSUME NEW m, NEW n, NEW rows, NEW K, IsKey(K, rows),
           \A k \in K : \E v \in DOMAIN m \cap DOMAIN n : m[v] = k /\ n[v] = k,
           \A v \in DOMAIN m \cap DOMAIN n : m[v] = n[v]
    PROVE  Alike(InnerJoin(Scanned(m, rows), Scanned(n, rows)), Scanned(Merge(n, m), rows))
<1>. DEFINE L == Scanned(m, rows)
            R == Scanned(n, rows)
            at(c, r) == <<r, Solution(c, r)>>
            f == [z \in InnerJoin(L, R) |-> <<z[1][1], z[2]>>]
            g == [z \in Scanned(Merge(n, m), rows) |-> <<<<z[1], z[1]>>, z[2]>>]
<1>1. \A c : \A x : x \in Scanned(c, rows) <=> \E r \in rows : x = at(c, r)
  BY DEF Scanned
<1>2. ASSUME NEW r \in rows, NEW s \in rows, Fit(at(m, r), at(n, s)) PROVE r = s
  <2>1. ASSUME NEW k \in K PROVE r[k] = s[k]
    <3>1. PICK v \in DOMAIN m \cap DOMAIN n : m[v] = k /\ n[v] = k
      OBVIOUS
    <3>2. r[k] # Null /\ s[k] # Null
      BY DEF IsKey
    <3>3. /\ v \in DOMAIN Solution(m, r) /\ Solution(m, r)[v] = r[k]
          /\ v \in DOMAIN Solution(n, s) /\ Solution(n, s)[v] = s[k]
      BY <3>1, <3>2, SolutionFacts
    <3>4. Solution(m, r)[v] = Solution(n, s)[v]
      BY <1>2, <3>3 DEF Fit, Compatible
    <3>. QED
      BY <3>3, <3>4
  <2>. QED
    BY <2>1 DEF IsKey
<1>3. ASSUME NEW r \in rows
      PROVE  /\ Fit(at(m, r), at(n, r))
             /\ Merge(Solution(m, r), Solution(n, r)) = Solution(Merge(n, m), r)
  <2>1. /\ DOMAIN Solution(m, r) = {v \in DOMAIN m : r[m[v]] # Null}
        /\ DOMAIN Solution(n, r) = {v \in DOMAIN n : r[n[v]] # Null}
        /\ \A v \in DOMAIN Solution(m, r) : Solution(m, r)[v] = r[m[v]]
        /\ \A v \in DOMAIN Solution(n, r) : Solution(n, r)[v] = r[n[v]]
    BY DEF Solution
  <2>2. Fit(at(m, r), at(n, r))
    BY <2>1 DEF Fit, Compatible
  <2>3. /\ DOMAIN Merge(n, m) = DOMAIN m \cup DOMAIN n
        /\ \A v \in DOMAIN m : Merge(n, m)[v] = m[v]
        /\ \A v \in DOMAIN n : Merge(n, m)[v] = n[v]
    BY DEF Merge
  <2>4. Merge(Solution(m, r), Solution(n, r)) = Solution(Merge(n, m), r)
    <3>1. DOMAIN Solution(m, r) \cup DOMAIN Solution(n, r)
            = {v \in DOMAIN Merge(n, m) : r[Merge(n, m)[v]] # Null}
      BY <2>1, <2>3
    <3>2. \A v \in DOMAIN Solution(m, r) \cup DOMAIN Solution(n, r) :
             (IF v \in DOMAIN Solution(m, r) THEN Solution(m, r)[v] ELSE Solution(n, r)[v])
               = r[Merge(n, m)[v]]
      BY <2>1, <2>3
    <3>3. Merge(Solution(m, r), Solution(n, r))
            = [v \in DOMAIN Solution(m, r) \cup DOMAIN Solution(n, r) |-> r[Merge(n, m)[v]]]
      BY <3>2 DEF Merge
    <3>4. Solution(Merge(n, m), r)
            = [v \in {x \in DOMAIN Merge(n, m) : r[Merge(n, m)[x]] # Null}
                 |-> r[Merge(n, m)[v]]]
      BY DEF Solution
    <3>. QED
      BY <3>1, <3>3, <3>4
  <2>. QED
    BY <2>2, <2>4
<1>4. ASSUME NEW r \in rows
      PROVE  Pair(at(m, r), at(n, r)) = <<<<r, r>>, Solution(Merge(n, m), r)>>
  BY <1>3 DEF Pair
<1>5. \A z : z \in InnerJoin(L, R)
               <=> \E r \in rows : z = <<<<r, r>>, Solution(Merge(n, m), r)>>
  <2>1. \A z : z \in InnerJoin(L, R) <=> \E x \in L, y \in R : Fit(x, y) /\ z = Pair(x, y)
    BY JoinMembers
  <2>2. /\ \A x : x \in L <=> \E r \in rows : x = at(m, r)
        /\ \A x : x \in R <=> \E r \in rows : x = at(n, r)
    BY <1>1
  <2>. HIDE DEF L, R, at
  <2>3. ASSUME NEW z, NEW x \in L, NEW y \in R, Fit(x, y), z = Pair(x, y)
        PROVE  \E r \in rows : z = <<<<r, r>>, Solution(Merge(n, m), r)>>
    <3>1. PICK r \in rows : x = at(m, r)
      BY <2>2
    <3>2. PICK s \in rows : y = at(n, s)
      BY <2>2
    <3>. QED
      BY <1>2, <1>4, <2>3, <3>1, <3>2
  <2>4. ASSUME NEW r \in rows
        PROVE  \E x \in L, y \in R :
                  Fit(x, y) /\ <<<<r, r>>, Solution(Merge(n, m), r)>> = Pair(x, y)
    BY <1>3, <1>4, <2>2
  <2>. QED
    BY <2>1, <2>3, <2>4
<1>6. \A z \in InnerJoin(L, R) :
         f[z] \in Scanned(Merge(n, m), rows) /\ g[f[z]] = z /\ f[z][2] = z[2]
  BY <1>1, <1>5
<1>7. \A z \in Scanned(Merge(n, m), rows) : g[z] \in InnerJoin(L, R) /\ f[g[z]] = z
  BY <1>1, <1>5
<1>. HIDE DEF f, g
<1>. QED
  BY <1>6, <1>7, AlikeBothWays

\* The variable of a column that has one.
LEMMA VarOfColumnFits ==
    ASSUME NEW m, NEW c \in Range(m)
    PROVE  VarOfColumn(m, c) \in DOMAIN m /\ m[VarOfColumn(m, c)] = c
  BY DEF VarOfColumn, Range

\* SelfJoinElimination: the merged scan stands for the join, where the primary key is a
\* key of the rows and no variable has two columns; the second condition is not checked.
THEOREM SelfJoinMerges ==
    ASSUME NEW a, NEW b, NEW rows, CanMerge(a, b), IsKey(PrimaryKeys[a.table], rows),
           \A v \in DOMAIN a.cols \cap DOMAIN b.cols : a.cols[v] = b.cols[v]
    PROVE  Alike(InnerJoin(Scanned(a.cols, rows), Scanned(b.cols, rows)),
                 Scanned(MergedColumns(a.cols, b.cols), rows))
<1>1. ASSUME NEW k \in PrimaryKeys[a.table]
      PROVE  \E v \in DOMAIN a.cols \cap DOMAIN b.cols : a.cols[v] = k /\ b.cols[v] = k
  BY VarOfColumnFits DEF CanMerge, SameKey
<1>. QED
  BY <1>1, ScansMerge DEF MergedColumns

\* RedundantJoinElimination: a scan with a key adds nothing to itself.
THEOREM ScanTwiceIsScan ==
    ASSUME NEW m, NEW rows, NEW K \in SUBSET Range(m), IsKey(K, rows)
    PROVE  Alike(InnerJoin(Scanned(m, rows), Scanned(m, rows)), Scanned(m, rows))
<1>1. \A k \in K : \E v \in DOMAIN m \cap DOMAIN m : m[v] = k /\ m[v] = k
  BY VarOfColumnFits
<1>2. Scanned(Merge(m, m), rows) = Scanned(m, rows)
  <2>1. \A r : Solution(Merge(m, m), r) = Solution(m, r)
    BY DEF Solution, Merge
  <2>. QED
    BY <2>1 DEF Scanned
<1>3. Alike(InnerJoin(Scanned(m, rows), Scanned(m, rows)), Scanned(Merge(m, m), rows))
  BY <1>1, ScansMerge
<1>. QED
  BY <1>2, <1>3

-----------------------------------------------------------------------------
(* Lookups                                                                 *)

\* What the database ensures of a foreign key: it refers to a key and points at a row.
Refers(fk, rows, targets) ==
    /\ IsKey(Range(fk.targets), targets)
    /\ \A r \in rows :
          (\A k \in DOMAIN fk.columns : r[fk.columns[k]] # Null)
            => \E t \in targets :
                  \A k \in DOMAIN fk.columns : t[fk.targets[k]] = r[fk.columns[k]]
IsNotNull(cs, rows) == \A r \in rows, c \in cs : r[c] # Null

\* JoinElimination: the scan that is looked up may go, where the database keeps its
\* foreign keys and its NOT NULL columns.
THEOREM LookupsAddNothing ==
    ASSUME NEW a, NEW b, NEW rows, NEW targets, IsLookup(a, b),
           IsNotNull(NotNull[a.table], rows),
           \A fk \in ForeignKeys[a.table] : fk.target = b.table => Refers(fk, rows, targets)
    PROVE  Alike(InnerJoin(Scanned(a.cols, rows), Scanned(b.cols, targets)),
                 Scanned(a.cols, rows))
<1>. DEFINE m == a.cols
            n == b.cols
<1>1. PICK fk \in ForeignKeys[a.table] :
         /\ fk.target = b.table
         /\ \A k \in DOMAIN fk.columns : Shares(m, fk.columns[k], n, fk.targets[k])
         /\ DOMAIN n = {VarOfColumn(n, fk.targets[k]) : k \in DOMAIN fk.targets}
         /\ Range(fk.columns) \subseteq NotNull[a.table]
  BY DEF IsLookup
<1>2. DOMAIN fk.columns = DOMAIN fk.targets
  BY MetadataAssumption DEF IsLookup
<1>3. Refers(fk, rows, targets)
  BY <1>1
<1>. DEFINE K == DOMAIN fk.columns
            var(k) == VarOfColumn(n, fk.targets[k])
<1>4. ASSUME NEW k \in K
      PROVE  /\ var(k) \in DOMAIN m /\ m[var(k)] = fk.columns[k]
             /\ var(k) \in DOMAIN n /\ n[var(k)] = fk.targets[k]
  BY <1>1, VarOfColumnFits DEF Shares
<1>5. DOMAIN n = {var(k) : k \in K}
  BY <1>1, <1>2
<1>6. \A r \in rows, k \in K : r[fk.columns[k]] # Null
  BY <1>1 DEF IsNotNull, Range
<1>. DEFINE to(r) == CHOOSE t \in targets : \A k \in K : t[fk.targets[k]] = r[fk.columns[k]]
            Meets(r, t) == \A k \in K : t[fk.targets[k]] = r[fk.columns[k]]
<1>7. \A t \in targets, k \in K : t[fk.targets[k]] # Null
  BY <1>2, <1>3 DEF Refers, IsKey, Range
<1>8. ASSUME NEW t \in targets, NEW u \in targets,
             \A k \in K : t[fk.targets[k]] = u[fk.targets[k]]
      PROVE  t = u
  BY <1>2, <1>3, <1>8 DEF Refers, IsKey, Range
<1>9. \A r \in rows : to(r) \in targets /\ Meets(r, to(r))
  BY <1>3, <1>6 DEF Refers
<1>10. ASSUME NEW r \in rows, NEW t \in targets, Meets(r, t) PROVE t = to(r)
  <2>1. \A k \in K : t[fk.targets[k]] = to(r)[fk.targets[k]]
    BY <1>9, <1>10
  <2>. QED
    BY <1>8, <1>9, <2>1
<1>. HIDE DEF to, K, var, m, n
<1>. DEFINE at(c, r) == <<r, Solution(c, r)>>
<1>11. ASSUME NEW r \in rows, NEW t \in targets, NEW k \in K
       PROVE  /\ var(k) \in DOMAIN Solution(m, r) /\ Solution(m, r)[var(k)] = r[fk.columns[k]]
              /\ var(k) \in DOMAIN Solution(n, t) /\ Solution(n, t)[var(k)] = t[fk.targets[k]]
  BY <1>4, <1>6, <1>7, SolutionFacts
<1>12. ASSUME NEW r \in rows, NEW t \in targets, Fit(at(m, r), at(n, t)) PROVE t = to(r)
  <2>1. ASSUME NEW k \in K PROVE t[fk.targets[k]] = r[fk.columns[k]]
    BY <1>11, <1>12 DEF Fit, Compatible
  <2>. QED
    BY <1>10, <2>1
<1>13. ASSUME NEW r \in rows
       PROVE  /\ Fit(at(m, r), at(n, to(r)))
              /\ Merge(Solution(m, r), Solution(n, to(r))) = Solution(m, r)
  <2>1. \A v \in DOMAIN Solution(n, to(r)) : /\ v \in DOMAIN Solution(m, r)
                                             /\ Solution(m, r)[v] = Solution(n, to(r))[v]
    <3>. SUFFICES ASSUME NEW v \in DOMAIN Solution(n, to(r))
                  PROVE  /\ v \in DOMAIN Solution(m, r)
                         /\ Solution(m, r)[v] = Solution(n, to(r))[v]
      OBVIOUS
    <3>1. PICK k \in K : v = var(k)
      BY <1>5, SolutionFacts
    <3>. QED
      BY <1>9, <1>11, <3>1
  <2>2. DOMAIN Solution(m, r) \cup DOMAIN Solution(n, to(r)) = DOMAIN Solution(m, r)
    BY <2>1
  <2>3. Solution(m, r) = [v \in DOMAIN Solution(m, r) |-> Solution(m, r)[v]]
    BY DEF Solution
  <2>4. Merge(Solution(m, r), Solution(n, to(r))) = Solution(m, r)
    BY <2>2, <2>3 DEF Merge
  <2>. QED
    BY <2>1, <2>4 DEF Fit, Compatible
<1>. DEFINE L == Scanned(m, rows)
            R == Scanned(n, targets)
            f == [z \in InnerJoin(L, R) |-> <<z[1][1], z[2]>>]
            g == [z \in L |-> <<<<z[1], to(z[1])>>, z[2]>>]
<1>14. ASSUME NEW r \in rows
       PROVE  Pair(at(m, r), at(n, to(r))) = <<<<r, to(r)>>, Solution(m, r)>>
  BY <1>13 DEF Pair
<1>15. \A x : x \in L <=> \E r \in rows : x = <<r, Solution(m, r)>>
  BY DEF Scanned
<1>16. \A z : z \in InnerJoin(L, R) <=> \E r \in rows : z = <<<<r, to(r)>>, Solution(m, r)>>
  <2>1. \A z : z \in InnerJoin(L, R) <=> \E x \in L, y \in R : Fit(x, y) /\ z = Pair(x, y)
    BY JoinMembers
  <2>2. /\ \A x : x \in L <=> \E r \in rows : x = at(m, r)
        /\ \A x : x \in R <=> \E t \in targets : x = at(n, t)
    BY DEF Scanned
  <2>. HIDE DEF L, R, at
  <2>3. ASSUME NEW z, NEW x \in L, NEW y \in R, Fit(x, y), z = Pair(x, y)
        PROVE  \E r \in rows : z = <<<<r, to(r)>>, Solution(m, r)>>
    <3>1. PICK r \in rows : x = at(m, r)
      BY <2>2
    <3>2. PICK t \in targets : y = at(n, t)
      BY <2>2
    <3>. QED
      BY <1>12, <1>14, <2>3, <3>1, <3>2
  <2>4. ASSUME NEW r \in rows
        PROVE  \E x \in L, y \in R :
                  Fit(x, y) /\ <<<<r, to(r)>>, Solution(m, r)>> = Pair(x, y)
    BY <1>9, <1>13, <1>14, <2>2
  <2>. QED
    BY <2>1, <2>3, <2>4
<1>. HIDE DEF L, R
<1>17. \A z \in InnerJoin(L, R) : f[z] \in L /\ g[f[z]] = z /\ f[z][2] = z[2]
  BY <1>15, <1>16
<1>18. \A z \in L : g[z] \in InnerJoin(L, R) /\ f[g[z]] = z
  BY <1>15, <1>16
<1>. HIDE DEF f, g
<1>19. Alike(InnerJoin(L, R), L)
  BY <1>17, <1>18, AlikeBothWays
<1>. QED
  BY <1>19 DEF L, R, m, n

-----------------------------------------------------------------------------
(* Projections                                                             *)

\* NormalizeProjection: one projection does what the two did, as long as the outer one
\* only names what the inner one gives.
THEOREM ProjectionsCompose ==
    ASSUME NEW s, NEW vs, NEW b, NEW ws, NEW c,
           \A v \in DOMAIN b : Term(b[v]),
           \A v \in DOMAIN b : b[v].kind = "var" => b[v].name \in ws \cap DOMAIN c
    PROVE  Project(Project(s, ws, c), vs, b) = Project(s, vs, SubstitutedAll(b, c))
<1>. DEFINE p == Project(s, ws, c)
            d == SubstitutedAll(b, c)
            value(e, t) == IF e.kind = "const" THEN e.value ELSE t[e.name]
<1>1. DOMAIN d = DOMAIN b
  BY DEF SubstitutedAll
<1>2. /\ \A w : w \in DOMAIN p <=> w \in ws \cap DOMAIN c /\ VarsOf(c[w]) \subseteq DOMAIN s
      /\ \A w \in DOMAIN p : p[w] = value(c[w], s)
  BY DEF Project
<1>. HIDE DEF p
<1>3. ASSUME NEW v \in DOMAIN b
      PROVE  /\ VarsOf(b[v]) \subseteq DOMAIN p <=> VarsOf(d[v]) \subseteq DOMAIN s
             /\ VarsOf(b[v]) \subseteq DOMAIN p => value(b[v], p) = value(d[v], s)
  <2>1. CASE b[v].kind = "var"
    <3>1. d[v] = c[b[v].name] /\ VarsOf(b[v]) = {b[v].name}
      BY <2>1 DEF SubstitutedAll, Substituted, VarsOf
    <3>2. value(b[v], p) = p[b[v].name]
      BY <2>1
    <3>. HIDE DEF value, d
    <3>. QED
      BY <1>2, <2>1, <3>1, <3>2
  <2>2. CASE b[v].kind = "const"
    <3>1. d[v] = b[v] /\ VarsOf(b[v]) = {}
      BY <2>2 DEF SubstitutedAll, Substituted, VarsOf
    <3>. QED
      BY <2>2, <3>1
  <2>. QED
    BY <2>1, <2>2 DEF Term
<1>4. \A t, e : Project(t, vs, e)
                  = [v \in {w \in vs \cap DOMAIN e : VarsOf(e[w]) \subseteq DOMAIN t}
                       |-> value(e[v], t)]
  BY DEF Project
<1>. HIDE DEF d, value
<1>5. {w \in vs \cap DOMAIN b : VarsOf(b[w]) \subseteq DOMAIN p}
        = {w \in vs \cap DOMAIN d : VarsOf(d[w]) \subseteq DOMAIN s}
  BY <1>1, <1>3
<1>6. Project(p, vs, b) = Project(s, vs, d)
  <2>. DEFINE D == {w \in vs \cap DOMAIN b : VarsOf(b[w]) \subseteq DOMAIN p}
  <2>1. Project(p, vs, b) = [v \in D |-> value(b[v], p)]
    BY <1>4
  <2>2. Project(s, vs, d) = [v \in D |-> value(d[v], s)]
    BY <1>4, <1>5
  <2>3. \A v \in D : value(b[v], p) = value(d[v], s)
    BY <1>3
  <2>. HIDE DEF D
  <2>. QED
    BY <2>1, <2>2, <2>3
<1>. QED
  BY <1>6 DEF p, d

\* PruneUnusedColumns: the bindings that are not projected are of no use.
THEOREM PruningKeepsProjections ==
    ASSUME NEW s, NEW vs, NEW bs
    PROVE  Project(s, Range(vs), Pruned(vs, bs)) = Project(s, Range(vs), bs)
<1>1. /\ DOMAIN Pruned(vs, bs) = Range(vs) \cap DOMAIN bs
      /\ \A v \in Range(vs) \cap DOMAIN bs : Pruned(vs, bs)[v] = bs[v]
  BY DEF Pruned, Restrict
<1>. QED
  BY <1>1 DEF Project
=============================================================================
