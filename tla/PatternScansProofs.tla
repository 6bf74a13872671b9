--------------------------- MODULE PatternScansProofs ---------------------------
(***************************************************************************)
(* The patterns of one subject that a table answers are one scan of it:    *)
(* what the scan and its filters answer is what the patterns answer over   *)
(* the triples of the mappings, for every database and every mapping,      *)
(* where the table is keyed by the subject's column.                       *)
(***************************************************************************)
EXTENDS PassRulesProofs, PatternScans

\* What the scan of a group answers under its filters, of the variables vs.
GroupAnswers(acc, rows, vs) ==
    {<<x[1], Restrict(x[2], vs \cap DOMAIN x[2])>> :
        x \in {y \in Scanned(acc.cols, rows) :
                  \A i \in DOMAIN acc.filters : Compares(acc.filters[i], y)}}

IsFcn(f) == f = [v \in DOMAIN f |-> f[v]]

\* A group that has patterns of the subject s, for the variables vs, in the making.
GroupOf(acc, s, vs) ==
    /\ acc = [cols |-> acc.cols, filters |-> acc.filters]
    /\ IsFcn(acc.cols)
    /\ s \in vs /\ vs \subseteq DOMAIN acc.cols
    /\ \E S : acc.filters \in Seq(S)
    /\ \A i \in DOMAIN acc.filters :
          \E k \in DOMAIN acc.cols : \E c : acc.filters[i] = Eq(Var(k), Const(c))

\* The pattern has a variable subject, and r is the one rule that can answer it.
ServedBy(pat, t, r) ==
    /\ \E s, p : pat = <<Var(s), Const(p), pat[3]>>
    /\ \E n : pat[3] = Var(n) \/ pat[3] = Const(n)
    /\ r \in Range(Rules(pat[2].value)) /\ r.table = t
    /\ RuleFor(t, pat).subject = r.subject
    /\ NotType(pat) => RuleFor(t, pat) = r /\ r.object # NoColumn
    /\ IsType(pat) => r.object = NoColumn /\ ~IsVar(pat[3]) /\ r.constant = pat[3].value
    /\ \A q \in Range(Rules(pat[2].value)) \ {r} :
          IsType(pat) /\ q.object = NoColumn /\ q.constant # pat[3].value

KeyedBy(c, rows) == /\ \A row \in rows : row[c] # Null
                    /\ \A x, y \in rows : x[c] = y[c] => x = y

\* A variable object is new to the group, and its column NOT NULL; a constant gets a name
\* of its own.
ObjectIsNew(acc, pat, r, rows) ==
    IF IsVar(pat[3])
    THEN /\ pat[3].name \notin DOMAIN acc.cols
         /\ \A row \in rows : row[r.object] # Null
    ELSE NotType(pat) => ConstantVar(acc.cols) \notin DOMAIN acc.cols

-----------------------------------------------------------------------------
(* A group and one row of its table                                        *)

Passing(e, cols, row) == /\ row[cols[e.left.name]] # Null
                         /\ row[cols[e.left.name]] = e.right.value
Passes(acc, row) == \A i \in DOMAIN acc.filters : Passing(acc.filters[i], acc.cols, row)
Shown(cols, row, vs) == [v \in {x \in vs : row[cols[x]] # Null} |-> row[cols[v]]]

LEMMA GroupByRows ==
    ASSUME NEW acc, NEW rows, NEW s, NEW vs, GroupOf(acc, s, vs)
    PROVE  GroupAnswers(acc, rows, vs)
             = {<<row, Shown(acc.cols, row, vs)>> : row \in {x \in rows : Passes(acc, x)}}
<1> DEFINE at(row) == <<row, Solution(acc.cols, row)>>
           ok(y) == \A i \in DOMAIN acc.filters : Compares(acc.filters[i], y)
           cut(y) == <<y[1], Restrict(y[2], vs \cap DOMAIN y[2])>>
           kept == {y \in Scanned(acc.cols, rows) : ok(y)}
<1>1. ASSUME NEW row PROVE ok(at(row)) <=> Passes(acc, row)
  <2>1. ASSUME NEW i \in DOMAIN acc.filters
        PROVE  Compares(acc.filters[i], at(row))
                 <=> Passing(acc.filters[i], acc.cols, row)
    <3>0. PICK k \in DOMAIN acc.cols : \E c : acc.filters[i] = Eq(Var(k), Const(c))
      BY DEF GroupOf
    <3>1. PICK c : acc.filters[i] = Eq(Var(k), Const(c))
      BY <3>0
    <3>2. /\ Unbound(Var(k), at(row)) <=> k \notin DOMAIN Solution(acc.cols, row)
          /\ ~Unbound(Const(c), at(row))
          /\ ValueIn(Var(k), at(row)) = Solution(acc.cols, row)[k]
          /\ ValueIn(Const(c), at(row)) = c
      BY DEF Unbound, ValueIn, Var, Const
    <3>3. /\ acc.filters[i].left = Var(k) /\ acc.filters[i].right = Const(c)
          /\ Var(k).name = k /\ Const(c).value = c
      BY <3>1 DEF Eq, Var, Const
    <3>4. Compares(acc.filters[i], at(row))
            <=> k \in DOMAIN Solution(acc.cols, row) /\ Solution(acc.cols, row)[k] = c
      BY <3>2, <3>3 DEF Compares
    <3> QED
      BY <3>3, <3>4, SolutionFacts DEF Passing
  <2> QED
    BY <2>1 DEF Passes
<1>2. ASSUME NEW row
      PROVE  Restrict(at(row)[2], vs \cap DOMAIN at(row)[2]) = Shown(acc.cols, row, vs)
  <2>1. vs \cap DOMAIN Solution(acc.cols, row) = {x \in vs : row[acc.cols[x]] # Null}
    BY SolutionFacts DEF GroupOf
  <2>2. \A v \in vs \cap DOMAIN Solution(acc.cols, row) :
           Solution(acc.cols, row)[v] = row[acc.cols[v]]
    BY SolutionFacts
  <2> QED
    BY <2>1, <2>2 DEF Restrict, Shown
<1>3. \A row : cut(at(row)) = <<row, Shown(acc.cols, row, vs)>>
  BY <1>2
<1>4. \A y : y \in kept <=> \E row \in rows : Passes(acc, row) /\ y = at(row)
  BY <1>1 DEF Scanned
<1>5. GroupAnswers(acc, rows, vs) = {cut(y) : y \in kept}
  BY DEF GroupAnswers
<1> HIDE DEF at, ok, kept, cut
<1>6. \A z : z \in GroupAnswers(acc, rows, vs)
                <=> \E row \in rows : Passes(acc, row) /\ z = <<row, Shown(acc.cols, row, vs)>>
  BY <1>3, <1>4, <1>5
<1> QED
  BY <1>6

-----------------------------------------------------------------------------
(* A pattern and one row of the table                                      *)

ObjectIn(r, row) == IF r.object = NoColumn THEN Const(r.constant) ELSE Const(row[r.object])
TripleOf(p, r, row) == <<Const(row[r.subject]), Const(p), ObjectIn(r, row)>>
HasTriple(r, row) == row[r.subject] # Null /\ (r.object # NoColumn => row[r.object] # Null)

LEMMA TriplesAreOfRows ==
    ASSUME NEW db, NEW tr
    PROVE  tr \in Triples(db)
             <=> \E p \in DOMAIN Mappings : \E r \in Range(Rules(p)) : \E row \in db[r.table] :
                    HasTriple(r, row) /\ tr = TripleOf(p, r, row)
<1> DEFINE of(p, r) == {<<Const(row[r.subject]), Const(p),
                          IF r.object = NoColumn THEN Const(r.constant)
                                                 ELSE Const(row[r.object])>> :
                          row \in {x \in db[r.table] :
                                     /\ x[r.subject] # Null
                                     /\ r.object # NoColumn => x[r.object] # Null}}
           all(p) == UNION {of(p, r) : r \in Range(Rules(p))}
<1>1. \A p, r : tr \in of(p, r)
                  <=> \E row \in db[r.table] : HasTriple(r, row) /\ tr = TripleOf(p, r, row)
  BY DEF HasTriple, TripleOf, ObjectIn
<1>2. Triples(db) = UNION {all(p) : p \in DOMAIN Mappings}
  BY DEF Triples
<1> HIDE DEF of
<1>3. \A p : tr \in all(p) <=> \E r \in Range(Rules(p)) : tr \in of(p, r)
  OBVIOUS
<1> HIDE DEF all
<1>4. tr \in Triples(db) <=> \E p \in DOMAIN Mappings : tr \in all(p)
  BY <1>2
<1> QED
  BY <1>1, <1>3, <1>4

\* What a row answers: the row's own subject, and its object where it is asked for.
Serves(pat, r, row) ==
    HasTriple(r, row) /\ (IsVar(pat[3]) \/ pat[3] = ObjectIn(r, row))
RowAnswer(pat, r, row) ==
    [v \in PatternVars(pat) |-> IF pat[1] = Var(v) THEN row[r.subject] ELSE row[r.object]]

LEMMA TermsDiffer ==
    ASSUME NEW a, NEW b
    PROVE  /\ Var(a) = Var(b) => a = b
           /\ Const(a) = Const(b) => a = b
           /\ Var(a) # Const(b)
           /\ Var(a).name = a /\ Const(a).value = a
           /\ IsVar(Var(a)) /\ ~IsVar(Const(a))
  BY DEF Var, Const, IsVar

LEMMA PatternShape ==
    ASSUME NEW pat, NEW s, NEW p, pat = <<Var(s), Const(p), pat[3]>>,
           IsVar(pat[3]) => \E n : pat[3] = Var(n) /\ n # s
    PROVE  /\ PatternVars(pat) = {s} \cup (IF IsVar(pat[3]) THEN {pat[3].name} ELSE {})
           /\ \A v \in PatternVars(pat) :
                 PlaceOf(v, pat) = IF pat[1] = Var(v) THEN 1 ELSE 3
           /\ \A tr : Matches(pat, tr) <=> tr[2] = Const(p) /\ (IsVar(pat[3]) \/ pat[3] = tr[3])
<1>1. 1..3 = {1, 2, 3} /\ pat[1] = Var(s) /\ pat[2] = Const(p)
  OBVIOUS
<1>2. /\ IsVar(pat[1]) /\ ~IsVar(pat[2]) /\ pat[1].name = s
      /\ pat[1] # pat[2] /\ pat[1] # pat[3]
  BY <1>1, TermsDiffer
<1>3. {j \in 1..3 : IsVar(pat[j])} = {1} \cup (IF IsVar(pat[3]) THEN {3} ELSE {})
  BY <1>1, <1>2
<1>4. PatternVars(pat) = {s} \cup (IF IsVar(pat[3]) THEN {pat[3].name} ELSE {})
  BY <1>2, <1>3 DEF PatternVars
<1>5. ASSUME NEW v \in PatternVars(pat)
      PROVE  PlaceOf(v, pat) = IF pat[1] = Var(v) THEN 1 ELSE 3
  <2>1. CASE v = s
    <3>1. \A i \in 1..3 : pat[i] = Var(v) <=> i = 1
      BY <1>1, <1>2, <2>1
    <3> QED
      BY <1>1, <2>1, <3>1 DEF PlaceOf
  <2>2. CASE v # s
    <3>1. IsVar(pat[3]) /\ v = pat[3].name /\ pat[3] = Var(v)
      BY <1>4, <2>2, TermsDiffer
    <3>2. pat[1] # Var(v)
      BY <1>1, <2>2, TermsDiffer
    <3>3. \A i \in 1..3 : pat[i] = Var(v) <=> i = 3
      BY <1>1, <3>1, <3>2, TermsDiffer
    <3> QED
      BY <1>1, <3>2, <3>3 DEF PlaceOf
  <2> QED
    BY <2>1, <2>2
<1>6. ASSUME NEW tr
      PROVE  Matches(pat, tr) <=> tr[2] = Const(p) /\ (IsVar(pat[3]) \/ pat[3] = tr[3])
  <2>1. (\A i \in 1..3 : IsVar(pat[i]) \/ pat[i] = tr[i])
           <=> tr[2] = Const(p) /\ (IsVar(pat[3]) \/ pat[3] = tr[3])
    BY <1>1, <1>2
  <2>2. \A i, j \in 1..3 : IsVar(pat[i]) /\ pat[i] = pat[j] => i = j
    BY <1>1, <1>2, TermsDiffer
  <2> QED
    BY <2>1, <2>2 DEF Matches
<1> QED
  BY <1>4, <1>5, <1>6

LEMMA AnswersByRows ==
    ASSUME NEW db, NEW t, NEW pat, NEW r, NEW s, ServedBy(pat, t, r), pat[1] = Var(s),
           IsVar(pat[3]) => pat[3].name # s
    PROVE  TripleAnswers(pat, db)
             = {<<TripleOf(pat[2].value, r, row), RowAnswer(pat, r, row)>> :
                  row \in {x \in db[t] : Serves(pat, r, x)}}
<1>1. PICK p : pat = <<Var(s), Const(p), pat[3]>>
  BY TermsDiffer DEF ServedBy
<1>2. /\ IsVar(pat[3]) => \E n : pat[3] = Var(n) /\ n # s
      /\ ~IsVar(pat[3]) => \E n : pat[3] = Const(n)
  BY TermsDiffer DEF ServedBy
<1>3. pat[2].value = p /\ pat[2] = Const(p)
  BY <1>1, TermsDiffer
<1>4. p \in DOMAIN Mappings /\ r \in Range(Rules(p)) /\ r.table = t
  BY <1>3 DEF ServedBy, Rules, Range
<1> DEFINE ans(tr) == [v \in PatternVars(pat) |-> tr[PlaceOf(v, pat)].value]
           triple(row) == TripleOf(p, r, row)
<1>5. \A tr : Matches(pat, tr) <=> tr[2] = Const(p) /\ (IsVar(pat[3]) \/ pat[3] = tr[3])
  BY <1>1, <1>2, PatternShape
<1>6. ASSUME NEW row PROVE /\ triple(row)[2] = Const(p) /\ triple(row)[3] = ObjectIn(r, row)
                           /\ triple(row)[1] = Const(row[r.subject])
  BY DEF TripleOf
<1>7. ASSUME NEW tr, tr \in Triples(db), Matches(pat, tr)
      PROVE  \E row \in db[t] : Serves(pat, r, row) /\ tr = triple(row)
  <2>0. PICK q \in DOMAIN Mappings :
           \E o \in Range(Rules(q)) : \E row \in db[o.table] :
              HasTriple(o, row) /\ tr = TripleOf(q, o, row)
    BY <1>7, TriplesAreOfRows
  <2>1. PICK o \in Range(Rules(q)) : \E row \in db[o.table] :
           HasTriple(o, row) /\ tr = TripleOf(q, o, row)
    BY <2>0
  <2>4. PICK row \in db[o.table] : HasTriple(o, row) /\ tr = TripleOf(q, o, row)
    BY <2>1
  <2>2. q = p
    BY <1>5, <1>7, <2>4, TermsDiffer DEF TripleOf
  <2>3. o = r
    <3> SUFFICES ASSUME o # r PROVE FALSE
      OBVIOUS
    <3>1. IsType(pat) /\ o.object = NoColumn /\ o.constant # pat[3].value
      BY <1>3, <2>2 DEF ServedBy
    <3>2. ~IsVar(pat[3]) /\ tr[3] = Const(o.constant)
      BY <2>4, <3>1 DEF ServedBy, TripleOf, ObjectIn
    <3> QED
      BY <1>5, <1>7, <3>1, <3>2, TermsDiffer
  <2> QED
    BY <1>4, <1>5, <1>6, <1>7, <2>4, <2>2, <2>3 DEF Serves
<1>8. ASSUME NEW row \in db[t], Serves(pat, r, row)
      PROVE  triple(row) \in Triples(db) /\ Matches(pat, triple(row))
  <2>1. triple(row) \in Triples(db)
    BY <1>4, <1>8, TriplesAreOfRows DEF Serves
  <2> QED
    BY <1>5, <1>6, <1>8, <2>1 DEF Serves
<1>9. ASSUME NEW row \in db[t], Serves(pat, r, row)
      PROVE  ans(triple(row)) = RowAnswer(pat, r, row)
  <2> HIDE DEF triple
  <2>1. ASSUME NEW v \in PatternVars(pat)
        PROVE  triple(row)[PlaceOf(v, pat)].value
                 = IF pat[1] = Var(v) THEN row[r.subject] ELSE row[r.object]
    <3>1. PlaceOf(v, pat) = IF pat[1] = Var(v) THEN 1 ELSE 3
      BY <1>1, <1>2, PatternShape
    <3>2. CASE pat[1] = Var(v)
      BY <1>6, <3>1, <3>2, TermsDiffer
    <3>3. CASE pat[1] # Var(v)
      <4>1. IsVar(pat[3])
        BY <1>1, <1>2, <3>3, PatternShape
      <4>2. r.object # NoColumn
        BY <4>1 DEF ServedBy, NotType
      <4>3. triple(row)[3] = Const(row[r.object])
        BY <1>6, <4>2 DEF ObjectIn
      <4> QED
        BY <3>1, <3>3, <4>3, TermsDiffer
    <3> QED
      BY <3>2, <3>3
  <2> QED
    BY <2>1 DEF RowAnswer
<1>10. TripleAnswers(pat, db) = {<<tr, ans(tr)>> : tr \in {x \in Triples(db) : Matches(pat, x)}}
  BY DEF TripleAnswers
<1> HIDE DEF ans, triple
<1>11. \A z : z \in TripleAnswers(pat, db)
                 <=> \E row \in db[t] : /\ Serves(pat, r, row)
                                       /\ z = <<triple(row), RowAnswer(pat, r, row)>>
  BY <1>7, <1>8, <1>9, <1>10
<1> QED
  BY <1>3, <1>11 DEF triple

-----------------------------------------------------------------------------
(* A group that gets a pattern more                                        *)

LEMMA MergeFacts ==
    ASSUME NEW f, NEW g
    PROVE  /\ IsFcn(Merge(f, g))
           /\ DOMAIN Merge(f, g) = DOMAIN f \cup DOMAIN g
           /\ \A v \in DOMAIN f : Merge(f, g)[v] = f[v]
           /\ \A v \in DOMAIN g \ DOMAIN f : Merge(f, g)[v] = g[v]
  BY DEF Merge, IsFcn

\* What is merged is the function h, where h has its domain and its values.
IsMerge(f, g, h) == /\ IsFcn(h) /\ DOMAIN h = DOMAIN f \cup DOMAIN g
                    /\ \A v \in DOMAIN f : h[v] = f[v]
                    /\ \A v \in DOMAIN g \ DOMAIN f : h[v] = g[v]

LEMMA MergeIs ==
    ASSUME NEW f, NEW g, NEW h, IsMerge(f, g, h)
    PROVE  Merge(f, g) = h
<1>1. \A v \in DOMAIN f \cup DOMAIN g : h[v] = IF v \in DOMAIN f THEN f[v] ELSE g[v]
  BY DEF IsMerge
<1> QED
  BY <1>1 DEF Merge, IsFcn, IsMerge

LEMMA OneColumnFacts ==
    ASSUME NEW v, NEW c
    PROVE  DOMAIN OneColumn(v, c) = {v} /\ OneColumn(v, c)[v] = c
  BY DEF OneColumn

Grown(acc, pat, r) ==
    CASE IsVar(pat[3]) ->
           [cols |-> Merge(acc.cols, OneColumn(pat[3].name, r.object)),
            filters |-> acc.filters]
      [] ~IsVar(pat[3]) /\ NotType(pat) ->
           [cols |-> Merge(OneColumn(ConstantVar(acc.cols), r.object), acc.cols),
            filters |-> Append(acc.filters, Eq(Var(ConstantVar(acc.cols)), pat[3]))]
      [] OTHER -> acc

LEMMA AddPatternGrows ==
    ASSUME NEW acc, NEW t, NEW pat, NEW r, NEW s, NEW vs,
           GroupOf(acc, s, vs), ServedBy(pat, t, r), pat[1] = Var(s), acc.cols[s] = r.subject
    PROVE  AddPattern(t, acc, pat) = Grown(acc, pat, r)
<1> DEFINE withSub == Merge(acc.cols, OneColumn(s, r.subject))
<1>1. withSub = acc.cols
  <2>1. DOMAIN OneColumn(s, r.subject) = {s} /\ s \in DOMAIN acc.cols
    BY OneColumnFacts DEF GroupOf
  <2>2. IsFcn(acc.cols)
    BY DEF GroupOf
  <2> DEFINE g == OneColumn(s, r.subject)
             f == acc.cols
  <2>3. \A v \in DOMAIN g \ DOMAIN f : f[v] = g[v]
    BY <2>1
  <2>4. DOMAIN f = DOMAIN f \cup DOMAIN g
    BY <2>1
  <2>5. IsFcn(f)
    BY <2>2
  <2> HIDE DEF f, g
  <2>6. IsMerge(f, g, f)
    BY <2>3, <2>4, <2>5 DEF IsMerge
  <2>7. Merge(f, g) = f
    BY <2>6, MergeIs
  <2> QED
    BY <2>7 DEF f, g
<1>2. /\ IsVar(pat[1]) /\ pat[1].name = s /\ RuleFor(t, pat).subject = r.subject
      /\ IsVar(pat[3]) \/ NotType(pat) => RuleFor(t, pat) = r
  BY TermsDiffer DEF ServedBy, NotType
<1>3. acc = [cols |-> acc.cols, filters |-> acc.filters]
  BY DEF GroupOf
<1>4. AddPattern(t, acc, pat)
        = CASE IsVar(pat[3]) ->
                 [acc EXCEPT !.cols = Merge(withSub, OneColumn(pat[3].name,
                                                               RuleFor(t, pat).object))]
            [] ~IsVar(pat[3]) /\ NotType(pat) ->
                 [cols |-> Merge(OneColumn(ConstantVar(withSub), RuleFor(t, pat).object),
                                 withSub),
                  filters |-> Append(acc.filters, Eq(Var(ConstantVar(withSub)), pat[3]))]
            [] OTHER -> [acc EXCEPT !.cols = withSub]
  BY <1>2 DEF AddPattern
<1> HIDE DEF withSub
<1>5. [acc EXCEPT !.cols = acc.cols] = acc
  BY <1>3
<1>6. \A c : [acc EXCEPT !.cols = c] = [cols |-> c, filters |-> acc.filters]
  BY <1>3
<1> QED
  BY <1>1, <1>2, <1>4, <1>5, <1>6 DEF Grown

LEMMA PassingElsewhere ==
    ASSUME NEW e, NEW f, NEW g, NEW row, e.left.name \in DOMAIN f,
           \A v \in DOMAIN f : g[v] = f[v]
    PROVE  Passing(e, g, row) <=> Passing(e, f, row)
  BY DEF Passing

\* B binds, of a row, what the columns f do for s, and a column of g for n.
BindsMore(f, g, row, vs, s, n, B) ==
    /\ s \in vs /\ vs \subseteq DOMAIN f /\ n \notin DOMAIN f
    /\ row[f[s]] # Null /\ row[g[n]] # Null
    /\ \A v \in DOMAIN f : g[v] = f[v]
    /\ IsFcn(B) /\ DOMAIN B = {s, n} /\ B[s] = row[f[s]] /\ B[n] = row[g[n]]

LEMMA ShownWithMore ==
    ASSUME NEW f, NEW g, NEW row, NEW vs, NEW s, NEW n, NEW B, BindsMore(f, g, row, vs, s, n, B)
    PROVE  Shown(g, row, vs \cup {s, n}) = Merge(Shown(f, row, vs), B)
<1> DEFINE A == Shown(f, row, vs)
           C == Shown(g, row, vs \cup {s, n})
<1>1. /\ DOMAIN A = {x \in vs : row[f[x]] # Null}
      /\ \A v \in DOMAIN A : A[v] = row[f[v]]
  BY DEF Shown
<1>2. /\ DOMAIN C = {x \in vs \cup {s, n} : row[g[x]] # Null}
      /\ \A v \in DOMAIN C : C[v] = row[g[v]]
      /\ IsFcn(C)
  BY DEF Shown, IsFcn
<1> HIDE DEF A, C
<1>3. DOMAIN C = DOMAIN A \cup DOMAIN B
  BY <1>1, <1>2 DEF BindsMore
<1>4. \A v \in DOMAIN A : C[v] = A[v]
  BY <1>1, <1>2, <1>3 DEF BindsMore
<1>5. \A v \in DOMAIN B \ DOMAIN A : C[v] = B[v]
  BY <1>1, <1>2, <1>3 DEF BindsMore
<1>6. IsMerge(A, B, C)
  BY <1>2, <1>3, <1>4, <1>5 DEF IsMerge
<1>7. Merge(A, B) = C
  BY <1>6, MergeIs
<1> QED
  BY <1>7 DEF A, C

\* ... and of no other column.
LEMMA ShownAsBefore ==
    ASSUME NEW f, NEW row, NEW vs, NEW s \in vs, NEW B, row[f[s]] # Null, DOMAIN B = {s}
    PROVE  Merge(Shown(f, row, vs), B) = Shown(f, row, vs)
<1> DEFINE A == Shown(f, row, vs)
<1>1. IsFcn(A) /\ s \in DOMAIN A
  BY DEF Shown, IsFcn
<1> HIDE DEF A
<1>2. DOMAIN A = DOMAIN A \cup DOMAIN B /\ DOMAIN B \ DOMAIN A = {}
  BY <1>1
<1>3. Merge(A, B) = A
  BY <1>1, <1>2, MergeIs DEF IsMerge
<1> QED
  BY <1>3 DEF A

\* The group acc gets the pattern, which r answers of the rows.
StepTaken(acc, t, pat, r, s, vs, rows) ==
    /\ GroupOf(acc, s, vs) /\ ServedBy(pat, t, r)
    /\ pat[1] = Var(s) /\ acc.cols[s] = r.subject
    /\ KeyedBy(r.subject, rows) /\ ObjectIsNew(acc, pat, r, rows)

\* The row passes the grown group when it answers the pattern too, and shows both answers.
GrowsAt(acc, pat, r, vs, row) ==
    LET new == Grown(acc, pat, r)
    IN  /\ Passes(new, row) <=> Passes(acc, row) /\ Serves(pat, r, row)
        /\ Serves(pat, r, row) =>
              Shown(new.cols, row, vs \cup PatternVars(pat))
                = Merge(Shown(acc.cols, row, vs), RowAnswer(pat, r, row))

LEMMA GroupGrowsByRow ==
    ASSUME NEW acc, NEW t, NEW pat, NEW r, NEW s, NEW vs, NEW rows, NEW row \in rows,
           StepTaken(acc, t, pat, r, s, vs, rows)
    PROVE  GrowsAt(acc, pat, r, vs, row)
<1>0. /\ GroupOf(acc, s, vs) /\ ServedBy(pat, t, r)
      /\ pat[1] = Var(s) /\ acc.cols[s] = r.subject
      /\ KeyedBy(r.subject, rows) /\ ObjectIsNew(acc, pat, r, rows)
  BY DEF StepTaken
<1> DEFINE new == Grown(acc, pat, r)
           A == Shown(acc.cols, row, vs)
           B == RowAnswer(pat, r, row)
<1>1. /\ s \in vs /\ vs \subseteq DOMAIN acc.cols
      /\ row[r.subject] # Null /\ row[acc.cols[s]] # Null
      /\ IsVar(pat[3]) => \E n : pat[3] = Var(n) /\ n # s
      /\ ~IsVar(pat[3]) => \E n : pat[3] = Const(n)
      /\ \E p : pat = <<Var(s), Const(p), pat[3]>>
  BY <1>0, TermsDiffer DEF GroupOf, KeyedBy, ServedBy, ObjectIsNew
<1>2. /\ PatternVars(pat) = {s} \cup (IF IsVar(pat[3]) THEN {pat[3].name} ELSE {})
      /\ \A v : pat[1] = Var(v) <=> v = s
  BY <1>1, PatternShape, TermsDiffer
<1>3. \A i \in DOMAIN acc.filters : acc.filters[i].left.name \in DOMAIN acc.cols
  BY <1>0, TermsDiffer DEF GroupOf, Eq
<1>4. CASE IsVar(pat[3])
  <2>1. PICK n : pat[3] = Var(n) /\ n # s /\ pat[3].name = n /\ n \notin DOMAIN acc.cols
    BY <1>0, <1>1, <1>4, TermsDiffer DEF ObjectIsNew
  <2>2. new = [cols |-> Merge(acc.cols, OneColumn(n, r.object)), filters |-> acc.filters]
    BY <1>4, <2>1 DEF Grown
  <2>3. row[r.object] # Null
    BY <1>0, <1>4 DEF ObjectIsNew
  <2>4. Serves(pat, r, row)
    BY <1>1, <1>4, <2>3 DEF Serves, HasTriple
  <2>5. \A i \in DOMAIN acc.filters :
           Passing(acc.filters[i], new.cols, row) <=> Passing(acc.filters[i], acc.cols, row)
    <3> DEFINE f == acc.cols
               g == OneColumn(n, r.object)
    <3>1. \A i \in DOMAIN acc.filters : acc.filters[i].left.name \in DOMAIN f
      BY <1>3
    <3>2. new.cols = Merge(f, g)
      BY <2>2
    <3> HIDE DEF f, g, new
    <3>3. \A v \in DOMAIN f : Merge(f, g)[v] = f[v]
      BY MergeFacts
    <3> QED
      BY <3>1, <3>2, <3>3, PassingElsewhere DEF f
  <2>6. new.filters = acc.filters /\ new.cols = Merge(acc.cols, OneColumn(n, r.object))
    BY <2>2
  <2>7. /\ IsFcn(B) /\ DOMAIN B = {s, n} /\ B[s] = row[acc.cols[s]] /\ B[n] = row[r.object]
    BY <1>0, <1>2, <1>4, <2>1 DEF RowAnswer, IsFcn
  <2>8. vs \cup PatternVars(pat) = vs \cup {s, n}
    BY <1>2, <1>4, <2>1
  <2> HIDE DEF new, B
  <2>9. Passes(new, row) <=> Passes(acc, row)
    BY <2>5, <2>6 DEF Passes
  <2>10. Shown(new.cols, row, vs \cup {s, n}) = Merge(A, B)
    <3> DEFINE f == acc.cols
               g == OneColumn(n, r.object)
               c == r.object
    <3>1. DOMAIN g = {n} /\ g[n] = c
      BY OneColumnFacts
    <3>2. new.cols = Merge(f, g)
      BY <2>6
    <3>3. /\ s \in vs /\ vs \subseteq DOMAIN f /\ n \notin DOMAIN f
          /\ row[f[s]] # Null /\ row[c] # Null
          /\ IsFcn(B) /\ DOMAIN B = {s, n} /\ B[s] = row[f[s]] /\ B[n] = row[c]
      BY <1>1, <2>1, <2>3, <2>7
    <3> HIDE DEF f, g, c, A
    <3>4. \A v \in DOMAIN f : Merge(f, g)[v] = f[v]
      BY MergeFacts
    <3>5. \A v \in DOMAIN g \ DOMAIN f : Merge(f, g)[v] = g[v]
      BY MergeFacts
    <3>6. (\A v \in DOMAIN f : new.cols[v] = f[v]) /\ new.cols[n] = c
      BY <3>1, <3>2, <3>3, <3>4, <3>5
    <3> DEFINE h == new.cols
    <3> HIDE DEF h
    <3>7. (\A v \in DOMAIN f : h[v] = f[v]) /\ h[n] = c
      BY <3>6 DEF h
    <3>8. Shown(h, row, vs \cup {s, n}) = Merge(Shown(f, row, vs), B)
      <4>1. BindsMore(f, h, row, vs, s, n, B)
        BY <3>3, <3>7 DEF BindsMore
      <4> QED
        BY <4>1, ShownWithMore
    <3> QED
      BY <3>8 DEF f, h, A
  <2> QED
    BY <2>4, <2>8, <2>9, <2>10 DEF new, B, GrowsAt
<1>5. CASE ~IsVar(pat[3])
  <2>1. PICK n : pat[3] = Const(n) /\ pat[3].value = n
    BY <1>1, <1>5, TermsDiffer
  <2>2. DOMAIN B = {s}
    BY <1>2, <1>5 DEF RowAnswer
  <2> HIDE DEF B
  <2>3. Merge(A, B) = A
    BY <1>1, <2>2, ShownAsBefore
  <2>4. vs \cup PatternVars(pat) = vs
    BY <1>1, <1>2, <1>5
  <2>5. CASE IsType(pat)
    <3>1. new = acc
      BY <1>5, <2>5 DEF Grown, NotType
    <3>2. r.object = NoColumn /\ r.constant = n
      BY <1>0, <2>1, <2>5 DEF ServedBy
    <3>3. Serves(pat, r, row)
      BY <1>1, <2>1, <3>2 DEF Serves, HasTriple, ObjectIn
    <3> QED
      BY <2>3, <2>4, <3>1, <3>3 DEF B, GrowsAt
  <2>6. CASE NotType(pat)
    <3> DEFINE k == ConstantVar(acc.cols)
               f == acc.cols
               g == OneColumn(k, r.object)
    <3>1. k \notin DOMAIN f
      BY <1>0, <1>5, <2>6 DEF ObjectIsNew
    <3>2. /\ new = [cols |-> Merge(g, f), filters |-> Append(acc.filters, Eq(Var(k), pat[3]))]
          /\ DOMAIN g = {k} /\ g[k] = r.object
      BY <1>5, <2>6, OneColumnFacts DEF Grown
    <3>3. /\ vs \subseteq DOMAIN f /\ acc.cols = f
          /\ \A i \in DOMAIN acc.filters : acc.filters[i].left.name \in DOMAIN f
      BY <1>1, <1>3
    <3> HIDE DEF k, f, g
    <3>4. /\ new.cols = Merge(g, f)
          /\ new.filters = Append(acc.filters, Eq(Var(k), pat[3]))
      BY <3>2
    <3> HIDE DEF new
    <3>5. (\A v \in DOMAIN f : new.cols[v] = f[v]) /\ new.cols[k] = r.object
      <4>1. \A v \in DOMAIN g : Merge(g, f)[v] = g[v]
        BY MergeFacts
      <4>2. \A v \in DOMAIN f \ DOMAIN g : Merge(g, f)[v] = f[v]
        BY MergeFacts
      <4> QED
        BY <3>1, <3>2, <3>4, <4>1, <4>2
    <3>6. /\ DOMAIN new.filters = DOMAIN acc.filters \cup {Len(acc.filters) + 1}
          /\ \A i \in DOMAIN acc.filters : new.filters[i] = acc.filters[i]
          /\ new.filters[Len(acc.filters) + 1] = Eq(Var(k), pat[3])
          /\ Len(acc.filters) + 1 \notin DOMAIN acc.filters
      <4>1. PICK S : acc.filters \in Seq(S)
        BY <1>0 DEF GroupOf
      <4> QED
        BY <3>4, <4>1
    <3>7. Serves(pat, r, row) <=> row[r.object] # Null /\ row[r.object] = n
      BY <1>0, <1>1, <1>5, <2>1, <2>6, TermsDiffer DEF Serves, HasTriple, ObjectIn, ServedBy
    <3>8. Passing(Eq(Var(k), pat[3]), new.cols, row) <=> Serves(pat, r, row)
      BY <2>1, <3>5, <3>7, TermsDiffer DEF Eq, Passing
    <3>9. \A i \in DOMAIN acc.filters :
             Passing(acc.filters[i], new.cols, row) <=> Passing(acc.filters[i], f, row)
      BY <3>3, <3>5, PassingElsewhere
    <3>10. Passes(new, row) <=> Passes(acc, row) /\ Serves(pat, r, row)
      BY <3>3, <3>6, <3>8, <3>9 DEF Passes
    <3>11. Shown(new.cols, row, vs) = A
      BY <3>3, <3>5 DEF Shown
    <3> QED
      BY <2>3, <2>4, <3>10, <3>11 DEF new, B, GrowsAt
  <2> QED
    BY <2>5, <2>6 DEF NotType
<1> QED
  BY <1>4, <1>5

LEMMA GroupKeeps ==
    ASSUME NEW acc, NEW t, NEW pat, NEW r, NEW s, NEW vs, NEW rows,
           GroupOf(acc, s, vs), ServedBy(pat, t, r), pat[1] = Var(s), acc.cols[s] = r.subject,
           ObjectIsNew(acc, pat, r, rows)
    PROVE  LET new == Grown(acc, pat, r)
           IN  GroupOf(new, s, vs \cup PatternVars(pat)) /\ new.cols[s] = r.subject
<1> DEFINE new == Grown(acc, pat, r)
           f == acc.cols
<1>1. /\ s \in vs /\ vs \subseteq DOMAIN f /\ IsFcn(f) /\ f[s] = r.subject
      /\ acc = [cols |-> f, filters |-> acc.filters]
      /\ \E S : acc.filters \in Seq(S)
      /\ \A i \in DOMAIN acc.filters :
            \E k \in DOMAIN f : \E c : acc.filters[i] = Eq(Var(k), Const(c))
  BY DEF GroupOf
<1>2. /\ IsVar(pat[3]) => \E n : pat[3] = Var(n) /\ pat[3].name = n /\ n \notin DOMAIN f
      /\ ~IsVar(pat[3]) => \E n : pat[3] = Const(n)
      /\ \E p : pat = <<Var(s), Const(p), pat[3]>>
  BY TermsDiffer DEF ServedBy, ObjectIsNew
<1>3. IsVar(pat[3]) => \E n : pat[3] = Var(n) /\ n # s
  BY <1>1, <1>2
<1>4. PatternVars(pat) = {s} \cup (IF IsVar(pat[3]) THEN {pat[3].name} ELSE {})
  BY <1>2, <1>3, PatternShape
<1>5. CASE IsVar(pat[3])
  <2>1. PICK n : pat[3] = Var(n) /\ pat[3].name = n /\ n \notin DOMAIN f
    BY <1>2, <1>5
  <2> DEFINE g == OneColumn(n, r.object)
             h == Merge(f, g)
  <2>2. new = [cols |-> h, filters |-> acc.filters]
    BY <1>5, <2>1 DEF Grown
  <2>3. DOMAIN g = {n} /\ vs \cup PatternVars(pat) = vs \cup {s, n}
    <3>1. vs \cup PatternVars(pat) = vs \cup {s, n}
      BY <1>1, <1>4, <1>5, <2>1
    <3> QED
      BY <3>1, OneColumnFacts
  <2> HIDE DEF f, g, new
  <2>4. IsFcn(h) /\ DOMAIN h = DOMAIN f \cup DOMAIN g /\ \A v \in DOMAIN f : h[v] = f[v]
    BY MergeFacts
  <2> HIDE DEF h
  <2>5. GroupOf(new, s, vs \cup {s, n}) /\ new.cols[s] = r.subject
    BY <1>1, <2>2, <2>3, <2>4 DEF GroupOf
  <2> QED
    BY <2>3, <2>5 DEF new
<1>6. CASE ~IsVar(pat[3])
  <2>1. vs \cup PatternVars(pat) = vs
    BY <1>1, <1>4, <1>6
  <2>2. CASE IsType(pat)
    BY <1>6, <2>1, <2>2 DEF Grown, NotType
  <2>3. CASE NotType(pat)
    <3> DEFINE k == ConstantVar(acc.cols)
               g == OneColumn(k, r.object)
               h == Merge(g, f)
               e == Eq(Var(k), pat[3])
    <3>1. /\ new = [cols |-> h, filters |-> Append(acc.filters, e)]
          /\ DOMAIN g = {k} /\ k \notin DOMAIN f
      BY <1>6, <2>3, OneColumnFacts DEF Grown, ObjectIsNew
    <3>2. \E c : e = Eq(Var(k), Const(c))
      BY <1>2, <1>6
    <3> HIDE DEF f, g, k, e, new
    <3>3. IsFcn(h) /\ DOMAIN h = DOMAIN g \cup DOMAIN f
      BY MergeFacts
    <3>4. \A v \in DOMAIN f \ DOMAIN g : h[v] = f[v]
      BY MergeFacts
    <3> HIDE DEF h
    <3> DEFINE fs == acc.filters
               es == Append(fs, e)
    <3>5. PICK S : fs \in Seq(S)
      BY <1>1
    <3>6. /\ DOMAIN es = DOMAIN fs \cup {Len(fs) + 1}
          /\ \A i \in DOMAIN fs : es[i] = fs[i]
          /\ es[Len(fs) + 1] = e
      BY <3>5
    <3>7. es \in Seq(S \cup {e})
      BY <3>5
    <3>8. \A i \in DOMAIN es : \E j \in DOMAIN h : \E c : es[i] = Eq(Var(j), Const(c))
      <4>1. \A i \in DOMAIN fs : \E j \in DOMAIN f : \E c : fs[i] = Eq(Var(j), Const(c))
        BY <1>1
      <4> HIDE DEF fs, es
      <4> QED
        BY <3>1, <3>2, <3>3, <3>6, <4>1 DEF k
    <3>9. /\ new = [cols |-> h, filters |-> es] /\ \E Z : es \in Seq(Z)
          /\ new.cols = h /\ new.filters = es
      BY <3>1, <3>7
    <3> HIDE DEF es, fs
    <3>10. s \in DOMAIN f \ DOMAIN g /\ vs \subseteq DOMAIN h
      BY <1>1, <3>1, <3>3
    <3>11. new.cols[s] = r.subject
      BY <1>1, <3>4, <3>9, <3>10
    <3>12. GroupOf(new, s, vs)
      BY <1>1, <3>3, <3>8, <3>9, <3>10 DEF GroupOf
    <3> QED
      BY <2>1, <3>11, <3>12 DEF new
  <2> QED
    BY <2>2, <2>3 DEF NotType
<1> QED
  BY <1>5, <1>6

-----------------------------------------------------------------------------
(* Patterns of one subject, and one scan                                   *)

\* Two bags that both have a member of their own for each j in J, with the same solution.
ByTheSame(J, a, b, A, B) ==
    /\ \A z : z \in A <=> \E j \in J : z = a[j]
    /\ \A z : z \in B <=> \E j \in J : z = b[j]
    /\ \A i, j \in J : a[i] = a[j] => i = j
    /\ \A i, j \in J : b[i] = b[j] => i = j
    /\ \A j \in J : a[j][2] = b[j][2]

LEMMA FamiliesAlike ==
    ASSUME NEW J, NEW a, NEW b, NEW A, NEW B, ByTheSame(J, a, b, A, B)
    PROVE  Alike(A, B)
<1> DEFINE ja == [z \in A |-> CHOOSE j \in J : z = a[j]]
           jb == [z \in B |-> CHOOSE j \in J : z = b[j]]
           f == [z \in A |-> b[ja[z]]]
           g == [z \in B |-> a[jb[z]]]
<1>1. \A z \in A : ja[z] \in J /\ z = a[ja[z]]
  BY DEF ByTheSame
<1>2. \A z \in B : jb[z] \in J /\ z = b[jb[z]]
  BY DEF ByTheSame
<1>3. (\A z \in A : f[z] = b[ja[z]]) /\ \A z \in B : g[z] = a[jb[z]]
  OBVIOUS
<1> HIDE DEF ja, jb, f, g
<1>4. \A z \in A : f[z] \in B /\ g[f[z]] = z /\ f[z][2] = z[2]
  BY <1>1, <1>2, <1>3 DEF ByTheSame
<1>5. \A z \in B : g[z] \in A /\ f[g[z]] = z
  BY <1>1, <1>2, <1>3 DEF ByTheSame
<1> QED
  BY <1>4, <1>5, AlikeBothWays

LEMMA ScanGrows ==
    ASSUME NEW acc, NEW t, NEW pat, NEW r, NEW s, NEW vs, NEW rows,
           StepTaken(acc, t, pat, r, s, vs, rows)
    PROVE  \A z : z \in GroupAnswers(Grown(acc, pat, r), rows, vs \cup PatternVars(pat))
                     <=> \E row \in {x \in rows : Passes(acc, x) /\ Serves(pat, r, x)} :
                           z = <<row, Merge(Shown(acc.cols, row, vs), RowAnswer(pat, r, row))>>
<1> DEFINE new == Grown(acc, pat, r)
           ws == vs \cup PatternVars(pat)
<1>1. GroupOf(new, s, ws)
  BY GroupKeeps DEF StepTaken
<1>2. \A row \in rows :
         /\ Passes(new, row) <=> Passes(acc, row) /\ Serves(pat, r, row)
         /\ Serves(pat, r, row) =>
               Shown(new.cols, row, ws)
                 = Merge(Shown(acc.cols, row, vs), RowAnswer(pat, r, row))
  <2>1. \A row \in rows : GrowsAt(acc, pat, r, vs, row)
    BY GroupGrowsByRow
  <2> QED
    BY <2>1 DEF GrowsAt
<1> HIDE DEF new, ws
<1>3. GroupAnswers(new, rows, ws)
        = {<<row, Shown(new.cols, row, ws)>> : row \in {x \in rows : Passes(new, x)}}
  BY <1>1, GroupByRows
<1>4. \A z : z \in GroupAnswers(new, rows, ws)
                <=> \E row \in rows : Passes(new, row) /\ z = <<row, Shown(new.cols, row, ws)>>
  BY <1>3
<1>5. \A z : z \in GroupAnswers(new, rows, ws)
                <=> \E row \in {x \in rows : Passes(acc, x) /\ Serves(pat, r, x)} :
                      z = <<row, Merge(Shown(acc.cols, row, vs), RowAnswer(pat, r, row))>>
  BY <1>2, <1>4
<1> QED
  BY <1>5 DEF new, ws

\* A group's next pattern: what it answers, joined to what the group's scan answers so far, is
\* what the scan answers with the pattern in it (ir_converter.rs, build_join_from_patterns_with_
\* vars), where the table is keyed by the subject's column, a variable object is new to the
\* group and its column is NOT NULL, and a constant object's column has a name of its own.
THEOREM PatternJoinsScan ==
    ASSUME NEW db, NEW acc, NEW t, NEW pat, NEW r, NEW s, NEW vs,
           StepTaken(acc, t, pat, r, s, vs, db[t])
    PROVE  /\ Alike(InnerJoin(GroupAnswers(acc, db[t], vs), TripleAnswers(pat, db)),
                    GroupAnswers(AddPattern(t, acc, pat), db[t], vs \cup PatternVars(pat)))
           /\ GroupOf(AddPattern(t, acc, pat), s, vs \cup PatternVars(pat))
           /\ AddPattern(t, acc, pat).cols[s] = r.subject
<1> DEFINE rows == db[t]
           new == Grown(acc, pat, r)
           J == {x \in rows : Passes(acc, x) /\ Serves(pat, r, x)}
           own(row) == <<row, Shown(acc.cols, row, vs)>>
           ans(row) == <<TripleOf(pat[2].value, r, row), RowAnswer(pat, r, row)>>
           L == GroupAnswers(acc, rows, vs)
           R == TripleAnswers(pat, db)
           scan == GroupAnswers(new, rows, vs \cup PatternVars(pat))
<1>1. /\ GroupOf(acc, s, vs) /\ ServedBy(pat, t, r)
      /\ pat[1] = Var(s) /\ acc.cols[s] = r.subject
      /\ KeyedBy(r.subject, rows) /\ ObjectIsNew(acc, pat, r, rows)
  BY DEF StepTaken
<1>2. AddPattern(t, acc, pat) = new
  BY <1>1, AddPatternGrows
<1>3. GroupOf(new, s, vs \cup PatternVars(pat)) /\ new.cols[s] = r.subject
  BY <1>1, GroupKeeps
<1>4. IsVar(pat[3]) => \E n : pat[3] = Var(n) /\ pat[3].name = n /\ n \notin DOMAIN acc.cols
  BY <1>1, TermsDiffer DEF ServedBy, ObjectIsNew
<1>5. /\ s \in vs /\ vs \subseteq DOMAIN acc.cols
      /\ \E p : pat = <<Var(s), Const(p), pat[3]>>
  BY <1>1, TermsDiffer DEF GroupOf, ServedBy
<1>6. PatternVars(pat) = {s} \cup (IF IsVar(pat[3]) THEN {pat[3].name} ELSE {})
  <2>1. IsVar(pat[3]) => \E n : pat[3] = Var(n) /\ n # s
    BY <1>4, <1>5
  <2> QED
    BY <1>5, <2>1, PatternShape
<1>7. \A z : z \in L <=> \E row \in rows : Passes(acc, row) /\ z = own(row)
  <2>1. L = {own(row) : row \in {x \in rows : Passes(acc, x)}}
    BY <1>1, GroupByRows
  <2> QED
    BY <2>1
<1>8. \A z : z \in R <=> \E row \in rows : Serves(pat, r, row) /\ z = ans(row)
  <2>1. IsVar(pat[3]) => pat[3].name # s
    BY <1>4, <1>5
  <2>2. R = {ans(row) : row \in {x \in rows : Serves(pat, r, x)}}
    BY <1>1, <2>1, AnswersByRows
  <2> QED
    BY <2>2
<1>9. \A x, y \in rows : Fit(own(x), ans(y)) <=> x = y
  <2> TAKE x \in rows, y \in rows
  <2> DEFINE A == Shown(acc.cols, x, vs)
             B == RowAnswer(pat, r, y)
  <2>1. s \in DOMAIN A /\ A[s] = x[r.subject] /\ DOMAIN A \subseteq vs
    BY <1>1, <1>5 DEF Shown, KeyedBy
  <2>2. DOMAIN B = PatternVars(pat) /\ B[s] = y[r.subject]
    BY <1>1, <1>6 DEF RowAnswer
  <2>3. \A v \in PatternVars(pat) : v # s => v \notin vs
    BY <1>4, <1>5, <1>6
  <2> HIDE DEF A, B
  <2>4. DOMAIN A \cap DOMAIN B = {s}
    BY <1>6, <2>1, <2>2, <2>3
  <2>5. Compatible(A, B) <=> x[r.subject] = y[r.subject]
    BY <2>1, <2>2, <2>4 DEF Compatible
  <2>6. x[r.subject] = y[r.subject] <=> x = y
    BY <1>1 DEF KeyedBy
  <2>7. own(x)[2] = A /\ ans(y)[2] = B
    BY DEF A, B
  <2> QED
    BY <2>5, <2>6, <2>7 DEF Fit
<1>10. \A z : z \in InnerJoin(L, R) <=> \E row \in J : z = Pair(own(row), ans(row))
  <2> HIDE DEF own, ans, L, R
  <2>1. \A z : z \in InnerJoin(L, R) <=> \E x \in L, y \in R : Fit(x, y) /\ z = Pair(x, y)
    BY JoinMembers
  <2> QED
    BY <1>7, <1>8, <1>9, <2>1
<1>11. \A z : z \in scan
                 <=> \E row \in J :
                       z = <<row, Merge(Shown(acc.cols, row, vs), RowAnswer(pat, r, row))>>
  BY ScanGrows
<1> DEFINE a == [row \in J |-> Pair(own(row), ans(row))]
           b == [row \in J |-> <<row, Merge(Shown(acc.cols, row, vs),
                                           RowAnswer(pat, r, row))>>]
<1>12. \A row \in J : /\ a[row][1][1] = row /\ b[row][1] = row /\ a[row][2] = b[row][2]
  BY DEF Pair
<1>13. /\ \A z : z \in InnerJoin(L, R) <=> \E row \in J : z = a[row]
       /\ \A z : z \in scan <=> \E row \in J : z = b[row]
  BY <1>10, <1>11
<1> HIDE DEF J, a, b, L, R, scan
<1>14. ByTheSame(J, a, b, InnerJoin(L, R), scan)
  <2>1. \A i, j \in J : (a[i] = a[j] \/ b[i] = b[j]) => i = j
    BY <1>12
  <2> QED
    BY <1>12, <1>13, <2>1 DEF ByTheSame
<1>15. Alike(InnerJoin(L, R), scan)
  BY <1>14, FamiliesAlike
<1> QED
  BY <1>2, <1>3, <1>15 DEF L, R, scan

\* A scan that binds the subject, which the first pattern of a group begins with.
OnlySubject(s, r) == [cols |-> OneColumn(s, r.subject), filters |-> <<>>]

LEMMA GroupBegins ==
    ASSUME NEW t, NEW pat, NEW r, NEW s, ServedBy(pat, t, r), pat[1] = Var(s)
    PROVE  /\ GroupOf(OnlySubject(s, r), s, {s}) /\ OnlySubject(s, r).cols[s] = r.subject
           /\ AddPattern(t, NoPatterns, pat) = AddPattern(t, OnlySubject(s, r), pat)
<1> DEFINE one == OneColumn(s, r.subject)
           acc == OnlySubject(s, r)
<1>1. DOMAIN one = {s} /\ one[s] = r.subject /\ IsFcn(one)
  BY DEF OneColumn, IsFcn
<1>2. DOMAIN NoVars = {}
  BY DEF NoVars
<1>3. acc = [cols |-> one, filters |-> <<>>] /\ NoPatterns = [cols |-> NoVars, filters |-> <<>>]
  BY DEF OnlySubject, NoPatterns
<1> HIDE DEF one, acc
<1>4. IsMerge(one, one, one) /\ IsMerge(NoVars, one, one)
  BY <1>1, <1>2 DEF IsMerge
<1>5. Merge(one, one) = one /\ Merge(NoVars, one) = one
  BY <1>4, MergeIs
<1>6. GroupOf(acc, s, {s}) /\ acc.cols[s] = r.subject
  <2>1. acc.cols = one /\ acc.filters = <<>> /\ <<>> \in Seq({})
    BY <1>3
  <2> QED
    BY <1>1, <1>3, <2>1 DEF GroupOf
<1>7. IsVar(pat[1]) /\ pat[1].name = s /\ RuleFor(t, pat).subject = r.subject
  BY TermsDiffer DEF ServedBy
<1> DEFINE with(a, c) ==
             CASE IsVar(pat[3]) ->
                    [a EXCEPT !.cols = Merge(c, OneColumn(pat[3].name, RuleFor(t, pat).object))]
               [] ~IsVar(pat[3]) /\ NotType(pat) ->
                    [cols |-> Merge(OneColumn(ConstantVar(c), RuleFor(t, pat).object), c),
                     filters |-> Append(a.filters, Eq(Var(ConstantVar(c)), pat[3]))]
               [] OTHER -> [a EXCEPT !.cols = c]
<1>8. \A a : AddPattern(t, a, pat) = with(a, Merge(a.cols, one))
  BY <1>7 DEF AddPattern, one
<1>9. /\ AddPattern(t, acc, pat) = with(acc, one)
      /\ AddPattern(t, NoPatterns, pat) = with(NoPatterns, one)
  <2>1. acc.cols = one /\ NoPatterns.cols = NoVars
    BY <1>3
  <2> HIDE DEF with
  <2> QED
    BY <1>5, <1>8, <2>1
<1>10. with(acc, one) = with(NoPatterns, one)
  <2>1. acc.filters = <<>> /\ NoPatterns.filters = <<>>
    BY <1>3
  <2>2. \A c : [acc EXCEPT !.cols = c] = [NoPatterns EXCEPT !.cols = c]
    BY <1>3
  <2> QED
    BY <2>1, <2>2
<1> QED
  BY <1>6, <1>9, <1>10 DEF acc

\* The first pattern of a group is a scan of its table (ir_converter.rs, build_join_from_
\* patterns_with_vars), where the table is keyed by the subject's column and the column of a
\* variable object is NOT NULL.
THEOREM PatternIsScan ==
    ASSUME NEW db, NEW t, NEW pat, NEW r, NEW s,
           StepTaken(OnlySubject(s, r), t, pat, r, s, {s}, db[t])
    PROVE  /\ Alike(TripleAnswers(pat, db),
                    GroupAnswers(AddPattern(t, NoPatterns, pat), db[t], PatternVars(pat)))
           /\ GroupOf(AddPattern(t, NoPatterns, pat), s, PatternVars(pat))
           /\ AddPattern(t, NoPatterns, pat).cols[s] = r.subject
<1> DEFINE rows == db[t]
           acc == OnlySubject(s, r)
           new == Grown(acc, pat, r)
           J == {x \in rows : Passes(acc, x) /\ Serves(pat, r, x)}
           ans(row) == <<TripleOf(pat[2].value, r, row), RowAnswer(pat, r, row)>>
           R == TripleAnswers(pat, db)
           scan == GroupAnswers(new, rows, PatternVars(pat))
<1>1. /\ GroupOf(acc, s, {s}) /\ ServedBy(pat, t, r)
      /\ pat[1] = Var(s) /\ acc.cols[s] = r.subject
      /\ KeyedBy(r.subject, rows) /\ ObjectIsNew(acc, pat, r, rows)
  BY DEF StepTaken
<1>2. acc.cols = OneColumn(s, r.subject) /\ acc.filters = <<>> /\ s \in DOMAIN acc.cols
  BY OneColumnFacts DEF OnlySubject
<1>3. AddPattern(t, NoPatterns, pat) = new
  <2>1. AddPattern(t, NoPatterns, pat) = AddPattern(t, acc, pat)
    BY <1>1, GroupBegins
  <2> HIDE DEF acc
  <2>2. AddPattern(t, acc, pat) = Grown(acc, pat, r)
    BY <1>1, AddPatternGrows
  <2> QED
    BY <2>1, <2>2
<1>4. IsVar(pat[3]) => \E n : pat[3] = Var(n) /\ pat[3].name = n /\ n # s
  BY <1>1, <1>2, TermsDiffer DEF ServedBy, ObjectIsNew
<1>5. PatternVars(pat) = {s} \cup (IF IsVar(pat[3]) THEN {pat[3].name} ELSE {})
  <2>1. \E p : pat = <<Var(s), Const(p), pat[3]>>
    BY <1>1, TermsDiffer DEF ServedBy
  <2> QED
    BY <1>4, <2>1, PatternShape
<1>6. {s} \cup PatternVars(pat) = PatternVars(pat)
  BY <1>5
<1>7. GroupOf(new, s, PatternVars(pat)) /\ new.cols[s] = r.subject
  BY <1>1, <1>6, GroupKeeps
<1>8. \A z : z \in R <=> \E row \in rows : Serves(pat, r, row) /\ z = ans(row)
  <2>1. IsVar(pat[3]) => pat[3].name # s
    BY <1>4
  <2>2. R = {ans(row) : row \in {x \in rows : Serves(pat, r, x)}}
    BY <1>1, <2>1, AnswersByRows
  <2> QED
    BY <2>2
<1>9. \A row : Passes(acc, row)
  BY <1>2 DEF Passes
<1>10. \A row \in rows : Merge(Shown(acc.cols, row, {s}), RowAnswer(pat, r, row))
                          = RowAnswer(pat, r, row)
  <2> TAKE row \in rows
  <2> DEFINE A == Shown(acc.cols, row, {s})
             B == RowAnswer(pat, r, row)
  <2>1. DOMAIN A \subseteq {s} /\ \A v \in DOMAIN A : v = s /\ A[v] = row[r.subject]
    BY <1>1 DEF Shown
  <2>2. IsFcn(B) /\ s \in DOMAIN B /\ B[s] = row[r.subject]
    BY <1>1, <1>5 DEF RowAnswer, IsFcn
  <2> HIDE DEF A, B
  <2>3. IsMerge(A, B, B)
    BY <2>1, <2>2 DEF IsMerge
  <2>4. Merge(A, B) = B
    BY <2>3, MergeIs
  <2> QED
    BY <2>4 DEF A, B
<1>11. \A z : z \in GroupAnswers(new, rows, {s} \cup PatternVars(pat))
                 <=> \E row \in J :
                       z = <<row, Merge(Shown(acc.cols, row, {s}), RowAnswer(pat, r, row))>>
  BY ScanGrows
<1> DEFINE a == [row \in J |-> ans(row)]
           b == [row \in J |-> <<row, RowAnswer(pat, r, row)>>]
<1>12. \A row \in J : /\ a[row][1] = TripleOf(pat[2].value, r, row) /\ b[row][1] = row
                      /\ a[row][2] = b[row][2] /\ row \in rows
  OBVIOUS
<1>13. /\ \A z : z \in R <=> \E row \in J : z = a[row]
       /\ \A z : z \in scan <=> \E row \in J : z = b[row]
  <2>1. \A row : row \in J <=> row \in rows /\ Serves(pat, r, row)
    BY <1>9
  <2>2. \A row \in J : a[row] = ans(row) /\ b[row] = <<row, RowAnswer(pat, r, row)>>
    OBVIOUS
  <2>3. \A row \in J :
           <<row, Merge(Shown(acc.cols, row, {s}), RowAnswer(pat, r, row))>> = b[row]
    BY <1>10, <2>1, <2>2
  <2>4. \A z : z \in scan
                  <=> \E row \in J :
                        z = <<row, Merge(Shown(acc.cols, row, {s}), RowAnswer(pat, r, row))>>
    BY <1>6, <1>11
  <2> DEFINE both(row) == <<row, Merge(Shown(acc.cols, row, {s}), RowAnswer(pat, r, row))>>
  <2>5. /\ \A row \in J : both(row) = b[row]
        /\ \A z : z \in scan <=> \E row \in J : z = both(row)
    BY <2>3, <2>4
  <2> HIDE DEF J, a, b, ans, R, scan, both
  <2>6. \A z : z \in R <=> \E row \in J : z = a[row]
    BY <1>8, <2>1, <2>2
  <2>7. \A z : z \in scan <=> \E row \in J : z = b[row]
    BY <2>5
  <2> QED
    BY <2>6, <2>7
<1>14. \A x, y \in rows : TripleOf(pat[2].value, r, x) = TripleOf(pat[2].value, r, y) => x = y
  <2> TAKE x \in rows, y \in rows
  <2> HAVE TripleOf(pat[2].value, r, x) = TripleOf(pat[2].value, r, y)
  <2>1. Const(x[r.subject]) = Const(y[r.subject])
    BY DEF TripleOf
  <2> QED
    BY <1>1, <2>1, TermsDiffer DEF KeyedBy
<1> HIDE DEF J, a, b, R, scan
<1>15. ByTheSame(J, a, b, R, scan)
  <2>1. \A i, j \in J : (a[i] = a[j] \/ b[i] = b[j]) => i = j
    BY <1>12, <1>14
  <2> QED
    BY <1>12, <1>13, <2>1 DEF ByTheSame
<1>16. Alike(R, scan)
  BY <1>15, FamiliesAlike
<1> QED
  BY <1>3, <1>7, <1>16 DEF R, scan

\* Two patterns of a subject that a table answers: the two of them, joined, are what the scan
\* made of both answers.  A third is joined to the scan by PatternJoinsScan again.
THEOREM PatternsAreOneScan ==
    ASSUME NEW db, NEW t, NEW pat, NEW other, NEW r, NEW q, NEW s,
           StepTaken(OnlySubject(s, r), t, pat, r, s, {s}, db[t]),
           StepTaken(AddPattern(t, NoPatterns, pat), t, other, q, s, PatternVars(pat), db[t])
    PROVE  Alike(InnerJoin(TripleAnswers(pat, db), TripleAnswers(other, db)),
                 GroupAnswers(AddPattern(t, AddPattern(t, NoPatterns, pat), other), db[t],
                              PatternVars(pat) \cup PatternVars(other)))
<1> DEFINE one == AddPattern(t, NoPatterns, pat)
           A == TripleAnswers(pat, db)
           B == TripleAnswers(other, db)
           C == GroupAnswers(one, db[t], PatternVars(pat))
           D == GroupAnswers(AddPattern(t, one, other), db[t],
                             PatternVars(pat) \cup PatternVars(other))
<1>1. Alike(A, C)
  BY PatternIsScan
<1>2. Alike(InnerJoin(C, B), D)
  BY PatternJoinsScan
<1>3. IsBag(A)
  BY DEF TripleAnswers, IsBag
<1>4. IsBag(C)
  <2>1. GroupOf(one, s, PatternVars(pat))
    BY PatternIsScan
  <2> DEFINE shown(row) == <<row, Shown(one.cols, row, PatternVars(pat))>>
  <2>2. C = {shown(row) : row \in {x \in db[t] : Passes(one, x)}}
    BY <2>1, GroupByRows
  <2> QED
    BY <2>2 DEF IsBag
<1>5. IsBag(B)
  BY DEF TripleAnswers, IsBag
<1> HIDE DEF A, B, C, D
<1>6. Alike(InnerJoin(A, B), InnerJoin(C, B))
  BY <1>1, <1>3, <1>4, <1>5, JoinRespects
<1>7. Alike(InnerJoin(A, B), D)
  BY <1>2, <1>6, AlikeIsEquivalence
<1> QED
  BY <1>7 DEF A, B, D
=============================================================================
