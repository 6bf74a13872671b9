------------------------------ MODULE PassRules ------------------------------
(***************************************************************************)
(* What the passes of the optimizer do to single nodes: when two scans are *)
(* one, when a scan is a mere lookup, how one projection is put into       *)
(* another.  OptimizerPasses applies these rules throughout a plan.        *)
(***************************************************************************)
EXTENDS SolutionBags

CONSTANTS PrimaryKeys,  \* TableMetadata: the key columns of a table
          NotNull,      \* its NOT NULL columns
          ForeignKeys   \* its foreign keys, [columns, target, targets]

ASSUME MetadataAssumption ==
    /\ DOMAIN PrimaryKeys = DOMAIN NotNull
    /\ DOMAIN PrimaryKeys = DOMAIN ForeignKeys
    /\ \A t \in DOMAIN ForeignKeys : \A fk \in ForeignKeys[t] :
          DOMAIN fk.columns = DOMAIN fk.targets

-----------------------------------------------------------------------------
(* Scans that agree on a key become one (SelfJoinEliminationPass)          *)

VarOfColumn(m, c) == CHOOSE v \in DOMAIN m : m[v] = c
SameKey(t, a, b) ==
    \A k \in PrimaryKeys[t] :
        /\ k \in Range(a) \cap Range(b)
        /\ VarOfColumn(a, k) = VarOfColumn(b, k)
\* A wrong version: any two scans of a table with a key.
CanMergeAny(a, b) ==
    /\ a.kind = "scan" /\ b.kind = "scan"
    /\ a.table = b.table /\ a.table \in DOMAIN PrimaryKeys
    /\ PrimaryKeys[a.table] # {}
CanMerge(a, b) ==
    /\ a.kind = "scan" /\ b.kind = "scan"
    /\ a.table = b.table /\ a.table \in DOMAIN PrimaryKeys
    /\ PrimaryKeys[a.table] # {}
    /\ SameKey(a.table, a.cols, b.cols)
MergedColumns(a, b) == Merge(b, a) \* the later insert overwrites

-----------------------------------------------------------------------------
(* A scan that only looks up a foreign key goes (JoinEliminationPass)      *)

Shares(a, ca, b, cb) == /\ ca \in Range(a) /\ cb \in Range(b)
                        /\ VarOfColumn(a, ca) = VarOfColumn(b, cb)
IsLookup(a, b) == \* b is only the target of a foreign key of a
    /\ a.kind = "scan" /\ b.kind = "scan" /\ a.table \in DOMAIN ForeignKeys
    /\ \E fk \in ForeignKeys[a.table] :
          /\ fk.target = b.table
          /\ \A k \in DOMAIN fk.columns :
                Shares(a.cols, fk.columns[k], b.cols, fk.targets[k])
          /\ DOMAIN b.cols = {VarOfColumn(b.cols, fk.targets[k]) : k \in DOMAIN fk.targets}
          /\ Range(fk.columns) \subseteq NotNull[a.table]

-----------------------------------------------------------------------------
(* Projections (NormalizeProjectionPass, PruneUnusedColumnsPass)           *)

Substituted(e, b) == IF e.kind = "var" /\ e.name \in DOMAIN b THEN b[e.name] ELSE e
SubstitutedAll(bs, b) == [v \in DOMAIN bs |-> Substituted(bs[v], b)]
Pruned(vs, bs) == Restrict(bs, Range(vs) \cap DOMAIN bs)
=============================================================================
