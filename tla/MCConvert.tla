------------------------------ MODULE MCConvert ------------------------------
(***************************************************************************)
(* Instances of Convert for TLC: three tables, one of them in two          *)
(* partitions; `child` references `parent` (reference partitioning) and    *)
(* has no rows of its own in some instances.                               *)
(***************************************************************************)
EXTENDS ConvertEnds, TLC

CONSTANTS parent, child, other,     \* tables
          p1, p2, k, o,             \* chunks: two of parent, one of child and other
          s1, s2,                   \* source schemas
          d1, d2                    \* destinations

\* The plan lists the referenced table first, as a plan sorted by name may.
Places == parent :> 1 @@ child :> 2 @@ other :> 3
Owners == p1 :> parent @@ p2 :> parent @@ k :> child @@ o :> other
Counts == p1 :> 1 @@ p2 :> 0 @@ k :> 1 @@ o :> 1

MCPosition == [t \in Table |-> Places[t]]
MCOneSchema == [t \in Table |-> s1]
MCTwoSchemas == [t \in Table |-> IF t = child THEN s2 ELSE s1]
MCParent == [t \in Table |-> IF t = child THEN parent ELSE NoTable]
MCNoParent == [t \in Table |-> NoTable]
MCTableOf == [c \in Chunk |-> Owners[c]]
MCRows == [c \in Chunk |-> Counts[c]]
MCChildEmpty == [c \in Chunk |-> IF c = k THEN 0 ELSE Counts[c]]
=============================================================================
