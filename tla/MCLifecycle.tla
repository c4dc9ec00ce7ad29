---------------------------- MODULE MCLifecycle ----------------------------
(***************************************************************************)
(* Instances of Lifecycle for TLC.  Two schemas: the first needs both       *)
(* tablespaces, the second one of them; the search of the DDL misses one or *)
(* both.                                                                    *)
(***************************************************************************)
EXTENDS Lifecycle, TLC

CONSTANTS n1, n2,                   \* containers
          i1, i2,                   \* Oracle images
          a, b,                     \* source schemas
          t1, t2                    \* tablespaces

MCNeeds == a :> {t1, t2} @@ b :> {t1}

Containers == Permutations(Name)
=============================================================================
