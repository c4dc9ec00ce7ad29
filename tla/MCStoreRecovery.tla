--------------------------- MODULE MCStoreRecovery ---------------------------
(***************************************************************************)
(* An instance of StoreRecovery for TLC: a chunk of two batches, the       *)
(* second a short one, a chunk of one batch and one without rows; two of   *)
(* the three share a sidecar path.                                         *)
(***************************************************************************)
EXTENDS StoreRecovery, TLC

CONSTANTS a, b, e, p, q

MCRows == a :> 3 @@ b :> 1 @@ e :> 0
MCPath == a :> p @@ b :> q @@ e :> q
=============================================================================
