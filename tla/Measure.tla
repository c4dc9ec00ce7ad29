------------------------------- MODULE Measure -------------------------------
(***************************************************************************)
(* Lengths of what a command still has to do.  A length is a quadruple of  *)
(* naturals, compared like words in a dictionary: a later part may grow    *)
(* when an earlier one shrinks, as when a batch that ends makes way for    *)
(* the next one.  Measure_proofs shows that no length can get shorter for  *)
(* ever.                                                                   *)
(***************************************************************************)
EXTENDS Naturals

Length == Nat \X Nat \X Nat \X Nat

\* x comes before y in the dictionary.
Less(x, y) ==
    \/ x[1] < y[1]
    \/ x[1] = y[1] /\ x[2] < y[2]
    \/ x[1] = y[1] /\ x[2] = y[2] /\ x[3] < y[3]
    \/ x[1] = y[1] /\ x[2] = y[2] /\ x[3] = y[3] /\ x[4] < y[4]

\* Length x is shorter than length y.
Shorter(x, y) == x \in Length /\ Less(x, y)

\* Nothing is left to do.
Nothing == <<0, 0, 0, 0>>
=============================================================================
