---------------------------- MODULE Measure_proofs ----------------------------
(***************************************************************************)
(* Lengths are well founded: what makes "every step of a command leaves    *)
(* less to do" an argument that the command ends.                          *)
(***************************************************************************)
EXTENDS Measure, WellFoundedInduction, TLAPS

\* The orders on the first part, the first two, three and four parts.
LessOne == OpToRel(<, Nat)
LessTwo == LexPairOrdering(LessOne, LessOne, Nat, Nat)
LessThree == LexPairOrdering(LessTwo, LessOne, Nat \X Nat, Nat)
LessFour == LexPairOrdering(LessThree, LessOne, (Nat \X Nat) \X Nat, Nat)

\* A length, its parts paired up for LessFour.
Paired(x) == <<<<<<x[1], x[2]>>, x[3]>>, x[4]>>

\* The order on paired lengths is a lexicographic product of the order of the
\* natural numbers, four times, so it has no endless descent.
LEMMA LessFourWellFounded == IsWellFoundedOn(LessFour, ((Nat \X Nat) \X Nat) \X Nat)
<1>1. IsWellFoundedOn(LessOne, Nat)
  BY NatLessThanWellFounded DEF LessOne
<1>2. IsWellFoundedOn(LessTwo, Nat \X Nat)
  BY <1>1, WFLexPairOrdering DEF LessTwo
<1>3. IsWellFoundedOn(LessThree, (Nat \X Nat) \X Nat)
  BY <1>1, <1>2, WFLexPairOrdering DEF LessThree
<1>. QED BY <1>1, <1>3, WFLexPairOrdering DEF LessFour

\* Pairing the parts of a length up keeps the order.
LEMMA PairedShorter ==
    ASSUME NEW x \in Length, NEW y \in Length, Shorter(x, y)
    PROVE  <<Paired(x), Paired(y)>> \in LessFour
<1>1. \A m, n \in Nat : m < n => <<m, n>> \in LessOne
  BY DEF LessOne, OpToRel
<1>2. /\ x[1] \in Nat /\ x[2] \in Nat /\ x[3] \in Nat /\ x[4] \in Nat
      /\ y[1] \in Nat /\ y[2] \in Nat /\ y[3] \in Nat /\ y[4] \in Nat
  BY DEF Length
<1>. DEFINE x2 == <<x[1], x[2]>>
            y2 == <<y[1], y[2]>>
            x3 == <<x2, x[3]>>
            y3 == <<y2, y[3]>>
<1>3. \/ x[1] < y[1]
      \/ x[1] = y[1] /\ x[2] < y[2]
      => <<x2, y2>> \in LessTwo
  BY <1>1, <1>2 DEF LessTwo, LexPairOrdering
<1>4. \/ <<x2, y2>> \in LessTwo
      \/ x2 = y2 /\ x[3] < y[3]
      => <<x3, y3>> \in LessThree
  BY <1>1, <1>2 DEF LessThree, LexPairOrdering
<1>5. \/ <<x3, y3>> \in LessThree
      \/ x3 = y3 /\ x[4] < y[4]
      => <<<<x3, x[4]>>, <<y3, y[4]>>>> \in LessFour
  BY <1>1, <1>2 DEF LessFour, LexPairOrdering
<1>. QED BY <1>3, <1>4, <1>5 DEF Shorter, Less, Paired

\* No sequence of lengths gets shorter at every step: a command whose every
\* step leaves less to do takes finitely many of them.
THEOREM ShorterIsWellFounded ==
    ~ \E f \in [Nat -> Length] : \A n \in Nat : Shorter(f[n + 1], f[n])
<1>. SUFFICES ASSUME NEW f \in [Nat -> Length],
                     \A n \in Nat : Shorter(f[n + 1], f[n])
              PROVE  FALSE
  OBVIOUS
<1>. DEFINE S == ((Nat \X Nat) \X Nat) \X Nat
            g == [n \in Nat |-> Paired(f[n])]
<1>1. g \in [Nat -> S]
  BY DEF Paired, Length
<1>2. \A n \in Nat : <<g[n + 1], g[n]>> \in LessFour
  BY PairedShorter
<1>. HIDE DEF g
<1>. QED BY <1>1, <1>2, LessFourWellFounded DEF IsWellFoundedOn
=============================================================================
