--------------------------- MODULE RecursionProofs ----------------------------
(***************************************************************************)
(* Induction over the natural numbers, and the values of functions that    *)
(* are defined by recursion over them.  The modules model a loop that      *)
(* builds a list by such a function; what the loop computes, for lists of  *)
(* every length, follows from the lemmas here.                             *)
(*                                                                         *)
(* They are stated for sets, which the back-end provers can instantiate,   *)
(* and rest on the theorem that < is well-founded on Nat.                  *)
(***************************************************************************)
EXTENDS Naturals, WellFoundedInduction, TLAPS

\* Every set of natural numbers has a least element.
LEMMA Least ==
  ASSUME NEW T \in SUBSET Nat, T # {}
  PROVE  \E m \in T : \A k \in T : m <= k
<1> DEFINE R == {ss \in Nat \X Nat : ss[1] < ss[2]}
<1>1. IsWellFoundedOn(R, Nat)
  BY NatLessThanWellFounded DEF OpToRel
<1>2. \E x \in T : \A y \in T : <<y, x>> \notin R
  <2> HIDE DEF R
  <2> QED
    BY <1>1, WFMin
<1>3. PICK x \in T : \A y \in T : <<y, x>> \notin R
  BY <1>2
<1>4. ASSUME NEW k \in T
      PROVE  x <= k
  <2>1. ~(k < x)
    BY <1>3
  <2> QED
    BY <2>1
<1> QED
  BY <1>4

\* A set with 0 that is closed under successor has every natural number.
LEMMA SetInduction ==
  ASSUME NEW S, 0 \in S, \A n \in Nat : n \in S => n + 1 \in S
  PROVE  Nat \subseteq S
<1> DEFINE T == Nat \ S
<1> SUFFICES ASSUME T # {}
             PROVE  FALSE
  OBVIOUS
<1>1. PICK m \in T : \A k \in T : m <= k
  BY Least
<1>2. m - 1 \in Nat /\ m - 1 \in S
  BY <1>1
<1> QED
  BY <1>1, <1>2

\* step[<<n, x>>] is what the n-th turn of a loop makes of x.
Follows(f, base, step, L) ==
  f[0] = base /\ \A n \in 1 .. L : f[n] = step[<<n, f[n - 1]>>]

\* A recursion over 0 .. L has a solution.
LEMMA RecursionExists ==
  ASSUME NEW X, NEW base \in X, NEW L \in Nat, NEW step \in [(1 .. L) \X X -> X]
  PROVE  \E f \in [0 .. L -> X] : Follows(f, base, step, L)
<1> DEFINE S == {n \in Nat : n <= L => \E f \in [0 .. n -> X] : Follows(f, base, step, n)}
<1>1. 0 \in S
  <2>1. PICK f \in [0 .. 0 -> X] : f = [n \in 0 .. 0 |-> base]
    OBVIOUS
  <2>2. Follows(f, base, step, 0)
    BY <2>1 DEF Follows
  <2> QED
    BY <2>2
<1>2. ASSUME NEW n \in Nat, n \in S
      PROVE  n + 1 \in S
  <2> SUFFICES ASSUME n + 1 <= L
               PROVE  \E h \in [0 .. n + 1 -> X] : Follows(h, base, step, n + 1)
    OBVIOUS
  <2>1. PICK f \in [0 .. n -> X] : Follows(f, base, step, n)
    BY <1>2
  <2>2. f[n] \in X /\ <<n + 1, f[n]>> \in (1 .. L) \X X
    OBVIOUS
  <2>3. PICK last \in X : last = step[<<n + 1, f[n]>>]
    BY <2>2
  <2>4. PICK h \in [0 .. n + 1 -> X] :
          h = [i \in 0 .. n + 1 |-> IF i <= n THEN f[i] ELSE last]
    <3>1. \A i \in 0 .. n + 1 : i <= n => i \in 0 .. n
      OBVIOUS
    <3>2. \A i \in 0 .. n + 1 : (IF i <= n THEN f[i] ELSE last) \in X
      BY <3>1
    <3> QED
      BY <3>2
  <2>5. h[n + 1] = last /\ \A i \in 0 .. n : h[i] = f[i]
    BY <2>4
  <2>6. ASSUME NEW i \in 1 .. n + 1
        PROVE  h[i] = step[<<i, h[i - 1]>>]
    <3>1. CASE i \in 1 .. n
      <4>1. h[i] = f[i] /\ h[i - 1] = f[i - 1]
        BY <2>5, <3>1
      <4> QED
        BY <2>1, <3>1, <4>1 DEF Follows
    <3>2. CASE i = n + 1
      <4>1. h[i] = last /\ h[i - 1] = f[n]
        BY <2>5, <3>2
      <4> QED
        BY <2>3, <3>2, <4>1
    <3> QED
      BY <3>1, <3>2
  <2>7. h[0] = base
    BY <2>1, <2>5 DEF Follows
  <2> QED
    BY <2>6, <2>7 DEF Follows
<1> HIDE DEF S
<1>3. Nat \subseteq S
  BY <1>1, <1>2, SetInduction
<1> QED
  BY <1>3 DEF S

(***************************************************************************)
(* And no more than one: two functions that begin alike and go on alike    *)
(* are alike.                                                              *)
(***************************************************************************)
LEMMA RecursionUnique ==
  ASSUME NEW L \in Nat, NEW f, NEW g, f[0] = g[0],
         \A n \in 1 .. L : f[n - 1] = g[n - 1] => f[n] = g[n]
  PROVE  \A n \in 0 .. L : f[n] = g[n]
<1> DEFINE S == {n \in Nat : n <= L => f[n] = g[n]}
<1>1. 0 \in S
  OBVIOUS
<1>2. ASSUME NEW n \in Nat, n \in S
      PROVE  n + 1 \in S
  <2> SUFFICES ASSUME n + 1 <= L
               PROVE  f[n + 1] = g[n + 1]
    OBVIOUS
  <2>1. n + 1 \in 1 .. L /\ f[(n + 1) - 1] = g[(n + 1) - 1]
    BY <1>2
  <2> QED
    BY <2>1
<1> HIDE DEF S
<1>3. Nat \subseteq S
  BY <1>1, <1>2, SetInduction
<1> QED
  BY <1>3 DEF S
=============================================================================
