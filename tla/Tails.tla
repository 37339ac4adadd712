-------------------------------- MODULE Tails --------------------------------
(***************************************************************************)
(* The points of G2 that the revocation scheme of libursa/src/cl computes: *)
(* the accumulator of a registry, the witness omega of a holder and the    *)
(* tails they are sums of.                                                 *)
(*                                                                         *)
(* A tail with identifier k is g' ^ (gamma ^ k), gamma being a secret of   *)
(* the issuer.  Every point the code computes is a product of tails, that  *)
(* is, g' to a polynomial in gamma, and is modelled by the coefficients of *)
(* that polynomial: a function from tail identifiers to integers.  Two     *)
(* points are equal when their polynomials are (gamma is drawn at random   *)
(* from a group of prime order of 254 bits, so a root met by chance is     *)
(* left out), and a product of pairings compares polynomials too.          *)
(***************************************************************************)
EXTENDS Integers

CONSTANTS
  MaxCredNum,   \* max_cred_num: how many credentials a registry holds
  U32           \* 2^32, the size of the machine integers of the indexes

ASSUME MaxCredNumAssumption == MaxCredNum \in Nat \ {0}
ASSUME U32Assumption == U32 \in Nat /\ U32 > 3 * MaxCredNum + 3

\* Subtraction of u32 values as a release build computes it.
WrapSub(a, b) == IF a >= b THEN a - b ELSE a - b + U32
WrapAdd(a, b) == IF a + b < U32 THEN a + b ELSE a + b - U32

-----------------------------------------------------------------------------
\* The identifiers a RevocationTailsGenerator yields: size = 2 * max_cred_num + 1.
TailIds == 0 .. 2 * MaxCredNum

Point == [TailIds -> Int]

Infinity == [k \in TailIds |-> 0]

Add(p, q) == [k \in TailIds |-> p[k] + q[k]]

Sub(p, q) == [k \in TailIds |-> p[k] - q[k]]

\* The sum of the tails whose identifiers are in K: what a loop of
\* access_tail calls with a closure that adds computes from Infinity.
TailSum(K) == [k \in TailIds |-> IF k \in K THEN 1 ELSE 0]

NewTail(k) == TailSum({k})

-----------------------------------------------------------------------------
\* The tail that stands for revocation index i in the accumulator.
GetIndex(i) == WrapSub(MaxCredNum + 1, i)

\* The tail that stands for index j in the witness of the holder of index own.
WitnessIndex(j, own) == WrapAdd(WrapSub(MaxCredNum + 1, j), own)

\* Mutant of WitnessTails: the owner's own index is not skipped.
OwnTailToo(J, own) == {WitnessIndex(j, own) : j \in J}

\* The tails a witness sums for the indexes J, the owner's own skipped.
WitnessTails(J, own) == {WitnessIndex(j, own) : j \in J \ {own}}

\* The check e(g_i, accum) / e(g, omega) = z, where g_i = g^(gamma^own) and
\* z = e(g, g')^(gamma^(max_cred_num + 1)), as an equality of polynomials.
Coefficient(p, k) == IF k \in TailIds THEN p[k] ELSE 0

WitnessHolds(own, acc, omega) ==
  \A k \in 0 .. 3 * MaxCredNum :
    Coefficient(acc, k - own) - Coefficient(omega, k) =
      (IF k = MaxCredNum + 1 THEN 1 ELSE 0)
=============================================================================
