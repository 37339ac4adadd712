------------------------------ MODULE Predicates ------------------------------
(***************************************************************************)
(* One inequality predicate of libursa/src/cl, from the request of the     *)
(* verifier to its verdict: the i32 arithmetic of Predicate, the four      *)
(* squares of helpers.rs, and the equations the verifier recomputes, as    *)
(* equalities of exponents (Z and S have no relation a prover knows of).   *)
(* A release build of the library wraps on overflow; a build with overflow *)
(* checks panics.                                                          *)
(***************************************************************************)
EXTENDS Integers

CONSTANTS
  Half,             \* 2^31: an i32 lies in -Half .. Half - 1
  Builds,           \* whether prover and verifier are built with overflow checks
  Thresholds,       \* the values of the predicates that are requested
  AttrValues        \* the attribute values of the credentials

I32 == -Half .. Half - 1

ASSUME HalfAssumption == Half \in Nat /\ Half > 1
ASSUME BuildsAssumption == Builds \subseteq [prover : BOOLEAN, verifier : BOOLEAN]
ASSUME ThresholdsAssumption == Thresholds \subseteq I32
ASSUME AttrValuesAssumption == AttrValues \subseteq Int

Types == {"GE", "GT", "LE", "LT"}

VARIABLES
  checks,     \* which side's build panics on overflow
  stage,      \* how far the predicate has come
  predicate,  \* the predicate requested
  attr,       \* the attribute value of the credential
  delta,      \* what the prover commits to
  roots       \* and expresses as a sum of four squares

vars == <<checks, stage, predicate, attr, delta, roots>>

Predicate == [type : Types, value : I32]

Start == [type |-> "GE", value |-> 0]

-----------------------------------------------------------------------------
Overflows(x) == x \notin I32

\* Mutant of Wrap: the difference is taken on integers without a width.
NoWrap(x) == x

Wrap(x) == IF x >= Half THEN x - 2 * Half ELSE IF x < -Half THEN x + 2 * Half ELSE x

IsLess(p) == p.type \in {"LE", "LT"}

\* The difference get_delta takes first, and the 1 it takes off for a strict type.
Difference(p, a) == IF IsLess(p) THEN p.value - a ELSE a - p.value

\* Mutant of Strict: a strict type is treated as its weak one on both sides.
NeverStrict(p) == 0

Strict(p) == IF p.type \in {"GT", "LT"} THEN 1 ELSE 0

\* Mutant of GetDelta: the prover treats a strict type as its weak one.
DeltaNotStrict(p, a) == Wrap(Difference(p, a))

GetDelta(p, a) == Wrap(Wrap(Difference(p, a)) - Strict(p))

GetDeltaOverflows(p, a) ==
  Overflows(Difference(p, a)) \/ Overflows(Wrap(Difference(p, a)) - Strict(p))

\* The bound get_delta_prime makes of the value.
Bound(p) == IF IsLess(p) THEN p.value - Strict(p) ELSE p.value + Strict(p)
GetDeltaPrime(p) == Wrap(Bound(p))

(***************************************************************************)
(* four_squares: the three loops go down from the largest square that      *)
(* fits, and stop at the first exact sum.                                  *)
(***************************************************************************)
LargestSquareLessThan(d) == CHOOSE r \in 0 .. d : r * r <= d /\ (r + 1) * (r + 1) > d

Square(n) == n * n
Largest(S) == CHOOSE n \in S : \A m \in S : m <= n

\* The roots the innermost loop tries for d, and the sums d can be left with.
TwoSquares(d) ==
  {k \in 0 .. LargestSquareLessThan(d) :
     Square(k) + Square(LargestSquareLessThan(d - Square(k))) = d}
ThreeSquares(d) ==
  {j \in 0 .. LargestSquareLessThan(d) : TwoSquares(d - Square(j)) # {}}
FirstOfFour(d) ==
  {i \in 0 .. LargestSquareLessThan(d) : ThreeSquares(d - Square(i)) # {}}

FourSquares(d) ==
  LET i == Largest(FirstOfFour(d))
      j == Largest(ThreeSquares(d - Square(i)))
      k == Largest(TwoSquares(d - Square(i) - Square(j)))
  IN  <<i, j, k, LargestSquareLessThan(d - Square(i) - Square(j) - Square(k))>>

(***************************************************************************)
(* What the search is for: the squares of what it returns add up to d, for *)
(* every delta.  That there are four such roots is Lagrange's theorem.     *)
(***************************************************************************)
SquaresFound ==
  \A d \in 0 .. Half - 1 :
    /\ FourSquares(d) \in Nat \X Nat \X Nat \X Nat
    /\ d = Square(FourSquares(d)[1]) + Square(FourSquares(d)[2])
            + Square(FourSquares(d)[3]) + Square(FourSquares(d)[4])

-----------------------------------------------------------------------------
Init ==
  /\ checks \in Builds
  /\ stage = "new"
  /\ predicate = Start
  /\ attr = 0
  /\ delta = 0
  /\ roots = <<0, 0, 0, 0>>

\* SubProofRequestBuilder::add_predicate.
AddPredicate(type, value) ==
  /\ stage = "new"
  /\ predicate' = [type |-> type, value |-> value]
  /\ stage' = "requested"
  /\ UNCHANGED <<checks, attr, delta, roots>>

\* _init_ne_proof returns an error: the value is no i32, or delta is negative.
NotProvable(a) == a \notin I32 \/ GetDelta(predicate, a) < 0

RefuseNeProof(a) ==
  /\ stage = "requested"
  /\ ~(checks.prover /\ a \in I32 /\ GetDeltaOverflows(predicate, a))
  /\ NotProvable(a)
  /\ attr' = a
  /\ stage' = "refused"
  /\ UNCHANGED <<checks, predicate, delta, roots>>

InitNeProof(a) ==
  /\ stage = "requested"
  /\ ~(checks.prover /\ GetDeltaOverflows(predicate, a))
  /\ ~NotProvable(a)
  /\ attr' = a
  /\ delta' = GetDelta(predicate, a)
  /\ roots' = FourSquares(delta')
  /\ stage' = "proved"
  /\ UNCHANGED <<checks, predicate>>

PanicInGetDelta(a) ==
  /\ stage = "requested"
  /\ checks.prover /\ a \in I32 /\ GetDeltaOverflows(predicate, a)
  /\ attr' = a
  /\ stage' = "panicked"
  /\ UNCHANGED <<checks, predicate, delta, roots>>

PanicInGetDeltaPrime ==
  /\ stage = "proved"
  /\ checks.verifier /\ Overflows(Bound(predicate))
  /\ stage' = "panicked"
  /\ UNCHANGED <<checks, predicate, attr, delta, roots>>

\* The two equations that do not hold by construction: the exponent of Z in
\* tau_list[ITERATION] (delta counts negatively when is_less), and the squares.
Equations ==
  /\ attr = IF IsLess(predicate) THEN GetDeltaPrime(predicate) - delta
                                 ELSE GetDeltaPrime(predicate) + delta
  /\ delta = Square(roots[1]) + Square(roots[2]) + Square(roots[3]) + Square(roots[4])

VerifyNePredicate ==
  /\ stage = "proved"
  /\ ~(checks.verifier /\ Overflows(Bound(predicate)))
  /\ stage' = IF Equations THEN "verified" ELSE "rejected"
  /\ UNCHANGED <<checks, predicate, attr, delta, roots>>

Next ==
  \/ \E type \in Types, value \in Thresholds : AddPredicate(type, value)
  \/ \E a \in AttrValues : RefuseNeProof(a) \/ InitNeProof(a) \/ PanicInGetDelta(a)
  \/ PanicInGetDeltaPrime
  \/ VerifyNePredicate

Spec == Init /\ [][Next]_vars
-----------------------------------------------------------------------------
TypeOK ==
  /\ checks \in Builds
  /\ stage \in {"new", "requested", "proved", "refused", "verified", "rejected", "panicked"}
  /\ predicate \in Predicate
  /\ attr \in Int
  /\ delta \in 0 .. Half - 1
  /\ roots \in Nat \X Nat \X Nat \X Nat

\* What the verifier asked about the value, on integers without a width.
Holds(p, a) ==
  \/ p.type = "GE" /\ a >= p.value
  \/ p.type = "GT" /\ a > p.value
  \/ p.type = "LE" /\ a <= p.value
  \/ p.type = "LT" /\ a < p.value

\* The two predicates no i32 satisfies, whose bound leaves the width.
AtTheEnd(p) == Overflows(Bound(p))

(***************************************************************************)
(* A predicate whose proof verifies is true of the value in the credential *)
(* (the doc of Proof, mod.rs:887: "attributes with valid predicates").     *)
(***************************************************************************)
VerifiedHolds == stage = "verified" => Holds(predicate, attr)

(***************************************************************************)
(* The same for every predicate whose bound is an i32, whatever wraps in   *)
(* get_delta.                                                              *)
(***************************************************************************)
VerifiedHoldsInside ==
  stage = "verified" /\ ~AtTheEnd(predicate) => Holds(predicate, attr)

(***************************************************************************)
(* As long as get_delta does not overflow, the builder accepts exactly the *)
(* predicates that are true, and the verifier accepts whatever the builder *)
(* accepted (four_squares finds a sum for every delta).                    *)
(***************************************************************************)
ExactWithoutOverflow ==
  ~GetDeltaOverflows(predicate, attr) /\ ~AtTheEnd(predicate) =>
    /\ stage \in {"proved", "verified", "rejected"} => Holds(predicate, attr)
    /\ stage = "refused" => attr \notin I32 \/ ~Holds(predicate, attr)
    /\ stage # "rejected"

(***************************************************************************)
(* A verifier built with overflow checks never gives a wrong verdict,      *)
(* whatever build the prover has: it panics where get_delta_prime wraps,   *)
(* and rejects what a prover whose get_delta wrapped has proved.           *)
(***************************************************************************)
ChecksStopWrapping ==
  checks.verifier /\ stage \in {"verified", "rejected"} =>
    (stage = "verified") = Holds(predicate, attr)
=============================================================================
