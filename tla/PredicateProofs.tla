---------------------------- MODULE PredicateProofs ----------------------------
(***************************************************************************)
(* Theorems about Predicates for every width of the integer: a predicate   *)
(* proof that verifies is about a value that satisfies the predicate, and  *)
(* without overflow, or with overflow checks, the verdicts are exact.      *)
(***************************************************************************)
EXTENDS Predicates, TLAPS

\* What a prover with a committed delta has, and what verifying it shows.
Committed ==
  /\ predicate \in Predicate
  /\ attr \in Int /\ delta \in Int
  /\ stage \in {"proved", "verified", "rejected"} => delta >= 0
  /\ stage = "verified" =>
       attr = IF IsLess(predicate) THEN GetDeltaPrime(predicate) - delta
                                   ELSE GetDeltaPrime(predicate) + delta

\* Arithmetic on i32 values yields integers.
LEMMA GetDeltaInt ==
  ASSUME NEW p \in Predicate, NEW a \in Int
  PROVE  GetDelta(p, a) \in Int
  BY HalfAssumption DEF GetDelta, Wrap, Difference, Strict, IsLess, Predicate, I32

\* Nothing is committed to at first.
LEMMA CommittedInit == Init => Committed
  BY HalfAssumption DEF Init, Committed, Start, Predicate, I32, Types

\* What _init_ne_proof established of delta stays true.
LEMMA CommittedStep == Committed /\ [Next]_vars => Committed'
<1> SUFFICES ASSUME Committed, [Next]_vars PROVE Committed'
  OBVIOUS
<1> USE HalfAssumption, ThresholdsAssumption, AttrValuesAssumption
<1>1. ASSUME NEW type \in Types, NEW value \in Thresholds, AddPredicate(type, value)
      PROVE  Committed'
  BY <1>1 DEF Committed, AddPredicate, Predicate
<1>2. ASSUME NEW a \in AttrValues, RefuseNeProof(a)
      PROVE  Committed'
  BY <1>2 DEF Committed, RefuseNeProof
<1>3. ASSUME NEW a \in AttrValues, InitNeProof(a)
      PROVE  Committed'
  <2>1. delta' \in Int
    BY <1>3, GetDeltaInt DEF Committed, InitNeProof
  <2>2. delta' >= 0
    BY <1>3, <2>1, GetDeltaInt DEF Committed, InitNeProof, NotProvable
  <2> QED
    BY <1>3, <2>1, <2>2 DEF Committed, InitNeProof
<1>4. ASSUME NEW a \in AttrValues, PanicInGetDelta(a)
      PROVE  Committed'
  BY <1>4 DEF Committed, PanicInGetDelta
<1>5. CASE PanicInGetDeltaPrime
  BY <1>5 DEF Committed, PanicInGetDeltaPrime
<1>6. CASE VerifyNePredicate
  BY <1>6 DEF Committed, VerifyNePredicate, Equations
<1>7. CASE UNCHANGED vars
  BY <1>7 DEF Committed, vars
<1> QED
  BY <1>1, <1>2, <1>3, <1>4, <1>5, <1>6, <1>7 DEF Next

\* A bound that does not wrap, plus or minus a natural number, is on the
\* right side of the threshold.
LEMMA CommittedHolds == Committed => VerifiedHoldsInside
<1> SUFFICES ASSUME Committed, stage = "verified", ~AtTheEnd(predicate)
             PROVE  Holds(predicate, attr)
  BY DEF VerifiedHoldsInside
<1>1. /\ predicate.type \in Types /\ predicate.value \in Int
      /\ attr \in Int /\ delta \in Int /\ delta >= 0
  BY HalfAssumption DEF Committed, Predicate, I32
<1>2. Bound(predicate) \in Int /\ GetDeltaPrime(predicate) = Bound(predicate)
  BY <1>1, HalfAssumption
  DEF AtTheEnd, Overflows, I32, GetDeltaPrime, Wrap, Bound, Strict, IsLess
<1>3. attr = IF IsLess(predicate) THEN Bound(predicate) - delta ELSE Bound(predicate) + delta
  BY <1>2 DEF Committed
<1>4. CASE predicate.type = "GE"
  BY <1>1, <1>3, <1>4 DEF Holds, Bound, IsLess, Strict
<1>5. CASE predicate.type = "GT"
  BY <1>1, <1>3, <1>5 DEF Holds, Bound, IsLess, Strict
<1>6. CASE predicate.type = "LE"
  BY <1>1, <1>3, <1>6 DEF Holds, Bound, IsLess, Strict
<1>7. CASE predicate.type = "LT"
  BY <1>1, <1>3, <1>7 DEF Holds, Bound, IsLess, Strict
<1> QED
  BY <1>1, <1>4, <1>5, <1>6, <1>7 DEF Types

(***************************************************************************)
(* For every width and every predicate whose bound does not leave it: if   *)
(* ProofVerifier::_verify_ne_predicate reproduces the tau values of the    *)
(* prover, the attribute value satisfies the predicate, even when          *)
(* Predicate::get_delta has wrapped.                                       *)
(***************************************************************************)
THEOREM VerifiedPredicateHolds == Spec => []VerifiedHoldsInside
  BY CommittedInit, CommittedStep, CommittedHolds, PTL DEF Spec
-----------------------------------------------------------------------------
\* The stages in which a proof has been made.
Judged == {"proved", "verified", "rejected"}

\* What the stage tells of delta, of its roots and of the equations.
Settled ==
  /\ TypeOK
  /\ stage \in Judged =>
       /\ attr \in I32 /\ delta = GetDelta(predicate, attr)
       /\ delta = Square(roots[1]) + Square(roots[2]) + Square(roots[3]) + Square(roots[4])
  /\ stage = "refused" => NotProvable(attr)
  /\ stage = "verified" => Equations
  /\ stage = "rejected" => ~Equations
  /\ stage \in {"verified", "rejected"} /\ checks.verifier => ~AtTheEnd(predicate)

\* A delta that is not refused is an i32.
LEMMA GetDeltaRange ==
  ASSUME NEW p \in Predicate, NEW a \in I32, GetDelta(p, a) >= 0
  PROVE  GetDelta(p, a) \in 0 .. Half - 1
  BY HalfAssumption DEF GetDelta, Wrap, Difference, Strict, IsLess, Predicate, I32

\* Nothing is settled at first.
LEMMA SettledInit == Init => Settled
<1> SUFFICES ASSUME Init PROVE Settled  OBVIOUS
<1>1. TypeOK
  BY HalfAssumption, BuildsAssumption DEF Init, TypeOK, Start, Predicate, I32, Types
<1> QED  BY <1>1 DEF Init, Settled, Judged

\* Every call keeps what is settled.
LEMMA SettledStep ==
  ASSUME SquaresFound
  PROVE  Settled /\ [Next]_vars => Settled'
<1> SUFFICES ASSUME Settled, [Next]_vars PROVE Settled'
  OBVIOUS
<1>1. ASSUME NEW type \in Types, NEW value \in Thresholds, AddPredicate(type, value)
      PROVE  Settled'
  <2>1. predicate' \in Predicate  BY <1>1, ThresholdsAssumption DEF AddPredicate, Predicate
  <2> QED  BY <1>1, <2>1 DEF Settled, TypeOK, AddPredicate, Judged
<1>2. ASSUME NEW a \in AttrValues, RefuseNeProof(a)
      PROVE  Settled'
  <2>1. NotProvable(attr)'  BY <1>2 DEF RefuseNeProof, NotProvable
  <2> QED
    BY <1>2, <2>1, AttrValuesAssumption DEF Settled, TypeOK, RefuseNeProof, Judged
<1>3. ASSUME NEW a \in AttrValues, InitNeProof(a)
      PROVE  Settled'
  <2>1. /\ a \in I32 /\ GetDelta(predicate, a) >= 0 /\ GetDelta(predicate, a) \in Int
        /\ predicate \in Predicate /\ predicate' = predicate
        /\ attr' = a /\ delta' = GetDelta(predicate, a) /\ roots' = FourSquares(delta')
        /\ stage' = "proved" /\ checks' = checks
    <3>1. a \in I32 /\ predicate \in Predicate
      BY <1>3 DEF InitNeProof, NotProvable, Settled, TypeOK
    <3>2. GetDelta(predicate, a) \in Int
      BY <3>1, HalfAssumption, GetDeltaInt DEF I32
    <3> QED  BY <1>3, <3>1, <3>2, HalfAssumption DEF InitNeProof, NotProvable
  <2>2. delta' \in 0 .. Half - 1  BY <2>1, GetDeltaRange
  <2>3. roots' \in Nat \X Nat \X Nat \X Nat  BY <2>1, <2>2 DEF SquaresFound
  <2>4. delta' = Square(roots'[1]) + Square(roots'[2]) + Square(roots'[3]) + Square(roots'[4])
    BY <2>1, <2>2 DEF SquaresFound
  <2>5. TypeOK'  BY <2>1, <2>2, <2>3, HalfAssumption DEF Settled, TypeOK, I32
  <2>6. delta' = GetDelta(predicate', attr')  BY <2>1
  <2> QED  BY <2>1, <2>4, <2>5, <2>6 DEF Settled, Judged
<1>4. ASSUME NEW a \in AttrValues, PanicInGetDelta(a)
      PROVE  Settled'
  BY <1>4, AttrValuesAssumption DEF Settled, TypeOK, PanicInGetDelta, Judged
<1>5. CASE PanicInGetDeltaPrime
  BY <1>5 DEF Settled, TypeOK, PanicInGetDeltaPrime, Judged
<1>6. CASE VerifyNePredicate
  <2>1. /\ stage = "proved" /\ ~(checks.verifier /\ AtTheEnd(predicate))
        /\ stage' = IF Equations THEN "verified" ELSE "rejected"
        /\ UNCHANGED <<checks, predicate, attr, delta, roots>>
    BY <1>6 DEF VerifyNePredicate, AtTheEnd
  <2>2. Equations' <=> Equations  BY <2>1 DEF Equations
  <2>3. AtTheEnd(predicate)' <=> AtTheEnd(predicate)  BY <2>1 DEF AtTheEnd
  <2>4. TypeOK'  BY <2>1 DEF Settled, TypeOK
  <2> QED  BY <2>1, <2>2, <2>3, <2>4 DEF Settled, Judged
<1>7. CASE UNCHANGED vars
  BY <1>7 DEF Settled, TypeOK, NotProvable, Equations, AtTheEnd, vars
<1> QED
  BY <1>1, <1>2, <1>3, <1>4, <1>5, <1>6, <1>7 DEF Next

\* Whatever wraps, a delta that is not negative is the true one for a value
\* that satisfies the predicate.
LEMMA DeltaOfTrue ==
  ASSUME NEW p \in Predicate, NEW a \in I32, Holds(p, a), GetDelta(p, a) >= 0
  PROVE  GetDelta(p, a) = Difference(p, a) - Strict(p)
<1>1. p.type \in Types /\ p.value \in I32  BY DEF Predicate
<1>2. CASE p.type = "GE"
  BY <1>1, <1>2, HalfAssumption DEF GetDelta, Wrap, Difference, Strict, IsLess, Holds, I32
<1>3. CASE p.type = "GT"
  BY <1>1, <1>3, HalfAssumption DEF GetDelta, Wrap, Difference, Strict, IsLess, Holds, I32
<1>4. CASE p.type = "LE"
  BY <1>1, <1>4, HalfAssumption DEF GetDelta, Wrap, Difference, Strict, IsLess, Holds, I32
<1>5. CASE p.type = "LT"
  BY <1>1, <1>5, HalfAssumption DEF GetDelta, Wrap, Difference, Strict, IsLess, Holds, I32
<1> QED  BY <1>1, <1>2, <1>3, <1>4, <1>5 DEF Types

\* The true delta satisfies the equations unless the bound wraps.
LEMMA EquationsOfTrue ==
  ASSUME Settled, stage \in Judged, ~AtTheEnd(predicate),
         delta = Difference(predicate, attr) - Strict(predicate)
  PROVE  Equations
<1>1. predicate.type \in Types /\ predicate.value \in Int /\ attr \in Int
  BY HalfAssumption DEF Settled, TypeOK, Predicate, I32
<1>2. GetDeltaPrime(predicate) = Bound(predicate)
  BY <1>1, HalfAssumption
  DEF AtTheEnd, Overflows, I32, GetDeltaPrime, Wrap, Bound, Strict, IsLess
<1>3. attr = IF IsLess(predicate) THEN Bound(predicate) - delta ELSE Bound(predicate) + delta
  BY <1>1, HalfAssumption DEF Bound, Difference, Strict, IsLess
<1> QED  BY <1>2, <1>3 DEF Equations, Settled

\* What is settled bears out Committed, and with it CommittedHolds.
LEMMA SettledCommitted == Settled => Committed
  BY HalfAssumption DEF Settled, TypeOK, Committed, Equations, Judged

\* A verdict on a bound that did not wrap is right.
LEMMA VerdictRight ==
  ASSUME Settled, ~AtTheEnd(predicate), stage \in {"verified", "rejected"}
  PROVE  (stage = "verified") = Holds(predicate, attr)
<1>1. CASE stage = "verified"
  BY <1>1, SettledCommitted, CommittedHolds DEF VerifiedHoldsInside, Holds
<1>2. CASE stage = "rejected"
  <2>1. ASSUME Holds(predicate, attr) PROVE FALSE
    <3>1. /\ predicate \in Predicate /\ attr \in I32
          /\ GetDelta(predicate, attr) >= 0 /\ delta = GetDelta(predicate, attr)
      BY <1>2, HalfAssumption DEF Settled, TypeOK, Judged
    <3>2. delta = Difference(predicate, attr) - Strict(predicate)
      BY <2>1, <3>1, DeltaOfTrue
    <3>3. Equations  BY <1>2, <3>2, EquationsOfTrue DEF Judged
    <3> QED  BY <1>2, <3>3 DEF Settled
  <2> QED  BY <1>2, <2>1 DEF Holds
<1> QED  BY <1>1, <1>2

\* Without overflow the sign of delta is that of the predicate.
LEMMA DeltaExact ==
  ASSUME NEW p \in Predicate, NEW a \in I32, ~GetDeltaOverflows(p, a)
  PROVE  GetDelta(p, a) >= 0 <=> Holds(p, a)
<1>1. p.type \in Types /\ p.value \in I32  BY DEF Predicate
<1>2. GetDelta(p, a) = Difference(p, a) - Strict(p)
  BY <1>1, HalfAssumption
  DEF GetDeltaOverflows, Overflows, GetDelta, Wrap, Difference, Strict, IsLess, I32
<1>3. CASE p.type = "GE"
  BY <1>1, <1>2, <1>3, HalfAssumption DEF Difference, Strict, IsLess, Holds, I32
<1>4. CASE p.type = "GT"
  BY <1>1, <1>2, <1>4, HalfAssumption DEF Difference, Strict, IsLess, Holds, I32
<1>5. CASE p.type = "LE"
  BY <1>1, <1>2, <1>5, HalfAssumption DEF Difference, Strict, IsLess, Holds, I32
<1>6. CASE p.type = "LT"
  BY <1>1, <1>2, <1>6, HalfAssumption DEF Difference, Strict, IsLess, Holds, I32
<1> QED  BY <1>1, <1>3, <1>4, <1>5, <1>6 DEF Types

\* The invariant holds wherever four_squares finds its roots.
LEMMA SettledInvariant == ASSUME SquaresFound PROVE Spec => []Settled
<1>1. Settled /\ [Next]_vars => Settled'  BY SettledStep
<1> QED  BY <1>1, SettledInit, PTL DEF Spec

(***************************************************************************)
(* Every variable of a predicate keeps its type, the roots of four_squares *)
(* included.                                                               *)
(***************************************************************************)
THEOREM PredicateTypes == ASSUME SquaresFound PROVE Spec => []TypeOK
<1>1. Settled => TypeOK  BY DEF Settled
<1> QED  BY <1>1, SettledInvariant, PTL

(***************************************************************************)
(* For every width, as long as nothing overflows, the builder accepts the  *)
(* predicates that are true and no others, and the verifier accepts what   *)
(* the builder accepted.                                                   *)
(***************************************************************************)
THEOREM TrueIsProvable == ASSUME SquaresFound PROVE Spec => []ExactWithoutOverflow
<1>1. Settled => ExactWithoutOverflow
  <2> SUFFICES ASSUME Settled, ~GetDeltaOverflows(predicate, attr), ~AtTheEnd(predicate)
               PROVE  /\ stage \in Judged => Holds(predicate, attr)
                      /\ stage = "refused" => attr \notin I32 \/ ~Holds(predicate, attr)
                      /\ stage # "rejected"
    BY DEF ExactWithoutOverflow, Judged
  <2>1. predicate \in Predicate  BY DEF Settled, TypeOK
  <2>2. ASSUME stage \in Judged PROVE Holds(predicate, attr)
    <3>1. attr \in I32 /\ GetDelta(predicate, attr) >= 0
      BY <2>2, HalfAssumption DEF Settled, TypeOK
    <3> QED  BY <2>1, <3>1, DeltaExact
  <2>3. ASSUME stage = "refused", attr \in I32 PROVE ~Holds(predicate, attr)
    <3>1. GetDelta(predicate, attr) \in Int
      BY <2>1, <2>3, HalfAssumption, GetDeltaInt DEF I32
    <3>2. ~(GetDelta(predicate, attr) >= 0)
      BY <2>3, <3>1 DEF Settled, NotProvable
    <3> QED  BY <2>1, <2>3, <3>2, DeltaExact
  <2>4. stage # "rejected"
    <3> SUFFICES ASSUME stage = "rejected" PROVE FALSE  OBVIOUS
    <3>1. Holds(predicate, attr)  BY <2>2 DEF Judged
    <3> QED  BY <3>1, VerdictRight
  <2> QED  BY <2>2, <2>3, <2>4
<1> QED  BY <1>1, SettledInvariant, PTL

(***************************************************************************)
(* For every width, a verifier built with overflow checks gives no wrong   *)
(* verdict on what any prover proved, wrapped or not.                      *)
(***************************************************************************)
THEOREM VerifierChecksSuffice == ASSUME SquaresFound PROVE Spec => []ChecksStopWrapping
<1>1. Settled => ChecksStopWrapping
  <2> SUFFICES ASSUME Settled, checks.verifier, stage \in {"verified", "rejected"}
               PROVE  (stage = "verified") = Holds(predicate, attr)
    BY DEF ChecksStopWrapping
  <2>1. ~AtTheEnd(predicate)  BY DEF Settled
  <2> QED  BY <2>1, VerdictRight
<1> QED  BY <1>1, SettledInvariant, PTL
=============================================================================
