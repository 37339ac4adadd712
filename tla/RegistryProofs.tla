---------------------------- MODULE RegistryProofs ----------------------------
(***************************************************************************)
(* Theorems about RevocationRegistry and their proofs.  Nothing is assumed *)
(* beyond the ASSUMEs of Tails and RevocationRegistry.                     *)
(***************************************************************************)
EXTENDS MCRegistry, TLAPS

-----------------------------------------------------------------------------
(***************************************************************************)
(* Points and tails.                                                       *)
(***************************************************************************)
\* The operations on points return points.
LEMMA PointOperations ==
  /\ \A K : TailSum(K) \in Point
  /\ \A k : NewTail(k) \in Point
  /\ \A p, q \in Point : Add(p, q) \in Point /\ Sub(p, q) \in Point
  /\ InitialAccum \in Point
BY DEF TailSum, NewTail, Point, Add, Sub, InitialAccum, AccumulatorOf

\* For indexes within the capacity no subtraction wraps, and every tail the
\* code asks for exists.
LEMMA IndexWithinTails ==
  /\ \A i \in Valid : GetIndex(i) = MaxCredNum + 1 - i /\ GetIndex(i) \in 1 .. MaxCredNum
  /\ \A j, h \in Valid : /\ WitnessIndex(j, h) = MaxCredNum + 1 - j + h
                         /\ WitnessIndex(j, h) \in TailIds
  /\ 1 .. MaxCredNum \subseteq TailIds
BY MaxCredNumAssumption, U32Assumption
   DEF Valid, GetIndex, WitnessIndex, WrapSub, WrapAdd, TailIds

\* Distinct indexes have distinct tails: a point that is the accumulator of
\* a set of indexes determines the set.
LEMMA LiveInAccumulator ==
  ASSUME NEW S \in SUBSET Valid
  PROVE  LiveIn(AccumulatorOf(S)) = S
<1>1. ASSUME NEW i \in Valid
      PROVE  AccumulatorOf(S)[GetIndex(i)] = 1 <=> i \in S
  <2>1. GetIndex(i) \in TailIds
    BY IndexWithinTails
  <2>2. (\E j \in S : GetIndex(i) = GetIndex(j)) <=> i \in S
    BY IndexWithinTails, MaxCredNumAssumption DEF Valid
  <2>3. QED
    BY <2>1, <2>2 DEF AccumulatorOf, TailSum
<1>2. QED
  BY <1>1 DEF LiveIn

\* Adding the tail of an index that is not in the sum, or subtracting the
\* tail of one that is, yields the accumulator of the changed set.
LEMMA AccumulatorStep ==
  ASSUME NEW S \in SUBSET Valid, NEW i \in Valid
  PROVE  /\ i \notin S => Add(AccumulatorOf(S), NewTail(GetIndex(i))) = AccumulatorOf(S \cup {i})
         /\ i \in S => Sub(AccumulatorOf(S), NewTail(GetIndex(i))) = AccumulatorOf(S \ {i})
<1> DEFINE Used(T, k) == \E j \in T : k = GetIndex(j)
<1>1. \A j \in S : GetIndex(j) = GetIndex(i) => j = i
  BY IndexWithinTails, MaxCredNumAssumption DEF Valid
<1>2. \A T : AccumulatorOf(T) = [k \in TailIds |-> IF Used(T, k) THEN 1 ELSE 0]
  BY DEF AccumulatorOf, TailSum
<1>3. NewTail(GetIndex(i)) = [k \in TailIds |-> IF k = GetIndex(i) THEN 1 ELSE 0]
  BY DEF NewTail, TailSum
<1>4. ASSUME i \notin S
      PROVE  Add(AccumulatorOf(S), NewTail(GetIndex(i))) = AccumulatorOf(S \cup {i})
  <2>1. \A k : Used(S \cup {i}, k) <=> Used(S, k) \/ k = GetIndex(i)
    OBVIOUS
  <2>2. ~Used(S, GetIndex(i))
    BY <1>1, <1>4
  <2>3. ASSUME NEW k \in TailIds
        PROVE  Add(AccumulatorOf(S), NewTail(GetIndex(i)))[k] = AccumulatorOf(S \cup {i})[k]
    <3> HIDE DEF Used
    <3>1. AccumulatorOf(S \cup {i})[k] = IF Used(S \cup {i}, k) THEN 1 ELSE 0
      BY <1>2
    <3>2. AccumulatorOf(S)[k] = IF Used(S, k) THEN 1 ELSE 0
      BY <1>2
    <3>3. NewTail(GetIndex(i))[k] = IF k = GetIndex(i) THEN 1 ELSE 0
      BY <1>3
    <3>4. QED
      BY <3>1, <3>2, <3>3, <2>1, <2>2 DEF Add
  <2>4. QED
    BY <2>3, <1>2 DEF Add
<1>5. ASSUME i \in S
      PROVE  Sub(AccumulatorOf(S), NewTail(GetIndex(i))) = AccumulatorOf(S \ {i})
  <2>1. \A k : Used(S \ {i}, k) <=> Used(S, k) /\ k # GetIndex(i)
    BY <1>1
  <2>2. Used(S, GetIndex(i))
    BY <1>5
  <2>3. ASSUME NEW k \in TailIds
        PROVE  Sub(AccumulatorOf(S), NewTail(GetIndex(i)))[k] = AccumulatorOf(S \ {i})[k]
    <3> HIDE DEF Used
    <3>1. AccumulatorOf(S \ {i})[k] = IF Used(S \ {i}, k) THEN 1 ELSE 0
      BY <1>2
    <3>2. AccumulatorOf(S)[k] = IF Used(S, k) THEN 1 ELSE 0
      BY <1>2
    <3>3. NewTail(GetIndex(i))[k] = IF k = GetIndex(i) THEN 1 ELSE 0
      BY <1>3
    <3>4. QED
      BY <3>1, <3>2, <3>3, <2>1, <2>2 DEF Sub
  <2>4. QED
    BY <2>3, <1>2 DEF Sub
<1>6. QED
  BY <1>4, <1>5

-----------------------------------------------------------------------------
(***************************************************************************)
(* Deltas.                                                                 *)
(***************************************************************************)
\* Merging two deltas that say exactly what changed between their ends, the
\* second starting where the first ends, yields a delta that says so too.
LEMMA MergeFaithful ==
  ASSUME NEW d \in Delta, NEW e \in Delta,
         NEW created,
         DeltaFaithful(d, created), DeltaFaithful(e, created), CanMerge(d, e)
  PROVE  Merge(d, e) \in Delta /\ DeltaFaithful(Merge(d, e), created)
<1> DEFINE m == Merge(d, e)
           S == LiveIn(StartOf(d, created))
           T == LiveIn(d.accum)
           U == LiveIn(e.accum)
<1>1. /\ d.issued = T \ S /\ d.revoked = S \ T
      /\ StartOf(d, created) = AccumulatorOf(S)
  BY DEF DeltaFaithful
<1>2. /\ e.issued = U \ T /\ e.revoked = T \ U
      /\ e.accum = AccumulatorOf(U)
  BY DEF DeltaFaithful, CanMerge, StartOf
<1>3. /\ m.prev = d.prev /\ m.accum = e.accum
      /\ m.issued = (d.issued \cup (e.issued \ d.revoked)) \ e.revoked
      /\ m.revoked = (d.revoked \cup (e.revoked \ (d.issued \cup (e.issued \ d.revoked))))
                       \ e.issued
      /\ m \in Delta
  BY DEF Merge, FromParts, Delta
<1>4. m.issued = U \ S /\ m.revoked = S \ U
  <2> HIDE DEF m, S, T, U
  <2>1. QED
    BY <1>1, <1>2, <1>3
<1>5. StartOf(m, created) = StartOf(d, created)
  BY <1>3 DEF StartOf
<1>6. QED
  BY <1>1, <1>2, <1>3, <1>4, <1>5 DEF DeltaFaithful

-----------------------------------------------------------------------------
(***************************************************************************)
(* Witnesses.                                                              *)
(***************************************************************************)
\* The tails of a witness within the capacity are distinct and none of them
\* is the tail max_cred_num + 1.
LEMMA WitnessTailsWithin ==
  ASSUME NEW h \in Valid, NEW S \in SUBSET Valid, NEW k \in TailIds
  PROVE  k \in WitnessTails(S, h) <=>
           \E j \in S : j # h /\ k = MaxCredNum + 1 - j + h
BY IndexWithinTails DEF WitnessTails

\* Updating the witness of a set of indexes with the difference to another
\* set yields the witness of the other set.
LEMMA WitnessUpdate ==
  ASSUME NEW h \in Valid, NEW S \in SUBSET Valid, NEW T \in SUBSET Valid
  PROVE  Add(TailSum(WitnessTails(S, h)),
             Sub(TailSum(WitnessTails(T \ S, h)), TailSum(WitnessTails(S \ T, h))))
           = TailSum(WitnessTails(T, h))
<1> DEFINE new == Add(TailSum(WitnessTails(S, h)),
                      Sub(TailSum(WitnessTails(T \ S, h)), TailSum(WitnessTails(S \ T, h))))
<1>1. ASSUME NEW k \in TailIds
      PROVE  new[k] = TailSum(WitnessTails(T, h))[k]
  <2> DEFINE j == MaxCredNum + 1 + h - k
             In(R) == j \in R /\ j # h
  <2>1. ASSUME NEW R \in SUBSET Valid
        PROVE  TailSum(WitnessTails(R, h))[k] = IF In(R) THEN 1 ELSE 0
    <3>1. k \in WitnessTails(R, h) <=> \E i \in R : i # h /\ k = MaxCredNum + 1 - i + h
      BY WitnessTailsWithin
    <3>2. \A i \in R : k = MaxCredNum + 1 - i + h <=> i = j
      BY MaxCredNumAssumption DEF Valid, TailIds
    <3>3. QED
      BY <3>1, <3>2 DEF TailSum
  <2>2. new[k] = (IF In(S) THEN 1 ELSE 0)
                   + ((IF In(T \ S) THEN 1 ELSE 0) - (IF In(S \ T) THEN 1 ELSE 0))
    <3>1. /\ TailSum(WitnessTails(S, h))[k] = IF In(S) THEN 1 ELSE 0
          /\ TailSum(WitnessTails(T \ S, h))[k] = IF In(T \ S) THEN 1 ELSE 0
          /\ TailSum(WitnessTails(S \ T, h))[k] = IF In(S \ T) THEN 1 ELSE 0
      <4> HIDE DEF In
      <4>1. QED
        BY <2>1
    <3>2. QED
      BY <3>1 DEF Add, Sub
  <2>3. TailSum(WitnessTails(T, h))[k] = IF In(T) THEN 1 ELSE 0
    BY <2>1
  <2> HIDE DEF new, j
  <2>4. QED
    BY <2>2, <2>3
<1>2. QED
  BY <1>1 DEF Add, TailSum

\* The pairing equation holds for the witness of a set of indexes and the
\* accumulator of the same set exactly when the owner's index is in the set.
LEMMA WitnessHoldsIffMember ==
  ASSUME NEW h \in Valid, NEW S \in SUBSET Valid
  PROVE  WitnessHolds(h, AccumulatorOf(S), TailSum(WitnessTails(S, h))) <=> h \in S
<1> DEFINE acc == AccumulatorOf(S)
           omega == TailSum(WitnessTails(S, h))
<1>1. ASSUME NEW k \in 0 .. 3 * MaxCredNum
      PROVE  Coefficient(acc, k - h) =
               IF MaxCredNum + 1 + h - k \in S THEN 1 ELSE 0
  <2>1. \A i \in S : k - h = GetIndex(i) <=> i = MaxCredNum + 1 + h - k
    BY IndexWithinTails, MaxCredNumAssumption DEF Valid
  <2>2. MaxCredNum + 1 + h - k \in S => k - h \in TailIds
    BY MaxCredNumAssumption DEF Valid, TailIds
  <2>3. QED
    BY <2>1, <2>2 DEF Coefficient, AccumulatorOf, TailSum
<1>2. ASSUME NEW k \in 0 .. 3 * MaxCredNum
      PROVE  Coefficient(omega, k) =
               IF MaxCredNum + 1 + h - k \in S \ {h} THEN 1 ELSE 0
  <2>1. \A i \in S : k = MaxCredNum + 1 - i + h <=> i = MaxCredNum + 1 + h - k
    BY MaxCredNumAssumption DEF Valid
  <2>2. MaxCredNum + 1 + h - k \in S => k \in TailIds
    BY MaxCredNumAssumption DEF Valid, TailIds
  <2>3. k \in TailIds =>
          (k \in WitnessTails(S, h) <=> \E i \in S : i # h /\ k = MaxCredNum + 1 - i + h)
    BY WitnessTailsWithin
  <2>4. QED
    BY <2>1, <2>2, <2>3 DEF Coefficient, TailSum
<1>3. \A k \in 0 .. 3 * MaxCredNum :
        MaxCredNum + 1 + h - k = h <=> k = MaxCredNum + 1
  BY MaxCredNumAssumption DEF Valid
<1>4. MaxCredNum + 1 \in 0 .. 3 * MaxCredNum
  BY MaxCredNumAssumption
<1> HIDE DEF acc, omega
<1>5. WitnessHolds(h, acc, omega) <=> h \in S
  BY <1>1, <1>2, <1>3, <1>4 DEF WitnessHolds
<1>6. QED
  BY <1>5 DEF acc, omega

-----------------------------------------------------------------------------
(***************************************************************************)
(* Type correctness, in every mode.                                        *)
(***************************************************************************)
LEMMA InitTypeOK == Init => TypeOK
BY PointOperations, IndicesAssumption, ModeAssumption
   DEF Init, TypeOK, InitialIndices

\* A call that changes the accumulator keeps the types of the issuer's state.
LEMMA ChangeTypeOK ==
  ASSUME TypeOK, NEW i \in Indices, NEW outcome \in Outcomes
  PROVE  /\ ChangeAccumulator(i, outcome, WithTail(i), {i}, {}) =>
              accum' \in Point /\ book' \subseteq Indices /\ ledger' \in Seq(Delta)
         /\ ChangeAccumulator(i, outcome, WithoutTail(i), {}, {i}) =>
              accum' \in Point /\ book' \subseteq Indices /\ ledger' \in Seq(Delta)
<1> DEFINE k == GetIndex(i)
           up == Add(accum, NewTail(k))
           down == Sub(accum, NewTail(k))
<1>1. up \in Point /\ down \in Point
  BY PointOperations DEF TypeOK
<1>2. /\ FromParts(accum, up, {i}, {}) \in Delta
      /\ FromParts(accum, down, {}, {i}) \in Delta
  BY <1>1 DEF FromParts, Delta, TypeOK
<1>3. ASSUME ChangeAccumulator(i, outcome, WithTail(i), {i}, {})
      PROVE  accum' \in Point /\ book' \subseteq Indices /\ ledger' \in Seq(Delta)
  <2>1. accum' \in {accum, up}
    BY <1>3 DEF ChangeAccumulator, WithTail, WithoutTail
  <2>2. \/ /\ ledger' = Append(ledger, FromParts(accum, up, {i}, {}))
           /\ book' = (book \cup {i}) \ {}
        \/ ledger' = ledger /\ book' = book
    BY <1>3 DEF ChangeAccumulator, WithTail, WithoutTail
  <2>3. QED
    BY <1>1, <1>2, <2>1, <2>2 DEF TypeOK
<1>4. ASSUME ChangeAccumulator(i, outcome, WithoutTail(i), {}, {i})
      PROVE  accum' \in Point /\ book' \subseteq Indices /\ ledger' \in Seq(Delta)
  <2>1. accum' \in {accum, down}
    BY <1>4 DEF ChangeAccumulator, WithTail, WithoutTail
  <2>2. \/ /\ ledger' = Append(ledger, FromParts(accum, down, {}, {i}))
           /\ book' = (book \cup {}) \ {i}
        \/ ledger' = ledger /\ book' = book
    BY <1>4 DEF ChangeAccumulator, WithTail, WithoutTail
  <2>3. QED
    BY <1>1, <1>2, <2>1, <2>2 DEF TypeOK
<1>5. QED
  BY <1>3, <1>4

\* A merged delta is a delta.
LEMMA MergeInDelta ==
  ASSUME NEW d \in Delta, NEW e \in Delta
  PROVE  Merge(d, e) \in Delta
BY DEF Merge, FromParts, Delta

\* Every step keeps the types.
LEMMA NextTypeOK == TypeOK /\ [Next]_vars => TypeOK'
<1> SUFFICES ASSUME TypeOK, [Next]_vars
             PROVE  TypeOK'
  OBVIOUS
<1>1. ASSUME NEW i \in Indices, SignByDefault(i)
      PROVE  TypeOK'
  BY <1>1 DEF SignByDefault, holderVars, TypeOK
<1>2. ASSUME NEW i \in Indices, NEW outcome \in Outcomes, SignOnDemand(i, outcome)
      PROVE  TypeOK'
  BY <1>2, ChangeTypeOK DEF SignOnDemand, holderVars, TypeOK
<1>3. ASSUME NEW i \in Indices, NEW outcome \in Outcomes, RevokeCredential(i, outcome)
      PROVE  TypeOK'
  BY <1>3, ChangeTypeOK DEF RevokeCredential, holderVars, TypeOK
<1>4. ASSUME NEW i \in Indices, NEW outcome \in Outcomes, RecoveryCredential(i, outcome)
      PROVE  TypeOK'
  BY <1>4, ChangeTypeOK DEF RecoveryCredential, holderVars, TypeOK
<1>5. ASSUME NEW h \in Holders, TakeInitialDelta(h)
      PROVE  TypeOK'
  <2>1. FromParts(None, InitialAccum, {}, {}) \in Delta
    BY PointOperations DEF FromParts, Delta
  <2>2. QED
    BY <1>5, <2>1 DEF TakeInitialDelta, issuerVars, TypeOK
<1>6. ASSUME NEW h \in Holders, NEW n \in DOMAIN ledger, TakeDelta(h, n)
      PROVE  TypeOK'
  BY <1>6 DEF TakeDelta, issuerVars, TypeOK
<1>7. ASSUME NEW h \in Holders, NEW n \in DOMAIN ledger, MergeDelta(h, n)
      PROVE  TypeOK'
  <2>1. Merge(pending[h], ledger[n]) \in Delta
    BY <1>7, MergeInDelta DEF MergeDelta, TypeOK
  <2>2. QED
    BY <1>7, <2>1 DEF MergeDelta, issuerVars, TypeOK
<1>8. ASSUME NEW h \in Holders, NEW omega \in Point, NEW delta \in Delta,
             InstallWitness(h, omega, delta)
      PROVE  TypeOK'
  BY <1>8 DEF InstallWitness, issuerVars, TypeOK, Delta
<1>9. ASSUME NEW h \in Holders, NEW flag \in BOOLEAN, NEW outcome \in Outcomes,
             NewWitness(h, flag, outcome)
      PROVE  TypeOK'
  BY <1>8, <1>9, PointOperations DEF NewWitness, TypeOK, vars
<1>10. ASSUME NEW h \in Holders, NEW outcome \in Outcomes, UpdateWitness(h, outcome)
       PROVE  TypeOK'
  <2>1. pending[h] \in Delta /\ witness[h] \in Point
    BY <1>10 DEF UpdateWitness, TypeOK
  <2>2. \A p, q \in Point : Add(witness[h], Sub(p, q)) \in Point
    BY <2>1, PointOperations
  <2>3. QED
    BY <1>8, <1>10, <2>1, <2>2, PointOperations DEF UpdateWitness, TypeOK, vars
<1>11. CASE UNCHANGED vars
  BY <1>11 DEF vars, TypeOK
<1>12. QED
  BY <1>1, <1>2, <1>3, <1>4, <1>5, <1>6, <1>7, <1>9, <1>10, <1>11
     DEF Next, IssuerStep, HolderStep

(***************************************************************************)
(* Every variable keeps its type, whatever the application passes and      *)
(* whichever calls fail.                                                   *)
(***************************************************************************)
THEOREM TypeCorrect == Spec => []TypeOK
<1>1. QED
  BY InitTypeOK, NextTypeOK, PTL DEF Spec

-----------------------------------------------------------------------------
(***************************************************************************)
(* A witness vouches for no index but a live one, in every mode: no way of *)
(* calling Witness::new and Witness::update brings the tail                *)
(* max_cred_num + 1 into omega, and without it the pairing equation needs  *)
(* the owner's own tail in the accumulator.                                *)
(***************************************************************************)
OwnTailUnused ==
  \A h \in Holders : witness[h] # None => witness[h][MaxCredNum + 1] = 0

\* No loop over the tails of others reaches the owner's own.
LEMMA OwnTailAvoided ==
  ASSUME NEW h \in Holders, NEW J \in SUBSET Indices
  PROVE  /\ TailSum(WitnessTails(J, h))[MaxCredNum + 1] = 0
         /\ MaxCredNum + 1 \in TailIds
<1>1. \A j \in J \ {h} : WitnessIndex(j, h) # MaxCredNum + 1
  BY MaxCredNumAssumption, U32Assumption, IndicesAssumption, HoldersAssumption
     DEF WitnessIndex, WrapSub, WrapAdd, Valid
<1>2. MaxCredNum + 1 \in TailIds
  BY MaxCredNumAssumption DEF TailIds
<1>3. QED
  BY <1>1, <1>2 DEF TailSum, WitnessTails

\* Every step keeps the own tail out of every witness.
LEMMA OwnTailStep == TypeOK /\ OwnTailUnused /\ [Next]_vars => OwnTailUnused'
<1> SUFFICES ASSUME TypeOK, OwnTailUnused, [Next]_vars
             PROVE  OwnTailUnused'
  OBVIOUS
<1>1. ASSUME UNCHANGED witness
      PROVE  OwnTailUnused'
  BY <1>1 DEF OwnTailUnused
<1>2. ASSUME NEW h \in Holders, NEW omega \in Point, NEW delta,
             omega[MaxCredNum + 1] = 0, InstallWitness(h, omega, delta)
      PROVE  OwnTailUnused'
  BY <1>2 DEF InstallWitness, OwnTailUnused, TypeOK
<1>3. ASSUME NEW h \in Holders, NEW flag \in BOOLEAN, NEW outcome \in Outcomes,
             NewWitness(h, flag, outcome)
      PROVE  OwnTailUnused'
  <2>1. pending[h] \in Delta
    BY <1>3 DEF NewWitness, TypeOK
  <2>2. IssuedIn(pending[h], flag) \subseteq Indices
    BY <2>1, IndicesAssumption DEF IssuedIn, Delta
  <2>3. QED
    BY <1>1, <1>2, <1>3, <2>2, OwnTailAvoided, PointOperations DEF NewWitness, vars
<1>4. ASSUME NEW h \in Holders, NEW outcome \in Outcomes, UpdateWitness(h, outcome)
      PROVE  OwnTailUnused'
  <2> DEFINE num == TailSum(WitnessTails(pending[h].issued, h))
             denom == TailSum(WitnessTails(pending[h].revoked, h))
             omega == Add(witness[h], Sub(num, denom))
  <2>1. pending[h] \in Delta /\ witness[h] \in Point /\ witness[h] # None
    BY <1>4 DEF UpdateWitness, TypeOK
  <2>2. num[MaxCredNum + 1] = 0 /\ denom[MaxCredNum + 1] = 0 /\ MaxCredNum + 1 \in TailIds
    BY <2>1, OwnTailAvoided DEF Delta
  <2>3. omega \in Point
    BY <2>1, PointOperations
  <2>4. omega[MaxCredNum + 1] = 0
    BY <2>1, <2>2 DEF OwnTailUnused, Add, Sub
  <2>5. UNCHANGED witness \/ InstallWitness(h, omega, pending[h])
    BY <1>4 DEF UpdateWitness, vars
  <2>6. QED
    BY <1>1, <1>2, <2>3, <2>4, <2>5
<1>5. QED
  BY <1>1, <1>3, <1>4
     DEF Next, IssuerStep, HolderStep, SignByDefault, SignOnDemand, RevokeCredential,
         RecoveryCredential, TakeInitialDelta, TakeDelta, MergeDelta, holderVars, vars

\* The pairing equation at the exponent max_cred_num + 1.
LEMMA WitnessEquation ==
  ASSUME NEW h \in Int, NEW p, NEW omega, WitnessHolds(h, p, omega)
  PROVE  Coefficient(p, MaxCredNum + 1 - h) - Coefficient(omega, MaxCredNum + 1) = 1
<1> DEFINE top == MaxCredNum + 1
<1>1. top \in 0 .. 3 * MaxCredNum
  BY MaxCredNumAssumption
<1>2. \A k \in 0 .. 3 * MaxCredNum :
        k = top => Coefficient(p, k - h) - Coefficient(omega, k) = 1
  BY DEF WitnessHolds
<1> HIDE DEF top
<1>3. Coefficient(p, top - h) - Coefficient(omega, top) = 1
  BY <1>1, <1>2
<1>4. QED
  BY <1>3, MaxCredNumAssumption DEF top

\* The pairing equation at the owner's tail needs its index in the accumulator.
LEMMA OwnTailSound == TypeOK /\ OwnTailUnused => WitnessSound
<1> SUFFICES ASSUME TypeOK, OwnTailUnused,
                    NEW h \in Holders, NEW p \in Published \cup {accum},
                    witness[h] # None, WitnessHolds(h, p, witness[h])
             PROVE  h \in LiveIn(p)
  BY DEF WitnessSound
<1>1. /\ h \in Valid /\ h \in Int /\ MaxCredNum + 1 \in TailIds
      /\ MaxCredNum + 1 - h = GetIndex(h) /\ GetIndex(h) \in TailIds
  BY HoldersAssumption, MaxCredNumAssumption, IndexWithinTails DEF TailIds, Valid
<1>2. Coefficient(p, GetIndex(h)) - Coefficient(witness[h], MaxCredNum + 1) = 1
  BY <1>1, WitnessEquation
<1>3. p \in Point
  <2>1. \A n \in DOMAIN ledger : ledger[n] \in Delta
    BY DEF TypeOK
  <2>2. \A d \in Delta : d.accum \in Point
    BY DEF Delta
  <2>3. QED
    BY <2>1, <2>2, PointOperations DEF Published, TypeOK
<1>4. p[GetIndex(h)] - witness[h][MaxCredNum + 1] = 1
  BY <1>1, <1>2 DEF Coefficient
<1>5. p[GetIndex(h)] = 1
  BY <1>1, <1>3, <1>4 DEF OwnTailUnused, Point
<1>6. QED
  BY <1>1, <1>5 DEF LiveIn

(***************************************************************************)
(* A witness satisfies the pairing equation only against an accumulator    *)
(* that holds its owner's index exactly once, for every capacity, every    *)
(* application and every failure.                                          *)
(***************************************************************************)
THEOREM WitnessSoundness == Spec => []WitnessSound
<1>1. Init => OwnTailUnused
  BY DEF Init, OwnTailUnused
<1>2. QED
  BY <1>1, OwnTailStep, OwnTailSound, TypeCorrect, PTL DEF Spec

-----------------------------------------------------------------------------
(***************************************************************************)
(* A careful application, and no call that fails after its closure ran.    *)
(* The inductive invariant says of the accumulator which indexes it holds, *)
(* of every delta which difference it records and of every witness which   *)
(* tails it sums: none of the three is inductive without the others.       *)
(***************************************************************************)
Protocol == Careful /\ "late_failed" \notin Outcomes

WitnessHasRegistry == \A h \in Holders : witness[h] # None => reg[h] # None

RegistryInv ==
  /\ TypeOK
  /\ WitnessHasRegistry
  /\ book \subseteq Valid
  /\ AccumIsBook
  /\ DeltasFaithful
  /\ WitnessFaithful

\* A new registry has the accumulator of its initial indexes.
LEMMA InitialAccumFaithful ==
  /\ InitialIndices \subseteq Valid
  /\ LiveIn(InitialAccum) = InitialIndices
  /\ InitialAccum = AccumulatorOf(LiveIn(InitialAccum))
BY LiveInAccumulator DEF InitialIndices, InitialAccum

\* A new registry satisfies the invariant.
LEMMA InitRegistryInv == Init => RegistryInv
<1> SUFFICES ASSUME Init PROVE RegistryInv
  OBVIOUS
<1>1. TypeOK
  BY InitTypeOK
<1>2. book \subseteq Valid /\ AccumIsBook
  BY InitialAccumFaithful DEF Init, AccumIsBook, InitialAccum
<1>3. DeltasFaithful
  BY DEF Init, DeltasFaithful
<1>4. WitnessFaithful /\ WitnessHasRegistry
  BY DEF Init, WitnessFaithful, WitnessHasRegistry
<1>5. QED
  BY <1>1, <1>2, <1>3, <1>4 DEF RegistryInv

\* The delta of a call that takes the accumulator of one set of indexes to
\* that of another says what differs between the sets.
LEMMA NewDeltaFaithful ==
  ASSUME NEW S \in SUBSET Valid, NEW T \in SUBSET Valid
  PROVE  DeltaFaithful(FromParts(AccumulatorOf(S), AccumulatorOf(T), T \ S, S \ T),
                       InitialAccum)
<1>1. AccumulatorOf(S) # None
  BY NoneAssumption, PointOperations DEF AccumulatorOf
<1>2. QED
  BY <1>1, LiveInAccumulator DEF DeltaFaithful, FromParts, StartOf

\* The kind of the registry never changes, and with it the accumulator the
\* registry was created with.
LEMMA CreatedUnchanged ==
  ASSUME UNCHANGED byDefault
  PROVE  InitialAccum' = InitialAccum
BY DEF InitialAccum, InitialIndices

\* An issuer's call either changes no registry or moves the accumulator,
\* the book and the ledger together from S to T.
LEMMA IssuerStepFaithful ==
  ASSUME RegistryInv, NEW T \in SUBSET Valid,
         accum' = AccumulatorOf(T), book' = T,
         ledger' = Append(ledger, FromParts(accum, accum', T \ book, book \ T)),
         UNCHANGED <<byDefault, holderVars>>
  PROVE  AccumIsBook' /\ DeltasFaithful' /\ WitnessFaithful'
<1> DEFINE delta == FromParts(accum, accum', T \ book, book \ T)
<1>1. DeltaFaithful(delta, InitialAccum)
  BY NewDeltaFaithful DEF RegistryInv, AccumIsBook
<1>2. ASSUME NEW n \in DOMAIN ledger'
      PROVE  DeltaFaithful(ledger'[n], InitialAccum)
  <2>1. ledger'[n] = delta \/ (n \in DOMAIN ledger /\ ledger'[n] = ledger[n])
    <3> HIDE DEF delta
    <3>1. ledger \in Seq(Delta) /\ ledger' = Append(ledger, delta)
      BY DEF RegistryInv, TypeOK, delta
    <3>2. QED
      BY <3>1
  <2>2. QED
    BY <1>1, <2>1 DEF RegistryInv, DeltasFaithful
<1>3. DeltasFaithful'
  BY CreatedUnchanged, <1>2 DEF DeltasFaithful, RegistryInv, holderVars
<1>4. WitnessFaithful'
  BY DEF WitnessFaithful, RegistryInv, holderVars
<1>5. QED
  BY <1>3, <1>4 DEF AccumIsBook

\* An index that is added when free, or removed when in use, leaves everything exact.
LEMMA ChangeFaithful ==
  ASSUME Protocol, RegistryInv, NEW i \in Indices, NEW outcome \in Outcomes,
         UNCHANGED <<byDefault, holderVars>>
  PROVE  /\ i \notin book /\ ChangeAccumulator(i, outcome, WithTail(i), {i}, {}) =>
              book' \subseteq Valid /\ AccumIsBook' /\ DeltasFaithful' /\ WitnessFaithful'
         /\ i \in book /\ ChangeAccumulator(i, outcome, WithoutTail(i), {}, {i}) =>
              book' \subseteq Valid /\ AccumIsBook' /\ DeltasFaithful' /\ WitnessFaithful'
<1> DEFINE k == GetIndex(i)
<1>1. i \in Valid /\ book \subseteq Valid /\ accum = AccumulatorOf(book)
  BY IndicesAssumption DEF Protocol, RegistryInv, AccumIsBook
<1>2. AccessOk(k, outcome) <=> ClosureRan(k, outcome)
  BY OutcomesAssumption DEF Protocol, AccessOk, ClosureRan
<1>3. ASSUME UNCHANGED <<accum, book, ledger>>
      PROVE  book' \subseteq Valid /\ AccumIsBook' /\ DeltasFaithful' /\ WitnessFaithful'
  BY CreatedUnchanged, <1>3 DEF RegistryInv, AccumIsBook, DeltasFaithful, WitnessFaithful, holderVars
<1>4. ASSUME i \notin book, ChangeAccumulator(i, outcome, WithTail(i), {i}, {})
      PROVE  book' \subseteq Valid /\ AccumIsBook' /\ DeltasFaithful' /\ WitnessFaithful'
  <2> DEFINE T == book \cup {i}
  <2>1. Add(accum, NewTail(k)) = AccumulatorOf(T)
    BY <1>1, <1>4, AccumulatorStep
  <2>2. T \in SUBSET Valid /\ T \ book = {i} /\ book \ T = {}
    BY <1>1, <1>4
  <2>3. CASE AccessOk(k, outcome)
    <3>1. /\ accum' = AccumulatorOf(T)
          /\ book' = T
          /\ ledger' = Append(ledger, FromParts(accum, accum', T \ book, book \ T))
      BY <1>2, <1>4, <2>1, <2>2, <2>3 DEF ChangeAccumulator, WithTail, WithoutTail
    <3> HIDE DEF T
    <3>2. QED
      BY <2>2, <3>1, IssuerStepFaithful
  <2>4. CASE ~AccessOk(k, outcome)
    BY <1>2, <1>3, <1>4, <2>4 DEF ChangeAccumulator, WithTail, WithoutTail
  <2>5. QED
    BY <2>3, <2>4
<1>5. ASSUME i \in book, ChangeAccumulator(i, outcome, WithoutTail(i), {}, {i})
      PROVE  book' \subseteq Valid /\ AccumIsBook' /\ DeltasFaithful' /\ WitnessFaithful'
  <2> DEFINE T == book \ {i}
  <2>1. Sub(accum, NewTail(k)) = AccumulatorOf(T)
    BY <1>1, <1>5, AccumulatorStep
  <2>2. T \in SUBSET Valid /\ T \ book = {} /\ book \ T = {i}
    BY <1>1, <1>5
  <2>3. CASE AccessOk(k, outcome)
    <3>1. /\ accum' = AccumulatorOf(T)
          /\ book' = T
          /\ ledger' = Append(ledger, FromParts(accum, accum', T \ book, book \ T))
      BY <1>2, <1>5, <2>1, <2>2, <2>3 DEF ChangeAccumulator, WithTail, WithoutTail
    <3> HIDE DEF T
    <3>2. QED
      BY <2>2, <3>1, IssuerStepFaithful
  <2>4. CASE ~AccessOk(k, outcome)
    BY <1>2, <1>3, <1>5, <2>4 DEF ChangeAccumulator, WithTail, WithoutTail
  <2>5. QED
    BY <2>3, <2>4
<1>6. QED
  BY <1>4, <1>5

\* A holder who installs the witness of the registry its delta ends at.
LEMMA InstallFaithful ==
  ASSUME RegistryInv, NEW h \in Holders, NEW omega, NEW delta \in Delta,
         DeltaFaithful(delta, InitialAccum), InstallWitness(h, omega, delta),
         omega = TailSum(WitnessTails(LiveIn(delta.accum), h))
  PROVE  DeltasFaithful' /\ WitnessFaithful'
<1>1. DeltasFaithful'
  <2>1. \A g \in Holders : pending'[g] \in {None, pending[g]}
    BY DEF InstallWitness, RegistryInv, TypeOK
  <2>2. QED
    BY CreatedUnchanged, <2>1 DEF InstallWitness, issuerVars, RegistryInv, DeltasFaithful
<1>2. ASSUME NEW g \in Holders, reg'[g] # None
      PROVE  /\ reg'[g] = AccumulatorOf(LiveIn(reg'[g]))
             /\ witness'[g] = TailSum(WitnessTails(LiveIn(reg'[g]), g))
  <2>1. CASE g = h
    <3>1. reg'[g] = delta.accum /\ witness'[g] = omega
      BY <2>1 DEF InstallWitness, RegistryInv, TypeOK
    <3>2. QED
      BY <2>1, <3>1 DEF DeltaFaithful
  <2>2. CASE g # h
    <3>1. reg'[g] = reg[g] /\ witness'[g] = witness[g]
      BY <2>2 DEF InstallWitness, RegistryInv, TypeOK
    <3>2. QED
      BY <1>2, <3>1 DEF RegistryInv, WitnessFaithful
  <2>3. QED
    BY <2>1, <2>2
<1>3. WitnessFaithful'
  BY <1>2 DEF WitnessFaithful
<1>4. QED
  BY <1>1, <1>3

\* A delta taken up or merged by one holder leaves the rest as it was.
LEMMA PendingFaithful ==
  ASSUME RegistryInv, NEW h \in Holders, NEW delta \in Delta, DeltaFaithful(delta, InitialAccum),
         pending' = [pending EXCEPT ![h] = delta],
         UNCHANGED <<issuerVars, reg, witness>>
  PROVE  DeltasFaithful' /\ WitnessFaithful'
<1>1. \A g \in Holders : pending'[g] = IF g = h THEN delta ELSE pending[g]
  BY DEF RegistryInv, TypeOK
<1>2. QED
  BY CreatedUnchanged, <1>1 DEF RegistryInv, DeltasFaithful, WitnessFaithful, issuerVars

\* What holders read, merge and compute stays exact.
LEMMA HolderStepFaithful ==
  ASSUME Protocol, RegistryInv, HolderStep
  PROVE  DeltasFaithful' /\ WitnessFaithful'
<1>1. ASSUME UNCHANGED vars
      PROVE  DeltasFaithful' /\ WitnessFaithful'
  BY CreatedUnchanged, <1>1 DEF vars, RegistryInv, DeltasFaithful, WitnessFaithful
<1>2. ASSUME NEW h \in Holders, TakeInitialDelta(h)
      PROVE  DeltasFaithful' /\ WitnessFaithful'
  <2> DEFINE delta == FromParts(None, InitialAccum, {}, {})
  <2>1. delta \in Delta
    BY PointOperations DEF FromParts, Delta
  <2>2. DeltaFaithful(delta, InitialAccum)
    BY InitialAccumFaithful DEF DeltaFaithful, StartOf, FromParts
  <2> HIDE DEF delta
  <2>3. pending' = [pending EXCEPT ![h] = delta] /\ UNCHANGED <<issuerVars, reg, witness>>
    BY <1>2 DEF TakeInitialDelta, delta
  <2>4. QED
    BY <2>1, <2>2, <2>3, PendingFaithful
<1>3. ASSUME NEW h \in Holders, NEW n \in DOMAIN ledger, TakeDelta(h, n)
      PROVE  DeltasFaithful' /\ WitnessFaithful'
  <2>1. ledger[n] \in Delta
    BY DEF RegistryInv, TypeOK
  <2>2. DeltaFaithful(ledger[n], InitialAccum)
    BY DEF RegistryInv, DeltasFaithful
  <2>3. QED
    BY <1>3, <2>1, <2>2, PendingFaithful DEF TakeDelta
<1>4. ASSUME NEW h \in Holders, NEW n \in DOMAIN ledger, MergeDelta(h, n)
      PROVE  DeltasFaithful' /\ WitnessFaithful'
  <2>1. /\ ledger[n] \in Delta
        /\ pending[h] \in Delta
        /\ CanMerge(pending[h], ledger[n])
    BY <1>4 DEF MergeDelta, RegistryInv, TypeOK
  <2>2. DeltaFaithful(ledger[n], InitialAccum) /\ DeltaFaithful(pending[h], InitialAccum)
    BY <1>4 DEF MergeDelta, RegistryInv, DeltasFaithful
  <2>3. /\ Merge(pending[h], ledger[n]) \in Delta
        /\ DeltaFaithful(Merge(pending[h], ledger[n]), InitialAccum)
    BY <2>1, <2>2, MergeFaithful
  <2>4. QED
    BY <1>4, <2>3, PendingFaithful DEF MergeDelta
<1>5. ASSUME NEW h \in Holders, NEW flag \in BOOLEAN, NEW outcome \in Outcomes,
             NewWitness(h, flag, outcome)
      PROVE  DeltasFaithful' /\ WitnessFaithful'
  <2> DEFINE delta == pending[h]
  <2>1. delta \in Delta /\ DeltaFaithful(delta, InitialAccum) /\ FullHistory(delta)
    BY <1>5 DEF NewWitness, Protocol, RegistryInv, TypeOK, DeltasFaithful
  <2>2. LiveIn(StartOf(delta, InitialAccum)) = InitialIndices
    BY <2>1, InitialAccumFaithful DEF FullHistory, StartOf
  <2>3. IssuedIn(delta, flag) = LiveIn(delta.accum)
    BY <1>5, <2>1, <2>2 DEF NewWitness, Protocol, IssuedIn, DeltaFaithful, InitialIndices, LiveIn
  <2>4. UNCHANGED vars
          \/ InstallWitness(h, TailSum(WitnessTails(LiveIn(delta.accum), h)), delta)
    BY <1>5, <2>3 DEF NewWitness
  <2> HIDE DEF delta
  <2>5. QED
    BY <1>1, <2>1, <2>4, InstallFaithful
<1>6. ASSUME NEW h \in Holders, NEW outcome \in Outcomes, UpdateWitness(h, outcome)
      PROVE  DeltasFaithful' /\ WitnessFaithful'
  <2> DEFINE delta == pending[h]
             S == LiveIn(reg[h])
             T == LiveIn(delta.accum)
             omega == Add(witness[h], Sub(TailSum(WitnessTails(delta.issued, h)),
                                          TailSum(WitnessTails(delta.revoked, h))))
  <2>1. /\ delta \in Delta /\ DeltaFaithful(delta, InitialAccum)
        /\ witness[h] # None /\ delta.prev = reg[h]
    BY <1>6 DEF UpdateWitness, Protocol, RegistryInv, TypeOK, DeltasFaithful
  <2>2. reg[h] # None
    BY <2>1 DEF RegistryInv, WitnessHasRegistry
  <2>3. /\ witness[h] = TailSum(WitnessTails(S, h))
        /\ delta.issued = T \ S /\ delta.revoked = S \ T
    BY <2>1, <2>2 DEF RegistryInv, WitnessFaithful, DeltaFaithful, StartOf
  <2>4. h \in Valid /\ S \in SUBSET Valid /\ T \in SUBSET Valid
    BY HoldersAssumption DEF LiveIn
  <2>5. omega = TailSum(WitnessTails(T, h))
    <3> HIDE DEF S, T
    <3>1. QED
      BY <2>3, <2>4, WitnessUpdate
  <2>6. UNCHANGED vars \/ InstallWitness(h, omega, delta)
    BY <1>6 DEF UpdateWitness
  <2> HIDE DEF delta, omega
  <2>7. QED
    BY <1>1, <2>1, <2>5, <2>6, InstallFaithful DEF T
<1>7. QED
  BY <1>2, <1>3, <1>4, <1>5, <1>6 DEF HolderStep

\* Holders leave the issuer's registry alone.
LEMMA HolderStepRegistry ==
  ASSUME RegistryInv, HolderStep
  PROVE  WitnessHasRegistry' /\ UNCHANGED <<accum, book, ledger>> 
<1>1. ASSUME UNCHANGED <<issuerVars, reg, witness>>
      PROVE  WitnessHasRegistry' /\ UNCHANGED <<accum, book, ledger>>
  BY <1>1 DEF issuerVars, RegistryInv, WitnessHasRegistry
<1>2. ASSUME NEW h \in Holders, NEW omega, InstallWitness(h, omega, pending[h]),
             pending[h] # None
      PROVE  WitnessHasRegistry' /\ UNCHANGED <<accum, book, ledger>>
  <2>1. pending[h].accum # None
    BY <1>2, NoneAssumption DEF RegistryInv, TypeOK, Delta
  <2>2. QED
    BY <1>2, <2>1 DEF InstallWitness, issuerVars, RegistryInv, TypeOK, WitnessHasRegistry
<1>3. QED
  BY <1>1, <1>2
     DEF HolderStep, TakeInitialDelta, TakeDelta, MergeDelta, NewWitness, UpdateWitness,
         vars, issuerVars

\* Every step of a careful application keeps the invariant.
LEMMA RegistryInvStep == Protocol /\ RegistryInv /\ [Next]_vars => RegistryInv'
<1> SUFFICES ASSUME Protocol, RegistryInv, [Next]_vars
             PROVE  RegistryInv'
  OBVIOUS
<1>1. TypeOK'
  BY NextTypeOK DEF RegistryInv
<1>2. CASE HolderStep
  BY <1>1, <1>2, HolderStepFaithful, HolderStepRegistry DEF RegistryInv, AccumIsBook
<1>3. CASE IssuerStep
  <2>1. WitnessHasRegistry' /\ UNCHANGED <<byDefault, holderVars>>
    BY <1>3
       DEF IssuerStep, SignByDefault, SignOnDemand, RevokeCredential, RecoveryCredential,
           RegistryInv, WitnessHasRegistry, holderVars
  <2>2. ASSUME NEW i \in Indices, SignByDefault(i)
        PROVE  book' \subseteq Valid /\ AccumIsBook' /\ DeltasFaithful' /\ WitnessFaithful'
    BY CreatedUnchanged, <2>2 DEF SignByDefault, holderVars, RegistryInv, AccumIsBook, DeltasFaithful,
                WitnessFaithful
  <2>3. ASSUME NEW i \in Indices, NEW outcome \in Outcomes, SignOnDemand(i, outcome)
        PROVE  book' \subseteq Valid /\ AccumIsBook' /\ DeltasFaithful' /\ WitnessFaithful'
    BY <2>1, <2>3, ChangeFaithful DEF SignOnDemand, Protocol
  <2>4. ASSUME NEW i \in Indices, NEW outcome \in Outcomes, RevokeCredential(i, outcome)
        PROVE  book' \subseteq Valid /\ AccumIsBook' /\ DeltasFaithful' /\ WitnessFaithful'
    BY <2>1, <2>4, ChangeFaithful DEF RevokeCredential, Protocol
  <2>5. ASSUME NEW i \in Indices, NEW outcome \in Outcomes, RecoveryCredential(i, outcome)
        PROVE  book' \subseteq Valid /\ AccumIsBook' /\ DeltasFaithful' /\ WitnessFaithful'
    BY <2>1, <2>5, ChangeFaithful DEF RecoveryCredential, Protocol
  <2>6. QED
    BY <1>1, <1>3, <2>1, <2>2, <2>3, <2>4, <2>5 DEF IssuerStep, RegistryInv
<1>4. CASE UNCHANGED vars
  BY CreatedUnchanged, <1>1, <1>4
     DEF vars, RegistryInv, WitnessHasRegistry, AccumIsBook, DeltasFaithful, WitnessFaithful
<1>5. QED
  BY <1>2, <1>3, <1>4 DEF Next

\* The published accumulators are accumulators of sets of indexes.
LEMMA PublishedFaithful ==
  ASSUME RegistryInv, NEW p \in Published
  PROVE  p \in Point /\ p = AccumulatorOf(LiveIn(p))
<1>1. CASE p = InitialAccum
  BY <1>1, InitialAccumFaithful, PointOperations
<1>2. ASSUME NEW n \in DOMAIN ledger, p = ledger[n].accum
      PROVE  p \in Point /\ p = AccumulatorOf(LiveIn(p))
  <2>1. ledger[n] \in Delta /\ DeltaFaithful(ledger[n], InitialAccum)
    BY DEF RegistryInv, TypeOK, DeltasFaithful
  <2>2. QED
    BY <1>2, <2>1 DEF Delta, DeltaFaithful
<1>3. QED
  BY <1>1, <1>2 DEF Published

\* The invariant decides the pairing equation.
LEMMA RegistryInvAccepts == RegistryInv => AcceptedIffListed
<1> SUFFICES ASSUME RegistryInv, NEW h \in Holders, NEW p \in Published
             PROVE  Accepted(h, p) <=> reg[h] = p /\ h \in LiveIn(p)
  BY DEF AcceptedIffListed
<1>1. p # None /\ p = AccumulatorOf(LiveIn(p))
  BY PublishedFaithful, NoneAssumption
<1>2. ASSUME reg[h] = p
      PROVE  Accepted(h, p) <=> h \in LiveIn(p)
  <2>1. witness[h] = TailSum(WitnessTails(LiveIn(p), h))
    BY <1>1, <1>2 DEF RegistryInv, WitnessFaithful
  <2>2. witness[h] # None
    BY <2>1, PointOperations, NoneAssumption
  <2>3. WitnessHolds(h, AccumulatorOf(LiveIn(p)), TailSum(WitnessTails(LiveIn(p), h)))
          <=> h \in LiveIn(p)
    BY HoldersAssumption, WitnessHoldsIffMember DEF LiveIn
  <2>4. QED
    BY <1>1, <1>2, <2>1, <2>2, <2>3 DEF Accepted
<1>3. QED
  BY <1>2 DEF Accepted

\* The invariant holds of a registry that is used carefully.
LEMMA RegistryInvariant == Protocol => (Spec => []RegistryInv)
<1> SUFFICES ASSUME Protocol  PROVE Spec => []RegistryInv  OBVIOUS
<1>1. RegistryInv /\ [Next]_vars => RegistryInv'  BY RegistryInvStep
<1>2. QED
  BY <1>1, InitRegistryInv, PTL DEF Spec

(***************************************************************************)
(* With a careful application, for every capacity, any holders and both    *)
(* kinds of issuance, the issuer's accumulator is the sum of the tails of  *)
(* the indexes in use.                                                     *)
(***************************************************************************)
THEOREM AccumulatorIsBook == Protocol => (Spec => []AccumIsBook)
<1> SUFFICES ASSUME Protocol  PROVE Spec => []AccumIsBook  OBVIOUS
<1>1. RegistryInv => AccumIsBook  BY DEF RegistryInv
<1>2. QED
  BY <1>1, RegistryInvariant, PTL

(***************************************************************************)
(* Every delta that is published, and every one a holder has merged in any *)
(* order merge accepts, says exactly how the two accumulators it lies      *)
(* between differ.                                                         *)
(***************************************************************************)
THEOREM DeltasExact == Protocol => (Spec => []DeltasFaithful)
<1> SUFFICES ASSUME Protocol  PROVE Spec => []DeltasFaithful  OBVIOUS
<1>1. RegistryInv => DeltasFaithful  BY DEF RegistryInv
<1>2. QED
  BY <1>1, RegistryInvariant, PTL

(***************************************************************************)
(* Every witness, new or updated by any deltas, is that of the registry    *)
(* its holder has synchronised with.                                       *)
(***************************************************************************)
THEOREM WitnessesExact == Protocol => (Spec => []WitnessFaithful)
<1> SUFFICES ASSUME Protocol  PROVE Spec => []WitnessFaithful  OBVIOUS
<1>1. RegistryInv => WitnessFaithful  BY DEF RegistryInv
<1>2. QED
  BY <1>1, RegistryInvariant, PTL

(***************************************************************************)
(* A proof of non-revocation verifies against a published registry if and  *)
(* only if the holder synchronised with it and its index is in use there.  *)
(***************************************************************************)
THEOREM RevocationCorrect == Protocol => (Spec => []AcceptedIffListed)
<1> SUFFICES ASSUME Protocol
             PROVE  Spec => []AcceptedIffListed
  OBVIOUS
<1>1. QED
  BY RegistryInvAccepts, RegistryInvariant, PTL
-----------------------------------------------------------------------------
(***************************************************************************)
(* The deltas the issuer returns form a chain: the accumulator a call      *)
(* starts from is the one the last delta ends at, provided that no call    *)
(* changes it and fails.  A careful application is not needed.             *)
(***************************************************************************)
LedgerEnd == accum = IF ledger = <<>> THEN InitialAccum ELSE ledger[Len(ledger)].accum

LedgerInv == TypeOK /\ LedgerChained /\ LedgerEnd

\* A call that changes the accumulator publishes both of its ends.
LEMMA ChangeChained ==
  ASSUME LedgerInv, "late_failed" \notin Outcomes, NEW i \in Indices, NEW outcome \in Outcomes,
         NEW changed, NEW issued, NEW revoked, UNCHANGED byDefault,
         ChangeAccumulator(i, outcome, changed, issued, revoked)
  PROVE  LedgerChained' /\ LedgerEnd'
<1>1. AccessOk(GetIndex(i), outcome) <=> ClosureRan(GetIndex(i), outcome)
  BY OutcomesAssumption DEF AccessOk, ClosureRan
<1>2. CASE ~AccessOk(GetIndex(i), outcome)
  BY <1>1, <1>2, CreatedUnchanged DEF ChangeAccumulator, LedgerInv, LedgerChained, LedgerEnd
<1>3. CASE AccessOk(GetIndex(i), outcome)
  <2> DEFINE delta == FromParts(accum, changed, issued, revoked)
  <2>1. delta.prev = accum /\ delta.accum = changed
    BY DEF FromParts
  <2>2. accum' = changed /\ ledger' = Append(ledger, delta)
    BY <1>1, <1>3 DEF ChangeAccumulator
  <2> HIDE DEF delta
  <2>3. /\ Len(ledger') = Len(ledger) + 1 /\ Len(ledger) \in Nat
        /\ DOMAIN ledger' = 1 .. Len(ledger) + 1 /\ DOMAIN ledger = 1 .. Len(ledger)
        /\ ledger'[Len(ledger) + 1] = delta
        /\ \A n \in 1 .. Len(ledger) : ledger'[n] = ledger[n]
    BY <2>2 DEF LedgerInv, TypeOK
  <2>4. LedgerEnd'
    BY <2>1, <2>2, <2>3 DEF LedgerEnd
  <2>5. delta.prev = IF ledger = <<>> THEN InitialAccum ELSE ledger[Len(ledger)].accum
    BY <2>1 DEF LedgerInv, LedgerEnd
  <2>6. ASSUME NEW n \in DOMAIN ledger'
        PROVE  ledger'[n].prev = IF n = 1 THEN InitialAccum ELSE ledger'[n - 1].accum
    <3>1. CASE n \in DOMAIN ledger
      BY <2>3, <3>1 DEF LedgerInv, LedgerChained
    <3>2. CASE n = Len(ledger) + 1 /\ ledger = <<>>
      BY <2>3, <2>5, <3>2
    <3>3. CASE n = Len(ledger) + 1 /\ ledger # <<>>
      <4>1. Len(ledger) \in 1 .. Len(ledger)
        BY <2>3, <3>3
      <4> QED
        BY <2>3, <2>5, <3>3, <4>1
    <3> QED
      BY <2>3, <3>1, <3>2, <3>3
  <2> QED
    BY <2>4, <2>6, CreatedUnchanged DEF LedgerChained
<1> QED
  BY <1>2, <1>3

(***************************************************************************)
(* Every delta starts where the one before it ends, for every application: *)
(* a holder that is behind finds one that merge accepts.                   *)
(***************************************************************************)
THEOREM LedgerHasNoGaps == "late_failed" \notin Outcomes => (Spec => []LedgerChained)
<1> SUFFICES ASSUME "late_failed" \notin Outcomes
             PROVE  Spec => []LedgerChained
  OBVIOUS
<1>1. Init => LedgerInv
  BY InitTypeOK DEF Init, LedgerInv, LedgerChained, LedgerEnd, InitialAccum
<1>2. LedgerInv /\ [Next]_vars => LedgerInv'
  <2> SUFFICES ASSUME LedgerInv, [Next]_vars
               PROVE  LedgerInv'
    OBVIOUS
  <2>1. TypeOK'
    BY NextTypeOK DEF LedgerInv
  <2>2. ASSUME UNCHANGED <<byDefault, accum, ledger>>
        PROVE  LedgerChained' /\ LedgerEnd'
    BY <2>2, CreatedUnchanged DEF LedgerInv, LedgerChained, LedgerEnd
  <2>3. CASE HolderStep \/ UNCHANGED vars
    <3>1. UNCHANGED <<byDefault, accum, ledger>>
      BY <2>3
         DEF HolderStep, TakeInitialDelta, TakeDelta, MergeDelta, NewWitness, UpdateWitness,
             InstallWitness, issuerVars, vars
    <3> QED
      BY <2>1, <2>2, <3>1 DEF LedgerInv
  <2>4. ASSUME NEW i \in Indices, SignByDefault(i)
        PROVE  LedgerChained' /\ LedgerEnd'
    BY <2>2, <2>4 DEF SignByDefault
  <2>5. ASSUME NEW i \in Indices, NEW outcome \in Outcomes,
               SignOnDemand(i, outcome) \/ RevokeCredential(i, outcome)
                 \/ RecoveryCredential(i, outcome)
        PROVE  LedgerChained' /\ LedgerEnd'
    BY <2>5, ChangeChained DEF SignOnDemand, RevokeCredential, RecoveryCredential
  <2> QED
    BY <2>1, <2>3, <2>4, <2>5 DEF Next, IssuerStep, LedgerInv
<1>3. LedgerInv => LedgerChained
  BY DEF LedgerInv
<1> QED
  BY <1>1, <1>2, <1>3, PTL DEF Spec
-----------------------------------------------------------------------------
(***************************************************************************)
(* The refinement: a careful registry implements RevocationList.  The      *)
(* mapping reads the lists back out of accumulators, so it needs that      *)
(* every accumulator is one of a set of indexes (RegistryInv), and that    *)
(* what holders have in hand or present against was published.             *)
(***************************************************************************)
HoldersFollow ==
  \A h \in Holders :
    /\ reg[h] # None => reg[h] \in Published
    /\ pending[h] # None => pending[h].accum \in Published

ListInv == RegistryInv /\ HoldersFollow

\* The state of RevocationList that a state of the registry maps to.
Lists ==
  [n \in 1 .. Len(ledger) + 1 |->
     IF n = 1 THEN InitialIndices ELSE LiveIn(ledger[n - 1].accum)]

Views == [h \in Holders |-> IF reg[h] = None THEN None ELSE LiveIn(reg[h])]

\* A careful call of the issuer changes one index of the book, or nothing.
LEMMA IssuerStepEffect ==
  ASSUME Protocol, RegistryInv, IssuerStep
  PROVE  /\ UNCHANGED <<byDefault, holderVars>>
         /\ \/ UNCHANGED <<accum, book, ledger>>
            \/ \E i \in Valid, T \in SUBSET Valid :
                 /\ \/ i \notin book /\ T = book \cup {i}
                    \/ i \in book /\ T = book \ {i}
                 /\ accum' = AccumulatorOf(T)
                 /\ \E d \in Delta : d.accum = AccumulatorOf(T) /\ ledger' = Append(ledger, d)
<1>1. ASSUME NEW i \in Indices, NEW outcome \in Outcomes,
             NEW changed, NEW issued \in SUBSET Indices, NEW revoked \in SUBSET Indices,
             ChangeAccumulator(i, outcome, changed, issued, revoked),
             NEW T \in SUBSET Valid, changed = AccumulatorOf(T),
             \/ i \notin book /\ T = book \cup {i}
             \/ i \in book /\ T = book \ {i}
      PROVE  \/ UNCHANGED <<accum, book, ledger>>
             \/ \E j \in Valid, U \in SUBSET Valid :
                  /\ \/ j \notin book /\ U = book \cup {j}
                     \/ j \in book /\ U = book \ {j}
                  /\ accum' = AccumulatorOf(U)
                  /\ \E d \in Delta : d.accum = AccumulatorOf(U) /\ ledger' = Append(ledger, d)
  <2>1. AccessOk(GetIndex(i), outcome) <=> ClosureRan(GetIndex(i), outcome)
    BY OutcomesAssumption DEF Protocol, AccessOk, ClosureRan
  <2>2. CASE ~AccessOk(GetIndex(i), outcome)
    BY <1>1, <2>1, <2>2 DEF ChangeAccumulator
  <2>3. CASE AccessOk(GetIndex(i), outcome)
    <3>1. PICK d : d = FromParts(accum, changed, issued, revoked)
      OBVIOUS
    <3>2. changed \in Point /\ accum \in Point
      BY <1>1, PointOperations DEF AccumulatorOf, RegistryInv, TypeOK
    <3>3. d \in Delta /\ d.accum = changed
      BY <3>1, <3>2 DEF FromParts, Delta
    <3>4. ledger' = Append(ledger, d) /\ accum' = changed
      BY <1>1, <2>1, <2>3, <3>1 DEF ChangeAccumulator
    <3>5. i \in Valid
      BY IndicesAssumption DEF Protocol
    <3> QED
      BY <1>1, <3>3, <3>4, <3>5
  <2> QED
    BY <2>2, <2>3
<1>2. book \in SUBSET Valid /\ accum = AccumulatorOf(book) /\ Indices = Valid /\ Careful
  BY IndicesAssumption DEF Protocol, RegistryInv, AccumIsBook
<1>3. ASSUME NEW i \in Indices, i \notin book
      PROVE  WithTail(i) = AccumulatorOf(book \cup {i})
  BY <1>2, <1>3, AccumulatorStep DEF WithTail
<1>4. ASSUME NEW i \in Indices, i \in book
      PROVE  WithoutTail(i) = AccumulatorOf(book \ {i})
  BY <1>2, <1>4, AccumulatorStep DEF WithoutTail
<1>5. ASSUME NEW i \in Indices, SignByDefault(i)
      PROVE  UNCHANGED <<byDefault, holderVars>> /\ UNCHANGED <<accum, book, ledger>>
  BY <1>5 DEF SignByDefault
<1>6. ASSUME NEW i \in Indices, NEW outcome \in Outcomes,
             SignOnDemand(i, outcome) \/ RecoveryCredential(i, outcome)
      PROVE  /\ UNCHANGED <<byDefault, holderVars>>
             /\ i \notin book /\ ChangeAccumulator(i, outcome, WithTail(i), {i}, {})
  BY <1>2, <1>6 DEF SignOnDemand, RecoveryCredential
<1>7. ASSUME NEW i \in Indices, NEW outcome \in Outcomes, RevokeCredential(i, outcome)
      PROVE  /\ UNCHANGED <<byDefault, holderVars>>
             /\ i \in book /\ ChangeAccumulator(i, outcome, WithoutTail(i), {}, {i})
  BY <1>2, <1>7 DEF RevokeCredential
<1>8. CASE \E i \in Indices : SignByDefault(i)
  BY <1>5, <1>8
<1>9. CASE \E i \in Indices, outcome \in Outcomes :
             SignOnDemand(i, outcome) \/ RecoveryCredential(i, outcome)
  <2>1. PICK i \in Indices, outcome \in Outcomes :
          SignOnDemand(i, outcome) \/ RecoveryCredential(i, outcome)
    BY <1>9
  <2>2. book \cup {i} \in SUBSET Valid /\ {i} \in SUBSET Indices /\ {} \in SUBSET Indices
    BY <1>2
  <2> QED
    BY <1>1, <1>3, <1>6, <2>1, <2>2
<1>10. CASE \E i \in Indices, outcome \in Outcomes : RevokeCredential(i, outcome)
  <2>1. PICK i \in Indices, outcome \in Outcomes : RevokeCredential(i, outcome)
    BY <1>10
  <2>2. book \ {i} \in SUBSET Valid /\ {i} \in SUBSET Indices /\ {} \in SUBSET Indices
    BY <1>2
  <2> QED
    BY <1>1, <1>4, <1>7, <2>1, <2>2
<1> QED
  BY <1>8, <1>9, <1>10 DEF IssuerStep

\* Every published accumulator stands for one of the published lists.
LEMMA PublishedListed ==
  ASSUME RegistryInv, NEW p \in Published
  PROVE  \E n \in DOMAIN Lists : Lists[n] = LiveIn(p)
<1>1. ledger \in Seq(Delta) /\ Len(ledger) \in Nat /\ DOMAIN ledger = 1 .. Len(ledger)
  BY DEF RegistryInv, TypeOK
<1>2. DOMAIN Lists = 1 .. Len(ledger) + 1 /\ Lists[1] = InitialIndices
  BY <1>1 DEF Lists
<1>3. CASE p = InitialAccum
  BY <1>1, <1>2, <1>3, InitialAccumFaithful
<1>4. ASSUME NEW n \in DOMAIN ledger, p = ledger[n].accum
      PROVE  \E m \in DOMAIN Lists : Lists[m] = LiveIn(p)
  <2>1. n + 1 \in 1 .. Len(ledger) + 1 /\ n + 1 # 1 /\ n + 1 - 1 = n
    BY <1>1
  <2>2. Lists[n + 1] = LiveIn(p)
    BY <1>4, <2>1 DEF Lists
  <2> QED
    BY <1>2, <2>1, <2>2
<1> QED
  BY <1>3, <1>4 DEF Published

\* A holder's call changes nothing of the issuer's.
LEMMA HolderStepUnchanged ==
  ASSUME HolderStep
  PROVE  UNCHANGED <<byDefault, accum, book, signed, ledger>>
BY DEF HolderStep, TakeInitialDelta, TakeDelta, MergeDelta, NewWitness, UpdateWitness,
       InstallWitness, vars, issuerVars

\* A call of the issuer publishes more, and a holder's call nothing.
LEMMA PublishedGrows ==
  ASSUME Protocol, RegistryInv, [Next]_vars
  PROVE  /\ Published \subseteq Published'
         /\ HolderStep \/ UNCHANGED vars => Published' = Published
<1>1. ledger \in Seq(Delta)
  BY DEF RegistryInv, TypeOK
<1>2. ASSUME UNCHANGED <<byDefault, ledger>>
      PROVE  Published' = Published
  BY <1>2, CreatedUnchanged DEF Published
<1>3. CASE IssuerStep
  <2>1. PICK grown :
          grown = (\E d \in Delta : ledger' = Append(ledger, d))
    OBVIOUS
  <2>2. UNCHANGED byDefault /\ (ledger' = ledger \/ grown)
    BY <1>3, <2>1, IssuerStepEffect
  <2>3. ASSUME NEW d \in Delta, ledger' = Append(ledger, d)
        PROVE  Published \subseteq Published'
    <3>1. \A n \in DOMAIN ledger : n \in DOMAIN ledger' /\ ledger'[n] = ledger[n]
      BY <1>1, <2>3
    <3>2. InitialAccum' = InitialAccum
      BY <2>2, CreatedUnchanged
    <3> QED
      BY <3>1, <3>2 DEF Published
  <2>4. Published \subseteq Published'
    BY <1>2, <2>1, <2>2, <2>3
  <2>5. HolderStep \/ UNCHANGED vars => UNCHANGED <<byDefault, ledger>>
    BY HolderStepUnchanged DEF vars
  <2> QED
    BY <1>2, <2>4, <2>5
<1>4. CASE HolderStep
  BY <1>2, <1>4, HolderStepUnchanged
<1>5. CASE UNCHANGED vars
  BY <1>2, <1>5 DEF vars
<1> QED
  BY <1>3, <1>4, <1>5 DEF Next

\* What a holder takes in hand, and with it what it presents against, was published.
LEMMA HolderStepFollows ==
  ASSUME Protocol, ListInv, HolderStep
  PROVE  HoldersFollow'
<1>1. Published' = Published
  BY PublishedGrows DEF ListInv, Next
<1>2. RegistryInv /\ HoldersFollow
  BY DEF ListInv
<1>3. pending \in [Holders -> Delta \cup {None}] /\ reg \in [Holders -> Point \cup {None}]
  BY <1>2 DEF RegistryInv, TypeOK
<1>4. ASSUME NEW h \in Holders, NEW d, d.accum \in Published,
             pending' = [pending EXCEPT ![h] = d], UNCHANGED reg
      PROVE  HoldersFollow'
  <2>1. \A g \in Holders : pending'[g] = IF g = h THEN d ELSE pending[g]
    BY <1>3, <1>4
  <2> QED
    BY <1>1, <1>2, <1>4, <2>1 DEF HoldersFollow
<1>5. ASSUME NEW h \in Holders, NEW omega, pending[h] # None,
             InstallWitness(h, omega, pending[h])
      PROVE  HoldersFollow'
  <2>1. pending[h].accum \in Published
    BY <1>2, <1>5 DEF HoldersFollow
  <2>2. \A g \in Holders : /\ reg'[g] = IF g = h THEN pending[h].accum ELSE reg[g]
                           /\ pending'[g] = IF g = h THEN None ELSE pending[g]
    BY <1>3, <1>5 DEF InstallWitness
  <2> QED
    BY <1>1, <1>2, <2>1, <2>2 DEF HoldersFollow
<1>6. CASE UNCHANGED vars
  BY <1>1, <1>2, <1>6 DEF HoldersFollow, vars
<1>7. ASSUME NEW h \in Holders, TakeInitialDelta(h)
      PROVE  HoldersFollow'
  <2>1. FromParts(None, InitialAccum, {}, {}).accum \in Published
    BY DEF FromParts, Published
  <2> QED
    BY <1>4, <1>7, <2>1 DEF TakeInitialDelta
<1>8. ASSUME NEW h \in Holders, NEW n \in DOMAIN ledger, TakeDelta(h, n)
      PROVE  HoldersFollow'
  <2>1. ledger[n].accum \in Published
    BY DEF Published
  <2> QED
    BY <1>4, <1>8, <2>1 DEF TakeDelta
<1>9. ASSUME NEW h \in Holders, NEW n \in DOMAIN ledger, MergeDelta(h, n)
      PROVE  HoldersFollow'
  <2>1. Merge(pending[h], ledger[n]).accum \in Published
    BY DEF Published, Merge, FromParts
  <2> QED
    BY <1>4, <1>9, <2>1 DEF MergeDelta
<1>10. ASSUME NEW h \in Holders, NEW flag \in BOOLEAN, NEW outcome \in Outcomes,
              NewWitness(h, flag, outcome)
       PROVE  HoldersFollow'
  BY <1>5, <1>6, <1>10 DEF NewWitness
<1>11. ASSUME NEW h \in Holders, NEW outcome \in Outcomes, UpdateWitness(h, outcome)
       PROVE  HoldersFollow'
  BY <1>5, <1>6, <1>11 DEF UpdateWitness
<1> QED
  BY <1>7, <1>8, <1>9, <1>10, <1>11 DEF HolderStep

\* Every step keeps the invariant of the refinement.
LEMMA ListInvStep == Protocol /\ ListInv /\ [Next]_vars => ListInv'
<1> SUFFICES ASSUME Protocol, ListInv, [Next]_vars
             PROVE  ListInv'
  OBVIOUS
<1>1. RegistryInv'
  BY RegistryInvStep DEF ListInv
<1>2. RegistryInv /\ HoldersFollow
  BY DEF ListInv
<1>3. Published \subseteq Published'
  BY <1>2, PublishedGrows
<1>4. CASE HolderStep
  BY <1>1, <1>4, HolderStepFollows DEF ListInv
<1>5. CASE IssuerStep
  <2>1. UNCHANGED <<pending, reg>>
    BY <1>2, <1>5, IssuerStepEffect DEF holderVars
  <2> QED
    BY <1>1, <1>2, <1>3, <2>1 DEF ListInv, HoldersFollow
<1>6. CASE UNCHANGED vars
  BY <1>1, <1>2, <1>3, <1>6 DEF ListInv, HoldersFollow, vars
<1> QED
  BY <1>4, <1>5, <1>6 DEF Next

\* A step of the issuer enlists one index, strikes one out, or stutters.
LEMMA IssuerStepLists ==
  ASSUME Protocol, ListInv, IssuerStep
  PROVE  [List!ListNext]_(List!listVars)
<1>1. RegistryInv /\ ledger \in Seq(Delta) /\ Len(ledger) \in Nat
  BY DEF ListInv, RegistryInv, TypeOK
<1>2. LiveIn(accum) = book /\ book \in SUBSET Valid
  BY <1>1, LiveInAccumulator DEF RegistryInv, AccumIsBook
<1>3. UNCHANGED <<byDefault, holderVars>>
  BY <1>1, IssuerStepEffect
<1>4. InitialIndices' = InitialIndices
  BY <1>3 DEF InitialIndices
<1>5. Views' = Views
  BY <1>3 DEF Views, holderVars, LiveIn
<1>6. CASE UNCHANGED <<accum, book, ledger>>
  <2>1. LiveIn(accum)' = LiveIn(accum)
    BY <1>6 DEF LiveIn
  <2>2. Lists' = Lists
    BY <1>4, <1>6 DEF Lists, LiveIn
  <2> QED
    BY <1>5, <2>1, <2>2 DEF List!listVars, Lists, Views
<1>7. ASSUME NEW i \in Valid, NEW T \in SUBSET Valid,
             \/ i \notin book /\ T = book \cup {i}
             \/ i \in book /\ T = book \ {i},
             accum' = AccumulatorOf(T),
             NEW d \in Delta, d.accum = AccumulatorOf(T), ledger' = Append(ledger, d)
      PROVE  List!ListNext
  <2>1. LiveIn(accum') = T /\ LiveIn(d.accum) = T
    BY <1>7, LiveInAccumulator
  <2>2. LiveIn(accum)' = T
    BY <2>1 DEF LiveIn
  <2>3. Lists' = Append(Lists, T)
    <3>0. PICK N \in Nat : N = Len(ledger)
      BY <1>1
    <3>1. Len(ledger') = N + 1 /\ ledger'[N + 1] = d
          /\ \A n \in 1 .. N : ledger'[n] = ledger[n]
      BY <3>0, <1>1, <1>7
    <3>2. Lists' = [n \in 1 .. N + 2 |->
                      IF n = 1 THEN InitialIndices ELSE LiveIn(ledger'[n - 1].accum)]
      BY <3>0, <1>1, <1>4, <3>1 DEF Lists, LiveIn
    <3>3. Lists \in Seq(SUBSET Valid) /\ Len(Lists) = N + 1
      <4>1. \A n \in 1 .. N + 1 : Lists[n] \in SUBSET Valid
        BY <3>0, InitialAccumFaithful DEF Lists, LiveIn
      <4>2. DOMAIN Lists = 1 .. N + 1
        BY <3>0 DEF Lists
      <4> QED
        BY <3>0, <4>1, <4>2 DEF Lists
    <3>4. DOMAIN Append(Lists, T) = 1 .. N + 2 /\ Append(Lists, T)[N + 2] = T
          /\ Append(Lists, T) \in [1 .. N + 2 -> SUBSET Valid]
          /\ \A n \in 1 .. N + 1 : Append(Lists, T)[n] = Lists[n]
      <4>1. PICK s \in Seq(SUBSET Valid) : s = Lists
        BY <3>3
      <4>2. Append(s, T) \in Seq(SUBSET Valid) /\ Len(Append(s, T)) = Len(s) + 1
            /\ DOMAIN Append(s, T) = 1 .. Len(s) + 1
        BY <4>1
      <4>3. Append(s, T)[Len(s) + 1] = T /\ \A n \in 1 .. Len(s) : Append(s, T)[n] = s[n]
        BY <4>1
      <4>4. Len(s) = N + 1 /\ N + 1 + 1 = N + 2
        BY <3>0, <3>3, <4>1
      <4>5. Append(s, T) \in [1 .. N + 2 -> SUBSET Valid]
        <5>1. PICK t \in Seq(SUBSET Valid) : t = Append(s, T)
          BY <4>2
        <5>2. t \in [1 .. Len(t) -> SUBSET Valid]
          OBVIOUS
        <5> QED
          BY <4>2, <4>4, <5>1, <5>2
      <4> QED
        BY <4>1, <4>2, <4>3, <4>4, <4>5
    <3>5. ASSUME NEW n \in 1 .. N + 2
          PROVE  Lists'[n] = Append(Lists, T)[n]
      <4>1. CASE n = N + 2
        BY <3>0, <2>1, <3>1, <3>2, <3>4, <4>1
      <4>2. CASE n \in 1 .. N + 1
        <5>1. n # 1 => n - 1 \in 1 .. N
          BY <3>0, <4>2
        <5> QED
          BY <3>0, <3>1, <3>2, <3>4, <4>2, <5>1 DEF Lists
      <4>3. n = N + 2 \/ n \in 1 .. N + 1
        BY <3>0
      <4> QED
        BY <4>1, <4>2, <4>3
    <3> QED
      BY <3>2, <3>4, <3>5
  <2>4. List!Publish(T)
    BY <1>5, <2>2, <2>3 DEF List!Publish, Lists, Views
  <2>5. List!Enlist(i) \/ List!Strike(i)
    BY <1>2, <1>7, <2>4 DEF List!Enlist, List!Strike, List!Publish
  <2> QED
    BY <2>5 DEF List!ListNext
<1> QED
  BY <1>1, <1>6, <1>7, IssuerStepEffect

\* A step of a holder takes up one published list, or stutters.
LEMMA HolderStepLists ==
  ASSUME Protocol, ListInv, HolderStep \/ UNCHANGED vars
  PROVE  [List!ListNext]_(List!listVars)
<1>1. RegistryInv /\ HoldersFollow /\ reg \in [Holders -> Point \cup {None}]
  BY DEF ListInv, RegistryInv, TypeOK
<1>2. UNCHANGED <<byDefault, accum, book, ledger>>
  BY HolderStepUnchanged DEF vars
<1>3. LiveIn(accum)' = LiveIn(accum) /\ Lists' = Lists
  BY <1>2 DEF LiveIn, Lists, InitialIndices
<1>4. CASE UNCHANGED reg
  <2>1. Views' = Views
    BY <1>4 DEF Views, LiveIn
  <2> QED
    BY <1>3, <2>1 DEF List!listVars, Lists, Views
<1>5. ASSUME NEW h \in Holders, NEW omega, pending[h] # None,
             InstallWitness(h, omega, pending[h])
      PROVE  List!ListNext
  <2>1. PICK p \in Published : p = pending[h].accum
    BY <1>1, <1>5 DEF HoldersFollow
  <2>2. p # None
    BY <1>1, <2>1, PublishedFaithful, NoneAssumption
  <2>3. PICK n \in DOMAIN Lists : Lists[n] = LiveIn(p)
    BY <1>1, PublishedListed
  <2>4. reg' = [reg EXCEPT ![h] = p]
    BY <1>5, <2>1 DEF InstallWitness
  <2>5. Views' = [Views EXCEPT ![h] = Lists[n]]
    <3>1. \A g \in Holders : reg'[g] = IF g = h THEN p ELSE reg[g]
      BY <1>1, <2>4
    <3>2. Views' = [g \in Holders |-> IF reg'[g] = None THEN None ELSE LiveIn(reg'[g])]
      BY DEF Views, LiveIn
    <3>3. Views' = [g \in Holders |-> IF g = h THEN Lists[n] ELSE Views[g]]
      BY <2>2, <2>3, <3>1, <3>2 DEF Views
    <3> QED
      BY <3>3 DEF Views
  <2>6. List!TakeUp(h)
    BY <1>3, <2>5 DEF List!TakeUp, Lists, Views
  <2> QED
    BY <2>6 DEF List!ListNext
<1>6. \/ UNCHANGED reg
      \/ \E h \in Holders : \E omega : pending[h] # None /\ InstallWitness(h, omega, pending[h])
  BY DEF HolderStep, TakeInitialDelta, TakeDelta, MergeDelta, NewWitness, UpdateWitness, vars
<1> QED
  BY <1>4, <1>5, <1>6

\* A new registry is a new list.
LEMMA InitLists == Init => List!ListInit
<1> SUFFICES ASSUME Init
             PROVE  List!ListInit
  OBVIOUS
<1>1. LiveIn(accum) = InitialIndices /\ InitialIndices \in SUBSET Valid
  BY InitialAccumFaithful DEF Init, InitialAccum
<1>2. Lists = <<LiveIn(accum)>>
  <2>1. Len(ledger) = 0
    BY DEF Init
  <2>2. Lists = [n \in 1 .. 1 |-> InitialIndices]
    BY <2>1 DEF Lists
  <2> QED
    BY <1>1, <2>2
<1>3. Views = [h \in Holders |-> None]
  BY DEF Init, Views
<1> QED
  BY <1>1, <1>2, <1>3 DEF List!ListInit, Lists, Views

(***************************************************************************)
(* A careful application sees the registry as a list of indexes, whatever  *)
(* its capacity and however many holders merge, skip and apply deltas:     *)
(* every call that changes the accumulator enlists or strikes out one      *)
(* index, and every witness is for one of the published lists.             *)
(***************************************************************************)
THEOREM RegistryIsList == Protocol => (Spec => ImplementsList)
<1> SUFFICES ASSUME Protocol
             PROVE  Spec => ImplementsList
  OBVIOUS
<1>1. Init => ListInv
  <2>1. Init => HoldersFollow
    BY DEF Init, HoldersFollow
  <2> QED
    BY <2>1, InitRegistryInv DEF ListInv
<1>2. ListInv /\ [Next]_vars => ListInv'
  BY ListInvStep
<1>3. ListInv /\ [Next]_vars => [List!ListNext]_(List!listVars)
  BY IssuerStepLists, HolderStepLists DEF Next
<1> QED
  BY <1>1, <1>2, <1>3, InitLists, PTL DEF Spec, ImplementsList, List!ListSpec
=============================================================================
