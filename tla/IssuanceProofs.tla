---------------------------- MODULE IssuanceProofs ----------------------------
(***************************************************************************)
(* Theorems about Issuance, for any number of exchanges, signatures and    *)
(* calls, and about the proof of correctness of the keys it begins with    *)
(* (KeyCorrectness), for keys over any attributes, any order of their maps *)
(* and any number of attributes.                                           *)
(***************************************************************************)
EXTENDS Issuance, KeyCorrectness, TLAPS

(***************************************************************************)
(* The invariant: every signature was made of blinded secrets for its key; *)
(* exactly those whose outcome is not "none" were touched by a call; the   *)
(* revocation exponent is never ahead of the primary one and holds no      *)
(* other factor than that of the signed secrets, and that one once.        *)
(***************************************************************************)
Origin(sig) ==
  /\ sig.of \in DOMAIN blinded
  /\ blinded[sig.of].key = sig.key
  /\ sig.revocable => sig.key \in RevocKeys

Behind(sig) ==
  \A c \in 1 .. MaxBlinded :
    /\ sig.vr[c] <= sig.v[c]
    /\ sig.vr[c] > 0 => c = sig.of /\ sig.vr[c] = 1 /\ sig.revocable

Fresh(s) ==
  /\ outcome[s] = "none" =>
       signatures[s].v = Untouched /\ signatures[s].vr = Untouched
  /\ outcome[s] # "none" => signatures[s].v # Untouched

IssuanceInv ==
  /\ TypeOK
  /\ \A s \in DOMAIN signatures :
       Origin(signatures[s]) /\ Behind(signatures[s]) /\ Fresh(s)

-----------------------------------------------------------------------------
(***************************************************************************)
(* Exponents.                                                              *)
(***************************************************************************)
LEMMA ExponentTypes ==
  ASSUME NEW v \in Exponent, NEW b \in 1 .. MaxBlinded, v[b] < MaxCalls
  PROVE  AddFactor(v, b) \in Exponent
BY CountsAssumption DEF Exponent, AddFactor

\* The exponent that no call has changed is an exponent.
LEMMA UntouchedType == Untouched \in Exponent
BY CountsAssumption DEF Exponent, Untouched

\* An exponent is right after a factor was added only if it had none, and
\* the factor is that of the secrets that were signed.
LEMMA OnlyFactor ==
  ASSUME NEW v \in Exponent, NEW b \in 1 .. MaxBlinded, NEW of \in 1 .. MaxBlinded,
         AddFactor(v, b) = Unblinded(of)
  PROVE  v = Untouched /\ b = of
<1>1. \A c \in 1 .. MaxBlinded : AddFactor(v, b)[c] = IF c = b THEN v[c] + 1 ELSE v[c]
  BY DEF Exponent, AddFactor
<1>2. \A c \in 1 .. MaxBlinded : AddFactor(v, b)[c] = IF c = of THEN 1 ELSE 0
  BY DEF Unblinded
<1>3. \A c \in 1 .. MaxBlinded : v[c] \in Nat
  BY CountsAssumption DEF Exponent
<1>4. b = of
  BY <1>1, <1>2, <1>3
<1>5. \A c \in 1 .. MaxBlinded : v[c] = 0
  BY <1>1, <1>2, <1>3, <1>4
<1> QED
  BY <1>4, <1>5 DEF Exponent, Untouched

\* One factor added to an untouched exponent is what unblinding needs.
LEMMA OneFactor ==
  ASSUME NEW b \in 1 .. MaxBlinded
  PROVE  AddFactor(Untouched, b) = Unblinded(b)
<1>1. AddFactor(Untouched, b) = [c \in 1 .. MaxBlinded |->
                                   IF c = b THEN Untouched[b] + 1 ELSE Untouched[c]]
  BY DEF AddFactor, Untouched
<1>2. \A c \in 1 .. MaxBlinded : Untouched[c] = 0
  BY DEF Untouched
<1>3. \A c \in 1 .. MaxBlinded :
        (IF c = b THEN Untouched[b] + 1 ELSE Untouched[c]) = IF c = b THEN 1 ELSE 0
  BY <1>2
<1> QED
  BY <1>1, <1>3 DEF Unblinded

\* Factors are never taken away again.
LEMMA AddedNotUntouched ==
  ASSUME NEW v \in Exponent, NEW b \in 1 .. MaxBlinded
  PROVE  AddFactor(v, b) # Untouched
<1>1. AddFactor(v, b)[b] = v[b] + 1 /\ v[b] \in Nat
  BY CountsAssumption DEF Exponent, AddFactor
<1>2. Untouched[b] = 0
  BY DEF Untouched
<1> QED
  BY <1>1, <1>2

\* A signature with two new exponents, field by field.
LEMMA SetExponents ==
  ASSUME NEW sig \in Signature, NEW v, NEW vr
  PROVE  [sig EXCEPT !.v = v, !.vr = vr]
           = [key |-> sig.key, of |-> sig.of, known |-> sig.known, nonce |-> sig.nonce,
              revocable |-> sig.revocable, v |-> v, vr |-> vr]
<1>1. sig = [key |-> sig.key, of |-> sig.of, known |-> sig.known, nonce |-> sig.nonce,
             revocable |-> sig.revocable, v |-> sig.v, vr |-> sig.vr]
  BY DEF Signature
<1>2. [sig EXCEPT !.v = v]
        = [key |-> sig.key, of |-> sig.of, known |-> sig.known, nonce |-> sig.nonce,
           revocable |-> sig.revocable, v |-> v, vr |-> sig.vr]
  BY <1>1
<1>3. [sig EXCEPT !.v = v, !.vr = vr] = [[sig EXCEPT !.v = v] EXCEPT !.vr = vr]
  OBVIOUS
<1>4. [[key |-> sig.key, of |-> sig.of, known |-> sig.known, nonce |-> sig.nonce,
        revocable |-> sig.revocable, v |-> v, vr |-> sig.vr] EXCEPT !.vr = vr]
        = [key |-> sig.key, of |-> sig.of, known |-> sig.known, nonce |-> sig.nonce,
           revocable |-> sig.revocable, v |-> v, vr |-> vr]
  OBVIOUS
<1>5. [[sig EXCEPT !.v = v] EXCEPT !.vr = vr]
        = [key |-> sig.key, of |-> sig.of, known |-> sig.known, nonce |-> sig.nonce,
           revocable |-> sig.revocable, v |-> v, vr |-> vr]
  BY <1>2, <1>4, Zenon
<1> QED
  BY <1>3, <1>5, Zenon

-----------------------------------------------------------------------------
(***************************************************************************)
(* The effect of process_credential_signature on the signature it is given *)
(* and on the others.                                                      *)
(***************************************************************************)
NewV(s, arg) == AddFactor(signatures[s].v, arg.b)
PassedPrimary(s, arg) == CheckSignature(signatures[s], NewV(s, arg), arg)
TakesRevocation(s, arg) == PassedPrimary(s, arg) /\ WithRevocation(signatures[s], arg)
NewVr(s, arg) ==
  IF TakesRevocation(s, arg) THEN AddFactor(signatures[s].vr, arg.b) ELSE signatures[s].vr

Processed(s, arg) ==
  [key |-> signatures[s].key, of |-> signatures[s].of, known |-> signatures[s].known,
   nonce |-> signatures[s].nonce, revocable |-> signatures[s].revocable,
   v |-> NewV(s, arg), vr |-> NewVr(s, arg)]
Result(s, arg) ==
  IF \/ ~PassedPrimary(s, arg)
     \/ TakesRevocation(s, arg) /\ ~TestWitness(signatures[s], NewVr(s, arg), arg)
  THEN "error"
  ELSE IF TakesRevocation(s, arg) THEN "ok_revoc" ELSE "ok"

\* process_credential_signature, whichever of its checks fails.
LEMMA ProcessEffect ==
  ASSUME TypeOK, NEW s \in DOMAIN signatures, NEW arg \in Arguments,
         ProcessCredentialSignature(s, arg)
  PROVE  /\ signatures' = [signatures EXCEPT ![s] = Processed(s, arg)]
         /\ outcome' = [outcome EXCEPT ![s] = Result(s, arg)]
         /\ blinded' = blinded
<1>1. signatures[s] \in Signature
  BY DEF TypeOK
<1>2. DOMAIN signatures = 1 .. Len(signatures) /\ DOMAIN outcome = 1 .. Len(signatures)
  BY DEF TypeOK
<1>3. signatures' = [signatures EXCEPT ![s].v = NewV(s, arg), ![s].vr = NewVr(s, arg)]
  BY <1>2 DEF ProcessCredentialSignature, Process, NewV, NewVr, PassedPrimary, TakesRevocation
<1>4. signatures' = [signatures EXCEPT ![s] =
           [signatures[s] EXCEPT !.v = NewV(s, arg), !.vr = NewVr(s, arg)]]
  BY <1>2, <1>3
<1>5. [signatures[s] EXCEPT !.v = NewV(s, arg), !.vr = NewVr(s, arg)] = Processed(s, arg)
  BY <1>1, SetExponents DEF Processed
<1>6. outcome' = [outcome EXCEPT ![s] = Result(s, arg)]
  BY DEF ProcessCredentialSignature, Process, Result, NewV, NewVr, PassedPrimary, TakesRevocation
<1> QED
  BY <1>4, <1>5, <1>6 DEF ProcessCredentialSignature

-----------------------------------------------------------------------------
(***************************************************************************)
(* The invariant holds.                                                    *)
(***************************************************************************)
LEMMA InitIssuanceInv == Init => IssuanceInv
BY CountsAssumption DEF Init, IssuanceInv, TypeOK

\* Blinding adds secrets and leaves every signature alone.
LEMMA BlindStep ==
  ASSUME IssuanceInv, NEW key \in Keys, NEW nonce \in Nonces, NEW secret \in Secrets,
         BlindCredentialSecrets(key, nonce, secret)
  PROVE  IssuanceInv'
<1>1. /\ blinded' = Append(blinded, [key |-> key, nonce |-> nonce, secret |-> secret])
      /\ Len(blinded) < MaxBlinded
      /\ UNCHANGED <<signatures, outcome>>
  BY DEF BlindCredentialSecrets, WithProof, NewSecrets
<1>2. TypeOK'
  BY <1>1, CountsAssumption DEF IssuanceInv, TypeOK, BlindedSecrets
<1>3. ASSUME NEW s \in DOMAIN signatures
      PROVE  Origin(signatures[s])'
  <2>1. signatures[s].of \in DOMAIN blinded /\ Origin(signatures[s])
    BY DEF IssuanceInv, Origin
  <2>2. blinded'[signatures[s].of] = blinded[signatures[s].of]
        /\ DOMAIN blinded \subseteq DOMAIN blinded'
    BY <1>1, <2>1 DEF IssuanceInv, TypeOK
  <2> QED
    BY <1>1, <2>1, <2>2 DEF Origin
<1> QED
  BY <1>1, <1>2, <1>3 DEF IssuanceInv, Behind, Fresh

\* A new signature is of blinded secrets for its own key.
LEMMA SignStep ==
  ASSUME IssuanceInv, NEW b \in DOMAIN blinded, NEW key \in Keys,
         NEW credNonce \in Nonces, NEW known \in KnownValues,
         NEW issuanceNonce \in Nonces, NEW revoc \in BOOLEAN,
         SignCredential(b, key, credNonce, known, issuanceNonce, revoc)
  PROVE  IssuanceInv'
<1> DEFINE new == [key |-> key, of |-> b, known |-> known, nonce |-> issuanceNonce,
                   revocable |-> revoc, v |-> Untouched, vr |-> Untouched]
<1>1. /\ signatures' = Append(signatures, new)
      /\ outcome' = Append(outcome, "none")
      /\ blinded' = blinded
      /\ blinded[b].key = key
      /\ revoc => key \in RevocKeys
  BY DEF SignCredential, NewSignature, BlindedSecretsCheck
<1>2. b \in 1 .. MaxBlinded
  BY CountsAssumption DEF IssuanceInv, TypeOK
<1>3. new \in Signature
  BY <1>2, UntouchedType DEF Signature
<1> HIDE DEF new
<1>4. TypeOK'
  BY <1>1, <1>3 DEF IssuanceInv, TypeOK, Outcomes
<1>5. Origin(new)' /\ Behind(new)' /\ new.v = Untouched /\ new.vr = Untouched
  BY <1>1, <1>2, CountsAssumption DEF new, Origin, Behind, Untouched
<1>6. ASSUME NEW s \in DOMAIN signatures'
      PROVE  Origin(signatures[s])' /\ Behind(signatures[s])' /\ Fresh(s)'
  <2>1. CASE s \in DOMAIN signatures
    <3>1. signatures'[s] = signatures[s] /\ outcome'[s] = outcome[s]
      BY <1>1, <2>1 DEF IssuanceInv, TypeOK
    <3>2. Origin(signatures[s]) /\ Behind(signatures[s]) /\ Fresh(s)
      BY <2>1 DEF IssuanceInv
    <3>3. Origin(signatures[s])'
      BY <1>1, <3>1, <3>2 DEF Origin
    <3>4. Behind(signatures[s])'
      BY <3>1, <3>2 DEF Behind
    <3>5. Fresh(s)'
      BY <3>1, <3>2 DEF Fresh
    <3> QED
      BY <3>3, <3>4, <3>5
  <2>2. CASE s \notin DOMAIN signatures
    <3>1. signatures'[s] = new /\ outcome'[s] = "none"
      BY <1>1, <1>6, <2>2 DEF IssuanceInv, TypeOK
    <3>2. Fresh(s)'
      BY <1>5, <3>1 DEF Fresh
    <3> QED
      BY <1>5, <3>1, <3>2
  <2> QED
    BY <2>1, <2>2
<1> QED
  BY <1>4, <1>6 DEF IssuanceInv

\* What processing leaves of a signature is a signature.
LEMMA ProcessTypes ==
  ASSUME IssuanceInv, NEW s \in DOMAIN signatures, NEW arg \in Arguments,
         ProcessCredentialSignature(s, arg)
  PROVE  /\ NewV(s, arg) \in Exponent /\ NewVr(s, arg) \in Exponent
         /\ signatures[s] \in Signature /\ arg.b \in 1 .. MaxBlinded
<1>1. signatures[s] \in Signature
  BY DEF IssuanceInv, TypeOK
<1>2. arg.b \in 1 .. MaxBlinded /\ signatures[s].v[arg.b] < MaxCalls
  BY DEF ProcessCredentialSignature, WithinBounds, Arguments
<1>3. signatures[s].v \in Exponent /\ signatures[s].vr \in Exponent
  BY <1>1 DEF Signature
<1>4. signatures[s].v[arg.b] \in Nat /\ signatures[s].vr[arg.b] \in Nat
  BY <1>2, <1>3, CountsAssumption DEF Exponent
<1>5. signatures[s].vr[arg.b] < MaxCalls
  BY <1>2, <1>4, CountsAssumption DEF IssuanceInv, Behind
<1> QED
  BY <1>1, <1>2, <1>3, <1>5, ExponentTypes DEF NewV, NewVr

\* Processing, whatever its outcome, keeps the invariant.
LEMMA ProcessStep ==
  ASSUME IssuanceInv, NEW s \in DOMAIN signatures, NEW arg \in Arguments,
         ProcessCredentialSignature(s, arg)
  PROVE  IssuanceInv'
<1> DEFINE done == Processed(s, arg)
<1>1. /\ signatures' = [signatures EXCEPT ![s] = done]
      /\ outcome' = [outcome EXCEPT ![s] = Result(s, arg)]
      /\ blinded' = blinded
  BY ProcessEffect DEF IssuanceInv
<1>2. done \in Signature
  BY ProcessTypes DEF Processed, Signature
<1>3. Result(s, arg) \in {"ok", "ok_revoc", "error"}
  BY DEF Result
<1>4. done.of = signatures[s].of /\ done.key = signatures[s].key
      /\ done.revocable = signatures[s].revocable
      /\ done.v = NewV(s, arg) /\ done.vr = NewVr(s, arg)
  BY DEF Processed
<1>5. Origin(signatures[s])'
  <2>1. Origin(signatures[s])
    BY DEF IssuanceInv
  <2>2. signatures'[s] = done
    BY <1>1 DEF IssuanceInv, TypeOK
  <2>3. /\ signatures'[s].of = signatures[s].of
        /\ signatures'[s].key = signatures[s].key
        /\ signatures'[s].revocable = signatures[s].revocable
    BY <1>4, <2>2
  <2> QED
    BY <1>1, <2>1, <2>3 DEF Origin
<1>6. Behind(done)
  <2>1. Behind(signatures[s]) /\ signatures[s].of \in 1 .. MaxBlinded
    BY ProcessTypes DEF IssuanceInv, Signature
  <2>2. \A c \in 1 .. MaxBlinded :
          signatures[s].v[c] \in Nat /\ signatures[s].vr[c] \in Nat
    <3>1. signatures[s].v \in Exponent /\ signatures[s].vr \in Exponent
      BY ProcessTypes DEF Signature
    <3> QED
      BY <3>1, CountsAssumption DEF Exponent
  <2>3. \A c \in 1 .. MaxBlinded :
          NewV(s, arg)[c] = IF c = arg.b THEN signatures[s].v[c] + 1 ELSE signatures[s].v[c]
    BY ProcessTypes DEF NewV, AddFactor, Signature, Exponent
  <2>4. CASE ~TakesRevocation(s, arg)
    <3>1. done.vr = signatures[s].vr
      BY <1>4, <2>4 DEF NewVr
    <3> QED
      BY <1>4, <2>1, <2>2, <2>3, <3>1 DEF Behind
  <2>5. CASE TakesRevocation(s, arg)
    <3>1. NewV(s, arg) = Unblinded(signatures[s].of) /\ signatures[s].revocable
      BY <2>5 DEF TakesRevocation, PassedPrimary, CheckSignature, QMatches, WithRevocation
    <3>2. signatures[s].v = Untouched /\ arg.b = signatures[s].of
      BY <3>1, ProcessTypes, OnlyFactor DEF NewV, Signature
    <3>3. \A c \in 1 .. MaxBlinded : signatures[s].v[c] = 0 /\ signatures[s].vr[c] = 0
      BY <2>1, <2>2, <3>2 DEF Behind, Untouched
    <3>4. \A c \in 1 .. MaxBlinded :
            done.vr[c] = IF c = arg.b THEN signatures[s].vr[c] + 1 ELSE signatures[s].vr[c]
      BY <1>4, <2>5, ProcessTypes DEF NewVr, AddFactor, Signature, Exponent
    <3> QED
      BY <1>4, <2>3, <3>1, <3>2, <3>3, <3>4 DEF Behind
  <2> QED
    BY <2>4, <2>5
<1> HIDE DEF done
<1>7. TypeOK'
  BY <1>1, <1>2, <1>3 DEF IssuanceInv, TypeOK, Outcomes
<1>8. ASSUME NEW t \in DOMAIN signatures'
      PROVE  Origin(signatures[t])' /\ Behind(signatures[t])' /\ Fresh(t)'
  <2>1. t \in DOMAIN signatures /\ t \in DOMAIN outcome
    BY <1>1 DEF IssuanceInv, TypeOK
  <2>2. CASE t = s
    <3>1. signatures'[t] = done /\ outcome'[t] = Result(s, arg)
      BY <1>1, <2>1, <2>2
    <3>2. Origin(signatures[t])'
      BY <1>5, <2>2
    <3>3. Behind(signatures[t])'
      BY <1>6, <3>1 DEF Behind
    <3>4. NewV(s, arg) # Untouched
      BY ProcessTypes, AddedNotUntouched DEF NewV, Signature
    <3>5. Fresh(t)'
      BY <1>3, <1>4, <3>1, <3>4 DEF Fresh
    <3> QED
      BY <3>2, <3>3, <3>5
  <2>3. CASE t # s
    <3>1. signatures'[t] = signatures[t] /\ outcome'[t] = outcome[t]
      BY <1>1, <2>1, <2>3
    <3>2. Origin(signatures[t]) /\ Behind(signatures[t]) /\ Fresh(t)
      BY <2>1 DEF IssuanceInv
    <3>3. Origin(signatures[t])'
      BY <1>1, <3>1, <3>2 DEF Origin
    <3>4. Behind(signatures[t])'
      BY <3>1, <3>2 DEF Behind
    <3>5. Fresh(t)'
      BY <3>1, <3>2 DEF Fresh
    <3> QED
      BY <3>3, <3>4, <3>5
  <2> QED
    BY <2>2, <2>3
<1> QED
  BY <1>7, <1>8 DEF IssuanceInv

\* Every step keeps the invariant.
LEMMA NextIssuanceInv == IssuanceInv /\ [Next]_vars => IssuanceInv'
<1> SUFFICES ASSUME IssuanceInv, [Next]_vars
             PROVE  IssuanceInv'
  OBVIOUS
<1>1. CASE UNCHANGED vars
  BY <1>1 DEF vars, IssuanceInv, TypeOK, Origin, Behind, Fresh
<1>2. CASE Next
  BY <1>2, BlindStep, SignStep, ProcessStep DEF Next
<1> QED
  BY <1>1, <1>2

\* The invariant holds in every reachable state.
LEMMA IssuanceInvariant == Spec => []IssuanceInv
BY InitIssuanceInv, NextIssuanceInv, PTL DEF Spec

(***************************************************************************)
(* Every variable keeps its type, and no exponent receives a factor more   *)
(* often than calls were made (process_credential_signature changes the    *)
(* signature before it checks it).                                         *)
(***************************************************************************)
THEOREM IssuanceTypes == Spec => []TypeOK
<1>1. IssuanceInv => TypeOK
  BY DEF IssuanceInv
<1> QED
  BY <1>1, IssuanceInvariant, PTL

(***************************************************************************)
(* The revocation exponent never gets ahead of the primary one             *)
(* (prover.rs:243 comes before prover.rs:653).                             *)
(***************************************************************************)
THEOREM RevocationComesSecond == Spec => []RevocationAfterPrimary
<1>1. IssuanceInv => RevocationAfterPrimary
  <2> SUFFICES ASSUME IssuanceInv, NEW s \in DOMAIN signatures
               PROVE  /\ Added(signatures[s].vr) \subseteq {signatures[s].of}
                      /\ Added(signatures[s].vr) # {} =>
                           signatures[s].v[signatures[s].of] > 0 /\ signatures[s].revocable
                      /\ signatures[s].vr[signatures[s].of] <= 1
    BY DEF RevocationAfterPrimary
  <2>1. Behind(signatures[s]) /\ signatures[s] \in Signature
    BY DEF IssuanceInv, TypeOK
  <2>2. /\ signatures[s].of \in 1 .. MaxBlinded
        /\ signatures[s].v \in Exponent /\ signatures[s].vr \in Exponent
    BY <2>1 DEF Signature
  <2>3. \A c \in 1 .. MaxBlinded :
          signatures[s].v[c] \in Nat /\ signatures[s].vr[c] \in Nat
    BY <2>2, CountsAssumption DEF Exponent
  <2> QED
    BY <2>1, <2>2, <2>3 DEF Behind, Added
<1> QED
  BY <1>1, IssuanceInvariant, PTL

(***************************************************************************)
(* Whatever the issuer signs, some call makes fully usable: it has checked *)
(* the proof of the blinded secrets (issuer.rs:274).                       *)
(***************************************************************************)
THEOREM SignedCanBeUsed == Spec => []SignedIsUsable
<1>1. IssuanceInv => SignedIsUsable
  <2> SUFFICES ASSUME IssuanceInv, NEW s \in DOMAIN signatures, outcome[s] = "none"
               PROVE  \E arg \in Arguments : Usable(signatures[s], arg)
    BY DEF SignedIsUsable
  <2> DEFINE sig == signatures[s]
             arg == [b |-> sig.of, secret |-> blinded[sig.of].secret, known |-> sig.known,
                     key |-> sig.key, nonce |-> sig.nonce, witness |-> "fits"]
  <2>1. Origin(sig) /\ sig.v = Untouched /\ sig.vr = Untouched /\ sig \in Signature
    BY DEF IssuanceInv, TypeOK, Fresh
  <2>2. blinded[sig.of] \in BlindedSecrets /\ sig.of \in 1 .. MaxBlinded
    BY <2>1 DEF IssuanceInv, TypeOK, Origin, Signature
  <2>3. arg \in Arguments
    BY <2>1, <2>2 DEF Arguments, Signature, BlindedSecrets
  <2>4. AddFactor(Untouched, sig.of) = Unblinded(sig.of)
    BY <2>2, OneFactor
  <2>5. Usable(sig, arg)
    BY <2>1, <2>4 DEF Usable, CheckSignature, QMatches, WithRevocation, TestWitness, Origin
  <2> QED
    BY <2>3, <2>5
<1> QED
  BY <1>1, IssuanceInvariant, PTL

(***************************************************************************)
(* Ok means usable: the outcome of the last call on a signature is decided *)
(* on the exponents that the call left behind.                             *)
(***************************************************************************)
THEOREM OkMeansUsable == Spec => []OkIsUsable
<1> DEFINE Good(s) ==
       /\ outcome[s] \in {"ok", "ok_revoc"} => PrimaryUsable(signatures[s])
       /\ outcome[s] = "ok_revoc" => FullyUsable(signatures[s])
<1>1. Init => OkIsUsable
  BY DEF Init, OkIsUsable
<1>2. IssuanceInv /\ OkIsUsable /\ [Next]_vars => OkIsUsable'
  <2> SUFFICES ASSUME IssuanceInv, OkIsUsable, [Next]_vars, NEW t \in DOMAIN signatures'
               PROVE  Good(t)'
    BY DEF OkIsUsable
  <2>1. CASE UNCHANGED vars
    BY <2>1 DEF vars, OkIsUsable, PrimaryUsable, FullyUsable
  <2>2. ASSUME NEW key \in Keys, NEW nonce \in Nonces, NEW secret \in Secrets,
               BlindCredentialSecrets(key, nonce, secret)
        PROVE  Good(t)'
    BY <2>2 DEF BlindCredentialSecrets, OkIsUsable, PrimaryUsable, FullyUsable
  <2>3. ASSUME NEW b \in DOMAIN blinded, NEW key \in Keys,
               NEW credNonce \in Nonces, NEW known \in KnownValues,
               NEW issuanceNonce \in Nonces, NEW revoc \in BOOLEAN,
               SignCredential(b, key, credNonce, known, issuanceNonce, revoc)
        PROVE  Good(t)'
    <3>1. CASE t \in DOMAIN signatures
      <4>1. signatures'[t] = signatures[t] /\ outcome'[t] = outcome[t]
        BY <2>3, <3>1 DEF SignCredential, IssuanceInv, TypeOK
      <4> QED
        BY <3>1, <4>1 DEF OkIsUsable, PrimaryUsable, FullyUsable
    <3>2. CASE t \notin DOMAIN signatures
      <4>1. outcome'[t] = "none"
        BY <2>3, <3>2 DEF SignCredential, IssuanceInv, TypeOK
      <4> QED
        BY <4>1
    <3> QED
      BY <3>1, <3>2
  <2>4. ASSUME NEW s \in DOMAIN signatures, NEW arg \in Arguments,
               ProcessCredentialSignature(s, arg)
        PROVE  Good(t)'
    <3>1. /\ signatures' = [signatures EXCEPT ![s] = Processed(s, arg)]
          /\ outcome' = [outcome EXCEPT ![s] = Result(s, arg)]
      BY <2>4, ProcessEffect DEF IssuanceInv
    <3>2. t \in DOMAIN signatures /\ t \in DOMAIN outcome
      BY <3>1 DEF IssuanceInv, TypeOK
    <3>3. CASE t # s
      <4>1. signatures'[t] = signatures[t] /\ outcome'[t] = outcome[t]
        BY <3>1, <3>2, <3>3
      <4> QED
        BY <3>2, <4>1 DEF OkIsUsable, PrimaryUsable, FullyUsable
    <3>4. CASE t = s
      <4>1. signatures'[t] = Processed(s, arg) /\ outcome'[t] = Result(s, arg)
        BY <3>1, <3>2, <3>4
      <4>2. /\ outcome'[t] # "error" => NewV(s, arg) = Unblinded(signatures[s].of)
            /\ outcome'[t] = "ok_revoc" => NewVr(s, arg) = Unblinded(signatures[s].of)
        BY <4>1 DEF Result, PassedPrimary, CheckSignature, QMatches, TestWitness
      <4>3. /\ signatures'[t].v = NewV(s, arg) /\ signatures'[t].vr = NewVr(s, arg)
            /\ signatures'[t].of = signatures[s].of
        BY <4>1 DEF Processed
      <4> QED
        BY <4>2, <4>3 DEF PrimaryUsable, FullyUsable
    <3> QED
      BY <3>3, <3>4
  <2> QED
    BY <2>1, <2>2, <2>3, <2>4 DEF Next
<1> QED
  BY <1>1, <1>2, IssuanceInvariant, PTL DEF Spec

(***************************************************************************)
(* Only the first call on a signature can succeed: an exponent that is     *)
(* right has one factor, and factors are never taken away.                 *)
(***************************************************************************)
THEOREM OnlyFirstCallSucceeds == Spec => OneCallOnly
<1> DEFINE Step ==
       \A s \in DOMAIN signatures :
         outcome[s] # "none" /\ Called(s) =>
           outcome'[s] = "error" /\ ~PrimaryUsable(signatures[s])'
<1>1. IssuanceInv /\ [Next]_vars => [Step]_vars
  <2> SUFFICES ASSUME IssuanceInv, Next, NEW t \in DOMAIN signatures,
                      outcome[t] # "none", Called(t)
               PROVE  outcome'[t] = "error" /\ ~PrimaryUsable(signatures[t])'
    OBVIOUS
  <2>1. PICK s \in DOMAIN signatures, arg \in Arguments : ProcessCredentialSignature(s, arg)
    <3>1. ASSUME NEW b \in DOMAIN blinded, NEW key \in Keys,
                 NEW credNonce \in Nonces, NEW known \in KnownValues,
                 NEW issuanceNonce \in Nonces, NEW revoc \in BOOLEAN,
                 SignCredential(b, key, credNonce, known, issuanceNonce, revoc)
          PROVE  FALSE
      BY <3>1 DEF SignCredential, IssuanceInv, TypeOK, Called
    <3>2. ASSUME NEW key \in Keys, NEW nonce \in Nonces, NEW secret \in Secrets,
                 BlindCredentialSecrets(key, nonce, secret)
          PROVE  FALSE
      BY <3>2 DEF BlindCredentialSecrets, Called
    <3> QED
      BY <3>1, <3>2 DEF Next
  <2>2. /\ signatures' = [signatures EXCEPT ![s] = Processed(s, arg)]
        /\ outcome' = [outcome EXCEPT ![s] = Result(s, arg)]
    BY <2>1, ProcessEffect DEF IssuanceInv
  <2>3. t = s
    BY <2>2 DEF Called
  <2>4. signatures'[t] = Processed(s, arg) /\ outcome'[t] = Result(s, arg)
    BY <2>2, <2>3 DEF IssuanceInv, TypeOK
  <2>5. NewV(s, arg) # Unblinded(signatures[s].of)
    <3>1. signatures[s].v # Untouched
      BY <2>3 DEF IssuanceInv, Fresh
    <3> QED
      BY <2>1, <3>1, ProcessTypes, OnlyFactor DEF NewV, Signature
  <2>6. signatures'[t].v = NewV(s, arg) /\ signatures'[t].of = signatures[s].of
    BY <2>4 DEF Processed
  <2>7. ~PassedPrimary(s, arg)
    BY <2>5 DEF PassedPrimary, CheckSignature, QMatches
  <2> QED
    BY <2>4, <2>5, <2>6, <2>7 DEF Result, PrimaryUsable
<1>2. OneCallOnly <=> [][Step]_vars
  BY DEF OneCallOnly
<1> QED
  BY <1>1, <1>2, IssuanceInvariant, PTL DEF Spec

-----------------------------------------------------------------------------
\* A list of the attributes in S, in some order of a map over S.
Lists(order, S) ==
  /\ \A k \in DOMAIN order : order[k] \in S
  /\ \A a \in S : \E k \in DOMAIN order : order[k] = a

-----------------------------------------------------------------------------
(***************************************************************************)
(* The parts of a proof that the library made.                             *)
(***************************************************************************)
\* Answer number k is for the attribute that was met k-th.
LEMMA MadeAnswers ==
  ASSUME NEW made, NEW xz, NEW xr, NEW order, NEW zTilda, NEW tilda, NEW k \in DOMAIN order
  PROVE  LET proof == NewProof(made, xz, xr, order, zTilda, tilda)
         IN  /\ DOMAIN proof.xr_cap = DOMAIN order
             /\ proof.xr_cap[k].attr = order[k]
             /\ proof.xr_cap[k].x = xr[order[k]]
             /\ proof.xr_cap[k].tilda = tilda[order[k]]
BY DEF NewProof

\* The proof names the attributes of the key.
LEMMA MadeNames ==
  ASSUME NEW made, NEW xz, NEW xr, NEW order, Lists(order, DOMAIN made.r),
         NEW zTilda, NEW tilda
  PROVE  Names(NewProof(made, xz, xr, order, zTilda, tilda)) = DOMAIN made.r
<1> DEFINE proof == NewProof(made, xz, xr, order, zTilda, tilda)
<1>1. DOMAIN proof.xr_cap = DOMAIN order
  BY DEF NewProof
<1>2. \A k \in DOMAIN order : proof.xr_cap[k].attr = order[k]
  BY MadeAnswers
<1> HIDE DEF proof
<1>3. Names(proof) = {order[k] : k \in DOMAIN order}
  BY <1>1, <1>2 DEF Names
<1> QED
  BY <1>3 DEF Lists, proof

\* A commitment comes out of an answer if and only if the answer is the
\* exponent of the element to the base of the key.
LEMMA CapOf ==
  ASSUME NEW s, NEW value, NEW answer
  PROVE  Cap(s, value, answer)
           = IF value = Power(s, answer.x) THEN {Power(s, answer.tilda)} ELSE {}
BY DEF Cap

-----------------------------------------------------------------------------
(***************************************************************************)
(* In whatever order the issuer ran through its map and in whatever order  *)
(* the holder's map is, the proof the library makes for a key that it made *)
(* is accepted for a key if and only if the two agree on what the proof    *)
(* covers: the base, z and every element of r, except that the proof may   *)
(* know nothing of the master secret.  rctxt is not covered: keys that     *)
(* differ in it alone are accepted with the same proof                     *)
(* (_new_credential_key_correctness_proof and                              *)
(* _check_credential_key_correctness_proof).                               *)
(***************************************************************************)
THEOREM KeyProofExact ==
  ASSUME NEW key, NEW schema, NEW nonSchema, NEW s, NEW xz, NEW xr, NEW xrctxt,
         NEW order, Lists(order, schema \cup nonSchema), NEW zTilda, NEW tilda
  PROVE  LET made == NewPrimaryKey(schema, nonSchema, s, xz, xr, xrctxt)
         IN  ProofAccepted(key, NewProof(made, xz, xr, order, zTilda, tilda))
               <=> AgreeOnCovered(key, made)
<1> DEFINE made == NewPrimaryKey(schema, nonSchema, s, xz, xr, xrctxt)
           proof == NewProof(made, xz, xr, order, zTilda, tilda)
           values == [k \in DOMAIN order |-> key.r[order[k]]]
           madeValues == [k \in DOMAIN order |-> made.r[order[k]]]
           tildas == [k \in DOMAIN order |-> {Power(made.s, tilda[order[k]])}]
           caps == [k \in DOMAIN order |->
                      Cap(key.s, key.r[order[k]], [x |-> xr[order[k]], tilda |-> tilda[order[k]]])]
           zCap == Cap(key.s, key.z, [x |-> xz, tilda |-> zTilda])
<1>0. /\ made.s = s /\ made.z = Power(s, xz)
      /\ DOMAIN made.r = schema \cup nonSchema
      /\ \A a \in schema \cup nonSchema : made.r[a] = Power(s, xr[a])
  BY DEF NewPrimaryKey, PrimaryKey
<1> HIDE DEF made
<1>1. ProofRefused(key, proof) <=>
        \/ \E a \in DOMAIN key.r : a \notin DOMAIN made.r /\ a # MasterSecret
        \/ ~(DOMAIN made.r \subseteq DOMAIN key.r)
  BY <1>0, MadeNames DEF ProofRefused
<1>2. ProofAccepted(key, proof) <=>
        /\ ~ProofRefused(key, proof)
        /\ Challenge(made.z, madeValues, {Power(made.s, zTilda)}, tildas)
             = Challenge(key.z, values, zCap, caps)
  <2> DEFINE read == [k \in DOMAIN proof.xr_cap |-> key.r[proof.xr_cap[k].attr]]
             readCaps == [k \in DOMAIN proof.xr_cap |->
                            Cap(key.s, key.r[proof.xr_cap[k].attr], proof.xr_cap[k])]
             readZ == Cap(key.s, key.z, proof.xz_cap)
  <2>1. read = values /\ readCaps = caps /\ readZ = zCap
    <3>1. DOMAIN proof.xr_cap = DOMAIN order /\ proof.xz_cap = [x |-> xz, tilda |-> zTilda]
      BY DEF NewProof
    <3>2. \A k \in DOMAIN order :
            /\ proof.xr_cap[k].attr = order[k]
            /\ proof.xr_cap[k].x = xr[order[k]]
            /\ proof.xr_cap[k].tilda = tilda[order[k]]
      BY MadeAnswers
    <3> HIDE DEF proof
    <3>3. read = values
      BY <3>1, <3>2, Zenon
    <3>4. \A k \in DOMAIN order :
            Cap(key.s, key.r[proof.xr_cap[k].attr], proof.xr_cap[k])
              = Cap(key.s, key.r[order[k]], [x |-> xr[order[k]], tilda |-> tilda[order[k]]])
      BY <3>2 DEF Cap
    <3>5. readCaps = caps
      BY <3>1, <3>4, Zenon
    <3>6. readZ = zCap
      BY <3>1
    <3> HIDE DEF read, values, readCaps, caps, readZ, zCap
    <3> QED
      BY <3>3, <3>5, <3>6
  <2>2. proof.c = Challenge(made.z, madeValues, {Power(made.s, zTilda)}, tildas)
    BY DEF NewProof
  <2>3. ProofAccepted(key, proof) <=>
          ~ProofRefused(key, proof) /\ proof.c = Challenge(key.z, read, readZ, readCaps)
    BY DEF ProofAccepted
  <2> HIDE DEF proof, read, readCaps, readZ, values, caps, zCap, madeValues, tildas
  <2> QED
    BY <2>1, <2>2, <2>3
<1> HIDE DEF proof
<1>3. zCap = {Power(made.s, zTilda)} <=> key.z = Power(key.s, xz) /\ key.s = made.s
  <2>1. zCap = IF key.z = Power(key.s, xz) THEN {Power(key.s, zTilda)} ELSE {}
    BY CapOf
  <2> HIDE DEF zCap
  <2>2. Power(key.s, zTilda) = Power(made.s, zTilda) <=> key.s = made.s
    BY DEF Power
  <2> QED
    BY <2>1, <2>2
<1>4. ASSUME key.s = made.s,
             \A k \in DOMAIN order : key.r[order[k]] = Power(made.s, xr[order[k]])
      PROVE  caps = tildas
  <2>1. ASSUME NEW k \in DOMAIN order
        PROVE  Cap(key.s, key.r[order[k]], [x |-> xr[order[k]], tilda |-> tilda[order[k]]])
                 = {Power(made.s, tilda[order[k]])}
    <3>1. key.r[order[k]] = Power(key.s, xr[order[k]])
      BY <1>4
    <3> QED
      BY <1>4, <3>1, CapOf
  <2> QED
    BY <2>1, Zenon
<1>5. \A k \in DOMAIN order : order[k] \in DOMAIN made.r /\ made.r[order[k]] = Power(made.s, xr[order[k]])
  BY <1>0 DEF Lists
<1>6. ASSUME ProofAccepted(key, proof)
      PROVE  AgreeOnCovered(key, made)
  <2>1. key.z = made.z /\ values = madeValues /\ zCap = {Power(made.s, zTilda)}
    <3> HIDE DEF values, madeValues, zCap, caps, tildas
    <3> QED
      BY <1>2, <1>6 DEF Challenge
  <2>2. \A k \in DOMAIN order : key.r[order[k]] = made.r[order[k]]
    BY <2>1
  <2>3. key.s = made.s
    BY <1>0, <1>3, <2>1
  <2> QED
    BY <1>0, <1>1, <1>2, <1>6, <2>1, <2>2, <2>3 DEF AgreeOnCovered, Lists
<1>7. ASSUME AgreeOnCovered(key, made)
      PROVE  ProofAccepted(key, proof)
  <2>1. \A k \in DOMAIN order : key.r[order[k]] = made.r[order[k]]
    BY <1>5, <1>7 DEF AgreeOnCovered
  <2>2. values = madeValues
    BY <2>1
  <2>3. key.s = made.s /\ key.z = made.z /\ key.z = Power(key.s, xz)
    BY <1>0, <1>7 DEF AgreeOnCovered
  <2>4. caps = tildas
    BY <1>4, <1>5, <2>1, <2>3
  <2>5. zCap = {Power(made.s, zTilda)}
    BY <1>3, <2>3
  <2>6. ~ProofRefused(key, proof)
    BY <1>1, <1>7 DEF AgreeOnCovered
  <2> HIDE DEF values, madeValues, zCap, caps, tildas
  <2> QED
    BY <1>2, <2>2, <2>3, <2>4, <2>5, <2>6
<1> QED
  BY <1>6, <1>7 DEF proof, made

(***************************************************************************)
(* A proof that is accepted, whoever made it, answers for what it covers:  *)
(* z and every element of r but perhaps that of the master secret are      *)
(* powers of the key's base with the exponents of the answers, unless      *)
(* commitments were hashed that no tilda was chosen for.  No proof answers *)
(* for rctxt.                                                              *)
(***************************************************************************)
THEOREM AcceptedAnswersCovered ==
  ASSUME NEW key, NEW proof, ProofAccepted(key, proof),
         proof.c.zTilda # {},
         \A k \in DOMAIN proof.xr_cap : proof.c.tildas[k] # {}
  PROVE  /\ key.z = Power(key.s, proof.xz_cap.x)
         /\ \A a \in DOMAIN key.r \ {MasterSecret} :
              \E k \in DOMAIN proof.xr_cap :
                proof.xr_cap[k].attr = a /\ key.r[a] = Power(key.s, proof.xr_cap[k].x)
<1> DEFINE caps == [k \in DOMAIN proof.xr_cap |->
                      Cap(key.s, key.r[proof.xr_cap[k].attr], proof.xr_cap[k])]
<1>1. proof.c.zTilda = Cap(key.s, key.z, proof.xz_cap) /\ proof.c.tildas = caps
  BY DEF ProofAccepted, Challenge
<1>2. key.z = Power(key.s, proof.xz_cap.x)
  <2> HIDE DEF caps
  <2>1. Cap(key.s, key.z, proof.xz_cap) # {}
    BY <1>1
  <2> QED
    BY <2>1, CapOf
<1>3. \A k \in DOMAIN proof.xr_cap :
        key.r[proof.xr_cap[k].attr] = Power(key.s, proof.xr_cap[k].x)
  <2> TAKE k \in DOMAIN proof.xr_cap
  <2>1. Cap(key.s, key.r[proof.xr_cap[k].attr], proof.xr_cap[k]) # {}
    BY <1>1
  <2> QED
    BY <2>1, CapOf
<1>4. \A a \in DOMAIN key.r \ {MasterSecret} : a \in Names(proof)
  BY DEF ProofAccepted, ProofRefused
<1> QED
  BY <1>2, <1>3, <1>4 DEF Names
=============================================================================
