------------------------------- MODULE Issuance -------------------------------
(***************************************************************************)
(* Issuing a credential in libursa/src/cl: the holder blinds its secrets,  *)
(* the issuer signs them with the values it knows, and the holder          *)
(* processes the signature, in place.                                      *)
(*                                                                         *)
(* Every call of blind_credential_secrets draws fresh blinding factors     *)
(* v_prime and vr_prime; call number b of it is their name here.  The      *)
(* exponents v and vr_prime_prime of a signature are the issuer's own      *)
(* share plus the factors the holder has added to it, and are modelled by  *)
(* how often each factor was added: the equations hold when the factor the *)
(* secrets were blinded with was added once and no other was.  A message   *)
(* that is lost, late or repeated is a call made with another argument.    *)
(***************************************************************************)
EXTENDS Naturals, Sequences, FiniteSets

CONSTANTS
  Keys,          \* the credential definitions of the issuer
  RevocKeys,     \* those with a revocation part (r_key is Some)
  Nonces,        \* the nonces that either side may draw
  Secrets,       \* the values of the hidden attributes
  KnownValues,   \* the values both sides know
  MaxBlinded,    \* bound: calls of blind_credential_secrets
  MaxSigned,     \* bound: credentials signed
  MaxCalls       \* bound: calls of process_credential_signature on one

ASSUME KeysAssumption == RevocKeys \subseteq Keys
ASSUME CountsAssumption == MaxBlinded \in Nat /\ MaxSigned \in Nat /\ MaxCalls \in Nat

VARIABLES
  blinded,      \* the blinded secrets the holder has made, oldest first
  signatures,   \* the signature objects in the holder's hands
  outcome       \* what the last process call on each of them returned

vars == <<blinded, signatures, outcome>>

BlindedSecrets == [key : Keys, nonce : Nonces, secret : Secrets]

\* How often each blinding factor has been added to an exponent.
Exponent == [1 .. MaxBlinded -> 0 .. MaxCalls]
Unblinded(b) == [c \in 1 .. MaxBlinded |-> IF c = b THEN 1 ELSE 0]
Untouched == [c \in 1 .. MaxBlinded |-> 0]
\* Mutant of AddFactor: the factor is added twice.
AddTwice(v, b) == [v EXCEPT ![b] = @ + 2]

AddFactor(v, b) == [v EXCEPT ![b] = @ + 1]
Added(v) == {c \in 1 .. MaxBlinded : v[c] > 0}

\* of: the blinded secrets that were signed; nonce: that of the signature
\* correctness proof; v: of p_credential; vr: vr_prime_prime of r_credential.
Signature ==
  [key : Keys, of : 1 .. MaxBlinded, known : KnownValues, nonce : Nonces,
   revocable : BOOLEAN, v : Exponent, vr : Exponent]

Outcomes == {"none", "ok", "ok_revoc", "error"}

-----------------------------------------------------------------------------
Init == blinded = <<>> /\ signatures = <<>> /\ outcome = <<>>

\* u and ur: the secrets as powers of the elements of the key, times the
\* fresh factors of this call.
NewSecrets(key, secret) == [key |-> key, secret |-> secret]

\* The same with the proof of their correctness, whose challenge hashes the
\* issuer's nonce.
WithProof(new, nonce) == [key |-> new.key, nonce |-> nonce, secret |-> new.secret]

\* Prover::blind_credential_secrets with a nonce from the issuer.
BlindCredentialSecrets(key, nonce, secret) ==
  /\ Len(blinded) < MaxBlinded
  /\ blinded' = Append(blinded, WithProof(NewSecrets(key, secret), nonce))
  /\ UNCHANGED <<signatures, outcome>>

\* The issuer recomputes the challenge of the blinded secrets' proof.
BlindedSecretsCheck(b, key, nonce) == blinded[b].key = key /\ blinded[b].nonce = nonce

\* What the issuer signs: the product of the blinded secrets and the known
\* values, with exponents nobody has added to, and a proof for the nonce.
NewSignature(b, key, known, issuanceNonce, revoc) ==
  [key |-> key, of |-> b, known |-> known, nonce |-> issuanceNonce,
   revocable |-> revoc, v |-> Untouched, vr |-> Untouched]

\* Mutant of SignCredential: the proof of the blinded secrets is not checked.
SignUnchecked(b, key, credNonce, known, issuanceNonce, revoc) ==
  /\ Len(signatures) < MaxSigned
  /\ revoc => key \in RevocKeys
  /\ signatures' = Append(signatures, NewSignature(b, key, known, issuanceNonce, revoc))
  /\ outcome' = Append(outcome, "none")
  /\ UNCHANGED blinded

\* Issuer::sign_credential, or sign_credential_with_revoc when revoc; where
\* they return an error nothing changes.
SignCredential(b, key, credNonce, known, issuanceNonce, revoc) ==
  /\ Len(signatures) < MaxSigned
  /\ BlindedSecretsCheck(b, key, credNonce)
  /\ revoc => key \in RevocKeys
  /\ signatures' = Append(signatures, NewSignature(b, key, known, issuanceNonce, revoc))
  /\ outcome' = Append(outcome, "none")
  /\ UNCHANGED blinded

-----------------------------------------------------------------------------
(***************************************************************************)
(* Prover::process_credential_signature.  b names the blinding factors,    *)
(* secret and known are the credential values it is given, key is the      *)
(* public key and nonce the nonce of the issuance; witness is              *)
(* "absent" when one of rev_key_pub, rev_reg and witness is None, "fits"   *)
(* when the pairing of _test_witness_signature holds, "stale" otherwise.   *)
(***************************************************************************)
Arguments ==
  [b : 1 .. MaxBlinded, secret : Secrets, known : KnownValues, key : Keys,
   nonce : Nonces, witness : {"absent", "stale", "fits"}]

\* Mutant of QMatches: the exponent is left out of the equation.
QOfValues(sig, v, arg) ==
  /\ arg.secret = blinded[sig.of].secret
  /\ arg.known = sig.known
  /\ blinded[sig.of].key = sig.key
  /\ arg.key = sig.key

\* q = q': the values are those signed, and v is the exponent they need.
QMatches(sig, v, arg) ==
  /\ v = Unblinded(sig.of)
  /\ arg.secret = blinded[sig.of].secret
  /\ arg.known = sig.known
  /\ blinded[sig.of].key = sig.key
  /\ arg.key = sig.key

\* _check_signature_correctness_proof.
CheckSignature(sig, v, arg) == QMatches(sig, v, arg) /\ sig.nonce = arg.nonce

\* The five optional arguments of the revocation part are all Some.
WithRevocation(sig, arg) ==
  /\ sig.revocable
  /\ blinded[arg.b].key \in RevocKeys
  /\ arg.key \in RevocKeys
  /\ arg.witness # "absent"

\* _test_witness_signature.
TestWitness(sig, vr, arg) == arg.witness = "fits" /\ vr = Unblinded(sig.of)

\* Mutant of Process: the checks come before the assignments.
ProcessChecksFirst(s, arg) ==
  LET sig    == signatures[s]
      v      == AddFactor(sig.v, arg.b)
      vr     == AddFactor(sig.vr, arg.b)
      ok     == CheckSignature(sig, v, arg)
      revoc  == ok /\ WithRevocation(sig, arg)
      passed == ok /\ (revoc => TestWitness(sig, vr, arg))
  IN  /\ signatures' = [signatures EXCEPT
           ![s].v  = IF passed THEN v ELSE @,
           ![s].vr = IF passed /\ revoc THEN vr ELSE @]
      /\ outcome' = [outcome EXCEPT ![s] =
           IF ~passed THEN "error" ELSE IF revoc THEN "ok_revoc" ELSE "ok"]

\* Mutant of Process: the revocation part does not wait for the primary one.
ProcessBoth(s, arg) ==
  LET sig    == signatures[s]
      v      == AddFactor(sig.v, arg.b)
      vr     == AddFactor(sig.vr, arg.b)
      revoc  == WithRevocation(sig, arg)
      passed == CheckSignature(sig, v, arg) /\ (revoc => TestWitness(sig, vr, arg))
  IN  /\ signatures' = [signatures EXCEPT
           ![s].v  = v,
           ![s].vr = IF revoc THEN vr ELSE @]
      /\ outcome' = [outcome EXCEPT ![s] =
           IF ~passed THEN "error" ELSE IF revoc THEN "ok_revoc" ELSE "ok"]

Process(s, arg) ==
  LET sig    == signatures[s]
      v      == AddFactor(sig.v, arg.b)
      vr     == AddFactor(sig.vr, arg.b)
      ok     == CheckSignature(sig, v, arg)
      revoc  == ok /\ WithRevocation(sig, arg)
      passed == ok /\ (revoc => TestWitness(sig, vr, arg))
  IN  /\ signatures' = [signatures EXCEPT
           ![s].v  = v,
           ![s].vr = IF revoc THEN vr ELSE @]
      /\ outcome' = [outcome EXCEPT ![s] =
           IF ~passed THEN "error" ELSE IF revoc THEN "ok_revoc" ELSE "ok"]

WithinBounds(s) == \A c \in 1 .. MaxBlinded : signatures[s].v[c] < MaxCalls

ProcessCredentialSignature(s, arg) ==
  /\ arg.b \in DOMAIN blinded
  /\ WithinBounds(s)
  /\ Process(s, arg)
  /\ UNCHANGED blinded

-----------------------------------------------------------------------------
Next ==
  \/ \E key \in Keys, nonce \in Nonces, secret \in Secrets :
       BlindCredentialSecrets(key, nonce, secret)
  \/ \E b \in DOMAIN blinded, key \in Keys, credNonce, issuanceNonce \in Nonces,
        known \in KnownValues, revoc \in BOOLEAN :
       SignCredential(b, key, credNonce, known, issuanceNonce, revoc)
  \/ \E s \in DOMAIN signatures, arg \in Arguments : ProcessCredentialSignature(s, arg)

Spec == Init /\ [][Next]_vars
-----------------------------------------------------------------------------
TypeOK ==
  /\ blinded \in Seq(BlindedSecrets) /\ Len(blinded) <= MaxBlinded
  /\ signatures \in Seq(Signature)
  /\ outcome \in Seq(Outcomes) /\ Len(outcome) = Len(signatures)

\* What a proof made from the signature needs: a primary proof verifies, and
\* a proof of non-revocation does.
PrimaryUsable(sig) == sig.v = Unblinded(sig.of)
FullyUsable(sig) == PrimaryUsable(sig) /\ (sig.revocable => sig.vr = Unblinded(sig.of))

(***************************************************************************)
(* process_credential_signature returns Ok only for a signature a proof    *)
(* can be made from, and with the revocation arguments only when a proof   *)
(* of non-revocation can be made as well, however many calls have failed   *)
(* before it and whatever they were given.                                 *)
(***************************************************************************)
OkIsUsable ==
  \A s \in DOMAIN signatures :
    /\ outcome[s] \in {"ok", "ok_revoc"} => PrimaryUsable(signatures[s])
    /\ outcome[s] = "ok_revoc" => FullyUsable(signatures[s])

(***************************************************************************)
(* An error does not leave the signature as it was: the blinding factor is *)
(* added before the checks (prover.rs:238, 653).  So a call on an object   *)
(* that an earlier call was made on returns an error and leaves it         *)
(* unusable, whether the earlier call failed, succeeded, or succeeded      *)
(* without the revocation arguments.                                       *)
(***************************************************************************)
Called(s) == signatures'[s] # signatures[s] \/ outcome'[s] # outcome[s]

OneCallOnly ==
  [][\A s \in DOMAIN signatures :
       outcome[s] # "none" /\ Called(s) =>
         outcome'[s] = "error" /\ ~PrimaryUsable(signatures[s])']_vars

(***************************************************************************)
(* The issuer never signs what the holder cannot use: for every signature  *)
(* that no call was made on, some arguments make it fully usable.          *)
(***************************************************************************)
Usable(sig, arg) ==
  /\ CheckSignature(sig, AddFactor(sig.v, arg.b), arg)
  /\ sig.revocable =>
       WithRevocation(sig, arg) /\ TestWitness(sig, AddFactor(sig.vr, arg.b), arg)

SignedIsUsable ==
  \A s \in DOMAIN signatures :
    outcome[s] = "none" => \E arg \in Arguments : Usable(signatures[s], arg)

(***************************************************************************)
(* The revocation exponent never gets ahead of the primary one: no call    *)
(* adds vr_prime where the primary checks have not passed, so a signature  *)
(* whose non-revocation part is unblinded has carried a valid one.         *)
(***************************************************************************)
RevocationAfterPrimary ==
  \A s \in DOMAIN signatures :
    /\ Added(signatures[s].vr) \subseteq {signatures[s].of}
    /\ Added(signatures[s].vr) # {} =>
         signatures[s].v[signatures[s].of] > 0 /\ signatures[s].revocable
    /\ signatures[s].vr[signatures[s].of] <= 1
=============================================================================
