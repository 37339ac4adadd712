---------------------------- MODULE KnowledgeProof ----------------------------
(***************************************************************************)
(* libzmix/src/commitments/pok_vc.rs: a prover commits to a blinding for   *)
(* each of a sequence of generators, answers a challenge with one response *)
(* for each, and a verifier checks the responses against its own sequence  *)
(* of bases.  Everything is by position.                                   *)
(*                                                                         *)
(* Generators, blindings, secrets and challenges are names: a sum of       *)
(* products is the function from generators to scalars (the generators of  *)
(* one proof are distinct), and a response blinding - challenge * secret   *)
(* is the record of the three.  Blindings and challenges are random, so    *)
(* two such sums are equal only when they are equal scalar by scalar.      *)
(***************************************************************************)
EXTENDS Naturals, Sequences

\* The sum of scalars[k] times gens[k].
Combine(gens, scalars) ==
  [g \in {gens[k] : k \in DOMAIN gens} |-> scalars[CHOOSE k \in DOMAIN gens : gens[k] = g]]

NewCommitting == [gens |-> <<>>, blindings |-> <<>>]

Commit(committing, gen, blinding) ==
  [gens |-> Append(committing.gens, gen), blindings |-> Append(committing.blindings, blinding)]

\* The object after one commit for each of gens.
CommitAll(gens, blindings) ==
  LET after[n \in 0 .. Len(gens)] ==
        IF n = 0 THEN NewCommitting ELSE Commit(after[n - 1], gens[n], blindings[n])
  IN  after[Len(gens)]

\* finish: the blindings are fixed by their sum.
Commitment(committing) == Combine(committing.gens, committing.blindings)

GenProofRefused(committing, secrets) == Len(secrets) # Len(committing.gens)

\* Mutant of GenProof: the responses are those of the reversed secrets.
GenProofBackwards(committing, challenge, secrets) ==
  [commitment |-> Commitment(committing),
   responses |-> [k \in 1 .. Len(secrets) |->
     [blinding |-> committing.blindings[k], challenge |-> challenge,
      secret |-> secrets[Len(secrets) + 1 - k]]]]

GenProof(committing, challenge, secrets) ==
  [commitment |-> Commitment(committing),
   responses |-> [k \in 1 .. Len(secrets) |->
     [blinding |-> committing.blindings[k], challenge |-> challenge, secret |-> secrets[k]]]]

Blindings(proof) == [k \in DOMAIN proof.responses |-> proof.responses[k].blinding]
Secrets(proof) == [k \in DOMAIN proof.responses |-> proof.responses[k].secret]

VerifyRefused(proof, bases) == Len(bases) # Len(proof.responses)

\* Sum of responses[k] * bases[k] + challenge * commitment = the commitment of
\* the prover; opened says that the secrets, over these bases, sum up to the
\* commitment the verifier has.
VerifyHolds(proof, bases, opened, challenge) ==
  /\ Combine(bases, Blindings(proof)) = proof.commitment
  /\ \A k \in DOMAIN proof.responses : proof.responses[k].challenge = challenge
  /\ opened
=============================================================================
