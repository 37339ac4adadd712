----------------------------- MODULE MCAggregation ----------------------------
(***************************************************************************)
(* Aggregation for two sign keys, two generators and lists of at most two  *)
(* signatures and keys, in every combination.                              *)
(***************************************************************************)
LOCAL INSTANCE Naturals
LOCAL INSTANCE Sequences

MCSignKeys == {"x", "y"}
MCGenerators == {"g", "h"}
\* Messages and the bytes of keys are both sequences.
MCTexts == {<<"m">>, <<"n">>}

BLS == INSTANCE Aggregation
         WITH SignKeys <- MCSignKeys, Generators <- MCGenerators, Texts <- MCTexts

Lists(S) == UNION {[1 .. n -> S] : n \in 1 .. 2}

Signatures == {BLS!SignText(m, sk) : m \in MCTexts \cup {<<"g", "x">>}, sk \in MCSignKeys}

(***************************************************************************)
(* verify_multi_sig accepts exactly the lists of keys that come in pairs   *)
(* with the signatures.  (The C interface refuses empty arrays, and how    *)
(* AMCL pairs a point at infinity is not considered.)                      *)
(***************************************************************************)
ASSUME MultiSignatures ==
  \A signatures \in Lists(Signatures), keys \in Lists(BLS!VerKeys) :
    \A m \in MCTexts, gen \in MCGenerators :
      BLS!VerifyMultiSig(BLS!MultiSignature(signatures), m, keys, gen)
        <=> BLS!Paired(signatures, m, keys, gen)

(***************************************************************************)
(* A signature is accepted only for its message, signer and generator, and *)
(* even on the bytes of a verification key it is no proof of possession.   *)
(***************************************************************************)
ASSUME SignaturesAndProofs ==
  \A m \in BLS!Messages, sk \in MCSignKeys, key \in BLS!VerKeys, gen \in MCGenerators :
    /\ \A n \in BLS!Messages :
         BLS!VerifyText(BLS!SignText(m, sk), n, key, gen)
           <=> m = n /\ key = BLS!NewVerKey(gen, sk)
    /\ \A other \in BLS!VerKeys :
         BLS!VerifyPossession(BLS!ProvePossession(other, sk), key, gen)
           <=> other = key /\ key = BLS!NewVerKey(gen, sk)
    /\ ~BLS!VerifyPossession(BLS!SignText(m, sk), key, gen)
=============================================================================
