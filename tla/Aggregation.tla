----------------------------- MODULE Aggregation ------------------------------
(***************************************************************************)
(* BLS signatures and multi-signatures (libursa/src/bls/mod.rs).           *)
(*                                                                         *)
(* The keys of signers are independent random numbers and hashes are       *)
(* independent points, so a point is known by how often each product is in *)
(* it: the points of G1 are sums of a hash times a sign key, those of G2   *)
(* sums of a generator times a sign key, and a pairing multiplies out.     *)
(* Every sign key here was made by the library and signs for itself.       *)
(***************************************************************************)
EXTENDS Naturals, Sequences, FiniteSets

CONSTANTS
  SignKeys,    \* the sign keys
  Generators,  \* the generators of G2
  Texts        \* the messages of applications

VerKeys == Generators \X SignKeys

\* What is hashed: a message, which may be the bytes of a verification key.
Messages == Texts \cup VerKeys

Hashes == {"Sha256", "Keccak256"} \X Messages
Products == Hashes \X SignKeys

HashOf(message, hasher) == <<hasher, message>>

\* Generator::mul of VerKey::new; the bytes of the key stand for the key.
NewVerKey(gen, sk) == <<gen, sk>>

GenSignature(message, sk, hasher) == <<HashOf(message, hasher), sk>>

SignText(message, sk) == GenSignature(message, sk, "Sha256")

ProvePossession(key, sk) == GenSignature(key, sk, "Keccak256")

At(list, p) == {k \in DOMAIN list : list[k] = p}

\* The sum, from the point at infinity, of a list of products.
SumOf(list, products) == [p \in products |-> Cardinality(At(list, p))]

MultiSignature(signatures) == SumOf(signatures, Products)

(***************************************************************************)
(* pair2: e(signature, -gen) * e(hash, key) = 1, where signature and key   *)
(* are sums.                                                               *)
(***************************************************************************)
VerifySignature(signature, message, key, gen, hasher) ==
  \A h \in Hashes, g \in Generators, sk \in SignKeys :
    (IF g = gen THEN signature[<<h, sk>>] ELSE 0)
      = (IF h = HashOf(message, hasher) THEN key[<<g, sk>>] ELSE 0)

VerifyText(signature, message, key, gen) ==
  VerifySignature(SumOf(<<signature>>, Products), message, SumOf(<<key>>, VerKeys), gen, "Sha256")

VerifyPossession(pop, key, gen) ==
  VerifySignature(SumOf(<<pop>>, Products), key, SumOf(<<key>>, VerKeys), gen, "Keccak256")

VerifyMultiSig(multi, message, keys, gen) ==
  VerifySignature(multi, message, SumOf(keys, VerKeys), gen, "Sha256")

-----------------------------------------------------------------------------
(***************************************************************************)
(* What a multi-signature promises: every signature in it is one on the    *)
(* message, and signatures and verification keys, whatever their orders,   *)
(* come in pairs of one signer; a key that is listed twice has signed      *)
(* twice.                                                                  *)
(***************************************************************************)
Paired(signatures, message, keys, gen) ==
  \E p \in [DOMAIN keys -> DOMAIN signatures] :
    /\ \A k \in DOMAIN signatures : \E j \in DOMAIN keys : p[j] = k
    /\ \A i, j \in DOMAIN keys : p[i] = p[j] => i = j
    /\ \A j \in DOMAIN keys : \E sk \in SignKeys :
         keys[j] = NewVerKey(gen, sk) /\ signatures[p[j]] = SignText(message, sk)
=============================================================================
