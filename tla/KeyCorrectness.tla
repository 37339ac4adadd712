---------------------------- MODULE KeyCorrectness -----------------------------
(***************************************************************************)
(* The primary public key of a credential definition and the proof of its  *)
(* correctness (libursa/src/cl), which the holder checks before it blinds  *)
(* anything.                                                               *)
(*                                                                         *)
(* An element the issuer computes is a power of the key's base s (which    *)
(* stands for s and n); an answer challenge * x + x_tilda is known by x    *)
(* and x_tilda, and the challenge by the list that was hashed.  The map r  *)
(* has no order of its own: each run over it takes one, and so does each   *)
(* key that was read from JSON.  The proof lists its attributes in the     *)
(* order of the run that made it.                                          *)
(***************************************************************************)
EXTENDS Naturals, Sequences, FiniteSets

CONSTANTS
  MasterSecret,  \* the attribute "master_secret"
  Default        \* BigNumber::default(), which rms is when JSON leaves it out

Power(s, x) == <<s, x>>

PrimaryKey(s, z, r, rctxt) == [s |-> s, z |-> z, r |-> r, rctxt |-> rctxt]

NewKeysRefused(schema) == schema = {}

\* xr has an exponent for every attribute of the two schemas.
NewPrimaryKey(schema, nonSchema, s, xz, xr, xrctxt) ==
  PrimaryKey(s, Power(s, xz), [a \in schema \cup nonSchema |-> Power(s, xr[a])],
             Power(s, xrctxt))

\* JSON of the first version has the element of the master secret beside r.
\* Whatever r has for it then is overwritten.
Deserialize(s, z, r, rctxt, rms) ==
  PrimaryKey(s, z,
             IF rms = Default THEN r
             ELSE [a \in DOMAIN r \cup {MasterSecret} |-> IF a = MasterSecret THEN rms ELSE r[a]],
             rctxt)

\* The orders in which a map over S may be run through.
Orders(S) == {f \in [1 .. Cardinality(S) -> S] : \A a \in S : \E k \in DOMAIN f : f[k] = a}

\* A commitment is hashed as the set of it: the empty set is one that no
\* tilda was chosen for.
Challenge(z, values, zTilda, tildas) ==
  [z |-> z, values |-> values, zTilda |-> zTilda, tildas |-> tildas]

\* Of the key, xz and xr answer for z and r.  rctxt is neither hashed nor
\* answered for.
NewProof(key, xz, xr, order, zTilda, tilda) ==
  [c      |-> Challenge(key.z, [k \in DOMAIN order |-> key.r[order[k]]],
                        {Power(key.s, zTilda)},
                        [k \in DOMAIN order |-> {Power(key.s, tilda[order[k]])}]),
   xz_cap |-> [x |-> xz, tilda |-> zTilda],
   xr_cap |-> [k \in DOMAIN order |->
                [attr |-> order[k], x |-> xr[order[k]], tilda |-> tilda[order[k]]]]]

Names(proof) == {proof.xr_cap[k].attr : k \in DOMAIN proof.xr_cap}

\* get_pedersen_commitment of the inverse of an element and of an answer:
\* the commitment, if the answer is the exponent of the element.
Cap(s, value, answer) == {t \in {Power(s, answer.tilda)} : value = Power(s, answer.x)}

\* A proof of the first version leaves out the master secret.
ProofRefused(key, proof) ==
  \/ \E a \in DOMAIN key.r : a \notin Names(proof) /\ a # MasterSecret
  \/ ~(Names(proof) \subseteq DOMAIN key.r)

ProofAccepted(key, proof) ==
  /\ ~ProofRefused(key, proof)
  /\ LET value(k) == key.r[proof.xr_cap[k].attr]
     IN  proof.c = Challenge(key.z, [k \in DOMAIN proof.xr_cap |-> value(k)],
                             Cap(key.s, key.z, proof.xz_cap),
                             [k \in DOMAIN proof.xr_cap |->
                                Cap(key.s, value(k), proof.xr_cap[k])])

-----------------------------------------------------------------------------
(***************************************************************************)
(* What an accepted proof says: it was made for a key that had the same    *)
(* base, the same z and the same element for every attribute, but perhaps  *)
(* none for the master secret.  It says nothing of rctxt.                  *)
(***************************************************************************)
AgreeOnCovered(key, made) ==
  /\ key.s = made.s
  /\ key.z = made.z
  /\ DOMAIN made.r \subseteq DOMAIN key.r
  /\ DOMAIN key.r \subseteq DOMAIN made.r \cup {MasterSecret}
  /\ \A a \in DOMAIN made.r : key.r[a] = made.r[a]
=============================================================================
