--------------------------- MODULE MCKeyCorrectness ----------------------------
(***************************************************************************)
(* KeyCorrectness for every two keys over at most two attributes and the   *)
(* master secret, and every order of the maps.                             *)
(***************************************************************************)
LOCAL INSTANCE Naturals

KC == INSTANCE KeyCorrectness WITH MasterSecret <- "ms", Default <- <<>>

Exponents == {1, 2}

\* What a key is made from: the two schemas, the base and the exponents.
Makings ==
  [schema : {{"a"}, {"a", "b"}}, nonSchema : SUBSET {"ms"}, s : {"s", "t"},
   xz : Exponents, xr : [{"a", "b", "ms"} -> Exponents], xrctxt : Exponents]

Made(m) == KC!NewPrimaryKey(m.schema, m.nonSchema, m.s, m.xz, m.xr, m.xrctxt)

MadeKeys == {Made(m) : m \in Makings}

\* Keys as JSON of the first version has them, the master secret beside r,
\* or beside an r that has another element for it.
ReadKeys ==
  UNION {{KC!Deserialize(key.s, key.z, r, key.rctxt, key.r["ms"]) :
            r \in {[a \in DOMAIN key.r \ {"ms"} |-> key.r[a]],
                   [key.r EXCEPT !["ms"] = KC!Power(key.s, 1)]}} :
           key \in {k \in MadeKeys : "ms" \in DOMAIN k.r}}

(***************************************************************************)
(* A proof is accepted for the key it was made for, in whatever order      *)
(* either side runs through the map, and for no key with another base, z   *)
(* or element of r; a proof that leaves out an attribute other than the    *)
(* master secret, or has one the key does not have, is refused.            *)
(***************************************************************************)
ASSUME KeyProofs ==
  \A m \in {n \in Makings : n.s = "s" /\ n.xrctxt = 1} :
    \A order \in KC!Orders(m.schema \cup m.nonSchema), key \in MadeKeys \cup ReadKeys :
      LET proof == KC!NewProof(Made(m), m.xz, m.xr, order, 3, [a \in DOMAIN m.xr |-> 4])
      IN  KC!ProofAccepted(key, proof) <=> KC!AgreeOnCovered(key, Made(m))

(***************************************************************************)
(* A key that is read is the key that was written, with the master secret  *)
(* beside r as the first version writes it, or in r.                       *)
(***************************************************************************)
ASSUME ReadBack ==
  /\ ReadKeys \subseteq MadeKeys
  /\ \A key \in MadeKeys : KC!Deserialize(key.s, key.z, key.r, key.rctxt, <<>>) = key

\* Accepted proofs leave rctxt open.
ASSUME RctxtOpen ==
  \E key, made \in MadeKeys : key.rctxt # made.rctxt /\ KC!AgreeOnCovered(key, made)
=============================================================================
