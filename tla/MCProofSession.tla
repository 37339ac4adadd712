---------------------------- MODULE MCProofSession ----------------------------
(***************************************************************************)
(* ProofSession on two small worlds: linking (two issuers, a credential of *)
(* another holder) and showing (revealed attributes, predicates, schemas   *)
(* and keys that do not match, revocation).  link is the master secret.    *)
(***************************************************************************)
EXTENDS ProofSession

MCKeyAttrs == [k1 |-> {"link", "age"}, k2 |-> {"link", "age"}]

Full == [attrs |-> {"age"}, nonSchema |-> {"link"}]
Bare == [attrs |-> {}, nonSchema |-> {"link"}]
Open == [attrs |-> {"age", "link"}, nonSchema |-> {}]
MCSchemas == {Full, Bare, Open}

Nothing == [revealed |-> {}, predicates |-> {}]
Reveal(A) == [revealed |-> A, predicates |-> {}]
AtLeast(a, m) == [revealed |-> {}, predicates |-> {[attr |-> a, min |-> m]}]
RevealAndBound(a, m) == [revealed |-> {a}, predicates |-> {[attr |-> a, min |-> m]}]
MCRequests ==
  {Nothing, Reveal({"age"}), Reveal({"link"}), AtLeast("age", 2), AtLeast("age", 4),
   RevealAndBound("link", 1), RevealAndBound("age", 1)}

Cred(key, link, usable, revocable, index) ==
  [key |-> key, values |-> [link |-> link, age |-> 3], signed |-> {"link", "age"},
   usable |-> usable, revocable |-> revocable, index |-> index]

\* Two states of the registry: index 1 was revoked after the first.
Earlier == {1, 2}
Later == {2}
MCRegistries == {Earlier, Later}

\* A credential issued with age as a commitment: it is not in the signature.
Committed == [Cred("k1", 7, "primary", FALSE, 0) EXCEPT !.signed = {"link"}]
\* The same, its holder leaving the committed value out when proving.
Trimmed == [Committed EXCEPT !.values = [link |-> 7]]

Ask(key, request, schema, reg) ==
  [key |-> key, request |-> request, schema |-> schema, reg |-> reg]
Show(cred, request, schema, reg, witness) ==
  [cred |-> cred, request |-> request, schema |-> schema, reg |-> reg, witness |-> witness]

-----------------------------------------------------------------------------
\* Linking: the holder (7) has a credential of each issuer, and one of k2 that
\* was issued to somebody else (8).  link is revealed and bounded at once too.
Mine1 == Cred("k1", 7, "primary", FALSE, 0)
Mine2 == Cred("k2", 7, "primary", FALSE, 0)
Theirs2 == Cred("k2", 8, "primary", FALSE, 0)
LinkCredentials == {Mine1, Mine2, Theirs2}
LinkAddCalls ==
  {Show(c, Nothing, Full, None, None) : c \in LinkCredentials}
  \cup {Show(Mine1, RevealAndBound("link", 1), Open, None, None)}
LinkVerifierCalls == {Ask("k1", Nothing, Full, None), Ask("k2", Nothing, Full, None)}

-----------------------------------------------------------------------------
\* Requests: credentials whose signature was not processed or does not cover
\* the schema, and requests that fail in every place they can.  Revocation: a
\* credential in use in both registries, one revoked between the two (whose
\* own index is all that its two witnesses could differ in), and one whose
\* signature was processed without the witness.
Spoilt == Cred("k1", 7, "no", FALSE, 0)
Live == Cred("k1", 7, "fully", TRUE, 2)
Revoked == Cred("k1", 7, "fully", TRUE, 1)
HalfDone == Cred("k1", 7, "primary", TRUE, 2)
ShowCredentials == {Mine1, Spoilt, Committed, Trimmed, Live, Revoked, HalfDone}

ShowAddCalls ==
  {Show(Mine1, r, Full, None, None) :
     r \in {Nothing, Reveal({"age"}), AtLeast("age", 2), AtLeast("age", 4),
            RevealAndBound("link", 1), RevealAndBound("age", 1)}}
  \cup {Show(Mine1, Reveal({"link"}), Open, None, None), Show(Spoilt, Nothing, Full, None, None),
        Show(Committed, Nothing, Full, None, None), Show(Trimmed, Nothing, Bare, None, None)}
  \cup {Show(Live, Nothing, Full, g, w) : g \in MCRegistries, w \in {Later, None}}
  \cup {Show(Revoked, Nothing, Full, g, w) : g \in MCRegistries, w \in MCRegistries}
  \cup {Show(HalfDone, Nothing, Full, Earlier, Earlier),
        Show(Live, AtLeast("age", 4), Full, Earlier, Earlier)}

ShowVerifierCalls ==
  {Ask("k1", Nothing, Full, g) : g \in MCRegistries \cup {None}}
  \cup {Ask("k1", r, Full, None) : r \in {Reveal({"age"}), AtLeast("age", 2)}}
  \cup {Ask("k1", Nothing, Bare, None), Ask("k1", Reveal({"link"}), Open, None),
        Ask("k2", Nothing, Full, None)}
=============================================================================
