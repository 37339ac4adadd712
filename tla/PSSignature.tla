----------------------------- MODULE PSSignature -----------------------------
(***************************************************************************)
(* Pointcheval-Sanders signatures (libzmix/src/signatures/ps): signing,    *)
(* verifying, and proving knowledge of a signature and its hidden messages. *)
(* The generators of a proof are g_tilde and the Y_tilde of the hidden     *)
(* positions.  The randomised signature of a proof covers what the         *)
(* signature covers, and t, which J cancels.  Signatures with an identity  *)
(* element, which verify rejects at once, are not made by the library.     *)
(***************************************************************************)
EXTENDS SignedMessages

G == <<"g_tilde">>
Y(key, i) == <<"Y_tilde", key, i>>
Message(m) == <<"m", m>>

SignRefused(key, com, messages) ==
  IF com = None THEN Len(messages) # Count[key] ELSE Len(messages) >= Count[key]

Verify(sig, key, messages) ==
  IF Len(messages) # Count[key] THEN "error"
  ELSE IF Covers(sig, key, messages) THEN "true" ELSE "false"

Bases(key, revealed) ==
  LET hidden == HiddenSeq(key, revealed)
  IN  <<G>> \o [k \in DOMAIN hidden |-> Y(key, hidden[k])]

\* Mutant of Init: the blinding of t is put behind those of the messages.
InitBlindingLast(sig, key, messages, given, revealed, draw) ==
  LET hidden  == HiddenSeq(key, revealed)
      secrets == <<<<"t", draw>>>> \o [k \in DOMAIN hidden |-> Message(messages[hidden[k]])]
      blind   == HiddenBlindings(key, revealed, given, draw) \o <<<<"drawn", draw, 0>>>>
  IN  [sig |-> sig, secrets |-> secrets,
       J |-> Combine(Bases(key, revealed), secrets),
       pok |-> CommitAll(Bases(key, revealed), blind)]

Init(sig, key, messages, given, revealed, draw) ==
  LET hidden  == HiddenSeq(key, revealed)
      secrets == <<<<"t", draw>>>> \o [k \in DOMAIN hidden |-> Message(messages[hidden[k]])]
      blind   == <<<<"drawn", draw, 0>>>> \o HiddenBlindings(key, revealed, given, draw)
  IN  [sig |-> sig, secrets |-> secrets,
       J |-> Combine(Bases(key, revealed), secrets),
       pok |-> CommitAll(Bases(key, revealed), blind)]

Prove(pok, challenge) ==
  [sig |-> pok.sig, J |-> pok.J, proof |-> GenProof(pok.pok, challenge, pok.secrets)]

\* The exponent of Y_tilde[i] in J and the revealed messages together.
Exponent(proof, key, revealed, i) ==
  (IF Y(key, i) \in DOMAIN proof.J THEN proof.J[Y(key, i)][2] ELSE 0)
    + (IF i \in DOMAIN revealed THEN revealed[i] ELSE 0)

PairingHolds(proof, key, revealed) ==
  Covers(proof.sig, key, [i \in Positions(key) |-> Exponent(proof, key, revealed, i)])

\* An index that the key has no generator for is noticed last.
VerifyProof(proof, key, revealed, challenge) ==
  LET bases  == Bases(key, DOMAIN revealed)
      opened == Combine(bases, Secrets(proof.proof)) = proof.J
  IN  IF VerifyRefused(proof.proof, bases) THEN "error"
      ELSE IF ~VerifyHolds(proof.proof, bases, opened, challenge) THEN "false"
      ELSE IF ~(DOMAIN revealed \subseteq Positions(key)) THEN "panic"
      ELSE IF PairingHolds(proof, key, revealed) THEN "true" ELSE "false"

\* Where the response of the hidden message at position i is.
ResponseAt(proof, revealed, i) ==
  proof.proof.responses[1 + Cardinality({j \in 1 .. i : j \notin revealed})]
=============================================================================
