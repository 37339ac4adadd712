----------------------------- MODULE BBSSignature -----------------------------
(***************************************************************************)
(* BBS+ signatures (libzmix/src/signatures/bbs).  A proof of knowledge has *)
(* a randomised signature (a_prime, a_bar, d) and two proofs: one over     *)
(* a_prime and h0, one over d, h0 and the generators of the hidden         *)
(* messages.  What the prover put into b and d is kept under sum: the      *)
(* messages of all positions, and those it revealed.                       *)
(***************************************************************************)
EXTENDS SignedMessages

H0(key) == <<"h0", key>>
H(key, i) == <<"h", key, i>>
APrime(draw) == <<"a_prime", draw>>
D(draw) == <<"d", draw>>

\* Without a commitment, fewer messages than the key is for are accepted.
SignRefused(key, com, messages) ==
  \/ com = None /\ messages = <<>>
  \/ Len(messages) > Count[key]

Verify(sig, key, messages) ==
  IF Len(messages) # Count[key] THEN "error"
  ELSE IF Covers(sig, key, messages) THEN "true" ELSE "false"

Bases(key, revealed, draw) ==
  LET hidden == HiddenSeq(key, revealed)
  IN  <<D(draw), H0(key)>> \o [k \in DOMAIN hidden |-> H(key, hidden[k])]

Init(sig, key, messages, given, revealed, draw) ==
  LET hidden  == HiddenSeq(key, revealed)
      secrets == <<<<"-r3", draw>>, <<"s_prime", draw>>>>
                   \o [k \in DOMAIN hidden |-> <<"m", messages[hidden[k]]>>]
      blind   == <<<<"drawn", draw, -1>>, <<"drawn", draw, 0>>>>
                   \o HiddenBlindings(key, revealed, given, draw)
  IN  [sig |-> sig, draw |-> draw,
       sum |-> [key |-> key, messages |-> messages, revealed |-> revealed],
       pok1 |-> CommitAll(<<APrime(draw), H0(key)>>,
                          <<<<"drawn", draw, -3>>, <<"drawn", draw, -2>>>>),
       secrets1 |-> <<<<"-e", draw>>, <<"r2", draw>>>>,
       pok2 |-> CommitAll(Bases(key, revealed, draw), blind),
       secrets2 |-> secrets]

Prove(pok, challenge) ==
  [sig |-> pok.sig, draw |-> pok.draw, sum |-> pok.sum,
   proof1 |-> GenProof(pok.pok1, challenge, pok.secrets1),
   proof2 |-> GenProof(pok.pok2, challenge, pok.secrets2)]

\* e(a_prime, w) = e(a_bar, g2): b was computed from what the signature covers.
PairingHolds(proof, key) ==
  proof.sig.key = key /\ Covers(proof.sig, proof.sum.key, proof.sum.messages)

\* The messages that the loop over the positions finds revealed.
Disclosed(key, revealed) == [i \in DOMAIN revealed \cap Positions(key) |-> revealed[i]]

\* Mutant of Opened: the revealed messages are not compared.
OpenedAnyhow(proof, key, revealed) ==
  proof.sum.key = key /\ DOMAIN Disclosed(key, revealed) = proof.sum.revealed

\* The secrets sum up to the inverse of g1 and the revealed messages.
Opened(proof, key, revealed) ==
  /\ proof.sum.key = key
  /\ Disclosed(key, revealed) = [i \in proof.sum.revealed |-> proof.sum.messages[i]]

VerifyProof(proof, key, revealed, challenge) ==
  LET bases1 == <<APrime(proof.draw), H0(key)>>
      bases2 == Bases(key, DOMAIN revealed, proof.draw)
  IN  IF ~(DOMAIN revealed \subseteq Positions(key)) THEN "error"
      ELSE IF ~PairingHolds(proof, key) THEN "false"
      ELSE IF ~VerifyHolds(proof.proof1, bases1, proof.sum.key = key, challenge) THEN "false"
      ELSE IF VerifyRefused(proof.proof2, bases2) THEN "error"
      ELSE IF VerifyHolds(proof.proof2, bases2, Opened(proof, key, revealed), challenge)
           THEN "true" ELSE "false"

ResponseAt(proof, revealed, i) ==
  proof.proof2.responses[2 + Cardinality({j \in 1 .. i : j \notin revealed})]
=============================================================================
