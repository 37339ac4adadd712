---------------------------- MODULE SignedMessages ----------------------------
(***************************************************************************)
(* What PS and BBS signatures of libzmix/src/signatures have in common: a  *)
(* signature of a key covers one value for each of the message positions   *)
(* of the key.  Some positions may have been filled by a commitment of the *)
(* holder, which also holds a blinding; the messages that the signer knows *)
(* fill the last positions, and both sums are added.  Position i here is   *)
(* index i - 1 of the code.                                                *)
(***************************************************************************)
EXTENDS KnowledgeProof, Integers, FiniteSets

CONSTANTS
  Count,          \* how many messages each public key is for
  SignBlindings,  \* the blindings of commitments
  None            \* Option::None

Positions(key) == 1 .. Count[key]

\* Mutant of KnownAt: the known messages fill the first positions.
KnownFromFirst(key, messages, i) == IF i <= Len(messages) THEN messages[i] ELSE 0

\* The known message at position i: the list is aligned with the last one.
KnownAt(key, messages, i) ==
  LET offset == Count[key] - Len(messages)
  IN  IF i > offset THEN messages[i - offset] ELSE 0

\* Mutant of MakeSignature: only as many positions as there are known messages.
MakeShortSignature(key, com, messages) ==
  [key |-> key,
   at |-> [i \in 1 .. Len(messages) |-> messages[i] + (IF com = None THEN 0 ELSE com.at[i])],
   left |-> [b \in SignBlindings |-> IF com # None /\ com.blinding = b THEN 1 ELSE 0]]

\* at: the exponent of the generator of each position; left: how often each
\* blinding is in the signature and not yet taken out.
MakeSignature(key, com, messages) ==
  [key |-> key,
   at |-> [i \in Positions(key) |->
            KnownAt(key, messages, i) + (IF com = None THEN 0 ELSE com.at[i])],
   left |-> [b \in SignBlindings |-> IF com # None /\ com.blinding = b THEN 1 ELSE 0]]

GetUnblindedSignature(sig, b) == [sig EXCEPT !.left[b] = @ - 1]

\* The pairing equation of a signature on a list of messages.
Covers(sig, key, messages) ==
  /\ sig.key = key
  /\ sig.at = messages
  /\ \A b \in SignBlindings : sig.left[b] = 0

-----------------------------------------------------------------------------
\* The hidden positions as the loops over the generators meet them: hidden[n]
\* are those among the first n positions.
HiddenSeq(key, revealed) ==
  LET hidden[n \in 0 .. Count[key]] ==
        IF n = 0 THEN <<>>
        ELSE IF n \in revealed THEN hidden[n - 1] ELSE Append(hidden[n - 1], n)
  IN  hidden[Count[key]]

\* The blindings of the hidden messages: given in the order of their positions,
\* or drawn (draw names the proof they are drawn for).
HiddenBlindings(key, revealed, given, draw) ==
  [k \in 1 .. Cardinality(Positions(key) \ revealed) |->
    IF given = None THEN <<"drawn", draw, k>> ELSE given[k]]

\* The checks of PoKOfSignature::init, the same in both schemes.
ShowRefused(key, messages, given, revealed) ==
  \/ Len(messages) # Count[key]
  \/ \E i \in revealed : i > Len(messages)
  \/ given # None /\ Len(given) # Len(messages) - Cardinality(revealed)
=============================================================================
