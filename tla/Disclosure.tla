------------------------------ MODULE Disclosure ------------------------------
(***************************************************************************)
(* The use of PS and BBS signatures of libzmix: an issuer signs, blindly   *)
(* or not, the holder unblinds, proves knowledge of the signature while    *)
(* revealing some messages, and a verifier checks proofs.  The arguments   *)
(* of every call are free: other messages than the signed ones, another    *)
(* key, blindings of its own, indexes that do not exist, an old challenge. *)
(***************************************************************************)
EXTENDS Integers, Sequences, FiniteSets

CONSTANTS
  Count, SignBlindings, None,  \* as in SignedMessages
  Schemes,       \* the schemes that are considered
  SignCalls,     \* arguments of Signature::new and new_with_committed_messages
  ShowCalls,     \* arguments of PoKOfSignature::init
  VerifyCalls,   \* arguments of PoKOfSignatureProof::verify
  Challenges,
  MaxUnblind,    \* bound: unblindings of a signature
  MaxCalls       \* bound: proofs made or verified

ASSUME CountAssumption == \A key \in DOMAIN Count : Count[key] \in Nat \ {0}
ASSUME SchemesAssumption == Schemes \subseteq {"ps", "bbs"}
ASSUME SignCallsAssumption ==
  \A c \in SignCalls :
    /\ c.key \in DOMAIN Count /\ c.messages \in Seq(Nat)
    /\ c.com # None =>
         c.com.at \in [1 .. Count[c.key] -> Nat] /\ c.com.blinding \in SignBlindings
ASSUME ShowCallsAssumption ==
  \A c \in ShowCalls :
    /\ c.key \in DOMAIN Count /\ c.messages \in Seq(Nat) /\ c.revealed \subseteq Nat \ {0}
    \* Who draws blindings of his own does not draw those of the library.
    /\ c.blindings # None =>
         /\ DOMAIN c.blindings = 1 .. Len(c.blindings)
         /\ \A k \in DOMAIN c.blindings : c.blindings[k] \notin {"drawn"} \X Nat \X Int
ASSUME VerifyCallsAssumption ==
  \A c \in VerifyCalls :
    /\ c.key \in DOMAIN Count /\ c.revealed \in [DOMAIN c.revealed -> Nat]
    /\ Cardinality(DOMAIN c.revealed) <= Count[c.key]

\* A signature of any key: what it covers, and the blindings left in it.
SignaturesOf(key) ==
  [key : {key}, at : [1 .. Count[key] -> Nat], left : [SignBlindings -> Int]]

ASSUME NoneAssumption ==
  None \notin SignCalls /\ \A key \in DOMAIN Count : None \notin SignaturesOf(key)

VARIABLES
  scheme,     \* the scheme in use
  origin,     \* the call that made the signature in hand
  unblinded,  \* the blindings it was unblinded with
  sig,        \* the signature in hand
  pok,        \* the PoKOfSignature in hand, and the call that made it
  proofs,     \* the proofs made so far, with how they came about
  verdicts    \* calls of verify, and their results

vars == <<scheme, origin, unblinded, sig, pok, proofs, verdicts>>

PS == INSTANCE PSSignature
BBS == INSTANCE BBSSignature

Pick(ps, bbs) == IF scheme = "ps" THEN ps ELSE bbs

-----------------------------------------------------------------------------
Init ==
  /\ scheme \in Schemes
  /\ origin = None /\ unblinded = <<>> /\ sig = None
  /\ pok = None /\ proofs = <<>> /\ verdicts = <<>>

Sign(call) ==
  /\ sig = None
  /\ ~Pick(PS!SignRefused(call.key, call.com, call.messages),
           BBS!SignRefused(call.key, call.com, call.messages))
  /\ origin' = call /\ unblinded' = <<>>
  /\ sig' = PS!MakeSignature(call.key, call.com, call.messages)
  /\ UNCHANGED <<scheme, pok, proofs, verdicts>>

Unblind(b) ==
  /\ sig # None /\ pok = None /\ proofs = <<>> /\ Len(unblinded) < MaxUnblind
  /\ unblinded' = Append(unblinded, b)
  /\ sig' = PS!GetUnblindedSignature(sig, b)
  /\ UNCHANGED <<scheme, origin, pok, proofs, verdicts>>

\* The proofs and their draws are numbered.  The calls do not look at what was
\* proved or verified before, so a few of them show all there is.
Show(call) ==
  /\ sig # None /\ pok = None /\ Len(proofs) + Len(verdicts) < MaxCalls
  /\ ~PS!ShowRefused(call.key, call.messages, call.blindings, call.revealed)
  /\ LET draw == Len(proofs) + 1
         init == Pick(PS!Init(sig, call.key, call.messages, call.blindings, call.revealed, draw),
                      BBS!Init(sig, call.key, call.messages, call.blindings, call.revealed, draw))
     IN  pok' = [object |-> init, call |-> call]
  /\ UNCHANGED <<scheme, origin, unblinded, sig, proofs, verdicts>>

GenProof(challenge) ==
  /\ pok # None
  /\ LET proof == Pick(PS!Prove(pok.object, challenge), BBS!Prove(pok.object, challenge))
     IN  proofs' = Append(proofs,
           [proof |-> proof, call |-> pok.call, origin |-> origin, unblinded |-> unblinded,
            challenge |-> challenge])
  /\ pok' = None
  /\ UNCHANGED <<scheme, origin, unblinded, sig, verdicts>>

Verify(n, call, challenge) ==
  /\ Len(proofs) + Len(verdicts) < MaxCalls
  /\ LET proof == proofs[n].proof
     IN  verdicts' = Append(verdicts,
           [proof |-> n, call |-> call, challenge |-> challenge,
            result |-> Pick(PS!VerifyProof(proof, call.key, call.revealed, challenge),
                            BBS!VerifyProof(proof, call.key, call.revealed, challenge))])
  /\ UNCHANGED <<scheme, origin, unblinded, sig, pok, proofs>>

Next ==
  \/ \E call \in SignCalls : Sign(call)
  \/ \E b \in SignBlindings : Unblind(b)
  \/ \E call \in ShowCalls : Show(call)
  \/ \E challenge \in Challenges : GenProof(challenge)
  \/ \E n \in DOMAIN proofs, call \in VerifyCalls, challenge \in Challenges :
       Verify(n, call, challenge)

Spec == Init /\ [][Next]_vars
-----------------------------------------------------------------------------
TypeOK ==
  /\ scheme \in Schemes
  /\ sig = None <=> origin = None
  /\ sig # None => sig.at \in [1 .. Count[origin.key] -> Nat]
  /\ pok # None => pok.call \in ShowCalls
  /\ \A n \in DOMAIN verdicts :
       /\ verdicts[n].proof \in DOMAIN proofs
       /\ verdicts[n].result \in {"true", "false", "error", "panic"}

\* The blinding of the commitment was taken out, once, and no other.
Unblinded(call, taken) == taken = IF call.com = None THEN <<>> ELSE <<call.com.blinding>>

\* The signer was given the last of the messages and the holder has committed
\* itself to the others, as the tests of both schemes do.
SplitOf(call, messages) ==
  LET known == Len(call.messages)
      first == Count[call.key] - known
  IN  /\ Len(messages) = Count[call.key]
      /\ call.messages = SubSeq(messages, first + 1, Len(messages))
      /\ call.com = None => first = 0
      /\ call.com # None =>
           call.com.at = [i \in 1 .. Count[call.key] |-> IF i <= first THEN messages[i] ELSE 0]

VerifySignature(messages, key) ==
  Pick(PS!Verify(sig, key, messages), BBS!Verify(sig, key, messages))

(***************************************************************************)
(* A blind signature, unblinded, verifies for the committed messages       *)
(* followed by those the signer knew, under both schemes, and for no other *)
(* list; before it is unblinded, or unblinded with another blinding or     *)
(* twice, it verifies for none.                                            *)
(***************************************************************************)
BlindSigned ==
  \A call \in ShowCalls :
    sig # None /\ SplitOf(origin, call.messages) =>
      \A key \in DOMAIN Count, other \in {c.messages : c \in ShowCalls} :
        VerifySignature(other, key) = "true" <=>
          key = origin.key /\ other = call.messages /\ Unblinded(origin, unblinded)

Accepted == {n \in DOMAIN verdicts : verdicts[n].result = "true"}

(***************************************************************************)
(* A proof that is accepted was made from a signature of the verifier's    *)
(* key, unblinded, for the verifier's challenge, and every message the     *)
(* verifier was shown is the signed one of its position.                   *)
(***************************************************************************)
AcceptedIsSigned ==
  \A v \in Accepted :
    LET verdict == verdicts[v]
        made    == proofs[verdict.proof]
        signed  == PS!MakeSignature(made.origin.key, made.origin.com, made.origin.messages).at
    IN  /\ made.origin.key = verdict.call.key
        /\ Unblinded(made.origin, made.unblinded)
        /\ made.challenge = verdict.challenge
        /\ \A i \in DOMAIN verdict.call.revealed :
             i \in DOMAIN signed /\ verdict.call.revealed[i] = signed[i]

(***************************************************************************)
(* A holder that proves the messages its signature verifies for, and tells *)
(* the verifier those it reveals, is accepted, with or without blindings   *)
(* of its own.  (PoKOfSignature::init does not look at the signature, and  *)
(* both sides order bases and responses by themselves.)                    *)
(***************************************************************************)
HonestIsShown ==
  \A v \in DOMAIN verdicts :
    LET verdict == verdicts[v]
        made    == proofs[verdict.proof]
    IN  /\ SplitOf(made.origin, made.call.messages) /\ Unblinded(made.origin, made.unblinded)
        /\ made.call.key = made.origin.key /\ verdict.call.key = made.origin.key
        /\ verdict.challenge = made.challenge
        /\ verdict.call.revealed = [i \in made.call.revealed |-> made.call.messages[i]]
        => verdict.result = "true"

(***************************************************************************)
(* How a verifier learns that a hidden message of one proof is a hidden    *)
(* message of another (test_PoK_multiple_sigs_with_same_msg,               *)
(* ps/pok_sig.rs:555): under one challenge the two responses are equal if  *)
(* and only if the holder gave the same blinding for both messages and     *)
(* they are equal.  The rank of a message among the hidden ones is its     *)
(* place in the blindings of the prover and in the responses, which begin  *)
(* with one (PS) or two (BBS) that are not about messages.                 *)
(***************************************************************************)
Hidden(made) == 1 .. Count[made.call.key] \ made.call.revealed

Given(made, i) == made.call.blindings[Cardinality({j \in 1 .. i : j \in Hidden(made)})]

Response(made, i) ==
  Pick(PS!ResponseAt(made.proof, made.call.revealed, i),
       BBS!ResponseAt(made.proof, made.call.revealed, i))

LinkedResponses ==
  \A m, n \in DOMAIN proofs :
    m # n /\ proofs[m].challenge = proofs[n].challenge =>
      \A i \in Hidden(proofs[m]), j \in Hidden(proofs[n]) :
        Response(proofs[m], i) = Response(proofs[n], j) <=>
          /\ proofs[m].call.blindings # None /\ proofs[n].call.blindings # None
          /\ Given(proofs[m], i) = Given(proofs[n], j)
          /\ proofs[m].call.messages[i] = proofs[n].call.messages[j]
=============================================================================
