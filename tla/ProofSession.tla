----------------------------- MODULE ProofSession -----------------------------
(***************************************************************************)
(* A presentation in libursa/src/cl: a ProofBuilder of the prover, fed one *)
(* credential at a time, the proofs it finalizes, and a ProofVerifier fed  *)
(* one request at a time.                                                  *)
(*                                                                         *)
(* A random number the prover draws is named by the number of the draw.    *)
(* An entry of tau_list or c_list is named by the draw it was made from,   *)
(* the challenge of a proof by the preimage of the hash, and the blinded   *)
(* value m_hat of an attribute by the draw, the attribute value and the    *)
(* challenge it combines.  The verifier recomputes an entry of tau_list    *)
(* exactly when the equation it stands for holds, and some other value,    *)
(* written Other, when it does not.                                        *)
(***************************************************************************)
EXTENDS Naturals, Sequences, FiniteSets

CONSTANTS
  Attrs,          \* attribute names
  Linkable,       \* those that either side may declare common
  Credentials,    \* the credentials the prover holds
  Requests,       \* sub proof requests
  Schemas,        \* pairs of a credential schema and a non-credential schema
  KeyAttrs,       \* the attributes (r) of every issuer public key
  RevocKeys,      \* the public keys with a revocation part
  Registries,     \* states of a revocation registry: sets of the indexes in use
  Nonces,
  None,           \* Option::None
  Absent,         \* no such entry in a map
  I32Max,         \* the largest attribute value that parses as an i32
  AddCalls,       \* the sub proof requests the prover may add
  VerifierCalls,  \* and those the verifier may add
  MaxDraws,       \* bound: random draws of the builder
  MaxSubs,        \* bound: credentials added to the builder
  MaxProofs,      \* bound: proofs finalized
  MaxRequested,   \* bound: sub proof requests the verifier adds
  MaxVerdicts     \* bound: calls of verify

(***************************************************************************)
(* signed: the attributes the issuer signed (Known and Hidden values);     *)
(* values: those in CredentialValues; usable: how far the signature was     *)
(* processed (Issuance); revocable: r_credential is Some; index: its place *)
(* in the registry.  The witness of a call is given by the registry it was *)
(* made for or updated to.                                                 *)
(***************************************************************************)
CredentialShape(cred) ==
  /\ cred.key \in DOMAIN KeyAttrs
  /\ cred.signed \subseteq KeyAttrs[cred.key]
  /\ cred.signed \subseteq DOMAIN cred.values
  /\ DOMAIN cred.values \subseteq Attrs
  /\ cred.usable \in {"no", "primary", "fully"} /\ cred.revocable \in BOOLEAN
  /\ cred.revocable => cred.key \in RevocKeys

ASSUME KeysAssumption ==
  RevocKeys \subseteq DOMAIN KeyAttrs /\ \A k \in DOMAIN KeyAttrs : KeyAttrs[k] \subseteq Attrs
ASSUME LinkableAssumption == Linkable \subseteq Attrs
ASSUME CredentialsAssumption == \A cred \in Credentials : CredentialShape(cred)
ASSUME RequestsAssumption ==
  \A r \in Requests : r.revealed \subseteq Attrs /\ \A p \in r.predicates : p.attr \in Attrs
ASSUME SchemasAssumption ==
  \A s \in Schemas : s.attrs \subseteq Attrs /\ s.nonSchema \subseteq Attrs
ASSUME AddCallsAssumption ==
  AddCalls \subseteq [cred : Credentials, request : Requests, schema : Schemas,
                      reg : Registries \cup {None}, witness : Registries \cup {None}]
ASSUME VerifierCallsAssumption ==
  VerifierCalls \subseteq [key : DOMAIN KeyAttrs, request : Requests, schema : Schemas,
                           reg : Registries \cup {None}]
ASSUME AbsentAssumption == None # Absent
ASSUME BoundsAssumption ==
  /\ MaxDraws \in Nat /\ MaxSubs \in Nat /\ MaxProofs \in Nat
  /\ MaxRequested \in Nat /\ MaxVerdicts \in Nat

VARIABLES
  \* ProofBuilder
  draws,        \* how many random numbers it has drawn
  common,       \* common_attributes: the draw of each (0: not there)
  inits,        \* init_proofs, each with the common attributes it was made under
  tauList,      \* tau_list
  cList,        \* c_list
  \* the proofs finalized so far
  proofs,
  \* ProofVerifier
  requested,    \* credentials
  links,        \* common_attributes: Absent, None, or an m_hat
  verdicts      \* what the calls of verify were given and returned

builderVars == <<draws, common, inits, tauList, cList>>
verifierVars == <<requested, links, verdicts>>
vars == <<builderVars, proofs, verifierVars>>

Other == 0

AllAttrs(schema) == schema.attrs \cup schema.nonSchema
Unrevealed(schema, request) == AllAttrs(schema) \ request.revealed

PredicateAttrs(request) == {p.attr : p \in request.predicates}

\* A predicate of type GE that _init_ne_proof finds satisfied (Predicates has
\* the other types and the arithmetic).
Satisfied(p, values) == values[p.attr] <= I32Max /\ values[p.attr] >= p.min

-----------------------------------------------------------------------------
Init ==
  /\ draws = 0
  /\ common = [a \in Attrs |-> 0]
  /\ inits = <<>> /\ tauList = <<>> /\ cList = <<>>
  /\ proofs = <<>>
  /\ requested = <<>>
  /\ links = [a \in Attrs |-> Absent]
  /\ verdicts = <<>>

(***************************************************************************)
(* ProofBuilder.                                                           *)
(***************************************************************************)
AddCommonAttribute(a) ==
  /\ draws < MaxDraws
  /\ draws' = draws + 1
  /\ common' = [common EXCEPT ![a] = draws + 1]
  /\ UNCHANGED <<inits, tauList, cList, proofs, verifierVars>>

Consistent(call) ==
  LET attrs == DOMAIN call.cred.values
  IN  /\ AllAttrs(call.schema) = attrs
      /\ call.request.revealed \subseteq attrs
      /\ PredicateAttrs(call.request) \subseteq attrs

\* The four options of the non-revocation part are all Some.
WithRevocation(call) ==
  call.cred.revocable /\ call.reg # None /\ call.witness # None

\* _init_non_revocation_proof: one draw for both of its lists.
NonRevocEntries(call) == IF WithRevocation(call) THEN <<draws + 1>> ELSE <<>>

\* Mutant of PrimarySucceeds: the m_tilde of a predicate is not looked for.
SucceedsWithoutTilde(call) ==
  /\ Unrevealed(call.schema, call.request) \subseteq KeyAttrs[call.cred.key]
  /\ \A p \in call.request.predicates : Satisfied(p, call.cred.values)

\* _init_primary_proof succeeds: calc_teq finds every r, and every predicate
\* is satisfied and is about an attribute that has an m_tilde.
PrimarySucceeds(call) ==
  LET hidden == Unrevealed(call.schema, call.request)
  IN  /\ hidden \subseteq KeyAttrs[call.cred.key]
      /\ \A p \in call.request.predicates :
           /\ Satisfied(p, call.cred.values)
           /\ p.attr \in hidden \/ common[p.attr] # 0

\* Mutant of Tilde: every sub proof draws its own, common or not.
FreshTilde(call, draw) == [a \in Unrevealed(call.schema, call.request) |-> draw]

\* m_tilde of the unrevealed attributes: the common ones keep theirs.
Tilde(call, draw) ==
  [a \in Unrevealed(call.schema, call.request) |->
     IF common[a] # 0 THEN common[a] ELSE draw]

\* Mutant of AddSubProofRequest: tau_list is extended at the end, c_list at once.
AddTauLate(call) ==
  LET nonRevoc == NonRevocEntries(call)
      primary  == draws + Len(nonRevoc) + 1
      all      == nonRevoc \o <<primary>>
  IN  /\ primary <= MaxDraws /\ Len(inits) < MaxSubs
      /\ Consistent(call)
      /\ draws' = primary
      /\ tauList' = IF PrimarySucceeds(call) THEN tauList \o all ELSE tauList
      /\ cList' = cList \o (IF PrimarySucceeds(call) THEN all ELSE nonRevoc)
      /\ inits' = IF PrimarySucceeds(call)
                  THEN Append(inits, [call |-> call, nonRevoc |-> nonRevoc,
                                      primary |-> primary, tilde |-> Tilde(call, primary),
                                      declared |-> common])
                  ELSE inits
      /\ UNCHANGED <<common, proofs, verifierVars>>

\* The entries of the non-revocation part are in the lists before the
\* primary part is made, and stay there when that fails.
AddSubProofRequest(call) ==
  LET nonRevoc == NonRevocEntries(call)
      primary  == draws + Len(nonRevoc) + 1
      made     == IF PrimarySucceeds(call) THEN <<primary>> ELSE <<>>
  IN  /\ primary <= MaxDraws /\ Len(inits) < MaxSubs
      /\ Consistent(call)
      /\ draws' = primary
      /\ tauList' = tauList \o nonRevoc \o made
      /\ cList' = cList \o nonRevoc \o made
      /\ inits' = IF PrimarySucceeds(call)
                  THEN Append(inits, [call |-> call, nonRevoc |-> nonRevoc,
                                      primary |-> primary, tilde |-> Tilde(call, primary),
                                      declared |-> common])
                  ELSE inits
      /\ UNCHANGED <<common, proofs, verifierVars>>

\* eq_proof.m has no entry for a predicate on a revealed attribute: finalize
\* panics, and leaves the builder as it is.
FinalizePanics ==
  \E n \in DOMAIN inits :
    ~(PredicateAttrs(inits[n].call.request) \subseteq DOMAIN inits[n].tilde)

Finalize(nonce) ==
  /\ Len(proofs) < MaxProofs
  /\ ~FinalizePanics
  /\ proofs' = Append(proofs,
       [challenge |-> [tau |-> tauList, c |-> cList, nonce |-> nonce], subs |-> inits])
  /\ UNCHANGED <<builderVars, verifierVars>>

-----------------------------------------------------------------------------
(***************************************************************************)
(* ProofVerifier.                                                          *)
(***************************************************************************)
VerifierAddCommonAttribute(a) ==
  /\ links' = [links EXCEPT ![a] = None]
  /\ UNCHANGED <<builderVars, proofs, requested, verdicts>>

VerifierAddSubProofRequest(call) ==
  /\ Len(requested) < MaxRequested
  /\ call.request.revealed \subseteq call.schema.attrs
  /\ PredicateAttrs(call.request) \subseteq call.schema.attrs
  /\ requested' = Append(requested, call)
  /\ UNCHANGED <<builderVars, proofs, links, verdicts>>

\* _check_verify_params_consistency.
ShapeMatches(proof) ==
  /\ Len(proof.subs) = Len(requested)
  /\ \A n \in DOMAIN requested : proof.subs[n].call.request = requested[n].request

\* m_hat of attribute a in sub proof n.
MHat(proof, n, a) ==
  [draw |-> proof.subs[n].tilde[a],
   value |-> proof.subs[n].call.cred.values[a],
   challenge |-> proof.challenge]

CommonAttrs == {a \in Attrs : links[a] # Absent}

\* The links once the attributes in A have been met in the first sub proof.
LinksAfter(proof, A) ==
  [a \in Attrs |-> IF a \in A /\ links[a] = None THEN MHat(proof, 1, a) ELSE links[a]]

HasMHat(proof, n, a) == a \in DOMAIN proof.subs[n].tilde

\* Mutant of LinkOk: any two m_hats will do.
LinkPresent(proof, n, a) == HasMHat(proof, n, a)

\* Sub proof n has an m_hat for common attribute a, the one noted for it.
LinkOk(proof, n, a) ==
  /\ HasMHat(proof, n, a)
  /\ n = 1 /\ links[a] # None => links[a] = MHat(proof, 1, a)
  /\ n > 1 => LinksAfter(proof, Attrs)[a] = MHat(proof, n, a)

\* _verify_primary_proof finds every r and every m_hat it needs.
PrimaryOk(proof, n) ==
  LET req    == requested[n]
      hidden == Unrevealed(req.schema, req.request)
  IN  /\ req.request.revealed \cup hidden \subseteq KeyAttrs[req.key]
      /\ hidden \subseteq DOMAIN proof.subs[n].tilde

LinksOk(proof, n) == \A a \in CommonAttrs : LinkOk(proof, n, a)

NoError(proof) == \A n \in DOMAIN requested : LinksOk(proof, n) /\ PrimaryOk(proof, n)

\* The witness is the sum over the indexes of its registry other than its
\* own: a change of its own index alone leaves it as it is.
WitnessFits(call) ==
  call.witness \ {call.cred.index} = call.reg \ {call.cred.index}

\* Mutant of RevocationHolds: any published registry will do.
AnyRegistryHolds(sub, req) ==
  /\ req.key = sub.call.cred.key
  /\ sub.call.cred.usable = "fully"
  /\ sub.call.cred.index \in sub.call.reg /\ WitnessFits(sub.call)

\* The pairing equations of the non-revocation proof hold.
RevocationHolds(sub, req) ==
  /\ req.key = sub.call.cred.key
  /\ req.reg = sub.call.reg
  /\ sub.call.cred.usable = "fully"
  /\ sub.call.cred.index \in sub.call.reg /\ WitnessFits(sub.call)

\* Mutant of EqualityHolds: the value of v in the signature does not matter.
EqualityOfAttrs(sub, req) ==
  /\ req.key = sub.call.cred.key
  /\ Unrevealed(req.schema, req.request) = DOMAIN sub.tilde
  /\ Unrevealed(req.schema, req.request) \cup req.request.revealed = sub.call.cred.signed

\* The equality proof is about the attributes the issuer signed, all of them.
EqualityHolds(sub, req) ==
  /\ req.key = sub.call.cred.key
  /\ sub.call.cred.usable # "no"
  /\ Unrevealed(req.schema, req.request) = DOMAIN sub.tilde
  /\ Unrevealed(req.schema, req.request) \cup req.request.revealed = sub.call.cred.signed

\* Mutant of TauOf: the primary part comes first.
PrimaryFirst(sub, req) ==
  LET nonRevoc ==
        IF sub.nonRevoc = <<>> \/ req.key \notin RevocKeys \/ req.reg = None THEN <<>>
        ELSE IF RevocationHolds(sub, req) THEN sub.nonRevoc ELSE <<Other>>
  IN  <<IF EqualityHolds(sub, req) THEN sub.primary ELSE Other>> \o nonRevoc

\* What the verifier recomputes for one sub proof.  The non-revocation proof
\* is looked at when the proof carries one and the verifier has a registry.
TauOf(sub, req) ==
  LET nonRevoc ==
        IF sub.nonRevoc = <<>> \/ req.key \notin RevocKeys \/ req.reg = None THEN <<>>
        ELSE IF RevocationHolds(sub, req) THEN sub.nonRevoc ELSE <<Other>>
  IN  nonRevoc \o <<IF EqualityHolds(sub, req) THEN sub.primary ELSE Other>>

\* tau_list, extended by one piece after the other.
Joined(pieces) ==
  LET joined[n \in 0 .. Len(pieces)] ==
        IF n = 0 THEN <<>> ELSE joined[n - 1] \o pieces[n]
  IN  joined[Len(pieces)]

Tau(proof) == Joined([n \in 1 .. Len(requested) |-> TauOf(proof.subs[n], requested[n])])

\* The hash of the recomputed tau_list, c_list and the nonce is the challenge.
Valid(proof, nonce) ==
  /\ Tau(proof) = proof.challenge.tau
  /\ nonce = proof.challenge.nonce

Verdict(n, nonce, result) ==
  [proof |-> n, nonce |-> nonce, requested |-> requested,
   common |-> CommonAttrs, result |-> result]

\* The attributes whose m_hat verify notes: all of them when the links of the
\* first sub proof agree, otherwise those that the iteration over a hash map
\* meets before the one that fails.
NotesLinks(proof) ==
  IF LinksOk(proof, 1) THEN links' = LinksAfter(proof, Attrs)
  ELSE \E A \in SUBSET {a \in CommonAttrs : HasMHat(proof, 1, a)} :
         links' = LinksAfter(proof, A)

Verify(n, nonce) ==
  /\ Len(verdicts) < MaxVerdicts
  /\ IF ShapeMatches(proofs[n]) /\ requested # <<>>
     THEN NotesLinks(proofs[n])
     ELSE UNCHANGED links
  /\ verdicts' = Append(verdicts, Verdict(n, nonce,
       IF ~ShapeMatches(proofs[n]) \/ ~NoError(proofs[n]) THEN "error"
       ELSE IF Valid(proofs[n], nonce) THEN "true" ELSE "false"))
  /\ UNCHANGED <<builderVars, proofs, requested>>

-----------------------------------------------------------------------------
Next ==
  \/ \E a \in Linkable : AddCommonAttribute(a) \/ VerifierAddCommonAttribute(a)
  \/ \E call \in AddCalls : AddSubProofRequest(call)
  \/ \E nonce \in Nonces : Finalize(nonce)
  \/ \E call \in VerifierCalls : VerifierAddSubProofRequest(call)
  \/ \E n \in DOMAIN proofs, nonce \in Nonces : Verify(n, nonce)

Spec == Init /\ [][Next]_vars
-----------------------------------------------------------------------------
TypeOK ==
  /\ draws \in 0 .. MaxDraws
  /\ common \in [Attrs -> 0 .. MaxDraws]
  /\ Len(tauList) = Len(cList) /\ Len(tauList) <= draws
  /\ \A n \in DOMAIN inits : inits[n].call \in AddCalls /\ inits[n].primary \in 1 .. draws
  /\ requested \in Seq(VerifierCalls)
  /\ \A a \in Attrs : links[a] \in {Absent, None} \/ links[a].draw \in 1 .. draws
  /\ \A n \in DOMAIN verdicts : verdicts[n].result \in {"true", "false", "error"}

Accepted == {n \in DOMAIN verdicts : verdicts[n].result = "true"}

SubOf(verdict, n) == proofs[verdict.proof].subs[n]
CredOf(verdict, n) == SubOf(verdict, n).call.cred

(***************************************************************************)
(* When verify returns true, behind every request there is a credential    *)
(* signed with the key the verifier named, over exactly the attributes of  *)
(* its schemas, whose values satisfy the predicates, and the proof was     *)
(* made for the nonce of the verifier (the doc of Proof, mod.rs:887).      *)
(***************************************************************************)
AcceptedIsBacked ==
  \A v \in Accepted :
    LET verdict == verdicts[v] IN
    /\ verdict.nonce = proofs[verdict.proof].challenge.nonce
    /\ \A n \in DOMAIN verdict.requested :
         LET req  == verdict.requested[n]
             cred == CredOf(verdict, n)
         IN  /\ cred.key = req.key /\ cred.usable # "no"
             /\ cred.signed = AllAttrs(req.schema)
             /\ \A p \in req.request.predicates : Satisfied(p, cred.values)

(***************************************************************************)
(* And the common attributes of the verifier have the same signed and      *)
(* undisclosed value in all of them (the doc of add_common_attribute,      *)
(* verifier.rs:61), whatever earlier calls of verify have left behind.     *)
(***************************************************************************)
AcceptedIsLinked ==
  \A v \in Accepted :
    LET verdict == verdicts[v] IN
    \A a \in verdict.common, m, n \in DOMAIN verdict.requested :
      /\ a \in CredOf(verdict, n).signed \ verdict.requested[n].request.revealed
      /\ CredOf(verdict, m).values[a] = CredOf(verdict, n).values[a]

(***************************************************************************)
(* A proof that carries a proof of non-revocation is accepted only by a    *)
(* verifier with a registry that holds the index of the credential; a      *)
(* proof that carries none says nothing of revocation, and verify accepts  *)
(* it with a registry or without.                                          *)
(***************************************************************************)
AcceptedIsNotRevoked ==
  \A v \in Accepted :
    LET verdict == verdicts[v] IN
    \A n \in DOMAIN verdict.requested :
      SubOf(verdict, n).nonRevoc # <<>> =>
        LET reg == verdict.requested[n].reg
        IN  reg # None /\ CredOf(verdict, n).index \in reg

(***************************************************************************)
(* What the two sides have to do for verify to return true.                *)
(***************************************************************************)
\* Every entry of the two lists belongs to a sub proof: no call of
\* add_sub_proof_request failed after it had touched them.
EntryOfSub(proof, entry) ==
  \E n \in DOMAIN proof.subs :
    proof.subs[n].primary = entry \/ proof.subs[n].nonRevoc = <<entry>>

Clean(proof) ==
  /\ \A i \in DOMAIN proof.challenge.tau : EntryOfSub(proof, proof.challenge.tau[i])
  /\ \A i \in DOMAIN proof.challenge.c : EntryOfSub(proof, proof.challenge.c[i])

(***************************************************************************)
(* A builder in which a call of add_sub_proof_request failed after it had  *)
(* touched the lists (prover.rs:981) makes no proof that is accepted, so   *)
(* what such a call has left behind never reaches a verifier unnoticed.    *)
(***************************************************************************)
AcceptedIsClean == \A v \in Accepted : Clean(proofs[verdicts[v].proof])

(***************************************************************************)
(* A predicate on a revealed attribute is refused when the credential is   *)
(* added, unless the attribute was declared common before: then the        *)
(* m_tilde of the common attribute is found, nothing fails until finalize, *)
(* and finalize can only panic (prover.rs:1671).  Whatever else was added, *)
(* declared or refused, in any order, no other builder is lost that way.   *)
(***************************************************************************)
OnlyCommonPanics ==
  FinalizePanics <=>
    \E n \in DOMAIN inits, a \in Attrs :
      LET request == inits[n].call.request
      IN  /\ a \in request.revealed /\ a \in PredicateAttrs(request)
          /\ inits[n].declared[a] # 0

AnswersRequest(sub, req) ==
  LET cred == sub.call.cred
  IN  /\ sub.call.request = req.request
      /\ sub.call.cred.key = req.key
      /\ AllAttrs(sub.call.schema) = AllAttrs(req.schema)
      /\ cred.signed = AllAttrs(req.schema) /\ cred.usable # "no"
      /\ sub.nonRevoc # <<>> =>
           /\ sub.call.reg = req.reg /\ WitnessFits(sub.call)
           /\ cred.index \in sub.call.reg /\ cred.usable = "fully"

\* Each of the attributes was declared common before the first credential
\* was added and not again, and has one value in all of them.
SharesLinks(proof, attrs) ==
  \A a \in attrs, m, n \in DOMAIN proof.subs :
    /\ a \in Unrevealed(proof.subs[n].call.schema, proof.subs[n].call.request)
    /\ proof.subs[m].declared[a] = proof.subs[n].declared[a]
    /\ Len(proof.subs) > 1 => proof.subs[n].declared[a] # 0
    /\ proof.subs[m].call.cred.values[a] = proof.subs[n].call.cred.values[a]

\* No other proof was shown to the verifier under the same common attributes.
FirstShown(v) ==
  \A w \in 1 .. v - 1 :
    verdicts[w].proof = verdicts[v].proof
      \/ verdicts[w].common \cap verdicts[v].common = {}

Honest(v) ==
  LET verdict == verdicts[v]
      proof   == proofs[verdict.proof]
  IN  /\ Clean(proof)
      /\ verdict.nonce = proof.challenge.nonce
      /\ Len(proof.subs) = Len(verdict.requested)
      /\ \A n \in DOMAIN proof.subs : AnswersRequest(proof.subs[n], verdict.requested[n])
      /\ SharesLinks(proof, verdict.common)
      /\ FirstShown(v)

(***************************************************************************)
(* An honest presentation is accepted: the challenge that the builder      *)
(* hashed is the one the verifier recomputes, entry by entry, with         *)
(* revoked, stale or absent witnesses, shared attributes, several          *)
(* credentials and errors of earlier calls in between.                     *)
(***************************************************************************)
HonestIsAccepted ==
  \A v \in DOMAIN verdicts : Honest(v) => verdicts[v].result = "true"

(***************************************************************************)
(* verify keeps the m_hats of the first proof it meets, accepted or not    *)
(* (verifier.rs:271): they never change by a later call, and from then on  *)
(* it accepts only a proof that has the same ones.                         *)
(***************************************************************************)
LinksBindVerifier ==
  [][verdicts' # verdicts =>
       LET verdict == verdicts'[Len(verdicts')] IN
       \A a \in Attrs : links[a] \notin {Absent, None} =>
         /\ links'[a] = links[a]
         /\ verdict.result = "true" =>
              \A n \in DOMAIN verdict.requested : MHat(proofs[verdict.proof], n, a) = links[a]]_vars
=============================================================================
