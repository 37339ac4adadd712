-------------------------- MODULE RevocationRegistry --------------------------
(***************************************************************************)
(* A revocation registry of libursa/src/cl: the accumulator the issuer     *)
(* keeps, the deltas its calls return and the issuer publishes, and the    *)
(* witnesses that holders compute from merged deltas.                      *)
(*                                                                         *)
(* The library keeps no list of the indexes in use and no version number:  *)
(* the calling application chooses every index and every delta.  Careful   *)
(* says whether it does so as libursa/tests/cl.rs does (it issues an index *)
(* that is free, revokes one that is in use, applies a delta to the        *)
(* registry the delta starts from), or with any argument at all.           *)
(***************************************************************************)
EXTENDS Tails, Sequences, FiniteSets

CONSTANTS
  Modes,              \* what issuance_by_default may be when it is created
  Indices,            \* the revocation indexes the application may pass
  Holders,            \* the indexes whose holders keep a witness
  Careful,            \* the application follows the protocol of tests/cl.rs
  Outcomes,           \* how a call that reads tails may end
  None,               \* Option::None
  MaxLedger,          \* bound: deltas published
  MaxMultiplicity     \* bound: the coefficients of a point still changed

Valid == 1 .. MaxCredNum

ASSUME ModeAssumption == Modes \subseteq BOOLEAN /\ Careful \in BOOLEAN
ASSUME IndicesAssumption ==
  /\ Indices \subseteq 0 .. MaxCredNum + 2
  /\ Valid \subseteq Indices
  /\ Careful => Indices = Valid
ASSUME HoldersAssumption == Holders \subseteq Valid
ASSUME OutcomesAssumption == Outcomes \subseteq {"ok", "take_failed", "late_failed"}
ASSUME NoneAssumption == None \notin Point
ASSUME BoundAssumption == MaxLedger \in Nat /\ MaxMultiplicity \in Nat

VARIABLES
  byDefault, \* issuance_by_default, as the registry was created
  accum,    \* rev_reg.accum of the issuer
  book,     \* the indexes the application holds to be in use
  signed,   \* the indexes for which a signature was returned
  ledger,   \* the deltas published, oldest first
  pending,  \* the delta each holder has in hand
  reg,      \* the registry (its accumulator) each holder presents against
  witness   \* the omega of each holder

vars == <<byDefault, accum, book, signed, ledger, pending, reg, witness>>

issuerVars == <<byDefault, accum, book, signed, ledger>>
holderVars == <<pending, reg, witness>>

Delta == [prev : Point \cup {None}, accum : Point,
          issued : SUBSET Indices, revoked : SUBSET Indices]

-----------------------------------------------------------------------------
(***************************************************************************)
(* Registries and deltas.                                                  *)
(***************************************************************************)
\* The indexes in use in a new registry, and its accumulator.
InitialIndices == IF byDefault THEN Valid ELSE {}

AccumulatorOf(S) == TailSum({GetIndex(i) : i \in S})

InitialAccum == AccumulatorOf(InitialIndices)

FromParts(from, to, issued, revoked) ==
  [prev |-> from, accum |-> to, issued |-> issued, revoked |-> revoked]

CanMerge(self, other) == other.prev # None /\ self.accum = other.prev

\* Mutant of Merge: an index stays in the set a later delta takes it out of.
MergeKeepingBoth(self, other) ==
  FromParts(self.prev, other.accum,
            self.issued \cup other.issued, self.revoked \cup other.revoked)

Merge(self, other) ==
  LET issued  == self.issued \cup (other.issued \ self.revoked)
      revoked == self.revoked \cup (other.revoked \ issued)
  IN  FromParts(self.prev, other.accum,
                issued \ other.revoked, revoked \ other.issued)

(***************************************************************************)
(* The outcomes of access_tail: the tail is not available and the closure  *)
(* never runs; the closure runs and an error follows it (put_tail fails,   *)
(* or a later step of the caller does); the closure runs.                  *)
(***************************************************************************)
ClosureRan(k, outcome) == k \in TailIds /\ outcome # "take_failed"
AccessOk(k, outcome) == k \in TailIds /\ outcome = "ok"

-----------------------------------------------------------------------------
Init ==
  /\ byDefault \in Modes
  /\ accum = InitialAccum
  /\ book = InitialIndices
  /\ signed = {}
  /\ ledger = <<>>
  /\ pending = [h \in Holders |-> None]
  /\ reg = [h \in Holders |-> None]
  /\ witness = [h \in Holders |-> None]

(***************************************************************************)
(* The issuer.                                                             *)
(***************************************************************************)
SmallPoint(p) == \A k \in TailIds : p[k] \in 0 .. MaxMultiplicity

WithinBounds == Len(ledger) < MaxLedger /\ SmallPoint(accum)

\* What the closure given to access_tail computes for index i.
WithTail(i) == Add(accum, NewTail(GetIndex(i)))
WithoutTail(i) == Sub(accum, NewTail(GetIndex(i)))

\* Mutants of ChangeAccumulator: prev_accum is read after the change, or the
\* delta carries the accumulator as it was before.
PrevReadLate(i, outcome, changed, issued, revoked) ==
  /\ accum' = IF ClosureRan(GetIndex(i), outcome) THEN changed ELSE accum
  /\ IF AccessOk(GetIndex(i), outcome)
     THEN /\ ledger' = Append(ledger, FromParts(changed, changed, issued, revoked))
          /\ book' = (book \cup issued) \ revoked
     ELSE UNCHANGED <<ledger, book>>

OldAccumPublished(i, outcome, changed, issued, revoked) ==
  /\ accum' = IF ClosureRan(GetIndex(i), outcome) THEN changed ELSE accum
  /\ IF AccessOk(GetIndex(i), outcome)
     THEN /\ ledger' = Append(ledger, FromParts(accum, accum, issued, revoked))
          /\ book' = (book \cup issued) \ revoked
     ELSE UNCHANGED <<ledger, book>>

\* A call that turns the accumulator into changed when the tail of index i
\* is read, and returns the delta (issued, revoked), which is published.
ChangeAccumulator(i, outcome, changed, issued, revoked) ==
  /\ accum' = IF ClosureRan(GetIndex(i), outcome) THEN changed ELSE accum
  /\ IF AccessOk(GetIndex(i), outcome)
     THEN /\ ledger' = Append(ledger, FromParts(accum, changed, issued, revoked))
          /\ book' = (book \cup issued) \ revoked
     ELSE UNCHANGED <<ledger, book>>

\* sign_credential_with_revoc with issuance_by_default = false.  The flag is
\* an argument of each call, which nothing compares with the registry.
SignOnDemand(i, outcome) ==
  /\ WithinBounds
  /\ Careful => ~byDefault
  /\ Careful => i \notin book
  /\ ChangeAccumulator(i, outcome, WithTail(i), {i}, {})
  /\ signed' = IF AccessOk(GetIndex(i), outcome) THEN signed \cup {i} ELSE signed
  /\ UNCHANGED <<byDefault, holderVars>>

\* sign_credential_with_revoc with issuance_by_default = true reads no tail,
\* changes no registry and returns no delta.
SignByDefault(i) ==
  /\ Careful => byDefault
  /\ signed' = signed \cup {i}
  /\ UNCHANGED <<byDefault, accum, book, ledger, holderVars>>

RevokeCredential(i, outcome) ==
  /\ WithinBounds
  /\ Careful => i \in book
  /\ ChangeAccumulator(i, outcome, WithoutTail(i), {}, {i})
  /\ UNCHANGED <<byDefault, signed, holderVars>>

\* Mutant of RecoveryCredential: the tail is subtracted, as when revoking.
RecoveryBySub(i, outcome) ==
  /\ WithinBounds
  /\ Careful => i \notin book /\ i \in signed
  /\ ChangeAccumulator(i, outcome, WithoutTail(i), {i}, {})
  /\ UNCHANGED <<byDefault, signed, holderVars>>

RecoveryCredential(i, outcome) ==
  /\ WithinBounds
  /\ Careful => i \notin book /\ i \in signed
  /\ ChangeAccumulator(i, outcome, WithTail(i), {i}, {})
  /\ UNCHANGED <<byDefault, signed, holderVars>>

-----------------------------------------------------------------------------
(***************************************************************************)
(* A holder.                                                               *)
(***************************************************************************)
\* The delta of the registry as it was created, or one read off the ledger.
TakeInitialDelta(h) ==
  /\ h \in signed
  /\ pending' = [pending EXCEPT ![h] = FromParts(None, InitialAccum, {}, {})]
  /\ UNCHANGED <<issuerVars, reg, witness>>

TakeDelta(h, n) ==
  /\ h \in signed
  /\ pending' = [pending EXCEPT ![h] = ledger[n]]
  /\ UNCHANGED <<issuerVars, reg, witness>>

\* RevocationRegistryDelta::merge of any published delta: it fails, and
\* changes nothing, when that delta does not start where this one ends.
MergeDelta(h, n) ==
  /\ pending[h] # None
  /\ CanMerge(pending[h], ledger[n])
  /\ pending' = [pending EXCEPT ![h] = Merge(pending[h], ledger[n])]
  /\ UNCHANGED <<issuerVars, reg, witness>>

\* The loops of Witness::new and Witness::update succeed when every tail in
\* K is read; omega is assigned after them, so that an error changes nothing.
AllTailsRead(K, outcome) == \A k \in K : AccessOk(k, outcome)

\* Mutant of InstallWitness: the delta is kept where its accumulator should be.
InstallDelta(h, omega, delta) ==
  /\ witness' = [witness EXCEPT ![h] = omega]
  /\ reg' = [reg EXCEPT ![h] = delta]
  /\ pending' = [pending EXCEPT ![h] = None]
  /\ UNCHANGED issuerVars

InstallWitness(h, omega, delta) ==
  /\ witness' = [witness EXCEPT ![h] = omega]
  /\ reg' = [reg EXCEPT ![h] = delta.accum]
  /\ pending' = [pending EXCEPT ![h] = None]
  /\ UNCHANGED issuerVars

\* What Witness::new takes to be issued; the flag is again an argument.
IssuedIn(delta, flag) ==
  IF flag THEN Valid \ delta.revoked ELSE delta.issued

FullHistory(delta) == delta.prev \in {None, InitialAccum}

NewWitness(h, flag, outcome) ==
  LET delta == pending[h]
      tails == WitnessTails(IssuedIn(delta, flag), h)
  IN  /\ pending[h] # None
      /\ Careful => FullHistory(delta) /\ flag = byDefault
      /\ IF AllTailsRead(tails, outcome)
         THEN InstallWitness(h, TailSum(tails), delta)
         ELSE UNCHANGED vars

\* Mutant of UpdateWitness: the tails of issued and revoked are swapped.
UpdateSwapped(h, outcome) ==
  LET delta == pending[h]
      denom == WitnessTails(delta.issued, h)
      num   == WitnessTails(delta.revoked, h)
  IN  /\ pending[h] # None /\ witness[h] # None
      /\ SmallPoint(witness[h])
      /\ Careful => delta.prev = reg[h]
      /\ IF AllTailsRead(denom \cup num, outcome)
         THEN InstallWitness(h, Add(witness[h], Sub(TailSum(num), TailSum(denom))), delta)
         ELSE UNCHANGED vars

\* Witness::update does not look at delta.prev_accum.
UpdateWitness(h, outcome) ==
  LET delta == pending[h]
      denom == WitnessTails(delta.revoked, h)
      num   == WitnessTails(delta.issued, h)
  IN  /\ pending[h] # None /\ witness[h] # None
      /\ SmallPoint(witness[h])
      /\ Careful => delta.prev = reg[h]
      /\ IF AllTailsRead(denom \cup num, outcome)
         THEN InstallWitness(h, Add(witness[h], Sub(TailSum(num), TailSum(denom))), delta)
         ELSE UNCHANGED vars

-----------------------------------------------------------------------------
IssuerStep ==
  \E i \in Indices :
    \/ SignByDefault(i)
    \/ \E outcome \in Outcomes :
         \/ SignOnDemand(i, outcome)
         \/ RevokeCredential(i, outcome)
         \/ RecoveryCredential(i, outcome)

HolderStep ==
  \E h \in Holders :
    \/ TakeInitialDelta(h)
    \/ \E n \in DOMAIN ledger : TakeDelta(h, n) \/ MergeDelta(h, n)
    \/ \E outcome \in Outcomes :
         \/ \E flag \in BOOLEAN : NewWitness(h, flag, outcome)
         \/ UpdateWitness(h, outcome)

Next == IssuerStep \/ HolderStep

Spec == Init /\ [][Next]_vars
-----------------------------------------------------------------------------
TypeOK ==
  /\ byDefault \in BOOLEAN
  /\ accum \in Point
  /\ book \subseteq Indices
  /\ signed \subseteq Indices
  /\ ledger \in Seq(Delta)
  /\ pending \in [Holders -> Delta \cup {None}]
  /\ reg \in [Holders -> Point \cup {None}]
  /\ witness \in [Holders -> Point \cup {None}]

\* The indexes a registry with accumulator p holds exactly once.
LiveIn(p) == {i \in Valid : p[GetIndex(i)] = 1}

Published == {InitialAccum} \cup {ledger[n].accum : n \in DOMAIN ledger}

\* A proof of non-revocation verifies: prover and verifier use the same
\* accumulator, and the holder's witness satisfies the pairing equation.
Accepted(h, p) ==
  /\ witness[h] # None
  /\ reg[h] = p
  /\ WitnessHolds(h, p, witness[h])

(***************************************************************************)
(* The accumulator is the sum of the tails of exactly the indexes that the *)
(* calls returning Ok put in use (issuer.rs: issue, revoke and recover in  *)
(* any order), as long as no call fails after its closure ran.             *)
(***************************************************************************)
AccumIsBook == accum = AccumulatorOf(book)

(***************************************************************************)
(* A delta published by the issuer, or merged out of any deltas in any     *)
(* order that RevocationRegistryDelta::merge accepts, says exactly which   *)
(* indexes differ between the two accumulators it names.                   *)
(***************************************************************************)
StartOf(delta, created) == IF delta.prev = None THEN created ELSE delta.prev

DeltaFaithful(delta, created) ==
  LET S == LiveIn(StartOf(delta, created))
      T == LiveIn(delta.accum)
  IN  /\ StartOf(delta, created) = AccumulatorOf(S)
      /\ delta.accum = AccumulatorOf(T)
      /\ delta.issued = T \ S
      /\ delta.revoked = S \ T

DeltasFaithful ==
  /\ \A n \in DOMAIN ledger : DeltaFaithful(ledger[n], InitialAccum)
  /\ \A h \in Holders : pending[h] # None => DeltaFaithful(pending[h], InitialAccum)

(***************************************************************************)
(* Every published delta starts where the one before it ends, so that a    *)
(* holder who is behind always finds a delta that merge accepts.           *)
(***************************************************************************)
LedgerChained ==
  \A n \in DOMAIN ledger :
    ledger[n].prev = IF n = 1 THEN InitialAccum ELSE ledger[n - 1].accum

(***************************************************************************)
(* A witness is the same whether computed afresh (Witness::new), updated   *)
(* delta by delta or updated with one merged delta: the tails of the       *)
(* indexes in use in the registry the holder has, its own left out.        *)
(***************************************************************************)
WitnessFaithful ==
  \A h \in Holders : reg[h] # None =>
    /\ reg[h] = AccumulatorOf(LiveIn(reg[h]))
    /\ witness[h] = TailSum(WitnessTails(LiveIn(reg[h]), h))

(***************************************************************************)
(* Against every published registry, a holder's proof verifies if and only *)
(* if the holder has synchronised with that registry and its index is in   *)
(* use there (_test_witness_signature and the tau4 of the verifier).       *)
(***************************************************************************)
AcceptedIffListed ==
  \A h \in Holders, p \in Published :
    Accepted(h, p) <=> reg[h] = p /\ h \in LiveIn(p)

(***************************************************************************)
(* Whatever indexes, flags, deltas and orders are used, and whatever       *)
(* calls fail: a witness satisfies the pairing equation only against an    *)
(* accumulator that holds the index of its owner exactly once.             *)
(***************************************************************************)
WitnessSound ==
  \A h \in Holders, p \in Published \cup {accum} :
    witness[h] # None /\ WitnessHolds(h, p, witness[h]) => h \in LiveIn(p)

(***************************************************************************)
(* What a test of tests/cl.rs expects of the library (line 4417): that it  *)
(* refuses to revoke an index that is not in use.                          *)
(***************************************************************************)
RevokesOnlyIssued ==
  [][\A i \in Indices :
       ledger' # ledger /\ ledger'[Len(ledger')].revoked = {i} => i \in book]_vars
=============================================================================
