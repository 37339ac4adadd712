# A TLA+ model of the Ursa library in this repository

The repository is named after a Java driver, but what is left of that driver is
build files and a log. Its program is `ursa_Master/`, Hyperledger Ursa in Rust:

* `libursa`: CL anonymous credentials with revocation (`src/cl`), BLS
  signatures (`src/bls`), Ed25519 and secp256k1 signatures, a C interface
  (`src/ffi`) and a WebAssembly interface (`src/wasm`);
* `libzmix`: PS and BBS signatures and the proofs of knowledge they use.

The library runs no threads, sends no messages and stores nothing. It is a set
of objects which the applications of an issuer, a holder and a verifier call,
and what is hard about it is the order, the repetition, the arguments and the
failures of those calls, over weeks, in three places that see each other's
state late. That is what the modules model. All paths below are relative to
`ursa_Master/libursa/src/` unless they start with `libzmix`.

## 1. The parts of the system

| Part | State it keeps | Operations | How it depends on others |
|---|---|---|---|
| Revocation registry (`cl/mod.rs`, `cl/issuer.rs`) | `RevocationRegistry.accum` of the issuer, deltas (`prev_accum`, `accum`, `issued`, `revoked`), `Witness.omega` of every holder | `new_revocation_registry_def`, `sign_credential_with_revoc`, `revoke_credential`, `recovery_credential`, `RevocationRegistryDelta::merge`, `Witness::new`, `Witness::update` | reads tails through callbacks that may fail (`RevocationTailsAccessor`, `FFITailsAccessor`) |
| Tails generator (`cl/mod.rs:498`, `ffi/cl/mod.rs`) | `size`, `current_index` | `count`, `try_next`, to and from JSON | drained by `SimpleTailsAccessor::new` or by a loop of a C application; what it yields is what the registry reads |
| Predicates (`cl/mod.rs:843`, `cl/helpers.rs:472`) | the request, the value, `delta`, its four roots | `add_predicate`, `_init_ne_proof`, `_verify_ne_predicate` | a part of every sub proof |
| Issuance (`cl/prover.rs`, `cl/issuer.rs`) | blinded secrets, blinding factors, the signature, changed in place | `blind_credential_secrets`, `sign_credential`, `sign_credential_with_revoc`, `process_credential_signature` | its result is what a proof is made from |
| Presentation (`cl/prover.rs:842`, `cl/verifier.rs`) | `ProofBuilder` (`common_attributes`, `init_proofs`, `c_list`, `tau_list`), `ProofVerifier` (`credentials`, `common_attributes`) | `add_common_attribute`, `add_sub_proof_request`, `finalize`, `verify` | uses signatures, registries, witnesses and predicates |
| Keys (`cl/issuer.rs:661-834`, `cl/prover.rs:416`) | none after the call | `new_credential_def`, the key correctness proof and its check | keys are read back from JSON of two versions, maps without an order of their own |
| Builders of schemas, values and requests (`cl/mod.rs`) | a set or a map that grows | `add_attr`, `add_dec_known`, ..., `finalize` | constants of the models |
| C interface (`ffi/`) | heap objects behind handles, the last error of a thread | one function per operation | forwards to the above |
| BLS (`bls/mod.rs`) | none | sign, prove possession, aggregate, verify | `pair/amcl.rs` |
| Ed25519, secp256k1, big numbers, pairings, hashes, logger | none | calls of other libraries | |
| WebAssembly (`wasm/`) | none | forwards, and clones a signature before processing it | |
| libzmix `commitments/pok_vc.rs` | generators, blindings and secrets of a proof, by position | `commit`, `finish`, `gen_proof`, `verify` | used by PS and BBS |
| libzmix PS, BBS | signatures, messages by position | signing with and without committed messages, unblinding, `PoKOfSignature` | `pok_vc` |
| libzmix verifiable encryption, hashing, PRF, ZK language | none | pure functions, or `unimplemented!()` | |

What makes the CL parts and their C interface hard, and what makes them correct:

* **Registry.** The library keeps no list of indexes and no version number.
  Accumulators recur when an index is revoked and recovered, deltas are merged
  by holders that were away for long, and three accumulators (the issuer's, the
  holder's, the verifier's) are of different times. Correct: a proof of
  non-revocation verifies if and only if the holder's index is in use in the
  registry the proof is made and verified against; merging loses nothing.
* **Predicates.** `i32` arithmetic on both sides, four nested loops. Correct: what
  verifies is true, what is true verifies.
* **Issuance.** `process_credential_signature` changes the signature before it
  checks it, in two stages with a check after each. Correct: `Ok` means a proof
  can be made, an error is never mistaken for success by a later call.
* **Presentation.** The challenge hashes lists that are appended to call by call,
  some entries before a call can still fail; the verifier recomputes them from
  its own, separately built, requests. Correct: an honest presentation is
  accepted, and what is accepted is backed by signatures, satisfies the
  predicates, is linked and is not revoked.
* **Tails generator.** A position in a vector stands for a tail identifier; a
  generator can be half drained, saved, restored and shared by C loops. Correct: what a loop gathered
  serves the registry's calls, and a loop ends.
* **Positions.** PS and BBS proofs refer to messages by position only: a list of known
  messages aligned with the end, blindings and responses by the rank among the hidden ones.
  Correct: signer, prover and verifier mean the same position, whatever is hidden.
* **C interface.** 121 functions pass objects as untyped
  pointers; some free what they are passed, a refusal before and a failure after
  that free look much alike. Correct: the return code alone tells which
  handles are alive, and the last error of a thread is its own.

## 2. The modules

### 2.1 `Tails`, `RevocationRegistry`, `RevocationList`, `MCRegistry`, `RegistryProofs`

A point of G2 is the polynomial in gamma it is a power of (`Tails`): the
accumulator, the tails and the witness are functions from tail identifiers to
integers, and equality of pairings is equality of polynomials. This keeps
everything the code does with the points, including coefficients other than
0 and 1 after a double issue or revocation, and indexes that wrap around in
`_get_index`.

| TLA+ | code |
|---|---|
| `byDefault` | the `issuance_by_default` the registry was created with; the later calls take the flag again |
| `accum` | `rev_reg.accum` of the issuer |
| `ledger` | the deltas returned by the issuer's calls, published by its application |
| `pending` | the delta a holder has in hand (read, then merged) |
| `reg`, `witness` | the registry and witness a holder proves with |
| `book`, `signed` | the application's record of which indexes are in use, and which were signed |
| `SignOnDemand`, `SignByDefault` | `sign_credential_with_revoc` with `issuance_by_default` false or true |
| `RevokeCredential`, `RecoveryCredential` | the same names |
| `TakeInitialDelta`, `TakeDelta`, `MergeDelta` | reading a delta, `ursa_cl_issuer_merge_revocation_registry_deltas` |
| `NewWitness`, `UpdateWitness` | `Witness::new`, `Witness::update` |

Every call that reads tails has an outcome: `ok`, `take_failed` (the closure
never runs) or `late_failed` (`put_tail` fails after the closure changed the
accumulator: the caller gets an error and no delta for a registry that did
change). `Careful` says whether the application keeps to the protocol that
`tests/cl.rs` follows: it issues free indexes, revokes indexes in use, applies a
delta to the registry the delta starts from, and passes the `issuance_by_default` the
registry was created with (no call compares the two). With `Careful = FALSE` it
may pass anything.

`RevocationList` is the abstract specification: a list of indexes changed one at a
time and published, and holders that take up published lists. `MCRegistry` maps
the registry to it (`ImplementsList`): the mapping reads the list back out of the
accumulator, so a lost or doubled index would show. `RegistryIsList` proves it for every
capacity.

### 2.1.1 `TailsGenerator`, `MCTailsGenerator`, `TailsGeneratorProofs`

| TLA+ | code |
|---|---|
| `gens` | `RevocationTailsGenerator` by handle: `size`, `current_index` |
| `json` | a generator written by `ursa_cl_tails_generator_to_json` |
| `loops` | the loops begun so far, with the tails each has pushed |
| `NewGenerator` | `RevocationTailsGenerator::new`, with `2 * max_cred_num + 1` on 32 bits |
| `Begin`, `Push`, `Finish` | `SimpleTailsAccessor::new` (kind `rust`: until `None`) or the loop of a C caller (kind `c`: as often as `..._count` said) |

`&mut` keeps two Rust loops off one generator (`Borrowers`); through the C interface the calls of two loops may
alternate. `MCTailsGenerator` relates what was gathered to what `Tails` needs (`ServesIfWhole`).

### 2.2 `Predicates`, `MCPredicates`, `PredicateProofs`

One predicate from request to verdict, with `2 * Half` in place of 2^32 and
`checks` for the builds of the two sides: a release build wraps (`Cargo.toml:17-18` sets
only `lto`), a debug build panics. `FourSquares` is the search of
`four_squares`, with its loops written as the largest root that leaves a sum.
`Equations` are the two of the six equations of `_verify_ne_predicate` which do
not hold by construction. `SquaresFound` says that the search finds a sum for every `delta` of the
width; TLC evaluates it as an assumption of `MCPredicates`.

### 2.3 `Issuance`, `MCIssuance`, `IssuanceProofs`

The factor drawn by call number b of `blind_credential_secrets` is named b, and the
exponents `v` and `vr_prime_prime` of a signature are modelled by how often each
factor was added to them. `Process` is `process_credential_signature` with its
assignments and checks in their order. Messages that are lost, late, repeated or
mixed up are calls made with another argument: every argument of every call is
chosen freely.

### 2.4 `ProofSession`, `MCProofSession`, `ProofSessionProofs`, `RecursionProofs`

A `ProofBuilder`, the proofs it finalizes and a `ProofVerifier`, all of which may
be called in any order, with failures in between. Random draws are named by their
number; an entry of `c_list` or `tau_list` by the draw it was made from; an
`m_hat` by the draw, the value and the challenge it combines; a challenge by what
was hashed. The verifier recomputes an entry exactly when the equation behind it
holds, and gets `Other` when it does not.

`usable` of a credential is the state `Issuance` leaves a signature in, and `index` its
index in a registry. A registry is the set of indexes in use in it, and a witness the set it was
computed for, which may be another: `WitnessFits` is what the pairing equation says of the two by
`RevocationRegistry`, that they agree on every index other than the holder's own. The modules are composed through these
constants, since a presentation changes none of them.

### 2.5 `CInterface`, `Handles`, `MCHandles`, `HandleProofs`

`CInterface` is a table: each function by the kinds of objects it borrows
(`reads`), frees (`takes`) and makes (`gives`), by the codes with which it
refuses null and by those its library function may return. These kinds are what the parameters are
named after. In C a handle is a `void` pointer, so a function may cast to another type than the name says
(`readAs`), box another one (`givenAs`), or write through its output pointer without looking at it
(`unchecked`); the table says where it does. `Handles` runs any of
these functions in any thread, next to an application that goes by the codes and the names.

| TLA+ | code |
|---|---|
| `heap` | the boxes behind the handles, by address; a freed address is used again |
| `held` | what the application concludes from return codes and names |
| `error` | `CURRENT_ERROR_C_JSON` of each thread |
| `failed` | the code of the thread's last failed call |
| `fault` | what went wrong behind the interface: an object taken for something else, or a null written through |
| `CallWithNull` | a macro of `utils/ctypes.rs` finds null and returns |
| `CallFails`, `CallSucceeds` | the library function behind the call returns `Err` or `Ok` |
| `CallMistakes` | a cast to a type the object is not of |
| `CallWritesNull` | a successful call of an `unchecked` function whose output pointer is null |

A handle can be passed only while the application believes it to be alive. What follows a fault is
undefined behaviour, so nothing follows it in the model. `OwnershipAgreed` says that until then the belief is
right, except about a name that some function boxes as something else; `OnlyMisnamedMistaken` says
that no dead handle is dereferenced, and that only a delta is ever taken for another type.

### 2.6 `KnowledgeProof`, `SignedMessages`, `PSSignature`, `BBSSignature`, `Disclosure`, `MCDisclosure`, `DisclosureProofs`

Everything of libzmix's `pok_vc`, PS and BBS is about which scalar stands at which position, so
generators, blindings and secrets are names, a sum of products is a function from generators
to scalars, and a response is the record of blinding, challenge and secret.

| Module | Code |
|---|---|
| `KnowledgeProof` | `impl_PoK_VC!` in `commitments/pok_vc.rs`: `commit`, `finish`, `gen_proof`, `verify` |
| `SignedMessages` | what both schemes do alike: alignment of the known messages, unblinding, the checks of `PoKOfSignature::init` |
| `PSSignature`, `BBSSignature` | `new`, `new_with_committed_messages`, `verify`, `PoKOfSignature::init`, `gen_proof`, `PoKOfSignatureProof::verify` of each |
| `Disclosure` | issuer, holder and verifier calling them, with any arguments |

A signature is the exponent of the generator of each position (`at`) and how often each blinding
is still in it (`left`). The loop that collects the hidden positions is a recursive
function. The constants of `Disclosure` are constrained by named assumptions: calls are well formed (the
key exists, messages and positions are numbers, a committed signature has the key's positions); a list of
revealed messages is no longer than the key, since a longer one underflows (section 7); and a holder that
draws blindings of its own never draws those of the library.

### 2.7 `Aggregation`, `MCAggregation`, `HandleProofs`

`bls/mod.rs` keeps no state. Points are the bag of products (hash times sign key, generator
times sign key) they are sums of, and `pair2` compares the bags. The
abstract meaning is `Paired`: signatures and keys come in pairs of one signer. TLC evaluates two assumptions of `MCAggregation`
(`MultiSignatures`, `SignaturesAndProofs`) in the runs of `MCHandles`, which extends it.

### 2.8 `KeyCorrectness`, `MCKeyCorrectness`, `IssuanceProofs`

The credential key and its proof as the holder checks it before blinding anything
(`_check_credential_key_correctness_proof`). An element of the key is a power of its base `s`; the map `r`
is run through in any order on either side. The proof covers `s`, `z` and `r` (`AgreeOnCovered`). It does not cover `rctxt`:
keys that differ in it are accepted with one proof (`RctxtOpen`). `Deserialize` is the reading of a key, of either version
of the format. TLC evaluates `KeyProofs`, `ReadBack` and `RctxtOpen` for all keys of two
attributes in the run of `MCIssuance`, which extends `MCKeyCorrectness`.

## 3. The runs

| Run | Instance | Shows |
|---|---|---|
| `registry_careful` | 3 indexes, 1 holder, 5 deltas, issuance on demand and by default, careful | the accumulator, deltas and witnesses are exact in any order of issue, revoke, recover and reissue; non-revocation verifies iff the index is listed; the registry implements `RevocationList` |
| `registry_any_calls` | 2 indexes and 0, `max_cred_num + 1` and `max_cred_num + 2` (which wraps around), 2 deltas, any call, any flag, any failure | whatever the application does, a witness never verifies against an accumulator without its owner's index |
| `registry_revoke_unissued` | | finding: revoking an index that is not in use returns `Ok` (an ignored test says otherwise) |
| `predicates_width` | 6-bit integers, each side built with or without overflow checks | what verifies is true except at the two ends of the integer; nothing goes wrong without overflow, `four_squares` finding a sum for every delta included; a verifier with overflow checks is never wrong, whatever the prover's build |
| `predicates_ends` | | finding: a proof of `LT i32::MIN` is built and verifies |
| `tails_generator` | 3-bit integers, 2 generators, 2 loops of either kind, saving and restoring at any point | what a loop alone has gathered serves the registry iff its generator was whole; a null only if another loop took from the generator; every loop ends |
| `issuance` | 2 exchanges, 1 signature, 3 calls on it; all keys over 2 attributes | `Ok` means usable; only the first call on a signature can succeed; what the issuer signs is usable; a key correctness proof fits the keys with the same `s`, `z` and `r` |
| `proof_links` | 2 issuers, 3 credentials (one of another holder), 2 sub proofs, 2 proofs, 2 verdicts | accepted proofs are linked, honest ones accepted, the verifier is bound to the first `m_hat` it meets; `finalize` panics only for a predicate on an attribute that is both revealed and common |
| `proof_requests` | every way to call builder and verifier that `MCProofSession` lists: requests, schemas, keys and registries that do not match; a witness of either of 2 registries; credentials live, revoked and half processed | acceptance is backed by signatures over the whole schema, satisfied predicates and the verifier's nonce; an accepted proof of non-revocation is true; a builder in which a call failed after it had touched the lists makes no proof that is accepted |
| `handles` | 3 addresses, 2 threads, the functions that need at most three objects; BLS lists of up to 2 signatures and keys | the return codes tell which handles are alive; no dead handle is used and only a delta is taken for another type; each thread reads its own error; a multi-signature is accepted iff signatures and keys pair up |
| `handles_merged_delta` | the functions on deltas | finding: a successful merge gives `merged_revoc_reg_delta_p` a pointer to nothing |
| `disclosure` | keys of 3 and 2 messages, both schemes, 2 unblindings, 2 proofs or verdicts | a blind signature verifies only unblinded, for its list; an accepted proof reveals signed messages only; honest proofs are accepted; equal responses mean equal messages |

**Bounds, and why they are enough.** Registry: an index can be issued, revoked,
recovered, revoked and recovered again in five deltas, which is the shortest
history in which the same accumulator occurs three times and a delta can be
merged out of place; three indexes give the holder's own index a neighbour on
each side (tails `max_cred_num + 1 - j + i` on both sides of the unused one);
`registry_any_calls` has every kind of index: `_get_index` takes 0 to the tail `max_cred_num + 1`,
`max_cred_num + 1` to the tail 0 and `max_cred_num + 2` around the integer; it uses a `VIEW`
without the signed indexes that no holder has, which no guard and no property of that run reads;
`MaxMultiplicity` only stops unbounded double issues. The theorems of 4.1 cover
every size. Predicates: wrapping depends on where a value lies
relative to the ends, which 64 values show; the deltas up to 31 include the
sums that need four squares (7, 15, 23, 28, 31). Issuance: two exchanges to mix
up; three calls since a second call can follow a success or a failure and a third
could repair what they did. Presentation: in `proof_links` (no non-revocation) four draws are two credentials
with a common attribute drawn twice, and two verdicts
are needed for the links that the first leaves behind; in `proof_requests` (no common attributes) three draws are
a credential with revocation and one without, or what a failed call left and one with it; two sub proofs
give every pair of neighbours in the lists.
`I32Max`, the largest value that parses as an `i32`, lies above all values in `proof_links` (9), and below the
`link` value 7 in `proof_requests` (5), where predicates on a value that does not parse are refused.
Tails: with 3 bits `2 * max + 1` fits for 1 and 2 and
wraps for 4 and 6; two loops are what it takes to alternate, and two handles a generator
and its copy. Disclosure: three messages give a hidden one before, between and after revealed
ones; `Show` and `Verify` do not look at earlier calls, so two of them in a row
show all pairs. C interface: three
addresses hold a builder, what it is finalized with and an address that was freed
and is used again; two threads are enough to overwrite each other's error.
`MCLone` names the kinds that are left out because their functions do to them
what those of a nonce do; functions on more than three objects
(issuing, signing, blinding) never free one, nor misname one. The theorems of 4.4 cover them all.

**Deadlock** is not checked: every run ends when its bounds are used up or the
session has its verdict, and an application may stop calling the library.

**Fairness and liveness.** The library has no scheduler: a call returns, and whether another
follows is up to the application. The only loops that outlive a call are those that drain a
tails generator. Each is straight code in which nothing waits, so `TailsGenerator` assumes weak fairness of the
steps of a loop that was begun, and of nothing else (nothing makes an application begin
one, save or restore). `LoopsEnd` then says that each ends, however the calls of two loops
alternate. The properties of the form "an honest presentation is accepted" are
stated of the result of each call (`HonestIsAccepted`, `HonestIsShown`), not as eventualities.

## 4. What is proved

### 4.1 `RegistryProofs`

* `TypeCorrect`: `Spec => []TypeOK`.
* `WitnessSoundness`: `Spec => []WitnessSound`, for every capacity, every
  application and every failure. The
  owner's own tail is skipped in every loop that builds a witness, so the
  coefficient of the witness at tail `max_cred_num + 1` stays 0
  (the invariant `OwnTailUnused`), and the pairing equation then pins the accumulator's
  coefficient at the owner's index to 1.
* `AccumulatorIsBook`, `DeltasExact`, `WitnessesExact`, `RevocationCorrect`: for a careful application and no
  late failure (`Protocol`), `AccumIsBook`, `DeltasFaithful`, `WitnessFaithful` and
  `AcceptedIffListed`. The inductive invariant `RegistryInv` says that the accumulator is the sum
  over the book, that every delta on the ledger and in a holder's hand is exact,
  and that every witness is that of the registry it was synchronised with.
  `DeltasFaithful` is not inductive without the accumulators being sums of distinct tails,
  because `merge` compares accumulators only; with it, two exact deltas that meet
  compose (`MergeFaithful`), and an exact delta takes a witness to a witness
  (`WitnessUpdate`).
* `LedgerHasNoGaps`: `LedgerChained`, for any application, as long as no call fails late. The invariant adds that
  the last delta ends at the issuer's accumulator.
* `RegistryIsList`: a careful registry implements `RevocationList` under the mapping of
  `MCRegistry`, for every capacity, any number of holders and both kinds of issuance. The invariant `ListInv` adds to
  `RegistryInv` that what a holder has taken up is a published list (`HoldersFollow`); each call of the issuer changes one index of the
  list and publishes it (`IssuerStepLists`), each call of a holder takes up a list or stutters
  (`HolderStepLists`).

### 4.2 `PredicateProofs`

* `VerifiedPredicateHolds`: `Spec => []VerifiedHoldsInside`, for every width.
  The invariant keeps what `InitNeProof` established of `delta`: it is the wrapped
  difference and not negative. The verifier's first equation is over the integers, so a
  difference that wrapped does not satisfy it, unless the bound wrapped as well,
  which is the case the property leaves out and `predicates_ends` shows.
* `TrueIsProvable`, `VerifierChecksSuffice`, `PredicateTypes`: `ExactWithoutOverflow`,
  `ChecksStopWrapping` and `TypeOK` for every width, from the hypothesis `SquaresFound`. That hypothesis is Lagrange's
  theorem, which this prover cannot prove; TLC evaluates it for 6 bits. The step that carries them is `DeltaOfTrue`:
  for a value that satisfies the predicate, a wrapped `delta` that is not negative is not wrapped at all.

### 4.3 `IssuanceProofs`

All the properties of `Issuance`, for any number of exchanges, signatures and
calls: `IssuanceTypes`, `RevocationComesSecond`, `SignedCanBeUsed`,
`OkMeansUsable` and `OnlyFirstCallSucceeds`. The invariant `IssuanceInv` adds to the
types that a signature was made of blinded secrets for its own key, that one
whose outcome is `none` was not touched, and that the revocation exponent holds
no factor the primary one does not hold. The last part is needed even for the types
(the bound on calls is a guard on the primary exponent only). The step that
carries all of them is `OnlyFactor`: an exponent can be right after a call only
if it was untouched before it.

`KeyProofExact` and `AcceptedAnswersCovered`, about the operators of `KeyCorrectness`, for any attributes and any
orders of the maps on the two sides: the proof the issuer makes is accepted for exactly the keys that agree with
its own on `s`, `z` and `r` (a missing `master_secret` aside), whatever their `rctxt`; and any accepted proof whose
commitments are points has an exponent for `z` and for each element of `r` that it names.

### 4.4 `HandleProofs`

`HandleTypes`, `ReturnCodesSuffice`, `MistakesAreMisnamed` and `EachReadsItsError`: `TypeOK`, `OwnershipAgreed`,
`OnlyMisnamedMistaken` and `ErrorIsOwn`, for any set of functions, whatever they cast to, box or leave
unchecked, and any number of addresses and threads. One convention is assumed, of the functions that free an object
(`TakersAssumption`): they refuse null with an `InvalidParam` code, and what they call returns no such code. TLC evaluates it
for every function (`TakersKeepConvention`, which adds that none of them casts to another type or leaves its output
unchecked); the functions that write through a null pointer all borrow only. The invariant is the conjunction of the
properties. `NamedIsHeld`: if every output were boxed as what it is named after, the application would always be right
(`HeldIsAsNamed`), so the two functions on deltas are the only cause of a wrong belief.

`MultiSignatureExact` and `SignatureIsNoPossession`, about the operators of `Aggregation`: a multi-signature is
accepted if and only if signatures and keys pair up, for any number of signers; and a signature on a message never
passes as a proof of possession.

### 4.5 `ProofSessionProofs`

All the properties of `ProofSession`, for any attributes, credentials and requests that satisfy the
assumptions of the module, and any number of calls. The invariants build on each other:

* `SessionInv`: every sub proof, in the builder or in a finalized proof, has an `m_tilde` drawn by the
  builder for exactly the unrevealed attributes, and predicates on these and on attributes that were common
  when it was made. The panic of `finalize` is what the second case leads to. This gives `SessionTypes`, `OnlyCommonLosesBuilder` and
  `NotedLinksBind` (`TypeOK`, `OnlyCommonPanics`, `LinksBindVerifier`).
* `Books`: the entries of the two lists come in the order of the draws, `c_list` repeats `tau_list`, and
  the sub proofs own entries of their own in that order, non-revocation before primary. An entry that no sub proof owns was left by a
  failed call, wherever in the lists it stands.
* `VerdictInv`: a verdict of `true` is about a proof without such entries. Each entry of
  the list the verifier recomputes is that of a sub proof whose equation holds, or `Other`, and the two lists are
  equal; so every entry is owned and every equation holds. This gives `AcceptedBacked`,
  `AcceptedUnrevoked`, `AcceptedLinked` and `AcceptedClean`.
* `Noted`: an `m_hat` in the verifier's notes is that of the first sub proof of a proof it was shown. With the others it gives
  `HonestAccepted`: a verifier that was shown no other proof with a common attribute of this one has nothing in its notes that contradicts
  it, and the list it recomputes has the entries of the builder's, both in increasing order, hence is the same
  (`SameIncreasing`).

The verifier's list is concatenated from pieces of different lengths by the recursive function of `Joined`. What it
returns for any number of pieces follows by induction from `RecursionProofs`.

### 4.6 `TailsGeneratorProofs`

`GeneratorTypes`, `NoNullAlone` and `WholeServes`: `TypeOK`, `NullOnlyWhenShared` and `ServesIfWhole`, for every
width, capacity and number of loops. `GeneratorInv` keeps of every loop that what it pushed lies between where it began and where its generator
stands, and that a loop that was alone has as many calls left as its generator has tails. `Gathering` adds
what a loop alone has pushed: the tails from where it began, in their order and without a gap, and all of them
when it has ended; and that every generator, the saved one included, has the size of the registry's capacity.

### 4.7 `DisclosureProofs`

All the properties of `Disclosure`, for PS and BBS, keys of any number of messages, any arguments of the calls
and any number of unblindings, proofs and verdicts: `Typing`, `BlindSigning`, `AcceptedSigned`,
`HonestShown` and `Linking` (`TypeOK`, `BlindSigned`, `AcceptedIsSigned`, `HonestIsShown`,
`LinkedResponses`). There are two parts.

* The operators. A hidden message stands in the lists of bases, secrets, blindings and responses
  at its rank among the hidden ones, behind the heads of the scheme (`HiddenPositions`, `ListsInOrder`,
  `RespondsAtRank`), and that is so for prover and verifier alike when they agree on what is revealed. From this
  follow what an accepted proof shows (`PSAccepts`, `BBSAccepts`), that an honest one is accepted
  (`PSHonest`, `BBSHonest`), and where the response about a message is (`PSResponds`, `BBSResponds`).
* The states. `DisclosureInv` says that the signature in hand is that of its origin with the blindings taken
  out that it was unblinded with, that each proof was made of this signature with a draw of its own, and that every
  verdict is what `verify` says of its proof. `BlindSigned`, which is about the signature alone, needs only the first of the three.

### 4.8 `RecursionProofs`

Induction over the natural numbers, stated for sets (`Least`, `SetInduction`), since the installed provers cannot
instantiate a theorem about an operator; it rests on the well-foundedness of `<`. From it,
that a function defined by recursion over the numbers exists (`RecursionExists`) and is the only one
(`RecursionUnique`). `Joined` and `HiddenSeq`, the loops whose result depends on what they passed
over, are such functions, and these lemmas are what 4.5 and 4.7 know of them.

### 4.9 Only model-checked

`LoopsEnd`, since no theorem here is about liveness or `ENABLED`. `SquaresFound`, the hypothesis of three theorems
of 4.2: Lagrange's theorem on four squares; TLC evaluates it for 6 bits. What
`four_squares` finds, which is a search over roots, and what the assumptions of `MCAggregation` and
`MCKeyCorrectness` evaluate beyond the theorems of 4.3 and 4.4. Everything else that a run checks is stated by a theorem.

## 5. Assumptions of the models

* Group elements are equal only when their exponents are, as polynomials in the
  issuer's secrets; hashes of different inputs differ; random draws differ from
  each other. A proof that somebody makes by solving a discrete logarithm is not in the models.
* Proofs shown to a verifier are made by the builder. The models are about what the library
  does with its own objects, called in any order, not about forged bytes.
* A signature covers the attributes whose values are `Known` or `Hidden`; a
  `Commitment` is not part of it (`cl/prover.rs:696`, `cl/issuer.rs`).

## 6. What was learnt about the code

* Findings (runs that end in a violation): see section 3.
* `process_credential_signature` succeeds at most once on one object, and only as the
  first call. After an error the application needs the signature as it came from
  the issuer. The WebAssembly interface does this (`wasm/cl.rs:576` clones); the C
  interface does not. A first call without registry and witness returns `Ok` and
  makes the non-revocation part unreachable in place.
* A failed `put_tail` leaves an accumulator that was changed and not published
  (`ffi/cl/mod.rs:1102`), from which no later call recovers.
* `merge` accepts a delta again when the accumulators recur. This is harmless: such a merge
  is exact (`MergeFaithful`).
* A failed `add_sub_proof_request` can leave the entries of the non-revocation
  part in `c_list` and `tau_list`. No later proof of that builder verifies.
* `verify` with a registry accepts a proof that carries no proof of non-revocation
  (`cl/verifier.rs:234`): whether one is present is for the application to check.
* A `ProofVerifier` that has common attributes keeps the `m_hat`s of the first
  proof it meets and rejects every later one. The C interface cannot run
  into this, since `ursa_cl_proof_verifier_verify` consumes the verifier.
* `ursa_cl_issuer_merge_revocation_registry_deltas` changes its first argument and
  puts a boxed unit where its signature promises the merged delta
  (`ffi/cl/issuer.rs:1996`). Passing that handle on reads an address without an object.
* The JSON functions of a delta treat it as a `SignatureCorrectnessProof`: `..._delta_to_json` casts to one
  (`ffi/cl/issuer.rs:1690`) and `..._delta_from_json` parses and boxes one (`:1759`), while `..._delta_free`
  (`:1805`) and every function that uses a delta cast to `RevocationRegistryDelta`. A delta cannot be written to JSON or read from it
  through the C interface; `OnlyMisnamedMistaken` allows these faults and no others.
* These functions write through an output pointer that they do not check for null, when their work is done:
  `ursa_cl_witness_new`, `..._revoke_credential`, `..._recovery_credential` (the registry has then
  changed), `..._delta_from_parts`, `..._merge_revocation_registry_deltas`, `..._get_credential_revocation_index`,
  `ursa_bls_sign_key_new`, `ursa_bls_ver_key_new`, `ursa_bls_pop_new` and `ursa_get_current_error`.
* `check_useful_c_reference_array` and `check_useful_hashset` (`utils/ctypes.rs:90`,
  `:112`) return the code of one parameter and set the error of another.
* The strings made by the `..._to_json` functions have no function that frees them, and
  the documentation of `ursa_cl_verifier_new_proof_verifier` names
  `ursa_cl_proof_verifier_finalize`, which does not exist (`ffi/cl/verifier.rs:12`).
* Signing index `max_cred_num + 1` succeeds (`cl/issuer.rs:1183` checks nothing), although the ignored test
  `anoncreds_works_for_full_accumulator` (`tests/cl.rs:3580`) expects an error; `registry_any_calls` covers what follows. Its tail is the one with identifier 0, which no
  index of the registry has.
* A drained or half saved tails generator gives a `SimpleTailsAccessor` whose positions are not tail identifiers, and
  nothing reports it; `2 * max_cred_num + 1` wraps for `max_cred_num` of 2^31 and more, and the generator then
  stops early.
* BBS `Signature::new` takes fewer messages than the key is for, signs them at the last positions, and returns
  `Ok`; PS `new` refuses. PS `PoKOfSignatureProof::verify` panics on a revealed index
  out of range (`ps/pok_sig.rs:193`) where BBS returns an error.
* A key correctness proof may leave out `master_secret` (proofs of the first version of the format do), and then
  says nothing of that element of the key. It never says anything of `rctxt` (`cl/mod.rs:309`), which neither `cl/issuer.rs:798-811`
  hashes nor `cl/prover.rs:355-382` checks.
* A predicate on an attribute that is revealed and common is accepted by
  `add_sub_proof_request` and panics in `finalize` (`cl/prover.rs:1671`).

## 7. What is not modelled, and why

* How primes, generators and the keys of a revocation registry are drawn; the big number and
  pairing back ends; Ed25519 and secp256k1; hashes; verifiable encryption: arithmetic or
  calls of other libraries, with no state. The group equations they provide are the assumptions of section 5.
* The builders of schemas, values and requests: each adds to a set or a map and is then consumed
  (which `Handles` does model); the models take what they make as constants.
* `m_2`, the credential context: it is drawn once per credential and the same on all sides, and is left out of the attributes of
  `Issuance` and `ProofSession`.
* The text of errors, and how long the pointer of `ursa_get_current_error` stays valid.
* libzmix: signatures with an identity element and malformed keys, which only foreign bytes can make; a list of more
  revealed values than the key has positions, for which a subtraction underflows; the Pedersen
  commitments, which nothing calls; hashing to a curve; the stubs of `zkl` and `prf`.
* BLS: empty lists, which the C interface refuses, how AMCL pairs the point at infinity, and keys that
  were not made by the library.
* The WebAssembly interface, which forwards (and clones what it would change); logging.

What could follow: a module that composes `Issuance`, `RevocationRegistry` and `ProofSession` in one state
space, with an issuer that revokes between a holder's update and its presentation. At present they
are composed through the constants `usable` and `index` of a credential and `Registries` (2.4), which the theorems
`OkMeansUsable` and `RevocationCorrect` justify; a presentation changes none of them.
