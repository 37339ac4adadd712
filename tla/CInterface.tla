------------------------------ MODULE CInterface ------------------------------
(***************************************************************************)
(* The functions of the C interface (libursa/src/ffi), each by what it     *)
(* does with the objects behind the handles it is passed.  In C a handle   *)
(* is a void pointer: the caller goes by the name of the parameter, the    *)
(* function casts to a type.  A kind of object stands for either:          *)
(*   reads    the names of the parameters it borrows (parameters that must *)
(*            not be null; optional ones are left out);                    *)
(*   takes    the name of the parameter it turns back into a Box and drops;*)
(*   gives    the names of the output parameters that a successful call    *)
(*            fills, one set for each possibility;                         *)
(*   readAs   the types that borrowed parameters are cast to, where that   *)
(*            is not the type the parameter is named after;                *)
(*   givenAs  the types that outputs are boxed as, likewise;               *)
(*   unchecked whether its output pointer is written through without a     *)
(*            null check;                                                  *)
(*   errors   the codes of the errors the library function behind it may   *)
(*            return (a tails callback that fails is an InvalidState,      *)
(*            whatever code it returns);                                   *)
(*   refusals the codes it returns when a parameter that it does check is  *)
(*            null.                                                        *)
(* The parameters that are no handles (numbers, strings, callbacks) and    *)
(* the C strings returned by the ..._to_json functions, which no function  *)
(* takes back, are left out.                                               *)
(***************************************************************************)
EXTENDS FiniteSets

Success == "Success"
InvalidParam == "InvalidParam"
ErrorKinds == {"InvalidState", "InvalidStructure", "ProofRejected"}

Contract(reads, takes, gives) ==
  [reads |-> reads, takes |-> takes, gives |-> gives, readAs |-> <<>>, givenAs |-> <<>>,
   unchecked |-> FALSE, errors |-> ErrorKinds, refusals |-> {InvalidParam}]

As(name, type) == [k \in {name} |-> type]

\* Its output parameter has no check_useful_c_ptr!.
Unchecked(c) == [c EXCEPT !.unchecked = TRUE]

Make(reads, S) == Contract(reads, {}, {S})
Use(reads) == Contract(reads, {}, {{}})
Finalize(kind, reads, S) == Contract(reads, {kind}, {S})
Free(kind) == [Contract({}, {kind}, {{}}) EXCEPT !.errors = {}]

\* _to_json and _from_json, or _as_bytes and _from_bytes, and _free.
Convertible(kind) == {Use({kind}), Make({}, {kind}), Free(kind)}

\* _builder_new, _builder_add_..., _builder_finalize, and _free of the result.
Built(builder, kind) ==
  {Make({}, {builder}), Use({builder}), Finalize(builder, {}, {kind}), Free(kind)}

-----------------------------------------------------------------------------
(***************************************************************************)
(* ffi/mod.rs and ffi/cl/mod.rs                                            *)
(***************************************************************************)
\* It returns no code and refuses nothing.
CurrentError == [Unchecked(Use({})) EXCEPT !.errors = {}, !.refusals = {}]

TailCalls ==
  {Contract({"TailsGenerator"}, {}, {{"Tail"}, {}}), Use({"TailsGenerator"}), Free("Tail")}

WitnessCalls ==
  {Unchecked(Make({"Delta"}, {"Witness"})), Use({"Delta", "Witness"}), Free("Witness")}

SchemaCalls == Built("SchemaBuilder", "Schema")

NonSchemaCalls == Built("NonSchemaBuilder", "NonSchema")

ValuesCalls == Built("ValuesBuilder", "Values")

SubProofRequestCalls == Built("SubProofRequestBuilder", "SubProofRequest")

NonceCalls == Convertible("Nonce")

(***************************************************************************)
(* ffi/cl/issuer.rs                                                        *)
(***************************************************************************)
NewCredentialDef == Make({"Schema", "NonSchema"}, {"PublicKey", "PrivateKey", "KeyProof"})

PublicKeyCalls == Convertible("PublicKey")

PrivateKeyCalls == Convertible("PrivateKey")

KeyProofCalls == Convertible("KeyProof")

NewRegistryDef ==
  Make({"PublicKey"}, {"RevKeyPublic", "RevKeyPrivate", "Registry", "TailsGenerator"})

RevKeyPublicCalls == Convertible("RevKeyPublic")

RevKeyPrivateCalls == Convertible("RevKeyPrivate")

RegistryCalls == Convertible("Registry")

TailsGeneratorCalls == Convertible("TailsGenerator")

SigningInputs ==
  {"BlindedSecrets", "BlindedSecretsProof", "Nonce", "Values", "PublicKey", "PrivateKey"}

Sign == Make(SigningInputs, {"Signature", "SignatureProof"})

\* The delta is null for a registry with issuance by default.  There are not
\* enough codes for its parameters: null for the last ones is InvalidState.
SignWithRevoc ==
  [Contract(SigningInputs \cup {"Registry", "RevKeyPrivate"}, {},
            {{"Signature", "SignatureProof"}, {"Signature", "SignatureProof", "Delta"}})
     EXCEPT !.refusals = {InvalidParam, "InvalidState"}]

SignatureCalls == Convertible("Signature")

SignatureProofCalls == Convertible("SignatureProof")

\* The two conversions take a delta for a SignatureCorrectnessProof: _to_json
\* casts the pointer to one and _from_json parses and boxes one.  Only _free
\* takes it for a RevocationRegistryDelta.
DeltaToJson == [Use({"Delta"}) EXCEPT !.readAs = As("Delta", "SignatureProof")]

DeltaFromJson == [Make({}, {"Delta"}) EXCEPT !.givenAs = As("Delta", "SignatureProof")]

DeltaCalls == {DeltaToJson, DeltaFromJson, Free("Delta")}

DeltaFromParts == [Unchecked(Make({"Registry"}, {"Delta"})) EXCEPT !.errors = {}]

ChangeRegistryCalls == {Unchecked(Make({"Registry"}, {"Delta"}))}

\* The first delta is changed in place and merged_revoc_reg_delta_p gets a
\* boxed unit: an address with no bytes behind it.
MergeDeltas ==
  [Unchecked(Make({"Delta"}, {"Delta"})) EXCEPT !.givenAs = As("Delta", "Unit")]

(***************************************************************************)
(* ffi/cl/prover.rs and ffi/cl/verifier.rs                                 *)
(***************************************************************************)
MasterSecretCalls == Convertible("MasterSecret")

Blind ==
  Make({"PublicKey", "KeyProof", "Values", "Nonce"},
       {"BlindedSecrets", "BlindingFactors", "BlindedSecretsProof"})

BlindedSecretsCalls == Convertible("BlindedSecrets")

BlindingFactorsCalls == Convertible("BlindingFactors")

BlindedSecretsProofCalls == Convertible("BlindedSecretsProof")

ProcessSignature ==
  Use({"Signature", "Values", "SignatureProof", "BlindingFactors", "PublicKey", "Nonce"})

RevocationIndex == Unchecked(Use({"Signature"}))

ProofBuilderCalls ==
  {Make({}, {"ProofBuilder"}), Use({"ProofBuilder"}),
   Use({"ProofBuilder", "SubProofRequest", "Schema", "NonSchema", "Signature", "Values",
        "PublicKey"})}

FinalizeProof == Finalize("ProofBuilder", {"Nonce"}, {"Proof"})

ProofCalls == Convertible("Proof")

VerifierCalls ==
  {Make({}, {"ProofVerifier"}), Use({"ProofVerifier"}),
   Use({"ProofVerifier", "SubProofRequest", "Schema", "NonSchema", "PublicKey"})}

VerifyProof == Finalize("ProofVerifier", {"Proof", "Nonce"}, {})

(***************************************************************************)
(* ffi/bls.rs                                                              *)
(***************************************************************************)
GeneratorCalls == Convertible("Generator")

SignKeyCalls == Convertible("SignKey") \cup {Unchecked(Make({}, {"SignKey"}))}

VerKeyCalls ==
  Convertible("VerKey") \cup {Unchecked(Make({"Generator", "SignKey"}, {"VerKey"}))}

PossessionCalls ==
  Convertible("Possession") \cup {Unchecked(Make({"VerKey", "SignKey"}, {"Possession"}))}

BlsSignatureCalls == Convertible("BlsSignature")

MultiSignatureCalls ==
  Convertible("MultiSignature") \cup {Make({"BlsSignature"}, {"MultiSignature"})}

BlsSign == Make({"SignKey"}, {"BlsSignature"})

BlsVerifyCalls ==
  {Use({"BlsSignature", "VerKey", "Generator"}), Use({"MultiSignature", "VerKey", "Generator"}),
   Use({"Possession", "VerKey", "Generator"})}

-----------------------------------------------------------------------------
IssuerCalls ==
  {NewCredentialDef, NewRegistryDef, Sign, SignWithRevoc, DeltaFromParts, MergeDeltas}
    \cup PublicKeyCalls \cup PrivateKeyCalls \cup KeyProofCalls \cup RevKeyPublicCalls
    \cup RevKeyPrivateCalls \cup RegistryCalls \cup TailsGeneratorCalls \cup SignatureCalls
    \cup SignatureProofCalls \cup DeltaCalls \cup ChangeRegistryCalls

HolderCalls ==
  {Blind, ProcessSignature, RevocationIndex, FinalizeProof} \cup MasterSecretCalls
    \cup BlindedSecretsCalls \cup BlindingFactorsCalls \cup BlindedSecretsProofCalls
    \cup ProofBuilderCalls \cup ProofCalls \cup TailCalls \cup WitnessCalls

BuilderCalls == SchemaCalls \cup NonSchemaCalls \cup ValuesCalls \cup SubProofRequestCalls

BlsCalls ==
  {BlsSign} \cup GeneratorCalls \cup SignKeyCalls \cup VerKeyCalls \cup PossessionCalls
    \cup BlsSignatureCalls \cup MultiSignatureCalls \cup BlsVerifyCalls

AllCalls ==
  IssuerCalls \cup HolderCalls \cup BuilderCalls \cup BlsCalls \cup NonceCalls
    \cup VerifierCalls \cup {VerifyProof, CurrentError}

NamesOf(calls) == UNION {c.reads \cup c.takes \cup UNION c.gives : c \in calls}

KindsOf(calls) ==
  NamesOf(calls) \cup UNION {{c.readAs[k] : k \in DOMAIN c.readAs} : c \in calls}
    \cup UNION {{c.givenAs[k] : k \in DOMAIN c.givenAs} : c \in calls}
=============================================================================
