------------------------------ MODULE MCHandles -------------------------------
(***************************************************************************)
(* Handles with the functions that need at most three objects, and with    *)
(* the functions on revocation deltas that do not convert them.            *)
(***************************************************************************)
EXTENDS Handles, MCAggregation, TLC

MCSmall(c) ==
  \A outputs \in c.gives :
    Cardinality(c.reads) + Cardinality(outputs) <= 3 /\ Cardinality(c.reads \cup c.takes) <= 3

\* Kinds that come and go like a nonce, or like a schema, in the functions
\* that are left.
MCLone == {"MasterSecret", "PrivateKey", "KeyProof", "BlindingFactors", "BlindedSecrets",
           "BlindedSecretsProof", "RevKeyPublic", "RevKeyPrivate", "NonSchemaBuilder",
           "NonSchema"}

MCSmallCalls == {c \in AllCalls : MCSmall(c) /\ NamesOf({c}) \cap MCLone = {}}

MCDeltaCalls == {DeltaFromParts, MergeDeltas, Free("Delta")} \cup RegistryCalls

MCSymmetry == Permutations(Addresses) \cup Permutations(Threads)

(***************************************************************************)
(* Every kind of object that a function returns has a function that takes  *)
(* it back (the ..._free functions, finalize and verify), and no function  *)
(* that takes an object back names it wrongly or leaves an output          *)
(* unchecked: all of them keep to the convention that Handles assumes.     *)
(***************************************************************************)
ASSUME Releasable ==
  \A c \in AllCalls : \A k \in UNION c.gives : \E d \in AllCalls : d.takes = {k}

ASSUME TakersKeepConvention ==
  \A c \in AllCalls :
    c.takes # {} => /\ c.refusals = {InvalidParam} /\ InvalidParam \notin c.errors
                    /\ c.readAs = <<>> /\ c.givenAs = <<>> /\ ~c.unchecked
=============================================================================
