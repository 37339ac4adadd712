------------------------------ MODULE MCRegistry ------------------------------
(***************************************************************************)
(* RevocationRegistry on small instances, and the mapping of its state to  *)
(* the lists of RevocationList.                                            *)
(***************************************************************************)
EXTENDS RevocationRegistry

MCValid == 1 .. MaxCredNum
\* 0 and max_cred_num + 1 name tails that no index has, max_cred_num + 2 wraps
\* round (Issuer::_get_index).
MCAnyIndex == 0 .. MaxCredNum + 2

\* Without Careful, an index in signed makes a difference only if a holder has
\* it (TakeDelta, TakeInitialDelta), and WitnessSound does not look at signed:
\* states that differ in the other indexes have the same futures.
MCAnyView ==
  <<byDefault, accum, book, signed \cap Holders, ledger, pending, reg, witness>>

(***************************************************************************)
(* A careful application sees the registry as a list of indexes: every     *)
(* call that changes the accumulator enlists or strikes out one index, and *)
(* a holder with a witness has taken up one of the published lists.        *)
(***************************************************************************)
List == INSTANCE RevocationList WITH
  Indexes <- Valid,
  Members <- Holders,
  NoView  <- None,
  listed  <- LiveIn(accum),
  history <- [n \in 1 .. Len(ledger) + 1 |->
                IF n = 1 THEN InitialIndices ELSE LiveIn(ledger[n - 1].accum)],
  view    <- [h \in Holders |-> IF reg[h] = None THEN None ELSE LiveIn(reg[h])]

ImplementsList == List!ListSpec
=============================================================================
