--------------------------- MODULE MCTailsGenerator ---------------------------
(***************************************************************************)
(* What the loops over a tails generator gather, held against what the     *)
(* calls of the registry (Tails) read from it.                             *)
(***************************************************************************)
EXTENDS TailsGenerator

\* The calls of the registry at hand, whose capacity is max.
T == INSTANCE Tails WITH MaxCredNum <- max

\* The identifiers that those calls ask for, whichever indexes they are given.
Needed ==
  {T!GetIndex(i) : i \in 1 .. max}
  \cup UNION {T!WitnessTails(1 .. max, own) : own \in 1 .. max}

Serves(l) ==
  \A t \in Needed : t + 1 \in DOMAIN loops[l].tails /\ loops[l].tails[t + 1] = t

(***************************************************************************)
(* access_tail takes the identifier as the position in the vector.  What a *)
(* loop alone has gathered therefore serves the calls of the registry, for *)
(* every index and pair of indexes, if and only if it began on a generator *)
(* that nothing was taken from (not one drained before, nor one restored   *)
(* from JSON that was saved half way) and 2 * max_cred_num + 1 did not     *)
(* wrap around (mod.rs:511).                                               *)
(***************************************************************************)
ServesIfWhole ==
  \A l \in Loops : loops[l] # Absent /\ loops[l].status = "ended" /\ Alone(l) =>
    (Serves(l) <=> loops[l].from = 0 /\ 2 * max + 1 < U32)
=============================================================================
