---------------------------- MODULE RevocationList ----------------------------
(***************************************************************************)
(* What a revocation registry promises: a list of the indexes in use that  *)
(* the issuer changes one index at a time and publishes after each change, *)
(* and holders who take up published lists, in any order.  A holder is     *)
(* accepted against the list it has taken up if its index is in that list. *)
(* RevocationRegistry implements this with accumulators, deltas and        *)
(* witnesses in place of the lists.                                        *)
(***************************************************************************)
EXTENDS Integers, Sequences

CONSTANTS
  Indexes,    \* the indexes of the registry
  Members,    \* the indexes whose holders are followed
  NoView      \* a holder that has taken up no list yet

VARIABLES
  listed,     \* the indexes in use
  history,    \* the lists published so far, oldest first
  view        \* the list each holder has taken up

listVars == <<listed, history, view>>

ListTypeOK ==
  /\ listed \subseteq Indexes
  /\ history \in Seq(SUBSET Indexes)
  /\ view \in [Members -> (SUBSET Indexes) \cup {NoView}]

ListInit ==
  /\ listed \in SUBSET Indexes
  /\ history = <<listed>>
  /\ view = [m \in Members |-> NoView]

Publish(list) ==
  /\ listed' = list
  /\ history' = Append(history, list)
  /\ UNCHANGED view

Enlist(i) == i \notin listed /\ Publish(listed \cup {i})

Strike(i) == i \in listed /\ Publish(listed \ {i})

TakeUp(m) ==
  /\ \E n \in DOMAIN history : view' = [view EXCEPT ![m] = history[n]]
  /\ UNCHANGED <<listed, history>>

ListNext ==
  \/ \E i \in Indexes : Enlist(i) \/ Strike(i)
  \/ \E m \in Members : TakeUp(m)

ListSpec == ListInit /\ [][ListNext]_listVars
=============================================================================
