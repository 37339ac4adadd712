----------------------------- MODULE MCPredicates -----------------------------
(***************************************************************************)
(* Predicates on a narrow integer: every threshold with every attribute    *)
(* value of that width and two that have no such representation, or few    *)
(* thresholds and a wider range for the four squares.                      *)
(***************************************************************************)
EXTENDS Predicates

ASSUME SquaresFoundHere == SquaresFound

MCEveryBuild == [prover : BOOLEAN, verifier : BOOLEAN]
MCRelease == [prover : {FALSE}, verifier : {FALSE}]
MCEveryThreshold == I32
MCEveryValue == -Half - 1 .. Half
MCFromZero == 0 .. Half - 1
=============================================================================
