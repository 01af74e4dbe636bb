----------------------------- MODULE MCRoutines -----------------------------
(***************************************************************************)
(* The routines on their own (module Routines) for TLC, with the fairness  *)
(* of the runner: two routines that compete for it, and one agent.         *)
(***************************************************************************)
EXTENDS Routines

ASSUME MCAssumption == RoutinesAssumption
=============================================================================
