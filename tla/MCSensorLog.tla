---------------------------- MODULE MCSensorLog ----------------------------
(***************************************************************************)
(* SensorService, and SensorLog within it, for TLC: the clock starts at 0, *)
(* and at most MaxMishaps kinds of things go wrong in a behaviour.         *)
(***************************************************************************)
EXTENDS SensorService, FiniteSets

CONSTANT MaxMishaps

MCInit == ServiceInit /\ now = 0

MCNext == ServiceNext /\ Cardinality(mishaps') <= MaxMishaps

MCSpec == MCInit /\ [][MCNext]_serviceVars /\ ServiceFairness
=============================================================================
