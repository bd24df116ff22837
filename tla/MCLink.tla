------------------------------- MODULE MCLink -------------------------------
(***************************************************************************)
(* Link for TLC: the queue is filled with commands for one unit, a         *)
(* different one in each behaviour, and at most MaxCuts frames are cut     *)
(* off.                                                                    *)
(***************************************************************************)
EXTENDS Link

CONSTANTS Units, MaxCuts

SomeCommands ==
  UNION {{[unit |-> u, type |-> OUTPUT_SWITCH, on |-> FALSE],
          [unit |-> u, type |-> SIGNAL_CONTROL, mode |-> 1, power |-> -12]} : u \in Units}

VARIABLE unit

mcVars == <<linkVars, unit>>

MCInit == LinkInit /\ unit \in Units

MCNext ==
  /\ LinkNext
  /\ \A i \in 1 .. g_queue_len' : Waiting'[i] # NoRequest => Waiting'[i].unit = unit
  /\ cuts' <= MaxCuts
  /\ UNCHANGED unit

MCSpec == MCInit /\ [][MCNext]_mcVars
=============================================================================
