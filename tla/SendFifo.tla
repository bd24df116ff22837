------------------------------ MODULE SendFifo ------------------------------
(***************************************************************************)
(* What channels.h promises about the shared serial line: "sends queue     *)
(* through a simple FIFO - only one frame is ever in flight at a time".    *)
(*                                                                         *)
(* This is the abstract specification.  It knows nothing of ring indices,  *)
(* channels or timers: requests wait in line, the oldest one is put on the *)
(* wire, and the next one has to wait until it has settled.  A request     *)
(* that finds the line full is refused, which is a stuttering step here.   *)
(***************************************************************************)
EXTENDS Naturals, Sequences

CONSTANTS
  Requests,   \* what can be queued
  Capacity,   \* how many requests can wait
  NoRequest   \* "nothing is settling"

VARIABLES
  waiting,    \* the accepted requests that are not on the wire yet, oldest first
  settling    \* the request on the wire, or NoRequest

fifoVars == <<waiting, settling>>

Init ==
  /\ waiting = <<>>
  /\ settling = NoRequest

(* Requests join at the back, as many as fit; nobody in front of them moves. *)
Accept ==
  /\ waiting' \in Seq(Requests)
  /\ Len(waiting') \in (Len(waiting) + 1) .. Capacity
  /\ \A i \in 1..Len(waiting) : waiting'[i] = waiting[i]
  /\ UNCHANGED settling

(* The oldest request goes on the wire, once the wire is free. *)
Send ==
  /\ settling = NoRequest
  /\ waiting # <<>>
  /\ settling' = Head(waiting)
  /\ waiting' = Tail(waiting)

(* The request on the wire has had its settle time. *)
Settle ==
  /\ settling # NoRequest
  /\ settling' = NoRequest
  /\ UNCHANGED waiting

Next == Accept \/ Send \/ Settle

Spec == Init /\ [][Next]_fifoVars
=============================================================================
