------------------------------ MODULE SendRing ------------------------------
(***************************************************************************)
(* The send queue of channels.c as it is stored: the array g_queue of      *)
(* QUEUE_CAP slots, the index g_queue_head of the oldest request and the   *)
(* count g_queue_len, with the request being settled in g_inflight_req.    *)
(*                                                                         *)
(* A slot keeps its old content after its request was sent; nothing but    *)
(* the two indices says which slots count.  Contents are opaque here:      *)
(* module Channels gives requests their meaning and sees this queue as the *)
(* sequence Waiting below.                                                 *)
(*                                                                         *)
(* A definition that no action uses, written just before the one it would  *)
(* replace, is a faulty variant of it: PROJECT.json names, under mutants,  *)
(* the property that notices the fault.                                    *)
(***************************************************************************)
EXTENDS Integers, Sequences

CONSTANTS
  Requests,   \* the values of SendRequest
  QUEUE_CAP,  \* 32 in the code
  NoRequest   \* an unused slot, and "nothing in flight"

ASSUME RingAssumption ==
  /\ QUEUE_CAP \in Nat \ {0}
  /\ NoRequest \notin Requests

VARIABLES
  g_queue,      \* the slots, 0 .. QUEUE_CAP - 1
  g_queue_head, \* the slot of the oldest waiting request
  g_queue_len,  \* how many requests wait
  g_inflight    \* g_inflight_req while g_inflight is set, else NoRequest

ringVars == <<g_queue, g_queue_head, g_queue_len, g_inflight>>

Slots == 0 .. QUEUE_CAP - 1

Wrap(i) == i % QUEUE_CAP

(* Where enqueue() writes: the slot behind the last waiting request. *)
TailFromZero == Wrap(g_queue_len)
TailSlot == Wrap(g_queue_head + g_queue_len)

(* The slot that becomes the oldest once the head was sent. *)
NextHead == Wrap(g_queue_head + 1)

(* enqueue()'s early return, negated. *)
HasRoom == g_queue_len < QUEUE_CAP

-----------------------------------------------------------------------------
Init ==
  /\ g_queue = [s \in Slots |-> NoRequest]
  /\ g_queue_head = 0
  /\ g_queue_len = 0
  /\ g_inflight = NoRequest

(* enqueue(): without room it returns at once, which is no step here. *)
Enqueue(q) ==
  /\ HasRoom
  /\ g_queue' = [g_queue EXCEPT ![TailSlot] = q]
  /\ g_queue_len' = g_queue_len + 1
  /\ UNCHANGED <<g_queue_head, g_inflight>>

(* channels_poll() with a free wire: the head slot is copied and released. *)
PollSend ==
  /\ g_inflight = NoRequest
  /\ g_queue_len > 0
  /\ g_inflight' = g_queue[g_queue_head]
  /\ g_queue_head' = NextHead
  /\ g_queue_len' = g_queue_len - 1
  /\ UNCHANGED g_queue

(* channels_poll() once g_settle_deadline has passed. *)
PollSettle ==
  /\ g_inflight # NoRequest
  /\ g_inflight' = NoRequest
  /\ UNCHANGED <<g_queue, g_queue_head, g_queue_len>>

Next ==
  \/ \E q \in Requests : Enqueue(q)
  \/ PollSend
  \/ PollSettle

Spec == Init /\ [][Next]_ringVars

-----------------------------------------------------------------------------
(* The sequence the ring stands for, oldest request first. *)
Waiting == [i \in 1..g_queue_len |-> g_queue[Wrap(g_queue_head + i - 1)]]

Fifo == INSTANCE SendFifo
          WITH Capacity <- QUEUE_CAP, waiting <- Waiting, settling <- g_inflight

(* The indices stay inside the array, and every slot that counts holds a     *)
(* request: head and length never run apart from the slots enqueue() wrote.  *)
TypeOK ==
  /\ g_queue \in [Slots -> Requests \cup {NoRequest}]
  /\ g_queue_head \in Slots
  /\ g_queue_len \in 0..QUEUE_CAP
  /\ g_inflight \in Requests \cup {NoRequest}
  /\ \A i \in 1..g_queue_len : Waiting[i] \in Requests

(* The ring is a first-in first-out line: no accepted request is lost,       *)
(* repeated, overtaken or overwritten, wherever head and tail wrap around.   *)
RingIsFifo == Fifo!Spec
=============================================================================
