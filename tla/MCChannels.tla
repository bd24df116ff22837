----------------------------- MODULE MCChannels -----------------------------
(***************************************************************************)
(* Channels for TLC: the GUI makes at most MaxCalls calls.  With MaxCalls  *)
(* above QUEUE_CAP + 1 the queue can be filled and overrun; after the last *)
(* call the polls go on, so that what was asked for can take effect.       *)
(***************************************************************************)
EXTENDS Channels

CONSTANT MaxCalls

VARIABLE calls

mcVars == <<chanVars, calls>>

MCInit ==
  /\ Init
  /\ \A c \in Channels : radio[c].on
  /\ calls = 0

MCCall ==
  /\ calls < MaxCalls
  /\ calls' = calls + 1
  /\ Call

MCNext ==
  \/ MCCall
  \/ PollSettle /\ UNCHANGED calls
  \/ PollSend /\ UNCHANGED calls
  \/ LinkChange /\ UNCHANGED calls

MCSpec ==
  /\ MCInit
  /\ [][MCNext]_mcVars
  /\ WF_mcVars(PollSettle /\ UNCHANGED calls)
  /\ WF_mcVars(PollSend /\ UNCHANGED calls)
=============================================================================
