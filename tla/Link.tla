-------------------------------- MODULE Link --------------------------------
(***************************************************************************)
(* The way of a command from the queue of channels.c to the amplifiers:    *)
(* the ring of SendRing, conn_send() of connection.c, which hands the      *)
(* bytes of a frame to Transit.dll one by one, and the line, at whose far  *)
(* end the frames are found again the way protocol.c finds them.           *)
(*                                                                         *)
(* The dongle can be pulled out at any moment, also amid a frame: what the *)
(* DLL returns is not looked at, so that the rest of the bytes are lost    *)
(* and the far end is left with a piece of a frame.                        *)
(*                                                                         *)
(* A definition that no action uses, written just before the one it would  *)
(* replace, is a faulty variant of it: PROJECT.json names, under mutants,  *)
(* the property that notices the fault.                                    *)
(***************************************************************************)
EXTENDS SendRing, Frames

ASSUME LinkAssumption == Requests \subseteq Commands

VARIABLES
  dll_file,   \* external: Transit.dll is "absent", "unfit" (lacks an export), "fit"
  dll,        \* what is loaded of its exports: "nothing" or "all"
  dongle,     \* external: the RS422 dongle is plugged in
  connected,  \* Connection.connected
  wire,       \* external: bytes on their way
  far_buf,    \* the far end's ProtoParser
  owed,       \* history: commands sent whole whose frame may still be found
  lost,       \* history: how many were passed over for good
  cuts,       \* history: how many frames were cut off
  forged      \* history: a frame was found that nobody sent

lineVars == <<wire, far_buf, owed, lost, cuts, forged>>
connVars == <<dll_file, dll, dongle, connected>>
linkVars == <<ringVars, connVars, lineVars>>

-----------------------------------------------------------------------------
LinkInit ==
  /\ Init
  /\ dll_file \in {"absent", "unfit", "fit"}
  /\ dll = "nothing"
  /\ dongle \in BOOLEAN
  /\ connected = FALSE
  /\ wire = <<>>
  /\ far_buf = <<>>
  /\ owed = <<>>
  /\ lost = 0
  /\ cuts = 0
  /\ forged = FALSE

(* transit_dll_load(): all five exports, or nothing. *)
Loaded == IF dll_file = "fit" THEN "all" ELSE "nothing"

(* conn_connect(): the DLL is loaded once; then it says whether it is        *)
(* connected.                                                                *)
ConnConnect ==
  /\ ~connected
  /\ dll' = IF dll = "nothing" THEN Loaded ELSE dll
  /\ connected' = (dll' # "nothing" /\ dongle)
  /\ UNCHANGED <<ringVars, dll_file, dongle, lineVars>>

(* conn_disconnect(), by the user, or by conn_poll() when the link is lost.  *)
ConnDisconnect ==
  /\ connected
  /\ connected' = FALSE
  /\ UNCHANGED <<ringVars, dll_file, dll, dongle, lineVars>>

ConnPoll ==
  /\ ~dongle
  /\ ConnDisconnect

-----------------------------------------------------------------------------
(* conn_send() within channels_poll(): nothing without a connection; the     *)
(* whole frame; or its first bytes when the dongle goes amid it.             *)
SendNothing ==
  /\ ~connected \/ ~dongle
  /\ UNCHANGED <<dongle, lineVars>>

SendWhole(q) ==
  /\ connected /\ dongle
  /\ wire' = wire \o Bytes(q)
  /\ owed' = Append(owed, Intent(q))
  /\ UNCHANGED <<dongle, far_buf, lost, cuts, forged>>

SendCut(q) ==
  /\ connected /\ dongle
  /\ dongle' = FALSE
  /\ \E k \in 1 .. Len(Bytes(q)) - 1 : wire' = wire \o SubSeq(Bytes(q), 1, k)
  /\ cuts' = cuts + 1
  /\ UNCHANGED <<far_buf, owed, lost, forged>>

Sends ==
  /\ PollSend
  /\ SendNothing \/ SendWhole(g_inflight') \/ SendCut(g_inflight')
  /\ UNCHANGED <<dll_file, dll, connected>>

(* The next frame comes 300 ms after the one before, which takes a few       *)
(* milliseconds on the line.                                                 *)
Settles ==
  /\ wire = <<>>
  /\ PollSettle
  /\ UNCHANGED <<connVars, lineVars>>

Enqueues(q) ==
  /\ Enqueue(q)
  /\ UNCHANGED <<connVars, lineVars>>

-----------------------------------------------------------------------------
(* Bytes arrive, some at a time.  Commands found are taken off what is owed, *)
(* with those before them, which were lost.  A frame of no known type is no  *)
(* command: a cut frame's single 7E before a switch frame for unit 2 makes   *)
(* one, of type 7E, with the unit for a length.                              *)
IsCommand(frame) == frame[3] \in {OUTPUT_SWITCH, SIGNAL_CONTROL}

FirstOf(meaning, list) ==
  {i \in DOMAIN list : list[i] = meaning /\ \A j \in 1 .. i - 1 : list[j] # meaning}

TakeOff(h, frame) ==
  LET at == FirstOf(Meaning(frame), h.owed)
      i == CHOOSE j \in at : TRUE
  IN IF ~IsCommand(frame) THEN h
     ELSE IF at = {} THEN [h EXCEPT !.ok = FALSE]
     ELSE [h EXCEPT !.owed = From(@, i + 1), !.lost = @ + (i - 1)]

(* What is owed and lost, when no stranger was found yet. *)
Book(list, gone) == [owed |-> list, lost |-> gone, ok |-> TRUE]

TakeAllOff(h, frames) ==
  LET After[n \in 0 .. Len(frames)] ==
        IF n = 0 THEN h
        ELSE TakeOff(After[n - 1], frames[n])
  IN After[Len(frames)]

Arrives ==
  /\ \E n \in 1 .. Len(wire) :
       LET fed == ParserFeed(far_buf, SubSeq(wire, 1, n))
           after == TakeAllOff(Book(owed, lost), fed.frames)
       IN /\ wire' = From(wire, n + 1)
          /\ far_buf' = fed.buf
          /\ owed' = after.owed
          /\ lost' = after.lost
          /\ forged' = (forged \/ ~after.ok)
  /\ UNCHANGED <<ringVars, connVars, cuts>>

DongleChanges ==
  /\ dongle' = ~dongle
  /\ UNCHANGED <<ringVars, dll_file, dll, connected, lineVars>>

LinkNext ==
  \/ \E q \in Requests : Enqueues(q)
  \/ ConnConnect \/ ConnDisconnect \/ ConnPoll
  \/ Sends \/ Settles
  \/ Arrives
  \/ DongleChanges

LinkSpec == LinkInit /\ [][LinkNext]_linkVars

-----------------------------------------------------------------------------
(* Without a frame cut off, the far end understands what was asked of it:    *)
(* every command, in order, with the unit, mode, frequency, bandwidth and    *)
(* power that were meant, in whatever pieces its bytes come.  The table of   *)
(* units (channels.c) has nothing that the tables of the protocol lack.      *)
LineIsLossless == cuts = 0 /\ wire = <<>> => owed = <<>> /\ far_buf = <<>>

(* A frame cut off may cost the ones after it, but never becomes a command   *)
(* that nobody gave, although nothing in a frame is escaped or summed up.    *)
NothingForged == ~forged

(* "drop the oldest half to recover instead of wedging forever"              *)
(* (proto_parser_feed): when nothing is on its way, all the commands that    *)
(* were sent whole and not understood, in a row or not, are no more than fit *)
(* into as many of the parser's buffers as frames were cut off, at the 8     *)
(* bytes of the shortest frame.                                              *)
RecoversSoon == wire = <<>> => (lost + Len(owed)) * 8 <= cuts * PARSE_BUF_SIZE
=============================================================================
