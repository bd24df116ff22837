----------------------------- MODULE SensorBus -----------------------------
(***************************************************************************)
(* sensor.c: the temperature units on one Modbus RTU line, asked in turn.  *)
(*                                                                         *)
(* sensor_poll() is called by a timer (the window) or a loop (the sensor   *)
(* service).  It sends one request, then waits for the reply or for a      *)
(* deadline, stores what it got for the unit it asked, and goes on to the  *)
(* next unit.  A reply comes over the line in pieces and at its own time:  *)
(* wire, port and rx_buf are the three places its pieces can be in.        *)
(*                                                                         *)
(* A reply is two pieces, since all that matters is whether a frame has    *)
(* arrived whole.  A reading is the unit that measured it, since all that  *)
(* matters is whose it is.                                                 *)
(*                                                                         *)
(* A definition that no action uses, written just before the one it would  *)
(* replace, is a faulty variant of it: PROJECT.json names, under mutants,  *)
(* the property that notices the fault.                                    *)
(***************************************************************************)
EXTENDS Integers, Sequences

CONSTANTS
  SENSOR_MAX_UNITS,  \* 4 in the code
  LINE_CAP,          \* bound: pieces sent and not read yet, at a time
  Nothing            \* no reading

Units == 0 .. SENSOR_MAX_UNITS - 1

(* What modbus_parse_read_input_registers_response() makes of a whole frame: *)
(* a reading, a Modbus exception, or a frame the line has spoiled.           *)
Kinds == {"reading", "exception", "spoiled"}
Parts == {"head", "tail"}
Piece == [from : Units, kind : Kinds, part : Parts]

FrameHead(u, k) == [from |-> u, kind |-> k, part |-> "head"]
FrameTail(u, k) == [from |-> u, kind |-> k, part |-> "tail"]
Reply(u, k) == <<FrameHead(u, k), FrameTail(u, k)>>

ASSUME SensorAssumption ==
  /\ SENSOR_MAX_UNITS \in Nat \ {0}
  /\ LINE_CAP \in Nat
  /\ Nothing \notin Units

VARIABLES
  handle,      \* port.handle with connected: "open", "closed", or "dead"
               \* when the adapter was pulled out and nobody has noticed
  current,     \* current_unit
  poll_state,  \* "idle" or "waiting"
  units,       \* units: [online, reading], Nothing while has_reading is false
  rx,          \* rx_buf[0 .. rx_len - 1]
  port,        \* external: what has arrived and was not read yet
  wire,        \* external: what the units have sent and is still to arrive
  astray       \* history: a request was given up with its reply still to come

sensorVars == <<handle, current, poll_state, units, rx, port, wire, astray>>

NoReading == [online |-> FALSE, reading |-> Nothing]

NextUnit == (current + 1) % SENSOR_MAX_UNITS
-----------------------------------------------------------------------------
Init ==
  /\ handle = "closed"
  /\ current = 0
  /\ poll_state = "idle"
  /\ units = [u \in Units |-> NoReading]
  /\ rx = <<>>
  /\ port = <<>>
  /\ wire = <<>>
  /\ astray = FALSE

(* sensor_reset_units() and the fields sensor_connect() and                  *)
(* sensor_disconnect() set alike.                                            *)
StartOver ==
  /\ current' = 0
  /\ poll_state' = "idle"
  /\ rx' = <<>>
  /\ units' = [u \in Units |-> NoReading]

(* sensor_connect() when the port opens; serial_open() purges it. *)
Connect ==
  /\ handle = "closed"
  /\ handle' = "open"
  /\ port' = <<>>
  /\ StartOver
  /\ UNCHANGED <<wire, astray>>

(* sensor_disconnect(), called by the user or on an error. *)
KeepReadings ==
  /\ handle' = "closed"
  /\ current' = 0
  /\ poll_state' = "idle"
  /\ rx' = <<>>
  /\ port' = <<>>
  /\ astray' = (astray \/ wire # <<>>)
  /\ UNCHANGED <<units, wire>>
Closed ==
  /\ handle' = "closed"
  /\ port' = <<>>
  /\ StartOver
  /\ astray' = (astray \/ wire # <<>>)
  /\ UNCHANGED wire

Disconnect == handle # "closed" /\ Closed

-----------------------------------------------------------------------------
(* What the parser can say of the bytes received so far.  It looks at the    *)
(* first frame only.  A frame that is spoiled in its head may be rejected    *)
(* at once, and the stray end of an older frame is rejected as soon as it is *)
(* long enough to be looked at.                                              *)
Verdicts(bytes) ==
  CASE bytes = <<>> -> {"incomplete"}
    [] bytes # <<>> /\ bytes[1].part = "tail" ->
         IF Len(bytes) < 3 THEN {"incomplete", "bad"} ELSE {"bad"}
    [] Len(bytes) = 1 /\ bytes[1].part = "head" ->
         IF bytes[1].kind = "spoiled" THEN {"incomplete", "bad"} ELSE {"incomplete"}
    [] OTHER ->
         IF bytes[2] = FrameTail(bytes[1].from, bytes[1].kind) /\ bytes[1].kind # "spoiled"
         THEN {bytes[1].kind} ELSE {"bad"}

(* sensor_send_request(); the port is not emptied first.  The unit asked     *)
(* may answer in any way, or not at all.                                     *)
SendRequest ==
  /\ poll_state' = "waiting"
  /\ rx' = <<>>
  /\ \/ UNCHANGED wire
     \/ \E k \in Kinds :
          /\ Len(port \o wire) + 2 <= LINE_CAP
          /\ wire' = wire \o Reply(current, k)
  /\ UNCHANGED <<handle, current, units, port, astray>>

(* sensor_finish_cycle(), with the reading of a reply that carried one.  All *)
(* that had arrived was read before.                                         *)
GiveUp == astray' = (astray \/ wire # <<>>)

FinishStuck(reading) ==
  /\ units' = [units EXCEPT
                 ![current] = IF reading # Nothing
                              THEN [online |-> TRUE, reading |-> reading]
                              ELSE [@ EXCEPT !.online = FALSE]]
  /\ rx' = <<>>
  /\ port' = <<>>
  /\ poll_state' = "idle"
  /\ current' = IF reading # Nothing THEN NextUnit ELSE current
  /\ GiveUp
  /\ UNCHANGED <<handle, wire>>
FinishEarly(reading) ==
  /\ units' = [units EXCEPT
                 ![NextUnit] = IF reading # Nothing
                               THEN [online |-> TRUE, reading |-> reading]
                               ELSE [@ EXCEPT !.online = FALSE]]
  /\ rx' = <<>>
  /\ port' = <<>>
  /\ poll_state' = "idle"
  /\ current' = NextUnit
  /\ GiveUp
  /\ UNCHANGED <<handle, wire>>
FinishCycle(reading) ==
  /\ units' = [units EXCEPT
                 ![current] = IF reading # Nothing
                              THEN [online |-> TRUE, reading |-> reading]
                              ELSE [@ EXCEPT !.online = FALSE]]
  /\ rx' = <<>>
  /\ port' = <<>>
  /\ poll_state' = "idle"
  /\ current' = NextUnit
  /\ GiveUp
  /\ UNCHANGED <<handle, wire>>

KeepWaiting(bytes) ==
  /\ rx' = bytes
  /\ port' = <<>>
  /\ UNCHANGED <<handle, current, poll_state, units, wire, astray>>

(* sensor_poll() while it waits.  ripe says that response_deadline passed.   *)
PollWaiting(ripe) ==
  /\ handle = "open"
  /\ poll_state = "waiting"
  /\ LET bytes == rx \o port IN
     \E verdict \in Verdicts(bytes) :
       \/ verdict = "reading" /\ FinishCycle(bytes[1].from)
       \/ verdict \in {"exception", "bad"} /\ FinishCycle(Nothing)
       \/ verdict = "incomplete" /\ ripe /\ FinishCycle(Nothing)
       \/ verdict = "incomplete" /\ ~ripe /\ KeepWaiting(bytes)

(* sensor_poll() between two requests, once next_poll_at has passed. *)
PollIdle ==
  /\ handle = "open"
  /\ poll_state = "idle"
  /\ SendRequest

(* A read or a write on a port that is gone fails and closes it.  While      *)
(* idle, nothing is tried before next_poll_at.                               *)
WriteTriedAgain(ripe) ==
  /\ handle = "dead"
  /\ poll_state = "waiting"
  /\ Closed
PortLost(ripe) ==
  /\ handle = "dead"
  /\ poll_state = "idle" => ripe
  /\ Closed

(* sensor_poll(); ripe says that the deadline of its state has passed. *)
Poll(ripe) ==
  \/ PollWaiting(ripe)
  \/ ripe /\ PollIdle
  \/ PortLost(ripe)

-----------------------------------------------------------------------------
(* The line: a piece arrives, where nobody listens for nothing; the adapter  *)
(* is pulled out.                                                            *)
Arrive ==
  /\ wire # <<>>
  /\ port' = IF handle = "open" THEN Append(port, Head(wire)) ELSE port
  /\ wire' = Tail(wire)
  /\ UNCHANGED <<handle, current, poll_state, units, rx, astray>>

Pull ==
  /\ handle = "open"
  /\ handle' = "dead"
  /\ port' = <<>>
  /\ wire' = <<>>
  /\ UNCHANGED <<current, poll_state, units, rx, astray>>

Next ==
  \/ Connect
  \/ Disconnect
  \/ \E ripe \in BOOLEAN : Poll(ripe)
  \/ Arrive
  \/ Pull

(* The timer or the loop goes on calling sensor_poll(), and time passes. *)
Spec == Init /\ [][Next]_sensorVars /\ WF_sensorVars(Poll(TRUE))

-----------------------------------------------------------------------------
TypeOK ==
  /\ handle \in {"closed", "open", "dead"}
  /\ current \in Units
  /\ poll_state \in {"idle", "waiting"}
  /\ units \in [Units -> [online : BOOLEAN, reading : Units \cup {Nothing}]]
  /\ rx \in Seq(Piece)
  /\ port \in Seq(Piece)
  /\ wire \in Seq(Piece)
  /\ astray \in BOOLEAN

(* "Every unit's slot holds only its own reading" (sensor.h), as long as no  *)
(* request was ever given up while its reply was still on the way: from      *)
(* there on it is false of the code, which takes the late reply for the next *)
(* unit's.                                                                   *)
OwnReadingsInStep == ~astray => \A u \in Units : units[u].reading \in {Nothing, u}

(* "never show a value we can't currently vouch for" (sensor_disconnect):    *)
(* nothing is shown without a connection, nor as online without a value.     *)
OnlyVouchedFor ==
  \A u \in Units :
    /\ handle = "closed" => units[u] = NoReading
    /\ units[u].online => units[u].reading # Nothing

(* No unit keeps the others from being asked, whether it answers or not.     *)
EveryUnitAsked ==
  \A u \in Units :
    handle = "open" ~> \/ handle # "open"
                       \/ poll_state = "waiting" /\ current = u

(* A port that is gone is noticed ("instead of staying Connected against a   *)
(* dead handle", sensor_send_request), in whatever state the poll is.        *)
DeadPortNoticed == handle = "dead" ~> handle = "closed"
=============================================================================
