---------------------------- MODULE SensorProofs ----------------------------
(***************************************************************************)
(* Theorems about the temperature sensors, with their proofs: the bus on   *)
(* which the units are asked, and after it the service that keeps the      *)
(* weekly log.                                                             *)
(*                                                                         *)
(* The bus.  For every number of units and every capacity of the line: as  *)
(* long as no request was given up while its reply was still on the way,   *)
(* every unit's slot holds only its own reading.  The property alone is    *)
(* not inductive.  LineInStep says where the pieces are meanwhile: between *)
(* requests nothing is on the line; during one, the buffer, the port and   *)
(* the wire together hold the reply of the unit asked, whole, or nothing.  *)
(*                                                                         *)
(* The service and the log it shares with the window.  What holds for      *)
(* every length of a week, every clock and any number of starts and        *)
(* crashes.                                                                *)
(***************************************************************************)
EXTENDS SensorBus, SensorService, SequenceTheorems, TLAPS

Asking == handle = "open" /\ poll_state = "waiting"

LineInStep ==
  ~astray =>
    IF Asking
    THEN \/ rx \o port \o wire = <<>>
         \/ \E k \in Kinds : rx \o port \o wire = Reply(current, k)
    ELSE port = <<>> /\ wire = <<>>

IInv == TypeOK /\ OwnReadingsInStep /\ LineInStep

-----------------------------------------------------------------------------
LEMMA NextUnitIsUnit ==
  ASSUME current \in Units
  PROVE  NextUnit \in Units
  BY SensorAssumption DEF NextUnit, Units

LEMMA ReplyType ==
  ASSUME NEW u \in Units, NEW k \in Kinds
  PROVE  Reply(u, k) \in Seq(Piece) /\ Reply(u, k)[1] = FrameHead(u, k)
         /\ Len(Reply(u, k)) = 2
  BY DEF Reply, FrameHead, FrameTail, Piece, Parts

(* Moving the first element of one sequence to the end of the one before it. *)
LEMMA MoveOne ==
  ASSUME NEW S, NEW p \in Seq(S), NEW w \in Seq(S), w # <<>>
  PROVE  /\ Append(p, Head(w)) \in Seq(S)
         /\ Tail(w) \in Seq(S)
         /\ Append(p, Head(w)) \o Tail(w) = p \o w
<1>1. /\ Head(w) \in S /\ Head(w) = w[1]
      /\ Tail(w) \in Seq(S)
      /\ Len(Tail(w)) = Len(w) - 1
      /\ \A i \in 1 .. Len(Tail(w)) : Tail(w)[i] = w[i + 1]
  BY HeadTailProperties
<1>2. <<Head(w)>> \in Seq(S) /\ Len(<<Head(w)>>) = 1 /\ <<Head(w)>>[1] = w[1]
  BY <1>1
<1>3. Append(p, Head(w)) = p \o <<Head(w)>> /\ Append(p, Head(w)) \in Seq(S)
  BY <1>1, AppendIsConcat, AppendProperties
<1>4. <<Head(w)>> \o Tail(w) = w
  <2>1. /\ <<Head(w)>> \o Tail(w) \in Seq(S)
        /\ Len(<<Head(w)>> \o Tail(w)) = Len(w)
        /\ \A i \in 1 .. Len(w) :
             (<<Head(w)>> \o Tail(w))[i] = IF i <= 1 THEN <<Head(w)>>[i] ELSE Tail(w)[i - 1]
    BY <1>1, <1>2, ConcatProperties
  <2>2. \A i \in 1 .. Len(w) : (<<Head(w)>> \o Tail(w))[i] = w[i]
    BY <1>1, <1>2, <2>1
  <2>3. QED
    BY <2>1, <2>2, SeqEqual
<1>5. QED
  BY <1>1, <1>2, <1>3, <1>4, ConcatAssociative

(* What the line holds is the reply of the unit asked, so what was read of   *)
(* it begins with that unit's piece.                                         *)
LEMMA FirstPieceIsOwn ==
  ASSUME TypeOK, LineInStep, ~astray, Asking, rx \o port # <<>>
  PROVE  (rx \o port)[1].from = current
<1> DEFINE B == rx \o port
<1>1. B \in Seq(Piece) /\ wire \in Seq(Piece) /\ Len(B) \in Nat /\ Len(B) >= 1
  BY ConcatProperties DEF TypeOK
<1> HIDE DEF B
<1>2. B \o wire # <<>> /\ (B \o wire)[1] = B[1]
  BY <1>1, ConcatProperties
<1>3. PICK k \in Kinds : B \o wire = Reply(current, k)
  BY <1>2 DEF LineInStep, B
<1>4. B[1] = FrameHead(current, k)
  BY <1>2, <1>3, ReplyType DEF TypeOK
<1>5. QED
  BY <1>4 DEF FrameHead, B

-----------------------------------------------------------------------------
LEMMA FinishKeepsIInv ==
  ASSUME IInv, handle = "open", NEW reading \in Units \cup {Nothing},
         ~astray => reading \in {current, Nothing},
         FinishCycle(reading)
  PROVE  IInv'
<1> USE DEF IInv
<1>1. NextUnit \in Units
  BY NextUnitIsUnit DEF TypeOK
<1>2. units' \in [Units -> [online : BOOLEAN, reading : Units \cup {Nothing}]]
  BY DEF FinishCycle, TypeOK
<1>3. TypeOK'
  BY <1>1, <1>2 DEF FinishCycle, GiveUp, TypeOK
<1>4. OwnReadingsInStep'
  BY DEF FinishCycle, GiveUp, TypeOK, OwnReadingsInStep
<1>5. LineInStep'
  BY DEF FinishCycle, GiveUp, LineInStep, Asking
<1>6. QED
  BY <1>3, <1>4, <1>5

LEMMA SendKeepsIInv ==
  ASSUME IInv, PollIdle
  PROVE  IInv'
<1> USE DEF IInv
<1>1. CASE UNCHANGED wire
  <2>1. TypeOK'
    BY <1>1 DEF PollIdle, SendRequest, TypeOK
  <2>2. OwnReadingsInStep'
    BY <1>1 DEF PollIdle, SendRequest, OwnReadingsInStep
  <2>3. ASSUME ~astray'
        PROVE  rx' \o port' \o wire' = <<>>
    <3>1. rx' = <<>> /\ port' = <<>> /\ wire' = <<>>
      BY <2>3, <1>1 DEF PollIdle, SendRequest, LineInStep, Asking
    <3>2. <<>> \o <<>> = <<>>
      BY ConcatEmptySeq, <<>> \in Seq(Piece)
    <3>3. QED
      BY <3>1, <3>2
  <2>4. QED
    BY <2>1, <2>2, <2>3 DEF LineInStep
<1>2. ASSUME NEW k \in Kinds, wire' = wire \o Reply(current, k)
      PROVE  IInv'
  <2>1. Reply(current, k) \in Seq(Piece)
    BY ReplyType DEF TypeOK
  <2>2. wire' \in Seq(Piece)
    BY <1>2, <2>1, ConcatProperties DEF TypeOK
  <2>3. TypeOK'
    BY <2>2 DEF PollIdle, SendRequest, TypeOK
  <2>4. OwnReadingsInStep'
    BY DEF PollIdle, SendRequest, OwnReadingsInStep
  <2>5. ASSUME ~astray'
        PROVE  rx' \o port' \o wire' = Reply(current', k)
    <3>1. rx' = <<>> /\ port' = <<>> /\ wire = <<>> /\ current' = current
      BY <2>5 DEF PollIdle, SendRequest, LineInStep, Asking
    <3>2. wire' = Reply(current, k)
      BY <3>1, <1>2, <2>1, ConcatEmptySeq
    <3>3. <<>> \o <<>> = <<>>
      BY ConcatEmptySeq, <<>> \in Seq(Piece)
    <3>4. <<>> \o Reply(current, k) = Reply(current, k)
      BY <2>1, ConcatEmptySeq
    <3>5. QED
      BY <3>1, <3>2, <3>3, <3>4
  <2>6. LineInStep'
    BY <2>5 DEF LineInStep, PollIdle, SendRequest, Asking
  <2>7. QED
    BY <2>3, <2>4, <2>6
<1>3. QED
  BY <1>1, <1>2 DEF PollIdle, SendRequest

LEMMA WaitKeepsIInv ==
  ASSUME IInv, NEW ripe \in BOOLEAN, PollWaiting(ripe)
  PROVE  IInv'
<1> USE DEF IInv
<1> DEFINE B == rx \o port
<1>0. handle = "open" /\ poll_state = "waiting" /\ Nothing \in Units \cup {Nothing}
  BY DEF PollWaiting
<1>1. B \in Seq(Piece)
  BY ConcatProperties DEF TypeOK
<1>2. ASSUME "reading" \in Verdicts(B), FinishCycle(B[1].from)
      PROVE  IInv'
  <2>1. B # <<>>
    BY <1>2 DEF Verdicts
  <2>2. B[1] \in Piece
    BY <1>1, <2>1
  <2>3. B[1].from \in Units
    BY <2>2 DEF Piece
  <2>4. ~astray => B[1].from = current
    BY <2>1, <1>0, FirstPieceIsOwn DEF Asking
  <2>5. QED
    BY <1>0, <1>2, <2>3, <2>4, FinishKeepsIInv
<1>3. ASSUME FinishCycle(Nothing)
      PROVE  IInv'
  BY <1>0, <1>3, FinishKeepsIInv
<1>4. ASSUME KeepWaiting(B)
      PROVE  IInv'
  <2>1. TypeOK'
    BY <1>1, <1>4 DEF KeepWaiting, TypeOK
  <2>2. OwnReadingsInStep'
    BY <1>4 DEF KeepWaiting, OwnReadingsInStep
  <2>3. rx' \o port' \o wire' = rx \o port \o wire
    BY <1>1, <1>4, ConcatEmptySeq DEF KeepWaiting
  <2>4. LineInStep'
    BY <1>4, <2>3, <1>0 DEF KeepWaiting, LineInStep, Asking
  <2>5. QED
    BY <2>1, <2>2, <2>4
<1>5. QED
  BY <1>2, <1>3, <1>4 DEF PollWaiting

LEMMA CloseKeepsIInv ==
  ASSUME IInv, Closed
  PROVE  IInv'
<1> USE DEF IInv
<1>1. TypeOK'
  BY SensorAssumption DEF Closed, StartOver, NoReading, TypeOK, Units
<1>2. OwnReadingsInStep'
  BY DEF Closed, StartOver, NoReading, OwnReadingsInStep
<1>3. LineInStep'
  BY DEF Closed, StartOver, LineInStep, Asking
<1>4. QED
  BY <1>1, <1>2, <1>3

LEMMA ArriveKeepsIInv ==
  ASSUME IInv, Arrive
  PROVE  IInv'
<1> USE DEF IInv
<1>1. /\ Append(port, Head(wire)) \in Seq(Piece)
      /\ Tail(wire) \in Seq(Piece)
      /\ Append(port, Head(wire)) \o Tail(wire) = port \o wire
  BY MoveOne DEF Arrive, TypeOK
<1>2. TypeOK'
  BY <1>1 DEF Arrive, TypeOK
<1>3. OwnReadingsInStep'
  BY DEF Arrive, OwnReadingsInStep
<1>4. ASSUME ~astray
      PROVE  Asking /\ rx' \o port' \o wire' = rx \o port \o wire
  <2>1. Asking
    BY <1>4 DEF Arrive, LineInStep
  <2>2. rx' = rx /\ port' = Append(port, Head(wire)) /\ wire' = Tail(wire)
    BY <2>1 DEF Arrive, Asking
  <2>3. /\ rx \in Seq(Piece) /\ port \in Seq(Piece) /\ wire \in Seq(Piece)
    BY DEF TypeOK
  <2>4. rx \o port' \o wire' = rx \o (port' \o wire')
    <3>1. port' \in Seq(Piece) /\ wire' \in Seq(Piece)
      BY <1>1, <2>2
    <3>2. (rx \o port') \o wire' = rx \o (port' \o wire')
      BY <2>3, <3>1, ConcatAssociative, SMTT(30)
    <3>3. QED
      BY <2>2, <3>2
  <2>5. (rx \o port) \o wire = rx \o (port \o wire)
    BY <2>3, ConcatAssociative
  <2>6. QED
    BY <1>1, <2>1, <2>2, <2>4, <2>5
<1>5. LineInStep'
  BY <1>4 DEF Arrive, LineInStep, Asking
<1>6. QED
  BY <1>2, <1>3, <1>5

-----------------------------------------------------------------------------
LEMMA InitIInv == Init => IInv
<1> SUFFICES ASSUME Init PROVE IInv
  OBVIOUS
<1>1. 0 \in Units
  BY SensorAssumption DEF Units
<1>2. units \in [Units -> [online : BOOLEAN, reading : Units \cup {Nothing}]]
  BY DEF Init, NoReading
<1>3. TypeOK
  <2>1. <<>> \in Seq(Piece)
    OBVIOUS
  <2>2. rx \in Seq(Piece) /\ port \in Seq(Piece) /\ wire \in Seq(Piece)
    BY <2>1, Zenon DEF Init
  <2>3. current \in Units
    BY <1>1, Zenon DEF Init
  <2>4. /\ handle \in {"closed", "open", "dead"}
        /\ poll_state \in {"idle", "waiting"}
        /\ astray \in BOOLEAN
    BY DEF Init
  <2>5. QED
    BY <1>2, <2>2, <2>3, <2>4, Zenon DEF TypeOK
<1>4. OwnReadingsInStep /\ LineInStep
  BY DEF Init, OwnReadingsInStep, LineInStep, Asking, NoReading
<1>5. QED
  BY <1>3, <1>4 DEF IInv

LEMMA StepKeepsIInv == IInv /\ [Next]_sensorVars => IInv'
<1> SUFFICES ASSUME IInv, [Next]_sensorVars
             PROVE  IInv'
  OBVIOUS
<1>1. CASE Connect
  <2>1. TypeOK'
    BY <1>1, SensorAssumption DEF IInv, Connect, StartOver, NoReading, TypeOK, Units
  <2>2. OwnReadingsInStep'
    BY <1>1 DEF Connect, StartOver, NoReading, OwnReadingsInStep
  <2>3. LineInStep'
    BY <1>1 DEF IInv, Connect, StartOver, LineInStep, Asking
  <2>4. QED
    BY <2>1, <2>2, <2>3 DEF IInv
<1>2. CASE Disconnect
  BY <1>2, CloseKeepsIInv DEF Disconnect
<1>3. ASSUME NEW ripe \in BOOLEAN, Poll(ripe)
      PROVE  IInv'
  BY <1>3, WaitKeepsIInv, SendKeepsIInv, CloseKeepsIInv DEF Poll, PortLost
<1>4. CASE Arrive
  BY <1>4, ArriveKeepsIInv
<1>5. CASE Pull
  <2>1. TypeOK'
    BY <1>5 DEF IInv, Pull, TypeOK
  <2>2. OwnReadingsInStep' /\ LineInStep'
    BY <1>5 DEF IInv, Pull, OwnReadingsInStep, LineInStep, Asking
  <2>3. QED
    BY <2>1, <2>2 DEF IInv
<1>6. CASE UNCHANGED sensorVars
  BY <1>6 DEF sensorVars, IInv, TypeOK, OwnReadingsInStep, LineInStep, Asking
<1>7. QED
  BY <1>1, <1>2, <1>3, <1>4, <1>5, <1>6 DEF Next

(* The other invariant is inductive next to TypeOK: readings are stored by    *)
(* sensor_finish_cycle() alone, which runs on an open port.                  *)
LEMMA FinishKeepsVouched ==
  ASSUME TypeOK, OnlyVouchedFor, handle = "open",
         NEW reading \in Units \cup {Nothing}, FinishCycle(reading)
  PROVE  OnlyVouchedFor'
<1>1. handle' = "open"
  BY DEF FinishCycle
<1>2. ASSUME NEW u \in Units, units'[u].online
      PROVE  units'[u].reading # Nothing
  BY <1>2 DEF FinishCycle, OnlyVouchedFor, TypeOK
<1>3. QED
  BY <1>1, <1>2 DEF OnlyVouchedFor

LEMMA StepKeepsVouched == IInv /\ OnlyVouchedFor /\ [Next]_sensorVars => OnlyVouchedFor'
<1> SUFFICES ASSUME IInv, OnlyVouchedFor, [Next]_sensorVars
             PROVE  OnlyVouchedFor'
  OBVIOUS
<1>1. CASE Connect
  BY <1>1 DEF Connect, StartOver, NoReading, OnlyVouchedFor
<1>2. ASSUME Closed
      PROVE  OnlyVouchedFor'
  BY <1>2 DEF Closed, StartOver, NoReading, OnlyVouchedFor
<1>3. ASSUME NEW ripe \in BOOLEAN, PollWaiting(ripe)
      PROVE  OnlyVouchedFor'
  <2>1. handle = "open" /\ TypeOK /\ Nothing \in Units \cup {Nothing}
    BY <1>3 DEF PollWaiting, IInv
  <2>2. ASSUME "reading" \in Verdicts(rx \o port), FinishCycle((rx \o port)[1].from)
        PROVE  OnlyVouchedFor'
    <3>1. rx \o port \in Seq(Piece) /\ rx \o port # <<>>
      BY <2>1, <2>2, ConcatProperties DEF TypeOK, Verdicts
    <3>2. (rx \o port)[1] \in Piece
      BY <3>1
    <3>3. (rx \o port)[1].from \in Units
      BY <3>2 DEF Piece
    <3>4. QED
      BY <2>1, <2>2, <3>3, FinishKeepsVouched
  <2>3. ASSUME FinishCycle(Nothing)
        PROVE  OnlyVouchedFor'
    BY <2>1, <2>3, FinishKeepsVouched
  <2>4. ASSUME KeepWaiting(rx \o port)
        PROVE  OnlyVouchedFor'
    BY <2>4 DEF KeepWaiting, OnlyVouchedFor
  <2>5. QED
    BY <1>3, <2>2, <2>3, <2>4 DEF PollWaiting
<1>4. CASE PollIdle
  BY <1>4 DEF PollIdle, SendRequest, OnlyVouchedFor
<1>5. CASE Arrive
  BY <1>5 DEF Arrive, OnlyVouchedFor
<1>6. CASE Pull
  BY <1>6 DEF Pull, OnlyVouchedFor
<1>7. CASE UNCHANGED sensorVars
  BY <1>7 DEF sensorVars, OnlyVouchedFor
<1>8. QED
  BY <1>1, <1>2, <1>3, <1>4, <1>5, <1>6, <1>7 DEF Next, Poll, PortLost, Disconnect

LEMMA InitVouched == Init => OnlyVouchedFor
  BY DEF Init, NoReading, OnlyVouchedFor

(* Whatever the number of units, the timing of the line and of the poll, and *)
(* the replies: the types of sensor.c's fields hold, current_unit stays      *)
(* within the units.                                                         *)
THEOREM SensorTypeCorrect == Spec => []TypeOK
<1>1. IInv => TypeOK
  BY DEF IInv
<1>2. QED
  BY InitIInv, StepKeepsIInv, <1>1, PTL DEF Spec

(* The round robin of sensor_poll() credits every reading to the unit that   *)
(* measured it, as long as no request is given up with its reply to come.    *)
THEOREM SensorsInStep == Spec => []OwnReadingsInStep
<1>1. IInv => OwnReadingsInStep
  BY DEF IInv
<1>2. QED
  BY InitIInv, StepKeepsIInv, <1>1, PTL DEF Spec

(* A reading is shown only of an open connection, and a unit is shown online *)
(* only with a reading of that connection (sensor_disconnect).               *)
THEOREM SensorsVouchedFor == Spec => []OnlyVouchedFor
  BY InitIInv, StepKeepsIInv, InitVouched, StepKeepsVouched, PTL DEF Spec

-----------------------------------------------------------------------------
(* The service and its log. *)
USE LogAssumption

-----------------------------------------------------------------------------
(* The service with its control is, for the log, just one of its processes.  *)
LogSafety == LogInit /\ [][LogNext]_logVars

LEMMA ServiceIsAProcess == ServiceSpec => LogSafety
<1>1. ServiceInit => LogInit
  BY DEF ServiceInit
<1>2. [ServiceNext]_serviceVars => [LogNext]_logVars
  <2> SUFFICES ASSUME [ServiceNext]_serviceVars
               PROVE  LogNext \/ UNCHANGED logVars
    OBVIOUS
  <2>1. CASE Control
    <3>1. CASE ServiceCrash
      BY <3>1 DEF ServiceCrash, LogNext, Processes
    <3>2. CASE StartService \/ Install \/ StopService \/ Uninstall
      BY <3>2 DEF StartService, Install, StopService, Uninstall
    <3> QED
      BY <2>1, <3>1, <3>2 DEF Control
  <2>2. CASE MainSteps
    <3>1. CASE MainEntersLoop
      BY <3>1 DEF MainEntersLoop, LogNext, Processes
    <3>2. CASE MainLeavesLoop
      BY <3>2 DEF MainLeavesLoop, LogNext, Processes
    <3>3. CASE MainUnregistered \/ MainGivesUp \/ MainReportsRunning \/ MainReportsStopped
      BY <3>3 DEF MainUnregistered, MainGivesUp, MainReportsRunning, MainReportsStopped
    <3> QED
      BY <2>2, <3>1, <3>2, <3>3 DEF MainSteps
  <2>3. CASE HandlerStep
    BY <2>3 DEF HandlerStep
  <2>4. CASE UNCHANGED serviceVars
    BY <2>4 DEF serviceVars
  <2>5. CASE Starts("window") \/ End("window") \/ (\E p \in Processes : Runs(p))
               \/ Publish \/ Stale \/ Hold \/ Clock \/ SetBack
    BY <2>5 DEF LogNext, Processes
  <2> QED
    BY <2>1, <2>2, <2>3, <2>4, <2>5 DEF ServiceNext
<1> QED
  BY <1>1, <1>2, PTL DEF ServiceSpec, LogSafety

-----------------------------------------------------------------------------
(* The two threads of the service and the manager.                           *)

(* What makes StatusIsTrue inductive: where the handler is tells what was    *)
(* reported, and service_main() leaves the loop only after the handler is    *)
(* through.                                                                  *)
ControlInv ==
  /\ status = "stopped" <=> main = "none"
  /\ main \in {"none", "starting", "looping", "leaving", "returned"}
  /\ status \in {"stopped", "start pending", "running", "stop pending"}
  /\ installed \in {"no", "yes", "marked"}
  /\ installed = "no" => main = "none"
  /\ signalled \in BOOLEAN
  /\ status = "start pending" => main \in {"starting", "returned"}
  /\ main = "returned" => status = "start pending"
  /\ pc["service"] # "down" => main = "looping"
  /\ handler \in {<<>>, <<"signal">>, <<"report", "signal">>}
  /\ handler = <<"report", "signal">> => status = "running"
  /\ handler = <<"signal">> => status = "stop pending"
  /\ signalled /\ main # "none" => handler = <<>> /\ status = "stop pending"
  /\ main = "leaving" => signalled

(* Where the processes are: a step of the log's leaves the service down or   *)
(* up, unless it starts or ends it.                                          *)
PcTyped == pc \in [Processes -> {"down", "loading", "ready", "row"}]

LEMMA StaysUpOrDown ==
  ASSUME PcTyped, NEW q \in Processes,
         \/ \E p \in Processes \ {q} : Starts(p) \/ End(p)
         \/ \E p \in Processes : Runs(p)
         \/ Publish \/ Stale \/ Hold \/ Clock \/ SetBack
  PROVE  pc'[q] = "down" <=> pc[q] = "down"
<1> USE DEF PcTyped
<1>1. ASSUME NEW p \in Processes \ {q}, Starts(p) \/ End(p)
      PROVE  pc'[q] = pc[q]
  BY <1>1 DEF Starts, LoadState, End
<1>2. ASSUME NEW p \in Processes, Runs(p)
      PROVE  pc'[q] = "down" <=> pc[q] = "down"
  BY <1>2 DEF Runs, SaveHalf, LoadHigh, TickRotates, TickAppends, TickOnly
<1>3. ASSUME Publish \/ Stale \/ Hold \/ Clock \/ SetBack
      PROVE  pc' = pc
  BY <1>3 DEF Publish, Stale, Hold, Clock, SetBack, processVars
<1> QED
  BY <1>1, <1>2, <1>3

(* The types that matter to the log, and what makes them inductive: the low  *)
(* half is saved first, so that a high half never stands alone, and only a   *)
(* process that is up has a half to save, of a time the clock has shown.     *)
SavedInOrder ==
  /\ ini["high"] # Never => ini["low"] # Never
  /\ \A p \in Processes :
       /\ unsaved[p] # <<>> => start[p] \in Times /\ pc[p] \in {"ready", "row"}
       /\ unsaved[p] = <<"high">> => ini["low"] # Never
       /\ pc[p] = "loading" => ini["high"] # Never

LEMMA Halved ==
  ASSUME NEW t \in Times
  PROVE  /\ Low(t) \in Times /\ High(t) \in Times
         /\ High(t) * HALF + Low(t) = t
<1>1. /\ t \in Nat /\ HALF \in Nat \ {0} /\ MaxTime \in Nat /\ t <= MaxTime
  BY DEF Times
<1>2. /\ t \div HALF \in Int /\ t % HALF \in 0 .. HALF - 1
      /\ (t \div HALF) * HALF + (t % HALF) = t
  BY <1>1
<1>3. t % HALF <= t /\ t \div HALF <= t /\ t \div HALF >= 0
  BY <1>1, <1>2, Z3
<1> QED
  BY <1>1, <1>2, <1>3 DEF Low, High, Times

LEMMA Pieces ==
  /\ Head(<<"low", "high">>) = "low" /\ Tail(<<"low", "high">>) = <<"high">>
  /\ Head(<<"high">>) = "high" /\ Tail(<<"high">>) = <<>>
  /\ <<"low", "high">> # <<>> /\ <<"high">> # <<>> /\ <<"low", "high">> # <<"high">>
OBVIOUS

LEMMA StartNewWeekTypes ==
  ASSUME LogTypeOK, NEW p \in Processes, StartNewWeek(p)
  PROVE  /\ log' \in Times \cup {Never} /\ emptied' \in Times \cup {Never}
         /\ start' \in [Processes -> Nat]
         /\ start'[p] = now /\ unsaved'[p] = <<"low", "high">>
         /\ \A q \in Processes \ {p} : start'[q] = start[q] /\ unsaved'[q] = unsaved[q]
         /\ unsaved' \in [Processes -> {<<>>, <<"high">>, <<"low", "high">>}]
         /\ mishaps' \subseteq Mishaps
<1>1. now \in Times /\ now \in Nat
  BY DEF LogTypeOK, Times
<1>2. log' \in Times \cup {Never} /\ emptied' \in Times \cup {Never}
  BY <1>1 DEF StartNewWeek, LogTypeOK
<1>3. mishaps' \subseteq Mishaps
  BY DEF StartNewWeek, LogTypeOK, Mishaps
<1>4. start' = [start EXCEPT ![p] = now]
      /\ unsaved' = [unsaved EXCEPT ![p] = <<"low", "high">>]
  BY DEF StartNewWeek
<1> QED
  BY <1>1, <1>2, <1>3, <1>4 DEF LogTypeOK

LEMMA CountTypes ==
  ASSUME LogTypeOK, NEW p \in Processes, CountAndAppend(p)
  PROVE  count' \in [Processes -> 0 .. ROW_TICKS - 1] /\ log' \in Times \cup {Never}
<1>1. count[p] \in 0 .. ROW_TICKS - 1 /\ ROW_TICKS \in Nat \ {0}
  BY DEF LogTypeOK
<1>2. (IF RowDue(p) THEN 0 ELSE count[p] + 1) \in 0 .. ROW_TICKS - 1
  BY <1>1 DEF RowDue
<1>3. count' \in [Processes -> 0 .. ROW_TICKS - 1]
  BY <1>2 DEF CountAndAppend, LogTypeOK
<1> QED
  BY <1>3 DEF CountAndAppend, LogTypeOK

LogInv == LogTypeOK /\ SavedInOrder

(* Every variable keeps its type: whatever interrupts or interleaves the     *)
(* writing of the .ini, what is read from it is a time.                      *)
LEMMA LogInvHolds == LogSafety => []LogInv
<1> USE DEF LogInv
<1>1. LogInit => LogInv
  <2> SUFFICES ASSUME LogInit
               PROVE  LogInv
    OBVIOUS
  <2>1. 0 \in 0 .. ROW_TICKS - 1 /\ 0 \in Nat
    OBVIOUS
  <2> QED
    BY <2>1 DEF LogInit, LogTypeOK, SavedInOrder, Halves, Mishaps
<1>2. ASSUME LogInv, [LogNext]_logVars
      PROVE  LogInv'
  <2>0. /\ Never \notin Times
        /\ 0 \in 0 .. ROW_TICKS - 1
        /\ now \in Times /\ now \in Nat
    BY <1>2 DEF LogTypeOK, Times
  <2>1. ASSUME NEW p \in Processes, Starts(p)
        PROVE  LogInv'
    <3>1. LoadState(p) /\ fresh' \in BOOLEAN
      BY <1>2, <2>1 DEF Starts, LogTypeOK
    <3>2. count' \in [Processes -> 0 .. ROW_TICKS - 1]
      BY <1>2, <2>0, <3>1 DEF LoadState, LogTypeOK
    <3>3. CASE ini["high"] = Never
      <4>1. /\ pc' = [pc EXCEPT ![p] = "ready"] /\ StartNewWeek(p)
            /\ UNCHANGED <<now, held, ini>>
        BY <3>1, <3>3 DEF LoadState
      <4>2. /\ log' \in Times \cup {Never} /\ emptied' \in Times \cup {Never}
            /\ start' \in [Processes -> Nat]
            /\ start'[p] = now /\ unsaved'[p] = <<"low", "high">>
            /\ \A q \in Processes \ {p} : start'[q] = start[q] /\ unsaved'[q] = unsaved[q]
            /\ unsaved' \in [Processes -> {<<>>, <<"high">>, <<"low", "high">>}]
            /\ mishaps' \subseteq Mishaps
        BY <1>2, <4>1, StartNewWeekTypes
      <4>3. pc' \in [Processes -> {"down", "loading", "ready", "row"}]
            /\ pc'[p] = "ready" /\ \A q \in Processes \ {p} : pc'[q] = pc[q]
        BY <1>2, <4>1 DEF LogTypeOK
      <4>4. LogTypeOK'
        BY <1>2, <3>1, <3>2, <4>1, <4>2, <4>3 DEF LogTypeOK
      <4>5. SavedInOrder'
        <5>1. ini' = ini /\ start'[p] \in Times
              /\ unsaved'[p] # <<>> /\ unsaved'[p] # <<"high">>
          BY <2>0, <4>1, <4>2, Pieces
        <5>2. ASSUME NEW q \in Processes, q # p
              PROVE  start'[q] = start[q] /\ unsaved'[q] = unsaved[q] /\ pc'[q] = pc[q]
          BY <4>2, <4>3, <5>2
        <5> QED
          BY <1>2, <4>3, <5>1, <5>2 DEF SavedInOrder
      <4> QED
        BY <4>4, <4>5
    <3>4. CASE ini["high"] # Never
      <4>1. /\ pc' = [pc EXCEPT ![p] = "loading"]
            /\ start' = [start EXCEPT ![p] = ini["low"]]
            /\ UNCHANGED <<now, held, ini, log, emptied, unsaved>>
        BY <3>1, <3>4 DEF LoadState
      <4>2. ini["low"] \in Times
        BY <1>2, <3>4 DEF LogTypeOK, SavedInOrder, Halves
      <4>3. mishaps' \subseteq Mishaps
        BY <1>2, <3>1, <3>4 DEF LoadState, LogTypeOK, Mishaps
      <4>4. LogTypeOK'
        <5>1. start' \in [Processes -> Nat]
          BY <1>2, <4>1, <4>2 DEF LogTypeOK, Times
        <5>2. pc' \in [Processes -> {"down", "loading", "ready", "row"}]
          BY <1>2, <4>1 DEF LogTypeOK
        <5>3. count' \in [Processes -> 0 .. ROW_TICKS - 1] /\ fresh' \in BOOLEAN
          BY <1>2, <3>1, <3>2 DEF LoadState, LogTypeOK
        <5> QED
          BY <1>2, <4>1, <4>3, <5>1, <5>2, <5>3 DEF LogTypeOK
      <4>5. unsaved[p] = <<>>
        BY <1>2, <3>1 DEF LoadState, SavedInOrder
      <4>6. SavedInOrder'
        BY <1>2, <3>4, <4>1, <4>2, <4>5, Pieces DEF LogTypeOK, SavedInOrder
      <4> QED
        BY <4>4, <4>6
    <3> QED
      BY <3>3, <3>4
  <2>2. ASSUME NEW p \in Processes, SaveHalf(p)
        PROVE  LogInv'
    <3>1. start[p] \in Times /\ Low(start[p]) \in Times /\ High(start[p]) \in Times
      BY <1>2, <2>2, Halved DEF SaveHalf, SavedInOrder
    <3>0. UNCHANGED <<now, held, log, emptied, pc, start, count, fresh, mishaps>>
      BY <2>2 DEF SaveHalf
    <3>2. CASE unsaved[p] = <<"low", "high">>
      <4>1. /\ ini' = [ini EXCEPT !["low"] = Low(start[p])]
            /\ unsaved' = [unsaved EXCEPT ![p] = <<"high">>]
        BY <2>2, <3>2, Pieces DEF SaveHalf
      <4>2. LogTypeOK'
        BY <1>2, <3>0, <3>1, <4>1 DEF LogTypeOK, Halves
      <4>3. /\ ini'["low"] # Never /\ ini'["high"] = ini["high"]
            /\ unsaved'[p] = <<"high">>
            /\ \A q \in Processes \ {p} : unsaved'[q] = unsaved[q]
            /\ start' = start /\ pc' = pc
        BY <1>2, <2>0, <3>0, <3>1, <4>1 DEF LogTypeOK, Halves
      <4>4. SavedInOrder'
        BY <1>2, <3>2, <4>3, Pieces DEF SavedInOrder
      <4> QED
        BY <4>2, <4>4
    <3>3. CASE unsaved[p] = <<"high">>
      <4>1. /\ ini' = [ini EXCEPT !["high"] = High(start[p])]
            /\ unsaved' = [unsaved EXCEPT ![p] = <<>>]
        BY <2>2, <3>3, Pieces DEF SaveHalf
      <4>2. LogTypeOK'
        BY <1>2, <3>0, <3>1, <4>1 DEF LogTypeOK, Halves
      <4>3. /\ ini'["low"] = ini["low"]
            /\ unsaved'[p] = <<>>
            /\ \A q \in Processes \ {p} : unsaved'[q] = unsaved[q]
            /\ start' = start /\ pc' = pc
        BY <1>2, <3>0, <4>1 DEF LogTypeOK, Halves
      <4>4. ini["low"] # Never /\ ini'["high"] # Never
        BY <1>2, <2>0, <3>1, <3>3, <4>1 DEF LogTypeOK, SavedInOrder, Halves
      <4>5. SavedInOrder'
        BY <1>2, <4>3, <4>4, Pieces DEF SavedInOrder
      <4> QED
        BY <4>2, <4>5
    <3> QED
      BY <1>2, <2>2, <3>2, <3>3 DEF SaveHalf, LogTypeOK
  <2>3. ASSUME NEW p \in Processes, LoadHigh(p)
        PROVE  LogInv'
    <3>1. ini["high"] \in Nat /\ start[p] \in Nat /\ HALF \in Nat
      BY <1>2, <2>3 DEF LoadHigh, LogTypeOK, SavedInOrder, Halves, Times
    <3>2. ini["high"] * HALF + start[p] \in Nat
      BY <3>1
    <3>3. unsaved[p] = <<>>
      BY <1>2, <2>3 DEF LoadHigh, SavedInOrder
    <3> QED
      BY <1>2, <2>3, <3>2, <3>3 DEF LoadHigh, LogTypeOK, SavedInOrder, fileVars
  <2>4. ASSUME NEW p \in Processes, TickRotates(p)
        PROVE  LogInv'
    <3>1. StartNewWeek(p) /\ pc' = [pc EXCEPT ![p] = "row"]
      BY <2>4 DEF TickRotates
    <3>2. /\ log' \in Times \cup {Never} /\ emptied' \in Times \cup {Never}
          /\ start' \in [Processes -> Nat]
          /\ start'[p] = now /\ unsaved'[p] = <<"low", "high">>
          /\ \A q \in Processes \ {p} : start'[q] = start[q] /\ unsaved'[q] = unsaved[q]
          /\ unsaved' \in [Processes -> {<<>>, <<"high">>, <<"low", "high">>}]
          /\ mishaps' \subseteq Mishaps
      BY <1>2, <3>1, StartNewWeekTypes
    <3>3. pc' \in [Processes -> {"down", "loading", "ready", "row"}]
          /\ pc'[p] = "row" /\ \A q \in Processes \ {p} : pc'[q] = pc[q]
      BY <1>2, <3>1 DEF LogTypeOK
    <3>4. LogTypeOK'
      BY <1>2, <2>4, <3>2, <3>3 DEF TickRotates, LogTypeOK
    <3>5. ini' = ini
      BY <2>4 DEF TickRotates
    <3>6. SavedInOrder'
      <4>1. start'[p] \in Times /\ unsaved'[p] # <<>> /\ unsaved'[p] # <<"high">>
        BY <2>0, <3>2, Pieces
      <4>2. ASSUME NEW q \in Processes, q # p
            PROVE  start'[q] = start[q] /\ unsaved'[q] = unsaved[q] /\ pc'[q] = pc[q]
        BY <3>2, <3>3, <4>2
      <4> QED
        BY <1>2, <3>3, <3>5, <4>1, <4>2 DEF SavedInOrder
    <3> QED
      BY <3>4, <3>6
  <2>5. ASSUME NEW p \in Processes, TickAppends(p)
        PROVE  LogInv'
    BY <1>2, <2>5, CountTypes DEF TickAppends, LogTypeOK, SavedInOrder
  <2>6. ASSUME NEW p \in Processes, TickOnly(p)
        PROVE  LogInv'
    BY <1>2, <2>6, CountTypes DEF TickOnly, LogTypeOK, SavedInOrder
  <2>7. ASSUME NEW p \in Processes, End(p)
        PROVE  LogInv'
    BY <1>2, <2>0, <2>7, Pieces DEF End, LogTypeOK, SavedInOrder, fileVars, Mishaps
  <2>8. CASE Publish \/ Stale \/ Hold
    BY <1>2, <2>8 DEF Publish, Stale, Hold, LogTypeOK, SavedInOrder, fileVars, processVars
  <2>9. CASE Clock \/ SetBack
    <3>1. now' \in Times
      <4>1. now \in Nat /\ now <= MaxTime /\ MaxTime \in Nat
        BY <2>0 DEF Times
      <4>2. now' \in Nat /\ now' <= MaxTime
        <5>1. CASE Clock
          <6>1. now < MaxTime /\ now' = now + 1
            BY <5>1 DEF Clock
          <6> QED
            BY <4>1, <6>1
        <5>2. CASE SetBack
          <6>1. now' \in 0 .. now - 1
            BY <5>2 DEF SetBack
          <6> QED
            BY <4>1, <6>1
        <5> QED
          BY <2>9, <5>1, <5>2
      <4> QED
        BY <4>1, <4>2 DEF Times
    <3>2. mishaps' \subseteq Mishaps
      BY <1>2, <2>9 DEF Clock, SetBack, LogTypeOK, Mishaps
    <3> QED
      BY <1>2, <2>9, <3>1, <3>2
      DEF Clock, SetBack, LogTypeOK, SavedInOrder, fileVars, processVars
  <2>10. CASE UNCHANGED logVars
    BY <1>2, <2>10 DEF logVars, fileVars, processVars, LogTypeOK, SavedInOrder
  <2> QED
    BY <1>2, <2>1, <2>2, <2>3, <2>4, <2>5, <2>6, <2>7, <2>8, <2>9, <2>10 DEF LogNext, Runs
<1> QED
  BY <1>1, <1>2, PTL DEF LogSafety

(* Every variable of the log and its processes keeps its type: whatever      *)
(* interrupts the writing of the .ini file, and whoever writes beside it,    *)
(* what sensor_log_load_state() finds there is a time.                       *)
THEOREM LogTypeCorrect == ServiceSpec => []LogTypeOK
<1>1. LogInv => LogTypeOK
  BY DEF LogInv
<1> QED
  BY <1>1, ServiceIsAProcess, LogInvHolds, PTL

-----------------------------------------------------------------------------
LEMMA HandlerPieces ==
  /\ HandlerCode = <<"report", "signal">> /\ HandlerCode # <<>>
  /\ <<"signal">> # <<>> /\ <<"report", "signal">> # <<>>
  /\ Head(<<"report", "signal">>) = "report" /\ Tail(<<"report", "signal">>) = <<"signal">>
  /\ Head(<<"signal">>) = "signal" /\ Tail(<<"signal">>) = <<>>
BY DEF HandlerCode

(* What the loop and the rest of the world do leaves the control alone, and  *)
(* the service as much up or down as it was.                                 *)
LEMMA ControlInvLeftAlone ==
  ASSUME ControlInv, UNCHANGED controlVars,
         pc'["service"] = "down" <=> pc["service"] = "down"
  PROVE  ControlInv'
BY DEF ControlInv, controlVars

LEMMA ControlInvKept ==
  ASSUME PcTyped, ControlInv, [ServiceNext]_serviceVars
  PROVE  ControlInv'
<1> USE HandlerPieces DEF ControlInv
<1>1. CASE StartService
  BY <1>1 DEF StartService, Launched, logVars, processVars
<1>2. CASE Install
  <2>1. pc' = pc /\ installed' = "yes"
    BY <1>2 DEF Install, logVars, processVars
  <2>2. CASE Launched
    BY <1>2, <2>1, <2>2 DEF Install, Launched
  <2>3. CASE UNCHANGED <<status, main, handler, signalled>>
    BY <2>1, <2>3
  <2> QED
    BY <1>2, <2>2, <2>3 DEF Install
<1>3. CASE StopService
  BY <1>3 DEF StopService, logVars, processVars
<1>4. CASE Uninstall
  BY <1>4 DEF Uninstall, logVars, processVars
<1>5. CASE ServiceCrash
  <2>1. pc'["service"] = "down"
    BY <1>5 DEF ServiceCrash, End, logVars, processVars, PcTyped, Processes
  <2> QED
    BY <1>5, <2>1 DEF ServiceCrash, Remaining
<1>6. CASE MainUnregistered
  BY <1>6 DEF MainUnregistered, logVars, processVars
<1>7. CASE MainGivesUp
  BY <1>7 DEF MainGivesUp, Remaining, logVars, processVars
<1>8. CASE MainReportsRunning
  BY <1>8 DEF MainReportsRunning, logVars, processVars
<1>9. CASE MainEntersLoop
  BY <1>9 DEF MainEntersLoop
<1>10. CASE MainLeavesLoop
  <2>1. pc'["service"] = "down"
    BY <1>10 DEF MainLeavesLoop, End, PcTyped, Processes
  <2> QED
    BY <1>10, <2>1 DEF MainLeavesLoop
<1>11. CASE MainReportsStopped
  BY <1>11 DEF MainReportsStopped, Remaining, logVars, processVars
<1>12. CASE HandlerStep
  <2>1. pc' = pc /\ main' = main /\ installed' = installed
    BY <1>12 DEF HandlerStep, logVars, processVars
  <2>2. CASE handler = <<"report", "signal">>
    <3>1. handler' = <<"signal">> /\ status' = "stop pending" /\ signalled' = signalled
      BY <1>12, <2>2 DEF HandlerStep
    <3> QED
      BY <2>1, <2>2, <3>1
  <2>3. CASE handler = <<"signal">>
    <3>1. handler' = <<>> /\ status' = status /\ signalled' = TRUE
      BY <1>12, <2>3 DEF HandlerStep
    <3> QED
      BY <2>1, <2>3, <3>1
  <2> QED
    BY <1>12, <2>2, <2>3 DEF HandlerStep
<1>13. CASE /\ \/ Starts("window") \/ End("window")
               \/ \E p \in Processes : Runs(p)
               \/ Publish \/ Stale \/ Hold \/ Clock \/ SetBack
            /\ UNCHANGED controlVars
  <2>1. "service" \in Processes /\ "window" \in Processes \ {"service"}
    BY DEF Processes
  <2>2. pc'["service"] = "down" <=> pc["service"] = "down"
    BY <1>13, <2>1, StaysUpOrDown
  <2> QED
    BY <1>13, <2>2, ControlInvLeftAlone
<1>14. CASE UNCHANGED serviceVars
  BY <1>14 DEF serviceVars, controlVars, logVars, processVars
<1> QED
  BY <1>1, <1>2, <1>3, <1>4, <1>5, <1>6, <1>7, <1>8, <1>9, <1>10, <1>11, <1>12, <1>13,
     <1>14
  DEF ServiceNext, Control, MainSteps

(* The manager takes the service for stopped just when service_main() has    *)
(* reported it or the process has died, and for running or stopping while    *)
(* its loop runs: however its reports, the handler's and a crash fall, the   *)
(* report of service_ctrl_handler() comes before its event.  A return that   *)
(* reports nothing leaves the service starting.                              *)
THEOREM StatusStaysTrue == ServiceSpec => []StatusIsTrue
<1>1. ServiceInit => ControlInv
  BY HandlerPieces DEF ServiceInit, LogInit, ControlInv, Processes
<1>2. LogInv => PcTyped
  BY DEF LogInv, LogTypeOK, PcTyped
<1>3. PcTyped /\ ControlInv /\ [ServiceNext]_serviceVars => ControlInv'
  BY ControlInvKept
<1>4. ControlInv => StatusIsTrue
  BY DEF ControlInv, StatusIsTrue
<1> QED
  BY <1>1, <1>2, <1>3, <1>4, ServiceIsAProcess, LogInvHolds, PTL DEF ServiceSpec

-----------------------------------------------------------------------------
(* The log is emptied once a week.                                           *)

Calm == mishaps \subseteq {"emptying refused"}
Saved == ini["high"] * HALF + ini["low"]
NotSince(t) == t <= now /\ (emptied = Never \/ emptied <= t)

(* What makes EmptiedWeekly inductive: nobody's week began before the log    *)
(* was emptied last, neither in the copy of a process that is up nor in the  *)
(* .ini file once it is whole; and whoever is still writing it is alone.     *)
WeekInv ==
  /\ emptied # Never => emptied <= now
  /\ \A p \in Processes :
       /\ pc[p] \in {"ready", "row"} => NotSince(start[p])
       /\ pc[p] = "loading" => start[p] = ini["low"]
       /\ unsaved[p] # <<>> =>
            /\ \A q \in Processes \ {p} : pc[q] = "down"
            /\ ini["high"] = Never => emptied = Never \/ log = Never
       /\ unsaved[p] = <<"high">> => ini["low"] = Low(start[p])
  /\ (\A p \in Processes : unsaved[p] = <<>>) =>
       IF ini["high"] = Never THEN emptied = Never ELSE NotSince(Saved)

(* Times are numbers, and Never is none of them. *)
LEMMA TimesTyped ==
  ASSUME LogInv
  PROVE  /\ Never \notin Times /\ Times \subseteq Int /\ now \in Int
         /\ emptied # Never => emptied \in Int
         /\ \A p \in Processes : start[p] \in Int
         /\ ini["high"] # Never => Saved \in Int
<1>1. Never \notin Times /\ Times \subseteq Int
  BY DEF Times
<1>2. now \in Times /\ emptied \in Times \cup {Never} /\ start \in [Processes -> Nat]
  BY DEF LogInv, LogTypeOK
<1>3. ASSUME ini["high"] # Never
      PROVE  Saved \in Int
  <2>1. ini["high"] \in Times /\ ini["low"] \in Times /\ HALF \in Int
    BY <1>3 DEF LogInv, LogTypeOK, SavedInOrder, Halves
  <2>2. ini["high"] \in Int /\ ini["low"] \in Int
    BY <1>1, <2>1
  <2> QED
    BY <2>1, <2>2 DEF Saved
<1> QED
  BY <1>1, <1>2, <1>3

LEMMA LaterStill ==
  ASSUME NEW t \in Int, NEW u \in Int, t <= u
  PROVE  t <= u + 1
OBVIOUS

LEMMA CalmSoFar ==
  ASSUME LogInv, [LogNext]_logVars, Calm'
  PROVE  Calm
<1>1. mishaps \subseteq mishaps'
  <2>1. ASSUME NEW p \in Processes, Starts(p) \/ Runs(p) \/ End(p)
        PROVE  mishaps \subseteq mishaps'
    BY <2>1 DEF Starts, LoadState, StartNewWeek, Runs, SaveHalf, LoadHigh, TickRotates,
                TickAppends, TickOnly, End
  <2>2. CASE Publish \/ Stale \/ Hold \/ Clock \/ SetBack \/ UNCHANGED logVars
    BY <2>2 DEF Publish, Stale, Hold, Clock, SetBack, logVars
  <2> QED
    BY <2>1, <2>2 DEF LogNext
<1> QED
  BY <1>1 DEF Calm

(* A week that begins while nobody else is up. *)
LEMMA BeginsAlone ==
  ASSUME LogInv, WeekInv, NEW p \in Processes, StartNewWeek(p),
         \A q \in Processes \ {p} : pc[q] = "down" /\ pc'[q] = "down",
         pc'[p] \in {"ready", "row"},
         ini["high"] = Never => emptied = Never,
         UNCHANGED <<now, ini>>
  PROVE  WeekInv'
<1>1. /\ now \in Nat /\ now \in Int
      /\ start'[p] = now /\ unsaved'[p] = <<"low", "high">>
      /\ \A q \in Processes \ {p} : unsaved'[q] = unsaved[q]
  <2>1. now \in Nat /\ now \in Int
    BY DEF LogInv, LogTypeOK, Times
  <2>2. LogTypeOK
    BY DEF LogInv
  <2> QED
    BY <2>1, <2>2, StartNewWeekTypes
<1>2. \A q \in Processes \ {p} : unsaved'[q] = <<>>
  BY <1>1 DEF LogInv, SavedInOrder
<1>3. \/ emptied' = now /\ log' = Never
      \/ emptied' = emptied /\ log' = log
  BY DEF StartNewWeek
<1>4. now <= now /\ (emptied' # Never => emptied' <= now)
  BY <1>1, <1>3 DEF WeekInv
<1>5. ini'["high"] = Never => emptied' = Never \/ log' = Never
  BY <1>3
<1>6. ASSUME NEW q \in Processes
      PROVE  /\ pc'[q] \in {"ready", "row"} => NotSince(start[q])'
             /\ pc'[q] # "loading"
             /\ unsaved'[q] # <<>> => q = p
             /\ unsaved'[q] # <<"high">>
  <2>1. CASE q = p
    BY <1>1, <1>4, <2>1, Pieces DEF NotSince
  <2>2. CASE q # p
    BY <1>2, <2>2, Pieces
  <2> QED
    BY <2>1, <2>2
<1>7. unsaved'[p] # <<>>
  BY <1>1, Pieces
<1> QED
  BY <1>4, <1>5, <1>6, <1>7 DEF WeekInv

LEMMA WeekInvKept ==
  ASSUME LogInv, WeekInv, [LogNext]_logVars, Calm'
  PROVE  WeekInv'
<1> USE DEF Calm
<1>0. \A p \in Processes : pc[p] \in {"down", "loading"} => unsaved[p] = <<>>
  BY DEF LogInv, SavedInOrder
<1>1. ASSUME NEW p \in Processes, Starts(p)
      PROVE  WeekInv'
  <2>1. LoadState(p) /\ unsaved[p] = <<>>
    BY <1>0, <1>1 DEF Starts, LoadState
  <2>2. CASE ini["high"] = Never
    <3>1. /\ pc' = [pc EXCEPT ![p] = "ready"] /\ StartNewWeek(p)
          /\ UNCHANGED <<now, ini>>
      BY <2>1, <2>2 DEF LoadState
    <3>2. \A q \in Processes \ {p} : pc[q] = "down"
      BY <3>1 DEF StartNewWeek, Others
    <3>3. emptied = Never
      BY <1>0, <2>1, <2>2, <3>2 DEF WeekInv
    <3>4. pc'[p] = "ready" /\ \A q \in Processes \ {p} : pc'[q] = "down"
      BY <3>1, <3>2 DEF LogInv, LogTypeOK
    <3> QED
      BY <3>1, <3>2, <3>3, <3>4, BeginsAlone
  <2>3. CASE ini["high"] # Never
    <3>1. /\ pc' = [pc EXCEPT ![p] = "loading"]
          /\ start' = [start EXCEPT ![p] = ini["low"]]
          /\ UNCHANGED <<now, ini, log, emptied, unsaved>>
      BY <2>1, <2>3 DEF LoadState
    <3>2. \A q \in Processes \ {p} : unsaved[q] = <<>>
      BY <2>1, <2>3 DEF LoadState, Others
    <3>3. \A q \in Processes : unsaved'[q] = <<>>
      BY <2>1, <3>1, <3>2
    <3>4. emptied' # Never => emptied' <= now'
      BY <3>1 DEF WeekInv
    <3>5. NotSince(Saved)' /\ ini'["high"] # Never
      BY <2>3, <3>1, <3>3 DEF WeekInv, NotSince, Saved
    <3>6. ASSUME NEW q \in Processes
          PROVE  /\ pc'[q] \in {"ready", "row"} => NotSince(start[q])'
                 /\ pc'[q] = "loading" => start'[q] = ini'["low"]
      <4>1. CASE q = p
        BY <3>1, <4>1 DEF LogInv, LogTypeOK
      <4>2. CASE q # p
        BY <3>1, <4>2 DEF WeekInv, NotSince, LogInv, LogTypeOK
      <4> QED
        BY <4>1, <4>2
    <3> QED
      BY <3>3, <3>4, <3>5, <3>6, Pieces DEF WeekInv
  <2> QED
    BY <2>2, <2>3
<1>2. ASSUME NEW p \in Processes, SaveHalf(p)
      PROVE  WeekInv'
  <2>1. /\ pc[p] \in {"ready", "row"} /\ start[p] \in Times
        /\ \A q \in Processes \ {p} : pc[q] = "down" /\ unsaved[q] = <<>>
        /\ NotSince(start[p])
        /\ UNCHANGED <<now, log, emptied, pc, start>>
    BY <1>0, <1>2 DEF SaveHalf, WeekInv, LogInv, SavedInOrder
  <2>2. \A q \in Processes \ {p} : unsaved'[q] = <<>>
    BY <1>2, <2>1 DEF SaveHalf, LogInv, LogTypeOK
  <2>3. /\ \A q \in Processes : pc'[q] \in {"ready", "row"} => NotSince(start[q])'
        /\ \A q \in Processes : pc'[q] # "loading"
        /\ emptied' # Never => emptied' <= now'
    BY <2>1 DEF WeekInv, NotSince
  <2>4. CASE unsaved[p] = <<"low", "high">>
    <3>1. /\ ini' = [ini EXCEPT !["low"] = Low(start[p])]
          /\ unsaved' = [unsaved EXCEPT ![p] = <<"high">>]
      BY <1>2, <2>4, Pieces DEF SaveHalf
    <3>2. /\ ini'["high"] = ini["high"] /\ ini'["low"] = Low(start'[p])
          /\ unsaved'[p] = <<"high">>
      BY <2>1, <3>1 DEF LogInv, LogTypeOK, Halves
    <3>3. ini'["high"] = Never => emptied' = Never \/ log' = Never
      BY <2>1, <2>4, <3>2, Pieces DEF WeekInv
    <3>4. ASSUME NEW q \in Processes
          PROVE  /\ unsaved'[q] # <<>> => q = p
                 /\ unsaved'[q] = <<"high">> => ini'["low"] = Low(start'[q])
      BY <2>2, <3>2, Pieces
    <3> QED
      BY <2>1, <2>3, <3>2, <3>3, <3>4, Pieces DEF WeekInv
  <2>5. CASE unsaved[p] = <<"high">>
    <3>1. /\ ini' = [ini EXCEPT !["high"] = High(start[p])]
          /\ unsaved' = [unsaved EXCEPT ![p] = <<>>]
      BY <1>2, <2>5, Pieces DEF SaveHalf
    <3>2. /\ ini'["high"] = High(start[p]) /\ ini'["low"] = Low(start[p])
          /\ unsaved'[p] = <<>>
      BY <2>5, <3>1 DEF WeekInv, LogInv, LogTypeOK, Halves
    <3>3. Saved' = start[p] /\ ini'["high"] # Never
      <4>1. /\ High(start[p]) \in Times
            /\ High(start[p]) * HALF + Low(start[p]) = start[p]
        BY <2>1, Halved
      <4>2. Never \notin Times
        BY TimesTyped
      <4> QED
        BY <3>2, <4>1, <4>2 DEF Saved
    <3>4. NotSince(Saved)'
      BY <2>1, <3>3 DEF NotSince
    <3>5. \A q \in Processes : unsaved'[q] = <<>>
      BY <2>2, <3>2
    <3> QED
      BY <2>3, <3>3, <3>4, <3>5, Pieces DEF WeekInv
  <2> QED
    BY <1>2, <2>4, <2>5 DEF SaveHalf, LogInv, LogTypeOK
<1>3. ASSUME NEW p \in Processes, LoadHigh(p)
      PROVE  WeekInv'
  <2>1. /\ pc[p] = "loading" /\ ini["high"] # Never /\ start[p] = ini["low"]
        /\ start' = [start EXCEPT ![p] = Saved]
        /\ pc' = [pc EXCEPT ![p] = "ready"]
        /\ UNCHANGED <<now, log, emptied, ini, unsaved>>
    BY <1>3 DEF LoadHigh, WeekInv, LogInv, SavedInOrder, fileVars, Saved
  <2>2. \A q \in Processes : unsaved[q] = <<>>
    BY <1>0, <2>1 DEF WeekInv
  <2>3. NotSince(Saved)
    BY <2>1, <2>2 DEF WeekInv
  <2>4. ASSUME NEW q \in Processes
        PROVE  /\ pc'[q] \in {"ready", "row"} => NotSince(start[q])'
               /\ pc'[q] = "loading" => start'[q] = ini'["low"]
    <3>1. CASE q = p
      BY <2>1, <2>3, <3>1 DEF LogInv, LogTypeOK, NotSince
    <3>2. CASE q # p
      BY <2>1, <3>2 DEF WeekInv, NotSince, LogInv, LogTypeOK
    <3> QED
      BY <3>1, <3>2
  <2>5. /\ emptied' # Never => emptied' <= now'
        /\ NotSince(Saved)' /\ ini'["high"] # Never
        /\ \A q \in Processes : unsaved'[q] = <<>>
    BY <2>1, <2>2, <2>3 DEF WeekInv, NotSince, Saved
  <2> QED
    BY <2>4, <2>5, Pieces DEF WeekInv
<1>4. ASSUME NEW p \in Processes, TickRotates(p)
      PROVE  WeekInv'
  <2>1. /\ pc[p] = "ready" /\ unsaved[p] = <<>> /\ StartNewWeek(p)
        /\ pc' = [pc EXCEPT ![p] = "row"]
        /\ UNCHANGED <<now, ini>>
    BY <1>4 DEF TickRotates
  <2>2. \A q \in Processes \ {p} : pc[q] = "down"
    BY <2>1 DEF StartNewWeek, Others
  <2>3. ini["high"] = Never => emptied = Never
    BY <1>0, <2>1, <2>2 DEF WeekInv
  <2>4. pc'[p] = "row" /\ \A q \in Processes \ {p} : pc'[q] = "down"
    BY <2>1, <2>2 DEF LogInv, LogTypeOK
  <2> QED
    BY <2>1, <2>2, <2>3, <2>4, BeginsAlone
<1>5. ASSUME NEW p \in Processes, TickAppends(p) \/ TickOnly(p)
      PROVE  WeekInv'
  <2>1. /\ \A q \in Processes : pc'[q] = pc[q] \/ (q = p /\ pc[p] = "row" /\ pc'[p] = "ready")
        /\ unsaved[p] = <<>> /\ pc[p] # "down"
        /\ UNCHANGED <<now, emptied, ini, unsaved, start>>
    BY <1>5 DEF TickAppends, TickOnly, LogInv, LogTypeOK
  <2>2. \A q \in Processes : unsaved[q] = <<>>
    BY <2>1 DEF WeekInv
  <2> QED
    BY <2>1, <2>2, Pieces DEF WeekInv, NotSince, Saved
<1>6. ASSUME NEW p \in Processes, End(p)
      PROVE  WeekInv'
  <2>1. /\ pc' = [pc EXCEPT ![p] = "down"]
        /\ start' = [start EXCEPT ![p] = 0]
        /\ unsaved[p] = <<>> /\ unsaved' = [unsaved EXCEPT ![p] = <<>>]
        /\ UNCHANGED <<now, log, emptied, ini>>
    BY <1>6 DEF End, fileVars
  <2>2. \A q \in Processes : unsaved'[q] = unsaved[q]
    BY <2>1 DEF LogInv, LogTypeOK
  <2>3. pc'[p] = "down" /\ \A q \in Processes \ {p} : pc'[q] = pc[q] /\ start'[q] = start[q]
    BY <2>1 DEF LogInv, LogTypeOK
  <2>4. ASSUME NEW q \in Processes
        PROVE  /\ pc'[q] \in {"ready", "row"} => NotSince(start[q])'
               /\ pc'[q] = "loading" => start'[q] = ini'["low"]
               /\ unsaved'[q] = <<"high">> => ini'["low"] = Low(start'[q])
               /\ unsaved'[q] # <<>> =>
                    /\ \A r \in Processes \ {q} : pc'[r] = "down"
                    /\ ini'["high"] = Never => emptied' = Never \/ log' = Never
    <3>1. CASE q = p
      BY <2>1, <2>2, <2>3, <3>1, Pieces
    <3>2. CASE q # p
      <4>1. pc'[q] = pc[q] /\ start'[q] = start[q] /\ unsaved'[q] = unsaved[q]
        BY <2>2, <2>3, <3>2
      <4>2. unsaved[q] # <<>> => \A r \in Processes \ {q} : pc'[r] = "down"
        <5>1. unsaved[q] # <<>> => \A r \in Processes \ {q} : pc[r] = "down"
          BY DEF WeekInv
        <5> QED
          BY <2>3, <5>1
      <4> QED
        <5>1. /\ pc[q] \in {"ready", "row"} => NotSince(start[q])
              /\ pc[q] = "loading" => start[q] = ini["low"]
              /\ unsaved[q] = <<"high">> => ini["low"] = Low(start[q])
              /\ unsaved[q] # <<>> =>
                   (ini["high"] = Never => emptied = Never \/ log = Never)
          BY DEF WeekInv
        <5>2. NotSince(start[q]) => NotSince(start[q])'
          BY <2>1, <4>1 DEF NotSince
        <5> QED
          BY <2>1, <4>1, <4>2, <5>1, <5>2
    <3> QED
      BY <3>1, <3>2
  <2>5. emptied' # Never => emptied' <= now'
    BY <2>1 DEF WeekInv
  <2>6. (\A q \in Processes : unsaved'[q] = <<>>) =>
          IF ini'["high"] = Never THEN emptied' = Never ELSE NotSince(Saved)'
    BY <2>1, <2>2 DEF WeekInv, NotSince, Saved
  <2> QED
    BY <2>4, <2>5, <2>6 DEF WeekInv
<1>7. CASE Publish \/ Stale \/ Hold \/ UNCHANGED logVars
  BY <1>7 DEF Publish, Stale, Hold, logVars, fileVars, processVars, WeekInv, NotSince, Saved
<1>8. CASE Clock
  <2>1. now' = now + 1 /\ UNCHANGED <<log, emptied, ini, pc, unsaved, start>>
    BY <1>8 DEF Clock, fileVars, processVars
  <2>2. /\ now \in Int
        /\ emptied # Never => emptied \in Int
        /\ \A q \in Processes : start[q] \in Int
        /\ ini["high"] # Never => Saved \in Int
    BY TimesTyped
  <2>3. ASSUME NEW t \in Int, t <= now
        PROVE  t <= now'
    BY <2>1, <2>2, <2>3, LaterStill
  <2>4. emptied' # Never => emptied' <= now'
    BY <2>1, <2>2, <2>3 DEF WeekInv
  <2>5. \A q \in Processes : pc'[q] \in {"ready", "row"} => NotSince(start[q])'
    BY <2>1, <2>2, <2>3 DEF WeekInv, NotSince
  <2>6. Saved' = Saved
    BY <2>1 DEF Saved
  <2>7. (\A p \in Processes : unsaved'[p] = <<>>) =>
          IF ini'["high"] = Never THEN emptied' = Never ELSE NotSince(Saved)'
    BY <2>1, <2>2, <2>3, <2>6 DEF WeekInv, NotSince
  <2> QED
    BY <2>1, <2>4, <2>5, <2>7 DEF WeekInv
<1>9. ~SetBack
  <2>1. SetBack => "clock set back" \in mishaps'
    BY DEF SetBack
  <2> QED
    BY <2>1
<1> QED
  BY <1>1, <1>2, <1>3, <1>4, <1>5, <1>6, <1>7, <1>8, <1>9 DEF LogNext, Runs

LEMMA Unwrapped ==
  ASSUME NEW n \in Nat, NEW m \in Nat \ {0}, n < m
  PROVE  n % m = n
OBVIOUS

LEMMA EmptiedAWeekAgo ==
  ASSUME LogInv, Calm => WeekInv, [LogNext]_logVars,
         Calm, log # Never, log' = Never
  PROVE  emptied = Never \/ now - emptied >= WEEK
<1>1. ASSUME NEW p \in Processes, Starts(p)
      PROVE  emptied = Never
  <2>1. ini["high"] = Never
    BY <1>1 DEF Starts, LoadState
  <2> QED
    BY <2>1 DEF WeekInv
<1>2. ASSUME NEW p \in Processes, TickRotates(p)
      PROVE  emptied = Never \/ now - emptied >= WEEK
  <2>1. NotSince(start[p]) /\ Expired(p)
    BY <1>2 DEF TickRotates, WeekInv
  <2>2. /\ start[p] \in Nat /\ start[p] <= now
        /\ now \in Nat /\ now <= MaxTime
        /\ emptied # Never => emptied \in Nat
    BY <2>1 DEF NotSince, LogInv, LogTypeOK, Times
  <2>3. MaxTime < TIME_MOD /\ TIME_MOD \in Nat \ {0} /\ WEEK \in Nat /\ MaxTime \in Nat
    OBVIOUS
  <2>4. now - start[p] \in Nat /\ now - start[p] < TIME_MOD
    BY <2>2, <2>3
  <2>5. now - start[p] >= WEEK
    BY <2>1, <2>3, <2>4, Unwrapped DEF Expired
  <2>6. ASSUME emptied # Never
        PROVE  now - emptied >= WEEK
    <3>1. emptied \in Nat /\ emptied <= start[p]
      BY <2>1, <2>2, <2>6 DEF NotSince
    <3> QED
      BY <2>2, <2>3, <2>5, <3>1
  <2> QED
    BY <2>6
<1>3. ASSUME NEW p \in Processes, TickAppends(p) \/ TickOnly(p)
      PROVE  FALSE
  BY <1>3, TimesTyped DEF TickAppends, TickOnly, CountAndAppend
<1>4. ASSUME NEW p \in Processes, SaveHalf(p) \/ LoadHigh(p) \/ End(p)
      PROVE  FALSE
  BY <1>4 DEF SaveHalf, LoadHigh, End, fileVars
<1>5. ~(Publish \/ Stale \/ Hold \/ Clock \/ SetBack \/ UNCHANGED logVars)
  BY DEF Publish, Stale, Hold, Clock, SetBack, logVars, fileVars
<1> QED
  BY <1>1, <1>2, <1>3, <1>4, <1>5 DEF LogNext, Runs

(* No row is deleted before the log is a week old: through every restart of  *)
(* either process the week goes on from the time in the .ini file, unless    *)
(* the clock was set back, the writing of that time was interrupted, or one  *)
(* process emptied the log while the other still had the old time.           *)
THEOREM EmptiedOnceAWeek == ServiceSpec => EmptiedWeekly
<1>1. LogInit => (Calm => WeekInv)
  <2> SUFFICES ASSUME LogInit
               PROVE  WeekInv
    OBVIOUS
  <2> QED
    BY Pieces DEF LogInit, WeekInv, Halves
<1>2. LogInv /\ (Calm => WeekInv) /\ [LogNext]_logVars => (Calm => WeekInv)'
  BY CalmSoFar, WeekInvKept
<1>3. LogInv /\ (Calm => WeekInv) /\ [LogNext]_logVars
      => [mishaps \subseteq {"emptying refused"} /\ log # Never /\ log' = Never
            => emptied = Never \/ now - emptied >= WEEK]_logVars
  BY EmptiedAWeekAgo DEF Calm
<1> QED
  BY <1>1, <1>2, <1>3, ServiceIsAProcess, LogInvHolds, PTL DEF LogSafety, EmptiedWeekly

-----------------------------------------------------------------------------
(* The log is a week deep.                                                   *)

Steady == mishaps \cap {"clock set back", "emptying refused"} = {}
Began(t) == t <= now /\ (log # Never => t <= log)

(* What makes LogIsAWeekDeep inductive: no week, neither in a copy nor in    *)
(* the .ini file, began after the first row of the log.  A time whose high   *)
(* half only is new may be off by its low half, and so by less than HALF.    *)
Deep(p) ==
  /\ pc[p] = "loading" => start[p] < HALF
  /\ pc[p] \in {"ready", "row"} => Began(start[p] - HALF)
  /\ unsaved[p] # <<>> => Began(start[p])

DeepInv ==
  /\ log # Never => log <= now
  /\ ini["low"] # Never => ini["low"] < HALF
  /\ ini["high"] # Never => Began(ini["high"] * HALF)
  /\ \A p \in Processes : Deep(p)

LEMMA DeepTypes ==
  ASSUME LogInv
  PROVE  /\ now \in Int /\ HALF \in Int /\ HALF > 0
         /\ log # Never => log \in Int
         /\ ini["high"] # Never => ini["high"] * HALF \in Int
         /\ \A p \in Processes : start[p] \in Nat
<1>1. Never \notin Times /\ Times \subseteq Nat
  BY DEF Times
<1>2. /\ now \in Times /\ log \in Times \cup {Never} /\ start \in [Processes -> Nat]
      /\ ini["high"] \in Times \cup {Never}
  BY DEF LogInv, LogTypeOK, Halves
<1>3. ini["high"] # Never => ini["high"] \in Nat
  BY <1>1, <1>2
<1> QED
  BY <1>1, <1>2, <1>3

LEMMA SteadySoFar ==
  ASSUME LogInv, [LogNext]_logVars, Steady'
  PROVE  Steady
<1>1. mishaps \subseteq mishaps'
  <2>1. ASSUME NEW p \in Processes, Starts(p) \/ Runs(p) \/ End(p)
        PROVE  mishaps \subseteq mishaps'
    BY <2>1 DEF Starts, LoadState, StartNewWeek, Runs, SaveHalf, LoadHigh, TickRotates,
                TickAppends, TickOnly, End
  <2>2. CASE Publish \/ Stale \/ Hold \/ Clock \/ SetBack \/ UNCHANGED logVars
    BY <2>2 DEF Publish, Stale, Hold, Clock, SetBack, logVars
  <2> QED
    BY <2>1, <2>2 DEF LogNext
<1> QED
  BY <1>1 DEF Steady

(* What began before the log is still before it: while the log grows, and    *)
(* when it is emptied.                                                       *)
LEMMA BeganStill ==
  ASSUME LogInv, NEW t \in Int, Began(t), now' \in Int, now <= now',
         log' = log \/ log' = Never \/ (log = Never /\ log' = now)
  PROVE  Began(t)'
<1>1. now \in Int
  BY DeepTypes
<1>2. t <= now'
  BY <1>1 DEF Began
<1> QED
  BY <1>2 DEF Began

LEMMA NewWeekDeep ==
  ASSUME LogInv, DeepInv, NEW p \in Processes, StartNewWeek(p), Steady',
         UNCHANGED <<now, ini>>, pc'[p] \in {"ready", "row"},
         \A q \in Processes \ {p} : pc'[q] = pc[q]
  PROVE  DeepInv'
<1>1. /\ start'[p] = now /\ \A q \in Processes \ {p} : start'[q] = start[q]
      /\ \A q \in Processes \ {p} : unsaved'[q] = unsaved[q]
  BY StartNewWeekTypes DEF LogInv
<1>2. log' = Never
  BY DEF StartNewWeek, Steady
<1>3. now \in Int /\ HALF \in Int /\ HALF > 0 /\ \A q \in Processes : start[q] \in Int
  BY DeepTypes
<1>4. ASSUME NEW t, t <= now
      PROVE  Began(t)'
  BY <1>2, <1>4 DEF Began
<1>5. Deep(p)'
  <2>1. now - HALF <= now /\ now <= now
    BY <1>3
  <2> QED
    BY <1>1, <1>4, <2>1 DEF Deep
<1>6. ASSUME NEW q \in Processes \ {p}
      PROVE  Deep(q)'
  <2>1. Deep(q)
    BY DEF DeepInv
  <2> QED
    BY <1>1, <1>4, <2>1 DEF Deep, Began
<1>7. ini'["high"] # Never => Began(ini["high"] * HALF)'
  <2>1. ini["high"] # Never => ini["high"] * HALF <= now
    BY DEF DeepInv, Began
  <2> QED
    BY <1>4, <2>1
<1> QED
  BY <1>2, <1>5, <1>6, <1>7 DEF DeepInv

LEMMA DeepInvKept ==
  ASSUME LogInv, DeepInv, [LogNext]_logVars, Steady'
  PROVE  DeepInv'
<1>0. /\ now \in Int /\ HALF \in Int /\ HALF > 0
      /\ log # Never => log \in Int
      /\ ini["high"] # Never => ini["high"] * HALF \in Int
      /\ \A p \in Processes : start[p] \in Nat
  BY DeepTypes
<1>a. ASSUME NEW t \in Int, Began(t), now' = now, log' = log
      PROVE  Began(t)'
  BY <1>a DEF Began
<1>1. ASSUME NEW p \in Processes, Starts(p)
      PROVE  DeepInv'
  <2>1. LoadState(p)
    BY <1>1 DEF Starts
  <2>2. CASE ini["high"] = Never
    <3>1. /\ pc' = [pc EXCEPT ![p] = "ready"] /\ StartNewWeek(p)
          /\ UNCHANGED <<now, ini>>
      BY <2>1, <2>2 DEF LoadState
    <3>2. pc'[p] = "ready" /\ \A q \in Processes \ {p} : pc'[q] = pc[q]
      BY <3>1 DEF LogInv, LogTypeOK
    <3> QED
      BY <3>1, <3>2, NewWeekDeep
  <2>3. CASE ini["high"] # Never
    <3>1. /\ pc' = [pc EXCEPT ![p] = "loading"]
          /\ start' = [start EXCEPT ![p] = ini["low"]]
          /\ UNCHANGED <<now, ini, log, unsaved>>
      BY <2>1, <2>3 DEF LoadState
    <3>2. /\ pc'[p] = "loading" /\ start'[p] = ini["low"]
          /\ \A q \in Processes \ {p} : pc'[q] = pc[q] /\ start'[q] = start[q]
      BY <3>1 DEF LogInv, LogTypeOK
    <3>3. ini["low"] < HALF /\ unsaved[p] = <<>>
      BY <2>1, <2>3 DEF LoadState, LogInv, SavedInOrder, DeepInv
    <3>4. Deep(p)'
      BY <3>1, <3>2, <3>3 DEF Deep
    <3>5. ASSUME NEW q \in Processes \ {p}
          PROVE  Deep(q)'
      BY <3>1, <3>2 DEF Deep, DeepInv, Began
    <3> QED
      BY <3>1, <3>4, <3>5 DEF DeepInv, Began
  <2> QED
    BY <2>2, <2>3
<1>2. ASSUME NEW p \in Processes, SaveHalf(p)
      PROVE  DeepInv'
  <2>1. /\ start[p] \in Times /\ Began(start[p])
        /\ UNCHANGED <<now, log, pc, start>>
        /\ unsaved' = [unsaved EXCEPT ![p] = Tail(@)]
    BY <1>2 DEF SaveHalf, LogInv, SavedInOrder, DeepInv, Deep
  <2>2. \A q \in Processes : unsaved'[q] # <<>> => unsaved[q] # <<>>
    BY <1>2, <2>1 DEF SaveHalf, LogInv, LogTypeOK
  <2>3. \A q \in Processes : Deep(q)'
    BY <2>1, <2>2 DEF Deep, DeepInv, Began
  <2>4. CASE unsaved[p] = <<"low", "high">>
    <3>1. ini' = [ini EXCEPT !["low"] = Low(start[p])]
      BY <1>2, <2>4, Pieces DEF SaveHalf
    <3>2. ini'["low"] = Low(start[p]) /\ ini'["high"] = ini["high"]
      BY <3>1 DEF LogInv, LogTypeOK, Halves
    <3>3. Low(start[p]) < HALF
      BY <1>0 DEF Low
    <3> QED
      BY <2>1, <2>3, <3>2, <3>3 DEF DeepInv, Began
  <2>5. CASE unsaved[p] = <<"high">>
    <3>1. ini' = [ini EXCEPT !["high"] = High(start[p])]
      BY <1>2, <2>5, Pieces DEF SaveHalf
    <3>2. ini'["high"] = High(start[p]) /\ ini'["low"] = ini["low"]
      BY <3>1 DEF LogInv, LogTypeOK, Halves
    <3>3. High(start[p]) * HALF <= start[p] /\ High(start[p]) * HALF \in Int
      <4>1. /\ Low(start[p]) \in Times /\ High(start[p]) \in Times
            /\ High(start[p]) * HALF + Low(start[p]) = start[p]
        BY <2>1, Halved
      <4>2. Low(start[p]) \in Nat /\ High(start[p]) \in Nat
        BY <4>1 DEF Times
      <4>3. High(start[p]) * HALF \in Int
        BY <1>0, <4>2
      <4> QED
        BY <4>1, <4>2, <4>3
    <3>4. Began(High(start[p]) * HALF)
      <4> DEFINE t == High(start[p]) * HALF
      <4>1. t \in Int /\ t <= start[p] /\ start[p] \in Int
        BY <1>0, <3>3
      <4> HIDE DEF t
      <4>2. Began(t)
        BY <1>0, <2>1, <4>1 DEF Began
      <4> QED
        BY <4>2 DEF t
    <3> QED
      BY <2>1, <2>3, <3>2, <3>4 DEF DeepInv, Began
  <2> QED
    BY <1>2, <2>4, <2>5 DEF SaveHalf, LogInv, LogTypeOK
<1>3. ASSUME NEW p \in Processes, LoadHigh(p)
      PROVE  DeepInv'
  <2>1. /\ pc[p] = "loading" /\ ini["high"] # Never /\ unsaved[p] = <<>>
        /\ start' = [start EXCEPT ![p] = ini["high"] * HALF + start[p]]
        /\ pc' = [pc EXCEPT ![p] = "ready"]
        /\ UNCHANGED <<now, log, ini, unsaved>>
    BY <1>3 DEF LoadHigh, LogInv, SavedInOrder, fileVars
  <2>2. /\ pc'[p] = "ready" /\ start'[p] = ini["high"] * HALF + start[p]
        /\ \A q \in Processes \ {p} : pc'[q] = pc[q] /\ start'[q] = start[q]
    BY <2>1 DEF LogInv, LogTypeOK
  <2>3. start[p] < HALF /\ Began(ini["high"] * HALF)
    BY <2>1 DEF DeepInv, Deep
  <2>4. Began(start'[p] - HALF)
    <3> DEFINE t == ini["high"] * HALF
    <3>1. t \in Int /\ start'[p] = t + start[p] /\ Began(t)
      BY <1>0, <2>1, <2>2, <2>3
    <3> HIDE DEF t
    <3> QED
      BY <1>0, <2>3, <3>1 DEF Began
  <2>5. Deep(p)'
    BY <2>1, <2>2, <2>4 DEF Deep, Began
  <2>6. ASSUME NEW q \in Processes \ {p}
        PROVE  Deep(q)'
    BY <2>1, <2>2 DEF Deep, DeepInv, Began
  <2> QED
    BY <2>1, <2>5, <2>6 DEF DeepInv, Began
<1>4. ASSUME NEW p \in Processes, TickRotates(p)
      PROVE  DeepInv'
  <2>1. /\ StartNewWeek(p) /\ pc' = [pc EXCEPT ![p] = "row"] /\ UNCHANGED <<now, ini>>
    BY <1>4 DEF TickRotates
  <2>2. pc'[p] = "row" /\ \A q \in Processes \ {p} : pc'[q] = pc[q]
    BY <2>1 DEF LogInv, LogTypeOK
  <2> QED
    BY <2>1, <2>2, NewWeekDeep
<1>5. ASSUME NEW p \in Processes, TickAppends(p) \/ TickOnly(p)
      PROVE  DeepInv'
  <2>1. /\ log' = log \/ (log = Never /\ log' = now)
        /\ \A q \in Processes : pc'[q] = pc[q] \/ (pc[q] = "row" /\ pc'[q] = "ready")
        /\ UNCHANGED <<now, ini, unsaved, start>>
    BY <1>5 DEF TickAppends, TickOnly, CountAndAppend, LogInv, LogTypeOK
  <2>2. ASSUME NEW t \in Int, Began(t)
        PROVE  Began(t)'
    BY <1>0, <2>1, <2>2 DEF Began
  <2>3. ASSUME NEW q \in Processes
        PROVE  Deep(q)'
    <3>1. start[q] - HALF \in Int /\ start[q] \in Int /\ HALF' = HALF
      BY <1>0
    <3>2. Deep(q)
      BY DEF DeepInv
    <3> QED
      BY <2>1, <2>2, <3>1, <3>2 DEF Deep
  <2>4. ini'["high"] # Never => Began(ini["high"] * HALF)'
    BY <1>0, <2>1, <2>2 DEF DeepInv
  <2>5. log' # Never => log' <= now'
    BY <1>0, <2>1 DEF DeepInv
  <2> QED
    BY <2>1, <2>3, <2>4, <2>5 DEF DeepInv
<1>6. ASSUME NEW p \in Processes, End(p)
      PROVE  DeepInv'
  <2>1. /\ pc' = [pc EXCEPT ![p] = "down"] /\ start' = [start EXCEPT ![p] = 0]
        /\ unsaved' = [unsaved EXCEPT ![p] = <<>>]
        /\ UNCHANGED <<now, log, ini>>
    BY <1>6 DEF End, fileVars
  <2>2. /\ pc'[p] = "down" /\ unsaved'[p] = <<>>
        /\ \A q \in Processes \ {p} :
             pc'[q] = pc[q] /\ start'[q] = start[q] /\ unsaved'[q] = unsaved[q]
    BY <2>1 DEF LogInv, LogTypeOK
  <2>3. Deep(p)'
    BY <2>2 DEF Deep
  <2>4. ASSUME NEW q \in Processes \ {p}
        PROVE  Deep(q)'
    BY <2>1, <2>2 DEF Deep, DeepInv, Began
  <2> QED
    BY <2>1, <2>3, <2>4 DEF DeepInv, Began
<1>7. CASE Publish \/ Stale \/ Hold \/ UNCHANGED logVars
  <2>1. UNCHANGED <<now, log, ini, pc, start, unsaved>>
    BY <1>7 DEF Publish, Stale, Hold, logVars, fileVars, processVars
  <2> QED
    BY <2>1 DEF DeepInv, Deep, Began
<1>8. CASE Clock
  <2>1. now' = now + 1 /\ UNCHANGED <<log, ini, pc, unsaved, start>>
    BY <1>8 DEF Clock, fileVars, processVars
  <2>2. ASSUME NEW t \in Int, Began(t)
        PROVE  Began(t)'
    BY <1>0, <2>1, <2>2 DEF Began
  <2>3. ASSUME NEW q \in Processes
        PROVE  Deep(q)'
    <3>1. start[q] - HALF \in Int /\ start[q] \in Int
      BY <1>0
    <3>2. Deep(q)
      BY DEF DeepInv
    <3> QED
      BY <2>1, <2>2, <3>1, <3>2 DEF Deep
  <2>4. ini'["high"] # Never => Began(ini["high"] * HALF)'
    BY <1>0, <2>1, <2>2 DEF DeepInv
  <2>5. log' # Never => log' <= now'
    BY <1>0, <2>1 DEF DeepInv
  <2> QED
    BY <2>1, <2>3, <2>4, <2>5 DEF DeepInv
<1>9. ~SetBack
  <2>1. SetBack => "clock set back" \in mishaps'
    BY DEF SetBack
  <2> QED
    BY <2>1 DEF Steady
<1> QED
  BY <1>1, <1>2, <1>3, <1>4, <1>5, <1>6, <1>7, <1>8, <1>9 DEF LogNext, Runs

(* The tick of a process whose week has not expired: neither it nor the log  *)
(* is a week old, and a week that seems to begin in the future has expired.  *)
LEMMA TickSeesAWeek ==
  ASSUME LogInv, DeepInv, NEW p \in Processes, TickOnly(p), log # Never
  PROVE  now - log < WEEK + HALF
<1>1. /\ now \in Nat /\ now <= MaxTime /\ log \in Int /\ start[p] \in Nat
      /\ WEEK \in Nat /\ HALF \in Nat /\ MaxTime \in Nat
      /\ TIME_MOD \in Nat /\ MaxTime + HALF + WEEK <= TIME_MOD
  BY DeepTypes DEF LogInv, LogTypeOK, Times
<1>2. Began(start[p] - HALF)
  BY DEF TickOnly, DeepInv, Deep
<1>3. start[p] - HALF <= log /\ start[p] - HALF <= now
  BY <1>2 DEF Began
<1>4. (now - start[p]) % TIME_MOD < WEEK
  <2>1. (now - start[p]) % TIME_MOD \in Int
    BY <1>1
  <2> QED
    BY <1>1, <2>1 DEF TickOnly, Expired
<1>5. CASE start[p] <= now
  <2>1. now - start[p] \in Nat /\ now - start[p] < TIME_MOD /\ TIME_MOD \in Nat \ {0}
    BY <1>1, <1>5
  <2>2. now - start[p] < WEEK
    BY <1>4, <2>1, Unwrapped
  <2> QED
    BY <1>1, <1>3, <2>2
<1>6. CASE start[p] > now
  <2>1. now - start[p] + TIME_MOD \in Nat /\ now - start[p] + TIME_MOD < TIME_MOD
    BY <1>1, <1>3, <1>6
  <2>2. (now - start[p]) % TIME_MOD = now - start[p] + TIME_MOD
    BY <1>1, <2>1
  <2> QED
    BY <1>1, <1>3, <1>4, <2>2
<1> QED
  BY <1>1, <1>5, <1>6

(* No row is ever older than a week and what the low half of a time counts:  *)
(* through every restart of either process, every rotation cut off between   *)
(* the two writes of its time and every one beside the other process, unless *)
(* the clock was set back or the log could not be emptied.                   *)
THEOREM LogStaysAWeekDeep == ServiceSpec => LogIsAWeekDeep
<1>1. LogInit => (Steady => DeepInv)
  BY Pieces DEF LogInit, DeepInv, Deep, Halves
<1>2. LogInv /\ (Steady => DeepInv) /\ [LogNext]_logVars => (Steady => DeepInv)'
  BY SteadySoFar, DeepInvKept
<1>3. LogInv /\ (Steady => DeepInv) /\ [LogNext]_logVars
      => [\A p \in Processes :
            /\ TickOnly(p)
            /\ mishaps \cap {"clock set back", "emptying refused"} = {}
            /\ log # Never
            => now - log < WEEK + HALF]_logVars
  BY TickSeesAWeek DEF Steady
<1> QED
  BY <1>1, <1>2, <1>3, ServiceIsAProcess, LogInvHolds, PTL DEF LogSafety, LogIsAWeekDeep
=============================================================================
