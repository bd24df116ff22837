---------------------------- MODULE ShareProofs ----------------------------
(***************************************************************************)
(* Theorems about SensorShare for every set of readings and every cadence  *)
(* of the two processes.  FreshIsCurrent is inductive next to TypeOK: the  *)
(* block gets older readings only when its service ends, and the next one  *)
(* clears it, heartbeat included, before it shares it.                     *)
(***************************************************************************)
EXTENDS SensorShare, TLAPS

LEMMA Counters ==
  ASSUME TypeOK
  PROVE  /\ NextLoop \in 0 .. PublishEvery - 1
         /\ NextTry \in 0 .. OpenEvery - 1
         /\ 0 \in 0 .. PublishEvery - 1
         /\ 0 \in 0 .. OpenEvery - 1
  BY ShareAssumption DEF TypeOK, NextLoop, NextTry

LEMMA PollType ==
  ASSUME TypeOK, NEW me, NEW data \in Readings \cup {Nothing}, NEW ripe \in BOOLEAN
  PROVE  /\ SensorPoll(me, data, ripe).port \in {"free", "service", "window"}
         /\ SensorPoll(me, data, ripe).data \in Readings \cup {Nothing}
<1>1. CASE port # me \/ ~ripe
  BY <1>1 DEF SensorPoll, TypeOK
<1>2. CASE port = me /\ ripe /\ dead
  BY <1>2 DEF SensorPoll, TypeOK
<1>3. CASE ~(port # me \/ ~ripe) /\ ~(port = me /\ ripe /\ dead)
  BY <1>3 DEF SensorPoll, TypeOK
<1>4. QED
  BY <1>1, <1>2, <1>3

LEMMA SegmentType ==
  ASSUME TypeOK, NEW shared \in BOOLEAN, NEW read \in BOOLEAN, SegmentAfter(shared, read)
  PROVE  /\ block' \in Readings \cup {Nothing}
         /\ fresh' \in BOOLEAN
         /\ leftover' \in BOOLEAN
  BY DEF TypeOK, SegmentAfter

LEMMA HoldsType ==
  ASSUME NEW polled, polled.port \in {"free", "service", "window"}, Holds(polled)
  PROVE  port' \in {"free", "service", "window"} /\ dead' \in BOOLEAN
  BY DEF Holds

LEMMA InitTypeOK == ShareInit => TypeOK /\ FreshIsCurrent
<1> SUFFICES ASSUME ShareInit PROVE TypeOK /\ FreshIsCurrent
  OBVIOUS
<1>1. 0 \in 0 .. PublishEvery - 1 /\ 0 \in 0 .. OpenEvery - 1
  BY ShareAssumption
<1>2. /\ adapter \in BOOLEAN /\ dead \in BOOLEAN /\ up \in BOOLEAN /\ sharing \in BOOLEAN
      /\ fresh \in BOOLEAN /\ leftover \in BOOLEAN /\ open \in BOOLEAN /\ reader \in BOOLEAN
  BY DEF ShareInit
<1>3. /\ service \in Readings \cup {Nothing}
      /\ block \in Readings \cup {Nothing}
      /\ window \in Readings \cup {Nothing}
  BY DEF ShareInit
<1>4. /\ rack \in Readings /\ port \in {"free", "service", "window"}
      /\ loops = 0 /\ tries = 0
  BY DEF ShareInit
<1>5. TypeOK
  BY <1>1, <1>2, <1>3, <1>4 DEF TypeOK
<1>6. FreshIsCurrent
  BY DEF ShareInit, FreshIsCurrent
<1>7. QED
  BY <1>5, <1>6

LEMMA ServiceTypeOK ==
  ASSUME TypeOK, NEW due \in BOOLEAN, NEW ripe \in BOOLEAN, ServiceLoop(due, ripe)
  PROVE  TypeOK'
<1> DEFINE polled == IF Opens(due) THEN [port |-> "service", data |-> Nothing]
                     ELSE SensorPoll("service", service, ripe)
<1>1. /\ polled.port \in {"free", "service", "window"}
      /\ polled.data \in Readings \cup {Nothing}
  BY PollType DEF TypeOK
<1>2. /\ Holds(polled)
      /\ service' = polled.data
      /\ block' \in {block, polled.data}
      /\ fresh' \in {fresh, TRUE}
      /\ leftover' \in {leftover, FALSE}
      /\ loops' \in {loops, NextLoop}
      /\ UNCHANGED <<rack, adapter, up, sharing, windowVars>>
  BY DEF ServiceLoop, blockVars
<1> HIDE DEF polled
<1>3. port' \in {"free", "service", "window"} /\ dead' \in BOOLEAN
  BY <1>1, <1>2, HoldsType
<1>4. QED
  BY <1>1, <1>2, <1>3, Counters DEF TypeOK, windowVars

LEMMA WindowTypeOK ==
  ASSUME TypeOK, NEW ripe \in BOOLEAN, WindowTick(ripe)
  PROVE  TypeOK'
<1> DEFINE polled == IF UsesBlock(OpensReader) THEN [port |-> port, data |-> block]
                     ELSE SensorPoll("window", window, ripe)
<1>1. /\ polled.port \in {"free", "service", "window"}
      /\ polled.data \in Readings \cup {Nothing}
  BY PollType DEF TypeOK
<1>2. /\ Holds(polled)
      /\ window' = polled.data
      /\ reader' = OpensReader
      /\ tries' \in {tries, NextTry}
      /\ UNCHANGED <<rack, adapter, serviceVars, blockVars, open>>
  BY DEF WindowTick
<1> HIDE DEF polled
<1>3. port' \in {"free", "service", "window"} /\ dead' \in BOOLEAN
  BY <1>1, <1>2, HoldsType
<1>4. reader' \in BOOLEAN
  BY <1>2 DEF OpensReader, TypeOK
<1>5. QED
  BY <1>1, <1>2, <1>3, <1>4, Counters DEF TypeOK, serviceVars, blockVars

LEMMA StepTypeOK == TypeOK /\ [ShareNext]_shareVars => TypeOK'
<1> SUFFICES ASSUME TypeOK, [ShareNext]_shareVars
             PROVE  TypeOK'
  OBVIOUS
<1>1. ASSUME NEW ok \in BOOLEAN, ServiceStarts(ok)
      PROVE  TypeOK'
  BY <1>1, Counters DEF ServiceStarts, TypeOK, blockVars, windowVars
<1>2. CASE ServiceEnds
  <2>1. port' \in {"free", "service", "window"} /\ dead' \in BOOLEAN
    BY <1>2 DEF ServiceEnds, Holds, TypeOK
  <2>2. SegmentAfter(FALSE, reader) /\ reader \in BOOLEAN
    BY <1>2 DEF ServiceEnds, TypeOK
  <2>3. block' \in Readings \cup {Nothing} /\ fresh' \in BOOLEAN /\ leftover' \in BOOLEAN
    BY <2>2, SegmentType
  <2>4. QED
    BY <1>2, <2>1, <2>3 DEF ServiceEnds, TypeOK, windowVars
<1>3. ASSUME NEW due \in BOOLEAN, NEW ripe \in BOOLEAN, ServiceLoop(due, ripe)
      PROVE  TypeOK'
  BY <1>3, ServiceTypeOK
<1>4. CASE Age
  BY <1>4 DEF Age, TypeOK, serviceVars, windowVars
<1>5. CASE WindowOpens
  BY <1>5, Counters DEF WindowOpens, TypeOK, serviceVars, blockVars
<1>6. CASE SensorConnectClicked
  BY <1>6 DEF SensorConnectClicked, Holds, TypeOK, serviceVars, blockVars
<1>7. ASSUME NEW ripe \in BOOLEAN, WindowTick(ripe)
      PROVE  TypeOK'
  BY <1>7, WindowTypeOK
<1>8. CASE WindowCloses
  <2>1. port' \in {"free", "service", "window"} /\ dead' \in BOOLEAN
    BY <1>8 DEF WindowCloses, Holds, TypeOK
  <2>2. SegmentAfter(sharing, FALSE) /\ sharing \in BOOLEAN
    BY <1>8 DEF WindowCloses, TypeOK
  <2>3. block' \in Readings \cup {Nothing} /\ fresh' \in BOOLEAN /\ leftover' \in BOOLEAN
    BY <2>2, SegmentType
  <2>4. QED
    BY <1>8, <2>1, <2>3 DEF WindowCloses, TypeOK, serviceVars
<1>9. CASE RackChanges
  BY <1>9 DEF RackChanges, TypeOK, serviceVars, blockVars, windowVars
<1>10. CASE AdapterChanges
  BY <1>10 DEF AdapterChanges, TypeOK, serviceVars, blockVars, windowVars
<1>11. CASE UNCHANGED shareVars
  BY <1>11 DEF shareVars, TypeOK, serviceVars, blockVars, windowVars
<1>12. QED
  BY <1>1, <1>2, <1>3, <1>4, <1>5, <1>6, <1>7, <1>8, <1>9, <1>10, <1>11 DEF ShareNext

LEMMA StepFreshIsCurrent ==
  TypeOK /\ FreshIsCurrent /\ [ShareNext]_shareVars => FreshIsCurrent'
<1> SUFFICES ASSUME TypeOK, FreshIsCurrent, [ShareNext]_shareVars
             PROVE  FreshIsCurrent'
  OBVIOUS
<1>1. ASSUME NEW ok \in BOOLEAN, ServiceStarts(ok)
      PROVE  FreshIsCurrent'
  BY <1>1 DEF ServiceStarts, FreshIsCurrent
<1>2. CASE ServiceEnds
  BY <1>2 DEF ServiceEnds, FreshIsCurrent
<1>3. ASSUME NEW due \in BOOLEAN, NEW ripe \in BOOLEAN, ServiceLoop(due, ripe)
      PROVE  FreshIsCurrent'
  BY <1>3 DEF ServiceLoop, FreshIsCurrent, blockVars
<1>4. CASE Age
  BY <1>4 DEF Age, FreshIsCurrent
<1>5. ASSUME UNCHANGED <<serviceVars, blockVars>>
      PROVE  FreshIsCurrent'
  BY <1>5 DEF FreshIsCurrent, serviceVars, blockVars
<1>6. CASE WindowCloses
  BY <1>6 DEF WindowCloses, SegmentAfter, FreshIsCurrent, TypeOK, serviceVars
<1>7. QED
  BY <1>1, <1>2, <1>3, <1>4, <1>5, <1>6
  DEF ShareNext, shareVars, WindowOpens, SensorConnectClicked, WindowTick,
      RackChanges, AdapterChanges

(* Both processes' counters, the port, which at most one of them holds, and  *)
(* the readings keep their types, through crashes, restarts and lost ports.  *)
THEOREM ShareTypeCorrect == ShareSpec => []TypeOK
  BY InitTypeOK, StepTypeOK, PTL DEF ShareSpec

(* sensor_shared_open_writer() and sensor_shared_publish(): no heartbeat     *)
(* vouches for the readings of an earlier service.                           *)
THEOREM HeartbeatIsHonest == ShareSpec => []FreshIsCurrent
  BY InitTypeOK, StepTypeOK, StepFreshIsCurrent, PTL DEF ShareSpec
=============================================================================
