---------------------------- MODULE SensorShare ----------------------------
(***************************************************************************)
(* Two processes around one sensor port: the service of sensor_service.c,  *)
(* and the window of main.c.  The port can be open in one of them only.    *)
(* The service publishes its readings in a shared block (sensor_shared.c), *)
(* with a heartbeat; the window copies the block while the heartbeat is    *)
(* fresh and polls the port itself while it is not.  What the window has   *)
(* at the end is what check_kill_switch() looks at (module Console).       *)
(*                                                                         *)
(* One iteration of the service's loop and the sensor part of one WM_TIMER *)
(* are one action each: the header accepts a block torn between two        *)
(* publishes, and no property here is about one.  The units of the rack    *)
(* are one here; module SensorBus has them apart, and sensor_poll() in     *)
(* full.  Here a poll either gets somewhere (ripe) or waits.               *)
(*                                                                         *)
(* A definition that no action uses, written just before the one it would  *)
(* replace, is a faulty variant of it: PROJECT.json names, under mutants,  *)
(* the property that notices the fault.                                    *)
(***************************************************************************)
EXTENDS Naturals

CONSTANTS
  Readings,      \* what the units can measure
  PublishEvery,  \* iterations from publish to publish, 10 in the code
  OpenEvery,     \* ticks between two tries to open the block, 10 in the code
  Nothing        \* no reading

ASSUME ShareAssumption ==
  /\ PublishEvery \in Nat \ {0}
  /\ OpenEvery \in Nat \ {0}
  /\ Nothing \notin Readings

VARIABLES
  rack,      \* external: what the units would answer now
  adapter,   \* external: the USB adapter is plugged in
  port,      \* who has it open: "service", "window", or "free"
  dead,      \* the adapter was pulled out under the handle that is open
  up,        \* the service runs
  sharing,   \* have_shared, while it runs
  loops,     \* publish_counter
  service,   \* the service's sensor.units
  block,     \* the readings in the shared block
  fresh,     \* the heartbeat is at most SENSOR_SHARED_FRESH_MS old
  leftover,  \* history: the readings in the block are an earlier service's
  open,      \* the window is open
  reader,    \* g_sensor_shared.mapping is not NULL
  tries,     \* retry_counter
  window     \* the window's g_sensor.units

blockVars == <<block, fresh, leftover>>
serviceVars == <<up, sharing, loops, service>>
windowVars == <<open, reader, tries, window>>
shareVars == <<rack, adapter, port, dead, serviceVars, blockVars, windowVars>>

-----------------------------------------------------------------------------
ShareInit ==
  /\ rack \in Readings
  /\ adapter \in BOOLEAN
  /\ port = "free"
  /\ dead = FALSE
  /\ up = FALSE /\ sharing = FALSE /\ loops = 0 /\ service = Nothing
  /\ block = Nothing /\ fresh = FALSE /\ leftover = FALSE
  /\ open = FALSE /\ reader = FALSE /\ tries = 0 /\ window = Nothing

(* sensor_connect() succeeds. *)
CanOpen == port = "free" /\ adapter

(* sensor_poll(), as far as one process sees it: a handle that is dead is    *)
(* closed and the readings forgotten; otherwise an answer is stored.         *)
SensorPollHoldsOn(me, data, ripe) ==
  CASE port # me \/ ~ripe -> [port |-> port, data |-> data]
    [] port = me /\ ripe /\ dead -> [port |-> port, data |-> Nothing]
    [] OTHER -> [port |-> port, data |-> rack]
SensorPoll(me, data, ripe) ==
  CASE port # me \/ ~ripe -> [port |-> port, data |-> data]
    [] port = me /\ ripe /\ dead -> [port |-> "free", data |-> Nothing]
    [] OTHER -> [port |-> port, data |-> rack]

Holds(polled) ==
  /\ port' = polled.port
  /\ dead' = (dead /\ polled.port # "free")

-----------------------------------------------------------------------------
(* sensor_shared_open_writer() and the start of run_sensor_loop(). *)
ServiceStartsOver(ok) ==
  /\ ~up
  /\ up' = TRUE
  /\ sharing' = ok
  /\ loops' = 0
  /\ service' = Nothing
  /\ UNCHANGED <<rack, adapter, port, dead, blockVars, windowVars>>
ServiceStarts(ok) ==
  /\ ~up
  /\ up' = TRUE
  /\ sharing' = ok
  /\ loops' = 0
  /\ service' = Nothing
  /\ IF ok THEN block' = Nothing /\ fresh' = FALSE /\ leftover' = FALSE
           ELSE UNCHANGED blockVars
  /\ UNCHANGED <<rack, adapter, port, dead, windowVars>>

(* The segment goes with the last handle to it. *)
SegmentAfter(shared, read) ==
  IF shared \/ read
  THEN /\ leftover' = (leftover \/ ~shared)
       /\ UNCHANGED <<block, fresh>>
  ELSE block' = Nothing /\ fresh' = FALSE /\ leftover' = FALSE

(* The service is stopped or crashes: either way its handles are closed and  *)
(* the last block stays as it is.                                            *)
ServiceEnds ==
  /\ up
  /\ up' = FALSE
  /\ sharing' = FALSE
  /\ service' = Nothing
  /\ Holds([port |-> IF port = "service" THEN "free" ELSE port])
  /\ SegmentAfter(FALSE, reader)
  /\ UNCHANGED <<rack, adapter, loops, windowVars>>

(* The retry of run_sensor_loop(): due says that 5 s have passed. *)
Opens(due) == due /\ CanOpen

NextLoop == (loops + 1) % PublishEvery

(* The port is opened, or polled; every PublishEvery iterations the block is *)
(* written, with or without a port.                                          *)
ServiceLoop(due, ripe) ==
  LET polled == IF Opens(due) THEN [port |-> "service", data |-> Nothing]
                ELSE SensorPoll("service", service, ripe) IN
  /\ up
  /\ Holds(polled)
  /\ service' = polled.data
  /\ loops' = IF sharing THEN NextLoop ELSE loops
  /\ IF sharing /\ NextLoop = 0
     THEN block' = polled.data /\ fresh' = TRUE /\ leftover' = FALSE
     ELSE UNCHANGED blockVars
  /\ UNCHANGED <<rack, adapter, up, sharing, windowVars>>

(* 5 s without a publish.  A service that runs publishes every second. *)
Age ==
  /\ fresh
  /\ ~sharing
  /\ fresh' = FALSE
  /\ UNCHANGED <<rack, adapter, port, dead, serviceVars, block, leftover, windowVars>>

-----------------------------------------------------------------------------
(* WM_CREATE. *)
WindowOpens ==
  /\ ~open
  /\ open' = TRUE
  /\ reader' = sharing
  /\ tries' = 0
  /\ window' = Nothing
  /\ UNCHANGED <<rack, adapter, port, dead, serviceVars, blockVars>>

(* The Connect button of the sensors; auto_connect_sensor_on_startup() is a  *)
(* click on it while disconnected.                                           *)
SensorConnectClicked ==
  /\ open
  /\ \/ /\ port = "window"
        /\ Holds([port |-> "free"])
        /\ window' = Nothing
     \/ /\ CanOpen
        /\ Holds([port |-> "window"])
        /\ window' = Nothing
  /\ UNCHANGED <<rack, adapter, serviceVars, blockVars, open, reader, tries>>

(* The sensor part of WM_TIMER: sensor_shared_open_reader() every OpenEvery  *)
(* ticks, then sensor_shared_read_if_fresh() or sensor_poll().               *)
NextTry == (tries + 1) % OpenEvery

OpensReaderAtStartOnly == reader
OpensReader == reader \/ (NextTry = 0 /\ sharing)

UsesBlockWhateverItsAge(opened) == opened
UsesBlock(opened) == opened /\ fresh

WindowTick(ripe) ==
  LET polled == IF UsesBlock(OpensReader) THEN [port |-> port, data |-> block]
                ELSE SensorPoll("window", window, ripe) IN
  /\ open
  /\ reader' = OpensReader
  /\ tries' = IF reader THEN tries ELSE NextTry
  /\ Holds(polled)
  /\ window' = polled.data
  /\ UNCHANGED <<rack, adapter, serviceVars, blockVars, open>>

(* WM_DESTROY. *)
WindowCloses ==
  /\ open
  /\ open' = FALSE
  /\ reader' = FALSE
  /\ window' = Nothing
  /\ Holds([port |-> IF port = "window" THEN "free" ELSE port])
  /\ SegmentAfter(sharing, FALSE)
  /\ UNCHANGED <<rack, adapter, serviceVars, tries>>

-----------------------------------------------------------------------------
(* The rack warms up or cools down; the adapter is pulled out or plugged in. *)
RackChanges ==
  /\ rack' \in Readings \ {rack}
  /\ UNCHANGED <<adapter, port, dead, serviceVars, blockVars, windowVars>>

AdapterChanges ==
  /\ adapter' = ~adapter
  /\ dead' = (dead \/ (adapter /\ port # "free"))
  /\ UNCHANGED <<rack, port, serviceVars, blockVars, windowVars>>

ShareNext ==
  \/ \E ok \in BOOLEAN : ServiceStarts(ok)
  \/ ServiceEnds
  \/ \E due, ripe \in BOOLEAN : ServiceLoop(due, ripe)
  \/ Age
  \/ WindowOpens
  \/ SensorConnectClicked
  \/ \E ripe \in BOOLEAN : WindowTick(ripe)
  \/ WindowCloses
  \/ RackChanges
  \/ AdapterChanges

(* The loop and the timer run on while their process does, and time passes;  *)
(* nobody has to start, stop, click or plug in anything.                     *)
ShareSpec ==
  /\ ShareInit
  /\ [][ShareNext]_shareVars
  /\ WF_shareVars(ServiceLoop(TRUE, TRUE))
  /\ WF_shareVars(WindowTick(TRUE))
  /\ WF_shareVars(Age)

-----------------------------------------------------------------------------
TypeOK ==
  /\ rack \in Readings
  /\ port \in {"free", "service", "window"}
  /\ {adapter, dead, up, sharing, fresh, leftover, open, reader} \subseteq BOOLEAN
  /\ loops \in 0 .. PublishEvery - 1
  /\ tries \in 0 .. OpenEvery - 1
  /\ {service, block, window} \subseteq Readings \cup {Nothing}

(* What a heartbeat vouches for is this service's: while one runs, the       *)
(* window never copies the readings that an earlier one left in the block.   *)
FreshIsCurrent == sharing /\ fresh => ~leftover

(* The kill switch sees the rack through the service, whichever process was  *)
(* started first: if from some time on the service keeps the port and the    *)
(* window is open, then the window's readings settle at what the units       *)
(* measure.                                                                  *)
SeenThroughService ==
  \A r \in Readings :
    <>[](port = "service" /\ ~dead /\ sharing /\ open /\ rack = r) => <>[](window = r)

(* Without a service, in particular after a crash of it, a window that has   *)
(* the port open polls it: the frozen block is not believed for long.        *)
SeenDirectly ==
  \A r \in Readings :
    <>[](port = "window" /\ ~dead /\ ~up /\ rack = r) => <>[](window = r)

(* The service gets its port back, after any time without one or against a   *)
(* dead handle, once the adapter is there and the window leaves the port.    *)
ServiceReopens ==
  <>[](up /\ adapter /\ port # "window") => <>[](port = "service" /\ ~dead)

-----------------------------------------------------------------------------
(* "falls back to polling the port itself - better than showing frozen       *)
(* last-known values with no indication they've stopped updating"            *)
(* (sensor_shared.h): in a window that stays without a fresh block and       *)
(* without the port, the readings do not stay.                               *)
NothingFrozen ==
  open /\ ~fresh /\ port # "window" ~> window = Nothing \/ fresh \/ port = "window"
=============================================================================
