--------------------------- MODULE SensorService ---------------------------
(***************************************************************************)
(* sensor_service.c around its loop: how the service is installed,         *)
(* started, stopped and removed through Windows' service control manager,  *)
(* composed with what its loop does to the log (SensorLog, to which the    *)
(* window is the other party).                                             *)
(*                                                                         *)
(* Two threads share g_status and g_stop_event: service_main(), which runs *)
(* the loop, and the dispatcher's, which calls service_ctrl_handler().     *)
(* What the manager is told last is what it believes.                      *)
(*                                                                         *)
(* A definition that no action uses, written just before the one it would  *)
(* replace, is a faulty variant of it: PROJECT.json names, under mutants,  *)
(* the property that notices the fault.                                    *)
(***************************************************************************)
EXTENDS SensorLog

VARIABLES
  installed,  \* "no", "yes", or "marked": to be deleted once it is stopped
  status,     \* what the manager was told last, or found out by itself
  main,       \* service_main(): "none", "starting", "looping", "leaving", or
              \* "returned", without a word, into a process that is still there
  handler,    \* what service_ctrl_handler() has left to do
  signalled   \* g_stop_event is set

controlVars == <<installed, status, main, handler, signalled>>
serviceVars == <<logVars, controlVars>>

-----------------------------------------------------------------------------
ServiceInit ==
  /\ LogInit
  /\ installed = "no"
  /\ status = "stopped"
  /\ main = "none"
  /\ handler = <<>>
  /\ signalled = FALSE

(* A service marked for deletion goes once it has stopped. *)
Remaining == IF installed = "marked" THEN "no" ELSE installed

(* The manager starts the process: at boot, by hand, or for do_install(). *)
Launched ==
  /\ status' = "start pending"
  /\ main' = "starting"
  /\ handler' = <<>>
  /\ signalled' = FALSE

StartService ==
  /\ installed = "yes"
  /\ status = "stopped"
  /\ Launched
  /\ UNCHANGED <<logVars, installed>>

(* do_install(): creates and starts; one that exists is left as it is. *)
Install ==
  /\ installed = "no"
  /\ installed' = "yes"
  /\ \/ Launched
     \/ UNCHANGED <<status, main, handler, signalled>>
  /\ UNCHANGED logVars

(* service_main() up to the loop.  Without a handle to report with it just    *)
(* returns: nobody is told, and the dispatcher keeps the process.  Without    *)
(* an event it reports that it has stopped.  Otherwise it says that it runs, *)
(* and run_sensor_loop() loads the state of the log.                         *)
MainUnregistered ==
  /\ main = "starting"
  /\ status = "start pending"
  /\ main' = "returned"
  /\ UNCHANGED <<logVars, installed, status, handler, signalled>>

MainGivesUp ==
  /\ main = "starting"
  /\ status = "start pending"
  /\ main' = "none"
  /\ status' = "stopped"
  /\ installed' = Remaining
  /\ UNCHANGED <<logVars, handler, signalled>>

MainReportsRunning ==
  /\ main = "starting"
  /\ status = "start pending"
  /\ status' = "running"
  /\ UNCHANGED <<logVars, installed, main, handler, signalled>>

MainEntersLoop ==
  /\ main = "starting"
  /\ status # "start pending"
  /\ Starts("service")
  /\ main' = "looping"
  /\ UNCHANGED <<installed, status, handler, signalled>>

(* run_sensor_loop() sees the event between two iterations, and returns.     *)
MainLeavesLoop ==
  /\ main = "looping"
  /\ signalled
  /\ pc["service"] = "ready" /\ unsaved["service"] = <<>>
  /\ End("service")
  /\ main' = "leaving"
  /\ UNCHANGED <<installed, status, handler, signalled>>

(* The end of service_main(). *)
MainReportsStopped ==
  /\ main = "leaving"
  /\ main' = "none"
  /\ status' = "stopped"
  /\ installed' = Remaining
  /\ UNCHANGED <<logVars, handler, signalled>>

-----------------------------------------------------------------------------
(* service_ctrl_handler(): first the report, then the event.  The manager     *)
(* passes on nothing else before it has returned.                            *)
HandlerSignalsFirst == <<"signal", "report">>
HandlerOnlyReports == <<"report">>
HandlerCode == <<"report", "signal">>

HandlerStep ==
  /\ handler # <<>>
  /\ handler' = Tail(handler)
  /\ IF Head(handler) = "report"
     THEN status' = "stop pending" /\ UNCHANGED signalled
     ELSE signalled' = TRUE /\ UNCHANGED status
  /\ UNCHANGED <<logVars, installed, main>>

(* The manager passes a stop on to a service that said it runs: for a user,  *)
(* at shutdown, or for do_uninstall().                                       *)
StopService ==
  /\ status = "running" /\ handler = <<>>
  /\ handler' = HandlerCode
  /\ UNCHANGED <<logVars, installed, status, main, signalled>>

(* do_uninstall(): whatever became of the stop, the service is deleted: at   *)
(* once if it has stopped, and else when it will.                            *)
Uninstall ==
  /\ installed = "yes"
  /\ installed' = IF status = "stopped" THEN "no" ELSE "marked"
  /\ handler' = IF status = "running" /\ handler = <<>> THEN HandlerCode ELSE handler
  /\ UNCHANGED <<logVars, status, main, signalled>>

(* The process dies; the manager notices. *)
ServiceCrash ==
  /\ main # "none"
  /\ main' = "none"
  /\ status' = "stopped"
  /\ handler' = <<>>
  /\ installed' = Remaining
  /\ IF pc["service"] = "down" THEN UNCHANGED logVars ELSE End("service")
  /\ UNCHANGED signalled

-----------------------------------------------------------------------------
Control ==
  \/ StartService
  \/ Install
  \/ StopService
  \/ Uninstall
  \/ ServiceCrash

MainSteps ==
  \/ MainUnregistered
  \/ MainGivesUp
  \/ MainReportsRunning
  \/ MainEntersLoop
  \/ MainLeavesLoop
  \/ MainReportsStopped

ServiceNext ==
  \/ Control
  \/ MainSteps
  \/ HandlerStep
  \/ /\ \/ Starts("window") \/ End("window")
        \/ \E p \in Processes : Runs(p)
        \/ Publish \/ Stale \/ Hold \/ Clock \/ SetBack
     /\ UNCHANGED controlVars

(* Each thread goes on; nobody has to start, stop or remove anything. *)
LoopGoesOn(p) == Runs(p) /\ UNCHANGED controlVars

ServiceFairness ==
  /\ WF_serviceVars(MainSteps)
  /\ WF_serviceVars(HandlerStep)
  /\ WF_serviceVars(Stale /\ UNCHANGED controlVars)
  /\ \A p \in Processes : WF_serviceVars(LoopGoesOn(p))

ServiceSpec == ServiceInit /\ [][ServiceNext]_serviceVars /\ ServiceFairness

-----------------------------------------------------------------------------
ServiceTypeOK ==
  /\ LogTypeOK
  /\ installed \in {"no", "yes", "marked"}
  /\ status \in {"stopped", "start pending", "running", "stop pending"}
  /\ main \in {"none", "starting", "looping", "leaving", "returned"}
  /\ handler \in Seq({"report", "signal"})
  /\ signalled \in BOOLEAN

(* What the manager believes is so, however the reports of the two threads   *)
(* fall: it takes the service for stopped just when service_main() has said  *)
(* so or the process has died, and while the loop writes to the log it takes *)
(* it for running or stopping.  Excepted by name is the return that reports  *)
(* nothing: there is no service any more, and the manager takes it for one   *)
(* that is starting until the process dies, but never for a running one.     *)
StatusIsTrue ==
  /\ status = "stopped" <=> main = "none"
  /\ main = "returned" => status = "start pending"
  /\ pc["service"] # "down" => status \in {"running", "stop pending"}

(* A stop is obeyed, with what remains of the loop's iteration first.        *)
StopIsObeyed == status = "stop pending" ~> status = "stopped"
=============================================================================
