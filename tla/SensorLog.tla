----------------------------- MODULE SensorLog -----------------------------
(***************************************************************************)
(* sensor_log.c: the weekly log of the rack's temperatures.  The service   *)
(* of sensor_service.c and the window of main.c run the same code over the *)
(* same two files: the log itself, emptied once a week, and an .ini file   *)
(* with the time at which the week began, written in two halves.  Each     *)
(* process reads the .ini file when it starts and keeps its own copy of    *)
(* the time from then on.                                                  *)
(*                                                                         *)
(* Of the log only what its age needs is kept: when its first row was      *)
(* written.  Every access to a file is a step of its own, and a process    *)
(* may end between any two.                                                *)
(*                                                                         *)
(* A definition that no action uses, written just before the one it would  *)
(* replace, is a faulty variant of it: PROJECT.json names, under mutants,  *)
(* the property that notices the fault.                                    *)
(***************************************************************************)
EXTENDS Integers, Sequences

CONSTANTS
  WEEK,       \* SENSOR_LOG_WEEK_100NS
  ROW_TICKS,  \* SENSOR_LOG_INTERVAL_TICKS, 600 in the code
  HALF,       \* 2^32 in the code: what the low half of a time counts up to
  TIME_MOD,   \* 2^64 in the code: what a difference of times wraps at
  MaxTime,    \* bound: the clock stops here
  Never       \* no time

ASSUME LogAssumption ==
  /\ {WEEK, ROW_TICKS, HALF} \subseteq Nat \ {0}
  /\ MaxTime \in Nat
  /\ TIME_MOD \in Nat /\ MaxTime + HALF + WEEK <= TIME_MOD
  /\ Never \notin Int

Processes == {"service", "window"}
Times == 0..MaxTime
Halves == {"low", "high"}

VARIABLES
  now,      \* external: the clock
  held,     \* the log is open elsewhere: in the viewer, or in Excel
  log,      \* when the first row in the log was written, Never if it has none
  emptied,  \* history: when the log was last emptied
  ini,      \* WeekStartLow and WeekStartHigh, Never while missing
  pc,       \* where each process is: "down", "loading", "ready", "row"
  unsaved,  \* the halves of its week start each process has yet to write
  start,    \* g_sensor_log_week_start of each process
  count,    \* g_sensor_log_tick_counter of each process
  fresh,    \* the service's shared block is fresh (module SensorShare)
  mishaps   \* history: what has happened that the log is not made for

fileVars == <<held, log, emptied, ini>>
processVars == <<pc, unsaved, start, count>>
logVars == <<now, fileVars, processVars, fresh, mishaps>>

Mishaps == {"clock set back", "emptying refused", "rotation interrupted",
            "rotated beside another"}

Low(t) == t % HALF
High(t) == t \div HALF

Others(p) == Processes \ {p}
-----------------------------------------------------------------------------
LogInit ==
  /\ now \in Times
  /\ held = FALSE
  /\ log = Never
  /\ emptied = Never
  /\ ini = [h \in Halves |-> Never]
  /\ pc = [p \in Processes |-> "down"]
  /\ unsaved = [p \in Processes |-> <<>>]
  /\ start = [p \in Processes |-> 0]
  /\ count = [p \in Processes |-> 0]
  /\ fresh = FALSE
  /\ mishaps = {}

(* sensor_log_start_new_week() up to line 69: the log is emptied, unless it  *)
(* cannot be opened, and the week begins now.  The .ini file comes after.    *)
StartNewWeekUnsaved(p) ==
  /\ IF held THEN UNCHANGED <<log, emptied>> ELSE log' = Never /\ emptied' = now
  /\ start' = [start EXCEPT ![p] = now]
  /\ UNCHANGED unsaved
  /\ mishaps' = mishaps
                \cup (IF held THEN {"emptying refused"} ELSE {})
                \cup (IF \E q \in Others(p) : pc[q] # "down"
                      THEN {"rotated beside another"} ELSE {})
StartNewWeek(p) ==
  /\ IF held THEN UNCHANGED <<log, emptied>> ELSE log' = Never /\ emptied' = now
  /\ start' = [start EXCEPT ![p] = now]
  /\ unsaved' = [unsaved EXCEPT ![p] = <<"low", "high">>]
  /\ mishaps' = mishaps
                \cup (IF held THEN {"emptying refused"} ELSE {})
                \cup (IF \E q \in Others(p) : pc[q] # "down"
                      THEN {"rotated beside another"} ELSE {})

(* The two WritePrivateProfileStringA() of sensor_log_start_new_week(). *)
SaveHalf(p) ==
  /\ unsaved[p] # <<>>
  /\ ini' = [ini EXCEPT ![Head(unsaved[p])] =
               IF Head(unsaved[p]) = "low" THEN Low(start[p]) ELSE High(start[p])]
  /\ unsaved' = [unsaved EXCEPT ![p] = Tail(@)]
  /\ UNCHANGED <<now, held, log, emptied, pc, start, count, fresh, mishaps>>

(* sensor_log_load_state(), at the start of a process: without a saved high  *)
(* half a new week; otherwise the low half is read, then the high half.      *)
LoadState(p) ==
  /\ pc[p] = "down"
  /\ count' = [count EXCEPT ![p] = 0]
  /\ \/ /\ ini["high"] = Never
        /\ pc' = [pc EXCEPT ![p] = "ready"]
        /\ StartNewWeek(p)
     \/ /\ ini["high"] # Never
        /\ pc' = [pc EXCEPT ![p] = "loading"]
        /\ start' = [start EXCEPT ![p] = ini["low"]]
        /\ mishaps' = mishaps \cup (IF \E q \in Others(p) : unsaved[q] # <<>>
                                   THEN {"rotated beside another"} ELSE {})
        /\ UNCHANGED <<log, emptied, unsaved>>
  /\ UNCHANGED <<now, held, ini>>

LoadHighForgetful(p) ==
  /\ pc[p] = "loading"
  /\ start' = [start EXCEPT ![p] = now]
  /\ pc' = [pc EXCEPT ![p] = "ready"]
  /\ UNCHANGED <<now, fileVars, unsaved, count, fresh, mishaps>>
LoadHigh(p) ==
  /\ pc[p] = "loading"
  /\ start' = [start EXCEPT ![p] = ini["high"] * HALF + start[p]]
  /\ pc' = [pc EXCEPT ![p] = "ready"]
  /\ UNCHANGED <<now, fileVars, unsaved, count, fresh, mishaps>>

-----------------------------------------------------------------------------
(* The rotation check of sensor_log_tick(), in unsigned arithmetic. *)
Expired(p) == (now - start[p]) % TIME_MOD >= WEEK

(* The rest of sensor_log_tick(): every ROW_TICKS ticks a row is appended,   *)
(* unless the log cannot be opened.                                          *)
RowDue(p) == count[p] + 1 >= ROW_TICKS

CountAndAppend(p) ==
  /\ count' = [count EXCEPT ![p] = IF RowDue(p) THEN 0 ELSE @ + 1]
  /\ log' = IF RowDue(p) /\ ~held /\ log = Never THEN now ELSE log

(* The service logs whatever it has; the window only while it does not take  *)
(* its readings from the service.                                            *)
LogsLeftToService(p) == p = "service"
Logs(p) == p = "service" \/ ~fresh

(* sensor_log_tick() that rotates, and the rest of it; one that does not.    *)
TickRotates(p) ==
  /\ pc[p] = "ready" /\ unsaved[p] = <<>>
  /\ Logs(p)
  /\ Expired(p)
  /\ pc' = [pc EXCEPT ![p] = "row"]
  /\ StartNewWeek(p)
  /\ UNCHANGED <<now, held, ini, count, fresh>>

TickAppends(p) ==
  /\ pc[p] = "row" /\ unsaved[p] = <<>>
  /\ pc' = [pc EXCEPT ![p] = "ready"]
  /\ CountAndAppend(p)
  /\ UNCHANGED <<now, held, emptied, ini, unsaved, start, fresh, mishaps>>

TickOnly(p) ==
  /\ pc[p] = "ready" /\ unsaved[p] = <<>>
  /\ Logs(p)
  /\ ~Expired(p)
  /\ CountAndAppend(p)
  /\ UNCHANGED <<now, held, emptied, ini, pc, unsaved, start, fresh, mishaps>>

(* The process stops or crashes. *)
End(p) ==
  /\ pc[p] # "down"
  /\ pc' = [pc EXCEPT ![p] = "down"]
  /\ unsaved' = [unsaved EXCEPT ![p] = <<>>]
  /\ start' = [start EXCEPT ![p] = 0]
  /\ count' = [count EXCEPT ![p] = 0]
  /\ mishaps' = mishaps \cup (IF unsaved[p] # <<>> THEN {"rotation interrupted"} ELSE {})
  /\ UNCHANGED <<now, fileVars, fresh>>

-----------------------------------------------------------------------------
(* Around the log: the service publishes, or is gone for 5 s; the log is     *)
(* opened by a reader and closed again; the clock goes on, or is set back.   *)
(* A unit of the clock is minutes: no process is amid its file accesses for  *)
(* as long as that, though another may run, or it may end, between any two.  *)
Publish ==
  /\ pc["service"] = "ready" /\ unsaved["service"] = <<>>
  /\ fresh' = TRUE
  /\ UNCHANGED <<now, fileVars, processVars, mishaps>>

Stale ==
  /\ pc["service"] = "down"
  /\ fresh' = FALSE
  /\ UNCHANGED <<now, fileVars, processVars, mishaps>>

Hold ==
  /\ held' = ~held
  /\ UNCHANGED <<now, log, emptied, ini, processVars, fresh, mishaps>>

Clock ==
  /\ now < MaxTime
  /\ \A p \in Processes : pc[p] \in {"down", "ready"} /\ unsaved[p] = <<>>
  /\ now' = now + 1
  /\ UNCHANGED <<fileVars, processVars, fresh, mishaps>>

SetBack ==
  /\ "clock set back" \notin mishaps
  /\ now' \in 0 .. now - 1
  /\ mishaps' = mishaps \cup {"clock set back"}
  /\ UNCHANGED <<fileVars, processVars, fresh>>

(* A process starts; a service that starts clears the block. *)
Starts(p) ==
  /\ LoadState(p)
  /\ fresh' = (fresh /\ p = "window")

Runs(p) ==
  \/ SaveHalf(p)
  \/ LoadHigh(p)
  \/ TickRotates(p)
  \/ TickAppends(p)
  \/ TickOnly(p)

LogNext ==
  \/ \E p \in Processes : Starts(p) \/ Runs(p) \/ End(p)
  \/ Publish \/ Stale \/ Hold \/ Clock \/ SetBack

(* The loop and the timer run on while their process does. *)
LogFairness == WF_logVars(Stale) /\ \A p \in Processes : WF_logVars(Runs(p))

LogSpec == LogInit /\ [][LogNext]_logVars /\ LogFairness

-----------------------------------------------------------------------------
LogTypeOK ==
  /\ now \in Times
  /\ held \in BOOLEAN /\ fresh \in BOOLEAN
  /\ log \in Times \cup {Never}
  /\ emptied \in Times \cup {Never}
  /\ ini \in [Halves -> Times \cup {Never}]
  /\ pc \in [Processes -> {"down", "loading", "ready", "row"}]
  /\ unsaved \in [Processes -> {<<>>, <<"high">>, <<"low", "high">>}]
  /\ start \in [Processes -> Nat]
  /\ count \in [Processes -> 0 .. ROW_TICKS - 1]
  /\ mishaps \subseteq Mishaps

(* "a restart mid-week doesn't lose it" (sensor_log_start_new_week), nor     *)
(* does the log grow without end: after a tick of either process, no row in  *)
(* it is older than a week, but for the 7 minutes that HALF stands for, as   *)
(* long as the clock was not set back and the log could be emptied.          *)
LogIsAWeekDeep ==
  [][\A p \in Processes :
       /\ TickOnly(p)
       /\ mishaps \cap {"clock set back", "emptying refused"} = {}
       /\ log # Never
       => now - log < WEEK + HALF]_logVars

(* Rows are deleted once a week, however often the process that logs is      *)
(* restarted, as long as the clock was not set back, no rotation was         *)
(* interrupted and none happened while another process had the old time.     *)
EmptiedWeekly ==
  [][mishaps \subseteq {"emptying refused"} /\ log # Never /\ log' = Never
       => emptied = Never \/ now - emptied >= WEEK]_logVars

(* Somebody always logs: the service while it runs, and the window while     *)
(* there is no service.                                                      *)
CountsOn(p) == []<>(count[p] = 0) /\ []<>(count[p] = ROW_TICKS - 1)
SomebodyLogs ==
  /\ <>[](pc["service"] # "down") => CountsOn("service")
  /\ <>[](pc["service"] = "down" /\ pc["window"] # "down") => CountsOn("window")
=============================================================================
