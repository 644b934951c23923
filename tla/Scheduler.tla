------------------------------ MODULE Scheduler ------------------------------
(***************************************************************************)
(* The loop of the backend process: fetch the scheduled processes that are *)
(* due, call them one by one, run the persistent clients (MQTT, InfluxDB)  *)
(* and restart when the clients' settings changed. Meanwhile, in the web   *)
(* process, the administrator saves settings: the save of a service's      *)
(* settings (de)activates and replans its process (the post_save hooks of  *)
(* the admin modules), that of a client's settings asks for a restart.     *)
(*                                                                         *)
(* A service is reduced to how it ends: what it does to its own schedule,  *)
(* and whether it raises. It reads its settings when it starts.            *)
(***************************************************************************)
EXTENDS Integers, FiniteSets

CONSTANTS
    Processes,      \* the rows of dsmr_backend_scheduledprocess
    Nobody,         \* no process
    Dropbox,        \* those that ask for a long delay, or give up, and raise
    PVOutput,       \* those that may return without rescheduling
    Interval,       \* what a service asks for when all went well
    ErrorDelay,     \* execute_scheduled_processes(): 30 seconds
    LongDelay,      \* DSMRREADER_DROPBOX_ERROR_INTERVAL
    LastTick,       \* bound on the clock
    MaxSaves,       \* bound on the saves in the admin, of each kind
    MaxCrashes      \* bound on the crashes

ASSUME SchedulerAssumption ==
    /\ Nobody \notin Processes
    /\ Dropbox \subseteq Processes
    /\ PVOutput \subseteq Processes
    /\ Interval \in Nat \ {0}
    /\ ErrorDelay \in Nat \ {0}
    /\ LongDelay \in Nat \ {0}
    /\ LastTick \in Nat
    /\ MaxSaves \in Nat
    /\ MaxCrashes \in Nat

VARIABLES
    clock,
    planned,        \* ScheduledProcess.planned
    active,         \* ScheduledProcess.active
    setting,        \* the service's settings: a version of them, 0 when off
    pc,             \* where the backend is in its loop
    calls,          \* what is left of the result of ready()
    running,        \* the process being executed
    sees,           \* the settings that it read
    failedAt,       \* history: when its last call raised or was killed, -1 if it
                    \* did neither, was called again or had its settings saved
    killed,         \* history: those whose process died in that call, before
                    \* the exception was handled
    clients,        \* the clients' settings: a version of them
    loaded,         \* the version the backend's clients were made with
    saving,         \* clients' settings saved, the restart not asked for yet
    restartRequired,
    crashes

planVars == <<planned, active, setting>>
callVars == <<calls, running, sees>>
failureVars == <<failedAt, killed>>
clientVars == <<clients, saving>>
vars == <<clock, planVars, pc, callVars, failureVars, clientVars, loaded,
          restartRequired, crashes>>

Called == {"service", "refused", "raised"}

Locations == Called \union {"fetch", "loop", "clients", "check", "stop", "down"}

TypeOK ==
    /\ clock \in Nat
    /\ planned \in [Processes -> Nat]
    /\ active \in [Processes -> BOOLEAN]
    /\ setting \in [Processes -> Nat]
    /\ pc \in Locations
    /\ calls \subseteq Processes
    /\ pc \notin Called \union {"loop"} => calls = {}
    /\ IF pc \in Called THEN running \in Processes ELSE running = Nobody
    /\ sees \in Nat
    /\ failedAt \in [Processes -> Int]
    /\ killed \subseteq Processes
    /\ clients \in Nat
    /\ loaded \in Nat
    /\ saving \in BOOLEAN
    /\ restartRequired \in BOOLEAN
    /\ crashes \in Nat

Init ==
    /\ clock = 0
    /\ planned = [p \in Processes |-> 0]
    /\ setting \in [Processes -> {0, 1}]
    /\ active = [p \in Processes |-> setting[p] # 0]
    /\ pc = "down"
    /\ calls = {}
    /\ running = Nobody
    /\ sees = 0
    /\ failedAt = [p \in Processes |-> -1]
    /\ killed = {}
    /\ clients = 1
    /\ loaded = 0
    /\ saving = FALSE
    /\ restartRequired = FALSE
    /\ crashes = 0

Tick ==
    /\ clock < LastTick
    /\ clock' = clock + 1
    /\ UNCHANGED <<planVars, pc, callVars, failureVars, clientVars, loaded, restartRequired, crashes>>

\* History: the last failure of a process no longer counts.
Settle(p) ==
    /\ failedAt' = [failedAt EXCEPT ![p] = -1]
    /\ killed' = killed \ {p}

-----------------------------------------------------------------------------
(***************************************************************************)
(* The web process.                                                        *)
(***************************************************************************)

\* handle_*_settings_update(): the process is (de)activated and due at once.
SaveSetting(p, v) ==
    /\ v <= MaxSaves
    /\ v # setting[p]
    /\ v # 0 => v > setting[p]
    /\ setting' = [setting EXCEPT ![p] = v]
    /\ active' = [active EXCEPT ![p] = (v # 0)]
    /\ planned' = [planned EXCEPT ![p] = clock]
    /\ Settle(p)
    /\ UNCHANGED <<clock, pc, callVars, clientVars, loaded, restartRequired, crashes>>

SaveClients ==
    /\ ~saving
    /\ clients < MaxSaves
    /\ clients' = clients + 1
    /\ saving' = TRUE
    /\ UNCHANGED <<clock, planVars, pc, callVars, failureVars, loaded, restartRequired, crashes>>

\* The backend_restart_required signal.
RequireRestart ==
    /\ saving
    /\ saving' = FALSE
    /\ restartRequired' = TRUE
    /\ UNCHANGED <<clock, planVars, pc, callVars, failureVars, clients, loaded, crashes>>

-----------------------------------------------------------------------------
(***************************************************************************)
(* The backend process.                                                    *)
(***************************************************************************)

Due(p) == active[p] /\ planned[p] <= clock

\* execute_scheduled_processes(): the result of ready() is fetched once.
Fetch ==
    /\ pc = "fetch"
    /\ calls' = {p \in Processes : Due(p)}
    /\ pc' = "loop"
    /\ UNCHANGED <<clock, planVars, running, sees, failureVars, clientVars, loaded, restartRequired, crashes>>

Execute(p) ==
    /\ pc = "loop"
    /\ p \in calls
    /\ calls' = calls \ {p}
    /\ running' = p
    /\ sees' = setting[p]
    /\ pc' = "service"
    /\ Settle(p)
    /\ UNCHANGED <<clock, planVars, clientVars, loaded, restartRequired, crashes>>

AllCalled ==
    /\ pc = "loop"
    /\ calls = {}
    /\ pc' = "clients"
    /\ UNCHANGED <<clock, planVars, callVars, failureVars, clientVars, loaded, restartRequired, crashes>>

Return ==
    /\ pc' = "loop"
    /\ running' = Nobody
    /\ UNCHANGED <<clock, calls, sees, failureVars, clientVars, loaded, restartRequired, crashes>>

Raise ==
    /\ pc' = "raised"
    /\ failedAt' = [failedAt EXCEPT ![running] = clock]
    /\ UNCHANGED <<clock, callVars, killed, clientVars, loaded, restartRequired, crashes>>

Serving == pc = "service"

Delay(p, ticks) == planned' = [planned EXCEPT ![p] = clock + ticks]

\* Switched off: the fallback in the services themselves.
Disable ==
    /\ Serving
    /\ sees = 0
    /\ active' = [active EXCEPT ![running] = FALSE]
    /\ UNCHANGED <<planned, setting>>
    /\ Return

\* Fault: save() of the whole row, as it was fetched, not of its planned column.
Succeed_SavesRow ==
    /\ Serving
    /\ sees # 0
    /\ Delay(running, Interval)
    /\ active' = [active EXCEPT ![running] = TRUE]
    /\ UNCHANGED setting
    /\ Return

Succeed ==
    /\ Serving
    /\ sees # 0
    /\ Delay(running, Interval)
    /\ UNCHANGED <<active, setting>>
    /\ Return

\* dsmr_pvoutput: data that is not in sync yet is tried again in the next cycle.
NotInSync ==
    /\ Serving
    /\ sees # 0
    /\ running \in PVOutput
    /\ UNCHANGED planVars
    /\ Return

\* dsmr_dropbox, when its space is insufficient.
AskLongDelayAndRaise ==
    /\ Serving
    /\ sees # 0
    /\ running \in Dropbox
    /\ Delay(running, LongDelay)
    /\ UNCHANGED <<active, setting>>
    /\ Raise

\* dsmr_dropbox, when its credentials are refused: they are removed, without
\* the hook that would deactivate the process, which is a commit of its own.
RemoveCredentials ==
    /\ Serving
    /\ sees # 0
    /\ running \in Dropbox
    /\ setting' = [setting EXCEPT ![running] = 0]
    /\ pc' = "refused"
    /\ UNCHANGED <<clock, planned, active, callVars, failureVars, clientVars, loaded,
                    restartRequired, crashes>>

DisableAndRaise ==
    /\ pc = "refused"
    /\ active' = [active EXCEPT ![running] = FALSE]
    /\ UNCHANGED <<planned, setting>>
    /\ Raise

\* Fault: the exception of a service ends the loop.
Fail_EndsLoop ==
    /\ Serving
    /\ sees # 0
    /\ pc' = "down"
    /\ calls' = {}
    /\ running' = Nobody
    /\ UNCHANGED <<clock, planVars, sees, failureVars, clientVars, loaded, restartRequired, crashes>>

Fail ==
    /\ Serving
    /\ sees # 0
    /\ UNCHANGED planVars
    /\ Raise

\* Fault: the process stays due.
Handle_Immediately ==
    /\ pc = "raised"
    /\ Delay(running, 0)
    /\ UNCHANGED <<active, setting>>
    /\ Return

\* "Do not hammer."
Handle ==
    /\ pc = "raised"
    /\ Delay(running, ErrorDelay)
    /\ UNCHANGED <<active, setting>>
    /\ Return

\* dispatch_signals() and persistent_clients.run(): both send_robust().
RunClients ==
    /\ pc = "clients"
    /\ pc' = "check"
    /\ UNCHANGED <<clock, planVars, callVars, failureVars, clientVars, loaded, restartRequired, crashes>>

\* _check_restart_required(): the flag is read, then cleared.
CheckRestart ==
    /\ pc = "check"
    /\ pc' = IF restartRequired THEN "stop" ELSE "fetch"
    /\ UNCHANGED <<clock, planVars, callVars, failureVars, clientVars, loaded, restartRequired, crashes>>

\* Fault: StopInfiniteRun is taken for any other exception.
ClearAndStop_Continues ==
    /\ pc = "stop"
    /\ restartRequired' = FALSE
    /\ pc' = "fetch"
    /\ UNCHANGED <<clock, planVars, callVars, failureVars, clientVars, loaded, crashes>>

ClearAndStop ==
    /\ pc = "stop"
    /\ restartRequired' = FALSE
    /\ pc' = "down"
    /\ UNCHANGED <<clock, planVars, callVars, failureVars, clientVars, loaded, crashes>>

\* Supervisor starts the process: initialize().
Boot ==
    /\ pc = "down"
    /\ loaded' = clients
    /\ pc' = "fetch"
    /\ UNCHANGED <<clock, planVars, callVars, failureVars, clientVars, restartRequired, crashes>>

\* Killed, or an error outside a service, of which run_once() stops the process.
Crash ==
    /\ pc # "down"
    /\ crashes < MaxCrashes
    /\ crashes' = crashes + 1
    /\ pc' = "down"
    /\ calls' = {}
    /\ running' = Nobody
    /\ IF pc \in Called
         THEN /\ failedAt' = [failedAt EXCEPT ![running] = clock]
              /\ killed' = killed \union {running}
         ELSE UNCHANGED failureVars
    /\ UNCHANGED <<clock, planVars, sees, clientVars, loaded, restartRequired>>

Backend ==
    \/ Fetch
    \/ \E p \in Processes : Execute(p)
    \/ AllCalled
    \/ Disable
    \/ Succeed
    \/ NotInSync
    \/ AskLongDelayAndRaise
    \/ RemoveCredentials
    \/ DisableAndRaise
    \/ Fail
    \/ Handle
    \/ RunClients
    \/ CheckRestart
    \/ ClearAndStop
    \/ Boot

Next ==
    \/ Tick
    \/ \E p \in Processes, v \in 0..MaxSaves : SaveSetting(p, v)
    \/ SaveClients
    \/ RequireRestart
    \/ Backend
    \/ Crash

Spec == Init /\ [][Next]_vars

\* The backend's loop goes on, and comes back when its process ends: services
\* have timeouts, and supervisor restarts the process.
FairSpec == Spec /\ WF_vars(Backend) /\ WF_vars(Tick) /\ WF_vars(RequireRestart)

-----------------------------------------------------------------------------
(***************************************************************************)
(* What the scheduler promises.                                            *)
(***************************************************************************)

\* A process that is switched off stays off: apart from a call that was fetched
\* before, it is inactive, although the backend keeps saving the row that it
\* fetched while it was still on. The exception is Dropbox between the two commits
\* that remove its credentials and deactivate it: after a crash just there, its
\* next call deactivates it.
SwitchedOffIsInactive ==
    \A p \in Processes :
        setting[p] = 0 /\ active[p] =>
            p \in Dropbox /\ (crashes > 0 \/ (running = p /\ pc = "refused"))

\* The backend never keeps running with clients made from old settings: if they
\* are, a restart is asked for, or about to be, or already going on, however the
\* save, the reading and the clearing of restart_required interleave.
StaleClientsRestart ==
    loaded # clients => saving \/ restartRequired \/ pc = "down"

\* A process whose call raised is left alone for the delay after it ("Do not
\* hammer"), counted from the raise: whatever its service did to its plan before,
\* although the handler plans it in a step of its own, and through the restarts and
\* the crashes of the backend in other calls. Two exceptions: its settings are
\* saved meanwhile, which makes it due, and the backend died in that very call,
\* before the exception was handled: nothing of the failure is saved then, and a
\* process that was due is called again as soon as the backend is back.
FailureBacksOff ==
    [][\A p \in Processes :
           running' = p /\ running # p /\ failedAt[p] >= 0 /\ p \notin killed
               => clock >= failedAt[p] + ErrorDelay]_vars

\* Every process that is due is executed, or switched off, although others keep
\* failing and the backend restarts.
DueIsExecuted ==
    \A p \in Processes : Due(p) ~> (running = p \/ ~active[p])
===============================================================================
