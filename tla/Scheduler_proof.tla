---------------------------- MODULE Scheduler_proof ----------------------------
(***************************************************************************)
(* Proofs about the scheduler, for any set of processes, any delays and    *)
(* any number of saves and crashes.                                        *)
(***************************************************************************)
EXTENDS Scheduler, TLAPS

\* Every step keeps the types. A step of the backend that ends a call leaves
\* nobody running, and each of its steps outside a call has nothing to call.
LEMMA TypeOKStep == TypeOK /\ [Next]_vars => TypeOK'
<1> SUFFICES ASSUME TypeOK, [Next]_vars PROVE TypeOK'
  OBVIOUS
<1> USE SchedulerAssumption DEF failureVars
<1>1. CASE Tick
  BY <1>1 DEF TypeOK, Tick, planVars, callVars, clientVars, Locations, Called
<1>2. ASSUME NEW p \in Processes, NEW v \in 0..MaxSaves, SaveSetting(p, v)
      PROVE TypeOK'
  <2>1. /\ setting' \in [Processes -> Nat]
        /\ planned' \in [Processes -> Nat]
    BY <1>2 DEF TypeOK, SaveSetting
  <2>2. active' \in [Processes -> BOOLEAN]
    <3>1. (v # 0) \in BOOLEAN
      OBVIOUS
    <3> QED
      BY <1>2, <3>1 DEF TypeOK, SaveSetting
  <2>3. /\ failedAt' \in [Processes -> Int]
        /\ killed' \subseteq Processes
    BY <1>2 DEF TypeOK, SaveSetting, Settle
  <2> QED
    BY <1>2, <2>1, <2>2, <2>3 DEF TypeOK, SaveSetting, callVars, clientVars, Locations, Called
<1>3. CASE SaveClients
  <2>1. clients' \in Nat
    BY <1>3 DEF TypeOK, SaveClients
  <2>2. saving' \in BOOLEAN
    BY <1>3, Zenon DEF SaveClients
  <2> QED
    BY <1>3, <2>1, <2>2, Zenon DEF TypeOK, SaveClients, planVars, callVars
<1>12. CASE RequireRestart
  <2>1. saving' \in BOOLEAN /\ restartRequired' \in BOOLEAN
    BY <1>12, Zenon DEF RequireRestart
  <2> QED
    BY <1>12, <2>1, Zenon DEF TypeOK, RequireRestart, planVars, callVars
<1>4. CASE Fetch \/ AllCalled
  BY <1>4 DEF TypeOK, Fetch, AllCalled, planVars, callVars, clientVars, Locations, Called
<1>15. ASSUME NEW p \in Processes, Execute(p) PROVE TypeOK'
  <2>1. failedAt' \in [Processes -> Int] /\ killed' \subseteq Processes
    BY <1>15 DEF TypeOK, Execute, Settle
  <2> QED
    BY <1>15, <2>1 DEF TypeOK, Execute, planVars, clientVars, Locations, Called
<1>5. ASSUME Serving \/ pc \in Called, NEW d \in Nat, Delay(running, d)
      PROVE planned' \in [Processes -> Nat]
  <2>1. clock + d \in Nat
    BY DEF TypeOK
  <2> QED
    BY <1>5, <2>1 DEF TypeOK, Delay
<1>16. ASSUME pc \in Called, failedAt' = [failedAt EXCEPT ![running] = clock]
       PROVE failedAt' \in [Processes -> Int]
  <2>1. clock \in Int /\ failedAt \in [Processes -> Int]
    BY DEF TypeOK
  <2> QED
    BY <1>16, <2>1
<1>6. CASE Disable \/ Succeed \/ NotInSync \/ AskLongDelayAndRaise \/ Fail
  <2>7. Serving /\ pc \in Called
    BY <1>6 DEF Disable, Succeed, NotInSync, AskLongDelayAndRaise, Fail, Serving, Called
  <2>1. running \in Processes
    BY <2>7 DEF TypeOK
  <2>2. CASE Disable
    BY <2>1, <2>2 DEF TypeOK, Disable, Return, clientVars, Locations, Called
  <2>3. CASE Succeed
    <3>1. planned' \in [Processes -> Nat]
      BY <1>5, <2>7, <2>3, SchedulerAssumption DEF Succeed
    <3> QED
      BY <2>1, <2>3, <3>1 DEF TypeOK, Succeed, Delay, Return, clientVars, Locations, Called
  <2>4. CASE NotInSync
    BY <2>1, <2>4 DEF TypeOK, NotInSync, Return, planVars, clientVars, Locations, Called
  <2>5. CASE AskLongDelayAndRaise
    <3>1. planned' \in [Processes -> Nat]
      BY <1>5, <2>7, <2>5, SchedulerAssumption DEF AskLongDelayAndRaise
    <3>2. failedAt' \in [Processes -> Int]
      BY <1>16, <2>5, <2>7 DEF AskLongDelayAndRaise, Raise
    <3>3. UNCHANGED <<active, setting, clock, calls, running, sees, killed, clients, saving,
                      loaded, restartRequired, crashes>>
      BY <2>5 DEF AskLongDelayAndRaise, Raise, callVars, clientVars
    <3>4. pc' = "raised"
      BY <2>5 DEF AskLongDelayAndRaise, Raise
    <3> QED
      BY <2>7, <3>1, <3>2, <3>3, <3>4 DEF TypeOK, Locations, Called
  <2>6. CASE Fail
    <3>1. failedAt' \in [Processes -> Int]
      BY <1>16, <2>6, <2>7 DEF Fail, Raise
    <3> QED
      BY <2>1, <2>6, <3>1 DEF TypeOK, Fail, Raise, planVars, callVars, clientVars, Locations, Called
  <2> QED
    BY <1>6, <2>2, <2>3, <2>4, <2>5, <2>6
<1>13. CASE DisableAndRaise
  <2>1. pc \in Called /\ failedAt' = [failedAt EXCEPT ![running] = clock]
    BY <1>13 DEF DisableAndRaise, Raise, Called
  <2>2. failedAt' \in [Processes -> Int]
    BY <1>16, <2>1
  <2> QED
    BY <1>13, <2>1, <2>2
       DEF TypeOK, DisableAndRaise, Raise, callVars, clientVars, Locations, Called
<1>7. CASE RemoveCredentials
  BY <1>7 DEF TypeOK, RemoveCredentials, Serving, callVars, clientVars, Locations, Called
<1>8. CASE Handle
  <2>1. planned' \in [Processes -> Nat]
    BY <1>5, <1>8 DEF Handle, Called
  <2>2. UNCHANGED <<active, setting, clock, calls, sees, failedAt, killed, clients, saving,
                    loaded, crashes>>
    BY <1>8 DEF Handle, Return, clientVars
  <2>3. pc' = "loop" /\ running' = Nobody /\ restartRequired' = restartRequired
    BY <1>8 DEF Handle, Return
  <2> QED
    BY <2>1, <2>2, <2>3 DEF TypeOK, Locations, Called
<1>9. CASE RunClients \/ CheckRestart \/ ClearAndStop \/ Boot
  BY <1>9 DEF TypeOK, RunClients, CheckRestart, ClearAndStop, Boot, planVars, callVars,
              clientVars, Locations, Called
<1>10. CASE Crash
  <2>1. failedAt' \in [Processes -> Int] /\ killed' \subseteq Processes
    <3>1. CASE pc \in Called
      <4>1. failedAt' = [failedAt EXCEPT ![running] = clock] /\ killed' = killed \union {running}
        BY <1>10, <3>1 DEF Crash
      <4> QED
        BY <1>16, <3>1, <4>1 DEF TypeOK
    <3>2. CASE pc \notin Called
      BY <1>10, <3>2 DEF Crash, TypeOK
    <3> QED
      BY <3>1, <3>2
  <2>2. UNCHANGED <<clock, planned, active, setting, sees, clients, saving, loaded,
                    restartRequired>>
    BY <1>10 DEF Crash, planVars, clientVars
  <2>3. pc' = "down" /\ calls' = {} /\ running' = Nobody /\ crashes' = crashes + 1
    BY <1>10 DEF Crash
  <2> QED
    BY <2>1, <2>2, <2>3 DEF TypeOK, Locations, Called
<1>11. CASE UNCHANGED vars
  BY <1>11 DEF TypeOK, vars, planVars, callVars, clientVars
<1>14. CASE Backend
  BY <1>4, <1>6, <1>7, <1>8, <1>9, <1>13, <1>14, <1>15, Zenon DEF Backend
<1> QED
  BY <1>1, <1>2, <1>3, <1>10, <1>11, <1>12, <1>14 DEF Next

\* The initial states have the types.
LEMMA SchedulerTypeInit == Init => TypeOK
<1> SUFFICES ASSUME Init PROVE TypeOK
  OBVIOUS
<1>1. setting \in [Processes -> Nat]
  BY DEF Init
<1>4. active \in [Processes -> BOOLEAN]
  BY Zenon DEF Init
<1>2. /\ saving \in BOOLEAN
      /\ restartRequired \in BOOLEAN
  BY Zenon DEF Init
<1>3. /\ planned \in [Processes -> Nat]
      /\ failedAt \in [Processes -> Int]
      /\ killed \subseteq Processes
  BY DEF Init
<1> QED
  BY <1>1, <1>2, <1>3, <1>4 DEF Init, TypeOK, Locations, Called

\* The state of the scheduler always has its type: among others, there is one
\* process running exactly while a service is called.
THEOREM SchedulerTypeCorrect == Spec => []TypeOK
  BY SchedulerTypeInit, TypeOKStep, PTL DEF Spec

\* A process that is switched off is inactive, but for Dropbox between its two
\* commits and after a crash there: the columns that the backend saves are never
\* those that the admin decides on.
THEOREM SwitchedOff == Spec => []SwitchedOffIsInactive
<1>1. Init => SwitchedOffIsInactive
  BY DEF Init, SwitchedOffIsInactive
<1>2. TypeOK /\ SwitchedOffIsInactive /\ [Next]_vars => SwitchedOffIsInactive'
  <2> SUFFICES ASSUME TypeOK, SwitchedOffIsInactive, [Next]_vars,
                      NEW q \in Processes, setting'[q] = 0, active'[q]
               PROVE q \in Dropbox /\ (crashes' > 0 \/ (running' = q /\ pc' = "refused"))
    BY DEF SwitchedOffIsInactive
  <2> USE DEF SwitchedOffIsInactive
  <2>1. CASE UNCHANGED <<setting, active, crashes, running, pc>>
    BY <2>1
  <2>2. ASSUME NEW p \in Processes, NEW v \in 0..MaxSaves, SaveSetting(p, v)
        PROVE q \in Dropbox /\ (crashes' > 0 \/ (running' = q /\ pc' = "refused"))
    BY <2>2 DEF SaveSetting, callVars, TypeOK
  <2>3. CASE RemoveCredentials
    BY <2>3 DEF RemoveCredentials, Serving, callVars, TypeOK
  <2>4. CASE DisableAndRaise \/ Disable
    BY <2>4 DEF DisableAndRaise, Disable, Serving, Raise, Return, callVars, TypeOK
  <2>5. CASE Crash
    BY <2>5 DEF Crash, planVars, TypeOK
  <2>6. CASE Succeed \/ NotInSync
    BY <2>6 DEF Succeed, NotInSync, Serving, Return, planVars, TypeOK
  <2>7. CASE AskLongDelayAndRaise \/ Fail
    BY <2>7 DEF AskLongDelayAndRaise, Fail, Serving, Raise, planVars, callVars
  <2>8. CASE Handle
    BY <2>8 DEF Handle, Return
  <2>9. CASE Fetch \/ AllCalled \/ \E p \in Processes : Execute(p)
    BY <2>9 DEF Fetch, AllCalled, Execute, planVars, callVars
  <2>10. CASE RunClients \/ CheckRestart \/ ClearAndStop \/ Boot
    BY <2>10 DEF RunClients, CheckRestart, ClearAndStop, Boot, planVars, callVars
  <2>11. CASE Tick \/ SaveClients \/ RequireRestart \/ UNCHANGED vars
    BY <2>1, <2>11 DEF Tick, SaveClients, RequireRestart, vars, planVars, callVars
  <2> QED
    BY <2>2, <2>3, <2>4, <2>5, <2>6, <2>7, <2>8, <2>9, <2>10, <2>11, Zenon DEF Next, Backend
<1> QED
  BY <1>1, <1>2, SchedulerTypeCorrect, PTL DEF Spec

\* The backend is never left running with clients made from old settings.
THEOREM StaleClients == Spec => []StaleClientsRestart
<1>1. Init => StaleClientsRestart
  BY DEF Init, StaleClientsRestart
<1>2. StaleClientsRestart /\ [Next]_vars => StaleClientsRestart'
  <2> SUFFICES ASSUME StaleClientsRestart, [Next]_vars PROVE StaleClientsRestart'
    OBVIOUS
  <2> USE DEF StaleClientsRestart
  <2>1. CASE SaveClients \/ RequireRestart
    BY <2>1, Zenon DEF SaveClients, RequireRestart
  <2>2. CASE ClearAndStop \/ Boot \/ Crash
    BY <2>2 DEF ClearAndStop, Boot, Crash, clientVars
  <2>3. CASE /\ pc # "down"
             /\ UNCHANGED <<loaded, clients, saving, restartRequired>>
    BY <2>3
  <2>4. CASE UNCHANGED <<loaded, clients, saving, restartRequired, pc>>
    BY <2>4
  <2>5. CASE Tick \/ UNCHANGED vars \/ \E p \in Processes, v \in 0..MaxSaves : SaveSetting(p, v)
    BY <2>4, <2>5 DEF Tick, SaveSetting, vars, clientVars
  <2>6. CASE Fetch \/ AllCalled \/ RunClients \/ CheckRestart \/ \E p \in Processes : Execute(p)
    BY <2>3, <2>6 DEF Fetch, AllCalled, RunClients, CheckRestart, Execute, clientVars
  <2>7. CASE Disable \/ Succeed \/ NotInSync \/ Handle
    BY <2>3, <2>7 DEF Disable, Succeed, NotInSync, Handle, Serving, Return, clientVars
  <2>8. CASE AskLongDelayAndRaise \/ RemoveCredentials \/ DisableAndRaise \/ Fail
    BY <2>3, <2>8 DEF AskLongDelayAndRaise, RemoveCredentials, DisableAndRaise, Fail, Serving,
                      Raise, clientVars
  <2> QED
    BY <2>1, <2>2, <2>5, <2>6, <2>7, <2>8 DEF Next, Backend
<1> QED
  BY <1>1, <1>2, PTL DEF Spec

(***************************************************************************)
(* A call settles the failure before it, so a process has failed since its *)
(* last call or not at all. Once the exception is handled it is planned    *)
(* after the delay, and what is fetched was due after it. The running      *)
(* process is not called again in the same loop.                           *)
(***************************************************************************)
Failed(p) == failedAt[p] >= 0 /\ p \notin killed

CallSettles == pc \in {"service", "refused"} => failedAt[running] = -1

FailedInThePast == \A p \in Processes : failedAt[p] <= clock

PlannedAfterDelay ==
    \A p \in Processes :
        Failed(p) => (pc = "raised" /\ running = p) \/ planned[p] >= failedAt[p] + ErrorDelay

CalledAfterDelay ==
    \A p \in calls : Failed(p) => clock >= failedAt[p] + ErrorDelay

BackoffInv ==
    /\ TypeOK
    /\ running \notin calls
    /\ CallSettles
    /\ FailedInThePast
    /\ PlannedAfterDelay
    /\ CalledAfterDelay

\* The steps of a call change no other process's plan or failure. They plan the
\* process before it failed, record that it fails, or handle the failure.
LEMMA BackoffServing ==
    ASSUME BackoffInv, pc \in Called,
           \/ Disable \/ Succeed \/ NotInSync \/ AskLongDelayAndRaise
           \/ RemoveCredentials \/ DisableAndRaise \/ Fail \/ Handle
    PROVE  /\ running' \notin calls'
           /\ CallSettles'
           /\ FailedInThePast'
           /\ PlannedAfterDelay'
           /\ CalledAfterDelay'
<1> USE SchedulerAssumption DEF BackoffInv, failureVars
<1>1. /\ running \in Processes
      /\ running \notin calls
      /\ calls \subseteq Processes
      /\ clock \in Nat
      /\ planned \in [Processes -> Nat]
      /\ failedAt \in [Processes -> Int]
  BY DEF TypeOK
<1>2. /\ clock' = clock
      /\ calls' = calls
      /\ killed' = killed
      /\ running' \in {running, Nobody}
      /\ \A p \in Processes \ {running} : planned'[p] = planned[p]
  BY <1>1 DEF Disable, Succeed, NotInSync, AskLongDelayAndRaise, RemoveCredentials,
              DisableAndRaise, Fail, Handle, Delay, Return, Raise, planVars, callVars
<1>3. CASE Disable \/ Succeed \/ NotInSync \/ RemoveCredentials
  <2>1. failedAt' = failedAt /\ failedAt[running] = -1
    BY <1>3 DEF Disable, Succeed, NotInSync, RemoveCredentials, Serving, Return, CallSettles
  <2>2. pc' \in {"loop", "refused"} /\ (pc' = "refused" => running' = running)
    BY <1>3 DEF Disable, Succeed, NotInSync, RemoveCredentials, Return, callVars
  <2>3. pc = "service"
    BY <1>3 DEF Disable, Succeed, NotInSync, RemoveCredentials, Serving
  <2>4. CallSettles' /\ FailedInThePast' /\ CalledAfterDelay'
    BY <1>1, <1>2, <2>1, <2>2 DEF CallSettles, FailedInThePast, CalledAfterDelay, Failed
  <2>5. PlannedAfterDelay'
    BY <1>1, <1>2, <2>1, <2>3 DEF PlannedAfterDelay, Failed
  <2> QED
    BY <1>1, <1>2, <2>4, <2>5
<1>4. CASE AskLongDelayAndRaise \/ DisableAndRaise \/ Fail
  <2>1. /\ failedAt' = [failedAt EXCEPT ![running] = clock]
        /\ pc' = "raised"
        /\ running' = running
    BY <1>4 DEF AskLongDelayAndRaise, DisableAndRaise, Fail, Raise, callVars
  <2>2. pc # "raised"
    BY <1>4 DEF AskLongDelayAndRaise, DisableAndRaise, Fail, Serving
  <2>3. CallSettles' /\ FailedInThePast' /\ CalledAfterDelay'
    BY <1>1, <1>2, <2>1 DEF CallSettles, FailedInThePast, CalledAfterDelay, Failed
  <2>4. PlannedAfterDelay'
    BY <1>1, <1>2, <2>1, <2>2 DEF PlannedAfterDelay, Failed
  <2> QED
    BY <1>1, <1>2, <2>1, <2>3, <2>4
<1>5. CASE Handle
  <2>1. /\ planned' = [planned EXCEPT ![running] = clock + ErrorDelay]
        /\ failedAt' = failedAt
        /\ pc' = "loop"
        /\ running' = Nobody
    BY <1>5 DEF Handle, Delay, Return
  <2>2. CallSettles' /\ FailedInThePast' /\ CalledAfterDelay'
    BY <1>1, <1>2, <2>1 DEF CallSettles, FailedInThePast, CalledAfterDelay, Failed
  <2>3. ASSUME NEW p \in Processes, Failed(p)
        PROVE planned'[p] >= failedAt[p] + ErrorDelay
    <3>1. CASE p = running
      <4>1. planned'[p] = clock + ErrorDelay
        BY <1>1, <2>1, <3>1
      <4> QED
        BY <1>1, <4>1 DEF FailedInThePast
    <3>2. CASE p # running
      BY <1>1, <1>2, <2>3, <3>2 DEF PlannedAfterDelay
    <3> QED
      BY <3>1, <3>2
  <2>4. PlannedAfterDelay'
    BY <1>2, <2>1, <2>3 DEF PlannedAfterDelay, Failed
  <2> QED
    BY <1>1, <1>2, <2>1, <2>2, <2>4
<1> QED
  BY <1>3, <1>4, <1>5

\* Every step keeps the invariant.
LEMMA BackoffStep == BackoffInv /\ [Next]_vars => BackoffInv'
<1> SUFFICES ASSUME BackoffInv, [Next]_vars
             PROVE /\ running' \notin calls'
                   /\ CallSettles'
                   /\ FailedInThePast'
                   /\ PlannedAfterDelay'
                   /\ CalledAfterDelay'
  BY TypeOKStep DEF BackoffInv
<1> USE SchedulerAssumption DEF BackoffInv, failureVars
<1>1. /\ calls \subseteq Processes
      /\ clock \in Nat
      /\ planned \in [Processes -> Nat]
      /\ failedAt \in [Processes -> Int]
      /\ running \in Processes \/ running = Nobody
      /\ pc \notin Called => running = Nobody
      /\ pc \in Called => running \in Processes
  BY DEF TypeOK
<1>2. CASE /\ clock' >= clock
           /\ clock' \in Nat
           /\ UNCHANGED <<pc, calls, running, planned, failedAt, killed>>
  <2>1. CallSettles' /\ FailedInThePast'
    BY <1>1, <1>2 DEF CallSettles, FailedInThePast
  <2>2. CalledAfterDelay'
    BY <1>1, <1>2 DEF CalledAfterDelay, Failed
  <2>3. PlannedAfterDelay'
    BY <1>2 DEF PlannedAfterDelay, Failed
  <2> QED
    BY <1>2, <2>1, <2>2, <2>3
<1>3. CASE Tick \/ SaveClients \/ RequireRestart \/ UNCHANGED vars
  BY <1>1, <1>2, <1>3 DEF Tick, SaveClients, RequireRestart, vars, planVars, callVars
<1>4. CASE AllCalled \/ RunClients \/ CheckRestart \/ ClearAndStop \/ Boot
  <2>1. /\ UNCHANGED <<calls, clock, running, planned, failedAt, killed>>
        /\ pc \notin Called
        /\ pc' \notin Called
    BY <1>4 DEF AllCalled, RunClients, CheckRestart, ClearAndStop, Boot, planVars, callVars, Called
  <2> QED
    BY <1>1, <2>1
       DEF CallSettles, FailedInThePast, PlannedAfterDelay, CalledAfterDelay, Failed, Called
<1>9. CASE Crash
  <2>1. /\ UNCHANGED <<clock, planned>>
        /\ calls' = {}
        /\ running' = Nobody
        /\ pc' = "down"
    BY <1>9 DEF Crash, planVars
  <2>2. CASE pc \in Called
    <3>1. /\ failedAt' = [failedAt EXCEPT ![running] = clock]
          /\ killed' = killed \union {running}
      BY <1>9, <2>2 DEF Crash
    <3> QED
      BY <1>1, <2>1, <2>2, <3>1
         DEF CallSettles, FailedInThePast, PlannedAfterDelay, CalledAfterDelay, Failed
  <2>3. CASE pc \notin Called
    <3>1. UNCHANGED <<failedAt, killed>>
      BY <1>9, <2>3 DEF Crash
    <3> QED
      BY <1>1, <2>1, <2>3, <3>1
         DEF CallSettles, FailedInThePast, PlannedAfterDelay, CalledAfterDelay, Failed, Called
  <2> QED
    BY <2>2, <2>3
<1>5. ASSUME NEW q \in Processes, NEW v \in 0..MaxSaves, SaveSetting(q, v)
      PROVE /\ running' \notin calls'
            /\ CallSettles'
            /\ FailedInThePast'
            /\ PlannedAfterDelay'
            /\ CalledAfterDelay'
  <2>1. /\ UNCHANGED <<pc, calls, running, clock>>
        /\ failedAt' = [failedAt EXCEPT ![q] = -1]
        /\ killed' = killed \ {q}
        /\ planned' = [planned EXCEPT ![q] = clock]
    BY <1>5 DEF SaveSetting, Settle, callVars
  <2>2. CallSettles' /\ FailedInThePast'
    BY <1>1, <2>1 DEF CallSettles, FailedInThePast, Called
  <2>3. PlannedAfterDelay' /\ CalledAfterDelay'
    BY <1>1, <2>1 DEF PlannedAfterDelay, CalledAfterDelay, Failed
  <2> QED
    BY <2>1, <2>2, <2>3
<1>6. CASE Fetch
  <2>1. /\ calls' = {p \in Processes : Due(p)}
        /\ UNCHANGED <<clock, planned, failedAt, killed, running>>
        /\ running = Nobody
        /\ pc = "fetch" /\ pc' = "loop"
    BY <1>1, <1>6 DEF Fetch, planVars, Called
  <2>2. CalledAfterDelay'
    BY <1>1, <2>1 DEF CalledAfterDelay, PlannedAfterDelay, Failed, Due
  <2> QED
    BY <2>1, <2>2 DEF CallSettles, FailedInThePast, PlannedAfterDelay, Failed
<1>7. ASSUME NEW q \in Processes, Execute(q)
      PROVE /\ running' \notin calls'
            /\ CallSettles'
            /\ FailedInThePast'
            /\ PlannedAfterDelay'
            /\ CalledAfterDelay'
  <2>1. /\ UNCHANGED <<clock, planned>>
        /\ calls' = calls \ {q}
        /\ running' = q
        /\ pc = "loop" /\ pc' = "service"
        /\ failedAt' = [failedAt EXCEPT ![q] = -1]
        /\ killed' = killed \ {q}
    BY <1>7 DEF Execute, Settle, planVars
  <2>2. CallSettles' /\ FailedInThePast'
    BY <1>1, <2>1 DEF CallSettles, FailedInThePast
  <2>3. PlannedAfterDelay' /\ CalledAfterDelay'
    BY <1>1, <2>1 DEF PlannedAfterDelay, CalledAfterDelay, Failed
  <2> QED
    BY <2>1, <2>2, <2>3
<1>8. CASE \/ Disable \/ Succeed \/ NotInSync \/ AskLongDelayAndRaise
           \/ RemoveCredentials \/ DisableAndRaise \/ Fail \/ Handle
  <2>1. pc \in Called
    BY <1>8 DEF Disable, Succeed, NotInSync, AskLongDelayAndRaise, RemoveCredentials,
                DisableAndRaise, Fail, Handle, Serving, Called
  <2> QED
    BY <1>8, <2>1, BackoffServing
<1> QED
  BY <1>3, <1>4, <1>5, <1>6, <1>7, <1>8, <1>9, Zenon DEF Next, Backend

\* A process whose call raised is called again only after the delay, counted from
\* the raise, for any delays, saves and crashes (run Scheduler, FailureBacksOff).
\* The exceptions are those of the property: its settings were saved, or the
\* backend died in that call before the exception was handled.
THEOREM FailureBackoff == Spec => FailureBacksOff
<1>1. Init => BackoffInv
  <2> SUFFICES ASSUME Init PROVE BackoffInv
    OBVIOUS
  <2>1. TypeOK
    BY SchedulerTypeInit
  <2>2. running = Nobody /\ calls = {} /\ pc = "down" /\ clock = 0
    BY DEF Init
  <2>3. \A p \in Processes : failedAt[p] = -1
    BY DEF Init
  <2> QED
    BY <2>1, <2>2, <2>3, SchedulerAssumption
       DEF BackoffInv, CallSettles, FailedInThePast, PlannedAfterDelay, CalledAfterDelay, Failed
<1>2. BackoffInv /\ [Next]_vars
        => [\A p \in Processes :
               running' = p /\ running # p /\ failedAt[p] >= 0 /\ p \notin killed
                   => clock >= failedAt[p] + ErrorDelay]_vars
  <2> SUFFICES ASSUME BackoffInv, [Next]_vars,
                      NEW p \in Processes, running' = p, running # p,
                      failedAt[p] >= 0, p \notin killed
               PROVE clock >= failedAt[p] + ErrorDelay
    BY Zenon
  <2>1. p \in calls
    BY SchedulerAssumption
       DEF Next, Backend, Tick, SaveSetting, SaveClients, RequireRestart, Fetch, Execute, AllCalled,
           Disable, Succeed, NotInSync, AskLongDelayAndRaise, RemoveCredentials, DisableAndRaise,
           Fail, Handle, RunClients, CheckRestart, ClearAndStop, Boot, Crash, Return, Raise,
           callVars, vars
  <2> QED
    BY <2>1 DEF BackoffInv, CalledAfterDelay, Failed
<1> QED
  BY <1>1, <1>2, BackoffStep, PTL DEF Spec, FailureBacksOff
===============================================================================
