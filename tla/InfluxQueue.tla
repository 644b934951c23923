----------------------------- MODULE InfluxQueue -----------------------------
(***************************************************************************)
(* The outgoing InfluxDB measurements (dsmr_influxdb.services). A reading  *)
(* is queued as several measurements, one commit each, by the process that *)
(* created it. The backend's client writes the newest ones, deletes each   *)
(* of them whether it was written or not, and purges the rest. The client  *)
(* exists only if it could be made when the backend started.               *)
(***************************************************************************)
EXTENDS Integers, FiniteSets

CONSTANTS
    Sections,           \* the measurements that a reading is mapped to
    MaxInQueue,         \* DSMRREADER_INFLUXDB_MAX_MEASUREMENTS_IN_QUEUE
    MayFailToConnect,   \* may InfluxDB be away when the backend starts?
    MaxMeasurements,    \* bound on the measurements: then no more readings
    MaxSaves,           \* bound on the saves of the settings
    MaxCrashes          \* bound on the crashes of the backend

ASSUME InfluxQueueAssumption ==
    /\ Sections \in Nat \ {0}
    /\ MaxInQueue \in Nat \ {0}
    /\ MayFailToConnect \in BOOLEAN
    /\ MaxMeasurements \in Nat
    /\ MaxSaves \in Nat
    /\ MaxCrashes \in Nat

VARIABLES
    queue,      \* the primary keys in dsmr_influxdb_influxdbmeasurement
    nextPk,
    toCreate,   \* the measurements of the latest reading still to be created
    enabled,    \* InfluxdbIntegrationSettings.enabled
    restart,    \* BackendSettings.restart_required
    pc,         \* where the backend is
    hasClient,  \* whether it has an InfluxDB client
    batch,      \* selection: what run() fetched and did not delete
    known,      \* history: the queue at the latest selection
    attempts,   \* history: how often a measurement was sent
    saves,
    crashes

writerVars == <<nextPk, toCreate>>
settingsVars == <<enabled, restart, saves>>
runVars == <<batch, known>>
vars == <<queue, writerVars, settingsVars, pc, hasClient, runVars, attempts, crashes>>

Pks == 1..(MaxMeasurements + Sections)

TypeOK ==
    /\ queue \subseteq Pks
    /\ nextPk \in Nat \ {0}
    /\ toCreate \in 0..Sections
    /\ enabled \in BOOLEAN
    /\ restart \in BOOLEAN
    /\ pc \in {"down", "ready", "write", "delete", "purge", "check"}
    /\ pc \in {"write", "delete", "purge"} => hasClient
    /\ hasClient \in BOOLEAN
    /\ batch \subseteq queue
    /\ pc \in {"write", "delete"} <=> batch # {}
    /\ known \subseteq Pks
    /\ attempts \in [Pks -> Nat]
    /\ saves \in Nat
    /\ crashes \in Nat

Init ==
    /\ queue = {}
    /\ nextPk = 1
    /\ toCreate = 0
    /\ enabled \in BOOLEAN
    /\ restart = FALSE
    /\ pc = "down"
    /\ hasClient = FALSE
    /\ batch = {}
    /\ known = {}
    /\ attempts = [k \in Pks |-> 0]
    /\ saves = 0
    /\ crashes = 0

-----------------------------------------------------------------------------
\* publish_dsmr_reading(): the settings are read once per reading.
StartReading ==
    /\ toCreate = 0
    /\ enabled
    /\ nextPk <= MaxMeasurements
    /\ toCreate' = Sections
    /\ UNCHANGED <<queue, nextPk, settingsVars, pc, hasClient, runVars, attempts, crashes>>

CreateMeasurement ==
    /\ toCreate > 0
    /\ queue' = queue \union {nextPk}
    /\ nextPk' = nextPk + 1
    /\ toCreate' = toCreate - 1
    /\ UNCHANGED <<settingsVars, pc, hasClient, runVars, attempts, crashes>>

\* The administrator saves the settings, which asks for a restart.
SaveSettings ==
    /\ saves < MaxSaves
    /\ saves' = saves + 1
    /\ enabled' \in BOOLEAN
    /\ restart' = TRUE
    /\ UNCHANGED <<queue, writerVars, pc, hasClient, runVars, attempts, crashes>>

-----------------------------------------------------------------------------
(***************************************************************************)
(* initialize_client(), when the backend starts.                           *)
(***************************************************************************)

StartWith(client) ==
    /\ pc = "down"
    /\ hasClient' = client
    /\ pc' = "ready"
    /\ UNCHANGED <<queue, writerVars, restart, saves, runVars, attempts, crashes>>

Connect ==
    /\ enabled
    /\ StartWith(TRUE)
    /\ UNCHANGED enabled

StartDisabled ==
    /\ ~enabled
    /\ StartWith(FALSE)
    /\ UNCHANGED enabled

\* InfluxDB cannot be reached: nothing but the log tells.
FailToConnect ==
    /\ MayFailToConnect
    /\ enabled
    /\ StartWith(FALSE)
    /\ UNCHANGED enabled

\* The bucket cannot be created: the integration is disabled.
FailToCreateBucket ==
    /\ MayFailToConnect
    /\ enabled
    /\ enabled' = FALSE
    /\ StartWith(FALSE)

-----------------------------------------------------------------------------
(***************************************************************************)
(* run(), in the backend's loop.                                           *)
(***************************************************************************)

\* Fault: the oldest ones.
Newest_Oldest(S) == {k \in S : Cardinality({n \in S : n < k}) < MaxInQueue}

\* order_by("-pk")[0:MaxInQueue]
Newest(S) == {k \in S : Cardinality({n \in S : n > k}) < MaxInQueue}

Select ==
    /\ pc = "ready"
    /\ hasClient
    /\ batch' = Newest(queue)
    /\ known' = queue
    /\ pc' = IF queue = {} THEN "check" ELSE "write"
    /\ UNCHANGED <<queue, writerVars, settingsVars, hasClient, attempts, crashes>>

NoClient ==
    /\ pc = "ready"
    /\ ~hasClient
    /\ pc' = "check"
    /\ UNCHANGED <<queue, writerVars, settingsVars, hasClient, runVars, attempts, crashes>>

Current(k) == k \in batch /\ \A n \in batch : n <= k

\* Fault: an error of InfluxDB leaves run().
Write_Raises(k) ==
    /\ pc = "write"
    /\ Current(k)
    /\ batch' = {}
    /\ pc' = "check"
    /\ UNCHANGED <<queue, writerVars, settingsVars, hasClient, known, attempts, crashes>>

\* An error is logged; what follows is the same.
Write(k) ==
    /\ pc = "write"
    /\ Current(k)
    /\ attempts' = [attempts EXCEPT ![k] = @ + 1]
    /\ pc' = "delete"
    /\ UNCHANGED <<queue, writerVars, settingsVars, hasClient, runVars, crashes>>

\* Fault: a measurement is kept until it was written.
Delete_Retries(k) ==
    /\ pc = "delete"
    /\ Current(k)
    /\ pc' = "write"
    /\ UNCHANGED <<queue, writerVars, settingsVars, hasClient, runVars, attempts, crashes>>

Delete(k) ==
    /\ pc = "delete"
    /\ Current(k)
    /\ queue' = queue \ {k}
    /\ batch' = batch \ {k}
    /\ pc' = IF batch' = {} THEN "purge" ELSE "write"
    /\ UNCHANGED <<writerVars, settingsVars, hasClient, known, attempts, crashes>>

Purge ==
    /\ pc = "purge"
    /\ queue' = {}
    /\ pc' = "check"
    /\ UNCHANGED <<writerVars, settingsVars, hasClient, runVars, attempts, crashes>>

Stop ==
    /\ pc' = "down"
    /\ hasClient' = FALSE
    /\ batch' = {}
    /\ UNCHANGED known

\* _check_restart_required(); module Scheduler has it in its steps.
Continue ==
    /\ pc = "check"
    /\ ~restart
    /\ pc' = "ready"
    /\ UNCHANGED <<queue, writerVars, settingsVars, hasClient, runVars, attempts, crashes>>

Restart ==
    /\ pc = "check"
    /\ restart
    /\ restart' = FALSE
    /\ Stop
    /\ UNCHANGED <<queue, writerVars, enabled, saves, attempts, crashes>>

Crash ==
    /\ pc # "down"
    /\ crashes < MaxCrashes
    /\ crashes' = crashes + 1
    /\ Stop
    /\ UNCHANGED <<queue, writerVars, settingsVars, attempts>>

Backend ==
    \/ Connect
    \/ StartDisabled
    \/ FailToConnect
    \/ FailToCreateBucket
    \/ Select
    \/ NoClient
    \/ \E k \in batch : Write(k) \/ Delete(k)
    \/ Purge
    \/ Continue
    \/ Restart

Next ==
    \/ StartReading
    \/ CreateMeasurement
    \/ SaveSettings
    \/ Backend
    \/ Crash

Spec == Init /\ [][Next]_vars

\* The backend's loop goes on, and the process that has a reading finishes it.
FairSpec == Spec /\ WF_vars(Backend) /\ WF_vars(CreateMeasurement)

-----------------------------------------------------------------------------
(***************************************************************************)
(* What the queue promises.                                                *)
(***************************************************************************)

\* A measurement is sent once, and once more for each crash between its being
\* written and deleted, although others are created and purged meanwhile.
SentOnce == \A k \in Pks : attempts[k] <= 1 + crashes

\* A measurement that leaves the queue without having been sent had as many newer
\* ones as are sent in a run, and those were; or it was created during the run.
Unsent == {k \in queue \ queue' : attempts[k] = 0}

Superseded(k) == Cardinality({n \in known : n > k /\ attempts[n] > 0}) >= MaxInQueue

PurgedIsSuperseded == [][\A k \in Unsent : k \in known => Superseded(k)]_vars

\* "Keep batches small, only send the latest X items stored. The rest will be
\* purged (in case of delay)" (dsmr_influxdb/services.py): what is purged was
\* superseded. It is not: measurements created during the run, which are later than
\* those that were sent, and are no excess, are purged as well.
OnlyExcessIsPurged == [][\A k \in Unsent : Superseded(k)]_vars

\* Every measurement leaves the queue, as long as the backend has a client.
QueueIsEmptied == \A k \in Pks : []<>(k \notin queue \/ (pc # "down" /\ ~hasClient))
===============================================================================
