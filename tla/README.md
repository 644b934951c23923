# DSMR-reader, verified

TLA+ specifications of [DSMR-reader](../src/README.md), model-checked with TLC and
partly proved with TLAPS. DSMR-reader reads the telegrams of a Dutch smart meter,
stores them as *readings*, turns those into electricity and gas *consumption*, day
and hour *statistics* and quarter-hour *peaks*, deletes old readings, and passes
results on to MQTT, InfluxDB, PVOutput, Dropbox and others.

All paths are relative to the repository.

## 1. The system

### Processes

| process | code | what it does |
|---|---|---|
| datalogger | `dsmr_datalogger/management/commands/dsmr_datalogger.py` | reads a telegram a second or so from a serial port or socket, and inserts a reading |
| backend | `dsmr_backend/management/commands/dsmr_backend.py` | one loop: call every scheduled process that is due, send the backend signal, run the persistent clients (MQTT, InfluxDB), look whether a restart is required, sleep |
| web | `dsmrreader/config/urls.py`, several gunicorn workers | dashboard, admin pages, API v1 and v2 (which inserts readings too) |
| browser | `dsmr_frontend/static/dsmr_frontend/js` | pages that fetch their data from the web process, on timers or clicks, and keep what they show |

The first three share one database, in autocommit: apart from a few `transaction.atomic`
blocks every `save()` and `delete()` is a commit of its own, and there are no locks.
Every process has a memory cache of its own. Supervisor restarts a process that
ends. Creating a reading or a consumption row sends a Django signal, whose receivers
run in the process that created it (MQTT messages, InfluxDB measurements, extremes).

So the hard part of this system is not in its arithmetic but in what happens
*between commits*: telegrams that arrive late, in bursts or not at all, while the
backend is halfway through a reading; a process killed between two commits and
started again on what is left; an administrator who saves settings while a service
runs with the old ones; queues filled by one process and emptied by another; services that
must do something once a day although calls fail and midnight is not the same moment
in UTC and on local clocks; answers that reach a page in another order than it asked.

### Components

| component | state | operations | what makes it correct |
|---|---|---|---|
| compactor `dsmr_consumption/services.py` | consumption rows, `processed` of a reading | `run`, `compact`, `_compact_electricity`, `_compact_gas` | a processed reading has its consumption stored; one row per moment; a minute's row holds the last position of that minute; gas differences add up; every reading gets processed |
| datalogger, reading API | readings | `telegram_to_reading`, `POST dsmrreading` | nothing from the future is stored |
| retention `dsmr_datalogger/services/retention.py` | readings, consumption rows | `run`, per table and per hour | deletes neither what is still to be compacted nor what statistics depend on; gets through |
| statistics `dsmr_stats/services.py` | day and hour rows | `run`, `create_statistics` | a day is closed when it is complete; no day is skipped; its numbers are the meter's; no gas twice; every finished day is closed in the end |
| quarter-hour peaks `dsmr_consumption/services.py` | peak rows | `run_quarter_hour_peaks` | one peak per quarter, covering all of it; no quarter is missed |
| scheduler `dsmr_backend/services/schedule.py`, `models/schedule.py` | planned, active | `execute_scheduled_processes`, `delay`, `disable`, exception handling, admin hooks | switched off stays off; failures back off; what is due is executed |
| restart of the persistent clients `dsmr_backend/services/persistent_clients.py` | `restart_required` | `_check_restart_required`, `initialize`, `terminate` | no client keeps running on old settings |
| MQTT `dsmr_mqtt/services` | message queue, caches | `queue_message`, `run`, `initialize_client` | the queue is bounded; the broker ends up with the last value and never goes back; the queue is emptied |
| InfluxDB `dsmr_influxdb/services.py` | measurement queue | `publish_dsmr_reading`, `initialize_client`, `run` | nothing is sent twice; only excess is dropped; the queue is emptied |
| notifications `dsmr_notification/services.py` | service, `next_notification`, `next_check` | `notify`, `check_status` | each day is notified, once |
| MinderGas `dsmr_mindergas/services.py` | token, planned | `run`, `export` | each day's gas reading is exported, once |
| archive, comparison, trends `dsmr_frontend/.../compare`, `archive`, `trends` | date pickers, requests in flight, what is shown | clicks, answers, failures | what is shown is what is selected |
| live graphs and header `dsmr_frontend/.../live`, `consumption-header.js` | last row seen, pending request, timers | polls, answers, failures | no row twice, none skipped; the page follows what is measured |
| Dropbox, PVOutput, email backup, weather | settings, their schedule | a service each | as for the scheduler |
| electricity extremes `dsmr_stats/services.py` | one row of highs and lows | `update_electricity_statistics` | a high is never lost |
| prices, costs, live consumption | no state of their own | operators over rows | totals match |
| remote datalogger script | none | forwards telegrams | a telegram is sent or dropped, never half |
| other pages, plugins, capabilities, monitoring, update checker, telegram parser | queries and templates, third-party code | - | - |

`PROJECT.json` lists the components with what is modelled of each, and the hazards
the properties are aimed at, each at its line.

## 2. The modules

```
MeterTime  <- Compactor   <- MCCompactor, Compactor_proof
           <- Retention  \
           <- Statistics  >-- Pipeline (extends Compactor)  <- MCPipeline, Pipeline_proof
Scheduler                 <- MCScheduler, Scheduler_proof
MqttQueue                 <- MCMqttQueue, MqttQueue_proof
  implements MessageChannel
InfluxQueue               <- InfluxQueue_proof
QuarterHourPeaks          <- QuarterHourPeaks_proof
LocalTime  <- Notifications \
           <- MinderGas     /-- DailyServices  <- DailyServices_proof
DatePicker <- ArchivePage \
DatePicker <- ComparePage  \
Xhr        <- ComparePage   \
Xhr        <- TrendsPage     >-- Browser  <- Browser_proof
           LiveGraphs        /
           ConsumptionHeader/
```

The MC modules only give names to the values of constants. A definition whose
comment starts with `Fault:` is a plausible mistake, used to see that a property
notices it (section 5); no specification uses it.

**MeterTime** - time in *ticks*, the resolution of a telegram's timestamp, with a
small number of ticks to a minute, minutes to an hour and hours to a day. A meter's
registers only grow, with the meter's own time, so the position of a register is
identified with the tick at which it was read. A difference of positions is
then the stretch of time whose consumption it counts, which makes "counted once",
"nothing lost" and "which reading did this number come from" visible.

**Compactor** - `readings`, `electricity`, `gas` are the tables; `pc`, `batch`,
`current`, `mode` are the local variables of `run()` and `compact()`. A pass selects
the oldest `CompactMax` unprocessed readings once (`StartPass`); per reading,
`compact()` reads the grouping and either raises `CompactorNotReadyError`
(`NotReady`, which ends the pass) or commits three times: `CompactElectricity`,
`CompactGas`, `MarkProcessed`. The datalogger (`Receive`), the API (`Create`), the
administrator (`ChangeGrouping`), the clock and `Crash` interleave with these.
The delays of one and fifteen seconds that `run()` asks for are not represented: a
pass may start at any moment, which includes those.

**Retention** - `run()` of `retention.py`: for each table the hours with more than two rows
older than the retention date, at most `MaxCleanupHours` of them, oldest first; of
each hour all rows are deleted but its first and its last, one commit per hour.
Its `Stamp` is the field the code groups and compares by.

**Statistics** - `Generate` is one call of `run()` that gets through all of its
early returns (which are its conjuncts) and creates the hours and the day in one
transaction. Two tariffs and returned electricity are one register here. Hours
keep their three ways of counting gas (no row, one row, several rows).

**Pipeline** - the three on one database. The backend calls services one after
another, so none starts inside another (`RunCompactor`, `RunRetention`,
`RunStatistics`); the datalogger does not wait (`Telegram`, of the moments in
`MeterTicks`, up to `MaxLag` late).
`sent` and `inTime` are history variables: the telegrams received, before retention
deleted them, and those of them whose day was not closed yet.

**Scheduler** - the loop of the backend by its steps: `Fetch` (the result of
`ready()` is read once), `Execute` each, the ends a service may have (`Succeed`,
`Disable`, `NotInSync`, `AskLongDelayAndRaise`, `RemoveCredentials` and
`DisableAndRaise`, `Fail`), `Handle` for exceptions, `RunClients`, `CheckRestart`,
`ClearAndStop`, `Boot`. The web process saves the settings of services
(`SaveSetting`, with the hooks that (de)activate and replan) and of clients
(`SaveClients`, then `RequireRestart`: two steps, as in the code). Settings are
version numbers, so that old and new ones can be told apart. `failedAt` and `killed` are
history variables: when the last call of a process raised or died, recorded by the step
that raises (`Raise`) or by `Crash`, not by the one that plans the delay (`Handle`), and
the processes that died in a call. The next call and a save of the settings (`Settle`)
make both undone.

**MqttQueue** - `queue_message()` is `Admit` (the cache and the queue's length are
read) and `Enqueue` (the message is created and cached), so that processes can
overtake each other in between; a process handles one message at a time. `run()` is
`DropExcess`, `Fetch`, and for each message `Publish` and `Delete`; `LoseConnection`
may lose the message or only its acknowledgement; `Connect` is the client of the next
process. `retained` is the broker (external). `latest` and `lastBy` are history
variables: the last value of each topic that was queued, or skipped as a repeat by the
process that queued it. Without caching, which is the default
(`DSMRREADER_MQTT_MAX_CACHE_TIMEOUT` is 0), the queue behaves as with entries that expire
at once (`Forget`), so the run covers both settings.

**InfluxQueue** - a reading becomes `Sections` measurements, one commit each.
`initialize_client()` has its four ends. `run()` is `Select`, `Write` and `Delete` of
each measurement, newest first, and `Purge` of the whole table. The restart flag is
read and cleared in one step here, its steps are in Scheduler.

**MessageChannel** - what the MQTT queue promises, without processes, caches,
connections and crashes: messages are numbered, arrive one at a time in that order,
each perhaps several times, and leave only after they arrived or as the oldest of too
many. `MqttQueue` implements it (`ImplementsChannel`) with its queue as what waits, its
next key as the next number and the broker's retained values as the values. The batch,
which may hold messages no longer in the queue, is what makes that more than a renaming:
a publication must still be of the oldest message that waits.

**QuarterHourPeaks** - one call of `run_quarter_hour_peaks()` decides everything by
the moment it was *planned* at, not by the clock. `Start` fetches the row, the four
returns are `Await`, `SkipQuarter`, `PassProcessed` and `Create` (with a second
commit, `RescheduleNext`). The administrator may move the planned moment back.

**LocalTime** - ticks of UTC, and local clocks `Offset` ahead: in the first ticks of a
local day it is still the day before in UTC. Both services below mix the two.

**Notifications** - one cycle of the backend is `notify()` and then `check_status()`.
`NotifyTest`, `NotifyDay` and `NotifyNothing` are the branches of the first, `Check...`
those of the second. Sending is a call (`DeliverDay`, `DeliverOther`) and what is saved
after it (`Answered...`), so that the answer may be lost or the process killed in
between (`Break`); `ClientError` wipes the settings, `ServerError` delays. `closed`
counts the days that have statistics. The history `again` counts what made a day be sent
again, `inTime` has the days that could be notified, `trouble` those for which something
failed too late to be repeated, `passed` those whose message was not sent as the service
had been switched off while it was made (`SkipDay`): the next day is planned all the same.

**MinderGas** - `run()` by its ends: `NotReady`, `Disable`, `NoGas`, and `Export`, whose
call may be accepted and then answered, fail, or be cut off. `gas` has the days before
whose midnight there is a reading; it may come late. The history `trouble` has the days
at whose end something was in the way, `passed` those that began during an export (`Tick`),
unless that failed afterwards (`GiveUp`): once it is accepted, `Answered` plans the next one
a day later, as the code reads the clock after the answer.

**DailyServices** - a behaviour is that of one of the two, chosen at the start: they
share the backend's loop and no state, and both at once would multiply the states
without another answer to any question. The variables that only one of them has are
`Nothing` in the other.

**DatePicker** - the third-party picker (external), as the pages use it: which events a
click triggers, in which order and with which date. A click on the last month of an
adjacent year, say, announces that year before it selects.

**Xhr** - a sequence of requests in flight, answered in any order. `overtaken` is
history: the page had got a later answer, or had dropped the selection.

**ArchivePage**, **ComparePage**, **TrendsPage** - the handlers of clicks (`ShowMode`,
`Select`) and of answers (`Answer`, `Fail` or `Complete`) of each page. The archive
aborts what is pending before it asks (`Aborted`), so that it has one request at most for
each part of the page; the others abort nothing.

**LiveGraphs** - the page of `live/electricity.js`, its timer and the view it polls.
`rows` is the table of consumption, the index of a row its id: with retroactive rows
the order of ids is not that of moments. The other live graphs poll in the same way.

**ConsumptionHeader** - the chain of requests of `consumption-header.js`: no interval,
each request starts the timer of the next one.

**Browser** - a tab with one of these five pages, chosen at the start. A page that is
left or reloaded loses its state, so nothing passes from one to another.

## 3. What the runs check

Numbers are distinct states and the depth of the state graph. All configurations but
Browser's have `CHECK_DEADLOCK FALSE`: clocks and counters are bounded, and a system with
no readings left to handle really is idle. A page of the browser never is: the user may
click, or its timer runs.

| run | states, depth | question |
|---|---|---|
| CompactorByMinute | 623,864, 34 | Grouped by minute: is each row the last position its minute has or will ever have (`MinuteRowsAreFinal`), and do the gas differences add up (`GasAddsUp`), with telegrams ahead of the clock, passes cut short and a crash between any commits? |
| CompactorMixed | 863,426, 32 | With readings of any timestamp from the API and the grouping changed in the middle of a pass, DSMR 4: is what is processed stored (`ProcessedIsStored`), is there one row per moment (`OneRowPerMoment`), and does every reading become processed once its minute has passed and a later reading is there (`EventuallyProcessed`)? |
| Pipeline | 1,168,329, 47 | Either grouping, DSMR 4, telegrams up to three ticks late: is each day exactly what the meter counted (`DayMatchesMeter`), is a day by minute complete when it is closed (`ClosedDaysAreComplete`), is no day skipped, no gas counted twice and none of a full day lost; does retention leave the statistics as they were, and never delete what is unprocessed or the last trace of an hour? |
| PipelineLive | 269,177, 63 | Two busy hours, an empty day, gas that is reported late: is every finished day closed in the end, and does retention, one hour per run, get through all hours, also when two of a table need it at once? |
| Scheduler | 893,512, 28 | Does a service that is switched off stay off while the backend saves rows it fetched before; is a restart never lost; is a service that failed left alone for its delay, counted from the failure; is each due process executed although others fail and the backend restarts? |
| MqttQueue | 451,598, 28 | Two processes with a cache each: is the queue bounded, is it a channel that never goes back (`ImplementsChannel`), is the latest value on its way, and does every message leave the queue, however often the connection is lost? |
| InfluxQueue | 617,648, 47 | Is a measurement sent once per crash at most; is what was there at the start of a run only purged when enough newer ones were sent; does every measurement leave the queue while there is a client? |
| QuarterHourPeaks | 134,506, 35 | With telegrams at most two ticks apart: one peak per quarter, covering it completely, none missed and each made in the end, after a crash between creating and rescheduling and a move back in the admin? |
| Browser | 46,500, 22 | However quickly the user clicks and in whatever order answers come or fail: does the archive show what is selected, the comparison and the trends unless an answer was overtaken; does a live graph have each row once, in order, and skip none; do graph and header follow, does the header never go back? |
| DailyServices | 4,482,401, 75 | With refusals, server errors, lost answers, crashes and settings saved at any moment, across midnights of UTC and of local time: is each day notified and exported once (`DoneOnce`), and is none passed over but for the exceptions that the properties name (`DayNotLost`, `DayIsExported`)? |

### Findings

Two runs show the program doing something else than it says. TLC finds a
counterexample in each; `PROJECT.json` quotes the line that says so.

* **InfluxQueuePurge / `OnlyExcessIsPurged`** - measurements queued during a run are
  purged without having been sent, whatever the length of the queue.
* **QuarterHourPeaksGap / `NoQuarterMissed`** - while the meter is silent the target is
  postponed along; after a quarter of silence the quarter in which it fell silent is
  never calculated.

The models contain more behaviours that a reader of the code may not expect. The
properties step around them explicitly, as an exception named in their formula or their
comment:

* Dropbox credentials linked while the old ones are being refused are removed with
  them (`RemoveCredentials` of Scheduler).
* A service whose process dies in its call, or after it raised and before the exception is
  handled, leaves nothing behind: its plan is what it was, and it is called again as soon
  as the backend is back, without the delay (`Crash` of Scheduler; the exception `killed`
  of `FailureBacksOff`).
* A service that read its settings as off deactivates itself, also when it was switched on
  in between: it then stays inactive until its settings are saved again (`Disable` of
  Scheduler; `SwitchedOffIsInactive` is about switching off only).
* The cache of sent MQTT values is per process, so a value that *differs* from the last
  one sent by another process may be skipped (`Enqueue` of MqttQueue; `LatestIsOnItsWay`
  claims nothing of it).
* If InfluxDB is away when the backend starts, no client is made until the next restart,
  and the queue is neither sent nor purged (`FailToConnect` of InfluxQueue;
  `QueueIsEmptied` asks for a client).
* Dropbox asks for a delay of twelve hours when its space is insufficient and then
  re-raises; the exception handler replaces it by 30 seconds
  (`dsmr_dropbox/services.py:171`, `AskLongDelayAndRaise` and `Handle` of Scheduler).
* With several gas rows in an hour (DSMR 5, default grouping) an hour's gas is its last
  row minus its first: what is used between the last row of an hour and the first of the
  next is in no hour and no day (`dsmr_stats/services.py:250`, `HourGas` of Statistics).
* The next notification is planned for tomorrow in UTC. In the first hours of a local day
  that is today, so a day whose notification is sent then is notified twice
  (`AnsweredDay` of Notifications).
* A status alert that a server refuses moves the moment of the *daily* notification: the
  message of yesterday, sent already, is sent again (`ServerError` of Notifications). The
  alert itself is tried again in the next cycle, as nothing moved its own moment.
* A MinderGas export that is accepted and answered after midnight in UTC plans the day
  after, and the day that had begun has no export (`Answered` of MinderGas,
  `dsmr_mindergas/services.py:46-56`). It is a loss, not an excuse: `DayIsExported` excepts
  these days by name (`passed`) and claims the others.
* A notification service that is switched off while the message of a day is being made
  loses that day, also when it is switched on again at once: nothing is sent and the next
  day is planned (`SkipDay` of Notifications; the exception `passed` of `DayNotLost`).
* The comparison and the trends abort nothing: an answer that a later one has overtaken
  replaces it, and the two graphs of the trends may be of different periods (`Answer` of
  ComparePage, `Complete` of TrendsPage).
* When the first request of a live graph fails no timer is started, and the graph stays
  empty until the page is loaded again (`Lose` of LiveGraphs).
* A row inserted for a moment in the past, through the API, may be shown twice in a live
  graph, as the last row of an answer then has not the largest id (`LatestId` of
  LiveGraphs).

### Bounds

Every bound is a constant named in its module.

* *CompactorByMinute*: 2 ticks a minute, 8 ticks (4 minutes), 5 readings, passes of 2.
  Two readings in one minute, a reading on each side of a boundary, a pass that ends
  with its limit, one that ends by waiting, and a crash in any of them all fit in. Gas
  advances every other tick and is in some of the telegrams only.
* *CompactorMixed*: 5 ticks, 3 readings with any timestamps, equal ones and future ones
  included, passes of 1: enough for two readings of one minute in different groupings
  and one out of order.
* *Pipeline*: days of 2 hours of 3 ticks, 14 ticks, 4 readings: the third row of an
  hour is the one retention deletes, a day in between may be empty, and days are
  closed before, during and after retention. Retention is one day and handles one hour
  per run, so that there is always a backlog. Four readings are also what a full day of
  a DSMR 4 meter takes: one for the row before it, one for each hour, and one to close
  it. An hour is one minute here, so that a grouped row is stored at the next hour.
  With 5 readings (3,016,052 states, checked once) all of it holds too.
* *PipelineLive*: days of one hour of 3 ticks, 13 ticks, 6 readings at the moments in
  `TwoBusyHours`: two hours with three rows each, both of which exceed what is kept when
  retention starts, of readings and of electricity, while a run cleans one hour
  (`MaxCleanupHours`); or one such hour and an empty day after it; and a reading of each
  of three later days, which closes the ones before. Gas is that of a DSMR 4 meter, one row
  an hour, seen with a telegram of the next day, for which the statistics wait. With fewer
  readings no two hours are crowded at once, and an hour could not be held up by another.
* *Scheduler*: a process that gives up and one that returns without rescheduling; two
  versions of each setting; delays 1, 2 and 3, all different, within 3 ticks.
* *MqttQueue*: 2 processes, 2 topics, 2 payloads, a limit of 2 and up to 4 messages: the
  limit is reached, passed (each process read the length before) and dropped below.
* *InfluxQueue*: 2 measurements per reading, a limit of 2, 6 measurements: three
  readings, one of them cut in two by a run.
* *Browser*: two dates to choose from, as properties only tell apart same and other; two
  requests of a kind in flight, so that one overtakes another (the archive, which aborts,
  has at most one of each); a live graph of 3 of 5 ticks with 4 rows, so that rows are
  late, go out of range unseen and leave the range when shown; 4 readings for the header.
* *DailyServices*: days of 5 ticks, local time one ahead, 12 ticks: two midnights of each
  kind with a whole day in between, and calls that last across each. Two failures or
  crashes: one to delay what is done, and one to cut off the retry. Two export hours.
* *QuarterHourPeaks*: quarters of 3 ticks, 10 ticks. `MaxSilence` is what separates the
  run that holds (2, shorter than a quarter) from the finding (9).

One crash (two for InfluxDB) is enough to cut each multi-commit operation at each
commit; the theorems are for any number.

### Fairness

* The **backend's loop** is weakly fair: it runs as long as the process does, services
  have timeouts, and supervisor restarts the process. Crashes are bounded in TLC, and
  never fair.
* **Services** in Pipeline are strongly fair each: every service is called again and
  again, but each is disabled while another one runs.
* The **clock** is weakly fair. In QuarterHourPeaks so is the meter, as otherwise the
  bound on silence would stop the clock.
* The **broker** acknowledges *again and again* (strong fairness of publishing): a
  connection that fails every time keeps the queue, and the code promises nothing else.
  `DropExcess` is strongly fair as the backend's own messages, of the same thread, come
  between two of its runs.
* A process that has admitted a message, or started on a reading, finishes it.
* In **Browser** timers are weakly fair, as they run out. The server answers a page *again
  and again* (strong fairness of serving and of the callback): any number of requests may
  fail, and with all of them failing nothing can be shown. Clicks, reloads and the
  answer to the first request of a live graph are not fair: `LiveGraphFollows` is about a
  graph that has its first rows.
* **DailyServices** has no liveness: that a day is *not lost* is about that very day, and
  so a matter of safety. It takes the backend's loop of a second against ticks of hours:
  a cycle starts in each tick (`cycled`), and a call has ended within two.
* No fairness is assumed of telegrams (but for QuarterHourPeaks), saves or restarts
  asked for by people. Liveness properties state what must have arrived instead.

## 4. What is proved

| theorem | statement |
|---|---|
| `Compactor_proof!TypeCorrect` | `Spec => []TypeOK` |
| `Compactor_proof!ProcessedStored` | `Spec => []ProcessedIsStored` |
| `Compactor_proof!MinuteRowsFinal` | `Spec => []MinuteRowsAreFinal`, for grouping by minute and without retroactive readings |
| `Compactor_proof!OneRow` | `Spec => []OneRowPerMoment` |
| `Compactor_proof!GasIsComplete` | `Spec => []GasAddsUp`, without retroactive readings |
| `Pipeline_proof!UnprocessedIsKept` | `PipelineSpec => RetentionKeepsUnprocessed` |
| `Pipeline_proof!StatisticsAreKept` | `PipelineSpec => RetentionKeepsStatistics` |
| `Pipeline_proof!ClosedDaysComplete` | `PipelineSpec => []ClosedDaysAreComplete` |
| `Pipeline_proof!NoDayIsSkipped` | `PipelineSpec => []NoDaySkipped` |
| `Pipeline_proof!DayIsWhatTheMeterCounted` | `PipelineSpec => []DayMatchesMeter` |
| `Pipeline_proof!GasIsCountedOnce` | `PipelineSpec => []GasCountedOnce` |
| `Pipeline_proof!FullDayHasAllGas` | `PipelineSpec => []FullDayHasItsGas`, for gas by the hour (`Hourly`) |
| `Pipeline_proof!PipelineTypeCorrect` | `PipelineSpec => [](TypeOK /\ Retain!TypeOK /\ Stats!TypeOK)` |
| `Scheduler_proof!SchedulerTypeCorrect` | `Spec => []TypeOK` |
| `Scheduler_proof!SwitchedOff` | `Spec => []SwitchedOffIsInactive` |
| `Scheduler_proof!StaleClients` | `Spec => []StaleClientsRestart` |
| `Scheduler_proof!FailureBackoff` | `Spec => FailureBacksOff` |
| `MqttQueue_proof!QueueTypeCorrect` | `Spec => []TypeOK` |
| `MqttQueue_proof!QueueBound` | `Spec => []QueueIsBounded` |
| `MqttQueue_proof!TopicsGoForward` | `Spec => NoTopicGoesBack` |
| `MqttQueue_proof!QueueImplementsChannel` | `Spec => ImplementsChannel`: every step of the queue is one of MessageChannel, or a stutter |
| `MqttQueue_proof!LatestArrives` | `Spec => []LatestIsOnItsWay` |
| `InfluxQueue_proof!MeasurementSentOnce` | `Spec => []SentOnce` |
| `InfluxQueue_proof!PurgeSupersedes` | `Spec => PurgedIsSuperseded` |
| `QuarterHourPeaks_proof!PeaksTypeCorrect` | `Spec => []TypeOK` |
| `QuarterHourPeaks_proof!OnePeak` | `Spec => []OnePeakPerQuarter` |
| `QuarterHourPeaks_proof!PeakIsComplete` | `Spec => []PeakCoversItsQuarter` |
| `QuarterHourPeaks_proof!NoneMissed` | `Spec => []NoQuarterMissed`, for `MaxSilence < Quarter` |
| `DailyServices_proof!DoneOnceAlways` | `Spec => []DoneOnce` |
| `DailyServices_proof!NoDayWithoutExport` | `Spec => []DayIsExported` |
| `DailyServices_proof!NoDayLost` | `Spec => []DayNotLost`, for `Offset > 0` |
| `Browser_proof!ArchiveOfSelection` | `Spec => []ArchiveShowsSelection` |
| `Browser_proof!ComparisonOfSelections` | `Spec => []ComparisonIsOfSelections` |
| `Browser_proof!TrendsOfSelection` | `Spec => []TrendsAgree` |
| `Browser_proof!LiveGraphInOrder` | `Spec => []LiveRowsInOrder` |
| `Browser_proof!LiveGraphComplete` | `Spec => []LiveSkipsNothing` |
| `Browser_proof!HeaderAlwaysForward` | `Spec => HeaderGoesForward` |

They hold for every value of the constants that satisfies the named assumption of its
module (`MeterTimeAssumption`, `CompactorAssumption`, `PipelineAssumption`,
`SchedulerAssumption`, `MqttQueueAssumption`, `InfluxQueueAssumption`,
`QuarterHourPeaksAssumption`, `LocalTimeAssumption`, `DailyServicesAssumption`,
`BrowserAssumption`: sizes are natural numbers, positive where the code divides by them or
would not do anything otherwise; notifications are early enough in the day that their hour
is in the same local day, and exports past the midnight of UTC, as those of the code are; a
retry comes within a day; `Nothing` is no moment, no period and no answer). The theorems
of Pipeline are thus for every length of a minute, an hour and a day, any retention period
and lateness, and any number of readings, days and crashes.

Some theorems have a hypothesis more, which they need:

* `MinuteRowsFinal`: grouping by minute and no retroactive readings. A row by reading may
  have the key of a minute's row, and a reading inserted into a minute that has been stored
  changes what the row should have been. `GasIsComplete` has the second one too: a reading
  of the past puts a gas row between two others, the later of which keeps its difference.
* `FullDayHasAllGas`: a DSMR 4 meter that reports its gas once an hour, as those do, and
  days of at least two hours, as all are. A day of a single hour may be closed before its
  first gas is seen.
* `NoneMissed`: telegrams less than a quarter apart. Beyond that the property is false,
  which is the finding of *QuarterHourPeaksGap*.
* `NoDayLost`: local time is ahead of UTC, as it is in the Netherlands. In UTC itself a
  message that is answered after midnight plans the next one for tomorrow, and the day that
  had begun is passed over. The export is always planned in UTC: there such an answer is
  one of the exceptions of `DayIsExported`.

The arguments:

* **TypeOK** of the compactor is not just types: the pass's snapshot `batch` is always
  a set of unprocessed rows of the table as it is *now*, and `current` is one of them.
  This is what makes the other two inductive: nobody but the pass marks readings.
* **ProcessedIsStored** is not inductive, as `MarkProcessed` looks at nothing.
  `StoredInv` adds that past `CompactElectricity` the current reading has its row, and
  past `CompactGas` its gas row; rows are never deleted here (Retention deletes them
  later, which is a matter of Pipeline).
* **MinuteRowsAreFinal** is about readings still to come. `FinalInv` adds that a
  stored minute lies before the meter's time, and that the meter's time bounds every
  reading: later ones therefore fall in later minutes. That the grouped key of a
  timestamp determines its minute (`SameMinute`) is the lemma with the arithmetic.
* **OneRowPerMoment** is inductive as it stands: whatever creates a row looks for one
  with its key first, within the same commit, and only the pass creates rows.
* **GasAddsUp** needs that a new row comes after all others. `InOrder` says that
  readings are compacted in the order of their timestamps, `GasInOrder` that no gas row is
  later than that of a reading still to be compacted (`GasKeyMonotone`: the row's hour
  grows with the reading, shifted by an hour or not). So a row is only ever appended, and
  counts from the latest one.
* **RetentionKeepsStatistics** and **RetentionKeepsUnprocessed**: what is put on the list of
  hours to clean is the start of an hour (`RetentionInv`), and of an hour its first and its
  last row stay. Ends of what is left of an hour are therefore the ends of the hour, and so
  those of its day; an hour that lost gas rows still has two, so that it is counted the
  same way. One row per moment (`TablesInv`) makes *the* first and *the* last row what
  they say. Of the readings only processed ones are on the list, and the first one of the
  hour stays.
* **ClosedDaysAreComplete** rests on a reading that is never compacted: by minute the
  latest one waits for a newer one (`LatestWaits`). Statistics wait while a day has a
  reading unprocessed, so that the closed days are before that of the latest reading, and
  no telegram is older than that.
* **NoDaySkipped** and **DayMatchesMeter** follow a telegram: it waits as a reading, or
  has a row, or its hour has rows on both sides of it (`TraceInv`; compaction makes the
  row, `TraceKept` is retention's part). Statistics wait for those that wait; each other
  one has a row of its hour that the next day to close is chosen by (`NextDayIsNext`), and
  the first and last row of the closed day are of the first and last telegram.
* **GasCountedOnce** compares a sum with a difference of positions. `GasRowsInv` says of
  the rows that each repeats a reading, that later ones have later positions, and that no
  difference counts more than what is behind *any* earlier row, so that it stays true when
  retention deletes rows in between. From this an hour counts at most what is between
  its rows and any row before (`HourGasBound`), a day its hours, one after another
  (`DaySumBound`), and all days (`TotalInv`) what is between the first row of all, which
  retention never deletes, and a row of a closed day. Sums need no induction: that
  adding an element to a set adds its term (`GasAdds`) is shown by a least counterexample.
* **FullDayHasItsGas**: with gas by the hour, a row whose predecessor of the hour before
  is there counts exactly an hour (`ChainInv`), and there is one row to the hour, of which
  retention deletes nothing. The hard part is that nothing may come after the day was
  closed. `NoMoreGas` has the two reasons: a gas row of the next day is there already,
  and rows are only appended; or the row *before* the day is missing and all gas to
  come is of this day or later, so that the day will never be full. `FullInv` keeps one of
  these for each closed day that has all its hours.
* **SwitchedOffIsInactive** is inductive together with `TypeOK`: the backend saves the
  `planned` column only, so no service can undo what the admin saved; the exception in
  the property is just what Dropbox's two commits need. **StaleClientsRestart** is
  inductive as it stands: the flag is cleared only on the way to `pc = "down"`, so a save
  between reading and clearing it is covered by the start that follows.
* **FailureBacksOff** is about the call to come and the moment of the failure, the invariant
  about what is planned: a process that failed, whose settings were not saved and which did
  not die in the call, is planned no earlier than its delay allows, unless it is the one
  whose exception is still to be handled (`PlannedAfterDelay`), and is not called in this
  cycle unless that moment has come (`CalledAfterDelay`). The failure is not later than the
  clock (`FailedInThePast`), so that the delay, which is planned from the handling on, covers
  that from the failure on; a call starts without one (`CallSettles`), and the service that
  runs is not among those still to be called.
* **QueueIsBounded**: the length is read before the message is created. `Bounded`
  counts the processes that have read it and not created theirs yet: each adds one.
* **NoTopicGoesBack**: `Ordered` says that what a topic has at the broker is no newer
  than anything in the queue, and that the batch is older than the rest of the queue: a
  message published twice is not newer than anything that follows.
* **QueueImplementsChannel** maps each action: `Enqueue` to `Send`, `DropExcess` to
  `Discard`, `Publish` and its lost acknowledgement to `Arrive`, `Delete` to `Confirm`,
  the rest to stutters. From `Ordered` the oldest of the batch is the oldest of the queue
  (`CurrentIsOldest`). Two invariants are added: keys are unique (`Numbered`), and
  between publishing a message and deleting it the broker has that very message for its
  topic (`ArrivedInv`), as nobody else publishes.
* **LatestIsOnItsWay**: what a process has in its cache, of a topic it queued last, is
  the latest value (`CacheInv`), so that it only skips what is on its way or arrived. A
  message leaves the queue after it arrived, the oldest first, so the last one of a topic
  leaves its value at the broker (`ArrivedInv`); of a topic whose messages were all dropped
  as excess nothing is claimed, and if one is left it is the last one, as the newest are kept.
* **SentOnce**: a measurement is deleted after it was written, whether that worked or
  not. `SentInv` adds that one in the queue was sent at most `crashes` times, unless it
  is the one that awaits its deletion: a crash there makes that true again by counting.
* **PurgedIsSuperseded**: a run selects the newest of what it knows of. `PurgeInv` follows
  each measurement that was selected until it is sent (`SelectedIsSent`, `CurrentIsSent`),
  so that what the run knew of and purges unsent was not selected: as many newer ones as
  a run sends at most were, and all of those were sent.
* **PeakCoversItsQuarter** and **OnePeakPerQuarter** are proved together (`PeaksInv`). A
  peak is only created after a reading at the end of its quarter or later, and the meter's
  time does not go back, so the quarter has all the readings it will have (`OverStaysSo`).
  A second peak of the quarter would have the same two ends, and a row that starts
  between those is looked for first. The arithmetic is that a moment is in exactly one quarter
  (`QuarterIsUnique`).
* **NoQuarterMissed**: `MissInv` says that all quarters before the targeted one, and before
  any that has a peak already, are over and have their peak if they have two readings
  (`PassedBefore`). The second part is for planned moments that were moved back and a crash
  before rescheduling: the service passes those quarters again. `Fresh`, that the last
  telegram is at most `MaxSilence` ago, is why waiting never postpones the target beyond
  a quarter with readings: a telegram of the next quarter arrives before that.
* **DoneOnce** is a matter of what is planned. `NotifyPlanned`: if yesterday's message was
  sent more often than is accounted for, the next one is planned for a later local day
  than today, so no message is due. `GasFresh` says the same of exports, in days of UTC. What
  is sent while one clock is a day ahead of the other is what `again` accounts for. That
  the next moment planned really is a day later, on the clock that matters, is
  `NextNotificationDay` and `NextExportDay`.
* **DayIsExported** and **DayNotLost** are about time that passes, told by what a cycle of
  the backend can take: a call started in one tick has ended within two (`GasSpan`,
  `NotifySpan`). A day is handled if it is under way or settled: done, or in one of the
  exceptions of the properties (`Settled`). `GasSpan` also says that an export which goes on
  after midnight has the new day among those of `passed`: if it fails the day is not settled
  any more, but then it has all its time left for the retry. Nothing is planned
  later than tomorrow, and for tomorrow only with today handled (`GasPlan`, `NotifyPlan`); once the last moment
  of the day has had its cycle, so it is in any case (`GasCycle`, `NotifyCycle`): a retry,
  shorter than a day, that goes past midnight was made in those moments.
  `GasAccepted` and `NotifySent` are about what is done but not yet saved.
* **HeaderGoesForward**: there is one update, waiting for its timer or under way, and what
  it is answered is no older than what is shown (`HeaderInv`).
* **TrendsAgree** and **ComparisonIsOfSelections** follow the *last* request: what is in
  flight ends with one for the selection; or all of it was overtaken, and the selection is
  shown or an exception holds (`TrendsInv`, `CompareInv`). An answer to an earlier request
  leaves the last one in flight; the last one, answered first, overtakes the rest.
* **ArchiveShowsSelection** needs no exception, as the archive aborts: `ArchiveInv` says that
  whatever is in flight or shown is of the selection (`UpdatedView`), also between the
  events of several levels that one click triggers.
* **LiveRowsInOrder** and **LiveSkipsNothing**: the page asks for what is behind its delta.
  `ShownInv` says of the two together that rows in range up to the delta are shown, and
  that a row behind it comes after all that is shown, in the order of ids, unless it was
  inserted late. `RequestInv` says that one request is in flight at most, for that very
  delta, and `AnswerInv` that the answer will keep `ShownInv`, whatever is inserted until
  it arrives.

The type invariants of Compactor, Pipeline (with those of its parts), Scheduler, MqttQueue and
QuarterHourPeaks are proved and therefore not among the runs' properties.

Every invariant and every safety property of an action that a run checks is thus proved.
Only model-checked is the liveness: `EventuallyProcessed`, `DayGetsClosed`,
`RetentionGetsThrough`, `DueIsExecuted`, `QueueIsEmptied` of both queues, `PeakFollows`,
`LiveGraphFollows` and `HeaderFollows`. It rests on fairness, and so on ENABLED, which the
prover has no rules for.
For `QueueIsEmptied` of both queues `[]<>` says the same as `~>`: a key, once gone, does
not come back.

## 5. Faults

Each property of a passing run has an entry under `mutants` of `PROJECT.json`: a `Fault:`
definition that replaces a definition by what a plausible mistake would make of it (the
reading marked along with its electricity; the newest readings first; the whole row
saved instead of its planned column; the cache outliving its process; the wait for a
later reading left out; what was pending left pending; the
events of another level handled; the hour of today for the hour of tomorrow). TLC finds the property violated under the same configuration.

## 6. What is abstracted, and not modelled

Abstracted in the modules:

* Hours and days of the pipeline are hours and days of one clock. The code truncates
  retention's hours in UTC and days in local time; those agree except on days with a
  change of the clock. DailyServices has both clocks, with a fixed offset.
* Values: tariffs, return, phases, voltages, prices, temperatures, averages and costs
  are left out. A gas position of 0 or none, which the compactor skips, is `NoGas`.
* The compactor's own rescheduling by 1 or 15 seconds, which never keeps it from
  running, and a service's run time against the sleep of the loop.
* SIGTERM and SIGHUP end the process between two statements: `Crash` covers them.
* A disabled MQTT broker: the queue is left as it is, as in the code.
* Two readings with equal timestamps in QuarterHourPeaks.
* An administrator deleting rows by hand.
* The text of notifications, what is drawn in a graph, and what a summary contains.

Not modelled, and why:

* *Electricity extremes*: the row is read, compared and saved as a whole by each process
  that receives readings, with nothing to protect it. That an extreme can be lost shows
  from the two lines (`dsmr_stats/services.py:477`); nothing weaker is promised.
* *Energy contracts, prices, live consumption*: sums and products over rows that the
  administrator edits, without state of their own.
* *Backups, email backup, Dropbox's files, weather, the remote datalogger*: dumping,
  compressing, sending and forwarding are I/O. Their schedule, their errors and their
  switching off are those of any process: Scheduler.
* *The reconstruction of statistics and other commands run by hand*: outside of the
  processes of the application.
* *Live graphs fetched once, the export page, the dashboard's numbers, templates*: a
  request and an answer, with nothing in between. Live graphs have running totals too
  (`live/electricity.js:207-209`), which stay 0 for a page loaded without rows: read in
  the code, and not part of a module.
* *Plugins* are the user's code; the *telegram parser* and most of the JavaScript
  (Font Awesome, Bootstrap, jQuery's plugins, the date picker) is vendored. The date
  picker is modelled only by the events the pages depend on. The project's own JavaScript
  is the pages of Browser and about as much drawing of graphs.
* Serial ports, HTTP, parsing, formatting, translations, migrations, tests, deployment.

## 7. What could follow

* An abstract consumption table that each reading enters once, implemented by Compactor,
  and a service that is executed only while switched on, implemented by Scheduler.
* Local time with days of 23 and 25 hours, in Statistics and in DailyServices.
