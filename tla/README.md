# GoodmanHPCtrl in TLA+

GoodmanHPCtrl is the firmware of an ESP32-S3 that runs a Goodman heat pump: it
reads a thermostat (Y, O), two switches (LPS, DFT) and five temperature sensors,
and drives four relays (FAN, CNT, W, RV). This directory holds its TLA+
specification, the TLC configurations that check it on small instances, and
theorems that TLAPS proves for all of its parameters. Paths below are relative
to the repository.

## 1. Inventory

### Components, their state and their operations

| Component | Source | State it keeps | Operations |
|---|---|---|---|
| GoodmanHP controller | `src/GoodmanHP.cpp`, `include/GoodmanHP.h` | `_state`, the fault flags, the defrost and transition flags, `_cntActivated`, `_yWasActive`, the run time, start ticks | `update()` and its nine checks, manual override and outputs, forced defrost, RV fail clear |
| Software defrost | same, lines 907-1121 | the three transition flags, `_softwareDefrost`, `_defrostStartTick` | start, two entry phases, the active defrost, two exit phases, abort on a lost Y |
| OutPin | `src/OutPin.cpp` | requested percent, delay task, on and off ticks | `turnOn`, `turnOff`, delay task, run time callback |
| InputPin | `src/InputPin.cpp`, `src/main.cpp` 240-370 | last values and ticks, the interrupt queue `_isrEvent` | `isActive` (a live read), interrupt, queue task |
| TempSensor | `src/TempSensor.cpp` | value, previous value, validity | `update` from the bus, discovery |
| Runtime save | `src/main.cpp` 608-631, 426-453 | the persistent copy in `proj` | save task every 5 minutes, restore at boot |
| Config | `src/Config.cpp` | the file on the SD card | load, save, read-modify-write updates |
| WebHandler, HttpsServer | `src/WebHandler.cpp`, `src/HttpsServer.cpp` | reboot, upload and WiFi test flags | requests, in their own tasks |
| WiFi and AP fallback | `src/main.cpp` 260-345 | disconnect counter, `_apModeActive`, wait task | WiFi events, wait timeout |
| MQTT | `src/MQTTHandler.cpp` | reconnect task | connect, disconnect, publish |
| Firmware update | `src/OtaUtils.cpp`, upload handlers | uploaded file, backup image | upload, backup, apply, revert |
| Logger | `src/Logger.cpp` | ring of lines, log file and its rotations | log, rotate |
| TempHistory and CSV | `src/TempHistory.cpp`, `src/main.cpp` 662-777 | a ring per sensor, one CSV per day | sample, back-fill, clean-up |
| FTP timer, CPU meter | `src/main.cpp` 474-505, 633-660, 846 | stop time; idle counts and averages | enable, expire; sample |
| PSRAM allocator, web pages, scripts | | none that the controller acts on | |

### How they interact

`loop()` (`src/main.cpp` 839-862) runs a cooperative scheduler: `update()` every
500 ms, temperatures every 10 s, the save task every 5 min, logs and history in
between. These never interleave with each other. Three things do interleave with
them: the thermostat, whose levels every check reads anew from the pin; the web
tasks (AsyncTCP and the HTTPS server's task), which call the controller directly
and without a lock; and power loss. OutPin and InputPin are called directly;
state changes and faults go to MQTT through callbacks that change nothing in the
controller.

### What is hard, and what makes each component correct

* **Controller.** About ten paths switch the contactor CNT, and each must keep
  the flag `_cntActivated`, the short cycle delay and every block (faults, RV
  failure, the waits of a defrost). Inputs change between two checks of one pass;
  requests arrive there too. Correct: no block is bypassed, the flag mirrors the
  relay, CNT rests before it starts, a call for heat is served in the end.
* **Defrost.** A sequence of timed phases which a lost Y, a COOL call, a fault,
  an override or a restart interrupts anywhere. Correct: the valve is reversed
  for a defrost only with the compressor at rest for the equalisation time, a
  running defrost is reversed and bounded, every interruption leads somewhere, and bug #1
  (`bugs/1.md`: the compressor running without a call) stays fixed.
* **OutPin.** A delayed task and a correction from the hardware level race with
  the calls. Correct: the relay follows the last call.
* **Persistence.** Saves fail, are torn by a power loss, or overlap in two tasks.
  Correct: a latched failure and the settings survive.
* **Network.** WiFi events, MQTT callbacks and requests come from three tasks and
  start and stop the same timers and retries. Correct: the access point is
  reached when WiFi stays away, a station that is up has an MQTT client or a
  retry, and a failed test of credentials leads back to where it began.
* **Firmware.** Uploads of two clients mix in one file; each step of a backup or a
  flash may fail or lose power. Correct: the running partition stays whole, the
  running firmware is saved before it goes, and what a revert restores has run.
* **Logs.** A chain of renames, then a compression, any of which may fail or be
  cut short. Correct: archives stay in the order of age, and what is lost is the
  oldest.
* **History.** Rows on the card and a ring in memory, joined again after a restart
  that may or may not know the time. Correct: the ring is in order and without
  gaps, and no file goes that should still be read back.
* **FTP timer.** Two tasks write the flag and the stop time, on a clock that wraps.
  Correct: FTP closes when asked to, and a first password closes it.
* **TempSensor.** A reading replaces the value only if it changed. Correct: the
  value follows the probe.

`PROJECT.json` lists every hazard at its line with the properties that cover it.

## 2. The modules

| Module | Role |
|---|---|
| `HeatPump` | the controller: constants and their assumptions, state, one action per check and per request, the specification, the properties |
| `CompressorRest` | `HeatPump` with a history variable: whether anything has disturbed the rest of the compressor since it went off |
| `DefrostSequence` | abstract specification: what a defrost promises about its phases and the compressor, without timers, inputs or faults |
| `SavedState` | abstract specification: how the three values that survive a restart may move |
| `Persist` | the configuration file: the save task, a configuration page, the card's errors, power loss and the restore; it extends `SavedState`, which stands for the controller |
| `Network` | the station, the wait for WiFi and the access point, the MQTT client and its retries, the test of credentials, the requests that reboot |
| `ApFallback` | `Network` with a history variable: how long the station has been waited for |
| `Firmware` | upload, backup, apply, revert, the two partitions, the delayed reboot |
| `LogRotation` | the log file and its rotation, step by step |
| `TempHistory` | the CSV rows on the card, the ring in memory, the reading back after a restart |
| `FtpTimer` | the timed opening of the FTP server and the first password |
| `OutPin` | the driver of one relay, called by several tasks |
| `TempSensor` | the change filter between a probe and the value the controller reads |
| `MCHeatPump`, `MCCompressorRest`, `MCPersist`, `MCNetwork`, `MCApFallback`, `MCTempSensor` | what TLC checks: the modules, with sets for the configurations |
| `MCUpkeep` | `Firmware`, `LogRotation`, `TempHistory`, `FtpTimer` and `OutPin` in one run: they share no state, so each behaviour is one of the component that `part` names |
| `HeatPump_proofs` | types, the contactor's invariants, the RV failure, bug #1; the next two extend it |
| `HeatPumpDefrost_proofs` | the valve, the bound on a defrost, the rest of the compressor |
| `HeatPumpRefinement_proofs` | `HeatPump` implements `SavedState` and `DefrostSequence` |
| `Persist_proofs` | what saves and power losses keep |
| `Network_proofs` | types, the test of credentials, the MQTT retries |
| `Firmware_proofs` | the partitions, the backup, what a revert restores |
| `TempHistory_proofs` | the ring's order, its gaps, the days that are kept |
| `Upkeep_proofs` | the archives of the log, the relay driver, FTP and the password, and the composition of the five components; it extends `Firmware_proofs` and `TempHistory_proofs` |

### How `HeatPump` corresponds to the code

`pc` is the check that `update()` runs next. Each check is one action of the same
name (capitalised), in the order of lines 170-178; `checkDefrostNeeded()`, the
last, is split into one action per branch (`AbortSequence`, `EndPhase1`,
`EndPhase2`, `EndDefrost`, `StartDefrost`, `NothingDue`). `BeginUpdate` is the
entry, with the startup lockout and the override's timeout. Between any two of
these the thermostat (`ThermostatCall`) and the web tasks (`WebRequest`) may act,
at the points that `InputPoints`, `CallPoints` and `OverridePoints` allow. The
point of preemption is thus the boundary of a function, not of an instruction.

| Variable | Code |
|---|---|
| `y`, `o` | the levels of the inputs; `LPS` and `DFT` are read by one check each and chosen there |
| `on` | the outputs whose relay is energised |
| `faults` | `_compressorOverTemp`, `_suctionLowTemp`, `_lpsFault`, `_lowTemp`, `_rvFail`, `_highSuctionTemp` |
| `defrost` | `_softwareDefrost`, `_defrostTransition`, `_defrostCntPending`, `_defrostExiting`, and `timed` for `_defrostStartTick` not 0 |
| `age` | for each start tick, the time since |
| `state`, `lockout`, `manualOverride`, `yWasActive`, `cntActivated`, `heatRuntime` | the fields of the same name |

What is abstracted:

* Time is counted in passes. A pass takes 1 to `MaxLag` units, so a late pass is
  covered. An age stops at the largest value the code compares it with (`Limit`),
  and is 0 while no code can read it (`Running`).
* `_defrostTransitionStart` and `_defrostCntPendingStart` share one timer: the
  second is set when the first is read for the last time.
* A temperature reading is the class of values that the thresholds tell apart.
  `none` is a missing or invalid sensor, or a pass on which the one-minute
  recheck is not due, so that a run with `none` covers every phase of it.
* The run time stops at its threshold, beyond which the code makes no difference.
  The code adds without a bound (`GoodmanHP.cpp` 893-894), also, after a lockout or
  an override, time in which nothing ran; the model adds the same, up to there.
* CNT's off tick is never 0 (`initPin()` sets it), so the code's sentinel test on
  it is left out. The 3 s delay of CNT's OutPin is not in the model: `turnOn()`
  drives the pin at once (`src/OutPin.cpp` 221).
* Logging, callbacks, publishing and registration change nothing the controller
  reads.
* The initial states are those after `setup()`: a saved defrost, run time or RV
  failure may be restored. The failure is never restored together with the other
  two: raising it drops them in the same action (`KeepsSavedState`), and the file
  never holds a state that the controller was not in (`RestoredQuiet`). This
  holds until the card fails or two saves overlap; a failed
  write after the failure was cleared, followed by a save of the run time alone,
  can leave the failure with a run time in the file, a state `Init` leaves out.

### How `Persist` corresponds to the code

| Variable | Code |
|---|---|
| `live` | `_heatRuntimeMs`, `_softwareDefrost` and `_rvFail` of the controller |
| `proj` | the same three, and the settings, in `ProjectInfo proj` |
| `file` | `/config.txt`: `readable`, `empty` after a truncation, `garbled` when it does not parse |
| `job` | for each task, the document it is about to write |
| `errors` | how many times the card has failed, at most `MaxErrors` |
| `overlapped` | history: whether a save has begun while the other task was saving |

`onSaveRuntime()` is `SaveRuntime`: it notes the differences in `proj` and starts
a full update, or one of the run time alone. A `POST` of the configuration is
`SaveSettings`. Both then go through the steps of `updateConfig()` and
`updateRuntime()`: `ReadAndMerge`, `Truncate` (`SD.open` for writing) and
`WriteBack`. The card may fail at each: a read or an open that fails ends the
save, a short write leaves a garbled file. `Restart` loses power at any of these
points, where a file opened for writing and not yet closed is empty, and runs
`setup()`: an empty file is replaced by the defaults, a garbled one is ignored.
One setting with two values stands for all. Meanwhile the controller moves as
`SavedState` allows (`Control`), which `HeatPump` implements, except while the
save task itself runs, as both are tasks of one loop.

Nothing in the code keeps the two tasks from saving at once, and the run has
`Overlap` TRUE. What an overlap leaves behind is lost: one task writes over what the
other saved, and as neither looks at the file again, nothing repairs it. So
`BelievedIsSaved`, `RestoredQuiet` and `FailureSaved` are about the histories in
which no save has yet begun inside another (`overlapped`), and say what holds
up to that moment. With `Overlap` FALSE (the run `writeFails`) no overlap ever comes.
Bytes of two writes mixed in one file, and a card that was not recognised at boot,
so that no save ever succeeds, are left out.

### How `Network` corresponds to the code

| Variable | Code |
|---|---|
| `station` | the WiFi station: `off` (in AP mode), `idle`, `trying`, `associated` (STA_CONNECTED), `up` (GOT_IP), and the credentials of its last `WiFi.begin()` |
| `good` | the credentials that would work now: networks come and go |
| `config`, `file` | SSID and password in memory and on the card |
| `wait` | `tWaitOnWiFi`: enabled or not, and the iterations left |
| `lost`, `ap` | `_wifiDisconnectCount` in whole waits, `_apModeActive` |
| `mqtt`, `retry`, `ready` | the client, `_tReconnect`, whether `begin()` has run |
| `test` | `_wifiTestState`, `_wifiTestCountdown`, old and new credentials, `_tWifiTest` |
| `reboot` | `_shouldReboot` |

The handlers of `WiFiEvent()` are `Associate`, `GotIp` and `Disconnected` (inside
`LinkLost` and `Leave`); the callbacks of `tWaitOnWiFi` are part of what enables
or disables it: `onWifiWaitEnable()` of `Disconnected`, `onWifiWaitDisable()` of
`WaitExpires`. One tick of the test is `TestBegins`, `TestSucceeds`, `TestWaits`
or `TestFails`. `Accept` is the success, also that of the first tick,
which may still read the status of the old connection. A task of the loop that looks at a state and then disables itself
does so in two steps (`stopping`), and `Races` says whether an event may come in
between. What IP addresses, web and NTP servers do with a connection is left out.

### How the five components of `MCUpkeep` correspond to the code

* **Firmware.** A file or a partition is the sequence of its pieces; a piece is a
  version and its number, so a mixture is told from an image. `UploadStarts` and
  `UploadContinues` are the calls of the upload handler, which those of another
  client may come between. `Apply` opens the backup and `Backup` copies one piece
  at a time; `FlashBegins` erases the partition that does not run, `FlashWrites`
  writes a piece, and `FlashEnds` has the image verified, selects it and schedules
  the reboot. `PowerCycle` is that reboot or a power loss; `ran`, a history, holds the
  versions that have run. Requests are served one
  after the other, so an upload waits for an apply.
* **LogRotation.** A file holds one filling of the log, numbered by age. Each line
  of `rotateLogFiles()` and `compressFile()` that touches the card is an action,
  with its failure as a disjunct: `RemoveOldest`, `Shift` for each archive,
  `MoveAside`, `CreateArchive`, `Compress`, `CleanUp`, and `RenameInstead` when
  the compression failed. A rename fails onto an existing file.
* **TempHistory.** A row or a sample is the logging interval it was taken in.
  `LogTemps` is `onLogTempsCSV()` with the daily removal of old files, `Backfill`
  is `backfillFromSD()` with the files it could not open, `GiveUp` its last try
  without a clock. `HistoryRestart` keeps or loses the clock.
* **FtpTimer.** Enabling and expiring are two assignments each, which the other
  task may come between. A step of the clock stands for minutes. `openFor`, `asked`
  and `stopLost` are history: the last says that the stop time went by one of the
  two orders in which the code loses it.
* **OutPin.** Every call is two steps: belief and callback, then the pin. The
  delayed callback runs in the loop. `lastCall` and `overlapped` are history.

`TempSensor` is `update()`: `value`, `previous` and `valid` are the members, `wire`
tells a DS18B20, whose missing probe reads -197, from an MCP9600.

### The abstract specifications

`DefrostSequence` has six phases (`none`, `equalise`, `reversed`, `defrosting`,
`exitEqualise`, `exitReversed`) and the compressor. It says that entry and exit
go through their phases in order, that the compressor is off in each wait, that
only the end of a wait starts it in a defrost, and that an interruption leaves it
off. `FollowsSequence` maps the flags of `HeatPump` to the phase and CNT to the
compressor; that every step of the controller is a step of the sequence or a
stutter, TLC checks on the instance and TLAPS proves for every one.

`SavedState` has the heat run time, the defrost and the latched failure. It says
that run time accumulates only without a defrost and without the failure, that a
defrost ends with no run time left, and that the failure is latched only out of a
defrost, which it drops. `KeepsSavedState` is the refinement; TLC checks it and
TLAPS proves it. The mapping matters twice: it lets `Persist` use three values
instead of the whole controller, and it is why `Init` of `HeatPump` restores no
other states.

## 3. The runs

Deadlock is checked in all of them but `upkeep`, whose clocks, fillings and
failures are bounded and so come to an end.

| Run | Instance | Shows |
|---|---|---|
| `cycle` | heating and cooling calls that change at any point; every fault; requests at any point, an override between passes; equalisation 3, short cycle 2, timeout 4, passes of 1 or 2 units | the contactor (`CntFlagMirrorsRelay`, `WaitingHoldsCntOff`, `RvFailBlocksCnt`, `CompressorRests`), the valve (`EqualisedBeforeReversal`, `ActiveDefrostReversed`), the timeout (`DefrostBounded`), the refinements `FollowsSequence` and `KeepsSavedState`. 3.6 million states |
| `service` | heating only, Y steady within a pass; override, outputs, forced defrosts and clears of the RV failure at any point, also inside a pass; the low pressure switch and the suction sensor's failure; passes of 1 or 2 units | `ExitInPhase`, `CompressorNeedsCall` (bug #1); under fairness `OverrideEnds`, `ExitEnds`, `HeatCallServed` |
| `faultRestart` | every fault, no override | refutes `FaultBlocksCnt` |
| `coolResume` | override between passes, heating and cooling | refutes `CoolRunsReversed` |
| `heatReversed` | override between passes, heating only, no fault | refutes `HeatRunsUnreversed` |
| `bounce` | heating, Y changing inside a pass, fair | refutes `PendingDefrostResumes` |
| `saves` | one error of the card, two settings, threshold 2, saves that overlap, power loss at any step | `BelievedIsSaved`, `RestoredQuiet`; under fairness `FailureSaved` |
| `writeFails` | the same, no overlap | refutes `FailureReachesCard` |
| `network` | two credentials, waits of 2, fallback after 3, tests of 3 ticks, events outside the two windows | `MqttWatched`, `FailedGoesBack`, `SavedWasTried`; under fairness `FallbackReached`, `ConnectionReturns`, `MqttReturns`, `TestEnds` |
| `apEarly` | the same network, fallback after 2 | refutes `ApAfterTimeout` |
| `upkeep` | two versions, clients and pieces, one failure; 3 archives, 5 fillings, two failures; days of 2 intervals, 2 days, a ring of 4, 8 intervals; a clock of 8 and durations 1, 3 and 10; two tasks on a relay | `NeverBricked`, `BackedUpFirst`, `RevertedHasRun`; `ArchivesInOrder`, `OnlyOldestLost`, `NewestKept`; `RingInOrder`, `DaysKept`, `NoGap`; `FtpBounded`, `FtpOpenedByAdmin`; `PinFollows` |
| `staleSensor` | two temperatures, no dead band | refutes `ValueRecovers` |

### Why the bounds are enough

The control depends on times through comparisons only, so what matters is the
order in which timers may expire. The instances keep the code's order where the
code fixes one: the five-minute window is longer than the short cycle delays and
the timeout longer than the minimum runtime. Equalisation and short cycle delay
are equal (the defaults) in `service` and differ in `cycle`; a pass of two
units passes a limit without hitting it. The threshold of 2 lets a defrost
start from accumulated time, from a restored run time and from a request.
Each timer can expire before, between and after a lost Y, a fault and an
override. Two readings per sensor class and both levels of each switch are all
the code tells apart; the class `low` of the suction sensor behaves as `none`
or `normal` and is left to the proofs, which allow it.

In `service` the thermostat is steady within a pass, because `CompressorNeedsCall`
and `HeatCallServed` are what the system promises a thermostat that does not
bounce; what a bounce does is the run `bounce`. Its override may come inside a pass,
which `cycle` leaves out: there `RvFailBlocksCnt` and `EqualisedBeforeReversal`
fail with it. `ExitInPhase` holds with both, by the theorem `ExitHasPhase`.

`CompressorRests` says when the compressor rests, and `Disturbance` when the code does
not see to it: the code never measures the rest from the moment CNT went off, but
from the edge of Y or from the start of a phase. A stop by an override, by a fault
other than low pressure (which alone restarts the timer of Y), or by COOL dropping
a defrost leaves that timer as it was, and CNT may start at the next pass; a Y that
changes within a pass, and the phase flags left by an override, separate the timer
from the stop as well. The history variable excludes the starts after these, and
no others: in the same run they all happen, and what comes after the next rest is
checked again.

In `saves` one error of the card is enough: what a save leaves behind does not
depend on earlier errors, only on the file they left, and the properties are
about the time before the first. Two settings let a page change the file and the
save task rewrite it, and a threshold of 2 tells a run time from its reset.

In `network` three waits to the fallback tell the first wait, a later one and the
last, and two waits are enough for the access point to open early in `apEarly`; three
ticks of a test are the one that begins it, one that waits and the one
that fails. Two credentials are the configured ones and those of a test or a post, and
each may work or not at any time. Longer waits and more credentials add no new
comparison, and the proofs cover all of them.

In `upkeep`, two pieces make a half-written file and a mixture; two clients and
two versions make a mixture of two images. One failure reaches every error path
once, and the proofs have any number. Three archives have a first, a middle and a
last link of the chain, and five fillings rotate it past its length; two failures
let one rotation find what the failure of an earlier one left. Days of two
intervals put rows on both sides of a midnight, and eight intervals outlive the
two days that are kept. A clock of eight wraps under each duration, and one
duration is longer than the clock.

### Fairness

`FairSpec` of `HeatPump` adds weak fairness of `Update` as a whole. The scheduler runs
`update()` every 500 ms for ever and nothing in it blocks, so as long as the
firmware runs, the next check is eventually made. Nothing is assumed of users,
sensors or the thermostat: `OverrideEnds` and `ExitEnds` hold whatever they do,
and `HeatCallServed` is conditional on a call that stays, no fault and no
override. In `HeatCallServed` a condenser that never gets warm is covered by the
timeout. An operator who forced a defrost without end could not prevent it
either: a forced defrost is refused while one is active or leaving.

`FairSpec` of `Persist` adds weak fairness of a save once begun (the task does
nothing else until it is done) and, unless the power fails again and again,
strong fairness of `SaveRuntime`: the scheduler calls it every five minutes
whatever the pages do, but it may find a page saving, so it is enabled again and
again rather than all the time. With power that keeps failing nothing is asked of
the save task, and `FailureSaved` still holds: a failure that was not saved is
not restored either.

`FairSpec` of `Network` has weak fairness of the tasks of the loop that need nothing
but time (the wait, the test, the idle status every minute, `setup()`'s
`begin()`, the delayed reboot), which `ts.execute()` runs for ever. The tick of the
wait is fair although every failed attempt comes between: an attempt takes longer
than a second. The MQTT retry has strong fairness, as it may find the client
closing. Of the radio: a station notices that its network is gone, and one that
keeps trying where the network stays connects in the end (strong fairness of
`Associate`, `GotIp`); of the broker: it answers a client that keeps trying; of the
client: one told to close does. Nothing is assumed of users and networks, and the
properties say what they need: `FallbackReached` that no network returns,
`ConnectionReturns` and `MqttReturns` that the network, or the connection, stays.
All four but `TestEnds` are about the time after the last restart.

`SensorSpec` has weak fairness of `SensorUpdate`: a pass over the sensors updates
each of them.

### What the code does not keep

* `faultRestart`: the end of a defrost wait (`GoodmanHP.cpp` 949-963, 985-999)
  turns CNT on without looking at the faults. README lines 72, 90 and 99 say that
  each fault blocks CNT.
* `coolResume`: `setManualOverride(false)` releases every relay and leaves
  `_state`; relays are only set on a change of state, so a COOL call that was
  there before is served with RV and FAN off. README line 65 has RV on in COOL.
* `heatReversed`: `setManualOverride(true)` stops a defrost, which begins an exit
  transition, and then clears `_defrostExiting` only (`GoodmanHP.cpp` 1140-1143). When
  the override ends, CNT starts, as neither flag that `checkYAndActivateCNT()` looks
  at is set, and `checkDefrostNeeded()` takes the transition for that of an entry
  and energises RV and W in HEAT, under the running compressor. README line 65 has
  RV off in HEAT.
* `bounce`: when one check sees Y drop and `updateState()` does not, the state
  stays DEFROST with no phase running, and the defrost neither resumes nor ends:
  the compressor stays off until Y drops for a whole pass. The comment at
  `GoodmanHP.cpp` 1005 says that it resumes when Y comes back.

* `writeFails`: `onSaveRuntime()` notes the latched failure in `proj` before
  `updateConfig()` writes it (`main.cpp` 616-623), so when the write fails the
  next round sees no difference and the failure is never saved; a short write,
  whose result nobody looks at (`Config.cpp` 508), also makes every later update
  fail to parse. `include/Config.h` 26 calls it "Latched RV fail flag
  (persisted)".

* `staleSensor`: `update()` compares a reading with the value before last
  (`TempSensor.cpp` 66). After one disconnected reading between two equal ones
  the sensor stays at -197 and invalid as long as the probe reads the same, and a
  reading equal to the value before last is dropped though it is a change. README
  line 100 says that the low ambient fault, which this value decides,
  "auto-recovers when temperature rises above threshold".

* `apEarly`: `tWaitOnWiFi` has its 60 iterations from its construction only.
  `enableDelayed()` (`main.cpp` 332) does not give them back, so after the first full
  wait every further loss, or failed attempt, ends the wait in its first tick and
  counts 60 s (line 303). The access point opens long before the time that README
  lines 40 and 430 promise.

Observations of the same kind limit what is stated of the controller. An override switched on inside a pass
does not stop the checks left in that pass (`GoodmanHP.cpp` 161 is only looked at
on entry), and these switch relays behind the operator; so `RvFailBlocksCnt` and
`EqualisedBeforeReversal` hold only for an override served between passes. A low ambient temperature releases the valve in the middle of a defrost
(lines 222-279) without ending it; the state is then LOW_TEMP, and
`ActiveDefrostReversed` is about DEFROST, to which the way back leads through
phase 1. Ending an override, or clearing the RV failure, with Y active for longer
than its delay starts CNT at the next pass, without the rest that README line 67
promises; `CompressorRests` leaves these starts out, with the others that
`Disturbance` names.

Of the network, with `Races` TRUE or in the code around the model:

* With an event in one of the windows, `MqttWatched` and `TestEnds` fail: a
  disconnection between `connected()` and `disable()` (`MQTTHandler.cpp` 33-34)
  starts a retry that is then undone; STA_CONNECTED before `mqttHandler.begin()`
  (`main.cpp` 459, 517) starts none; a request for a test between the state
  "failed" and `disable()` (`WebHandler.cpp` 1186-1188) leaves a test that never
  ends, and no other is accepted until a restart.
* In its first second a test may take the status of the connection it replaces for
  its own (`WebHandler.cpp` 1151-1153) and save credentials that were never tried.
  `SavedWasTried` is about the seconds after it.
* A configuration that is refused for one field keeps the credentials it accepted
  in memory, without the reboot that would apply them. A test that succeeds
  reboots whatever its save returned, perhaps into the old credentials.

Of firmware: a failed backup does not stop an apply, and has by then overwritten
the last good backup; a second apply in the two seconds before the reboot erases
the partition that is to start, and only the bootloader's fallback saves it; mixed
uploads are answered with OK, and only the image check refuses them.

Of the log: a compression that keeps failing while `/log.1.txt` exists, which
nothing removes, rotates, and so deletes an archive, at every line that follows. A
log whose removal fails after it was archived is archived again, and the full log
stays in place meanwhile. No lock keeps two tasks from rotating at once.

Of the FTP timer: a request that comes between the two assignments by which the
loop ends the one before (`main.cpp` 847-849) has its stop time cleared, as has one
whose stop time comes to exactly 0: FTP then stays open until it is closed by hand,
against README line 32 ("auto-disables after timeout"). Close to the wrap of
`millis()` FTP closes early. `FtpBounded` says that these two orders (`stopLost`) are
the only ones in which FTP stays open for longer than it was asked for.

Of the history: after a restart that keeps the clock a sample may precede the rows
that are read back, and its own row follows behind it, twice and out of order
(excluded by `early`). With an interval of 30 s the rows read back are the oldest,
not the newest, that the ring can hold; at exactly midnight one row more than a
ring is read. The code keeps and reads back 7 days where README lines 30 and 373
say 31.

Of the relays: a `turnOff()` of a web task inside the loop's delayed callback is
undone by it, and `isOn()` then corrects the belief to the relay. `PinFollows`
leaves out what overlapping calls leave behind; the next call alone repairs it.

## 4. The proofs

`tlapm` checks every proof from the definitions, with no fact taken on trust but
the named assumptions on the constants. TLC checked every candidate invariant
first.

| Theorem | States | Assumption beyond the types of constants |
|---|---|---|
| `TypeCorrect` | `Spec => []TypeOK` | none |
| `ControlCorrect` | `Spec => []ControlInv` | none |
| `FlagMirrorsRelay`, `WaitingIsOff`, `ExitHasPhase` | the parts of `ControlInv` as the runs state them | none |
| `RvFailBlocks` | `Spec => []RvFailBlocksCnt` | `Serialised` |
| `CallNeeded` | `Spec => []CompressorNeedsCall` | `SteadyCall` |
| `CompressorIsRested` | `RestSpec => CompressorRests` | none |
| `ReversalIsEqualised` | `Spec => EqualisedBeforeReversal` | `Serialised` |
| `DefrostIsReversed` | `Spec => []ActiveDefrostReversed` | `Serialised` |
| `ReversedInEveryState` | the same in every state, not only DEFROST | `Serialised`, `NoLowAmbient` |
| `DefrostEnds` | `Spec => []DefrostBounded` | `Serialised`, `TimeoutAfterMinimum` |
| `SavedStateKept` | `Spec => KeepsSavedState` (`HeatPump` implements `SavedState`) | `Serialised` |
| `SequenceFollowed` | `Spec => FollowsSequence` (`HeatPump` implements `DefrostSequence`) | `Serialised` |
| `SavesCorrect` | `Spec => []IInv` of `Persist` | none |
| `BeliefIsTrue`, `RestoreIsQuiet` | the parts of it that the run states | none |
| `NetworkTypes` | `Spec => []TypeOK` of `Network` | none |
| `OnlyTriedIsSaved` | `Spec => SavedWasTried` | none |
| `FailedTestGoesBack` | `Spec => []FailedGoesBack` | none |
| `MqttAlwaysWatched` | `Spec => []MqttWatched` | `~Races` |
| `FirmwareTypes`, `AlwaysStarts`, `AlwaysBackedUp` | `FirmwareSpec => []` of `FirmwareTypeOK`, `NeverBricked`, `BackedUpFirst` | none |
| `OnlyWhatRanIsRestored` | `FirmwareSpec => RevertedHasRun` | none |
| `ArchivesAlwaysInOrder`, `NewerAlwaysKept`, `NewestAlwaysKept` | `LogSpec => []` of `ArchivesInOrder`, `OnlyOldestLost`, `NewestKept` | none |
| `HistoryTypeCorrect` | `HistorySpec => []HistoryTypeOK` | none |
| `RingAlwaysInOrder`, `NeverAGap`, `DaysAlwaysKept` | `HistorySpec => []` of `RingInOrder`, `NoGap`, `DaysKept` | none |
| `RelayFollows` | `PinSpec => []PinFollows` | none |
| `OpenedByAdmin`, `FtpAlwaysBounded` | `FtpSpec => []` of `FtpOpenedByAdmin`, `FtpBounded` | none |
| `EachComponentFollowed` | `UpkeepSpec` implies the five components' specifications | none |
| `UpkeepTypes` | `UpkeepSpec => []UpkeepTypeOK` | none |

Every invariant and every action property of a passing run is the statement of
one of these. A condition inside a property is part of what is proved, and what it
leaves out is not: `Disturbance` in `CompressorRests`, `overlapped` and errors of the
card in `BelievedIsSaved` and `RestoredQuiet`, the first second in `SavedWasTried`,
`stopLost` in `FtpBounded`, failures in `BackedUpFirst` and `NewestKept` (`Calm`), `early`
in `RingInOrder`, the size of the ring in `NoGap`, `overlapped` calls in `PinFollows`.

The assumptions are hypotheses of the theorems, not of the modules:

* `Serialised`: an override is switched between passes, or never.
* `SteadyCall`: Y and O change between passes only.
* `~Races`: no event comes in a window between a look at a state and the
  `disable()` that follows it.
* `NoLowAmbient`: the ambient sensor never reads below its threshold.
* `TimeoutAfterMinimum`: the minimum runtime does not exceed the timeout, which
  is positive. The code does not clamp the minimum it loads, and tests it first,
  so that a larger one would hide the timeout.

### The argument

`ControlInv` joins types, the contactor's flag, its silence in waits and the
phases of an exit. None is inductive alone: that no wait runs with CNT on needs
`ExitInPhase` (a step that starts CNT looks at `exiting`, not at the phase), and
that in turn needs the flag to be exact, since a lost Y stops CNT only if the
flag says it runs.

`LatchInv` adds that a latched failure finds no defrost and no accumulated run
time (`FailureQuiet`), and that the override is off while a pass is under way.
Without the first a restored or forced defrost could reach the end of its
phase 2 with the failure set; without the second the failure check could run
under an override. `Equalising` follows CNT's off tick through phase 1: it is at
least as old as the phase itself, so the end of the phase bounds it from below.
`Reversed` and `TimedDefrost` (with `LockedOut` for the lockout that follows a
restore) carry the valve and the start tick from the end of phase 2 to the end of
the defrost. `CallInv` places CNT's dependence on Y at each point of a pass: what
the pass has still to check, and what it has already switched off.

`CompressorIsRested` compares ages: CNT starts on the age of Y or of a phase, and has
to have been off as long. `RestInv` adds to `ControlInv` that, while CNT is off
undisturbed, it has been off in each second phase at least as long as the phase has
lasted (`PhaseRested`), and at least as long as Y has called (`CallRested`), unless
a defrost, its exit or low pressure now keeps it off. A stop restarts the timer
that the next start reads, or leaves one of these behind, or is a disturbance; that
is the case analysis of `StepCallRested`.

`SequenceFollowed` maps each action to a step of `DefrostSequence` from the flags
alone. What the flags do not say is that an override meets no defrost and no
exit, without which its relays would start the compressor in a wait: `SequenceInv`
adds it.

`SavedStateKept` needs `FailureQuiet` once more: a step that accumulates run time,
and one that starts a defrost, must find no failure. Each action is first shown
to be one of seven kinds of step over the three values, and each kind is then
mapped to the record of `SavedState`.

In `Persist`, that the file holds `proj` whenever nobody saves is not inductive:
a save ends by writing what it merged earlier. `IInv` adds that, until a save has
begun inside another, at most one task is saving (`OneSaver`) and what it will write
is `proj` as it is now (`SavesProj`), so that its last step restores the property;
and that the file is not garbled before the card fails, for the restart that would
ignore it.

In `Network`, types need `CountsInv`: without an access point the count of waits is
below the fallback, and a countdown is positive while a test runs. `TestInv` says
that a test past its first tick has the station on the credentials it tests, which
no other action changes meanwhile; from it `SavedWasTried` and `FailedGoesBack`
follow. `MqttInv` adds to `MqttWatched` what holds before the station is up: the
client is connected only while the station is, and an associated station has its
retry on, so that the address which follows finds one or the other.

In `Firmware`, that the running partition is whole is kept because only the other
is ever written (`FlashInv` says that what is in it is a prefix of the file, so a
whole copy is a copy of a whole file), and because a power cycle chooses a whole
one; `BackupInv` says that the backup is a prefix of the running image while it is
written and, without a failure, all of it once that is done, and `HandleInv` that
an upload still open lacks its last piece. `RanInv` says that what runs, and what the
backup is a prefix of, has run; as the image check takes no prefix for a whole
image, a revert restores one that has.

In `LogRotation` the order of the archives is not inductive, as a shift moves a
file past an empty place. `OrderInv` says it of the archives with the log, and with
what is aside, in front; `PlaceInv` says which places are empty at which step of
a rotation, and `KeptInv` that whatever is newer than an archive is somewhere, as
long as the chain did not break. `CalmInv` says exactly where each filling is at each
step while nothing has failed: the archives that a shift has not reached yet, the
place that has become free, those already moved. From it the newest fillings are
all there. `PinInv` says of a call under way that it is the
only one, unless calls overlapped, and of a relay at rest that its belief is
right.

In `FtpTimer` the bound is on the time FTP has been open, which no code reads.
`StopTimeInv` ties it to what the code compares: time open and time left together
never exceed what was asked for, as long as the clock has not passed the stop
time; `StopKept` that FTP without a stop time lost it by one of the two orders.

In `TempHistory` the order of the ring is kept by `LoggedInv` (an interval that is not
logged is newer than the ring and not on the card) and `WaitingInv` (before the rows are
read back the ring holds one sample, or none). That the rows are read in their order
is an argument by counting: the i-th row is the one with i-1 rows before it, so
counting maps the rows one to one into as many numbers, and every number is
taken. `GapInv` adds that the rows behind the first sample ascend, and that
overwriting the first sample loses nothing (`FrontInv`); a ring that has overwritten a row
of the window would hold more rows than the window has intervals.

The five components of `MCUpkeep` share no state and no step, so a step of their
composition is a step of one and a stutter of the others; types of the whole follow
from the types of each.

The proofs have one step per action, and shared lemmas for the checks that only
stop the compressor.

### Left to TLC

* Liveness (`OverrideEnds`, `ExitEnds`, `HeatCallServed`, `FailureSaved`,
  `FallbackReached`, `ConnectionReturns`, `MqttReturns`, `TestEnds`): fairness is
  out of the prover's reach here.
* The seven refuted properties: a counterexample is what a run finds.

No property is left to TLC for its data: where the code loops (the read-back of the
rows, the shift of the archives) the model says what the loop leaves behind, or has
one action per turn of it, so that no proof needs induction over data.

## 5. Plan

Done: the controller and its two abstract specifications, the configuration file,
the network, firmware, log rotation, history, FTP timer, relay driver and the
sensor's filter, with their proofs. What would come next:

1. `Network` with `Races` TRUE and what still holds then.
2. Two requests of the two web servers inside one handler, beyond uploads and
   pins; the saves of a configuration in `Network` through the steps of `Persist`.

## 6. Not modelled, and why

* The PSRAM allocator, the web pages and the scripts keep no state the
  controller acts on. The CPU load meter is only displayed.
* The interrupt queue of the inputs (`_isrEvent`) feeds log lines only. That an
  interrupt inserts into the map while the loop iterates over it is undefined
  behaviour of the library, which no choice of outcomes would describe.
* The logger's ring of lines, its serial and MQTT sinks, and the websocket of the
  log page: output only.
* Percentages between off and on, and the DAC and PWM pins of OutPin: `setup()`
  creates none, the relays are digital.
* The discovery of sensors and the matching of addresses to names; encryption,
  certificates, JSON and HTML text: data without control. What the handlers do with
  the parsed values is modelled where it changes state.
* NTP and time zone settings, page serving and authentication: they change nothing
  that the modelled parts read.
