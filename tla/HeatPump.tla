------------------------------ MODULE HeatPump ------------------------------
(***************************************************************************)
(* The heat pump controller (GoodmanHP): one pass of update() is the       *)
(* sequence of its check functions, one action each, and between any two   *)
(* of them the thermostat may change its Y and O inputs and a web task may *)
(* call the controller, as nothing in the code locks it.                   *)
(* Time is counted in passes.  A temperature reading is the class of       *)
(* values the thresholds tell apart; "none" stands for a missing or        *)
(* invalid sensor and for a pass on which the one-minute recheck is not    *)
(* yet due.                                                                *)
(***************************************************************************)
EXTENDS Naturals

CONSTANTS
    Lockout,            \* STARTUP_LOCKOUT_MS
    OverrideTimeout,    \* MANUAL_OVERRIDE_TIMEOUT_MS
    CntShortCycle,      \* _cntShortCycleMs
    OffWindow,          \* the 5 minutes after which CNT may restart at once
    RvShortCycle,       \* _rvShortCycleMs
    MinRuntime,         \* _defrostMinRuntimeMs
    DefrostTimeout,     \* DEFROST_TIMEOUT_MS
    HeatThreshold,      \* _heatRuntimeThresholdMs
    MaxLag,             \* bound on the time between two passes
    CompressorReadings, \* what COMPRESSOR_TEMP may read
    SuctionReadings,    \* what SUCTION_TEMP may read
    AmbientReadings,    \* what AMBIENT_TEMP may read
    CondenserReadings,  \* what CONDENSER_TEMP may read
    LpsLevels,          \* levels the LPS input may have
    DftLevels,          \* levels the DFT input may have
    Thermostat,         \* the <<Y, O>> pairs the thermostat may drive
    InputPoints,        \* the points of a pass at which Y and O may change
    Requests,           \* the kinds of calls the web tasks make
    CallPoints,         \* the points of a pass at which they may be served
    OverridePoints      \* and those at which the override is switched

Points == {"idle", "compressor", "suction", "highSuction", "lps", "ambient",
           "y", "runtime", "state", "defrost"}
Timers == {"startup", "override", "Y", "CNT", "phase", "defrost", "accum"}

ASSUME TimesAssumption ==
    /\ {Lockout, OverrideTimeout, CntShortCycle, OffWindow, RvShortCycle,
        MinRuntime, DefrostTimeout} \subseteq Nat
    /\ {HeatThreshold, MaxLag} \subseteq Nat \ {0}

ASSUME EnvironmentAssumption ==
    /\ CompressorReadings \subseteq {"none", "cool", "warm", "hot"}
    /\ SuctionReadings \subseteq {"none", "critical", "low", "normal", "high"}
    /\ AmbientReadings \subseteq {"none", "cold", "mild"}
    /\ CondenserReadings \subseteq {"none", "cold", "warm"}
    /\ "none" \in CompressorReadings \cap SuctionReadings
                    \cap AmbientReadings \cap CondenserReadings
    /\ LpsLevels \subseteq BOOLEAN /\ LpsLevels # {}
    /\ DftLevels \subseteq BOOLEAN /\ DftLevels # {}
    /\ Thermostat \subseteq BOOLEAN \X BOOLEAN
    /\ InputPoints \subseteq Points
    /\ Requests \subseteq {"override", "output", "force", "clear"}
    /\ CallPoints \subseteq Points
    /\ OverridePoints \subseteq Points

VARIABLES
    pc,             \* the check update() runs next; "idle" between passes
    y, o,           \* levels of the Y and O inputs, read live by each check
    lockout,        \* _startupLockout
    manualOverride, \* _manualOverride
    state,          \* _state
    yWasActive,     \* _yWasActive
    cntActivated,   \* _cntActivated
    on,             \* the outputs whose relay is energised
    faults,         \* the fault flags that are set
    defrost,        \* the defrost flags that are set; "timed" is
                    \* _defrostStartTick # 0
    heatRuntime,    \* _heatRuntimeMs, saturating at HeatThreshold
    age             \* for each timer, the time since it was started

vars == <<pc, y, o, lockout, manualOverride, state, yWasActive, cntActivated,
          on, faults, defrost, heatRuntime, age>>
inputs == <<y, o>>
modes == <<lockout, manualOverride>>

Outputs == {"FAN", "CNT", "W", "RV"}
States == {"OFF", "COOL", "HEAT", "DEFROST", "ERROR", "LOW_TEMP"}
Faults == {"compressor", "suction", "lps", "lowTemp", "rvFail", "highSuction"}
Phases == {"transition", "cntPending", "exiting"}
Flags == Phases \cup {"software", "timed"}

TypeOK ==
    /\ pc \in Points
    /\ y \in BOOLEAN /\ o \in BOOLEAN
    /\ lockout \in BOOLEAN /\ manualOverride \in BOOLEAN
    /\ state \in States
    /\ yWasActive \in BOOLEAN /\ cntActivated \in BOOLEAN
    /\ on \subseteq Outputs
    /\ faults \subseteq Faults
    /\ defrost \subseteq Flags
    /\ heatRuntime \in 0..HeatThreshold
    /\ age \in [Timers -> Nat]

-----------------------------------------------------------------------------
(* Timers *)

Smaller(a, b) == IF a < b THEN a ELSE b
Larger(a, b) == IF a < b THEN b ELSE a

\* Where an age stops growing: no comparison of the code tells later ages apart.
Limit(t) ==
    CASE t = "startup"  -> Lockout
      [] t = "override" -> OverrideTimeout
      [] t = "Y"        -> CntShortCycle
      [] t = "CNT"      -> Larger(OffWindow, RvShortCycle)
      [] t = "phase"    -> Larger(CntShortCycle, RvShortCycle)
      [] t = "defrost"  -> DefrostTimeout
      [] t = "accum"    -> HeatThreshold

\* The timers whose start tick the code may still read.
Running(t) ==
    CASE t = "startup"  -> lockout
      [] t = "override" -> manualOverride
      [] t = "Y"        -> yWasActive
      [] t = "CNT"      -> "CNT" \notin on
      [] t = "phase"    -> defrost \cap {"transition", "cntPending"} # {}
      [] t = "defrost"  -> "timed" \in defrost
      [] t = "accum"    -> TRUE

Elapsed(d) ==
    [t \in Timers |-> IF Running(t) THEN Smaller(age[t] + d, Limit(t)) ELSE 0]

Restarted(T) == [t \in Timers |-> IF t \in T THEN 0 ELSE age[t]]

-----------------------------------------------------------------------------
(* Steps shared by several handlers.  An operator named Wrong... is its        *)
(* neighbour with a bug the runs must notice; no action uses it.               *)

\* "if (cnt->isOn()) { cnt->turnOff(); _cntActivated = false; }", with the
\* relays of off released and those of turnOn energised after it.
WrongShutDownForgetsFlag(off, turnOn) ==
    /\ on' = (on \ ({"CNT"} \cup off)) \cup turnOn
    /\ cntActivated' = cntActivated
    /\ age' = Restarted(on \cap {"CNT"})

ShutDownCnt(off, turnOn) ==
    /\ on' = (on \ ({"CNT"} \cup off)) \cup turnOn
    /\ cntActivated' = (cntActivated /\ "CNT" \notin on)
    /\ age' = Restarted(on \cap {"CNT"})

WrongStartKeepsCnt ==
    /\ on' = on \ {"FAN"}
    /\ cntActivated' = cntActivated
    /\ defrost' = defrost \cup {"software", "transition"}
    /\ age' = Restarted({"phase"})

StartSoftwareDefrost ==
    /\ on' = on \ {"CNT", "FAN"}
    /\ cntActivated' = FALSE
    /\ defrost' = defrost \cup {"software", "transition"}
    /\ age' = Restarted({"CNT", "phase"})

\* The exit transition is skipped when Y has gone.  The caller sets defrost'
\* from ExitFlags, and starts the timers of newly in the same step.
WrongExitWithoutPhase == IF y THEN {"exiting"} ELSE {}

ExitFlags == IF y THEN {"exiting", "transition"} ELSE {}

WrongStopKeepsRuntime(newly) ==
    /\ on' = IF y THEN on \ {"CNT", "FAN"} ELSE {}
    /\ cntActivated' = FALSE
    /\ faults' = faults \ {"highSuction"}
    /\ UNCHANGED heatRuntime
    /\ age' = Restarted({"CNT", "phase"} \cup newly)

StopSoftwareDefrost(newly) ==
    /\ on' = IF y THEN on \ {"CNT", "FAN"} ELSE {}
    /\ cntActivated' = FALSE
    /\ faults' = faults \ {"highSuction"}
    /\ heatRuntime' = 0
    /\ age' = Restarted({"CNT", "phase"} \cup newly)

-----------------------------------------------------------------------------
(* One pass of update() *)

\* Entry of update(): nothing runs during the startup lockout, and under manual
\* override only its timeout is checked, which releases every relay.
BeginUpdate ==
    /\ pc = "idle"
    /\ \E d \in 1..MaxLag :
         LET now == Elapsed(d)
             expired == manualOverride /\ now["override"] >= OverrideTimeout
         IN  /\ lockout' = (lockout /\ now["startup"] < Lockout)
             /\ \/ /\ lockout' \/ (manualOverride /\ ~expired)
                   /\ age' = now
                   /\ UNCHANGED <<pc, manualOverride, on, cntActivated>>
                \/ /\ ~lockout' /\ expired
                   /\ manualOverride' = FALSE
                   /\ on' = {}
                   /\ cntActivated' = FALSE
                   /\ age' = [now EXCEPT !["CNT"] = 0]
                   /\ UNCHANGED pc
                \/ /\ ~lockout' /\ ~manualOverride
                   /\ pc' = "compressor"
                   /\ age' = now
                   /\ UNCHANGED <<manualOverride, on, cntActivated>>
    /\ UNCHANGED <<y, o, state, yWasActive, faults, defrost, heatRuntime>>

CheckCompressorTemp ==
    /\ pc = "compressor" /\ pc' = "suction"
    /\ \E t \in CompressorReadings :
         \/ /\ t = "hot" /\ "compressor" \notin faults
            /\ faults' = faults \cup {"compressor"}
            /\ ShutDownCnt({}, {"FAN"})
         \/ /\ t = "cool" /\ "compressor" \in faults
            /\ faults' = faults \ {"compressor"}
            /\ UNCHANGED <<on, cntActivated, age>>
         \/ /\ IF "compressor" \in faults THEN t # "cool" ELSE t # "hot"
            /\ UNCHANGED <<faults, on, cntActivated, age>>
    /\ UNCHANGED <<inputs, modes, state, yWasActive, defrost, heatRuntime>>

\* The fault is raised in COOL only, and dropped without a reading as soon as
\* the state is neither COOL nor ERROR.
CheckSuctionTemp ==
    /\ pc = "suction" /\ pc' = "highSuction"
    /\ \E t \in SuctionReadings :
         LET raise == t = "critical" /\ state = "COOL" /\ "suction" \notin faults
             clear == /\ "suction" \in faults
                      /\ state \in {"COOL", "ERROR"} => t \in {"normal", "high"}
         IN  \/ /\ raise
                /\ faults' = faults \cup {"suction"}
                /\ ShutDownCnt({}, {"FAN"})
             \/ /\ clear
                /\ faults' = faults \ {"suction"}
                /\ UNCHANGED <<on, cntActivated, age>>
             \/ /\ ~raise /\ ~clear
                /\ UNCHANGED <<faults, on, cntActivated, age>>
    /\ UNCHANGED <<inputs, modes, state, yWasActive, defrost, heatRuntime>>

\* A hot suction line while no phase is running latches the RV failure and
\* drops the defrost, without clearing its start tick.
CheckHighSuctionTemp ==
    /\ pc = "highSuction" /\ pc' = "lps"
    /\ \E t \in SuctionReadings :
         LET raise == /\ "software" \in defrost
                      /\ defrost \cap {"transition", "cntPending"} = {}
                      /\ t = "high" /\ "highSuction" \notin faults
         IN  \/ /\ raise
                /\ faults' = faults \cup {"highSuction", "rvFail"}
                /\ ShutDownCnt({"RV"}, {"FAN"} \cup
                                       (IF y /\ ~o THEN {"W"} ELSE {}))
                /\ defrost' = defrost \ {"software"}
                /\ heatRuntime' = 0
             \/ /\ ~raise
                /\ UNCHANGED <<faults, on, cntActivated, age, defrost,
                               heatRuntime>>
    /\ UNCHANGED <<inputs, modes, state, yWasActive>>

CheckLPSFault ==
    /\ pc = "lps" /\ pc' = "ambient"
    /\ \/ /\ "compressor" \in faults
          /\ UNCHANGED <<faults, state, on, cntActivated, age>>
       \/ /\ "compressor" \notin faults
          /\ \E lps \in LpsLevels :
               \/ /\ ~lps /\ "lps" \notin faults
                  /\ faults' = faults \cup {"lps"}
                  /\ state' = "ERROR"
                  /\ ShutDownCnt({}, IF y /\ ~o THEN {"W"} ELSE {})
               \/ /\ lps /\ "lps" \in faults
                  /\ faults' = faults \ {"lps"}
                  /\ on' = on \ {"W"}
                  /\ age' = Restarted(IF yWasActive THEN {"Y"} ELSE {})
                  /\ UNCHANGED <<state, cntActivated>>
               \/ /\ lps = ("lps" \notin faults)
                  /\ UNCHANGED <<faults, state, on, cntActivated, age>>
    /\ UNCHANGED <<inputs, modes, yWasActive, defrost, heatRuntime>>

CheckAmbientTemp ==
    /\ pc = "ambient" /\ pc' = "y"
    /\ \/ /\ faults \cap {"compressor", "lps"} # {}
          /\ UNCHANGED <<faults, state, on, cntActivated, age>>
       \/ /\ faults \cap {"compressor", "lps"} = {}
          /\ \E t \in AmbientReadings :
               \/ /\ t = "cold" /\ "lowTemp" \notin faults
                  /\ faults' = faults \cup {"lowTemp"}
                  /\ state' = "LOW_TEMP"
                  /\ ShutDownCnt({"FAN", "RV"}, IF o THEN {} ELSE {"W"})
               \/ /\ t = "cold" /\ "lowTemp" \in faults
                  /\ on' = IF o THEN on \ {"W"} ELSE on
                  /\ UNCHANGED <<faults, state, cntActivated, age>>
               \/ /\ t = "mild" /\ "lowTemp" \in faults
                  /\ faults' = faults \ {"lowTemp"}
                  /\ on' = on \ {"W"}
                  /\ UNCHANGED <<state, cntActivated, age>>
               \/ /\ t = "none" \/ (t = "mild" /\ "lowTemp" \notin faults)
                  /\ UNCHANGED <<faults, state, on, cntActivated, age>>
    /\ UNCHANGED <<inputs, modes, yWasActive, defrost, heatRuntime>>

WrongStartIgnoresRvFail ==
    /\ faults \cap (Faults \ {"highSuction", "rvFail"}) = {}
    /\ defrost \cap {"software", "exiting"} = {}
    /\ age["CNT"] >= OffWindow \/ age["Y"] >= CntShortCycle

WrongStartDuringExit ==
    /\ faults \cap (Faults \ {"highSuction"}) = {}
    /\ "software" \notin defrost
    /\ age["CNT"] >= OffWindow \/ age["Y"] >= CntShortCycle

WrongStartAtOnce ==
    /\ faults \cap (Faults \ {"highSuction"}) = {}
    /\ defrost \cap {"software", "exiting"} = {}

\* CNT may restart at once after a long stop, else when Y has been active long
\* enough.
CntMayStart ==
    /\ faults \cap (Faults \ {"highSuction"}) = {}
    /\ defrost \cap {"software", "exiting"} = {}
    /\ age["CNT"] >= OffWindow \/ age["Y"] >= CntShortCycle

CheckYAndActivateCNT ==
    /\ pc = "y" /\ pc' = "runtime"
    /\ \/ /\ y /\ ~yWasActive
          /\ yWasActive' = TRUE
          /\ on' = IF state = "DEFROST" THEN on ELSE on \cup {"FAN"}
          /\ age' = Restarted({"Y"})
          /\ UNCHANGED <<cntActivated, defrost>>
       \/ /\ ~y /\ yWasActive
          /\ yWasActive' = FALSE
          /\ cntActivated' = FALSE
          /\ LET sequence == defrost \cap {"software", "exiting"} # {}
             IN  /\ on' = on \ ({"FAN"}
                                \cup (IF cntActivated THEN {"CNT"} ELSE {})
                                \cup (IF sequence THEN {"RV", "W"} ELSE {}))
                 /\ defrost' = IF sequence THEN defrost \ Phases ELSE defrost
          /\ age' = Restarted(IF cntActivated THEN {"CNT"} ELSE {})
       \/ /\ y /\ yWasActive /\ ~cntActivated /\ CntMayStart
          /\ on' = on \cup {"CNT"}
          /\ cntActivated' = TRUE
          /\ UNCHANGED <<yWasActive, defrost, age>>
       \/ /\ y = yWasActive
          /\ y => cntActivated \/ ~CntMayStart
          /\ UNCHANGED <<yWasActive, cntActivated, on, defrost, age>>
    /\ UNCHANGED <<inputs, modes, state, faults, heatRuntime>>

\* The code's sum has no bound; past the threshold its comparisons tell no two
\* values apart.
AccumulatedRuntime == Smaller(heatRuntime + age["accum"], HeatThreshold)

AccumulateHeatRuntime ==
    /\ pc = "runtime" /\ pc' = "state"
    /\ \E dft \in DftLevels :
         heatRuntime' =
           IF state = "COOL" \/ (~dft /\ "software" \notin defrost) THEN 0
           ELSE IF dft /\ state = "HEAT" /\ "CNT" \in on
                       /\ "software" \notin defrost
             THEN AccumulatedRuntime
             ELSE heatRuntime
    /\ age' = Restarted({"accum"})
    /\ UNCHANGED <<inputs, modes, state, yWasActive, cntActivated, on, faults,
                   defrost>>

\* The state the inputs ask for.  A defrost that meets a COOL call is dropped.
RequestedState ==
    IF ~y THEN "OFF"
    ELSE IF o THEN "COOL"
    ELSE IF "software" \in defrost THEN "DEFROST" ELSE "HEAT"

CancelsDefrost == "software" \in defrost /\ y /\ o

\* The relays after a change of state to new, from the relays r, with the
\* defrost flags d.
RelaysOnChange(new, r, d) ==
    LET reversing == d \cap {"software", "exiting"} # {}
        turnOn ==
          (IF ~reversing /\ new = "COOL" THEN {"RV"} ELSE {})
          \cup (IF \/ new = "DEFROST" /\ "transition" \notin d
                   \/ new = "HEAT" /\ "rvFail" \in faults
                THEN {"W"} ELSE {})
          \cup (IF state = "DEFROST" /\ y /\ "exiting" \notin d
                THEN {"FAN"} ELSE {})
        off ==
          (IF ~reversing /\ new \in {"HEAT", "OFF"} THEN {"RV"} ELSE {})
          \cup (IF "exiting" \notin d THEN {"W"} ELSE {})
          \cup (IF new = "DEFROST" THEN {"FAN", "CNT"} ELSE {})
    IN  (r \ off) \cup turnOn

UpdateState ==
    /\ pc = "state" /\ pc' = "defrost"
    /\ \/ /\ faults \cap {"lps", "lowTemp"} # {}
          /\ UNCHANGED <<state, on, cntActivated, defrost, heatRuntime, age>>
       \/ /\ faults \cap {"lps", "lowTemp"} = {}
          /\ state' = RequestedState
          /\ LET resume == state' = "DEFROST" /\ state # "DEFROST"
                 kept == IF CancelsDefrost
                         THEN defrost \ {"software", "transition", "cntPending"}
                         ELSE defrost
                 left == IF CancelsDefrost THEN on \ {"CNT", "RV", "W"} ELSE on
             IN  /\ on' = IF state' = state THEN left
                          ELSE RelaysOnChange(state', left, kept)
                 /\ defrost' = IF resume
                               THEN (kept \cup {"transition"}) \ {"cntPending"}
                               ELSE kept
                 /\ cntActivated' = (cntActivated /\ ~CancelsDefrost /\ ~resume)
                 /\ heatRuntime' = IF CancelsDefrost THEN 0 ELSE heatRuntime
                 /\ age' = Restarted((IF CancelsDefrost THEN {"CNT"} ELSE {})
                               \cup (IF resume THEN {"CNT", "phase"} ELSE {}))
    /\ UNCHANGED <<inputs, modes, yWasActive, faults>>

-----------------------------------------------------------------------------
(* checkDefrostNeeded(), the last check of a pass, branch by branch *)

AtDefrostCheck == pc = "defrost" /\ pc' = "idle"

WrongHaltOnExitOnly == ~y /\ "exiting" \in defrost

SequenceHalted == ~y /\ defrost \cap Phases # {}

AbortSequence ==
    /\ AtDefrostCheck /\ SequenceHalted
    /\ on' = {}
    /\ cntActivated' = FALSE
    /\ defrost' = defrost \ Phases
    /\ age' = Restarted({"CNT"})
    /\ UNCHANGED <<inputs, modes, state, yWasActive, faults, heatRuntime>>

WrongPhase1Delay == age["phase"] >= CntShortCycle

Phase1Over == age["phase"] >= RvShortCycle

\* Phase 1 of the entry ends with RV and W on, of the exit with both off.
WrongReversalForgetsRv ==
    IF "exiting" \in defrost THEN on \ {"RV", "W"} ELSE on \cup {"W"}

ReversedRelays ==
    IF "exiting" \in defrost THEN on \ {"RV", "W"} ELSE on \cup {"RV", "W"}

EndPhase1 ==
    /\ AtDefrostCheck /\ ~SequenceHalted
    /\ "transition" \in defrost /\ Phase1Over
    /\ on' = ReversedRelays
    /\ defrost' = (defrost \ {"transition"}) \cup {"cntPending"}
    /\ age' = Restarted({"phase"})
    /\ UNCHANGED <<inputs, modes, state, yWasActive, cntActivated, faults,
                   heatRuntime>>

\* Phase 2 ends with CNT on: the defrost is active and timed, or, on exit, the
\* FAN is back on with it.
EndPhase2 ==
    /\ AtDefrostCheck /\ ~SequenceHalted
    /\ "transition" \notin defrost /\ "cntPending" \in defrost
    /\ age["phase"] >= CntShortCycle
    /\ cntActivated' = TRUE
    /\ \/ /\ "exiting" \in defrost
          /\ on' = on \cup {"CNT", "FAN"}
          /\ defrost' = defrost \ {"cntPending", "exiting"}
          /\ UNCHANGED age
       \/ /\ "exiting" \notin defrost
          /\ on' = on \cup {"CNT"}
          /\ defrost' = (defrost \ {"cntPending"}) \cup {"timed"}
          /\ age' = Restarted({"defrost"})
    /\ UNCHANGED <<inputs, modes, state, yWasActive, faults, heatRuntime>>

WrongDoneWithoutTimeout(t) ==
    "timed" \in defrost /\ age["defrost"] >= MinRuntime /\ t = "warm"

\* An active defrost past its minimum stops on its timeout or on a warm
\* condenser.
DefrostDone(t) ==
    /\ "timed" \in defrost
    /\ age["defrost"] >= MinRuntime
    /\ age["defrost"] >= DefrostTimeout \/ t = "warm"

EndDefrost ==
    /\ AtDefrostCheck
    /\ defrost \cap {"transition", "cntPending"} = {}
    /\ "software" \in defrost
    /\ \E t \in CondenserReadings : DefrostDone(t)
    /\ ~SequenceHalted
    /\ StopSoftwareDefrost({})
    /\ defrost' = ExitFlags
    /\ UNCHANGED <<inputs, modes, state, yWasActive>>

StartDefrost ==
    /\ AtDefrostCheck /\ ~SequenceHalted
    /\ defrost \cap {"transition", "cntPending", "software"} = {}
    /\ heatRuntime >= HeatThreshold
    /\ StartSoftwareDefrost
    /\ UNCHANGED <<inputs, modes, state, yWasActive, faults, heatRuntime>>

\* The passes on which checkDefrostNeeded() changes nothing.
NothingDue ==
    /\ AtDefrostCheck /\ ~SequenceHalted
    /\ CASE "transition" \in defrost -> ~Phase1Over
         [] "transition" \notin defrost /\ "cntPending" \in defrost ->
              age["phase"] < CntShortCycle
         [] defrost \cap {"transition", "cntPending"} = {} ->
              IF "software" \in defrost
              THEN \E t \in CondenserReadings : ~DefrostDone(t)
              ELSE heatRuntime < HeatThreshold
    /\ UNCHANGED <<inputs, modes, state, yWasActive, cntActivated, on, faults,
                   defrost, heatRuntime, age>>

CheckDefrostNeeded ==
    \/ AbortSequence \/ EndPhase1 \/ EndPhase2
    \/ EndDefrost \/ StartDefrost \/ NothingDue

Update ==
    \/ BeginUpdate
    \/ CheckCompressorTemp \/ CheckSuctionTemp \/ CheckHighSuctionTemp
    \/ CheckLPSFault \/ CheckAmbientTemp \/ CheckYAndActivateCNT
    \/ AccumulateHeatRuntime \/ UpdateState \/ CheckDefrostNeeded

-----------------------------------------------------------------------------
(* Calls of the web tasks, and the thermostat *)

WrongOverrideRenewed == TRUE

OverrideIsNew == ~manualOverride

EnableManualOverride ==
    /\ pc \in OverridePoints /\ "override" \in Requests
    /\ OverrideIsNew /\ manualOverride' = TRUE
    /\ \/ /\ "software" \in defrost
          /\ StopSoftwareDefrost({"override"})
          /\ defrost' = ExitFlags \ {"exiting"}
       \/ /\ "software" \notin defrost
          /\ age' = Restarted({"override"})
          /\ defrost' = defrost \ {"exiting"}
          /\ UNCHANGED <<on, cntActivated, faults, heatRuntime>>
    /\ UNCHANGED <<pc, inputs, lockout, state, yWasActive>>

DisableManualOverride ==
    /\ pc \in OverridePoints /\ "override" \in Requests
    /\ manualOverride /\ manualOverride' = FALSE
    /\ on' = {}
    /\ cntActivated' = FALSE
    /\ age' = Restarted({"CNT"})
    /\ UNCHANGED <<pc, inputs, lockout, state, yWasActive, faults, defrost,
                   heatRuntime>>

\* CNT is refused for the short cycle delay after it went off.
SetManualOutput(name, level) ==
    /\ pc \in CallPoints /\ "output" \in Requests
    /\ manualOverride
    /\ (name = "CNT" /\ level) =>
           age["CNT"] >= OffWindow \/ age["CNT"] >= CntShortCycle
    /\ on' = IF level THEN on \cup {name} ELSE on \ {name}
    /\ cntActivated' = IF name = "CNT" THEN level ELSE cntActivated
    /\ age' = Restarted(IF level THEN {} ELSE {name} \cap {"CNT"})
    /\ UNCHANGED <<pc, inputs, modes, state, yWasActive, faults, defrost,
                   heatRuntime>>

ForceDefrost ==
    /\ pc \in CallPoints /\ "force" \in Requests
    /\ ~manualOverride
    /\ defrost \cap {"software", "exiting"} = {}
    /\ state = "HEAT"
    /\ faults \cap {"lps", "compressor", "lowTemp", "rvFail"} = {}
    /\ StartSoftwareDefrost
    /\ UNCHANGED <<pc, inputs, modes, state, yWasActive, faults, heatRuntime>>

ClearRvFail ==
    /\ pc \in CallPoints /\ "clear" \in Requests
    /\ faults' = faults \ {"rvFail", "highSuction"}
    /\ on' = on \ {"W"}
    /\ UNCHANGED <<pc, inputs, modes, state, yWasActive, cntActivated, defrost,
                   heatRuntime, age>>

WebRequest ==
    \/ EnableManualOverride \/ DisableManualOverride
    \/ \E name \in Outputs, level \in BOOLEAN : SetManualOutput(name, level)
    \/ ForceDefrost \/ ClearRvFail

ThermostatCall ==
    /\ pc \in InputPoints
    /\ \E call \in Thermostat : y' = call[1] /\ o' = call[2]
    /\ UNCHANGED <<pc, modes, state, yWasActive, cntActivated, on, faults,
                   defrost, heatRuntime, age>>

-----------------------------------------------------------------------------
\* After setup() and begin(): every relay off, the lockout running, and the
\* heat runtime, the RV failure and a pending defrost restored from the
\* configuration.  A save never finds the failure with a defrost or a runtime.
Init ==
    /\ pc = "idle"
    /\ \E call \in Thermostat : y = call[1] /\ o = call[2]
    /\ lockout = TRUE /\ manualOverride = FALSE
    /\ state = "OFF"
    /\ yWasActive = FALSE /\ cntActivated = FALSE
    /\ on = {}
    /\ \/ faults = {} /\ defrost \in {{}, {"software"}}
          /\ heatRuntime \in 0..HeatThreshold
       \/ faults = {"rvFail"} /\ defrost = {} /\ heatRuntime = 0
    /\ age = [t \in Timers |-> 0]

Next == Update \/ WebRequest \/ ThermostatCall

Spec == Init /\ [][Next]_vars

\* The scheduler keeps running update(); nothing makes a user or a thermostat
\* act.
FairSpec == Spec /\ WF_vars(Update)

-----------------------------------------------------------------------------
(* Properties *)

Reversing == defrost \cap {"software", "exiting"} # {}
Waiting == defrost \cap {"transition", "cntPending"} # {}
CntOn == "CNT" \in on

\* _cntActivated, which alone decides whether a Y drop or checkY touches the
\* contactor, never disagrees with the relay, whoever switched it last.
CntFlagMirrorsRelay == cntActivated <=> CntOn

\* While a defrost or its exit waits out a phase, the compressor is off: no
\* check, web call or thermostat change starts it before the phase ends.
WaitingHoldsCntOff == Reversing /\ Waiting /\ ~manualOverride => ~CntOn

\* "RV fail latched - CNT blocked until cleared": no path restarts the
\* compressor while the failure is latched, except an operator's override.
RvFailBlocksCnt == "rvFail" \in faults /\ ~manualOverride => ~CntOn

\* In DEFROST, a compressor that runs past the phases of the defrost runs with
\* the reversing valve energised.  A low ambient temperature releases the valve,
\* and leaves DEFROST with it.
ActiveDefrostReversed ==
    /\ state = "DEFROST" /\ "software" \in defrost /\ ~Waiting
    /\ CntOn /\ ~manualOverride
    => "RV" \in on

\* An active defrost is timed, and no pass leaves it running past the safety
\* timeout, however often Y came and went before.
DefrostBounded ==
    "software" \in defrost /\ ~Waiting /\ CntOn /\ pc = "idle" =>
        "timed" \in defrost /\ age["defrost"] < DefrostTimeout

\* The defrost exit is always in one of its two phases, from which only time or
\* a Y drop leads out, and it never overlaps a defrost.
ExitInPhase == "exiting" \in defrost => Waiting /\ "software" \notin defrost

\* The valve is energised for a defrost only after the compressor has been off
\* for the whole pressure equalisation time (phase 1).
ReversesForDefrost ==
    /\ "software" \in defrost /\ "software" \in defrost'
    /\ "RV" \notin on /\ "RV" \in on'
    /\ ~manualOverride

EqualisedBeforeReversal ==
    [][ReversesForDefrost => age["CNT"] >= RvShortCycle]_vars

\* Bug #1 of the repository: with Y steady during a pass, no path leaves the
\* compressor running after a pass that saw no call, however the defrost began.
CompressorNeedsCall ==
    CntOn /\ pc = "idle" /\ ~manualOverride => yWasActive

\* The 30-minute limit: an override ends even if the page keeps asking for it.
OverrideEnds == manualOverride ~> ~manualOverride

\* An exit transition is left, by its timers, a Y drop or an override.
ExitEnds == "exiting" \in defrost ~> "exiting" \notin defrost

\* A call for heat that stays, with no fault and no override, runs the
\* compressor again and again: the defrost cycle never locks the system up.
HeatCallServed ==
    <>[](y /\ ~o /\ ~manualOverride /\ faults = {}) => []<>CntOn

\* Where the flags put the defrost in DefrostSequence.
SequencePhase ==
    CASE "software" \in defrost /\ "transition" \in defrost -> "equalise"
      [] "software" \in defrost /\ "transition" \notin defrost
           /\ "cntPending" \in defrost -> "reversed"
      [] "software" \in defrost /\ ~Waiting -> "defrosting"
      [] "software" \notin defrost /\ "exiting" \in defrost ->
           IF "transition" \in defrost THEN "exitEqualise" ELSE "exitReversed"
      [] OTHER -> "none"

\* The defrost as DefrostSequence tells it, for a controller whose override, if
\* any, is served between passes.
Sequence == INSTANCE DefrostSequence WITH
    phase <- SequencePhase, running <- CntOn

FollowsSequence == Sequence!SeqSpec

\* What a restart restores, as SavedState tells it, for an override served
\* between passes: a latched failure leaves nothing of a defrost to resume, so
\* that what the save task finds is always a state that Init may restore.
Saved == INSTANCE SavedState WITH
    Threshold <- HeatThreshold,
    live <- [runtime |-> heatRuntime, defrost |-> "software" \in defrost,
             rvFail |-> "rvFail" \in faults]

KeepsSavedState == Saved!LiveSpec

-----------------------------------------------------------------------------
(* What the repository says and the code does not keep *)

\* README, each fault: "Blocks CNT activation while ... is active".
FaultBlocksCnt ==
    faults \cap {"lps", "lowTemp", "compressor"} # {} /\ ~manualOverride =>
        ~CntOn

\* README, RV: "ON in COOL".
CoolRunsReversed ==
    state = "COOL" /\ CntOn /\ pc = "idle" /\ ~manualOverride => "RV" \in on

\* README, RV: "OFF in HEAT/OFF".  The phase flags that an override leaves
\* behind reverse the valve in HEAT, under a running compressor.
HeatRunsUnreversed ==
    state = "HEAT" /\ CntOn /\ pc = "idle" /\ ~manualOverride =>
        "RV" \notin on

\* checkDefrostNeeded(): "defrost will resume from Phase 1 when Y reactivates".
PendingDefrostResumes ==
    <>[](y /\ ~o /\ ~manualOverride /\ faults = {}) =>
        ~<>[]("software" \in defrost /\ ~Waiting /\ ~CntOn)

=============================================================================
