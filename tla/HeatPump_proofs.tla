--------------------------- MODULE HeatPump_proofs ---------------------------
(***************************************************************************)
(* Theorems about HeatPump, for every value of its constants: every delay, *)
(* every sensor alphabet, every point of preemption.  After the types come *)
(* the contactor's invariants: ControlInv needs no assumption, it holds    *)
(* with requests and thermostat changes at every point of a pass.  A       *)
(* latched failure and the call for heat follow, with what they assume.    *)
(***************************************************************************)
EXTENDS HeatPump, TLAPS

\* Time only moves forward, and never leaves the naturals.
LEMMA ElapsedType ==
    ASSUME TypeOK, NEW d \in 1..MaxLag
    PROVE  /\ Elapsed(d) \in [Timers -> Nat]
           /\ \A t \in Timers : Limit(t) \in Nat
  <1>1. \A t \in Timers : Limit(t) \in Nat
    BY TimesAssumption DEF Timers, Limit, Larger
  <1>2. \A t \in Timers : Smaller(age[t] + d, Limit(t)) \in Nat
    BY <1>1, TimesAssumption DEF TypeOK, Smaller
  <1>3. QED
    BY <1>1, <1>2 DEF Elapsed

LEMMA RestartedType ==
    ASSUME TypeOK, NEW T
    PROVE  Restarted(T) \in [Timers -> Nat]
  BY DEF TypeOK, Restarted

\* A cleared heat runtime is one of the runtimes.
LEMMA ZeroRuntime == 0 \in 0..HeatThreshold
  BY TimesAssumption

LEMMA InitTypeOK == Init => TypeOK
  <1> SUFFICES ASSUME Init PROVE TypeOK
    OBVIOUS
  <1>1. y \in BOOLEAN /\ o \in BOOLEAN
    <2>1. PICK call \in Thermostat : y = call[1] /\ o = call[2]
      BY DEF Init
    <2>2. call \in BOOLEAN \X BOOLEAN
      BY EnvironmentAssumption
    <2>3. QED
      BY <2>1, <2>2
  <1>2. age \in [Timers -> Nat]
    BY DEF Init
  <1>3. /\ faults \subseteq Faults
        /\ defrost \subseteq Flags
        /\ heatRuntime \in 0..HeatThreshold
    BY ZeroRuntime DEF Init, Faults, Flags, Phases
  <1>4. QED
    BY <1>1, <1>2, <1>3 DEF Init, TypeOK, Points, States, Outputs

\* The checks of a pass keep the types.
LEMMA UpdateTypeOK == TypeOK /\ Update => TypeOK'
  <1> SUFFICES ASSUME TypeOK, Update PROVE TypeOK'
    OBVIOUS
  <1> USE RestartedType DEF TypeOK, Points, States, Outputs, Faults, Flags, Phases, inputs,
                            modes
  <1>1. CASE BeginUpdate
    <2>1. PICK d \in 1..MaxLag :
            \/ age' = Elapsed(d) /\ UNCHANGED <<on, cntActivated>>
            \/ /\ age' = [Elapsed(d) EXCEPT !["CNT"] = 0]
               /\ on' = {} /\ cntActivated' = FALSE
      BY <1>1 DEF BeginUpdate
    <2>2. age' \in [Timers -> Nat]
      BY <2>1, ElapsedType
    <2>3. QED
      BY <1>1, <2>1, <2>2 DEF BeginUpdate
  <1>2. CASE CheckCompressorTemp
    <2>1. faults' \subseteq Faults
      BY <1>2 DEF CheckCompressorTemp, ShutDownCnt
    <2>2. on' \subseteq Outputs
      BY <1>2 DEF CheckCompressorTemp, ShutDownCnt
    <2>3. cntActivated' \in BOOLEAN
      BY <1>2 DEF CheckCompressorTemp, ShutDownCnt
    <2>4. age' = age \/ age' = Restarted(on \cap {"CNT"})
      BY <1>2 DEF CheckCompressorTemp, ShutDownCnt
    <2>5. QED
      BY <1>2, <2>1, <2>2, <2>3, <2>4 DEF CheckCompressorTemp
  <1>3. CASE CheckSuctionTemp
    <2>1. faults' \subseteq Faults
      BY <1>3 DEF CheckSuctionTemp, ShutDownCnt
    <2>2. on' \subseteq Outputs
      BY <1>3 DEF CheckSuctionTemp, ShutDownCnt
    <2>3. cntActivated' \in BOOLEAN
      BY <1>3 DEF CheckSuctionTemp, ShutDownCnt
    <2>4. age' = age \/ age' = Restarted(on \cap {"CNT"})
      BY <1>3 DEF CheckSuctionTemp, ShutDownCnt
    <2>5. QED
      BY <1>3, <2>1, <2>2, <2>3, <2>4 DEF CheckSuctionTemp
  <1>4. CASE CheckHighSuctionTemp
    <2>1. faults' \subseteq Faults
      BY <1>4 DEF CheckHighSuctionTemp, ShutDownCnt
    <2>2. defrost' \subseteq Flags /\ heatRuntime' \in 0..HeatThreshold
      BY <1>4, ZeroRuntime DEF CheckHighSuctionTemp, ShutDownCnt
    <2>3. on' \subseteq Outputs
      BY <1>4 DEF CheckHighSuctionTemp, ShutDownCnt
    <2>4. cntActivated' \in BOOLEAN
      BY <1>4 DEF CheckHighSuctionTemp, ShutDownCnt
    <2>5. age' = age \/ age' = Restarted(on \cap {"CNT"})
      BY <1>4 DEF CheckHighSuctionTemp, ShutDownCnt
    <2>6. QED
      BY <1>4, <2>1, <2>2, <2>3, <2>4, <2>5 DEF CheckHighSuctionTemp
  <1>5. CASE CheckLPSFault
    <2>1. faults' \subseteq Faults
      BY <1>5 DEF CheckLPSFault, ShutDownCnt
    <2>2. state' \in States
      BY <1>5 DEF CheckLPSFault, ShutDownCnt
    <2>3. on' \subseteq Outputs
      BY <1>5 DEF CheckLPSFault, ShutDownCnt
    <2>4. cntActivated' \in BOOLEAN
      BY <1>5 DEF CheckLPSFault, ShutDownCnt
    <2>5. \/ age' = age \/ age' = Restarted(on \cap {"CNT"})
          \/ age' = Restarted(IF yWasActive THEN {"Y"} ELSE {})
      BY <1>5 DEF CheckLPSFault, ShutDownCnt
    <2>6. QED
      BY <1>5, <2>1, <2>2, <2>3, <2>4, <2>5 DEF CheckLPSFault
  <1>6. CASE CheckAmbientTemp
    <2>1. faults' \subseteq Faults
      BY <1>6 DEF CheckAmbientTemp, ShutDownCnt
    <2>2. state' \in States
      BY <1>6 DEF CheckAmbientTemp, ShutDownCnt
    <2>3. on' \subseteq Outputs
      BY <1>6 DEF CheckAmbientTemp, ShutDownCnt
    <2>4. cntActivated' \in BOOLEAN
      BY <1>6 DEF CheckAmbientTemp, ShutDownCnt
    <2>5. age' = age \/ age' = Restarted(on \cap {"CNT"})
      BY <1>6 DEF CheckAmbientTemp, ShutDownCnt
    <2>6. QED
      BY <1>6, <2>1, <2>2, <2>3, <2>4, <2>5 DEF CheckAmbientTemp
  <1>7. CASE CheckYAndActivateCNT
    <2>1. yWasActive' \in BOOLEAN /\ cntActivated' \in BOOLEAN
      BY <1>7 DEF CheckYAndActivateCNT
    <2>2. on' \subseteq Outputs
      BY <1>7 DEF CheckYAndActivateCNT
    <2>3. defrost' \subseteq Flags
      BY <1>7 DEF CheckYAndActivateCNT
    <2>4. age' \in [Timers -> Nat]
      BY <1>7 DEF CheckYAndActivateCNT
    <2>5. QED
      BY <1>7, <2>1, <2>2, <2>3, <2>4 DEF CheckYAndActivateCNT
  <1>8. CASE AccumulateHeatRuntime
    BY <1>8, TimesAssumption
       DEF AccumulateHeatRuntime, AccumulatedRuntime, Smaller, Timers
  <1>9. CASE UpdateState
    <2>1. RequestedState \in States
      BY DEF RequestedState
    <2>2. on' \subseteq Outputs
      <3>1. PICK r \in SUBSET Outputs, d \in SUBSET Flags :
              on' = r \/ on' = RelaysOnChange(state', r, d)
        <4> DEFINE kept == IF CancelsDefrost
                           THEN defrost \ {"software", "transition", "cntPending"}
                           ELSE defrost
                   left == IF CancelsDefrost THEN on \ {"CNT", "RV", "W"} ELSE on
        <4>1. \/ on' = on
              \/ on' = left
              \/ on' = RelaysOnChange(state', left, kept)
          BY <1>9 DEF UpdateState
        <4>2. left \in SUBSET Outputs /\ kept \in SUBSET Flags
          OBVIOUS
        <4>3. QED
          BY <4>1, <4>2
      <3>2. RelaysOnChange(state', r, d) \subseteq Outputs
        BY DEF RelaysOnChange
      <3>3. QED
        BY <3>1, <3>2
    <2>3. state' \in States /\ cntActivated' \in BOOLEAN /\ defrost' \subseteq Flags
      BY <1>9, <2>1 DEF UpdateState
    <2>4. heatRuntime' \in 0..HeatThreshold /\ age' \in [Timers -> Nat]
      BY <1>9, ZeroRuntime DEF UpdateState
    <2>5. QED
      BY <1>9, <2>2, <2>3, <2>4 DEF UpdateState
  <1>10. CASE CheckDefrostNeeded
    <2>1. CASE AbortSequence
      BY <2>1 DEF AbortSequence, AtDefrostCheck
    <2>2. CASE EndPhase1
      BY <2>2 DEF EndPhase1, AtDefrostCheck, ReversedRelays
    <2>3. CASE EndPhase2
      <3>1. on' \subseteq Outputs /\ defrost' \subseteq Flags
        BY <2>3 DEF EndPhase2
      <3>2. age' = age \/ age' = Restarted({"defrost"})
        BY <2>3 DEF EndPhase2
      <3>3. QED
        BY <2>3, <3>1, <3>2 DEF EndPhase2, AtDefrostCheck
    <2>4. CASE EndDefrost
      <3>1. on' \subseteq Outputs /\ faults' \subseteq Faults
        BY <2>4 DEF EndDefrost, StopSoftwareDefrost
      <3>2. heatRuntime' \in 0..HeatThreshold /\ defrost' \subseteq Flags
        BY <2>4, ZeroRuntime DEF EndDefrost, StopSoftwareDefrost, ExitFlags
      <3>3. age' \in [Timers -> Nat] /\ cntActivated' \in BOOLEAN
        BY <2>4 DEF EndDefrost, StopSoftwareDefrost
      <3>4. QED
        BY <2>4, <3>1, <3>2, <3>3 DEF EndDefrost, AtDefrostCheck
    <2>5. CASE StartDefrost
      BY <2>5 DEF StartDefrost, AtDefrostCheck, StartSoftwareDefrost
    <2>6. CASE NothingDue
      BY <2>6 DEF NothingDue, AtDefrostCheck
    <2>7. QED
      BY <1>10, <2>1, <2>2, <2>3, <2>4, <2>5, <2>6 DEF CheckDefrostNeeded
  <1>11. QED
    BY <1>1, <1>2, <1>3, <1>4, <1>5, <1>6, <1>7, <1>8, <1>9, <1>10 DEF Update

\* So do the calls of the web tasks and the thermostat.
LEMMA RequestTypeOK == TypeOK /\ (WebRequest \/ ThermostatCall) => TypeOK'
  <1> SUFFICES ASSUME TypeOK, WebRequest \/ ThermostatCall PROVE TypeOK'
    OBVIOUS
  <1> USE RestartedType DEF TypeOK, Outputs, Faults, Flags, Phases, inputs, modes
  <1>1. CASE EnableManualOverride
    <2>1. on' \subseteq Outputs /\ faults' \subseteq Faults
      BY <1>1 DEF EnableManualOverride, StopSoftwareDefrost
    <2>2. heatRuntime' \in 0..HeatThreshold /\ defrost' \subseteq Flags
      BY <1>1, ZeroRuntime
         DEF EnableManualOverride, StopSoftwareDefrost, ExitFlags
    <2>3. age' \in [Timers -> Nat] /\ cntActivated' \in BOOLEAN
      BY <1>1 DEF EnableManualOverride, StopSoftwareDefrost
    <2>4. QED
      BY <1>1, <2>1, <2>2, <2>3 DEF EnableManualOverride
  <1>2. CASE DisableManualOverride
    BY <1>2 DEF DisableManualOverride
  <1>3. ASSUME NEW name \in Outputs, NEW level \in BOOLEAN,
               SetManualOutput(name, level)
        PROVE  TypeOK'
    BY <1>3 DEF SetManualOutput
  <1>4. CASE ForceDefrost
    BY <1>4 DEF ForceDefrost, StartSoftwareDefrost
  <1>5. CASE ClearRvFail
    BY <1>5 DEF ClearRvFail
  <1>6. CASE ThermostatCall
    BY <1>6, EnvironmentAssumption DEF ThermostatCall
  <1>7. QED
    BY <1>1, <1>2, <1>3, <1>4, <1>5, <1>6 DEF WebRequest

\* Every variable keeps its type in every behaviour.
THEOREM TypeCorrect == Spec => []TypeOK
  <1>1. TypeOK /\ [Next]_vars => TypeOK'
    <2>1. CASE UNCHANGED vars
      BY <2>1 DEF vars, TypeOK
    <2>2. QED
      BY <2>1, UpdateTypeOK, RequestTypeOK DEF Next
  <1>2. QED
    BY InitTypeOK, <1>1, PTL DEF Spec

-----------------------------------------------------------------------------
(* Safety *)

\* The facts about the contactor and the exit that every other proof rests on.
ControlInv ==
    /\ TypeOK
    /\ CntFlagMirrorsRelay
    /\ WaitingHoldsCntOff
    /\ ExitInPhase

\* What a step that starts no compressor does to CNT: nothing, or the idiom
\* "if (cnt->isOn()) { cnt->turnOff(); _cntActivated = false; }".
CntKeptOrStopped ==
    \/ /\ "CNT" \in on' <=> "CNT" \in on
       /\ cntActivated' = cntActivated
    \/ /\ "CNT" \notin on'
       /\ cntActivated' = (cntActivated /\ "CNT" \notin on)

LEMMA TypeStep == TypeOK /\ [Next]_vars => TypeOK'
  <1>1. CASE UNCHANGED vars
    BY <1>1 DEF vars, TypeOK
  <1>2. QED
    BY <1>1, UpdateTypeOK, RequestTypeOK DEF Next

LEMMA InitControl == Init => ControlInv
  BY InitTypeOK DEF Init, ControlInv, CntFlagMirrorsRelay, WaitingHoldsCntOff,
                    ExitInPhase, CntOn, Waiting, Reversing

\* The checks that shut CNT down on a fault and leave the defrost flags alone.
LEMMA FaultChecksControl ==
    ControlInv /\ (CheckCompressorTemp \/ CheckSuctionTemp \/ CheckLPSFault
                     \/ CheckAmbientTemp)
      => ControlInv'
  <1> SUFFICES ASSUME ControlInv,
                      CheckCompressorTemp \/ CheckSuctionTemp \/ CheckLPSFault
                        \/ CheckAmbientTemp
               PROVE  ControlInv'
    OBVIOUS
  <1>1. TypeOK'
    BY UpdateTypeOK DEF ControlInv, Update
  <1>2. CntKeptOrStopped
    <2>1. CASE CheckCompressorTemp
      BY <2>1 DEF CheckCompressorTemp, ShutDownCnt, CntKeptOrStopped
    <2>2. CASE CheckSuctionTemp
      BY <2>2 DEF CheckSuctionTemp, ShutDownCnt, CntKeptOrStopped
    <2>3. CASE CheckLPSFault
      BY <2>3 DEF CheckLPSFault, ShutDownCnt, CntKeptOrStopped
    <2>4. CASE CheckAmbientTemp
      BY <2>4 DEF CheckAmbientTemp, ShutDownCnt, CntKeptOrStopped
    <2>5. QED
      BY <2>1, <2>2, <2>3, <2>4
  <1>3. defrost' = defrost /\ manualOverride' = manualOverride
    BY DEF CheckCompressorTemp, CheckSuctionTemp, CheckLPSFault,
           CheckAmbientTemp, modes
  <1>4. QED
    BY <1>1, <1>2, <1>3
       DEF ControlInv, TypeOK, CntFlagMirrorsRelay, WaitingHoldsCntOff,
           ExitInPhase, CntOn, Waiting, Reversing, CntKeptOrStopped

\* The checks that end a defrost or a call for heat, and the state machine.
LEMMA PassControl ==
    ControlInv /\ (BeginUpdate \/ CheckHighSuctionTemp \/ CheckYAndActivateCNT
                     \/ AccumulateHeatRuntime \/ UpdateState)
      => ControlInv'
  <1> SUFFICES ASSUME ControlInv,
                      BeginUpdate \/ CheckHighSuctionTemp
                        \/ CheckYAndActivateCNT \/ AccumulateHeatRuntime
                        \/ UpdateState
               PROVE  ControlInv'
    OBVIOUS
  <1>1. TypeOK'
    BY UpdateTypeOK DEF ControlInv, Update
  <1> USE DEF CntFlagMirrorsRelay, WaitingHoldsCntOff, ExitInPhase, CntOn,
              Waiting, Reversing, modes
  <1>2. CASE BeginUpdate
    BY <1>1, <1>2 DEF ControlInv, TypeOK, BeginUpdate
  <1>3. CASE CheckHighSuctionTemp
    BY <1>1, <1>3 DEF ControlInv, TypeOK, CheckHighSuctionTemp, ShutDownCnt
  <1>4. CASE CheckYAndActivateCNT
    BY <1>1, <1>4
       DEF ControlInv, TypeOK, CheckYAndActivateCNT, CntMayStart, Phases
  <1>5. CASE AccumulateHeatRuntime
    BY <1>1, <1>5 DEF ControlInv, TypeOK, AccumulateHeatRuntime
  <1>6. CASE UpdateState
    <2> DEFINE resume == state' = "DEFROST" /\ state # "DEFROST"
    <2>1. CntFlagMirrorsRelay'
      <3>1. CASE on' = on /\ cntActivated' = cntActivated
        BY <3>1 DEF ControlInv
      <3>2. CASE faults \cap {"lps", "lowTemp"} = {}
        <4>1. "CNT" \in on' <=> "CNT" \in on /\ ~CancelsDefrost /\ ~resume
          BY <1>6, <3>2 DEF UpdateState, RelaysOnChange
        <4>2. cntActivated' = (cntActivated /\ ~CancelsDefrost /\ ~resume)
          BY <1>6, <3>2 DEF UpdateState
        <4>3. QED
          BY <4>1, <4>2 DEF ControlInv, TypeOK
      <3>3. QED
        BY <1>6, <3>1, <3>2 DEF UpdateState
    <2>2. WaitingHoldsCntOff'
      BY <1>6 DEF ControlInv, TypeOK, UpdateState, RelaysOnChange, CancelsDefrost
    <2>3. ExitInPhase'
      BY <1>6 DEF ControlInv, TypeOK, UpdateState, RequestedState, CancelsDefrost
    <2>4. QED
      BY <1>1, <2>1, <2>2, <2>3 DEF ControlInv
  <1>7. QED
    BY <1>2, <1>3, <1>4, <1>5, <1>6

\* The defrost sequence, whose phases move the contactor.
LEMMA DefrostControl == ControlInv /\ CheckDefrostNeeded => ControlInv'
  <1> SUFFICES ASSUME ControlInv, CheckDefrostNeeded PROVE ControlInv'
    OBVIOUS
  <1>1. TypeOK'
    BY UpdateTypeOK DEF ControlInv, Update
  <1> USE DEF ControlInv, CntFlagMirrorsRelay, WaitingHoldsCntOff, ExitInPhase,
              CntOn, Waiting, Reversing, modes
  <1>2. CASE AbortSequence
    BY <1>1, <1>2 DEF AbortSequence, Phases
  <1>3. CASE EndPhase1
    BY <1>1, <1>3 DEF EndPhase1, ReversedRelays
  <1>4. CASE EndPhase2
    BY <1>1, <1>4 DEF EndPhase2
  <1>5. CASE EndDefrost
    BY <1>1, <1>5 DEF EndDefrost, StopSoftwareDefrost, ExitFlags
  <1>6. CASE StartDefrost
    BY <1>1, <1>6 DEF StartDefrost, StartSoftwareDefrost
  <1>7. CASE NothingDue
    BY <1>1, <1>7 DEF NothingDue
  <1>8. QED
    BY <1>2, <1>3, <1>4, <1>5, <1>6, <1>7 DEF CheckDefrostNeeded

\* Calls of the web tasks, and the thermostat, wherever they fall.
LEMMA RequestControl == ControlInv /\ (WebRequest \/ ThermostatCall) => ControlInv'
  <1> SUFFICES ASSUME ControlInv, WebRequest \/ ThermostatCall
               PROVE  ControlInv'
    OBVIOUS
  <1>1. TypeOK'
    BY RequestTypeOK DEF ControlInv
  <1> USE DEF ControlInv, CntFlagMirrorsRelay, WaitingHoldsCntOff, ExitInPhase,
              CntOn, Waiting, Reversing, modes
  <1>2. CASE EnableManualOverride
    BY <1>1, <1>2 DEF EnableManualOverride, StopSoftwareDefrost, ExitFlags
  <1>3. CASE DisableManualOverride
    BY <1>1, <1>3 DEF DisableManualOverride
  <1>4. ASSUME NEW name \in Outputs, NEW level \in BOOLEAN,
               SetManualOutput(name, level)
        PROVE  ControlInv'
    BY <1>1, <1>4 DEF SetManualOutput
  <1>5. CASE ForceDefrost
    BY <1>1, <1>5 DEF ForceDefrost, StartSoftwareDefrost
  <1>6. CASE ClearRvFail
    BY <1>1, <1>6 DEF ClearRvFail
  <1>7. CASE ThermostatCall
    BY <1>1, <1>7 DEF ThermostatCall
  <1>8. QED
    BY <1>2, <1>3, <1>4, <1>5, <1>6, <1>7 DEF WebRequest

\* So every step keeps ControlInv, a stutter too.
LEMMA ControlStep == ControlInv /\ [Next]_vars => ControlInv'
  <1>1. CASE UNCHANGED vars
    BY <1>1 DEF vars, ControlInv, TypeOK, CntFlagMirrorsRelay,
                WaitingHoldsCntOff, ExitInPhase, CntOn, Waiting, Reversing
  <1>2. QED
    BY <1>1, FaultChecksControl, PassControl, DefrostControl, RequestControl
       DEF Next, Update

\* ControlInv is inductive: the relay and its flag agree, a wait holds the
\* compressor off and an exit is always in a phase, in every behaviour.
THEOREM ControlCorrect == Spec => []ControlInv
  BY InitControl, ControlStep, PTL DEF Spec

\* _cntActivated agrees with the relay after every step of every task.
THEOREM FlagMirrorsRelay == Spec => []CntFlagMirrorsRelay
  BY ControlCorrect, PTL DEF ControlInv

\* No check, call or thermostat change starts the compressor during a wait.
THEOREM WaitingIsOff == Spec => []WaitingHoldsCntOff
  BY ControlCorrect, PTL DEF ControlInv

\* The exit of a defrost is always in one of its two phases.
THEOREM ExitHasPhase == Spec => []ExitInPhase
  BY ControlCorrect, PTL DEF ControlInv

-----------------------------------------------------------------------------
(* The latched RV failure *)

\* Either no page enables the override, or its calls fall between two passes.
Serialised == "override" \notin Requests \/ OverridePoints \subseteq {"idle"}

\* What a latched failure leaves behind, and where an override can be.
FailureQuiet ==
    "rvFail" \in faults =>
        /\ defrost \cap {"software", "transition", "cntPending", "exiting"} = {}
        /\ heatRuntime = 0
        /\ CntOn => manualOverride

OverrideBetweenPasses == manualOverride => pc = "idle" /\ "software" \notin defrost

LatchInv == ControlInv /\ FailureQuiet /\ OverrideBetweenPasses

LEMMA InitLatch == Init => LatchInv
  BY InitControl
     DEF Init, LatchInv, FailureQuiet, OverrideBetweenPasses, CntOn

\* The checks of a pass, run without an override.
LEMMA PassLatch == LatchInv /\ Update => LatchInv'
  <1> SUFFICES ASSUME LatchInv, Update PROVE LatchInv'
    OBVIOUS
  <1>1. ControlInv'
    BY FaultChecksControl, PassControl, DefrostControl DEF LatchInv, Update
  <1> USE DEF LatchInv, FailureQuiet, OverrideBetweenPasses, CntOn, modes
  <1>2. CASE BeginUpdate
    BY <1>1, <1>2 DEF BeginUpdate
  <1>3. CASE CheckCompressorTemp \/ CheckSuctionTemp \/ CheckLPSFault
               \/ CheckAmbientTemp
    <2>1. "CNT" \in on' => "CNT" \in on
      BY <1>3 DEF CheckCompressorTemp, CheckSuctionTemp, CheckLPSFault,
                  CheckAmbientTemp, ShutDownCnt
    <2>2. "rvFail" \in faults' => "rvFail" \in faults
      BY <1>3 DEF CheckCompressorTemp, CheckSuctionTemp, CheckLPSFault,
                  CheckAmbientTemp
    <2>3. /\ UNCHANGED <<defrost, heatRuntime, manualOverride>>
          /\ pc # "idle"
      BY <1>3 DEF CheckCompressorTemp, CheckSuctionTemp, CheckLPSFault,
                  CheckAmbientTemp
    <2>4. QED
      BY <1>1, <2>1, <2>2, <2>3
  <1>4. CASE CheckHighSuctionTemp
    BY <1>1, <1>4
       DEF CheckHighSuctionTemp, ShutDownCnt, ControlInv, ExitInPhase, Waiting
  <1>5. CASE CheckYAndActivateCNT
    BY <1>1, <1>5 DEF CheckYAndActivateCNT, CntMayStart, Phases, Faults
  <1>6. CASE AccumulateHeatRuntime
    BY <1>1, <1>6 DEF AccumulateHeatRuntime
  <1>7. CASE UpdateState
    <2>1. "rvFail" \in faults => /\ UNCHANGED <<defrost, heatRuntime>>
                                 /\ "CNT" \in on' => "CNT" \in on
      BY <1>7 DEF UpdateState, RequestedState, CancelsDefrost, RelaysOnChange
    <2>2. pc = "state" /\ UNCHANGED <<faults, manualOverride>>
      BY <1>7 DEF UpdateState
    <2>3. QED
      BY <1>1, <2>1, <2>2
  <1>8. CASE CheckDefrostNeeded
    <2>1. CASE AbortSequence
      BY <1>1, <2>1 DEF AbortSequence, AtDefrostCheck, SequenceHalted, Phases
    <2>2. CASE EndPhase1
      BY <1>1, <2>2 DEF EndPhase1, AtDefrostCheck
    <2>3. CASE EndPhase2
      BY <1>1, <2>3 DEF EndPhase2, AtDefrostCheck
    <2>4. CASE EndDefrost
      BY <1>1, <2>4 DEF EndDefrost, AtDefrostCheck, StopSoftwareDefrost
    <2>5. CASE StartDefrost
      <3>1. "rvFail" \notin faults
        BY <2>5, TimesAssumption DEF StartDefrost
      <3>2. QED
        BY <1>1, <2>5, <3>1 DEF StartDefrost, AtDefrostCheck
    <2>6. CASE NothingDue
      BY <1>1, <2>6 DEF NothingDue, AtDefrostCheck
    <2>7. QED
      BY <1>8, <2>1, <2>2, <2>3, <2>4, <2>5, <2>6 DEF CheckDefrostNeeded
  <1>9. QED
    BY <1>2, <1>3, <1>4, <1>5, <1>6, <1>7, <1>8 DEF Update

\* The calls, the override among them only between passes.
LEMMA RequestLatch ==
    ASSUME Serialised, LatchInv, WebRequest \/ ThermostatCall
    PROVE  LatchInv'
  <1>1. ControlInv'
    BY RequestControl DEF LatchInv
  <1> USE DEF LatchInv, FailureQuiet, OverrideBetweenPasses, CntOn, modes
  <1>2. CASE EnableManualOverride
    <2>1. pc = "idle" /\ pc' = "idle"
      BY <1>2 DEF EnableManualOverride, Serialised
    <2>2. QED
      BY <1>1, <1>2, <2>1
         DEF EnableManualOverride, StopSoftwareDefrost, ExitFlags
  <1>3. CASE DisableManualOverride
    BY <1>1, <1>3 DEF DisableManualOverride
  <1>4. ASSUME NEW name \in Outputs, NEW level \in BOOLEAN,
               SetManualOutput(name, level)
        PROVE  LatchInv'
    BY <1>1, <1>4 DEF SetManualOutput
  <1>5. CASE ForceDefrost
    BY <1>1, <1>5 DEF ForceDefrost
  <1>6. CASE ClearRvFail
    BY <1>1, <1>6 DEF ClearRvFail
  <1>7. CASE ThermostatCall
    BY <1>1, <1>7 DEF ThermostatCall
  <1>8. QED
    BY <1>2, <1>3, <1>4, <1>5, <1>6, <1>7 DEF WebRequest

\* So every step keeps LatchInv, a stutter too.
LEMMA LatchStep ==
    ASSUME Serialised, LatchInv, [Next]_vars
    PROVE  LatchInv'
  <1>1. CASE UNCHANGED vars
    BY <1>1 DEF vars, LatchInv, FailureQuiet, OverrideBetweenPasses,
                ControlInv, TypeOK, CntFlagMirrorsRelay, WaitingHoldsCntOff,
                ExitInPhase, CntOn, Waiting, Reversing
  <1>2. QED
    BY <1>1, PassLatch, RequestLatch DEF Next

\* "RV fail latched - CNT blocked until cleared": with the override served
\* between passes, no step of any other task starts the compressor while the
\* failure is latched.
THEOREM RvFailBlocks ==
    ASSUME Serialised
    PROVE  Spec => []RvFailBlocksCnt
  <1>1. LatchInv /\ [Next]_vars => LatchInv'
    BY LatchStep
  <1>2. LatchInv => RvFailBlocksCnt
    BY DEF LatchInv, FailureQuiet, RvFailBlocksCnt
  <1>3. QED
    BY InitLatch, <1>1, <1>2, PTL DEF Spec

-----------------------------------------------------------------------------
(* The call for the compressor *)

\* Y changes between two passes only, so a pass sees one level of it.
SteadyCall == InputPoints \subseteq {"idle"}

CallInv ==
    /\ ControlInv
    /\ CntOn /\ ~manualOverride => yWasActive
    /\ pc \in {"runtime", "state", "defrost"} => yWasActive = y

LEMMA PassCall == CallInv /\ Update => CallInv'
  <1> SUFFICES ASSUME CallInv, Update PROVE CallInv'
    OBVIOUS
  <1>1. ControlInv'
    BY FaultChecksControl, PassControl, DefrostControl DEF CallInv, Update
  <1> USE DEF CallInv, CntOn, modes, inputs
  <1>2. CASE BeginUpdate
    BY <1>1, <1>2 DEF BeginUpdate
  <1>3. CASE CheckCompressorTemp \/ CheckSuctionTemp \/ CheckHighSuctionTemp
               \/ CheckLPSFault \/ CheckAmbientTemp
    <2>1. "CNT" \in on' => "CNT" \in on
      BY <1>3 DEF CheckCompressorTemp, CheckSuctionTemp, CheckHighSuctionTemp,
                  CheckLPSFault, CheckAmbientTemp, ShutDownCnt
    <2>2. /\ UNCHANGED <<yWasActive, manualOverride>>
          /\ pc' \notin {"runtime", "state", "defrost"}
      BY <1>3 DEF CheckCompressorTemp, CheckSuctionTemp, CheckHighSuctionTemp,
                  CheckLPSFault, CheckAmbientTemp
    <2>3. QED
      BY <1>1, <2>1, <2>2
  <1>4. CASE CheckYAndActivateCNT
    BY <1>1, <1>4 DEF CheckYAndActivateCNT, ControlInv, TypeOK, CntFlagMirrorsRelay
  <1>5. CASE AccumulateHeatRuntime
    BY <1>1, <1>5 DEF AccumulateHeatRuntime
  <1>6. CASE UpdateState
    <2>1. "CNT" \in on' => "CNT" \in on
      BY <1>6 DEF UpdateState, RelaysOnChange
    <2>2. pc = "state" /\ UNCHANGED <<yWasActive, manualOverride, y>>
      BY <1>6 DEF UpdateState
    <2>3. QED
      BY <1>1, <2>1, <2>2
  <1>7. CASE CheckDefrostNeeded
    <2>1. /\ pc = "defrost" /\ pc' = "idle"
          /\ UNCHANGED <<yWasActive, manualOverride, y>>
      BY <1>7 DEF CheckDefrostNeeded, AbortSequence, EndPhase1, EndPhase2,
                  EndDefrost, StartDefrost, NothingDue, AtDefrostCheck
    <2>2. "CNT" \in on' => "CNT" \in on \/ y
      <3>1. CASE EndPhase2
        <4>1. "cntPending" \in defrost /\ ~SequenceHalted
          BY <3>1 DEF EndPhase2
        <4>2. QED
          BY <4>1 DEF SequenceHalted, Phases
      <3>2. CASE AbortSequence \/ NothingDue
        BY <3>2 DEF AbortSequence, NothingDue
      <3>3. CASE EndDefrost \/ StartDefrost
        BY <3>3 DEF EndDefrost, StartDefrost, StopSoftwareDefrost,
                    StartSoftwareDefrost
      <3>4. CASE EndPhase1
        BY <3>4 DEF EndPhase1, ReversedRelays
      <3>5. QED
        BY <1>7, <3>1, <3>2, <3>3, <3>4 DEF CheckDefrostNeeded
    <2>3. QED
      BY <1>1, <2>1, <2>2
  <1>8. QED
    BY <1>2, <1>3, <1>4, <1>5, <1>6, <1>7 DEF Update

LEMMA RequestCall ==
    ASSUME SteadyCall, CallInv, WebRequest \/ ThermostatCall
    PROVE  CallInv'
  <1>1. ControlInv'
    BY RequestControl DEF CallInv
  <1> USE DEF CallInv, CntOn, modes, inputs
  <1>2. CASE WebRequest
    <2>1. UNCHANGED <<pc, y, yWasActive>>
      BY <1>2 DEF WebRequest, EnableManualOverride, DisableManualOverride,
                  SetManualOutput, ForceDefrost, ClearRvFail
    <2>2. "CNT" \in on' /\ ~manualOverride' => "CNT" \in on /\ ~manualOverride
      BY <1>2 DEF WebRequest, EnableManualOverride, DisableManualOverride,
                  SetManualOutput, ForceDefrost, ClearRvFail,
                  StartSoftwareDefrost
    <2>3. QED
      BY <1>1, <2>1, <2>2
  <1>3. CASE ThermostatCall
    BY <1>1, <1>3 DEF ThermostatCall, SteadyCall
  <1>4. QED
    BY <1>2, <1>3

\* So every step keeps CallInv, a stutter too.
LEMMA CallStep ==
    ASSUME SteadyCall, CallInv, [Next]_vars
    PROVE  CallInv'
  <1>1. CASE UNCHANGED vars
    BY <1>1 DEF vars, CallInv, ControlInv, TypeOK, CntFlagMirrorsRelay,
                WaitingHoldsCntOff, ExitInPhase, CntOn, Waiting, Reversing
  <1>2. QED
    BY <1>1, PassCall, RequestCall DEF Next

\* With Y steady during a pass, the compressor never runs on, and never starts,
\* after a pass that saw no call: the accident of bug #1 cannot recur.
THEOREM CallNeeded ==
    ASSUME SteadyCall
    PROVE  Spec => []CompressorNeedsCall
  <1>1. Init => CallInv
    BY InitControl DEF Init, CallInv, CntOn
  <1>2. CallInv /\ [Next]_vars => CallInv'
    BY CallStep
  <1>3. CallInv => CompressorNeedsCall
    BY DEF CallInv, CompressorNeedsCall
  <1>4. QED
    BY <1>1, <1>2, <1>3, PTL DEF Spec
=============================================================================
