------------------------ MODULE HeatPumpDefrost_proofs ------------------------
(***************************************************************************)
(* The timers around a defrost, for every value of the constants: the      *)
(* valve moves only after the pressure has equalised, a running defrost is *)
(* reversed, and it ends.  Each of these theorems strengthens LatchInv     *)
(* with one conjunct, and assumes, as LatchInv does, that the override is  *)
(* switched between two passes.  The last one, the rest of the compressor, *)
(* is about CompressorRest, and assumes nothing.                           *)
(***************************************************************************)
EXTENDS HeatPump_proofs, CompressorRest

-----------------------------------------------------------------------------
(* Pressure equalisation *)

\* In phase 1 of the entry the compressor has been off at least as long as the
\* phase has lasted.
Equalising ==
    {"software", "transition"} \subseteq defrost =>
        age["CNT"] >= age["phase"] \/ age["CNT"] >= RvShortCycle

\* Only the fault checks can restart the timer of CNT, and only if it runs.
LEMMA FaultChecksEqualising ==
    ASSUME LatchInv, Equalising,
           CheckCompressorTemp \/ CheckSuctionTemp \/ CheckHighSuctionTemp
             \/ CheckLPSFault \/ CheckAmbientTemp
    PROVE  Equalising'
  <1> SUFFICES ASSUME {"software", "transition"} \subseteq defrost'
               PROVE  UNCHANGED <<age["CNT"], age["phase"]>>
                      /\ {"software", "transition"} \subseteq defrost
    BY DEF Equalising
  <1>1. {"software", "transition"} \subseteq defrost
    BY DEF CheckCompressorTemp, CheckSuctionTemp, CheckHighSuctionTemp,
           CheckLPSFault, CheckAmbientTemp
  <1>2. "CNT" \notin on
    <2>1. ~manualOverride
      BY <1>1 DEF LatchInv, OverrideBetweenPasses
    <2>2. QED
      BY <1>1, <2>1
         DEF LatchInv, ControlInv, WaitingHoldsCntOff, Reversing, Waiting, CntOn
  <1>3. \E T \in SUBSET {"Y"} : age' = Restarted(T) \/ age' = age
    BY <1>2 DEF CheckCompressorTemp, CheckSuctionTemp, CheckHighSuctionTemp,
                CheckLPSFault, CheckAmbientTemp, ShutDownCnt
  <1>4. QED
    BY <1>1, <1>3 DEF Restarted, Timers

LEMMA BeginEqualising ==
    ASSUME LatchInv, Equalising, BeginUpdate
    PROVE  Equalising'
  <1> SUFFICES ASSUME {"software", "transition"} \subseteq defrost'
               PROVE  (age["CNT"] >= age["phase"] \/ age["CNT"] >= RvShortCycle)'
    BY DEF Equalising
  <1>1. {"software", "transition"} \subseteq defrost /\ ~manualOverride
    BY DEF BeginUpdate, LatchInv, OverrideBetweenPasses
  <1>2. "CNT" \notin on
    BY <1>1
       DEF LatchInv, ControlInv, WaitingHoldsCntOff, Reversing, Waiting, CntOn
  <1>3. PICK d \in 1..MaxLag : age' = Elapsed(d)
    BY <1>1 DEF BeginUpdate
  <1>4. /\ age'["CNT"] = Smaller(age["CNT"] + d, Larger(OffWindow, RvShortCycle))
        /\ age'["phase"]
             = Smaller(age["phase"] + d, Larger(CntShortCycle, RvShortCycle))
    BY <1>1, <1>2, <1>3 DEF Elapsed, Running, Limit, Timers
  <1>5. /\ {age["CNT"], age["phase"], d} \subseteq Nat
        /\ {OffWindow, RvShortCycle, CntShortCycle} \subseteq Nat
    BY TimesAssumption DEF LatchInv, ControlInv, TypeOK, Timers
  <1>6. age["CNT"] >= age["phase"] \/ age["CNT"] >= RvShortCycle
    BY <1>1 DEF Equalising
  <1>7. CASE age'["CNT"] = age["CNT"] + d
    <2>1. age'["phase"] <= age["phase"] + d
      BY <1>4, <1>5 DEF Smaller, Larger
    <2>2. age'["phase"] \in Nat
      BY <1>4, <1>5 DEF Smaller, Larger
    <2>3. QED
      BY <1>5, <1>6, <1>7, <2>1, <2>2
  <1>8. CASE age'["CNT"] = Larger(OffWindow, RvShortCycle)
    BY <1>5, <1>8 DEF Larger
  <1>9. QED
    BY <1>4, <1>7, <1>8 DEF Smaller

LEMMA StepEqualising ==
    ASSUME Serialised, LatchInv, Equalising, [Next]_vars
    PROVE  Equalising'
  <1> USE DEF Equalising, modes, inputs
  <1>1. age \in [Timers -> Nat]
    BY DEF LatchInv, ControlInv, TypeOK
  <1>2. CASE BeginUpdate
    BY <1>2, BeginEqualising
  <1>3. CASE CheckCompressorTemp \/ CheckSuctionTemp \/ CheckHighSuctionTemp
               \/ CheckLPSFault \/ CheckAmbientTemp
    BY <1>3, FaultChecksEqualising
  <1>4. CASE CheckYAndActivateCNT
    <2>1. \/ "transition" \notin defrost'
          \/ defrost' = defrost /\ (age' = age \/ age' = Restarted({"Y"}))
          \/ "software" \notin defrost'
      BY <1>4 DEF CheckYAndActivateCNT, Phases
    <2>2. QED
      BY <1>1, <2>1 DEF Restarted, Timers
  <1>5. CASE AccumulateHeatRuntime
    BY <1>1, <1>5 DEF AccumulateHeatRuntime, Restarted, Timers
  <1>6. CASE UpdateState
    <2>1. \/ defrost' = defrost /\ age' = age
          \/ "software" \notin defrost'
          \/ age' = Restarted({"CNT", "phase"})
          \/ defrost' = defrost /\ age' = Restarted({})
      BY <1>6 DEF UpdateState, CancelsDefrost, RequestedState
    <2>2. QED
      BY <1>1, <2>1 DEF Restarted, Timers
  <1>7. CASE CheckDefrostNeeded
    <2>1. \/ "transition" \notin defrost'
          \/ "software" \notin defrost'
          \/ age' = Restarted({"CNT", "phase"})
          \/ defrost' = defrost /\ age' = age
      <3>1. CASE AbortSequence \/ EndPhase1 \/ EndPhase2
        BY <3>1 DEF AbortSequence, EndPhase1, EndPhase2, Phases
      <3>2. CASE EndDefrost
        BY <3>2 DEF EndDefrost, ExitFlags
      <3>3. CASE StartDefrost
        BY <3>3 DEF StartDefrost, StartSoftwareDefrost
      <3>4. CASE NothingDue
        BY <3>4 DEF NothingDue
      <3>5. QED
        BY <1>7, <3>1, <3>2, <3>3, <3>4 DEF CheckDefrostNeeded
    <2>2. QED
      BY <1>1, <2>1 DEF Restarted, Timers
  <1>8. CASE WebRequest
    <2>1. \/ "software" \notin defrost'
          \/ age' = Restarted({"CNT", "phase"})
          \/ defrost' = defrost /\ age' = age
      <3>1. CASE EnableManualOverride
        BY <3>1 DEF EnableManualOverride, ExitFlags
      <3>2. ASSUME manualOverride,
                   \/ DisableManualOverride
                   \/ \E name \in Outputs, level \in BOOLEAN :
                        SetManualOutput(name, level)
            PROVE  "software" \notin defrost'
        BY <3>2 DEF DisableManualOverride, SetManualOutput, LatchInv,
                    OverrideBetweenPasses
      <3>3. CASE ForceDefrost \/ ClearRvFail
        BY <3>3 DEF ForceDefrost, ClearRvFail, StartSoftwareDefrost
      <3>4. QED
        BY <1>8, <3>1, <3>2, <3>3
           DEF WebRequest, DisableManualOverride, SetManualOutput
    <2>2. QED
      BY <1>1, <2>1 DEF Restarted, Timers
  <1>9. CASE ThermostatCall \/ UNCHANGED vars
    BY <1>9 DEF ThermostatCall, vars
  <1>10. QED
    BY <1>2, <1>3, <1>4, <1>5, <1>6, <1>7, <1>8, <1>9 DEF Next, Update

\* The valve is energised for a defrost only by the end of phase 1, when the
\* compressor has been off for the whole RV short cycle.
THEOREM ReversalIsEqualised ==
    ASSUME Serialised
    PROVE  Spec => EqualisedBeforeReversal
  <1>1. Init => LatchInv /\ Equalising
    BY InitLatch DEF Init, Equalising
  <1>2. LatchInv /\ Equalising /\ [Next]_vars => (LatchInv /\ Equalising)'
    BY LatchStep, StepEqualising
  <1>3. LatchInv /\ Equalising /\ [Next]_vars
          => [ReversesForDefrost => age["CNT"] >= RvShortCycle]_vars
    <2> SUFFICES ASSUME LatchInv, Equalising, [Next]_vars, ReversesForDefrost
                 PROVE  age["CNT"] >= RvShortCycle
      OBVIOUS
    <2>1. CASE EndPhase1
      <3>1. {"software", "transition"} \subseteq defrost /\ age["phase"] >= RvShortCycle
        BY <2>1 DEF EndPhase1, Phase1Over, ReversesForDefrost
      <3>2. {age["CNT"], age["phase"], RvShortCycle} \subseteq Nat
        BY TimesAssumption DEF LatchInv, ControlInv, TypeOK, Timers
      <3>3. QED
        BY <3>1, <3>2 DEF Equalising
    <2>2. CASE UpdateState
      <3>1. ~CancelsDefrost
        BY <2>2 DEF UpdateState, CancelsDefrost, RequestedState,
                    ReversesForDefrost
      <3>2. on' = on \/ on' = RelaysOnChange(state', on, defrost)
        BY <2>2, <3>1 DEF UpdateState
      <3>3. QED
        BY <3>2 DEF RelaysOnChange, ReversesForDefrost
    <2>3. CASE \/ CheckCompressorTemp \/ CheckSuctionTemp
               \/ CheckHighSuctionTemp \/ CheckLPSFault \/ CheckAmbientTemp
      BY <2>3 DEF CheckCompressorTemp, CheckSuctionTemp, CheckHighSuctionTemp,
                  CheckLPSFault, CheckAmbientTemp, ShutDownCnt,
                  ReversesForDefrost
    <2>4. CASE \/ BeginUpdate \/ CheckYAndActivateCNT
               \/ AccumulateHeatRuntime \/ UNCHANGED vars
      BY <2>4 DEF BeginUpdate, CheckYAndActivateCNT, AccumulateHeatRuntime,
                  vars, ReversesForDefrost
    <2>5. CASE \/ AbortSequence \/ EndPhase2 \/ EndDefrost \/ StartDefrost
               \/ NothingDue
      <3>1. CASE AbortSequence \/ NothingDue
        BY <3>1 DEF AbortSequence, NothingDue, ReversesForDefrost
      <3>2. CASE EndPhase2
        BY <3>2 DEF EndPhase2, ReversesForDefrost
      <3>3. CASE EndDefrost \/ StartDefrost
        BY <3>3 DEF EndDefrost, StartDefrost, StopSoftwareDefrost,
                    StartSoftwareDefrost, ReversesForDefrost
      <3>4. QED
        BY <2>5, <3>1, <3>2, <3>3
    <2>6. CASE WebRequest \/ ThermostatCall
      BY <2>6 DEF WebRequest, EnableManualOverride, DisableManualOverride,
                  SetManualOutput, ForceDefrost, ClearRvFail, ThermostatCall,
                  StopSoftwareDefrost, StartSoftwareDefrost, ReversesForDefrost
    <2>7. QED
      BY <2>1, <2>2, <2>3, <2>4, <2>5, <2>6
         DEF Next, Update, CheckDefrostNeeded
  <1>4. QED
    BY <1>1, <1>2, <1>3, PTL DEF Spec, EqualisedBeforeReversal

-----------------------------------------------------------------------------
(* A defrost that runs is reversed *)

\* Only a low ambient temperature releases the valve of a defrost.
NoLowAmbient == "cold" \notin AmbientReadings

\* From the end of phase 1 on, a defrost has the valve energised: in DEFROST,
\* which it enters by phase 1, and in every state if nothing releases the valve.
Reversed ==
    /\ state = "DEFROST" \/ NoLowAmbient
    /\ "software" \in defrost /\ "transition" \notin defrost
    /\ CntOn \/ "cntPending" \in defrost
    => "RV" \in on

LEMMA StepReversed ==
    ASSUME Serialised, LatchInv, Reversed, [Next]_vars
    PROVE  Reversed'
  <1> USE DEF Reversed, CntOn, modes
  <1>1. manualOverride => pc = "idle" /\ "software" \notin defrost
    BY DEF LatchInv, OverrideBetweenPasses
  <1>2. CASE BeginUpdate
    BY <1>1, <1>2 DEF BeginUpdate
  <1>3. CASE \/ CheckCompressorTemp \/ CheckSuctionTemp
             \/ CheckLPSFault \/ CheckAmbientTemp
    <2>1. UNCHANGED defrost /\ (state' = "DEFROST" => state = "DEFROST")
      BY <1>3 DEF CheckCompressorTemp, CheckSuctionTemp, CheckLPSFault,
                  CheckAmbientTemp
    <2>2. state' = "DEFROST" \/ NoLowAmbient => ("RV" \in on => "RV" \in on')
      BY <1>3 DEF CheckCompressorTemp, CheckSuctionTemp, CheckLPSFault,
                  CheckAmbientTemp, ShutDownCnt, NoLowAmbient
    <2>3. "CNT" \in on' => "CNT" \in on
      BY <1>3 DEF CheckCompressorTemp, CheckSuctionTemp, CheckLPSFault,
                  CheckAmbientTemp, ShutDownCnt
    <2>4. QED
      BY <2>1, <2>2, <2>3
  <1>4. CASE CheckHighSuctionTemp
    BY <1>4 DEF CheckHighSuctionTemp
  <1>5. CASE CheckYAndActivateCNT
    BY <1>5 DEF CheckYAndActivateCNT, CntMayStart, Phases, LatchInv, ControlInv,
                CntFlagMirrorsRelay
  <1>6. CASE AccumulateHeatRuntime
    BY <1>6 DEF AccumulateHeatRuntime
  <1>7. CASE UpdateState
    <2> SUFFICES ASSUME "software" \in defrost', "transition" \notin defrost'
                 PROVE  /\ UNCHANGED defrost
                        /\ state' = "DEFROST" => state = "DEFROST"
                        /\ "RV" \in on => "RV" \in on'
                        /\ "CNT" \in on' => "CNT" \in on
      OBVIOUS
    <2>1. /\ UNCHANGED defrost
          /\ state' = "DEFROST" => state = "DEFROST"
          /\ on' = on \/ on' = RelaysOnChange(state', on, defrost)
      BY <1>7 DEF UpdateState, CancelsDefrost
    <2>2. QED
      BY <2>1 DEF RelaysOnChange
  <1>8. CASE CheckDefrostNeeded
    <2>1. CASE AbortSequence
      BY <2>1 DEF AbortSequence, Phases
    <2>2. CASE EndPhase1
      BY <2>2 DEF EndPhase1, ReversedRelays, LatchInv, ControlInv, ExitInPhase
    <2>3. CASE EndPhase2
      BY <2>3 DEF EndPhase2
    <2>4. CASE EndDefrost
      BY <2>4 DEF EndDefrost, ExitFlags
    <2>5. CASE StartDefrost
      BY <2>5 DEF StartDefrost, StartSoftwareDefrost
    <2>6. CASE NothingDue
      BY <2>6 DEF NothingDue
    <2>7. QED
      BY <1>8, <2>1, <2>2, <2>3, <2>4, <2>5, <2>6 DEF CheckDefrostNeeded
  <1>9. CASE WebRequest
    <2>1. CASE EnableManualOverride
      BY <2>1 DEF EnableManualOverride, ExitFlags
    <2>2. CASE DisableManualOverride \/ \E name \in Outputs, level \in BOOLEAN :
                                          SetManualOutput(name, level)
      BY <1>1, <2>2 DEF DisableManualOverride, SetManualOutput
    <2>3. CASE ForceDefrost \/ ClearRvFail
      BY <2>3 DEF ForceDefrost, ClearRvFail, StartSoftwareDefrost
    <2>4. QED
      BY <1>9, <2>1, <2>2, <2>3 DEF WebRequest
  <1>10. CASE ThermostatCall \/ UNCHANGED vars
    BY <1>10 DEF ThermostatCall, vars
  <1>11. QED
    BY <1>2, <1>3, <1>4, <1>5, <1>6, <1>7, <1>8, <1>9, <1>10 DEF Next, Update

\* Reversed is inductive with what LatchInv knows of an override.
LEMMA AlwaysReversed ==
    ASSUME Serialised
    PROVE  Spec => []Reversed
  <1>1. Init => LatchInv /\ Reversed
    BY InitLatch DEF Init, Reversed, CntOn
  <1>2. LatchInv /\ Reversed /\ [Next]_vars => (LatchInv /\ Reversed)'
    BY LatchStep, StepReversed
  <1>3. QED
    BY <1>1, <1>2, PTL DEF Spec

\* In DEFROST the compressor never runs past the phases with the valve released:
\* it would heat the house with the ice still on the coil, or trip the RV
\* failure.
THEOREM DefrostIsReversed ==
    ASSUME Serialised
    PROVE  Spec => []ActiveDefrostReversed
  <1>1. Reversed => ActiveDefrostReversed
    BY DEF Reversed, ActiveDefrostReversed, Waiting
  <1>2. QED
    BY AlwaysReversed, <1>1, PTL

\* Where no low ambient temperature is read, it does so in no state: neither with
\* the low pressure fault set, nor before or after a Y drop.
THEOREM ReversedInEveryState ==
    ASSUME Serialised, NoLowAmbient
    PROVE  Spec => []( "software" \in defrost /\ ~Waiting /\ CntOn
                       /\ ~manualOverride => "RV" \in on )
  <1>1. Reversed =>
          ("software" \in defrost /\ ~Waiting /\ CntOn /\ ~manualOverride
             => "RV" \in on)
    BY DEF Reversed, Waiting
  <1>2. QED
    BY AlwaysReversed, <1>1, PTL

-----------------------------------------------------------------------------
(* A defrost that runs ends *)

\* The configured minimum runtime is below the safety timeout, which checks it
\* first.
TimeoutAfterMinimum == MinRuntime <= DefrostTimeout /\ DefrostTimeout > 0

\* During the startup lockout no pass runs, and only an operator starts CNT.
LockedOut == lockout => pc = "idle" /\ (CntOn => manualOverride)

TimedDefrost ==
    "software" \in defrost /\ ~Waiting /\ CntOn =>
        /\ "timed" \in defrost
        /\ pc = "idle" => age["defrost"] < DefrostTimeout

LEMMA StepTimed ==
    ASSUME Serialised, TimeoutAfterMinimum, LatchInv, LockedOut, TimedDefrost,
           [Next]_vars
    PROVE  LockedOut' /\ TimedDefrost'
  <1> USE DEF LockedOut, TimedDefrost, CntOn, Waiting, modes
  <1>1. manualOverride => pc = "idle" /\ "software" \notin defrost
    BY DEF LatchInv, OverrideBetweenPasses
  <1>2. CASE BeginUpdate
    <2>1. pc = "idle" /\ UNCHANGED defrost /\ (lockout' => lockout)
      BY <1>2 DEF BeginUpdate
    <2>2. \/ /\ lockout' \/ manualOverride
             /\ UNCHANGED <<pc, on, manualOverride>>
          \/ manualOverride /\ on' = {} /\ UNCHANGED pc
          \/ pc' = "compressor" /\ ~lockout' /\ UNCHANGED on
      BY <1>2 DEF BeginUpdate
    <2>3. QED
      BY <1>1, <2>1, <2>2
  <1>3. CASE \/ CheckCompressorTemp \/ CheckSuctionTemp
             \/ CheckLPSFault \/ CheckAmbientTemp
    <2>1. UNCHANGED <<defrost, lockout>> /\ pc # "idle" /\ pc' # "idle"
      BY <1>3 DEF CheckCompressorTemp, CheckSuctionTemp, CheckLPSFault,
                  CheckAmbientTemp
    <2>2. "CNT" \in on' => "CNT" \in on
      BY <1>3 DEF CheckCompressorTemp, CheckSuctionTemp, CheckLPSFault,
                  CheckAmbientTemp, ShutDownCnt
    <2>3. QED
      BY <2>1, <2>2
  <1>4. CASE CheckHighSuctionTemp
    BY <1>4 DEF CheckHighSuctionTemp
  <1>5. CASE CheckYAndActivateCNT
    BY <1>5 DEF CheckYAndActivateCNT, CntMayStart, Phases, LatchInv, ControlInv,
                CntFlagMirrorsRelay
  <1>6. CASE AccumulateHeatRuntime
    BY <1>6 DEF AccumulateHeatRuntime
  <1>7. CASE UpdateState
    <2>1. pc = "state" /\ pc' = "defrost" /\ UNCHANGED lockout
      BY <1>7 DEF UpdateState
    <2>2. "software" \in defrost' /\ "transition" \notin defrost' =>
            UNCHANGED defrost /\ (on' = on \/ on' = RelaysOnChange(state', on, defrost))
      BY <1>7 DEF UpdateState, CancelsDefrost
    <2>3. QED
      BY <2>1, <2>2 DEF RelaysOnChange
  <1>8. CASE CheckDefrostNeeded
    <2>1. ~lockout' /\ pc' = "idle"
      <3>1. AtDefrostCheck
        BY <1>8 DEF CheckDefrostNeeded, AbortSequence, EndPhase1, EndPhase2,
                    EndDefrost, StartDefrost, NothingDue
      <3>2. UNCHANGED lockout
        BY <1>8 DEF CheckDefrostNeeded, AbortSequence, EndPhase1, EndPhase2,
                    EndDefrost, StartDefrost, NothingDue
      <3>3. QED
        BY <3>1, <3>2 DEF AtDefrostCheck
    <2>2. CASE AbortSequence \/ EndPhase1
      BY <2>1, <2>2 DEF AbortSequence, EndPhase1
    <2>3. CASE EndPhase2
      BY <2>1, <2>3
         DEF EndPhase2, Restarted, Timers, TimeoutAfterMinimum, LatchInv,
             ControlInv, ExitInPhase
    <2>4. CASE EndDefrost
      BY <2>1, <2>4 DEF EndDefrost, ExitFlags
    <2>5. CASE StartDefrost
      BY <2>1, <2>5 DEF StartDefrost, StartSoftwareDefrost
    <2>6. CASE NothingDue
      <3> SUFFICES ASSUME "software" \in defrost, ~Waiting, CntOn
                   PROVE  "timed" \in defrost /\ age["defrost"] < DefrostTimeout
        BY <2>1, <2>6 DEF NothingDue
      <3>1. "timed" \in defrost /\ \E t \in CondenserReadings : ~DefrostDone(t)
        BY <2>6 DEF NothingDue
      <3>2. age["defrost"] < MinRuntime \/ age["defrost"] < DefrostTimeout
        <4>1. {age["defrost"], MinRuntime, DefrostTimeout} \subseteq Nat
          BY TimesAssumption DEF LatchInv, ControlInv, TypeOK, Timers
        <4>2. QED
          BY <3>1, <4>1 DEF DefrostDone
      <3>3. {age["defrost"], MinRuntime, DefrostTimeout} \subseteq Nat
        BY TimesAssumption DEF LatchInv, ControlInv, TypeOK, Timers
      <3>4. QED
        BY <3>1, <3>2, <3>3 DEF TimeoutAfterMinimum
    <2>7. QED
      BY <1>8, <2>2, <2>3, <2>4, <2>5, <2>6 DEF CheckDefrostNeeded
  <1>9. CASE WebRequest
    <2>1. CASE EnableManualOverride
      BY <2>1 DEF EnableManualOverride, StopSoftwareDefrost, ExitFlags
    <2>2. CASE DisableManualOverride \/ \E name \in Outputs, level \in BOOLEAN :
                                          SetManualOutput(name, level)
      BY <1>1, <2>2 DEF DisableManualOverride, SetManualOutput
    <2>3. CASE ForceDefrost \/ ClearRvFail
      BY <2>3 DEF ForceDefrost, ClearRvFail, StartSoftwareDefrost
    <2>4. QED
      BY <1>9, <2>1, <2>2, <2>3 DEF WebRequest
  <1>10. CASE ThermostatCall \/ UNCHANGED vars
    BY <1>10 DEF ThermostatCall, vars
  <1>11. QED
    BY <1>2, <1>3, <1>4, <1>5, <1>6, <1>7, <1>8, <1>9, <1>10 DEF Next, Update

\* The safety timeout: no pass leaves a defrost running at or past it, however
\* often Y came and went before, provided the minimum runtime is shorter.
THEOREM DefrostEnds ==
    ASSUME Serialised, TimeoutAfterMinimum
    PROVE  Spec => []DefrostBounded
  <1> DEFINE Inv == LatchInv /\ LockedOut /\ TimedDefrost
  <1>1. Init => Inv
    BY InitLatch DEF Init, LockedOut, TimedDefrost, CntOn
  <1>2. Inv /\ [Next]_vars => Inv'
    BY LatchStep, StepTimed
  <1>3. Inv => DefrostBounded
    BY DEF TimedDefrost, DefrostBounded
  <1> HIDE DEF Inv
  <1>4. QED
    BY <1>1, <1>2, <1>3, PTL DEF Spec

-----------------------------------------------------------------------------
(* The rest of the compressor *)

\* CNT has been off for as long as a timer has run, or for long enough.
RestedSince(t) ==
    age["CNT"] >= age[t] \/ age["CNT"] >= CntShortCycle \/ age["CNT"] >= OffWindow

\* Phase 2, of the entry and of the exit, began with CNT off.
PhaseRested ==
    "cntPending" \in defrost /\ "transition" \notin defrost => RestedSince("phase")

\* So did the call, unless a sequence or the low pressure fault, whose end
\* restarts the call's timer, now keeps CNT off.
CallRested ==
    yWasActive /\ ~CntOn /\ ~Reversing /\ "lps" \notin faults => RestedSince("Y")

Rested == ~CntOn /\ undisturbed /\ ~Disturbance => PhaseRested /\ CallRested

RestInv == ControlInv /\ Rested

\* While CNT is off, time adds as much to its timer as to any other, up to the
\* long stop.
LEMMA TimeRests ==
    ASSUME TypeOK, "CNT" \notin on, NEW d \in 1..MaxLag,
           NEW t \in {"Y", "phase"}, RestedSince(t), age' = Elapsed(d)
    PROVE  RestedSince(t)'
  <1>1. {age["CNT"], age[t], d, Limit(t)} \subseteq Nat
    BY ElapsedType, TimesAssumption DEF TypeOK, Timers
  <1>2. age'["CNT"] = Smaller(age["CNT"] + d, Larger(OffWindow, RvShortCycle))
    BY DEF Elapsed, Running, Limit, Timers
  <1>3. age'[t] = 0 \/ age'[t] = Smaller(age[t] + d, Limit(t))
    BY DEF Elapsed, Timers
  <1>4. {OffWindow, RvShortCycle, CntShortCycle} \subseteq Nat
    BY TimesAssumption
  <1>5. age'[t] \in Nat /\ age'[t] <= age[t] + d
    BY <1>1, <1>3 DEF Smaller
  <1>6. CASE age'["CNT"] = age["CNT"] + d
    BY <1>1, <1>4, <1>5, <1>6 DEF RestedSince
  <1>7. CASE age'["CNT"] = Larger(OffWindow, RvShortCycle)
    BY <1>4, <1>7 DEF RestedSince, Larger
  <1>8. QED
    BY <1>2, <1>6, <1>7 DEF Smaller

\* Without an override the pages force a defrost or clear the failure.
LEMMA OnlyTwoRequests ==
    ASSUME ~Disturbance, ~Disturbance', WebRequest
    PROVE  ForceDefrost \/ ClearRvFail
  BY DEF WebRequest, EnableManualOverride, DisableManualOverride,
         SetManualOutput, Disturbance

\* Outside the end of phase 1, a step that leaves phase 2 under way touches
\* neither timer, and CNT is off.
LEMMA StepPhaseRested ==
    ASSUME ControlInv, ~Disturbance, ~Disturbance', ~CntOn => PhaseRested,
           [Next]_vars
    PROVE  PhaseRested'
  <1> SUFFICES ASSUME "cntPending" \in defrost', "transition" \notin defrost'
               PROVE  RestedSince("phase")'
    BY DEF PhaseRested
  <1> USE DEF modes, inputs
  <1> DEFINE Kept == /\ "cntPending" \in defrost /\ "transition" \notin defrost
                     /\ UNCHANGED <<age["CNT"], age["phase"]>>
  <1>1. /\ age \in [Timers -> Nat] /\ ~manualOverride
        /\ Waiting => Reversing
        /\ ~("software" \in defrost /\ o)
    BY DEF ControlInv, TypeOK, Disturbance
  <1>2. "cntPending" \in defrost => "CNT" \notin on /\ Reversing /\ PhaseRested
    BY <1>1 DEF ControlInv, WaitingHoldsCntOff, Waiting, CntOn
  <1>3. Kept => RestedSince("phase")'
    BY <1>2 DEF PhaseRested, RestedSince
  <1>4. CASE BeginUpdate
    <2>1. PICK d \in 1..MaxLag : age' = Elapsed(d)
      BY <1>1, <1>4 DEF BeginUpdate
    <2>2. UNCHANGED defrost
      BY <1>4 DEF BeginUpdate
    <2>3. QED
      BY <1>2, <2>1, <2>2, TimeRests DEF ControlInv, PhaseRested
  <1>5. CASE CheckCompressorTemp \/ CheckSuctionTemp \/ CheckHighSuctionTemp
               \/ CheckLPSFault \/ CheckAmbientTemp
    <2>1. defrost' = defrost
      BY <1>5 DEF CheckCompressorTemp, CheckSuctionTemp, CheckHighSuctionTemp,
                  CheckLPSFault, CheckAmbientTemp, Disturbance
    <2>2. \E T \in SUBSET {"Y"} : age' = Restarted(T) \/ age' = age
      BY <1>2, <1>5, <2>1
         DEF CheckCompressorTemp, CheckSuctionTemp, CheckHighSuctionTemp,
             CheckLPSFault, CheckAmbientTemp, ShutDownCnt
    <2>3. QED
      BY <1>1, <1>3, <2>1, <2>2 DEF Restarted, Timers
  <1>6. CASE CheckYAndActivateCNT
    <2>1. defrost' = defrost /\ (age' = age \/ age' = Restarted({"Y"}))
      BY <1>2, <1>6 DEF CheckYAndActivateCNT, Reversing, Phases
    <2>2. QED
      BY <1>1, <1>3, <2>1 DEF Restarted, Timers
  <1>7. CASE AccumulateHeatRuntime
    BY <1>1, <1>3, <1>7 DEF AccumulateHeatRuntime, Restarted, Timers
  <1>8. CASE UpdateState
    <2>1. defrost' = defrost /\ (age' = age \/ age' = Restarted({}))
      BY <1>1, <1>8 DEF UpdateState, CancelsDefrost
    <2>2. QED
      BY <1>1, <1>3, <2>1 DEF Restarted, Timers
  <1>9. CASE CheckDefrostNeeded
    <2>1. CASE EndPhase1
      <3>1. age' = Restarted({"phase"})
        BY <2>1 DEF EndPhase1
      <3>2. QED
        BY <1>1, <3>1 DEF Restarted, RestedSince, Timers
    <2>2. CASE AbortSequence \/ EndPhase2 \/ EndDefrost \/ StartDefrost
      BY <2>2 DEF AbortSequence, EndPhase2, EndDefrost, StartDefrost,
                  StartSoftwareDefrost, ExitFlags, Phases
    <2>3. CASE NothingDue
      BY <1>3, <2>3 DEF NothingDue
    <2>4. QED
      BY <1>9, <2>1, <2>2, <2>3 DEF CheckDefrostNeeded
  <1>10. CASE ForceDefrost
    BY <1>10 DEF ForceDefrost, StartSoftwareDefrost
  <1>11. CASE ClearRvFail \/ ThermostatCall \/ UNCHANGED vars
    BY <1>3, <1>11 DEF ClearRvFail, ThermostatCall, vars
  <1>12. QED
    BY <1>4, <1>5, <1>6, <1>7, <1>8, <1>9, <1>10, <1>11, OnlyTwoRequests
       DEF Next, Update

\* Each step that stops the compressor undisturbed restarts the call's timer, or
\* leaves a sequence, the low pressure fault, or no call behind.
LEMMA StepCallRested ==
    ASSUME ControlInv, ~Disturbance, ~Disturbance', ~CntOn => CallRested,
           [Next]_vars
    PROVE  CallRested'
  <1> DEFINE Kept ==
               /\ yWasActive' => yWasActive
               /\ CntOn => CntOn'
               /\ Reversing => Reversing'
               /\ "lps" \in faults => "lps" \in faults'
               /\ UNCHANGED <<age["CNT"], age["Y"]>>
             Answered ==
               \/ ~yWasActive'
               \/ CntOn'
               \/ Reversing'
               \/ "lps" \in faults'
               \/ age'["Y"] = 0 /\ age'["CNT"] \in Nat
  <1>1. Kept \/ Answered => CallRested'
    BY DEF CallRested, RestedSince, CntOn, Reversing
  <1>2. /\ age \in [Timers -> Nat] /\ ~manualOverride
        /\ ~CancelsDefrost
        /\ Waiting => Reversing
    BY DEF ControlInv, TypeOK, Disturbance, CancelsDefrost
  <1>3. pc = "defrost" => yWasActive = y
    BY DEF ControlInv, TypeOK, Disturbance
  <1> HIDE DEF Kept, Answered
  <1>4. CASE BeginUpdate
    <2> SUFFICES ASSUME ~CallRested' PROVE FALSE
      OBVIOUS
    <2>1. PICK d \in 1..MaxLag : age' = Elapsed(d)
      BY <1>2, <1>4 DEF BeginUpdate
    <2>2. UNCHANGED <<yWasActive, on, defrost, faults>>
      BY <1>2, <1>4 DEF BeginUpdate
    <2>3. "CNT" \notin on /\ RestedSince("Y") /\ ~RestedSince("Y")'
      BY <2>2 DEF CallRested, CntOn, Reversing
    <2>4. QED
      BY <2>1, <2>3, TimeRests DEF ControlInv
  <1>5. CASE CheckCompressorTemp \/ CheckSuctionTemp \/ CheckAmbientTemp
    <2>1. CASE "lps" \in faults'
      BY <1>1, <2>1 DEF Answered
    <2>2. CASE "lps" \notin faults'
      <3>1. Kept
        BY <1>5, <2>2 DEF CheckCompressorTemp, CheckSuctionTemp,
                          CheckAmbientTemp, Disturbance, Kept, CntOn, Reversing
      <3>2. QED
        BY <1>1, <3>1
    <2>3. QED
      BY <2>1, <2>2
  <1>6. CASE CheckHighSuctionTemp
    <2>1. Kept
      BY <1>6 DEF CheckHighSuctionTemp, Disturbance, Kept, CntOn, Reversing
    <2>2. QED
      BY <1>1, <2>1
  <1>7. CASE CheckLPSFault
    <2>1. CASE "lps" \in faults /\ "lps" \notin faults'
      <3>1. /\ age' = Restarted(IF yWasActive THEN {"Y"} ELSE {})
            /\ UNCHANGED yWasActive
        BY <1>7, <2>1 DEF CheckLPSFault
      <3>2. Answered
        BY <1>2, <3>1 DEF Answered, Restarted, Timers
      <3>3. QED
        BY <1>1, <3>2
    <2>2. CASE "lps" \in faults'
      BY <1>1, <2>2 DEF Answered
    <2>3. CASE "lps" \notin faults /\ "lps" \notin faults'
      <3>1. Kept
        BY <1>7, <2>3 DEF CheckLPSFault, Kept, CntOn, Reversing
      <3>2. QED
        BY <1>1, <3>1
    <2>4. QED
      BY <2>1, <2>2, <2>3
  <1>8. CASE CheckYAndActivateCNT
    <2>1. Kept \/ Answered
      BY <1>2, <1>8 DEF CheckYAndActivateCNT, Kept, Answered, Restarted, Timers,
                        CntOn, Reversing
    <2>2. QED
      BY <1>1, <2>1
  <1>9. CASE AccumulateHeatRuntime
    <2>1. Kept
      BY <1>2, <1>9 DEF AccumulateHeatRuntime, Kept, Restarted, Timers, CntOn,
                        Reversing
    <2>2. QED
      BY <1>1, <2>1
  <1>10. CASE UpdateState
    <2>1. CASE state' = "DEFROST" /\ state # "DEFROST"
      <3>1. state' = RequestedState /\ defrost \ {"cntPending"} \subseteq defrost'
        BY <1>2, <1>10, <2>1 DEF UpdateState
      <3>2. "software" \in defrost'
        BY <2>1, <3>1 DEF RequestedState
      <3>3. QED
        BY <1>1, <3>2 DEF Answered, Reversing
    <2>2. CASE ~(state' = "DEFROST" /\ state # "DEFROST")
      <3>1. /\ UNCHANGED <<yWasActive, faults, defrost>>
            /\ age' = age \/ age' = Restarted({})
        BY <1>2, <1>10, <2>2 DEF UpdateState
      <3>2. CntOn => CntOn'
        BY <1>2, <1>10, <2>2 DEF UpdateState, RelaysOnChange, CntOn
      <3>3. Kept
        BY <1>2, <3>1, <3>2 DEF Kept, Restarted, Timers, Reversing
      <3>4. QED
        BY <1>1, <3>3
    <2>3. QED
      BY <2>1, <2>2
  <1>11. CASE CheckDefrostNeeded
    <2>1. CASE AbortSequence
      BY <1>1, <1>3, <2>1
         DEF AbortSequence, AtDefrostCheck, SequenceHalted, Answered
    <2>2. CASE EndPhase1
      BY <1>1, <1>2, <2>2 DEF EndPhase1, Waiting, Reversing, Answered
    <2>3. CASE EndPhase2
      BY <1>1, <2>3 DEF EndPhase2, CntOn, Answered
    <2>4. CASE EndDefrost
      BY <1>1, <1>3, <2>4
         DEF EndDefrost, AtDefrostCheck, ExitFlags, Reversing, Answered
    <2>5. CASE StartDefrost
      BY <1>1, <2>5 DEF StartDefrost, StartSoftwareDefrost, Reversing, Answered
    <2>6. CASE NothingDue
      BY <1>1, <2>6 DEF NothingDue, CntOn, Reversing, Kept
    <2>7. QED
      BY <1>11, <2>1, <2>2, <2>3, <2>4, <2>5, <2>6 DEF CheckDefrostNeeded
  <1>12. CASE ForceDefrost
    BY <1>1, <1>12 DEF ForceDefrost, StartSoftwareDefrost, Reversing, Answered
  <1>13. CASE ClearRvFail
    <2>1. Kept
      BY <1>13 DEF ClearRvFail, CntOn, Reversing, Kept
    <2>2. QED
      BY <1>1, <2>1
  <1>14. CASE ThermostatCall \/ UNCHANGED vars
    BY <1>1, <1>14 DEF ThermostatCall, vars, CntOn, Reversing, Kept
  <1>15. QED
    BY <1>4, <1>5, <1>6, <1>7, <1>8, <1>9, <1>10, <1>11, <1>12, <1>13, <1>14,
       OnlyTwoRequests
       DEF Next, Update

\* Two actions alone start the compressor without an operator, each after its
\* own wait.
LEMMA StartsRested ==
    ASSUME ControlInv, ~Disturbance, PhaseRested, CallRested, [Next]_vars,
           ~CntOn, CntOn'
    PROVE  age["CNT"] >= CntShortCycle \/ age["CNT"] >= OffWindow
  <1>1. {age["CNT"], age["Y"], age["phase"], OffWindow, CntShortCycle} \subseteq Nat
    BY TimesAssumption DEF ControlInv, TypeOK, Timers
  <1>2. CASE CheckYAndActivateCNT
    <2>1. yWasActive /\ CntMayStart
      BY <1>2 DEF CheckYAndActivateCNT, CntOn
    <2>2. RestedSince("Y")
      BY <2>1 DEF CntMayStart, CallRested, Reversing, Faults
    <2>3. QED
      BY <1>1, <2>1, <2>2 DEF CntMayStart, RestedSince
  <1>3. CASE EndPhase2
    BY <1>1, <1>3 DEF EndPhase2, PhaseRested, RestedSince
  <1>4. CASE \/ CheckCompressorTemp \/ CheckSuctionTemp
             \/ CheckHighSuctionTemp \/ CheckLPSFault \/ CheckAmbientTemp
    BY <1>4 DEF CheckCompressorTemp, CheckSuctionTemp, CheckHighSuctionTemp,
                CheckLPSFault, CheckAmbientTemp, ShutDownCnt, CntOn
  <1>5. CASE BeginUpdate \/ AccumulateHeatRuntime \/ UpdateState
    BY <1>5 DEF BeginUpdate, AccumulateHeatRuntime, UpdateState, RelaysOnChange,
                CntOn
  <1>6. CASE \/ AbortSequence \/ EndPhase1 \/ EndDefrost \/ StartDefrost
             \/ NothingDue
    <2>1. CASE EndPhase1
      BY <2>1 DEF EndPhase1, ReversedRelays, CntOn
    <2>2. CASE AbortSequence \/ NothingDue
      BY <2>2 DEF AbortSequence, NothingDue, CntOn
    <2>3. CASE EndDefrost \/ StartDefrost
      BY <2>3 DEF EndDefrost, StopSoftwareDefrost, StartDefrost,
                  StartSoftwareDefrost, CntOn
    <2>4. QED
      BY <1>6, <2>1, <2>2, <2>3
  <1>7. CASE WebRequest
    BY <1>7 DEF WebRequest, EnableManualOverride, DisableManualOverride,
                SetManualOutput, ForceDefrost, StopSoftwareDefrost,
                StartSoftwareDefrost, ClearRvFail, Disturbance, CntOn
  <1>8. CASE ThermostatCall \/ UNCHANGED vars
    BY <1>8 DEF ThermostatCall, vars, CntOn
  <1>9. QED
    BY <1>2, <1>3, <1>4, <1>5, <1>6, <1>7, <1>8
       DEF Next, Update, CheckDefrostNeeded

\* A compressor that went off rests for the short cycle delay, however it starts
\* again: by the call's own timer, after a long stop, or at the end of either
\* phase 2.  What the code does not keep is named by Disturbance: the rest after
\* an override, after a fault other than the low pressure one, after a defrost
\* dropped by COOL, and after a Y that changes within a pass.
THEOREM CompressorIsRested == RestSpec => CompressorRests
  <1>1. RestInit => RestInv
    <2> SUFFICES ASSUME RestInit PROVE RestInv
      OBVIOUS
    <2>1. ControlInv
      BY InitControl DEF RestInit
    <2>2. PhaseRested /\ CallRested
      BY DEF RestInit, Init, PhaseRested, CallRested
    <2>3. QED
      BY <2>1, <2>2 DEF RestInv, Rested
  <1>2. RestInv /\ [RestNext]_restVars => RestInv'
    <2> SUFFICES ASSUME RestInv, [RestNext]_restVars PROVE RestInv'
      OBVIOUS
    <2>1. [Next]_vars
      BY DEF RestNext, restVars
    <2>2. ControlInv'
      BY <2>1, ControlStep DEF RestInv
    <2>3. CASE UNCHANGED restVars
      BY <2>2, <2>3
         DEF RestInv, Rested, PhaseRested, CallRested, RestedSince, CntOn,
             Reversing, Disturbance, Waiting, restVars, vars
    <2>4. CASE RestNext
      <3> SUFFICES ASSUME ~CntOn', undisturbed', ~Disturbance'
                   PROVE  PhaseRested' /\ CallRested'
        BY <2>2 DEF RestInv, Rested
      <3>1. undisturbed /\ ~Disturbance
        BY <2>4 DEF RestNext, Remembers
      <3>2. ~CntOn => PhaseRested /\ CallRested
        BY <3>1 DEF RestInv, Rested
      <3>3. QED
        BY <2>1, <3>1, <3>2, StepPhaseRested, StepCallRested DEF RestInv
    <2>5. QED
      BY <2>3, <2>4
  <1>3. RestInv /\ [RestNext]_restVars =>
          [~CntOn /\ CntOn' /\ undisturbed /\ ~Disturbance =>
             age["CNT"] >= CntShortCycle \/ age["CNT"] >= OffWindow]_restVars
    <2> SUFFICES ASSUME RestInv, [RestNext]_restVars, ~CntOn, CntOn',
                        undisturbed, ~Disturbance
                 PROVE  age["CNT"] >= CntShortCycle \/ age["CNT"] >= OffWindow
      OBVIOUS
    <2>1. [Next]_vars
      BY DEF RestNext, restVars
    <2>2. QED
      BY <2>1, StartsRested DEF RestInv, Rested
  <1>4. QED
    BY <1>1, <1>2, <1>3, PTL DEF RestSpec, CompressorRests
=============================================================================
