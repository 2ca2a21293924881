--------------------- MODULE HeatPumpRefinement_proofs ---------------------
(***************************************************************************)
(* The controller implements two abstract specifications, for every value  *)
(* of the constants: SavedState, the part of it that the save task sees,   *)
(* and DefrostSequence, the order in which a defrost moves the compressor  *)
(* and the valve.  Each of its steps is a step of either or a stutter.     *)
(* Both assume, as LatchInv does, that the override is switched between    *)
(* two passes.                                                             *)
(***************************************************************************)
EXTENDS HeatPump_proofs

SoftwareDefrost == "software" \in defrost
RvFail == "rvFail" \in faults
Live == [runtime |-> heatRuntime, defrost |-> SoftwareDefrost, rvFail |-> RvFail]

\* A step of SavedState, told of the three values instead of their record.
Unseen == UNCHANGED <<heatRuntime, SoftwareDefrost, RvFail>>
Longer ==
    /\ ~RvFail /\ ~SoftwareDefrost
    /\ heatRuntime' >= heatRuntime /\ UNCHANGED <<SoftwareDefrost, RvFail>>
Reset == heatRuntime' = 0 /\ UNCHANGED <<SoftwareDefrost, RvFail>>
Begun ==
    /\ ~RvFail /\ ~SoftwareDefrost /\ SoftwareDefrost'
    /\ UNCHANGED <<heatRuntime, RvFail>>
Ended ==
    /\ SoftwareDefrost /\ ~SoftwareDefrost' /\ heatRuntime' = 0
    /\ UNCHANGED RvFail
Latched ==
    /\ SoftwareDefrost /\ ~SoftwareDefrost' /\ heatRuntime' = 0 /\ RvFail'
Cleared == ~RvFail' /\ UNCHANGED <<heatRuntime, SoftwareDefrost>>

SavedStep ==
    Unseen \/ Longer \/ Reset \/ Begun \/ Ended \/ Latched \/ Cleared

\* The fields of the records are names in this proof, not the formulas they
\* stand for.
LEMMA SavedStepMaps ==
    ASSUME TypeOK, TypeOK', SavedStep
    PROVE  [Saved!ControllerStep \/ Saved!Clear]_Live
<1> DEFINE d == "software" \in defrost
           f == "rvFail" \in faults
           e == "software" \in defrost'
           g == "rvFail" \in faults'
           no == FALSE
           yes == TRUE
           s == [runtime |-> heatRuntime, defrost |-> d, rvFail |-> f]
           t == [runtime |-> heatRuntime', defrost |-> e, rvFail |-> g]
<1>1. heatRuntime \in 0..HeatThreshold /\ heatRuntime' \in 0..HeatThreshold
  BY DEF TypeOK
<1> HIDE DEF d, f, e, g, no, yes
<1>2. s.runtime = heatRuntime /\ s.defrost = d /\ s.rvFail = f
  BY SMT
<1>3. CASE Unseen
  BY <1>3 DEF Unseen, Live
<1>4. CASE Longer
  <2>1. /\ ~f /\ ~d /\ e = d /\ g = f
        /\ heatRuntime' \in heatRuntime..HeatThreshold
    BY <1>1, <1>4, TimesAssumption
       DEF Longer, SoftwareDefrost, RvFail, d, e, f, g
  <2>2. t = [s EXCEPT !.runtime = heatRuntime']
    BY <2>1, SMT
  <2>3. ~s.rvFail /\ ~s.defrost /\ heatRuntime' \in s.runtime..HeatThreshold
    BY <1>2, <2>1, Zenon
  <2>4. \E more \in s.runtime..HeatThreshold : t = [s EXCEPT !.runtime = more]
    BY <2>2, <2>3, Zenon
  <2>5. QED
    BY <2>3, <2>4, Zenon DEF Saved!Accumulate, Saved!ControllerStep, d, e, f, g
<1>5. CASE Reset
  <2>1. heatRuntime' = 0 /\ e = d /\ g = f
    BY <1>5 DEF Reset, SoftwareDefrost, RvFail, d, e, f, g
  <2>2. t = [s EXCEPT !.runtime = 0]
    BY <2>1, SMT
  <2>3. QED
    BY <2>2, Zenon DEF Saved!ResetRuntime, Saved!ControllerStep, d, e, f, g
<1>6. CASE Begun
  <2>1. ~f /\ ~d /\ e = yes /\ g = f /\ heatRuntime' = heatRuntime
    BY <1>6 DEF Begun, SoftwareDefrost, RvFail, d, e, f, g, yes
  <2>2. t = [s EXCEPT !.defrost = yes]
    BY <2>1, SMT
  <2>3. ~s.rvFail /\ ~s.defrost
    BY <1>2, <2>1, Zenon
  <2>4. QED
    BY <2>2, <2>3, Zenon
       DEF Saved!BeginDefrost, Saved!ControllerStep, d, e, f, g, yes
<1>7. CASE Ended
  <2>1. d /\ e = no /\ g = f /\ heatRuntime' = 0
    BY <1>7 DEF Ended, SoftwareDefrost, RvFail, d, e, f, g, no
  <2>2. t = [s EXCEPT !.defrost = no, !.runtime = 0]
    <3>1. [s EXCEPT !.defrost = no] =
            [runtime |-> heatRuntime, defrost |-> no, rvFail |-> f]
      BY SMT
    <3>2. t = [[runtime |-> heatRuntime, defrost |-> no, rvFail |-> f]
                 EXCEPT !.runtime = 0]
      BY <2>1, SMT
    <3>3. QED
      BY <3>1, <3>2, Zenon
  <2>3. s.defrost
    BY <1>2, <2>1, Zenon
  <2>4. QED
    BY <2>2, <2>3, Zenon
       DEF Saved!EndOfDefrost, Saved!ControllerStep, d, e, f, g, no
<1>8. CASE Latched
  <2>1. d /\ e = no /\ g = yes /\ heatRuntime' = 0
    BY <1>8 DEF Latched, SoftwareDefrost, RvFail, d, e, f, g, no, yes
  <2>2. s.defrost /\ t = [runtime |-> 0, defrost |-> no, rvFail |-> yes]
    BY <1>2, <2>1, Zenon
  <2>3. QED
    BY <2>2, Zenon
       DEF Saved!LatchRvFail, Saved!ControllerStep, d, e, f, g, no, yes
<1>9. CASE Cleared
  <2>1. e = d /\ g = no /\ heatRuntime' = heatRuntime
    BY <1>9 DEF Cleared, SoftwareDefrost, RvFail, d, e, f, g, no
  <2>2. t = [s EXCEPT !.rvFail = no]
    BY <2>1, SMT
  <2>3. QED
    BY <2>2, Zenon DEF Saved!Clear, d, e, f, g, no
<1>10. QED
  BY <1>3, <1>4, <1>5, <1>6, <1>7, <1>8, <1>9 DEF SavedStep

\* The checks of a pass.
LEMMA PassSaved == ASSUME LatchInv, Update PROVE SavedStep
<1> USE DEF SoftwareDefrost, RvFail
<1>1. CASE BeginUpdate
  BY <1>1 DEF BeginUpdate, SavedStep, Unseen
<1>2. CASE CheckCompressorTemp \/ CheckSuctionTemp \/ CheckLPSFault
             \/ CheckAmbientTemp
  BY <1>2 DEF CheckCompressorTemp, CheckSuctionTemp, CheckLPSFault,
              CheckAmbientTemp, SavedStep, Unseen
<1>3. CASE CheckHighSuctionTemp
  BY <1>3 DEF CheckHighSuctionTemp, SavedStep, Unseen, Latched
<1>4. CASE CheckYAndActivateCNT
  BY <1>4 DEF CheckYAndActivateCNT, Phases, SavedStep, Unseen
<1>5. CASE AccumulateHeatRuntime
  <2>1. UNCHANGED <<defrost, faults>>
    BY <1>5 DEF AccumulateHeatRuntime
  <2>2. \/ heatRuntime' = 0 \/ heatRuntime' = heatRuntime
        \/ /\ "software" \notin defrost /\ "CNT" \in on /\ state = "HEAT"
           /\ heatRuntime' = AccumulatedRuntime
    BY <1>5 DEF AccumulateHeatRuntime
  <2>3. CASE /\ "software" \notin defrost /\ "CNT" \in on
             /\ heatRuntime' = AccumulatedRuntime
    <3>1. pc # "idle"
      BY <1>5 DEF AccumulateHeatRuntime
    <3>2. "rvFail" \notin faults
      BY <2>3, <3>1 DEF LatchInv, FailureQuiet, OverrideBetweenPasses, CntOn
    <3>3. heatRuntime' >= heatRuntime
      BY <2>3, TimesAssumption
         DEF LatchInv, ControlInv, TypeOK, AccumulatedRuntime, Smaller, Timers
    <3>4. QED
      BY <2>1, <2>3, <3>2, <3>3 DEF SavedStep, Longer
  <2>4. QED
    BY <2>1, <2>2, <2>3 DEF SavedStep, Unseen, Reset
<1>6. CASE UpdateState
  BY <1>6 DEF UpdateState, CancelsDefrost, SavedStep, Unseen, Ended
<1>7. CASE CheckDefrostNeeded
  <2>1. CASE AbortSequence \/ EndPhase1 \/ EndPhase2 \/ NothingDue
    <3>1. UNCHANGED <<heatRuntime, faults>>
      BY <2>1 DEF AbortSequence, EndPhase1, EndPhase2, NothingDue
    <3>2. "software" \in defrost' <=> "software" \in defrost
      <4>1. CASE AbortSequence
        BY <4>1 DEF AbortSequence, Phases
      <4>2. CASE EndPhase1
        BY <4>2 DEF EndPhase1
      <4>3. CASE EndPhase2
        BY <4>3 DEF EndPhase2
      <4>4. QED
        BY <2>1, <4>1, <4>2, <4>3 DEF NothingDue
    <3>3. QED
      BY <3>1, <3>2 DEF SavedStep, Unseen
  <2>2. CASE EndDefrost
    BY <2>2 DEF EndDefrost, StopSoftwareDefrost, ExitFlags, SavedStep, Ended
  <2>3. CASE StartDefrost
    <3>1. "rvFail" \notin faults
      BY <2>3, TimesAssumption DEF StartDefrost, LatchInv, FailureQuiet
    <3>2. QED
      BY <2>3, <3>1 DEF StartDefrost, StartSoftwareDefrost, SavedStep, Begun
  <2>4. QED
    BY <1>7, <2>1, <2>2, <2>3 DEF CheckDefrostNeeded
<1>8. QED
  BY <1>1, <1>2, <1>3, <1>4, <1>5, <1>6, <1>7 DEF Update

\* The calls of the web tasks, and the thermostat.
LEMMA RequestSaved ==
    ASSUME WebRequest \/ ThermostatCall PROVE SavedStep
<1> USE DEF SoftwareDefrost, RvFail
<1>1. CASE EnableManualOverride
  BY <1>1 DEF EnableManualOverride, StopSoftwareDefrost, ExitFlags, SavedStep,
              Ended, Unseen
<1>2. CASE DisableManualOverride
  BY <1>2 DEF DisableManualOverride, SavedStep, Unseen
<1>3. ASSUME NEW name \in Outputs, NEW level \in BOOLEAN,
             SetManualOutput(name, level)
      PROVE  SavedStep
  BY <1>3 DEF SetManualOutput, SavedStep, Unseen
<1>4. CASE ForceDefrost
  BY <1>4 DEF ForceDefrost, StartSoftwareDefrost, SavedStep, Begun
<1>5. CASE ClearRvFail
  BY <1>5 DEF ClearRvFail, SavedStep, Cleared
<1>6. CASE ThermostatCall
  BY <1>6 DEF ThermostatCall, SavedStep, Unseen
<1>7. QED
  BY <1>1, <1>2, <1>3, <1>4, <1>5, <1>6 DEF WebRequest

\* What a restart may restore is what the controller may hold: with the
\* override served between passes, the heat runtime, the defrost and the
\* latched failure only ever move as SavedState says.
THEOREM SavedStateKept ==
    ASSUME Serialised
    PROVE  Spec => KeepsSavedState
<1>1. LatchInv /\ [Next]_vars => LatchInv'
  BY LatchStep
<1>2. Init => Saved!LiveInit
  <2> SUFFICES ASSUME Init PROVE Saved!LiveInit
    OBVIOUS
  <2>1. /\ heatRuntime \in 0..HeatThreshold
        /\ ("software" \in defrost) \in BOOLEAN
        /\ ("rvFail" \in faults) \in BOOLEAN
    BY TimesAssumption DEF Init
  <2>2. "rvFail" \in faults => "software" \notin defrost /\ heatRuntime = 0
    BY DEF Init
  <2>3. QED
    BY <2>1, <2>2
       DEF Saved!LiveInit, Saved!SavedStates, Saved!Quiet
<1>3. LatchInv /\ LatchInv' /\ [Next]_vars =>
        [Saved!ControllerStep \/ Saved!Clear]_Live
  <2> SUFFICES ASSUME LatchInv, LatchInv', [Next]_vars
               PROVE  [Saved!ControllerStep \/ Saved!Clear]_Live
    OBVIOUS
  <2>1. CASE UNCHANGED vars
    BY <2>1 DEF vars, Live, SoftwareDefrost, RvFail
  <2>2. CASE Next
    BY <2>2, PassSaved, RequestSaved, SavedStepMaps DEF Next, LatchInv, ControlInv
  <2>3. QED
    BY <2>1, <2>2
<1>4. QED
  BY InitLatch, <1>1, <1>2, <1>3, PTL
     DEF Spec, KeepsSavedState, Saved!LiveSpec, Live, SoftwareDefrost, RvFail

-----------------------------------------------------------------------------
(* The sequence of a defrost *)

\* An override leaves no defrost and no exit, and nothing starts one under it.
OverrideEndsSequence ==
    manualOverride => defrost \cap {"software", "exiting"} = {}

SequenceInv == LatchInv /\ OverrideEndsSequence

\* A step of DefrostSequence, or one that it does not see.
SequenceStep == [Sequence!SeqNext]_Sequence!seqVars

\* The checks that stop the compressor on a fault: it runs outside a defrost or
\* in an active one, never during a wait.
LEMMA FaultChecksSequence ==
    ASSUME SequenceInv, CheckCompressorTemp \/ CheckSuctionTemp \/ CheckLPSFault
                          \/ CheckAmbientTemp
    PROVE  SequenceStep
<1>1. "CNT" \in on' => "CNT" \in on
  BY DEF CheckCompressorTemp, CheckSuctionTemp, CheckLPSFault,
         CheckAmbientTemp, ShutDownCnt
<1>2. pc # "idle" /\ defrost' = defrost
  BY DEF CheckCompressorTemp, CheckSuctionTemp, CheckLPSFault, CheckAmbientTemp
<1>3. ~manualOverride
  BY <1>2 DEF SequenceInv, LatchInv, OverrideBetweenPasses
<1>4. /\ "CNT" \in on => ~(Reversing /\ Waiting)
      /\ "exiting" \in defrost => Waiting
  BY <1>3 DEF SequenceInv, LatchInv, ControlInv, WaitingHoldsCntOff,
              ExitInPhase, CntOn
<1>5. QED
  BY <1>1, <1>2, <1>4
     DEF SequenceStep, Sequence!SeqNext, Sequence!SwitchCompressor,
         Sequence!seqVars, SequencePhase, CntOn, Reversing, Waiting

\* The other checks of a pass up to the last, and the phases of the last.
LEMMA PassSequence == ASSUME SequenceInv, Update PROVE SequenceStep
<1> USE DEF SequenceInv, LatchInv, ControlInv, CntFlagMirrorsRelay,
            WaitingHoldsCntOff, ExitInPhase, OverrideBetweenPasses,
            OverrideEndsSequence, TypeOK, CntOn, Reversing, Waiting,
            SequencePhase, SequenceStep, Sequence!SeqNext, Sequence!seqVars,
            Sequence!Step
<1>1. CASE BeginUpdate
  BY <1>1 DEF BeginUpdate, Sequence!SwitchCompressor
<1>2. CASE CheckCompressorTemp \/ CheckSuctionTemp \/ CheckLPSFault
             \/ CheckAmbientTemp
  BY <1>2, FaultChecksSequence
<1>3. CASE CheckHighSuctionTemp
  BY <1>3 DEF CheckHighSuctionTemp, ShutDownCnt, Sequence!Cancel
<1>4. CASE CheckYAndActivateCNT
  BY <1>4 DEF CheckYAndActivateCNT, CntMayStart, Phases, Sequence!Suspend,
              Sequence!EntryWaits, Sequence!Cancel, Sequence!SwitchCompressor
<1>5. CASE AccumulateHeatRuntime
  BY <1>5 DEF AccumulateHeatRuntime
<1>6. CASE UpdateState
  BY <1>6 DEF UpdateState, RequestedState, RelaysOnChange, CancelsDefrost,
              Sequence!Enter, Sequence!Cancel
<1>7. CASE CheckDefrostNeeded
  <2>1. CASE AbortSequence
    BY <2>1 DEF AbortSequence, AtDefrostCheck, Phases, Sequence!Suspend,
                Sequence!EntryWaits, Sequence!Cancel, Sequence!SwitchCompressor
  <2>2. CASE EndPhase1
    BY <2>2 DEF EndPhase1, AtDefrostCheck, ReversedRelays, Sequence!Reverse,
                Sequence!Restore
  <2>3. CASE EndPhase2
    BY <2>3 DEF EndPhase2, AtDefrostCheck, Sequence!Run, Sequence!Resume,
                Sequence!SwitchCompressor
  <2>4. CASE EndDefrost
    BY <2>4 DEF EndDefrost, StopSoftwareDefrost, ExitFlags, Sequence!Finish,
                Sequence!Cancel
  <2>5. CASE StartDefrost
    BY <2>5 DEF StartDefrost, StartSoftwareDefrost, Sequence!Enter
  <2>6. CASE NothingDue
    BY <2>6 DEF NothingDue
  <2>7. QED
    BY <1>7, <2>1, <2>2, <2>3, <2>4, <2>5, <2>6 DEF CheckDefrostNeeded
<1>8. QED
  BY <1>1, <1>2, <1>3, <1>4, <1>5, <1>6, <1>7 DEF Update

\* The calls of the web tasks, and the thermostat.
LEMMA RequestSequence ==
    ASSUME SequenceInv, WebRequest \/ ThermostatCall
    PROVE  SequenceStep
<1> USE DEF SequenceInv, LatchInv, ControlInv, CntFlagMirrorsRelay,
            WaitingHoldsCntOff, ExitInPhase, OverrideBetweenPasses,
            OverrideEndsSequence, TypeOK, CntOn, Reversing, Waiting,
            SequencePhase, SequenceStep, Sequence!SeqNext, Sequence!seqVars,
            Sequence!Step
<1>1. CASE EnableManualOverride
  BY <1>1 DEF EnableManualOverride, OverrideIsNew, StopSoftwareDefrost,
              ExitFlags, Sequence!Cancel
<1>2. CASE DisableManualOverride
  BY <1>2 DEF DisableManualOverride, Sequence!SwitchCompressor
<1>3. ASSUME NEW name \in Outputs, NEW level \in BOOLEAN,
             SetManualOutput(name, level)
      PROVE  SequenceStep
  BY <1>3 DEF SetManualOutput, Sequence!SwitchCompressor
<1>4. CASE ForceDefrost
  BY <1>4 DEF ForceDefrost, StartSoftwareDefrost, Sequence!Enter
<1>5. CASE ClearRvFail
  BY <1>5 DEF ClearRvFail
<1>6. CASE ThermostatCall
  BY <1>6 DEF ThermostatCall
<1>7. QED
  BY <1>1, <1>2, <1>3, <1>4, <1>5, <1>6 DEF WebRequest

LEMMA SequenceInvStep ==
    ASSUME Serialised, SequenceInv, [Next]_vars
    PROVE  SequenceInv'
<1>1. LatchInv'
  BY LatchStep DEF SequenceInv
<1>2. OverrideEndsSequence'
  <2> USE DEF SequenceInv, OverrideEndsSequence
  <2>1. CASE UNCHANGED vars
    BY <2>1 DEF vars
  <2>2. CASE Update
    <3>1. manualOverride' => BeginUpdate
      BY <1>1, <2>2
         DEF LatchInv, OverrideBetweenPasses, Update, CheckCompressorTemp,
             CheckSuctionTemp, CheckHighSuctionTemp, CheckLPSFault,
             CheckAmbientTemp, CheckYAndActivateCNT, AccumulateHeatRuntime,
             UpdateState, CheckDefrostNeeded, AbortSequence, EndPhase1,
             EndPhase2, EndDefrost, StartDefrost, NothingDue, AtDefrostCheck,
             modes
    <3>2. QED
      BY <3>1 DEF BeginUpdate
  <2>3. CASE EnableManualOverride
    BY <2>3 DEF EnableManualOverride, StopSoftwareDefrost, ExitFlags
  <2>4. CASE DisableManualOverride \/ ClearRvFail \/ ThermostatCall
               \/ ForceDefrost
               \/ \E name \in Outputs, level \in BOOLEAN :
                     SetManualOutput(name, level)
    BY <2>4 DEF DisableManualOverride, ClearRvFail, ThermostatCall,
                ForceDefrost, SetManualOutput, modes
  <2>5. QED
    BY <2>1, <2>2, <2>3, <2>4 DEF Next, WebRequest
<1>3. QED
  BY <1>1, <1>2 DEF SequenceInv

\* The controller follows DefrostSequence: with the override served between
\* passes, the compressor stops before the valve moves in either direction, no
\* phase is skipped, and the compressor comes back only at the end of a wait or
\* with no defrost under way, whatever Y, the faults and the pages do meanwhile.
THEOREM SequenceFollowed ==
    ASSUME Serialised
    PROVE  Spec => FollowsSequence
<1>1. Init => SequenceInv
  BY InitLatch DEF Init, SequenceInv, OverrideEndsSequence
<1>2. SequenceInv /\ [Next]_vars => SequenceInv'
  BY SequenceInvStep
<1>3. Init => Sequence!SeqInit
  BY DEF Init, Sequence!SeqInit, SequencePhase, Waiting, CntOn
<1>4. SequenceInv /\ [Next]_vars => [Sequence!SeqNext]_Sequence!seqVars
  <2>1. UNCHANGED vars => UNCHANGED Sequence!seqVars
    BY DEF vars, Sequence!seqVars, SequencePhase, Waiting, CntOn
  <2>2. QED
    BY <2>1, PassSequence, RequestSequence DEF Next, SequenceStep
<1>5. QED
  BY <1>1, <1>2, <1>3, <1>4, PTL DEF Spec, FollowsSequence, Sequence!SeqSpec
=============================================================================
