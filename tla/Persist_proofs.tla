--------------------------- MODULE Persist_proofs ---------------------------
(***************************************************************************)
(* What saves and power losses keep, for every threshold, every setting    *)
(* and every bound on the card's errors, whether saves may overlap or not: *)
(* until two have, or the card has failed, the file holds what proj says,  *)
(* and never a state that the controller may not start from.               *)
(***************************************************************************)
EXTENDS Persist, TLAPS

\* Until two saves overlap, at most one task is saving.
OneSaver ==
    ~overlapped => \A s, t \in Tasks :
        job[s].step # "idle" /\ job[t].step # "idle" => s = t

\* Until the card fails or two saves overlap, a save under way writes proj, the
\* file is unreadable only inside a save, and proj and the file hold states of
\* the controller.
SavesProj ==
    errors = 0 /\ ~overlapped =>
        /\ Quiet(live) /\ Quiet(proj.state)
        /\ \A t \in Tasks : job[t].step # "idle" => job[t].doc = proj
        /\ AllIdle => file = Holding(proj)
        /\ file.health # "garbled"
        /\ file.health = "readable" => Quiet(file.doc.state)

\* BelievedIsSaved is not inductive: that a save writes proj is why.
IInv == TypeOK /\ OneSaver /\ SavesProj

-----------------------------------------------------------------------------
(* Types *)

LEMMA DefaultsTyped == Defaults \in Docs /\ Quiet(Defaults.state)
  BY PersistAssumption, SMT DEF Defaults, Docs, SavedStates, Quiet

\* The records that the save task builds.
LEMMA DocsTyped ==
    ASSUME live \in SavedStates, proj \in Docs, NEW old \in Docs
    PROVE  Noted \in Docs /\ RuntimeDoc(old) \in Docs
  BY DEF Noted, RuntimeDoc, Docs, SavedStates

\* The controller's steps stay among the saved states, and keep them quiet.
LEMMA ControllerTyped ==
    ASSUME live \in SavedStates, ControllerStep \/ Clear
    PROVE  live' \in SavedStates /\ (Quiet(live) => Quiet(live'))
<1>1. CASE Accumulate
  BY <1>1, PersistAssumption DEF Accumulate, SavedStates, Quiet
<1>2. CASE ResetRuntime
  BY <1>2, PersistAssumption DEF ResetRuntime, SavedStates, Quiet
<1>3. CASE BeginDefrost
  BY <1>3 DEF BeginDefrost, SavedStates, Quiet
<1>4. CASE EndOfDefrost
  <2>1. live' \in SavedStates
    <3>1. 0 \in 0..Threshold
      BY PersistAssumption
    <3>2. [live EXCEPT !.defrost = FALSE] \in SavedStates
      BY DEF SavedStates
    <3>3. live' = [[live EXCEPT !.defrost = FALSE] EXCEPT !.runtime = 0]
      BY <1>4 DEF EndOfDefrost
    <3>4. QED
      BY <3>1, <3>2, <3>3 DEF SavedStates
  <2>2. live'.runtime = 0 /\ ~live'.defrost
    BY <1>4 DEF EndOfDefrost, SavedStates
  <2>3. QED
    BY <2>1, <2>2 DEF Quiet
<1>5. CASE LatchRvFail
  BY <1>5, PersistAssumption DEF LatchRvFail, SavedStates, Quiet
<1>6. CASE Clear
  BY <1>6 DEF Clear, SavedStates, Quiet
<1>7. QED
  BY <1>1, <1>2, <1>3, <1>4, <1>5, <1>6 DEF ControllerStep

\* What a save begins with: nothing, or a job that holds doc.
LEMMA MergeResult ==
    ASSUME TypeOK, NEW t \in Tasks, NEW doc \in Docs, ReadAndMerge(t, doc)
    PROVE  /\ errors' \in 0..MaxErrors
           /\ \/ job' = [job EXCEPT ![t] = [step |-> "open", doc |-> doc]]
              \/ job' = job
           /\ job' \in [Tasks -> [step : {"idle", "open", "write"}, doc : Docs]]
           /\ errors' = 0 => errors = 0
           /\ errors' = 0 /\ file.health = "readable" =>
                job' = [job EXCEPT ![t] = [step |-> "open", doc |-> doc]]
<1>1. /\ errors' \in 0..MaxErrors
      /\ errors' = 0 => errors = 0
      /\ errors' = 0 /\ file.health = "readable" =>
           job' = [job EXCEPT ![t] = [step |-> "open", doc |-> doc]]
  BY PersistAssumption DEF ReadAndMerge, CardFails, TypeOK
<1>2. \/ job' = [job EXCEPT ![t] = [step |-> "open", doc |-> doc]]
      \/ job' = job
  BY DEF ReadAndMerge
<1>3. job' \in [Tasks -> [step : {"idle", "open", "write"}, doc : Docs]]
  BY <1>2 DEF TypeOK
<1>4. QED
  BY <1>1, <1>2, <1>3

LEMMA InitTyped == ASSUME Init PROVE TypeOK
<1>1. live \in SavedStates /\ proj \in Docs
  BY DefaultsTyped DEF Init, Docs
<1>2. file \in [health : {"readable", "empty", "garbled"}, doc : Docs]
  BY DefaultsTyped DEF Init, Holding
<1>3. job \in [Tasks -> [step : {"idle", "open", "write"}, doc : Docs]]
  BY DefaultsTyped DEF Init, Idle
<1>4. errors \in 0..MaxErrors
  BY PersistAssumption DEF Init
<1>5. overlapped \in BOOLEAN
  BY DEF Init
<1>6. QED
  BY <1>1, <1>2, <1>3, <1>4, <1>5 DEF TypeOK

-----------------------------------------------------------------------------
(* Every step keeps the invariant *)

LEMMA ControlStep == ASSUME IInv, Control PROVE IInv'
<1>1. live' \in SavedStates /\ (Quiet(live) => Quiet(live'))
  BY ControllerTyped DEF IInv, TypeOK, Control
<1>2. UNCHANGED <<proj, file, job, errors, overlapped>>
  BY DEF Control
<1>3. TypeOK'
  BY <1>1, <1>2 DEF IInv, TypeOK
<1>4. OneSaver' /\ (AllIdle <=> AllIdle')
  BY <1>2 DEF IInv, OneSaver, AllIdle
<1>5. SavesProj'
  BY <1>1, <1>2, <1>4 DEF IInv, SavesProj, Holding
<1>6. QED
  BY <1>3, <1>4, <1>5 DEF IInv

\* A save that begins: nobody else saves, or saves have overlapped from now on,
\* and it writes what proj has become.
LEMMA BegunSave ==
    ASSUME IInv, NEW t \in Tasks, SaveBegins(t), NEW doc \in Docs,
           ReadAndMerge(t, doc), UNCHANGED file,
           proj' \in Docs, live' \in SavedStates,
           errors = 0 /\ ~overlapped' =>
              Quiet(live') /\ Quiet(proj'.state) /\ doc = proj'
    PROVE  IInv'
<1>0. overlapped' \in BOOLEAN /\ (~overlapped' => ~overlapped /\ AllIdle)
  <2>1. overlapped \in BOOLEAN /\ overlapped' = (overlapped \/ ~AllIdle)
    BY DEF IInv, TypeOK, SaveBegins
  <2>2. QED
    BY <2>1, Zenon
<1>1. /\ errors' \in 0..MaxErrors
      /\ \/ job' = [job EXCEPT ![t] = [step |-> "open", doc |-> doc]]
         \/ job' = job
      /\ job' \in [Tasks -> [step : {"idle", "open", "write"}, doc : Docs]]
      /\ errors' = 0 => errors = 0
      /\ errors' = 0 /\ file.health = "readable" =>
           job' = [job EXCEPT ![t] = [step |-> "open", doc |-> doc]]
  BY MergeResult DEF IInv
<1>2. TypeOK'
  BY <1>0, <1>1 DEF IInv, TypeOK
<1>3. job \in [Tasks -> [step : {"idle", "open", "write"}, doc : Docs]]
  BY DEF IInv, TypeOK
<1>4. ASSUME AllIdle
      PROVE  \A s \in Tasks :
                job'[s].step # "idle" => s = t /\ job'[t].doc = doc
  BY <1>1, <1>3, <1>4 DEF AllIdle
<1>5. OneSaver'
  BY <1>0, <1>4 DEF OneSaver
<1>6. SavesProj'
  <2> SUFFICES ASSUME errors' = 0, ~overlapped'
               PROVE  /\ Quiet(live') /\ Quiet(proj'.state)
                      /\ \A s \in Tasks :
                            job'[s].step # "idle" => job'[s].doc = proj'
                      /\ ~AllIdle'
                      /\ file.health # "garbled"
                      /\ file.health = "readable" => Quiet(file.doc.state)
    BY DEF SavesProj
  <2>0. ~overlapped /\ AllIdle
    BY <1>0
  <2>1. errors = 0 /\ file = Holding(proj)
    BY <1>1, <2>0 DEF IInv, SavesProj
  <2>2. file.health = "readable" /\ file.doc = proj
    BY <2>1 DEF Holding
  <2>3. job' = [job EXCEPT ![t] = [step |-> "open", doc |-> doc]]
    BY <1>1, <2>2
  <2>4. ~AllIdle'
    BY <1>3, <2>3 DEF AllIdle
  <2>5. QED
    BY <1>4, <2>0, <2>1, <2>2, <2>4 DEF IInv, SavesProj
<1>7. QED
  BY <1>2, <1>5, <1>6 DEF IInv

\* When nothing needs a full update, the two fields that updateRuntime()
\* changes are all that differs from the file.
LEMMA SaveRuntimeStep == ASSUME IInv, SaveRuntime PROVE IInv'
<1>1. SaveBegins("loop") /\ "loop" \in Tasks
  BY DEF SaveRuntime, Tasks
<1>2. ~overlapped' => ~overlapped /\ AllIdle
  <2>1. overlapped \in BOOLEAN /\ overlapped' = (overlapped \/ ~AllIdle)
    BY <1>1 DEF IInv, TypeOK, SaveBegins
  <2>2. QED
    BY <2>1, Zenon
<1>3. live \in SavedStates /\ proj \in Docs /\ file.doc \in Docs
  BY DEF IInv, TypeOK
<1>4. /\ Noted \in Docs
      /\ RuntimeDoc(file.doc) \in Docs
  BY <1>3, DocsTyped
<1>5. /\ live' \in SavedStates /\ proj' \in Docs /\ UNCHANGED file
      /\ proj' = Noted
  BY <1>3, <1>4 DEF SaveRuntime
<1>6. errors = 0 /\ ~overlapped' => Quiet(live') /\ Quiet(proj'.state)
  BY <1>3, <1>2 DEF IInv, SavesProj, SaveRuntime, Noted, Docs
<1>7. CASE NeedsFullUpdate /\ ReadAndMerge("loop", Noted)
  BY <1>1, <1>4, <1>5, <1>6, <1>7, BegunSave
<1>8. CASE ~NeedsFullUpdate /\ ReadAndMerge("loop", RuntimeDoc(file.doc))
  <2>1. errors = 0 /\ ~overlapped' => RuntimeDoc(file.doc) = Noted
    <3>1. errors = 0 /\ ~overlapped' => file.doc = proj
      BY <1>2 DEF IInv, SavesProj, Holding
    <3>2. RuntimeDoc(proj) = Noted
      BY <1>3, <1>8 DEF NeedsFullUpdate, RuntimeDoc, Noted, Docs, SavedStates
    <3>3. QED
      BY <3>1, <3>2
  <2>2. QED
    BY <1>1, <1>4, <1>5, <1>6, <1>8, <2>1, BegunSave
<1>9. QED
  BY <1>7, <1>8 DEF SaveRuntime

LEMMA SaveSettingsStep ==
    ASSUME IInv, NEW setting \in Settings, NEW clear \in BOOLEAN,
           SaveSettings(setting, clear)
    PROVE  IInv'
<1>1. SaveBegins("web") /\ "web" \in Tasks
  BY DEF SaveSettings, Tasks
<1>2. ~overlapped' => ~overlapped
  <2>1. overlapped \in BOOLEAN /\ overlapped' = (overlapped \/ ~AllIdle)
    BY <1>1 DEF IInv, TypeOK, SaveBegins
  <2>2. QED
    BY <2>1, Zenon
<1>3. live \in SavedStates /\ proj \in Docs
  BY DEF IInv, TypeOK
<1>4. live' \in SavedStates /\ (Quiet(live) => Quiet(live'))
  BY <1>3, ControllerTyped DEF SaveSettings
<1>5. proj' = [proj EXCEPT !.setting = setting, !.state.rvFail = @ /\ ~clear]
  BY DEF SaveSettings
<1>6. proj' \in Docs
  BY <1>3, <1>5 DEF Docs, SavedStates
<1>7. Quiet(proj.state) => Quiet(proj'.state)
  BY <1>3, <1>5 DEF Docs, SavedStates, Quiet
<1>8. ReadAndMerge("web", proj') /\ UNCHANGED file
  BY DEF SaveSettings
<1>9. QED
  BY <1>1, <1>4, <1>6, <1>7, <1>8, <1>2, BegunSave DEF IInv, SavesProj

LEMMA TruncateStep == ASSUME IInv, NEW t \in Tasks, Truncate(t) PROVE IInv'
<1>1. job[t].step = "open" /\ UNCHANGED <<live, proj, overlapped>>
  BY DEF Truncate
<1>2. job \in [Tasks -> [step : {"idle", "open", "write"}, doc : Docs]]
  BY DEF IInv, TypeOK
<1>3. Idle \in [step : {"idle", "open", "write"}, doc : Docs]
  BY DefaultsTyped DEF Idle
<1>4. CASE /\ file' = Unreadable("empty")
           /\ job' = [job EXCEPT ![t].step = "write"]
           /\ UNCHANGED errors
  <2>1. job' \in [Tasks -> [step : {"idle", "open", "write"}, doc : Docs]]
    BY <1>2, <1>4
  <2>2. \A s \in Tasks : /\ job'[s].step # "idle" <=> job[s].step # "idle"
                         /\ job'[s].doc = job[s].doc
    BY <1>1, <1>2, <1>4
  <2>3. file' \in [health : {"readable", "empty", "garbled"}, doc : Docs]
    BY <1>4, DefaultsTyped DEF Unreadable
  <2>4. file'.health = "empty" /\ ~AllIdle'
    BY <1>1, <1>4, <2>2 DEF Unreadable, AllIdle
  <2>5. TypeOK'
    BY <1>1, <1>4, <2>1, <2>3 DEF IInv, TypeOK
  <2>6. OneSaver'
    BY <1>1, <2>2 DEF IInv, OneSaver
  <2>7. SavesProj'
    BY <1>1, <1>4, <2>2, <2>4 DEF IInv, SavesProj
  <2>8. QED
    BY <2>5, <2>6, <2>7 DEF IInv
<1>5. CASE CardFails /\ job' = [job EXCEPT ![t] = Idle] /\ UNCHANGED file
  <2>1. job' \in [Tasks -> [step : {"idle", "open", "write"}, doc : Docs]]
    BY <1>2, <1>3, <1>5
  <2>2. errors' \in 0..MaxErrors /\ errors' # 0
    BY <1>5, PersistAssumption DEF CardFails, IInv, TypeOK
  <2>3. TypeOK'
    BY <1>1, <1>5, <2>1, <2>2 DEF IInv, TypeOK
  <2>4. \A s \in Tasks : job'[s].step # "idle" => job[s].step # "idle"
    BY <1>1, <1>2, <1>5
  <2>5. OneSaver' /\ SavesProj'
    BY <1>1, <2>2, <2>4 DEF IInv, OneSaver, SavesProj
  <2>6. QED
    BY <2>3, <2>5 DEF IInv
<1>6. QED
  BY <1>4, <1>5 DEF Truncate

LEMMA WriteBackStep == ASSUME IInv, NEW t \in Tasks, WriteBack(t) PROVE IInv'
<1>1. /\ job[t].step = "write" /\ UNCHANGED <<live, proj, overlapped>>
      /\ job' = [job EXCEPT ![t] = Idle]
  BY DEF WriteBack
<1>2. /\ job \in [Tasks -> [step : {"idle", "open", "write"}, doc : Docs]]
      /\ job[t].doc \in Docs
  BY DEF IInv, TypeOK
<1>3. job' \in [Tasks -> [step : {"idle", "open", "write"}, doc : Docs]]
  <2>1. Idle \in [step : {"idle", "open", "write"}, doc : Docs]
    BY DefaultsTyped DEF Idle
  <2>2. QED
    BY <1>1, <1>2, <2>1
<1>4. ~overlapped => AllIdle'
  BY <1>1, <1>2 DEF IInv, OneSaver, AllIdle, Idle
<1>5. CASE file' = Holding(job[t].doc) /\ UNCHANGED errors
  <2>1. TypeOK'
    BY <1>1, <1>2, <1>3, <1>5 DEF IInv, TypeOK, Holding
  <2>2. errors = 0 /\ ~overlapped =>
            file' = Holding(proj) /\ Quiet(proj.state)
    BY <1>1, <1>5 DEF IInv, SavesProj
  <2>3. SavesProj'
    BY <1>1, <1>4, <1>5, <2>2 DEF IInv, SavesProj, AllIdle, Holding
  <2>4. QED
    BY <1>1, <1>4, <2>1, <2>3 DEF IInv, OneSaver, AllIdle
<1>6. CASE file' = Unreadable("garbled") /\ CardFails
  <2>1. errors' \in 0..MaxErrors /\ errors' # 0
    BY <1>6, PersistAssumption DEF CardFails, IInv, TypeOK
  <2>2. TypeOK'
    BY <1>1, <1>3, <1>6, <2>1, DefaultsTyped DEF IInv, TypeOK, Unreadable
  <2>3. QED
    BY <1>1, <1>4, <2>1, <2>2 DEF IInv, OneSaver, SavesProj, AllIdle
<1>7. QED
  BY <1>5, <1>6 DEF WriteBack

\* A power loss drops the save under way, and the file is then still as it was,
\* or empty.
LEMMA RestartStep == ASSUME IInv, Restart PROVE IInv'
<1>1. /\ file \in [health : {"readable", "empty", "garbled"}, doc : Docs]
      /\ errors \in 0..MaxErrors
  BY DEF IInv, TypeOK
<1>2. /\ job' \in [Tasks -> [step : {"idle", "open", "write"}, doc : Docs]]
      /\ AllIdle' /\ live' = proj'.state
  BY DefaultsTyped DEF Restart, AllIdle, Idle
<1>3. UNCHANGED overlapped /\ overlapped \in BOOLEAN
  BY DEF Restart, IInv, TypeOK
<1>4. CASE /\ proj' = IF file.health = "readable" THEN file.doc ELSE Defaults
           /\ file' = IF file.health = "empty" THEN Holding(Defaults) ELSE file
           /\ UNCHANGED errors
  <2>1. proj' \in Docs
    BY <1>1, <1>4, DefaultsTyped
  <2>2. file' \in [health : {"readable", "empty", "garbled"}, doc : Docs]
    BY <1>1, <1>4, DefaultsTyped DEF Holding
  <2>3. TypeOK'
    BY <1>1, <1>2, <1>4, <1>3, <2>1, <2>2 DEF TypeOK, Docs
  <2>4. errors = 0 /\ ~overlapped =>
            Quiet(proj'.state) /\ file' = Holding(proj')
    <3> SUFFICES ASSUME errors = 0, ~overlapped
                 PROVE  Quiet(proj'.state) /\ file' = Holding(proj')
      OBVIOUS
    <3>1. CASE file.health = "readable"
      <4>1. proj' = file.doc /\ file' = file
        BY <1>4, <3>1
      <4>2. file = Holding(file.doc)
        BY <1>1, <3>1 DEF Holding
      <4>3. QED
        BY <3>1, <4>1, <4>2 DEF IInv, SavesProj
    <3>2. CASE file.health = "empty"
      BY <1>4, <3>2, DefaultsTyped
    <3>3. QED
      BY <1>1, <3>1, <3>2 DEF IInv, SavesProj
  <2>5. SavesProj'
    BY <1>2, <1>4, <1>3, <2>4 DEF SavesProj, AllIdle, Holding
  <2>6. QED
    BY <1>2, <2>3, <2>5 DEF IInv, OneSaver, AllIdle
<1>5. CASE /\ CardFails
           /\ proj' = Defaults
           /\ \/ UNCHANGED file
              \/ file.health = "empty" /\ file' = Unreadable("garbled")
  <2>1. errors' \in 0..MaxErrors /\ errors' # 0
    BY <1>1, <1>5, PersistAssumption DEF CardFails
  <2>2. file' \in [health : {"readable", "empty", "garbled"}, doc : Docs]
    BY <1>1, <1>5, DefaultsTyped DEF Unreadable
  <2>3. TypeOK'
    BY <1>2, <1>5, <1>3, <2>1, <2>2, DefaultsTyped DEF TypeOK, Docs
  <2>4. QED
    BY <1>2, <2>1, <2>3 DEF IInv, OneSaver, SavesProj, AllIdle
<1>6. QED
  BY <1>4, <1>5 DEF Restart

LEMMA Stutter == ASSUME IInv, UNCHANGED vars PROVE IInv'
  BY DEF IInv, TypeOK, OneSaver, SavesProj, AllIdle, vars

LEMMA InitCorrect == ASSUME Init PROVE IInv
<1>1. \A t \in Tasks : job[t].step = "idle"
  BY DEF Init, Idle
<1>2. OneSaver /\ SavesProj
  BY <1>1, DefaultsTyped DEF Init, OneSaver, SavesProj, Holding
<1>3. QED
  BY <1>2, InitTyped DEF IInv

-----------------------------------------------------------------------------
(* The theorems *)

\* Until a web save has overlapped one of the loop, a save under way writes proj
\* and nobody else saves: the inductive invariant of saves, failures and restarts.
THEOREM SavesCorrect == Spec => []IInv
<1>1. Init => IInv
  BY InitCorrect
<1>2. IInv /\ [Next]_vars => IInv'
  <2> SUFFICES ASSUME IInv, [Next]_vars PROVE IInv'
    OBVIOUS
  <2>1. CASE UNCHANGED vars
    BY <2>1, Stutter
  <2>2. CASE Next
    BY <2>2, ControlStep, SaveRuntimeStep, SaveSettingsStep, TruncateStep,
       WriteBackStep, RestartStep DEF Next, FileStep
  <2>3. QED
    BY <2>1, <2>2
<1>3. QED
  BY <1>1, <1>2, PTL DEF Spec

\* The save task believes what is true: until the card fails or two saves have
\* overlapped, proj is what the file holds whenever no save is under way, after
\* any power loss too.
THEOREM BeliefIsTrue == Spec => []BelievedIsSaved
<1>1. IInv => BelievedIsSaved
  BY DEF IInv, SavesProj, BelievedIsSaved
<1>2. QED
  BY <1>1, SavesCorrect, PTL

\* Whenever the power goes, until the card fails or two saves have overlapped,
\* what setup() restores is a state that the controller may start from: no
\* latched failure with a defrost to resume.
THEOREM RestoreIsQuiet == Spec => []RestoredQuiet
<1>1. IInv => RestoredQuiet
  BY DEF IInv, SavesProj, RestoredQuiet
<1>2. QED
  BY <1>1, SavesCorrect, PTL
=============================================================================
