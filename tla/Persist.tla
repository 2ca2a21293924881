------------------------------ MODULE Persist ------------------------------
(***************************************************************************)
(* The configuration file on the SD card.  The save task of the main loop  *)
(* and the web tasks both read it, change their copy and write it back;    *)
(* the card may fail and the power may go between any two of these steps.  *)
(* A file holds the saved state of the controller and one web setting,     *)
(* which stands for all of them.                                           *)
(***************************************************************************)
EXTENDS SavedState

CONSTANTS
    Settings,   \* the values of a web setting
    Default,    \* the one compiled in
    Overlap,    \* whether a web save may overlap one of the loop
    MaxErrors   \* bound on the card's errors

ASSUME PersistAssumption ==
    /\ Threshold \in Nat
    /\ Default \in Settings
    /\ Overlap \in BOOLEAN
    /\ MaxErrors \in Nat

VARIABLES
    proj,       \* the copy in memory that saves compare with and write
    file,       \* the file, and whether it can be read
    job,        \* what each task is doing with the file
    errors,     \* how many times the card has failed
    overlapped  \* a history variable: whether a save has begun inside another

vars == <<live, proj, file, job, errors, overlapped>>

Tasks == {"loop", "web"}
Docs == [state : SavedStates, setting : Settings]
Defaults ==
    [state |-> [runtime |-> 0, defrost |-> FALSE, rvFail |-> FALSE],
     setting |-> Default]
Idle == [step |-> "idle", doc |-> Defaults]

TypeOK ==
    /\ live \in SavedStates
    /\ proj \in Docs
    /\ file \in [health : {"readable", "empty", "garbled"}, doc : Docs]
    /\ job \in [Tasks -> [step : {"idle", "open", "write"}, doc : Docs]]
    /\ errors \in 0..MaxErrors
    /\ overlapped \in BOOLEAN

Holding(doc) == [health |-> "readable", doc |-> doc]
Unreadable(how) == [health |-> how, doc |-> Defaults]

AllIdle == \A t \in Tasks : job[t].step = "idle"

\* No lock keeps a task from saving while the other does.
SaveBegins(t) ==
    /\ job[t].step = "idle"
    /\ Overlap \/ AllIdle
    /\ overlapped' = (overlapped \/ ~AllIdle)

CardFails == errors < MaxErrors /\ errors' = errors + 1

-----------------------------------------------------------------------------
(* A save, in the three steps between which the task waits for the card *)

\* The file is read and doc merged into it; what cannot be read is not saved.
ReadAndMerge(t, doc) ==
    \/ /\ file.health = "readable"
       /\ job' = [job EXCEPT ![t] = [step |-> "open", doc |-> doc]]
       /\ UNCHANGED errors
    \/ /\ file.health # "readable"
       /\ UNCHANGED <<job, errors>>
    \/ CardFails /\ UNCHANGED job

\* Opening the file for writing truncates it.
Truncate(t) ==
    /\ job[t].step = "open"
    /\ \/ /\ file' = Unreadable("empty")
          /\ job' = [job EXCEPT ![t].step = "write"]
          /\ UNCHANGED errors
       \/ /\ CardFails
          /\ job' = [job EXCEPT ![t] = Idle]
          /\ UNCHANGED file
    /\ UNCHANGED <<live, proj, overlapped>>

\* A short write goes unnoticed.
WriteBack(t) ==
    /\ job[t].step = "write"
    /\ job' = [job EXCEPT ![t] = Idle]
    /\ \/ file' = Holding(job[t].doc) /\ UNCHANGED errors
       \/ file' = Unreadable("garbled") /\ CardFails
    /\ UNCHANGED <<live, proj, overlapped>>

\* updateRuntime() changes these two fields of the file.
RuntimeDoc(old) ==
    [old EXCEPT !.state.runtime = live.runtime, !.state.defrost = live.defrost]

WrongNeedsFullUpdate == live.defrost # proj.state.defrost

NeedsFullUpdate ==
    live.rvFail # proj.state.rvFail \/ live.defrost # proj.state.defrost

WrongNoted == [proj EXCEPT !.state.defrost = live.defrost,
                           !.state.rvFail = live.rvFail]

Noted == [proj EXCEPT !.state = live]

\* onSaveRuntime(): the changes are noted in proj before they are written.
SaveRuntime ==
    /\ SaveBegins("loop")
    /\ proj' = Noted
    /\ \/ /\ NeedsFullUpdate
          /\ ReadAndMerge("loop", Noted)
       \/ /\ ~NeedsFullUpdate /\ live.runtime # proj.state.runtime
          /\ ReadAndMerge("loop", RuntimeDoc(file.doc))
    /\ UNCHANGED <<live, file>>

\* A POST of the configuration page, which may clear the RV failure.
SaveSettings(setting, clear) ==
    /\ SaveBegins("web")
    /\ IF clear THEN Clear ELSE UNCHANGED live
    /\ proj' = [proj EXCEPT !.setting = setting,
                            !.state.rvFail = @ /\ ~clear]
    /\ ReadAndMerge("web", proj')
    /\ UNCHANGED file

\* update() and the save task run in the same loop.
Control ==
    /\ job["loop"].step = "idle"
    /\ ControllerStep
    /\ UNCHANGED <<proj, file, job, errors, overlapped>>

\* Power loss at any moment, and setup(): a missing or empty file is replaced
\* by the defaults, one that does not parse stays and is ignored.
Restart ==
    /\ job' = [t \in Tasks |-> Idle]
    /\ \/ /\ proj' = IF file.health = "readable" THEN file.doc ELSE Defaults
          /\ file' = IF file.health = "empty" THEN Holding(Defaults) ELSE file
          /\ UNCHANGED errors
       \/ /\ CardFails
          /\ proj' = Defaults
          /\ \/ UNCHANGED file
             \/ file.health = "empty" /\ file' = Unreadable("garbled")
    /\ live' = proj'.state
    /\ UNCHANGED overlapped

-----------------------------------------------------------------------------
\* The first boot with a fresh card.
Init ==
    /\ proj = Defaults /\ live = Defaults.state
    /\ file = Holding(Defaults)
    /\ job = [t \in Tasks |-> Idle]
    /\ errors = 0 /\ overlapped = FALSE

FileStep == \E t \in Tasks : Truncate(t) \/ WriteBack(t)

Next ==
    \/ Control \/ SaveRuntime
    \/ \E setting \in Settings, clear \in BOOLEAN : SaveSettings(setting, clear)
    \/ FileStep \/ Restart

Spec == Init /\ [][Next]_vars

\* A save once begun goes on, and the save task comes round every five minutes,
\* unless the power keeps failing.
FairSpec ==
    /\ Spec
    /\ WF_vars(FileStep)
    /\ SF_vars(SaveRuntime) \/ []<><<Restart>>_vars

-----------------------------------------------------------------------------
(* Properties *)

\* The save task writes only what differs from proj: as long as the card has
\* not failed and no two saves have overlapped, proj is what the file holds
\* whenever no save is under way.
BelievedIsSaved ==
    errors = 0 /\ ~overlapped /\ AllIdle => file = Holding(proj)

\* Whatever the moment of a power loss, the state that setup() restores is one
\* the controller may start from, as long as no two saves have overlapped.
RestoredQuiet ==
    errors = 0 /\ ~overlapped /\ file.health = "readable" =>
        Quiet(file.doc.state)

\* A latched failure that is not cleared reaches the file, unless the card
\* fails or two saves overlap.
FailureSaved ==
    live.rvFail ~>
        file.doc.state.rvFail \/ ~live.rvFail \/ errors > 0 \/ overlapped

\* "Latched ... manual clear": it reaches the file, also if one write fails.
FailureReachesCard == live.rvFail ~> file.doc.state.rvFail \/ ~live.rvFail

=============================================================================
