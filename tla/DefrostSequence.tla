-------------------------- MODULE DefrostSequence --------------------------
(***************************************************************************)
(* What the controller promises of a defrost, without timers, inputs or    *)
(* faults: the compressor stops before the valve moves in either           *)
(* direction, the phases are never skipped, and the compressor comes back  *)
(* only at the end of a wait or when no defrost is under way.              *)
(***************************************************************************)

VARIABLES
    phase,  \* where the sequence stands; "defrosting" covers a defrost that
            \* is active and one that waits for Y with the compressor off
    running \* the compressor runs

seqVars == <<phase, running>>

EntryWaits == {"equalise", "reversed"}
ExitWaits == {"exitEqualise", "exitReversed"}
SeqPhases == {"none", "defrosting"} \cup EntryWaits \cup ExitWaits

SeqInit == phase \in {"none", "defrosting"} /\ running = FALSE

\* A step from one phase to the next that leaves the compressor as given.
Step(from, to, runs) == phase = from /\ phase' = to /\ running' = runs

\* A defrost starts, or starts again after a lost Y or a fault.
Enter ==
    \E from \in {"none", "defrosting", "reversed"} :
        Step(from, "equalise", FALSE)
Reverse == Step("equalise", "reversed", FALSE)
Run == Step("reversed", "defrosting", TRUE)
Finish == Step("defrosting", "exitEqualise", FALSE)
Restore == Step("exitEqualise", "exitReversed", FALSE)
Resume == Step("exitReversed", "none", TRUE)

\* Y drops during the entry: the defrost waits for it, the compressor off.
Suspend == phase \in EntryWaits /\ phase' = "defrosting" /\ running' = FALSE

\* A fault, a COOL call, an operator or a lost Y ends the sequence.
Cancel == phase # "none" /\ phase' = "none" /\ running' = FALSE

\* Heating or cooling switch the compressor at will; a defrost only loses it.
SwitchCompressor ==
    /\ phase = "none" \/ (phase = "defrosting" /\ running)
    /\ running' = ~running
    /\ UNCHANGED phase

SeqNext ==
    \/ Enter \/ Reverse \/ Run \/ Finish \/ Restore \/ Resume
    \/ Suspend \/ Cancel \/ SwitchCompressor

SeqSpec == SeqInit /\ [][SeqNext]_seqVars
=============================================================================
