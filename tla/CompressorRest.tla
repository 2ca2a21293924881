--------------------------- MODULE CompressorRest ---------------------------
(***************************************************************************)
(* HeatPump with a history variable for the rest of the compressor: the    *)
(* code measures the short cycle delay from the edge of Y or from the      *)
(* start of a phase, never from the moment CNT went off, so a stop that    *)
(* restarts neither timer is no rest.  undisturbed says that, since CNT    *)
(* went off, nothing has happened that stops it in that way.               *)
(***************************************************************************)
EXTENDS HeatPump

VARIABLE undisturbed

restVars == <<vars, undisturbed>>

\* What leaves the timer of the next start running from before the stop: an
\* operator's relays, a fault other than the low pressure one, which alone
\* restarts the timer of Y, a COOL call that drops a defrost, the phase flags
\* that an override leaves behind, and a Y that changes within a pass.
Disturbance ==
    \/ manualOverride
    \/ faults \cap {"compressor", "suction", "lowTemp", "rvFail"} # {}
    \/ "software" \in defrost /\ o
    \/ Waiting /\ ~Reversing
    \/ pc \in {"runtime", "state", "defrost"} /\ y # yWasActive

RestInit == Init /\ undisturbed = TRUE

Remembers ==
    undisturbed' = (CntOn' \/ (undisturbed /\ ~Disturbance /\ ~Disturbance'))

RestNext == Next /\ Remembers

RestSpec == RestInit /\ [][RestNext]_restVars

\* Unless it was disturbed since it went off, the compressor rests for the short
\* cycle delay (or the long stop, if that is shorter), whichever of the timer of
\* Y, the defrost entry and its exit starts it again, and however calls for heat
\* and for cooling, defrosts and low pressure faults follow each other.
CompressorRests ==
    [][ ~CntOn /\ CntOn' /\ undisturbed /\ ~Disturbance =>
            age["CNT"] >= CntShortCycle \/ age["CNT"] >= OffWindow ]_restVars

=============================================================================
