----------------------------- MODULE TempSensor -----------------------------
(***************************************************************************)
(* A temperature sensor: the value the controller works with, which a      *)
(* reading replaces only if it differs from the value before.              *)
(***************************************************************************)
EXTENDS Integers

CONSTANTS
    Temps,          \* temperatures a probe may have
    Deadband        \* the threshold of update()

Disconnected == -197    \* DEVICE_DISCONNECTED_F

VARIABLES
    probe,      \* what the probe would read now
    wire,       \* "onewire" or "thermocouple" (MCP9600)
    value,      \* _value
    previous,   \* _previous
    valid       \* _valid

sensorVars == <<probe, wire, value, previous, valid>>

Readings == Temps \cup {Disconnected}

SensorTypeOK ==
    /\ probe \in Readings
    /\ wire \in {"onewire", "thermocouple"}
    /\ value \in Readings /\ previous \in Readings
    /\ valid \in BOOLEAN

Near(a, b) == a - b \in -Deadband..Deadband

\* A probe changes, or loses its connection, which a thermocouple does not show.
ProbeChanges ==
    /\ probe' \in IF wire = "onewire" THEN Readings ELSE Temps
    /\ UNCHANGED <<wire, value, previous, valid>>

SensorUpdate ==
    /\ ~Near(previous, probe)
    /\ previous' = value
    /\ value' = probe
    /\ valid' = (wire = "thermocouple" \/ probe # Disconnected)
    /\ UNCHANGED <<probe, wire>>

\* A sensor of the configuration starts with its last value there.
SensorInit ==
    /\ wire \in {"onewire", "thermocouple"}
    /\ probe \in Temps
    /\ value \in Temps /\ previous = value
    /\ valid = TRUE

SensorNext == ProbeChanges \/ SensorUpdate

\* Every pass over the sensors updates all of them.
SensorSpec == SensorInit /\ [][SensorNext]_sensorVars /\ WF_sensorVars(SensorUpdate)

-----------------------------------------------------------------------------
(* Properties *)

\* "Auto-recovers when temperature rises above threshold": the value ends up
\* above once the probe stays there.
ValueRecovers ==
    \A t \in Temps :
        <>[](probe \in Temps /\ probe >= t) => <>[](value >= t - Deadband)

=============================================================================
