------------------------------ MODULE MCUpkeep ------------------------------
(***************************************************************************)
(* Five components that share no state, checked in one run: each behaviour *)
(* is one of the component that part names, the others rest.               *)
(***************************************************************************)
EXTENDS Firmware, FtpTimer, LogRotation, TempHistory, OutPin

VARIABLE part

upkeepVars ==
    <<part, firmwareVars, ftpVars, logVars, historyVars, pinVars>>

Only(name, next) == part = name /\ next /\ UNCHANGED part

UpkeepInit ==
    /\ part \in {"firmware", "ftp", "log", "history", "pin"}
    /\ FirmwareInit /\ FtpInit /\ LogInit /\ HistoryInit /\ PinInit

UpkeepNext ==
    \/ /\ Only("firmware", FirmwareNext)
       /\ UNCHANGED <<ftpVars, logVars, historyVars, pinVars>>
    \/ /\ Only("ftp", FtpNext)
       /\ UNCHANGED <<firmwareVars, logVars, historyVars, pinVars>>
    \/ /\ Only("log", LogNext)
       /\ UNCHANGED <<firmwareVars, ftpVars, historyVars, pinVars>>
    \/ /\ Only("history", HistoryNext)
       /\ UNCHANGED <<firmwareVars, ftpVars, logVars, pinVars>>
    \/ /\ Only("pin", PinNext)
       /\ UNCHANGED <<firmwareVars, ftpVars, logVars, historyVars>>

UpkeepSpec == UpkeepInit /\ [][UpkeepNext]_upkeepVars

\* The variables of every component keep their types: among them, the ring of
\* samples never outgrows MAX_SAMPLES and FTP's stop time the range of millis().
UpkeepTypeOK ==
    /\ FirmwareTypeOK /\ FtpTypeOK /\ LogTypeOK /\ HistoryTypeOK /\ PinTypeOK

=============================================================================
