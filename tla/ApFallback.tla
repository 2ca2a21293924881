---------------------------- MODULE ApFallback ----------------------------
(***************************************************************************)
(* Network with a history variable: how long the wait for WiFi has run.    *)
(***************************************************************************)
EXTENDS Network

VARIABLE waited  \* seconds of waits since boot or the last address

WaitSecond == wait.on /\ wait'.on /\ wait'.left < wait.left

Counts ==
    waited' = CASE Up' /\ ~Up    -> 0
                [] ready /\ ~ready' -> 0
                [] WaitSecond    -> waited + 1
                [] OTHER         -> waited

WaitSpec ==
    Init /\ waited = 0 /\ [][Next /\ Counts]_<<vars, waited>>

\* "WiFi AP fallback -- Configurable timeout (default 10 minutes) before
\* switching to Access Point mode": the access point opens only after the
\* station has been waited for during as many seconds as configured.
ApAfterTimeout ==
    [][~ap /\ ap' => waited >= Fallback * WaitTicks]_<<vars, waited>>

=============================================================================
