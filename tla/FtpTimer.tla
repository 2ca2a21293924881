------------------------------ MODULE FtpTimer ------------------------------
(***************************************************************************)
(* The FTP server, which a web task opens for a number of minutes and the  *)
(* loop closes when millis(), a counter of 32 bits, has reached the stop   *)
(* time.  Setting the first admin password closes it.                      *)
(***************************************************************************)
EXTENDS Naturals

CONSTANTS
    Wrap,       \* the values of millis(), counted in steps of the clock
    Durations   \* the durations one can ask for

ASSUME FtpAssumption ==
    /\ Wrap \in Nat \ {0}
    /\ Durations \subseteq Nat \ {0}

VARIABLES
    ftpActive,
    ftpStop,        \* ftpStopTime
    clock,          \* millis()
    enabling,       \* the duration a web task is about to set, or 0
    expiring,       \* whether the loop is about to clear ftpStop
    openFor,        \* how long FTP has been open since it was last enabled
    asked,          \* the duration then asked for
    password,       \* the admin password: "none", in memory, on the card too
    asAdmin,        \* whether it was enabled with that password
    stopLost        \* a history variable: whether one of the two orders that
                    \* lose the stop time has, since FTP was last enabled

ftpVars == <<ftpActive, ftpStop, clock, enabling, expiring, openFor, asked,
             password, asAdmin, stopLost>>

FtpTypeOK ==
    /\ ftpActive \in BOOLEAN /\ expiring \in BOOLEAN /\ asAdmin \in BOOLEAN
    /\ stopLost \in BOOLEAN
    /\ ftpStop \in 0..Wrap - 1 /\ clock \in 0..Wrap - 1
    /\ enabling \in Durations \cup {0} /\ asked \in Durations \cup {0}
    /\ openFor \in Nat
    /\ password \in {"none", "memory", "card"}

WrongDue == ftpActive /\ ftpStop > 0 /\ clock = ftpStop + 1

Due == ftpActive /\ ftpStop > 0 /\ clock >= ftpStop

-----------------------------------------------------------------------------
\* POST /ftp with a duration, in two assignments the loop may come between.
FtpEnable(d) ==
    /\ enabling = 0
    /\ ftpActive' = TRUE
    /\ enabling' = d
    /\ openFor' = 0 /\ asked' = d /\ asAdmin' = (password # "none")
    /\ UNCHANGED <<ftpStop, clock, expiring, password, stopLost>>

\* A sum of exactly 0 means no stop time.
FtpEnableEnds ==
    /\ enabling > 0
    /\ ftpStop' = (clock + enabling) % Wrap
    /\ enabling' = 0
    /\ stopLost' = (ftpStop' = 0)
    /\ UNCHANGED <<ftpActive, clock, expiring, openFor, asked, password, asAdmin>>

WrongClosed == ftpActive' = ftpActive /\ ftpStop' = ftpStop

Closed == ftpActive' = FALSE /\ ftpStop' = IF ftpActive THEN 0 ELSE ftpStop

FtpDisable ==
    /\ enabling = 0
    /\ Closed
    /\ UNCHANGED <<clock, enabling, expiring, openFor, asked, password, asAdmin,
                   stopLost>>

\* The first password, on the setup or the configuration page; saving it may
\* fail.
SetFirstPassword ==
    /\ enabling = 0
    /\ password = "none"
    /\ password' \in {"memory", "card"}
    /\ Closed
    /\ UNCHANGED <<clock, enabling, expiring, openFor, asked, asAdmin, stopLost>>

\* The loop ends FTP, and clears the stop time with its next assignment.
Expire ==
    /\ Due /\ ~expiring
    /\ ftpActive' = FALSE
    /\ expiring' = TRUE
    /\ UNCHANGED <<ftpStop, clock, enabling, openFor, asked, password, asAdmin,
                   stopLost>>

\* What a web task has set in between is cleared as well.
ExpireEnds ==
    /\ expiring
    /\ ftpStop' = 0
    /\ expiring' = FALSE
    /\ stopLost' = ftpActive
    /\ UNCHANGED <<ftpActive, clock, enabling, openFor, asked, password, asAdmin>>

\* Each of these takes far less than a step of the clock; it need not run
\* while FTP is closed but may.
ClockTick ==
    /\ ~Due /\ ~expiring /\ enabling = 0
    /\ clock' = (clock + 1) % Wrap
    /\ openFor' = IF ftpActive /\ openFor <= asked THEN openFor + 1 ELSE openFor
    /\ UNCHANGED <<ftpActive, ftpStop, enabling, expiring, asked, password,
                   asAdmin, stopLost>>

FtpRestart ==
    /\ ftpActive' = FALSE /\ ftpStop' = 0 /\ clock' = 0
    /\ enabling' = 0 /\ expiring' = FALSE
    /\ openFor' = 0 /\ asked' = 0 /\ asAdmin' = FALSE /\ stopLost' = FALSE
    /\ password' = IF password = "memory" THEN "none" ELSE password

FtpInit ==
    /\ ftpActive = FALSE /\ ftpStop = 0 /\ clock = 0
    /\ enabling = 0 /\ expiring = FALSE
    /\ openFor = 0 /\ asked = 0 /\ asAdmin = FALSE /\ stopLost = FALSE
    /\ password = "none"

FtpNext ==
    \/ \E d \in Durations : FtpEnable(d)
    \/ FtpEnableEnds \/ FtpDisable \/ SetFirstPassword
    \/ Expire \/ ExpireEnds \/ ClockTick \/ FtpRestart

FtpSpec == FtpInit /\ [][FtpNext]_ftpVars

-----------------------------------------------------------------------------
(* Properties *)

\* FTP is open for longer than was last asked for only after one of the two
\* orders that lose its stop time: the loop clears it just after FTP was enabled
\* again, or the sum of the clock and the duration wraps to 0.  No other order
\* of requests, of the loop and of the wrap of millis() does.
FtpBounded == ftpActive /\ enabling = 0 => openFor <= asked \/ stopLost

\* "Setting a password automatically disables FTP": what is open once there
\* is a password was opened by someone who knows it.
FtpOpenedByAdmin == ftpActive /\ password # "none" => asAdmin

=============================================================================
