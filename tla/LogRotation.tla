---------------------------- MODULE LogRotation ----------------------------
(***************************************************************************)
(* The log file on the card and its rotation: the archives are shifted one *)
(* by one, then the log is moved aside and compressed into the first, or   *)
(* renamed when that fails.  Renames fail onto an existing file; the card, *)
(* the compression and the power may fail at each step.  A file holds one  *)
(* filling of the log, numbered by age.                                    *)
(***************************************************************************)
EXTENDS Naturals

CONSTANTS
    MaxOld,             \* _maxRotatedFiles
    MaxFillings,        \* bound on the fillings of the log
    MaxLogFailures      \* bound on the failures of the card and compression

ASSUME LogAssumption ==
    /\ MaxOld \in Nat \ {0} /\ MaxFillings \in Nat
    /\ MaxLogFailures \in Nat

VARIABLES
    logFile,        \* the filling in /log.txt, or Nothing
    archive,        \* those in /log.<i>.tar.gz
    txt,            \* the one in /log.1.txt
    tmp,            \* the one in /_log_rotate
    rotation,       \* the step of rotateLogFiles(), and the archive it shifts
    last,           \* the newest filling
    mishaps,        \* the failures so far
    chainBroken,    \* whether a rename of the chain has failed
    powerCut        \* whether the power has been cut

logVars ==
    <<logFile, archive, txt, tmp, rotation, last, mishaps, chainBroken, powerCut>>

Nothing == 0
Partial == MaxFillings + 1      \* an archive cut short
Fillings == 1..MaxFillings

LogTypeOK ==
    /\ logFile \in Fillings \cup {Nothing}
    /\ archive \in [1..MaxOld -> 0..Partial]
    /\ txt \in Fillings \cup {Nothing}
    /\ tmp \in Fillings \cup {Nothing}
    /\ rotation \in [step : {"none", "oldest", "shift", "aside", "create",
                             "compress", "clean", "rename"},
                     at : 0..MaxOld]
    /\ last \in 0..MaxFillings
    /\ mishaps \in 0..MaxLogFailures
    /\ chainBroken \in BOOLEAN /\ powerCut \in BOOLEAN

Mishap == mishaps < MaxLogFailures /\ mishaps' = mishaps + 1
Fine == UNCHANGED mishaps
Goto(step) == rotation' = [rotation EXCEPT !.step = step]

-----------------------------------------------------------------------------
\* Lines are appended until the file is larger than _maxFileSize ...
Fill ==
    /\ rotation.step = "none"
    /\ logFile = Nothing /\ last < MaxFillings
    /\ logFile' = last + 1 /\ last' = last + 1
    /\ UNCHANGED <<archive, txt, tmp, rotation, mishaps, chainBroken, powerCut>>

\* ... when the next line rotates it first.
Rotate ==
    /\ rotation.step = "none"
    /\ logFile # Nothing
    /\ Goto("oldest")
    /\ UNCHANGED <<logFile, archive, txt, tmp, last, mishaps, chainBroken,
                   powerCut>>

WrongFirstShift == 1

FirstShift == MaxOld - 1

\* The oldest archive is removed; a removal that fails goes unnoticed.
RemoveOldest ==
    /\ rotation.step = "oldest"
    /\ \/ archive' = [archive EXCEPT ![MaxOld] = Nothing] /\ Fine
          /\ UNCHANGED chainBroken
       \/ UNCHANGED archive /\ Mishap /\ chainBroken' = TRUE
    /\ rotation' = [step |-> "shift", at |-> FirstShift]
    /\ UNCHANGED <<logFile, txt, tmp, last, powerCut>>

\* Archive i is renamed to i + 1, for i going down; results are ignored.
Shift ==
    /\ rotation.step = "shift" /\ rotation.at > 0
    /\ rotation' = [rotation EXCEPT !.at = @ - 1]
    /\ LET i == rotation.at
       IN  \/ /\ archive' =
                     IF archive[i] # Nothing /\ archive[i + 1] = Nothing
                     THEN [archive EXCEPT ![i] = Nothing, ![i + 1] = archive[i]]
                     ELSE archive
              /\ Fine /\ UNCHANGED chainBroken
           \/ /\ archive[i] # Nothing
              /\ UNCHANGED archive /\ Mishap /\ chainBroken' = TRUE
    /\ UNCHANGED <<logFile, txt, tmp, last, powerCut>>

ShiftEnds ==
    /\ rotation.step = "shift" /\ rotation.at = 0
    /\ Goto("aside")
    /\ UNCHANGED <<logFile, archive, txt, tmp, last, mishaps, chainBroken,
                   powerCut>>

\* The log is moved to the directory that is compressed, unless a log of an
\* earlier rotation is still there; one that cannot be read stays.
MoveAside ==
    /\ rotation.step = "aside"
    /\ \/ /\ tmp = Nothing
          /\ tmp' = logFile /\ logFile' = Nothing
          /\ Goto("create") /\ Fine
       \/ /\ tmp # Nothing
          /\ UNCHANGED <<logFile, tmp>>
          /\ Goto("create") /\ Fine
       \/ /\ UNCHANGED <<logFile, tmp>>
          /\ Goto("create") \/ Goto("rename")
          /\ Mishap
    /\ UNCHANGED <<archive, txt, last, chainBroken, powerCut>>

\* What is aside goes back, unless there is still a log.
WrongPutBack == tmp' = Nothing /\ UNCHANGED logFile

PutBack ==
    IF logFile = Nothing THEN logFile' = tmp /\ tmp' = Nothing
                         ELSE UNCHANGED <<logFile, tmp>>

\* Creating the archive overwrites one that could not be shifted.
CreateArchive ==
    /\ rotation.step = "create"
    /\ \/ /\ archive' = [archive EXCEPT ![1] = Partial]
          /\ Goto("compress") /\ UNCHANGED <<logFile, tmp>> /\ Fine
       \/ /\ PutBack \/ UNCHANGED <<logFile, tmp>>
          /\ Goto("rename") /\ UNCHANGED archive /\ Mishap
    /\ UNCHANGED <<txt, last, chainBroken, powerCut>>

\* What is archived is what is aside.
Packed == IF tmp = Nothing THEN Partial ELSE tmp

Compress ==
    /\ rotation.step = "compress"
    /\ \/ /\ archive' = [archive EXCEPT ![1] = Packed]
          /\ Goto("clean") /\ UNCHANGED <<logFile, tmp>> /\ Fine
       \/ /\ \E rest \in {Nothing, Partial} :
                archive' = [archive EXCEPT ![1] = rest]
          /\ PutBack \/ UNCHANGED <<logFile, tmp>>
          /\ Goto("rename") /\ Mishap
    /\ UNCHANGED <<txt, last, chainBroken, powerCut>>

WrongRemoved == UNCHANGED tmp

Removed == tmp' = Nothing

\* What was archived is removed.
CleanUp ==
    /\ rotation.step = "clean"
    /\ \/ Removed /\ Fine
       \/ UNCHANGED tmp /\ Mishap
    /\ Goto("none")
    /\ UNCHANGED <<logFile, archive, txt, last, chainBroken, powerCut>>

\* The fallback: the log is renamed to /log.1.txt, unless that exists.
RenameInstead ==
    /\ rotation.step = "rename"
    /\ \/ /\ txt = Nothing
          /\ txt' = logFile /\ logFile' = Nothing /\ Fine
       \/ txt # Nothing /\ UNCHANGED <<txt, logFile>> /\ Fine
       \/ UNCHANGED <<txt, logFile>> /\ Mishap
    /\ Goto("none")
    /\ UNCHANGED <<archive, tmp, last, chainBroken, powerCut>>

PowerCut ==
    /\ rotation.step # "none"
    /\ Goto("none")
    /\ powerCut' = TRUE
    /\ UNCHANGED <<logFile, archive, txt, tmp, last, mishaps, chainBroken>>

LogInit ==
    /\ logFile = Nothing /\ txt = Nothing /\ tmp = Nothing
    /\ archive = [i \in 1..MaxOld |-> Nothing]
    /\ rotation = [step |-> "none", at |-> 0]
    /\ last = 0 /\ mishaps = 0
    /\ chainBroken = FALSE /\ powerCut = FALSE

LogNext ==
    \/ Fill \/ Rotate \/ RemoveOldest \/ Shift \/ ShiftEnds \/ MoveAside
    \/ CreateArchive \/ Compress \/ CleanUp \/ RenameInstead \/ PowerCut

LogSpec == LogInit /\ [][LogNext]_logVars

-----------------------------------------------------------------------------
(* Properties *)

Archived(f) == \E i \in 1..MaxOld : archive[i] = f
Kept(f) == f \in {logFile, txt, tmp} \/ Archived(f)
Calm == mishaps = 0 /\ ~powerCut

\* Where something failed, what is aside may be archived again.
NotNewer(f, g) == f < g \/ (f = g /\ ~Calm)

\* Archives are in the order of their age, whatever failed and whenever the
\* power was cut; a log is archived twice only then.
ArchivesInOrder ==
    \A i, j \in 1..MaxOld :
        i < j /\ archive[i] \in Fillings /\ archive[j] \in Fillings =>
            NotNewer(archive[j], archive[i])

\* Unless a rename of the chain failed, no log newer than an archive is lost:
\* not when the compression fails, nor when the power does.
OnlyOldestLost ==
    ~chainBroken =>
        \A f, g \in 1..last : f < g /\ Archived(f) => Kept(g)

\* Without failures the promised number of old logs is kept.
NewestKept ==
    Calm =>
        \A f \in 1..last : last - f < MaxOld => Kept(f)

=============================================================================
