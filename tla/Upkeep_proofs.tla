---------------------------- MODULE Upkeep_proofs ----------------------------
(***************************************************************************)
(* Theorems about the small components that keep the controller up: the    *)
(* rotation of the log, for any number of archives, fillings and failures; *)
(* the relay driver, for any tasks; the password and the stop time of the  *)
(* FTP server, for any clock and durations.  The last two put them side by *)
(* side with the firmware and the history: a run of one of the five is a   *)
(* behaviour of its own specification, and keeps its types.                *)
(***************************************************************************)
EXTENDS MCUpkeep, Firmware_proofs, TempHistory_proofs

\* The files by age: archives, then what is aside, then the log.
OrderInv ==
    /\ ArchivesInOrder
    /\ logFile <= last /\ tmp <= last
    /\ tmp # Nothing /\ logFile # Nothing => tmp < logFile
    /\ \A i \in 1..MaxOld :
          archive[i] \in Fillings =>
              /\ archive[i] <= last
              /\ tmp # Nothing =>
                    \/ NotNewer(archive[i], tmp)
                    \/ rotation.step = "clean" /\ archive[i] = tmp
              /\ logFile # Nothing => NotNewer(archive[i], logFile)

\* The place that the next rename or archive takes is free, or may go.
PlaceInv ==
    /\ rotation.step = "shift" => rotation.at < MaxOld
    /\ rotation.step = "shift" /\ ~chainBroken =>
          archive[rotation.at + 1] = Nothing
    /\ rotation.step \in {"aside", "create"} /\ ~chainBroken =>
          archive[1] = Nothing
    /\ rotation.step = "compress" => archive[1] = Partial
    /\ rotation.step = "clean" /\ tmp # Nothing => archive[1] = tmp

\* Everything newer than an archive, what is aside or the log is kept.
Rotating(f) == Archived(f) \/ f \in {tmp, logFile}

KeptInv ==
    ~chainBroken =>
        \A f, g \in Fillings :
            Rotating(f) /\ f < g /\ g <= last => Kept(g)

RotationInv == LogTypeOK /\ OrderInv /\ PlaceInv /\ KeptInv

-----------------------------------------------------------------------------
(* The rotation of the log *)

LEMMA Bounds ==
    /\ MaxOld \in Nat /\ MaxOld >= 1 /\ MaxFillings \in Nat
    /\ Partial \notin Fillings /\ Nothing \notin Fillings
    /\ Nothing \in 0..Partial /\ Partial \in 0..Partial
    /\ Fillings \subseteq 0..Partial
  BY LogAssumption DEF Partial, Fillings, Nothing

LEMMA InitRotation == LogInit => RotationInv
  <1> SUFFICES ASSUME LogInit PROVE RotationInv
    OBVIOUS
  <1>1. LogTypeOK
    <2>1. archive \in [1..MaxOld -> 0..Partial]
      BY Bounds DEF LogInit
    <2>2. rotation = [step |-> "none", at |-> 0] /\ 0 \in 0..MaxOld
      BY Bounds DEF LogInit
    <2>3. rotation \in [step : {"none", "oldest", "shift", "aside", "create",
                                "compress", "clean", "rename"},
                        at : 0..MaxOld]
      BY <2>2
    <2>4. last \in 0..MaxFillings /\ mishaps \in 0..MaxLogFailures
      BY LogAssumption DEF LogInit
    <2>5. /\ logFile = Nothing /\ txt = Nothing /\ tmp = Nothing
          /\ chainBroken \in BOOLEAN /\ powerCut \in BOOLEAN
      BY DEF LogInit
    <2>6. QED
      BY <2>1, <2>3, <2>4, <2>5 DEF LogTypeOK
  <1>2. \A i \in 1..MaxOld : archive[i] \notin Fillings
    BY Bounds DEF LogInit
  <1>3. OrderInv
    BY <1>2 DEF LogInit, OrderInv, ArchivesInOrder, Nothing
  <1>4. rotation.step = "none"
    BY DEF LogInit
  <1>5. PlaceInv
    BY <1>4 DEF PlaceInv
  <1>6. KeptInv
    BY Bounds DEF LogInit, KeptInv, Nothing
  <1>7. QED
    BY <1>1, <1>3, <1>5, <1>6 DEF RotationInv

\* The types of what every step works on.
LEMMA LogTypes ==
    ASSUME LogTypeOK
    PROVE  /\ archive \in [1..MaxOld -> 0..Partial]
           /\ logFile \in 0..MaxFillings /\ tmp \in 0..MaxFillings
           /\ last \in 0..MaxFillings
           /\ rotation \in [step : {"none", "oldest", "shift", "aside", "create",
                                    "compress", "clean", "rename"},
                            at : 0..MaxOld]
           /\ rotation.at \in 0..MaxOld
           /\ logFile # Nothing => logFile \in Fillings
           /\ tmp # Nothing => tmp \in Fillings
  BY Bounds DEF LogTypeOK, Fillings, Nothing

LEMMA GotoTypes ==
    ASSUME LogTypeOK,
           NEW step \in {"none", "oldest", "shift", "aside", "create",
                         "compress", "clean", "rename"},
           Goto(step)
    PROVE  /\ rotation' \in [step : {"none", "oldest", "shift", "aside",
                                     "create", "compress", "clean", "rename"},
                             at : 0..MaxOld]
           /\ rotation'.step = step /\ rotation'.at = rotation.at
  BY DEF LogTypeOK, Goto

LEMMA MishapType ==
    ASSUME LogTypeOK, Mishap \/ Fine
    PROVE  mishaps' \in 0..MaxLogFailures
  BY LogAssumption DEF LogTypeOK, Mishap, Fine

\* Calm does not come back, and a failure ends it.
LEMMA CalmEnds ==
    ASSUME LogTypeOK, Mishap \/ Fine, powerCut' = powerCut \/ powerCut'
    PROVE  /\ Calm' => Calm
           /\ Mishap => ~Calm'
  BY LogAssumption DEF LogTypeOK, Mishap, Fine, Calm

\* A step that loses nothing that is newer than what it rotates.
LEMMA NothingLost ==
    ASSUME KeptInv, last' = last, chainBroken => chainBroken',
           ~chainBroken' =>
               /\ \A f \in Fillings : Rotating(f)' => Rotating(f)
               /\ \A f, g \in Fillings :
                     Rotating(f)' /\ f < g /\ Kept(g) => Kept(g)'
    PROVE  KeptInv'
  BY DEF KeptInv

\* Steps that only move on.
LEMMA StepMovesOn ==
    ASSUME RotationInv, Rotate \/ ShiftEnds \/ PowerCut
    PROVE  RotationInv'
  <1>0. LogTypeOK /\ OrderInv /\ PlaceInv /\ KeptInv
    BY DEF RotationInv
  <1>c. Calm' => Calm
    BY <1>0, CalmEnds DEF Rotate, ShiftEnds, PowerCut, Fine
  <1>1. /\ UNCHANGED <<logFile, archive, txt, tmp, last, mishaps, chainBroken>>
        /\ powerCut' \in BOOLEAN
        /\ \/ rotation'.step \in {"oldest", "none"}
           \/ /\ rotation.step = "shift" /\ rotation.at = 0
              /\ rotation'.step = "aside"
        /\ rotation' \in [step : {"none", "oldest", "shift", "aside", "create",
                                  "compress", "clean", "rename"},
                          at : 0..MaxOld]
    <2>1. CASE Rotate
      BY <1>0, <2>1, GotoTypes DEF Rotate, LogTypeOK
    <2>2. CASE ShiftEnds
      BY <1>0, <2>2, GotoTypes DEF ShiftEnds, LogTypeOK
    <2>3. CASE PowerCut
      BY <1>0, <2>3, GotoTypes DEF PowerCut
    <2>4. QED
      BY <2>1, <2>2, <2>3
  <1>1a. rotation.step = "clean" => ~Calm'
    BY DEF Rotate, ShiftEnds, PowerCut, Calm
  <1>2. LogTypeOK'
    BY <1>0, <1>1 DEF LogTypeOK
  <1>3. OrderInv'
    BY <1>0, <1>c, <1>1, <1>1a DEF OrderInv, ArchivesInOrder, NotNewer
  <1>4. PlaceInv'
    BY <1>0, <1>1 DEF PlaceInv
  <1>5. KeptInv'
    BY <1>0, <1>1 DEF KeptInv, Rotating, Archived, Kept
  <1>6. QED
    BY <1>2, <1>3, <1>4, <1>5 DEF RotationInv

\* A new log is the newest file.
LEMMA StepFill == RotationInv /\ Fill => RotationInv'
  <1> SUFFICES ASSUME RotationInv, Fill PROVE RotationInv'
    OBVIOUS
  <1>0. LogTypeOK /\ OrderInv /\ PlaceInv /\ KeptInv
    BY DEF RotationInv
  <1>c. Calm' => Calm
    BY <1>0, CalmEnds DEF Fill, Fine
  <1>1. /\ rotation.step = "none" /\ logFile = Nothing /\ last < MaxFillings
        /\ logFile' = last + 1 /\ last' = last + 1
        /\ UNCHANGED <<archive, txt, tmp, rotation, mishaps, chainBroken,
                       powerCut>>
    BY DEF Fill
  <1>2. last \in Nat /\ tmp \in Nat /\ last + 1 \in Fillings
    BY <1>0, <1>1, LogTypes, Bounds DEF Fillings
  <1>3. LogTypeOK'
    BY <1>0, <1>1, <1>2, Bounds DEF LogTypeOK, Fillings
  <1>4. OrderInv'
    BY <1>0, <1>c, <1>1, <1>2, Bounds
       DEF OrderInv, ArchivesInOrder, NotNewer, Fillings, Nothing
  <1>5. PlaceInv'
    BY <1>0, <1>1 DEF PlaceInv
  <1>6. KeptInv'
    <2>1. \A f \in Fillings : Rotating(f)' => Rotating(f) \/ f = last + 1
      BY <1>1 DEF Rotating, Archived
    <2>2. \A g \in Fillings : Kept(g) => Kept(g)'
      BY <1>1, Bounds DEF Kept, Archived
    <2>3. \A g \in Fillings : g = last + 1 => Kept(g)'
      BY <1>1 DEF Kept
    <2>4. QED
      BY <1>0, <1>1, <1>2, <2>1, <2>2, <2>3 DEF KeptInv, Fillings
  <1>7. QED
    BY <1>3, <1>4, <1>5, <1>6 DEF RotationInv

\* The oldest archive is older than all there is.
LEMMA StepRemoveOldest == RotationInv /\ RemoveOldest => RotationInv'
  <1> SUFFICES ASSUME RotationInv, RemoveOldest PROVE RotationInv'
    OBVIOUS
  <1>0. LogTypeOK /\ OrderInv /\ PlaceInv /\ KeptInv
    BY DEF RotationInv
  <1>c. Calm' => Calm
    BY <1>0, CalmEnds DEF RemoveOldest, Fine
  <1>1. /\ rotation' = [step |-> "shift", at |-> MaxOld - 1]
        /\ UNCHANGED <<logFile, txt, tmp, last, powerCut>>
        /\ mishaps' \in 0..MaxLogFailures
    BY <1>0, MishapType DEF RemoveOldest, FirstShift
  <1>2. /\ rotation' \in [step : {"none", "oldest", "shift", "aside", "create",
                                  "compress", "clean", "rename"},
                          at : 0..MaxOld]
        /\ rotation'.step = "shift" /\ rotation'.at = MaxOld - 1
    BY <1>1, Bounds
  <1>3. CASE archive' = [archive EXCEPT ![MaxOld] = Nothing]
             /\ UNCHANGED chainBroken
    <2>1. /\ archive' \in [1..MaxOld -> 0..Partial]
          /\ archive'[MaxOld] = Nothing
          /\ \A i \in 1..MaxOld : i # MaxOld => archive'[i] = archive[i]
      BY <1>0, <1>3, LogTypes, Bounds
    <2>2. LogTypeOK'
      BY <1>0, <1>1, <1>2, <1>3, <2>1 DEF LogTypeOK
    <2>3. OrderInv'
      <3>1. rotation.step # "clean" /\ Nothing \notin Fillings
        BY Bounds DEF RemoveOldest
      <3>2. \A i \in 1..MaxOld :
                archive'[i] \in Fillings => archive'[i] = archive[i]
        BY <2>1, <3>1
      <3>3. ArchivesInOrder'
        BY <1>0, <1>c, <3>2 DEF OrderInv, ArchivesInOrder, NotNewer
      <3>4. QED
        BY <1>0, <1>c, <1>1, <3>1, <3>2, <3>3 DEF OrderInv, NotNewer
    <2>4. PlaceInv'
      BY <1>2, <2>1, Bounds DEF PlaceInv
    <2>5. \A f \in Fillings : Rotating(f)' => Rotating(f)
      BY <1>1, <2>1, Bounds DEF Rotating, Archived
    <2>6. ASSUME NEW f \in Fillings, NEW g \in Fillings,
                 Rotating(f)', f < g, Kept(g)
          PROVE  Kept(g)'
      <3>1. g # archive[MaxOld]
        <4>1. SUFFICES ASSUME g = archive[MaxOld] PROVE FALSE
          OBVIOUS
        <4>2. f \in Nat /\ g \in Nat
          BY Bounds DEF Fillings
        <4>3. CASE f \in {tmp, logFile}
          BY <1>0, <2>6, <4>1, <4>2, <4>3, Bounds DEF OrderInv, NotNewer
        <4>4. CASE Archived(f)'
          <5>1. PICK i \in 1..MaxOld : archive'[i] = f
            BY <4>4 DEF Archived
          <5>2. i # MaxOld /\ archive[i] = f
            BY <2>1, <5>1, Bounds
          <5>3. i < MaxOld
            BY <5>2, Bounds
          <5>4. g <= f
            BY <1>0, <4>1, <4>2, <5>2, <5>3, Bounds
               DEF OrderInv, ArchivesInOrder, NotNewer
          <5>5. QED
            BY <2>6, <4>2, <5>4
        <4>5. QED
          BY <1>1, <2>6, <4>3, <4>4 DEF Rotating
      <3>2. QED
        BY <1>1, <2>1, <2>6, <3>1 DEF Kept, Archived
    <2>7. KeptInv'
      BY <1>0, <1>1, <1>3, <2>5, <2>6, NothingLost
    <2>8. QED
      BY <2>2, <2>3, <2>4, <2>7 DEF RotationInv
  <1>4. CASE UNCHANGED archive /\ chainBroken' = TRUE
    <2>1. LogTypeOK'
      BY <1>0, <1>1, <1>2, <1>4 DEF LogTypeOK
    <2>2. OrderInv'
      BY <1>0, <1>c, <1>1, <1>2, <1>4
         DEF OrderInv, ArchivesInOrder, NotNewer, RemoveOldest
    <2>3. PlaceInv' /\ KeptInv'
      BY <1>2, <1>4, Bounds DEF PlaceInv, KeptInv
    <2>4. QED
      BY <2>1, <2>2, <2>3 DEF RotationInv
  <1>5. QED
    BY <1>3, <1>4 DEF RemoveOldest

\* An archive moves one place down, into a place that is free.
LEMMA StepShift == RotationInv /\ Shift => RotationInv'
  <1> SUFFICES ASSUME RotationInv, Shift PROVE RotationInv'
    OBVIOUS
  <1> DEFINE i == rotation.at
  <1>0. LogTypeOK /\ OrderInv /\ PlaceInv /\ KeptInv
    BY DEF RotationInv
  <1>c. Calm' => Calm
    BY <1>0, CalmEnds DEF Shift, Fine
  <1>1. /\ rotation.step = "shift" /\ i \in 1..MaxOld - 1
        /\ UNCHANGED <<logFile, txt, tmp, last, powerCut>>
        /\ mishaps' \in 0..MaxLogFailures
    BY <1>0, MishapType, LogTypes, Bounds DEF Shift, PlaceInv
  <1>2. /\ rotation' \in [step : {"none", "oldest", "shift", "aside", "create",
                                  "compress", "clean", "rename"},
                          at : 0..MaxOld]
        /\ rotation'.step = "shift" /\ rotation'.at = i - 1
    <2>1. i - 1 \in 0..MaxOld
      BY <1>1, Bounds
    <2>2. rotation' = [rotation EXCEPT !.at = i - 1]
      BY DEF Shift
    <2> HIDE DEF i
    <2>3. QED
      BY <1>0, <1>1, <2>1, <2>2, LogTypes
  <1>3. i \in 1..MaxOld /\ i + 1 \in 1..MaxOld /\ i # i + 1 /\ i - 1 < MaxOld
    BY <1>1, Bounds
  <1>4. archive[i] = archive[i] /\ archive \in [1..MaxOld -> 0..Partial]
    BY <1>0, LogTypes
  <1>5. CASE /\ archive[i] # Nothing /\ archive[i + 1] = Nothing
             /\ archive' =
                   [archive EXCEPT ![i] = Nothing, ![i + 1] = archive[i]]
             /\ UNCHANGED chainBroken
    <2> HIDE DEF i
    <2>1. /\ archive' \in [1..MaxOld -> 0..Partial]
          /\ archive'[i] = Nothing /\ archive'[i + 1] = archive[i]
          /\ \A j \in 1..MaxOld :
                j # i /\ j # i + 1 => archive'[j] = archive[j]
      BY <1>3, <1>4, <1>5, Bounds
    <2>2. LogTypeOK'
      BY <1>0, <1>1, <1>2, <1>5, <2>1 DEF LogTypeOK
    <2>3. OrderInv'
      <3>1. ArchivesInOrder'
        <4> SUFFICES ASSUME NEW j \in 1..MaxOld, NEW k \in 1..MaxOld, j < k,
                            archive'[j] \in Fillings, archive'[k] \in Fillings
                     PROVE  NotNewer(archive[k], archive[j])'
          BY DEF ArchivesInOrder, NotNewer
        <4>1. j # i /\ k # i
          BY <2>1, Bounds
        <4>2. CASE j = i + 1
          <5>1. archive'[k] = archive[k] /\ archive'[j] = archive[i] /\ i < k
            BY <1>1, <2>1, <4>1, <4>2
          <5>2. QED
            BY <1>0, <1>c, <1>3, <5>1 DEF OrderInv, ArchivesInOrder, NotNewer
        <4>3. CASE k = i + 1
          <5>1. archive'[j] = archive[j] /\ archive'[k] = archive[i] /\ j < i
            BY <1>1, <2>1, <4>1, <4>3
          <5>2. QED
            BY <1>0, <1>c, <1>3, <5>1 DEF OrderInv, ArchivesInOrder, NotNewer
        <4>4. CASE j # i + 1 /\ k # i + 1
          BY <1>0, <1>c, <2>1, <4>1, <4>4 DEF OrderInv, ArchivesInOrder, NotNewer
        <4>5. QED
          BY <4>2, <4>3, <4>4
      <3>2. \A j \in 1..MaxOld : archive'[j] \in Fillings =>
                \E k \in 1..MaxOld : archive'[j] = archive[k]
        BY <1>3, <2>1, Bounds
      <3>3. QED
        BY <1>0, <1>c, <1>1, <3>1, <3>2 DEF OrderInv, NotNewer
    <2>4. PlaceInv'
      <3>1. i - 1 + 1 = i
        BY <1>1
      <3>2. QED
        BY <1>2, <1>3, <2>1, <3>1 DEF PlaceInv
    <2>5. \A f \in Fillings : Rotating(f)' => Rotating(f)
      BY <1>1, <1>3, <2>1, Bounds DEF Rotating, Archived
    <2>6. \A g \in Fillings : Kept(g) => Kept(g)'
      BY <1>1, <1>3, <1>5, <2>1, Bounds DEF Kept, Archived
    <2>7. KeptInv'
      BY <1>0, <1>1, <1>5, <2>5, <2>6, NothingLost
    <2>8. QED
      BY <2>2, <2>3, <2>4, <2>7 DEF RotationInv
  <1>6. CASE /\ UNCHANGED archive
             /\ \/ archive[i] = Nothing /\ UNCHANGED chainBroken
                \/ archive[i + 1] # Nothing /\ UNCHANGED chainBroken
                \/ chainBroken' = TRUE
    <2> HIDE DEF i
    <2>1. LogTypeOK'
      BY <1>0, <1>1, <1>2, <1>6 DEF LogTypeOK
    <2>2. OrderInv'
      BY <1>0, <1>c, <1>1, <1>6 DEF OrderInv, ArchivesInOrder, NotNewer
    <2>3. archive[i + 1] # Nothing => chainBroken
      BY <1>0, <1>1 DEF PlaceInv, i
    <2>4. ~chainBroken' => archive'[i] = Nothing
      BY <1>6, <2>3
    <2>5. i - 1 + 1 = i
      BY <1>1
    <2>6. PlaceInv'
      BY <1>2, <1>3, <2>4, <2>5 DEF PlaceInv
    <2>7. KeptInv'
      BY <1>0, <1>1, <1>6 DEF KeptInv, Rotating, Archived, Kept
    <2>8. QED
      BY <2>1, <2>2, <2>6, <2>7 DEF RotationInv
  <1>7. QED
    <2>1. \/ /\ archive' =
                   IF archive[i] # Nothing /\ archive[i + 1] = Nothing
                   THEN [archive EXCEPT ![i] = Nothing, ![i + 1] = archive[i]]
                   ELSE archive
             /\ UNCHANGED chainBroken
          \/ UNCHANGED archive /\ chainBroken' = TRUE
      BY DEF Shift
    <2> HIDE DEF i
    <2>2. CASE archive[i] # Nothing /\ archive[i + 1] = Nothing
      BY <1>5, <1>6, <2>1, <2>2
    <2>3. CASE ~(archive[i] # Nothing /\ archive[i + 1] = Nothing)
      BY <1>6, <2>1, <2>3
    <2>4. QED
      BY <2>2, <2>3

\* The log goes aside, if nothing is there.
LEMMA StepMoveAside == RotationInv /\ MoveAside => RotationInv'
  <1> SUFFICES ASSUME RotationInv, MoveAside PROVE RotationInv'
    OBVIOUS
  <1>0. LogTypeOK /\ OrderInv /\ PlaceInv /\ KeptInv
    BY DEF RotationInv
  <1>c. Calm' => Calm
    BY <1>0, CalmEnds DEF MoveAside, Fine
  <1>1. /\ rotation.step = "aside"
        /\ UNCHANGED <<archive, txt, last, chainBroken, powerCut>>
        /\ mishaps' \in 0..MaxLogFailures
        /\ \/ tmp = Nothing /\ tmp' = logFile /\ logFile' = Nothing
           \/ UNCHANGED <<logFile, tmp>>
    BY <1>0, MishapType DEF MoveAside
  <1>2. /\ rotation' \in [step : {"none", "oldest", "shift", "aside", "create",
                                  "compress", "clean", "rename"},
                          at : 0..MaxOld]
        /\ rotation'.step \in {"create", "rename"}
    BY <1>0, GotoTypes DEF MoveAside
  <1>3. LogTypeOK'
    BY <1>0, <1>1, <1>2 DEF LogTypeOK
  <1>4. OrderInv'
    BY <1>0, <1>c, <1>1, LogTypes DEF OrderInv, ArchivesInOrder, NotNewer, Nothing
  <1>5. PlaceInv'
    BY <1>0, <1>1, <1>2 DEF PlaceInv
  <1>6. KeptInv'
    <2>1. \A f \in Fillings : Rotating(f)' => Rotating(f)
      BY <1>1, Bounds DEF Rotating, Archived
    <2>2. \A g \in Fillings : Kept(g) => Kept(g)'
      BY <1>1, Bounds DEF Kept, Archived
    <2>3. QED
      BY <1>0, <1>1, <2>1, <2>2, NothingLost
  <1>7. QED
    BY <1>3, <1>4, <1>5, <1>6 DEF RotationInv

\* What is aside goes back only where there is no log.
LEMMA PutBackFacts ==
    ASSUME LogTypeOK, OrderInv, PutBack
    PROVE  /\ logFile' \in Fillings \cup {Nothing}
           /\ tmp' \in Fillings \cup {Nothing}
           /\ logFile' <= last /\ tmp' <= last
           /\ tmp' # Nothing /\ logFile' # Nothing => tmp' < logFile'
           /\ {tmp', logFile'} \ {Nothing} = {tmp, logFile} \ {Nothing}
  BY LogTypes DEF LogTypeOK, OrderInv, PutBack, Nothing

\* The first archive is written, or put back what was aside: a common case.
LEMMA StepFirstArchive ==
    ASSUME RotationInv, NEW content \in {Nothing, Partial},
           archive' = [archive EXCEPT ![1] = content],
           ~chainBroken => archive[1] \notin Fillings,
           PutBack \/ UNCHANGED <<logFile, tmp>>,
           UNCHANGED <<txt, last, chainBroken, powerCut>>,
           Mishap \/ Fine, rotation.step # "clean",
           \/ Goto("compress") /\ content = Partial
           \/ Goto("rename")
    PROVE  RotationInv'
  <1>0. LogTypeOK /\ OrderInv /\ PlaceInv /\ KeptInv
    BY DEF RotationInv
  <1>c. Calm' => Calm
    BY <1>0, CalmEnds
  <1>1. /\ archive' \in [1..MaxOld -> 0..Partial]
        /\ archive'[1] = content /\ archive'[1] \notin Fillings
        /\ \A j \in 1..MaxOld : j # 1 => archive'[j] = archive[j]
    BY <1>0, LogTypes, Bounds
  <1>2. /\ logFile' \in Fillings \cup {Nothing}
        /\ tmp' \in Fillings \cup {Nothing}
        /\ logFile' <= last /\ tmp' <= last
        /\ tmp' # Nothing /\ logFile' # Nothing => tmp' < logFile'
        /\ {tmp', logFile'} \ {Nothing} = {tmp, logFile} \ {Nothing}
    BY <1>0, PutBackFacts DEF LogTypeOK, OrderInv
  <1>3. /\ rotation' \in [step : {"none", "oldest", "shift", "aside", "create",
                                  "compress", "clean", "rename"},
                          at : 0..MaxOld]
        /\ \/ rotation'.step = "compress" /\ content = Partial
           \/ rotation'.step = "rename"
    BY <1>0, GotoTypes
  <1>4. LogTypeOK'
    BY <1>0, <1>1, <1>2, <1>3, MishapType DEF LogTypeOK
  <1>5. OrderInv'
    <2>1. ArchivesInOrder'
      BY <1>0, <1>c, <1>1 DEF OrderInv, ArchivesInOrder, NotNewer
    <2>2. ASSUME NEW j \in 1..MaxOld, archive'[j] \in Fillings
          PROVE  /\ archive'[j] <= last
                 /\ tmp' # Nothing => NotNewer(archive[j], tmp)'
                 /\ logFile' # Nothing => NotNewer(archive[j], logFile)'
      <3>1. archive'[j] = archive[j]
        BY <1>1, <2>2
      <3>2. \A x \in {tmp, logFile} \ {Nothing} : NotNewer(archive[j], x)
        BY <1>0, <2>2, <3>1 DEF OrderInv
      <3>3. QED
        BY <1>0, <1>c, <1>2, <2>2, <3>1, <3>2 DEF OrderInv, NotNewer
    <2>3. QED
      BY <1>2, <2>1, <2>2 DEF OrderInv, NotNewer
  <1>6. PlaceInv'
    BY <1>1, <1>3 DEF PlaceInv
  <1>7. KeptInv'
    <2>1. \A f \in Fillings : f \in {tmp', logFile'} <=> f \in {tmp, logFile}
      BY <1>2, Bounds
    <2>2. \A f \in Fillings : Archived(f)' => Archived(f)
      BY <1>1 DEF Archived
    <2>3. ~chainBroken => \A f \in Fillings : Archived(f) => Archived(f)'
      BY <1>1 DEF Archived
    <2>4. QED
      BY <1>0, <2>1, <2>2, <2>3, NothingLost DEF Rotating, Kept
  <1>8. QED
    BY <1>4, <1>5, <1>6, <1>7 DEF RotationInv

LEMMA StepCreateArchive == RotationInv /\ CreateArchive => RotationInv'
  <1> SUFFICES ASSUME RotationInv, CreateArchive PROVE RotationInv'
    OBVIOUS
  <1>0. /\ LogTypeOK /\ OrderInv /\ PlaceInv /\ KeptInv
        /\ archive \in [1..MaxOld -> 0..Partial]
    BY LogTypes DEF RotationInv
  <1>c. Calm' => Calm
    BY <1>0, CalmEnds DEF CreateArchive, Fine
  <1>1. /\ rotation.step = "create"
        /\ UNCHANGED <<txt, last, chainBroken, powerCut>>
        /\ Mishap \/ Fine
        /\ ~chainBroken => archive[1] = Nothing
    BY <1>0 DEF CreateArchive, PlaceInv
  <1>2. CASE /\ archive' = [archive EXCEPT ![1] = Partial]
             /\ Goto("compress") /\ UNCHANGED <<logFile, tmp>>
    BY <1>1, <1>2, Bounds, StepFirstArchive
  <1>3. CASE /\ PutBack \/ UNCHANGED <<logFile, tmp>>
             /\ Goto("rename") /\ UNCHANGED archive
    <2>1. LogTypeOK'
      BY <1>0, <1>1, <1>3, PutBackFacts, GotoTypes, MishapType DEF LogTypeOK
    <2>2. {tmp', logFile'} \ {Nothing} = {tmp, logFile} \ {Nothing}
      BY <1>0, <1>3, PutBackFacts
    <2>3. OrderInv'
      <3>1. ASSUME NEW j \in 1..MaxOld, archive[j] \in Fillings
            PROVE  \A x \in {tmp', logFile'} \ {Nothing} : NotNewer(archive[j], x)
        BY <1>0, <1>1, <2>2, <3>1 DEF OrderInv
      <3>2. QED
        BY <1>0, <1>c, <1>1, <1>3, <3>1, PutBackFacts
           DEF OrderInv, ArchivesInOrder, NotNewer
    <2>4. rotation'.step = "rename"
      BY <1>0, <1>3, GotoTypes
    <2>5. PlaceInv'
      BY <2>4 DEF PlaceInv
    <2>6. \A f \in Fillings : f \in {tmp', logFile'} <=> f \in {tmp, logFile}
      BY <2>2, Bounds
    <2>7. \A f \in Fillings : Archived(f)' <=> Archived(f)
      BY <1>3 DEF Archived
    <2>8. KeptInv'
      BY <1>0, <1>1, <2>6, <2>7, NothingLost DEF Rotating, Kept
    <2>9. QED
      BY <2>1, <2>3, <2>5, <2>8 DEF RotationInv
  <1>4. QED
    BY <1>2, <1>3 DEF CreateArchive

\* The log aside becomes the first archive, older than the log and newer than
\* the other archives.
LEMMA StepCompress == RotationInv /\ Compress => RotationInv'
  <1> SUFFICES ASSUME RotationInv, Compress PROVE RotationInv'
    OBVIOUS
  <1>0. /\ LogTypeOK /\ OrderInv /\ PlaceInv /\ KeptInv
        /\ archive \in [1..MaxOld -> 0..Partial]
    BY LogTypes DEF RotationInv
  <1>c. Calm' => Calm
    BY <1>0, CalmEnds DEF Compress, Fine
  <1>1. /\ rotation.step = "compress" /\ archive[1] = Partial
        /\ UNCHANGED <<txt, last, chainBroken, powerCut>>
        /\ Mishap \/ Fine
    BY <1>0 DEF Compress, PlaceInv
  <1>2. CASE /\ \E rest \in {Nothing, Partial} :
                   archive' = [archive EXCEPT ![1] = rest]
             /\ PutBack \/ UNCHANGED <<logFile, tmp>>
             /\ Goto("rename")
    BY <1>1, <1>2, Bounds, StepFirstArchive
  <1>3. CASE /\ archive' = [archive EXCEPT ![1] = Packed]
             /\ Goto("clean") /\ UNCHANGED <<logFile, tmp>>
    <2>1. Packed \in 0..Partial /\ (Packed \in Fillings => Packed = tmp)
                               /\ (tmp # Nothing => Packed = tmp)
      BY <1>0, LogTypes, Bounds DEF Packed
    <2>2. /\ archive' \in [1..MaxOld -> 0..Partial] /\ archive'[1] = Packed
          /\ \A j \in 1..MaxOld : j # 1 => archive'[j] = archive[j]
      BY <1>0, <1>3, <2>1, Bounds
    <2>3. rotation'.step = "clean"
      BY <1>0, <1>3, GotoTypes
    <2>4. LogTypeOK'
      BY <1>0, <1>1, <1>3, <2>2, GotoTypes, MishapType DEF LogTypeOK
    <2>5. tmp \in Nat /\ (tmp \in Fillings => tmp # Nothing)
      BY <1>0, LogTypes, Bounds
    <2>6. ArchivesInOrder'
      <3> SUFFICES ASSUME NEW j \in 1..MaxOld, NEW k \in 1..MaxOld, j < k,
                          archive'[j] \in Fillings, archive'[k] \in Fillings
                   PROVE  NotNewer(archive[k], archive[j])'
        BY DEF ArchivesInOrder, NotNewer
      <3>1. k # 1 /\ archive'[k] = archive[k]
        BY <2>2
      <3>2. CASE j = 1
        BY <1>0, <1>c, <1>1, <2>1, <2>2, <2>5, <3>1, <3>2 DEF OrderInv, NotNewer
      <3>3. CASE j # 1
        BY <1>0, <1>c, <2>2, <3>1, <3>3 DEF OrderInv, ArchivesInOrder, NotNewer
      <3>4. QED
        BY <3>2, <3>3
    <2>7. ASSUME NEW j \in 1..MaxOld, archive'[j] \in Fillings
          PROVE  /\ archive'[j] <= last
                 /\ logFile # Nothing => NotNewer(archive[j], logFile)'
                 /\ tmp # Nothing => NotNewer(archive[j], tmp)' \/ archive'[j] = tmp
      <3>1. CASE j = 1
        BY <1>0, <1>3, <2>1, <2>2, <2>5, <2>7, <3>1 DEF OrderInv, NotNewer
      <3>2. CASE j # 1
        BY <1>0, <1>c, <1>1, <1>3, <2>2, <2>7, <3>2 DEF OrderInv, NotNewer
      <3>3. QED
        BY <3>1, <3>2
    <2>8. OrderInv'
      BY <1>0, <1>1, <1>3, <2>3, <2>6, <2>7, LogTypes DEF OrderInv, Nothing
    <2>9. PlaceInv'
      BY <1>3, <2>1, <2>2, <2>3 DEF PlaceInv
    <2>10. \A f \in Fillings : Archived(f)' => Archived(f) \/ f = tmp
      BY <2>1, <2>2 DEF Archived
    <2>11. 1 \in 1..MaxOld
      BY Bounds
    <2>12. \A f \in Fillings : Archived(f) \/ f = tmp => Archived(f)'
      <3> SUFFICES ASSUME NEW f \in Fillings, Archived(f) \/ f = tmp
                   PROVE  Archived(f)'
        OBVIOUS
      <3>1. CASE f = tmp
        BY <2>1, <2>2, <2>5, <2>11, <3>1 DEF Archived
      <3>2. CASE Archived(f)
        BY <1>1, <2>2, <3>2, Bounds DEF Archived
      <3>3. QED
        BY <3>1, <3>2
    <2>13. \A f \in Fillings : Rotating(f)' => Rotating(f)
      BY <1>3, <2>10, Bounds DEF Rotating
    <2>14. \A g \in Fillings : Kept(g) => Kept(g)'
      BY <1>1, <1>3, <2>12, Bounds DEF Kept
    <2>15. KeptInv'
      BY <1>0, <1>1, <2>13, <2>14, NothingLost
    <2>16. QED
      BY <2>4, <2>8, <2>9, <2>15 DEF RotationInv
  <1>4. QED
    BY <1>2, <1>3 DEF Compress

\* What is aside goes when it is archived, or is archived again later.
LEMMA StepCleanUp == RotationInv /\ CleanUp => RotationInv'
  <1> SUFFICES ASSUME RotationInv, CleanUp PROVE RotationInv'
    OBVIOUS
  <1>0. LogTypeOK /\ OrderInv /\ PlaceInv /\ KeptInv
    BY DEF RotationInv
  <1>1. /\ rotation.step = "clean"
        /\ UNCHANGED <<logFile, archive, txt, last, chainBroken, powerCut>>
        /\ \/ tmp' = Nothing /\ Fine
           \/ UNCHANGED tmp /\ Mishap
    BY DEF CleanUp, Removed
  <1>2. Calm' => Calm /\ tmp' = Nothing
    BY <1>0, <1>1, CalmEnds
  <1>3. /\ rotation' \in [step : {"none", "oldest", "shift", "aside", "create",
                                  "compress", "clean", "rename"},
                          at : 0..MaxOld]
        /\ rotation'.step = "none"
    BY <1>0, GotoTypes DEF CleanUp
  <1>4. LogTypeOK'
    BY <1>0, <1>1, <1>3, MishapType DEF LogTypeOK
  <1>5. OrderInv'
    BY <1>0, <1>1, <1>2, LogTypes DEF OrderInv, ArchivesInOrder, NotNewer, Nothing
  <1>6. PlaceInv'
    BY <1>3 DEF PlaceInv
  <1>7. \A f \in Fillings : Rotating(f)' => Rotating(f)
    BY <1>1, Bounds DEF Rotating, Archived
  <1>8. \A g \in Fillings : Kept(g) => Kept(g)'
    <2>1. tmp # Nothing => Archived(tmp)
      BY <1>0, <1>1, Bounds DEF PlaceInv, Archived
    <2>2. \A g \in Fillings : Archived(g) => Archived(g)'
      BY <1>1 DEF Archived
    <2>3. QED
      BY <1>1, <2>1, <2>2, Bounds DEF Kept
  <1>9. KeptInv'
    BY <1>0, <1>1, <1>7, <1>8, NothingLost
  <1>10. QED
    BY <1>4, <1>5, <1>6, <1>9 DEF RotationInv

LEMMA StepRenameInstead == RotationInv /\ RenameInstead => RotationInv'
  <1> SUFFICES ASSUME RotationInv, RenameInstead PROVE RotationInv'
    OBVIOUS
  <1>0. LogTypeOK /\ OrderInv /\ PlaceInv /\ KeptInv
    BY DEF RotationInv
  <1>c. Calm' => Calm
    BY <1>0, CalmEnds DEF RenameInstead, Fine
  <1>1. /\ UNCHANGED <<archive, tmp, last, chainBroken, powerCut>>
        /\ Mishap \/ Fine
        /\ \/ txt = Nothing /\ txt' = logFile /\ logFile' = Nothing
           \/ UNCHANGED <<txt, logFile>>
    BY DEF RenameInstead
  <1>1a. rotation.step = "rename"
    BY DEF RenameInstead
  <1>2. /\ rotation' \in [step : {"none", "oldest", "shift", "aside", "create",
                                  "compress", "clean", "rename"},
                          at : 0..MaxOld]
        /\ rotation'.step = "none"
    BY <1>0, GotoTypes DEF RenameInstead
  <1>3. LogTypeOK'
    BY <1>0, <1>1, <1>2, MishapType DEF LogTypeOK
  <1>4. OrderInv'
    BY <1>0, <1>c, <1>1, <1>1a, LogTypes
       DEF OrderInv, ArchivesInOrder, NotNewer, Nothing
  <1>5. PlaceInv'
    BY <1>2 DEF PlaceInv
  <1>6. \A f \in Fillings : Rotating(f)' => Rotating(f)
    BY <1>1, Bounds DEF Rotating, Archived
  <1>7. \A g \in Fillings : Kept(g) => Kept(g)'
    BY <1>1, Bounds DEF Kept, Archived
  <1>8. KeptInv'
    BY <1>0, <1>1, <1>6, <1>7, NothingLost
  <1>9. QED
    BY <1>3, <1>4, <1>5, <1>8 DEF RotationInv

LEMMA RotationInvAlways == LogSpec => []RotationInv
  <1>1. RotationInv /\ [LogNext]_logVars => RotationInv'
    <2>1. RotationInv /\ LogNext => RotationInv'
      BY StepMovesOn, StepFill, StepRemoveOldest, StepShift, StepMoveAside,
         StepCreateArchive, StepCompress, StepCleanUp, StepRenameInstead
         DEF LogNext
    <2>2. RotationInv /\ UNCHANGED logVars => RotationInv'
      <3> SUFFICES ASSUME RotationInv, UNCHANGED logVars PROVE RotationInv'
        OBVIOUS
      <3> USE DEF logVars
      <3>1. LogTypeOK' /\ PlaceInv'
        BY DEF RotationInv, LogTypeOK, PlaceInv
      <3>2. OrderInv'
        BY DEF RotationInv, OrderInv, ArchivesInOrder, NotNewer, Calm
      <3>3. KeptInv'
        BY DEF RotationInv, KeptInv, Rotating, Archived, Kept
      <3>4. QED
        BY <3>1, <3>2, <3>3 DEF RotationInv
    <2>3. QED
      BY <2>1, <2>2
  <1>2. QED
    BY <1>1, InitRotation, PTL DEF LogSpec

\* Whatever renames, removals and compressions fail, in any order, and
\* whenever the power is cut, the archives are in the order of their age; while
\* nothing of this happens no log is archived twice.
THEOREM ArchivesAlwaysInOrder == LogSpec => []ArchivesInOrder
  <1>1. RotationInv => ArchivesInOrder
    BY DEF RotationInv, OrderInv
  <1>2. QED
    BY <1>1, RotationInvAlways, PTL

\* While the chain of renames has not failed no log newer than an archive is
\* lost, however often the compression fails or the power is cut.
THEOREM NewerAlwaysKept == LogSpec => []OnlyOldestLost
  <1>1. RotationInv => OnlyOldestLost
    <2> SUFFICES ASSUME RotationInv, ~chainBroken, NEW f \in 1..last,
                        NEW g \in 1..last, f < g, Archived(f)
                 PROVE  Kept(g)
      BY DEF OnlyOldestLost
    <2>1. f \in Fillings /\ g \in Fillings /\ g <= last
      BY LogTypes, Bounds DEF RotationInv, Fillings
    <2>2. QED
      BY <2>1 DEF RotationInv, KeptInv, Rotating
  <1>2. QED
    BY <1>1, RotationInvAlways, PTL

-----------------------------------------------------------------------------
(* The old logs that are kept *)

\* What is the i-th of a chain of archives whose first holds filling k.
Aged(k, i) == IF i <= k THEN k + 1 - i ELSE Nothing

\* The chain while archives are shifted: the first ones not yet, then the
\* place that has become free, then those that were moved.
ChainAt(unmoved, content) ==
    \A i \in 1..MaxOld :
        archive[i] = IF i <= unmoved THEN Aged(last - 1, i)
                     ELSE IF i = unmoved + 1 THEN content
                     ELSE Aged(last, i)

LogWaits == last # 0 /\ logFile = last /\ tmp = Nothing
LogAside == last # 0 /\ logFile = Nothing /\ tmp = last

\* Without failures every step finds every filling where the step before it
\* should have put it.
CalmInv ==
    Calm =>
        \/ /\ rotation.step = "none" /\ logFile = Nothing /\ tmp = Nothing
           /\ ChainAt(0, last)
        \/ rotation.step \in {"none", "oldest"} /\ LogWaits /\ ChainAt(MaxOld, Nothing)
        \/ /\ rotation.step = "shift" /\ rotation.at < MaxOld /\ LogWaits
           /\ ChainAt(rotation.at, Nothing)
        \/ rotation.step = "aside" /\ LogWaits /\ ChainAt(0, Nothing)
        \/ rotation.step = "create" /\ LogAside /\ ChainAt(0, Nothing)
        \/ rotation.step = "compress" /\ LogAside /\ ChainAt(0, Partial)
        \/ rotation.step = "clean" /\ LogAside /\ ChainAt(0, last)

\* A calm step is no failure, and none came before it.
LEMMA CalmStep ==
    ASSUME LogTypeOK, LogNext, Calm'
    PROVE  Calm /\ ~Mishap /\ ~PowerCut
  <1>1. mishaps \in Nat /\ mishaps' = 0 /\ ~powerCut'
    BY LogAssumption DEF LogTypeOK, Calm
  <1>2. ~Mishap
    BY <1>1 DEF Mishap
  <1>3. ~PowerCut
    BY <1>1 DEF PowerCut
  <1>4. Fine /\ powerCut' = powerCut
    BY <1>2, <1>3 DEF LogNext, Fill, Rotate, RemoveOldest, Shift, ShiftEnds,
       MoveAside, CreateArchive, Compress, CleanUp, RenameInstead, Fine
  <1>5. QED
    BY <1>1, <1>2, <1>3, <1>4 DEF Calm, Fine

LEMMA AgedFacts ==
    ASSUME LogTypeOK
    PROVE  /\ last \in Nat /\ MaxOld \in Nat /\ MaxOld >= 1
           /\ Nothing = 0 /\ 1..MaxOld \subseteq Nat
           /\ \A i \in 1..MaxOld : Aged(last - 1, i) = Aged(last, i + 1)
           /\ Aged(last, 1) = last
           /\ \A i \in 1..MaxOld : Aged(last + 1 - 1, i) = Aged(last, i)
  BY LogTypes, Bounds DEF Aged, Nothing

\* Filling the log and beginning to rotate it leave the chain as it is.
LEMMA CalmFill ==
    ASSUME LogTypeOK, CalmInv, Calm, Fill \/ Rotate
    PROVE  CalmInv'
  <1>1. rotation.step = "none" /\ UNCHANGED <<archive, tmp>>
    BY DEF Fill, Rotate
  <1>2. CASE Fill
    <2>1. /\ logFile = Nothing /\ logFile' = last + 1 /\ last' = last + 1
          /\ rotation' = rotation
      BY <1>2 DEF Fill
    <2>2. tmp = Nothing /\ ChainAt(0, last)
      BY <1>1, <2>1, AgedFacts DEF CalmInv, LogWaits
    <2>3. \A i \in 1..MaxOld : archive[i] = Aged(last + 1 - 1, i)
      <3> TAKE i \in 1..MaxOld
      <3>1. archive[i] = Aged(last, i)
        BY <2>2, AgedFacts DEF ChainAt
      <3>2. QED
        BY <3>1, AgedFacts
    <2>4. ChainAt(MaxOld, Nothing)'
      BY <1>1, <2>1, <2>3, AgedFacts DEF ChainAt, Aged
    <2>5. LogWaits'
      BY <1>1, <2>1, <2>2, AgedFacts DEF LogWaits
    <2>6. QED
      BY <1>1, <2>1, <2>4, <2>5 DEF CalmInv
  <1>3. CASE Rotate
    <2>1. UNCHANGED <<logFile, last>> /\ logFile # Nothing
      BY <1>3 DEF Rotate
    <2>2. rotation'.step = "oldest"
      BY <1>3, GotoTypes DEF Rotate
    <2>3. LogWaits /\ ChainAt(MaxOld, Nothing)
      BY <1>1, <2>1 DEF CalmInv
    <2>4. LogWaits' /\ ChainAt(MaxOld, Nothing)'
      BY <1>1, <2>1, <2>3 DEF LogWaits, ChainAt, Aged
    <2>5. QED
      BY <2>2, <2>4 DEF CalmInv
  <1>4. QED
    BY <1>2, <1>3

\* The last place becomes free, then each place that an archive leaves.
LEMMA CalmShift ==
    ASSUME LogTypeOK, CalmInv, Calm, ~Mishap, RemoveOldest \/ Shift \/ ShiftEnds
    PROVE  CalmInv'
  <1>1. UNCHANGED <<logFile, tmp, last>>
    BY DEF RemoveOldest, Shift, ShiftEnds
  <1>2. archive \in [1..MaxOld -> 0..Partial]
    BY LogTypes
  <1>3. CASE RemoveOldest
    <2>1. /\ archive' = [archive EXCEPT ![MaxOld] = Nothing]
          /\ rotation'.step = "shift" /\ rotation'.at = MaxOld - 1
          /\ rotation.step = "oldest"
      BY <1>3 DEF RemoveOldest, FirstShift
    <2>2. LogWaits /\ ChainAt(MaxOld, Nothing)
      BY <2>1 DEF CalmInv
    <2>3. \A i \in 1..MaxOld :
              archive'[i] = IF i <= MaxOld - 1 THEN Aged(last - 1, i)
                            ELSE IF i = MaxOld - 1 + 1 THEN Nothing
                            ELSE Aged(last, i)
      <3> TAKE i \in 1..MaxOld
      <3>1. archive[i] = Aged(last - 1, i)
        BY <2>2, AgedFacts DEF ChainAt
      <3>2. CASE i = MaxOld
        BY <1>2, <2>1, <3>2, AgedFacts
      <3>3. CASE i # MaxOld
        BY <1>2, <2>1, <3>1, <3>3, AgedFacts
      <3>4. QED
        BY <3>2, <3>3
    <2>4. ChainAt(rotation.at, Nothing)'
      BY <1>1, <2>1, <2>3 DEF ChainAt, Aged
    <2>5. LogWaits' /\ rotation'.at < MaxOld
      BY <1>1, <2>1, <2>2, AgedFacts DEF LogWaits
    <2>6. QED
      BY <2>1, <2>4, <2>5 DEF CalmInv
  <1>4. CASE Shift
    <2> DEFINE i == rotation.at
    <2>1. /\ rotation.step = "shift" /\ i > 0
          /\ archive' = IF archive[i] # Nothing /\ archive[i + 1] = Nothing
                        THEN [archive EXCEPT ![i] = Nothing,
                                             ![i + 1] = archive[i]]
                        ELSE archive
          /\ rotation' = [rotation EXCEPT !.at = i - 1]
      BY <1>4 DEF Shift
    <2>2. LogWaits /\ i < MaxOld /\ ChainAt(i, Nothing)
      BY <2>1 DEF CalmInv
    <2>3. rotation'.step = "shift" /\ rotation'.at = i - 1 /\ i \in 0..MaxOld
      BY <2>1, LogTypes
    <2> HIDE DEF i
    <2>4. /\ i \in 1..MaxOld /\ i + 1 \in 1..MaxOld /\ i # i + 1
          /\ archive[i] = Aged(last - 1, i) /\ archive[i + 1] = Nothing
      BY <2>1, <2>2, <2>3, AgedFacts DEF ChainAt
    <2>5. /\ archive'[i] = Nothing /\ archive'[i + 1] = Aged(last, i + 1)
          /\ \A j \in 1..MaxOld :
                j # i /\ j # i + 1 => archive'[j] = archive[j]
      <3>1. archive[i] = Aged(last, i + 1)
        BY <2>4, AgedFacts
      <3>2. CASE archive[i] # Nothing
        BY <1>2, <2>1, <2>4, <3>1, <3>2
      <3>3. CASE archive[i] = Nothing
        BY <2>1, <2>4, <3>1, <3>3
      <3>4. QED
        BY <3>2, <3>3
    <2>6. \A j \in 1..MaxOld :
              archive'[j] = IF j <= i - 1 THEN Aged(last - 1, j)
                            ELSE IF j = i - 1 + 1 THEN Nothing
                            ELSE Aged(last, j)
      <3> TAKE j \in 1..MaxOld
      <3>1. CASE j = i \/ j = i + 1
        BY <2>4, <2>5, <3>1, AgedFacts
      <3>2. CASE j # i /\ j # i + 1
        <4>1. archive'[j] = archive[j]
          BY <2>5, <3>2
        <4>2. archive[j] = IF j <= i THEN Aged(last - 1, j)
                           ELSE IF j = i + 1 THEN Nothing ELSE Aged(last, j)
          BY <2>2 DEF ChainAt
        <4>3. QED
          BY <2>4, <3>2, <4>1, <4>2, AgedFacts
      <3>3. QED
        BY <3>1, <3>2
    <2>7. ChainAt(rotation.at, Nothing)'
      BY <1>1, <2>3, <2>6 DEF ChainAt, Aged
    <2>8. LogWaits' /\ rotation'.at < MaxOld
      BY <1>1, <2>2, <2>3, AgedFacts DEF LogWaits
    <2>9. QED
      BY <2>3, <2>7, <2>8 DEF CalmInv
  <1>5. CASE ShiftEnds
    <2>1. /\ rotation.step = "shift" /\ rotation.at = 0 /\ archive' = archive
          /\ rotation'.step = "aside"
      BY <1>5, GotoTypes DEF ShiftEnds
    <2>2. LogWaits /\ ChainAt(0, Nothing)
      BY <2>1 DEF CalmInv
    <2>3. LogWaits' /\ ChainAt(0, Nothing)'
      BY <1>1, <2>1, <2>2 DEF LogWaits, ChainAt, Aged
    <2>4. QED
      BY <2>1, <2>3 DEF CalmInv
  <1>6. QED
    BY <1>3, <1>4, <1>5

\* A first archive that is written, with the others where they were.
LEMMA NewFirst ==
    ASSUME LogTypeOK, NEW before, ChainAt(0, before), NEW content,
           archive' = [archive EXCEPT ![1] = content], last' = last
    PROVE  ChainAt(0, content)'
  <1>1. archive \in [1..MaxOld -> 0..Partial]
    BY LogTypes
  <1>2. \A i \in 1..MaxOld : /\ i = 1 => archive'[i] = content
                             /\ i # 1 => archive'[i] = Aged(last, i)
    BY <1>1, AgedFacts DEF ChainAt
  <1>3. QED
    BY <1>2, AgedFacts DEF ChainAt, Aged

\* The log goes aside and becomes the first archive.
LEMMA CalmPack ==
    ASSUME LogTypeOK, CalmInv, Calm, ~Mishap,
           MoveAside \/ CreateArchive \/ Compress \/ CleanUp \/ RenameInstead
    PROVE  CalmInv'
  <1>1. last' = last
    BY DEF MoveAside, CreateArchive, Compress, CleanUp, RenameInstead
  <1>2. CASE MoveAside
    <2>1. LogWaits /\ ChainAt(0, Nothing)
      BY <1>2 DEF CalmInv, MoveAside
    <2>2. /\ tmp' = logFile /\ logFile' = Nothing /\ archive' = archive
          /\ rotation'.step = "create"
      BY <1>2, <2>1, GotoTypes DEF MoveAside, LogWaits
    <2>3. LogAside' /\ ChainAt(0, Nothing)'
      BY <1>1, <2>1, <2>2 DEF LogWaits, LogAside, ChainAt, Aged
    <2>4. QED
      BY <2>2, <2>3 DEF CalmInv
  <1>3. CASE CreateArchive
    <2>1. LogAside /\ ChainAt(0, Nothing)
      BY <1>3 DEF CalmInv, CreateArchive
    <2>2. /\ archive' = [archive EXCEPT ![1] = Partial]
          /\ UNCHANGED <<logFile, tmp>> /\ rotation'.step = "compress"
      BY <1>3, GotoTypes DEF CreateArchive
    <2>3. ChainAt(0, Partial)'
      <3>1. Partial' = Partial
        BY DEF Partial
      <3>2. QED
        BY <1>1, <2>1, <2>2, <3>1, NewFirst
    <2>4. LogAside'
      BY <1>1, <2>1, <2>2 DEF LogAside
    <2>5. QED
      BY <2>2, <2>3, <2>4 DEF CalmInv
  <1>4. CASE Compress
    <2>1. LogAside /\ ChainAt(0, Partial)
      BY <1>4 DEF CalmInv, Compress
    <2>2. /\ archive' = [archive EXCEPT ![1] = last]
          /\ UNCHANGED <<logFile, tmp>> /\ rotation'.step = "clean"
      BY <1>4, <2>1, GotoTypes, AgedFacts DEF Compress, Packed, LogAside
    <2>3. ChainAt(0, last)'
      <3>1. archive' = [archive EXCEPT ![1] = last']
        BY <1>1, <2>2
      <3>2. QED
        BY <1>1, <2>1, <3>1, NewFirst
    <2>4. LogAside'
      BY <1>1, <2>1, <2>2 DEF LogAside
    <2>5. QED
      BY <2>2, <2>3, <2>4 DEF CalmInv
  <1>5. CASE CleanUp
    <2>1. LogAside /\ ChainAt(0, last)
      BY <1>5 DEF CalmInv, CleanUp
    <2>2. /\ tmp' = Nothing /\ UNCHANGED <<logFile, archive>>
          /\ rotation'.step = "none"
      BY <1>5, GotoTypes DEF CleanUp, Removed
    <2>3. ChainAt(0, last)' /\ logFile' = Nothing
      BY <1>1, <2>1, <2>2 DEF ChainAt, Aged, LogAside
    <2>4. QED
      BY <2>2, <2>3 DEF CalmInv
  <1>6. CASE RenameInstead
    BY <1>6 DEF CalmInv, RenameInstead
  <1>7. QED
    BY <1>2, <1>3, <1>4, <1>5, <1>6

LEMMA CalmInvAlways == LogSpec => []CalmInv
  <1>1. LogInit => CalmInv
    <2> SUFFICES ASSUME LogInit PROVE CalmInv
      OBVIOUS
    <2>1. ChainAt(0, last)
      BY Bounds DEF LogInit, ChainAt, Aged, Nothing
    <2>2. QED
      BY <2>1 DEF LogInit, CalmInv
  <1>2. LogTypeOK /\ CalmInv /\ [LogNext]_logVars => CalmInv'
    <2> SUFFICES ASSUME LogTypeOK, CalmInv, [LogNext]_logVars, Calm'
                 PROVE  CalmInv'
      BY DEF CalmInv
    <2>1. CASE LogNext
      <3>1. Calm /\ ~Mishap /\ ~PowerCut
        BY <2>1, CalmStep
      <3>2. QED
        BY <2>1, <3>1, CalmFill, CalmShift, CalmPack DEF LogNext
    <2>2. CASE UNCHANGED logVars
      BY <2>2 DEF logVars, CalmInv, Calm, LogWaits, LogAside, ChainAt, Aged
    <2>3. QED
      BY <2>1, <2>2
  <1>3. RotationInv => LogTypeOK
    BY DEF RotationInv
  <1>4. QED
    BY <1>1, <1>2, <1>3, RotationInvAlways, PTL DEF LogSpec

\* Without failures, the newest _maxRotatedFiles fillings are always kept: in
\* the middle of a rotation too, at every rename of it.
THEOREM NewestAlwaysKept == LogSpec => []NewestKept
  <1>1. LogTypeOK /\ CalmInv => NewestKept
    <2> SUFFICES ASSUME LogTypeOK, CalmInv, Calm, NEW f \in 1..last,
                        last - f < MaxOld
                 PROVE  Kept(f)
      BY DEF NewestKept
    <2>1. f \in Nat /\ f >= 1 /\ f <= last /\ last \in Nat /\ MaxOld \in Nat
      BY AgedFacts
    <2>2. ASSUME NEW unmoved \in 0..MaxOld, NEW content,
                 ChainAt(unmoved, content), f # last
          PROVE  Archived(f)
      <3>1. CASE last - f <= unmoved
        <4>1. last - f \in 1..MaxOld
          BY <2>1, <2>2, <3>1
        <4>2. archive[last - f] = Aged(last - 1, last - f)
          BY <2>2, <3>1, <4>1 DEF ChainAt
        <4>3. Aged(last - 1, last - f) = f
          BY <2>1 DEF Aged
        <4>4. QED
          BY <4>1, <4>2, <4>3 DEF Archived
      <3>2. CASE ~(last - f <= unmoved)
        <4>1. /\ last - f + 1 \in 1..MaxOld /\ ~(last - f + 1 <= unmoved)
              /\ last - f + 1 # unmoved + 1
          BY <2>1, <2>2, <3>2
        <4>2. archive[last - f + 1] = Aged(last, last - f + 1)
          BY <2>2, <4>1 DEF ChainAt
        <4>3. Aged(last, last - f + 1) = f
          BY <2>1 DEF Aged
        <4>4. QED
          BY <4>1, <4>2, <4>3 DEF Archived
      <3>3. QED
        BY <3>1, <3>2
    <2>3. \E unmoved \in 0..MaxOld : \E content \in {Nothing, Partial, last} :
              ChainAt(unmoved, content)
      <3>1. rotation.at \in 0..MaxOld /\ 0 \in 0..MaxOld /\ MaxOld \in 0..MaxOld
        BY <2>1, LogTypes
      <3>2. QED
        BY <3>1 DEF CalmInv
    <2>4. f = last => Kept(f)
      <3>1. SUFFICES ASSUME f = last, logFile # last, tmp # last
                     PROVE  Archived(f)
        BY DEF Kept
      <3>2. ChainAt(0, last)
        BY <3>1 DEF CalmInv, LogWaits, LogAside
      <3>3. 1 \in 1..MaxOld /\ archive[1] = last
        BY <3>2, AgedFacts DEF ChainAt
      <3>4. QED
        BY <3>1, <3>3 DEF Archived
    <2>5. QED
      BY <2>2, <2>3, <2>4 DEF Kept
  <1>2. RotationInv => LogTypeOK
    BY DEF RotationInv
  <1>3. QED
    BY <1>1, <1>2, RotationInvAlways, CalmInvAlways, PTL

-----------------------------------------------------------------------------
(* The relay driver *)

\* While calls do not overlap, the one in progress is the last one or the
\* delayed callback of what the last one turned on.
PinInv ==
    /\ PinTypeOK
    /\ ~overlapped =>
          /\ \A s, t \in PinTasks : call[s] # "none" /\ call[t] # "none" => s = t
          /\ transitioning <=> ~Idle
          /\ percentOn = lastCall
          /\ Idle => level = lastCall
          /\ \A t \in PinTasks :
                /\ call[t] \in {"on", "delayed on"} => lastCall
                /\ call[t] \in {"off", "delayed off"} => ~lastCall

LEMMA InitPin == PinInit => PinInv
  BY DEF PinInit, PinInv, PinTypeOK, Calls, Idle

\* The first task to call, and what an end leaves.
LEMMA EnterFacts ==
    ASSUME PinTypeOK, NEW t \in PinTasks, NEW what \in Calls, what # "none",
           Enter(t, what)
    PROVE  /\ call' \in [PinTasks -> Calls] /\ ~Idle'
           /\ call'[t] = what
           /\ \A s \in PinTasks : s # t => call'[s] = call[s]
  BY DEF PinTypeOK, Enter, Idle

LEMMA LeaveFactsOfPin ==
    ASSUME PinTypeOK, NEW t \in PinTasks, Leave(t)
    PROVE  /\ call' \in [PinTasks -> Calls]
           /\ call'[t] = "none"
           /\ \A s \in PinTasks : s # t => call'[s] = call[s]
  BY DEF PinTypeOK, Leave, Calls

\* The end of a call that overlapped no other.
LEMMA CallEnds ==
    ASSUME PinInv, NEW t \in PinTasks, call[t] # "none", Leave(t),
           transitioning' = FALSE, level' \in BOOLEAN, armed' \in BOOLEAN,
           UNCHANGED <<percentOn, lastCall, overlapped>>,
           level' <=> call[t] \in {"on", "delayed on"}
    PROVE  PinInv'
  <1>1. PinTypeOK
    BY DEF PinInv
  <1>2. PinTypeOK'
    BY <1>1, LeaveFactsOfPin DEF PinTypeOK
  <1>3. ASSUME ~overlapped
        PROVE  /\ Idle'
               /\ level' = lastCall /\ percentOn = lastCall
    <2>1. \A s \in PinTasks : s # t => call[s] = "none"
      BY <1>3 DEF PinInv
    <2>2. Idle'
      BY <1>1, <2>1, LeaveFactsOfPin DEF Idle
    <2>3. call[t] \in {"on", "delayed on", "off", "delayed off"}
      BY <1>1 DEF PinTypeOK, Calls
    <2>4. level' <=> lastCall
      BY <1>3, <2>3 DEF PinInv
    <2>5. level' = lastCall
      BY <1>1, <2>4 DEF PinTypeOK
    <2>6. QED
      BY <1>3, <2>2, <2>5 DEF PinInv
  <1>4. QED
    BY <1>2, <1>3 DEF PinInv, Idle

LEMMA StepPin == PinInv /\ [PinNext]_pinVars => PinInv'
  <1> SUFFICES ASSUME PinInv, [PinNext]_pinVars PROVE PinInv'
    OBVIOUS
  <1>0. PinTypeOK
    BY DEF PinInv
  <1>1. CASE \E t \in PinTasks, on \in BOOLEAN : TurnBegins(t, on)
    <2>1. PICK t \in PinTasks, on \in BOOLEAN : TurnBegins(t, on)
      BY <1>1
    <2> DEFINE what == IF on THEN "on" ELSE "off"
    <2>2. what \in Calls /\ what # "none" /\ Enter(t, what)
      BY <2>1 DEF TurnBegins, Calls
    <2>3. on => what = "on"
      OBVIOUS
    <2>4. ~on => what = "off"
      OBVIOUS
    <2> HIDE DEF what
    <2>5. /\ call' \in [PinTasks -> Calls] /\ ~Idle' /\ call'[t] = what
          /\ \A s \in PinTasks : s # t => call'[s] = call[s]
      BY <1>0, <2>2, EnterFacts
    <2>6. /\ percentOn' = on /\ lastCall' = on /\ transitioning' = TRUE
          /\ overlapped' = ~Idle /\ UNCHANGED <<level, armed>>
      BY <2>1 DEF TurnBegins
    <2>7. PinTypeOK'
      BY <1>0, <2>5, <2>6 DEF PinTypeOK
    <2>8. ~overlapped' => \A s \in PinTasks : s # t => call'[s] = "none"
      BY <2>5, <2>6 DEF Idle
    <2>9. ~overlapped' => \A s \in PinTasks :
              /\ call'[s] \in {"on", "delayed on"} => lastCall'
              /\ call'[s] \in {"off", "delayed off"} => ~lastCall'
      BY <2>3, <2>4, <2>5, <2>6, <2>8
    <2>10. QED
      BY <2>5, <2>6, <2>7, <2>8, <2>9 DEF PinInv
  <1>2. CASE \E t \in PinTasks : TurnEnds(t)
    <2>1. PICK t \in PinTasks : TurnEnds(t)
      BY <1>2
    <2>2. level' <=> call[t] \in {"on", "delayed on"}
      BY <2>1 DEF TurnEnds
    <2>3. level' \in BOOLEAN /\ armed' \in BOOLEAN /\ call[t] # "none"
      BY <2>1 DEF TurnEnds
    <2>4. QED
      BY <2>1, <2>2, <2>3, CallEnds DEF TurnEnds
  <1>3. CASE DelayBegins
    <2> DEFINE what == IF percentOn THEN "delayed on" ELSE "delayed off"
    <2>1. what \in Calls /\ what # "none" /\ Enter(Loop, what) /\ Loop \in PinTasks
      BY <1>3, OutPinAssumption DEF DelayBegins, Calls
    <2>2. percentOn => what = "delayed on"
      OBVIOUS
    <2>3. ~percentOn => what = "delayed off"
      OBVIOUS
    <2> HIDE DEF what
    <2>4. /\ call' \in [PinTasks -> Calls] /\ ~Idle' /\ call'[Loop] = what
          /\ \A s \in PinTasks : s # Loop => call'[s] = call[s]
      BY <1>0, <2>1, EnterFacts
    <2>5. /\ transitioning' = TRUE /\ armed' = FALSE
          /\ overlapped' = (overlapped \/ ~Idle)
          /\ UNCHANGED <<percentOn, level, lastCall>>
      BY <1>3 DEF DelayBegins
    <2>6. PinTypeOK'
      BY <1>0, <2>4, <2>5 DEF PinTypeOK
    <2>7. ~overlapped' =>
              Idle /\ percentOn = lastCall
                   /\ \A s \in PinTasks : s # Loop => call'[s] = "none"
      BY <2>4, <2>5 DEF PinInv, Idle
    <2>8. ~overlapped' => \A s \in PinTasks :
              /\ call'[s] \in {"on", "delayed on"} => lastCall'
              /\ call'[s] \in {"off", "delayed off"} => ~lastCall'
      BY <2>2, <2>3, <2>4, <2>5, <2>7
    <2>9. QED
      BY <2>4, <2>5, <2>6, <2>7, <2>8 DEF PinInv
  <1>4. CASE DelayEnds
    <2>1. Loop \in PinTasks /\ call[Loop] # "none"
      BY <1>4, OutPinAssumption DEF DelayEnds
    <2>2. level' <=> call[Loop] \in {"on", "delayed on"}
      BY <1>4 DEF DelayEnds
    <2>3. level' \in BOOLEAN /\ armed' \in BOOLEAN
      BY <1>0, <1>4 DEF DelayEnds, PinTypeOK
    <2>4. QED
      BY <1>4, <2>1, <2>2, <2>3, CallEnds DEF DelayEnds
  <1>5. CASE IsOn
    <2>1. overlapped
      BY <1>5 DEF IsOn, Corrects, PinInv
    <2>2. PinTypeOK' /\ overlapped'
      BY <1>0, <1>5, <2>1 DEF IsOn, PinTypeOK
    <2>3. QED
      BY <2>2 DEF PinInv
  <1>6. CASE PinStart
    BY <1>6 DEF PinStart, PinInv, PinTypeOK, Calls, Idle
  <1>7. CASE UNCHANGED pinVars
    BY <1>7 DEF pinVars, PinInv, PinTypeOK, Idle
  <1>8. QED
    BY <1>1, <1>2, <1>3, <1>4, <1>5, <1>6, <1>7 DEF PinNext

\* For any number of tasks: between calls that do not overlap the relay and
\* the software are where the last call wanted them, with the delayed callback
\* and isOn() at any moment.
THEOREM RelayFollows == PinSpec => []PinFollows
  <1>1. PinInv => PinFollows
    BY DEF PinInv, PinFollows
  <1>2. QED
    BY <1>1, InitPin, StepPin, PTL DEF PinSpec

-----------------------------------------------------------------------------
(* The FTP server *)

\* For any wrap and any durations: the first password closes what was opened
\* without one.
THEOREM OpenedByAdmin == FtpSpec => []FtpOpenedByAdmin
  <1>1. FtpInit => FtpOpenedByAdmin
    BY DEF FtpInit, FtpOpenedByAdmin
  <1>2. FtpOpenedByAdmin /\ [FtpNext]_ftpVars => FtpOpenedByAdmin'
    <2> SUFFICES ASSUME FtpOpenedByAdmin, [FtpNext]_ftpVars
                 PROVE  FtpOpenedByAdmin'
      OBVIOUS
    <2> USE DEF FtpOpenedByAdmin
    <2>1. CASE \E d \in Durations : FtpEnable(d)
      BY <2>1 DEF FtpEnable
    <2>2. CASE SetFirstPassword \/ FtpDisable
      BY <2>2 DEF SetFirstPassword, FtpDisable, Closed
    <2>3. CASE Expire \/ FtpRestart
      BY <2>3 DEF Expire, FtpRestart
    <2>4. CASE FtpEnableEnds \/ ExpireEnds \/ ClockTick \/ UNCHANGED ftpVars
      BY <2>4 DEF FtpEnableEnds, ExpireEnds, ClockTick, ftpVars
    <2>5. QED
      BY <2>1, <2>2, <2>3, <2>4 DEF FtpNext
  <1>3. QED
    BY <1>1, <1>2, PTL DEF FtpSpec

\* While a stop time is set, the time FTP has been open and the time left never
\* exceed what was asked for; a stop time computed past the wrap lies behind.
StopTimeInv ==
    /\ FtpTypeOK
    /\ enabling > 0 => openFor = 0 /\ asked = enabling
    /\ ftpActive /\ ftpStop > 0 /\ enabling = 0 =>
          /\ openFor <= asked
          /\ clock <= ftpStop => openFor + (ftpStop - clock) <= asked

LEMMA Modulo ==
    ASSUME NEW x \in Nat
    PROVE  x % Wrap \in 0..Wrap - 1 /\ x % Wrap <= x
  BY FtpAssumption, SMT

LEMMA FtpTypes ==
    ASSUME FtpTypeOK
    PROVE  /\ {clock, ftpStop, enabling, asked, openFor} \subseteq Nat
           /\ 0 \in 0..Wrap - 1
  BY FtpAssumption DEF FtpTypeOK

LEMMA StepStopTime == StopTimeInv /\ [FtpNext]_ftpVars => StopTimeInv'
  <1> SUFFICES ASSUME StopTimeInv, [FtpNext]_ftpVars PROVE StopTimeInv'
    OBVIOUS
  <1> USE DEF StopTimeInv, FtpTypeOK
  <1>1. CASE \E d \in Durations : FtpEnable(d)
    BY <1>1, FtpAssumption DEF FtpEnable
  <1>2. CASE FtpEnableEnds
    <2>1. /\ ftpStop' = (clock + enabling) % Wrap
          /\ UNCHANGED <<ftpActive, clock, expiring, openFor, asked, password,
                         asAdmin>>
          /\ stopLost' \in BOOLEAN
          /\ enabling' = 0 /\ openFor = 0 /\ asked = enabling
      BY <1>2 DEF FtpEnableEnds
    <2>2. clock + enabling \in Nat
      BY FtpTypes
    <2>3. ftpStop' \in 0..Wrap - 1 /\ ftpStop' <= clock + enabling
      BY <2>1, <2>2, Modulo
    <2>4. ftpStop' - clock <= asked
      BY <2>1, <2>3, FtpTypes
    <2>5. QED
      BY <2>1, <2>3, <2>4, FtpTypes
  <1>3. CASE FtpDisable \/ SetFirstPassword
    BY <1>3, FtpTypes DEF FtpDisable, SetFirstPassword, Closed
  <1>4. CASE Expire \/ ExpireEnds
    <2>1. CASE Expire
      BY <2>1 DEF Expire
    <2>2. CASE ExpireEnds
      <3>1. FtpTypeOK'
        BY <2>2, FtpTypes DEF ExpireEnds
      <3>2. enabling' > 0 => openFor' = 0 /\ asked' = enabling'
        BY <2>2 DEF ExpireEnds
      <3>3. ~(ftpStop' > 0)
        BY <2>2 DEF ExpireEnds
      <3>4. QED
        BY <3>1, <3>2, <3>3
    <2>3. QED
      BY <1>4, <2>1, <2>2
  <1>5. CASE ClockTick
    <2>1. /\ enabling = 0 /\ clock' = (clock + 1) % Wrap
          /\ openFor' = IF ftpActive /\ openFor <= asked THEN openFor + 1
                                                         ELSE openFor
          /\ UNCHANGED <<ftpActive, ftpStop, enabling, expiring, asked,
                         password, asAdmin, stopLost>>
      BY <1>5 DEF ClockTick
    <2>2. clock' \in 0..Wrap - 1
      BY <2>1, Modulo, FtpTypes
    <2>3. ASSUME ftpActive, ftpStop > 0
          PROVE  clock' = clock + 1 /\ clock < ftpStop
      <3>1. clock < ftpStop
        BY <1>5, <2>3, FtpTypes DEF ClockTick, Due
      <3>2. clock + 1 \in 0..Wrap - 1
        BY <3>1, FtpTypes, FtpAssumption
      <3>3. (clock + 1) % Wrap = clock + 1
        BY <3>2, FtpAssumption, SMT
      <3>4. QED
        BY <2>1, <3>1, <3>3
    <2>4. FtpTypeOK'
      BY <2>1, <2>2, FtpTypes
    <2>5. ASSUME ftpActive, ftpStop > 0
          PROVE  openFor' <= asked /\ openFor' + (ftpStop - clock') <= asked
      BY <2>1, <2>3, <2>5, FtpTypes
    <2>6. QED
      BY <2>1, <2>4, <2>5
  <1>6. CASE FtpRestart
    BY <1>6, FtpTypes DEF FtpRestart
  <1>7. CASE UNCHANGED ftpVars
    BY <1>7 DEF ftpVars
  <1>8. QED
    BY <1>1, <1>2, <1>3, <1>4, <1>5, <1>6, <1>7 DEF FtpNext

LEMMA StopTimeAlways == FtpSpec => []StopTimeInv
  <1>1. FtpInit => StopTimeInv
    <2>1. 0 \in 0..Wrap - 1
      BY FtpAssumption
    <2> SUFFICES ASSUME FtpInit PROVE StopTimeInv
      OBVIOUS
    <2>2. FtpTypeOK
      BY <2>1 DEF FtpInit, FtpTypeOK
    <2>3. ~(enabling > 0) /\ ~ftpActive
      BY DEF FtpInit
    <2>4. QED
      BY <2>2, <2>3 DEF StopTimeInv
  <1>2. QED
    BY <1>1, StepStopTime, PTL DEF FtpSpec

\* FTP is open without a stop time only if that was lost.
StopKept == ftpActive /\ enabling = 0 => ftpStop > 0 \/ stopLost

LEMMA StepStopKept == FtpTypeOK /\ StopKept /\ [FtpNext]_ftpVars /\ FtpTypeOK'
                         => StopKept'
  <1> SUFFICES ASSUME FtpTypeOK, StopKept, [FtpNext]_ftpVars, FtpTypeOK'
               PROVE  StopKept'
    OBVIOUS
  <1> USE DEF StopKept
  <1>1. CASE \E d \in Durations : FtpEnable(d)
    BY <1>1, FtpAssumption DEF FtpEnable
  <1>2. CASE FtpEnableEnds
    <2>1. ftpStop' \in Nat
      BY FtpAssumption DEF FtpTypeOK
    <2>2. stopLost' = (ftpStop' = 0)
      BY <1>2 DEF FtpEnableEnds
    <2>3. CASE ftpStop' = 0
      BY <2>2, <2>3
    <2>4. CASE ftpStop' # 0
      BY <2>1, <2>4
    <2>5. QED
      BY <2>3, <2>4
  <1>3. CASE FtpDisable \/ SetFirstPassword \/ Expire \/ FtpRestart
    BY <1>3 DEF FtpDisable, SetFirstPassword, Closed, Expire, FtpRestart
  <1>4. CASE ExpireEnds
    BY <1>4 DEF ExpireEnds
  <1>5. CASE ClockTick \/ UNCHANGED ftpVars
    BY <1>5 DEF ClockTick, ftpVars
  <1>6. QED
    BY <1>1, <1>2, <1>3, <1>4, <1>5 DEF FtpNext

\* For any wrap of millis() and any durations, longer than the wrap too: FTP
\* is open for longer than was last asked for only after one of the two orders
\* that lose its stop time, which the code has and which leave it open.
THEOREM FtpAlwaysBounded == FtpSpec => []FtpBounded
  <1>1. FtpInit => StopKept
    BY DEF FtpInit, StopKept
  <1>2. StopTimeInv => FtpTypeOK
    BY DEF StopTimeInv
  <1>3. StopTimeInv /\ StopKept => FtpBounded
    BY DEF StopTimeInv, StopKept, FtpBounded
  <1>4. QED
    BY <1>1, <1>2, <1>3, StopTimeAlways, StepStopKept, PTL DEF FtpSpec

-----------------------------------------------------------------------------
(* The components together *)

\* A behaviour of the composition is one of every component: whichever of them
\* moves, the others take steps that leave all of their variables alone.  What
\* is proved of a component therefore holds in the composition.
THEOREM EachComponentFollowed ==
    UpkeepSpec => /\ FirmwareSpec /\ FtpSpec /\ LogSpec /\ HistorySpec
                  /\ PinSpec
  <1>1. UpkeepInit =>
            FirmwareInit /\ FtpInit /\ LogInit /\ HistoryInit /\ PinInit
    BY DEF UpkeepInit
  <1>2. [UpkeepNext]_upkeepVars =>
            /\ [FirmwareNext]_firmwareVars /\ [FtpNext]_ftpVars
            /\ [LogNext]_logVars /\ [HistoryNext]_historyVars
            /\ [PinNext]_pinVars
    <2> SUFFICES ASSUME [UpkeepNext]_upkeepVars
                 PROVE  /\ FirmwareNext \/ UNCHANGED firmwareVars
                        /\ FtpNext \/ UNCHANGED ftpVars
                        /\ LogNext \/ UNCHANGED logVars
                        /\ HistoryNext \/ UNCHANGED historyVars
                        /\ PinNext \/ UNCHANGED pinVars
      OBVIOUS
    <2>1. CASE UpkeepNext
      BY <2>1 DEF UpkeepNext, Only
    <2>2. CASE UNCHANGED upkeepVars
      BY <2>2 DEF upkeepVars
    <2>3. QED
      BY <2>1, <2>2
  <1>3. QED
    BY <1>1, <1>2, PTL DEF UpkeepSpec, FirmwareSpec, FtpSpec, LogSpec,
       HistorySpec, PinSpec

\* Firmware, FTP timer, log, history and relay keep their types together.
THEOREM UpkeepTypes == UpkeepSpec => []UpkeepTypeOK
  <1>1. RotationInv => LogTypeOK
    BY DEF RotationInv
  <1>2. StopTimeInv => FtpTypeOK
    BY DEF StopTimeInv
  <1>3. PinInv => PinTypeOK
    BY DEF PinInv
  <1>4. FirmwareTypeOK /\ FtpTypeOK /\ LogTypeOK /\ HistoryTypeOK /\ PinTypeOK
            => UpkeepTypeOK
    BY DEF UpkeepTypeOK
  <1>5. PinSpec => []PinInv
    BY InitPin, StepPin, PTL DEF PinSpec
  <1>6. QED
    BY <1>1, <1>2, <1>3, <1>4, <1>5, EachComponentFollowed, FirmwareTypes,
       StopTimeAlways, RotationInvAlways, HistoryTypeCorrect, PTL

=============================================================================
