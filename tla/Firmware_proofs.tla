--------------------------- MODULE Firmware_proofs ---------------------------
(***************************************************************************)
(* Theorems about Firmware, for all versions and clients, images of any    *)
(* number of pieces and any number of failures.                            *)
(***************************************************************************)
EXTENDS Firmware, SequenceTheorems, TLAPS

\* One file is so far a copy of the beginning of another.
Copies(copy, whole) ==
    /\ Len(copy) <= Len(whole)
    /\ \A i \in 1..Len(copy) : copy[i] = whole[i]

\* A file still open has not got its last piece.
HandleInv ==
    handle => new \in Seq(Piece) /\ \A i \in 1..Len(new) : new[i][2] # Parts

BackupInv ==
    /\ work.step = "backup" =>
          bak \in Seq(Piece) /\ Copies(bak, slot[running])
    /\ work.step \in {"open", "flash"} /\ work.of = "apply" /\ failures = 0 =>
          bak = slot[running]

FlashInv ==
    work.step = "flash" => Source \in Seq(Piece) /\ Copies(slot[Target], Source)

\* What runs has run, and the backup is so far a copy of something that has.
RanInv ==
    /\ \E v \in ran : slot[running] = Image(v)
    /\ bak \in Seq(Piece) => \E v \in ran : Copies(bak, Image(v))

FirmwareInv ==
    /\ FirmwareTypeOK /\ HandleInv /\ BackupInv /\ FlashInv /\ NeverBricked
    /\ RanInv

-----------------------------------------------------------------------------
(* Pieces, images and copies *)

LEMMA Numbers == Parts \in Nat /\ Parts >= 2 /\ MaxFailures \in Nat
  BY FirmwareAssumption

LEMMA OtherSlot ==
    ASSUME FirmwareTypeOK
    PROVE  /\ Target \in Slots /\ Target # running
           /\ boot = running \/ boot = Target
  BY DEF FirmwareTypeOK, Slots, Target

LEMMA ImageIsSeq ==
    ASSUME NEW v \in Versions
    PROVE  Image(v) \in Seq(Piece) /\ Len(Image(v)) = Parts
  <1>1. \A i \in 1..Parts : <<v, i>> \in Piece
    BY DEF Piece
  <1>2. Image(v) \in [1..Parts -> Piece]
    BY <1>1 DEF Image
  <1>3. Image(v) \in Seq(Piece)
    BY <1>2, SeqDef, Numbers
  <1>4. DOMAIN Image(v) = 1..Parts /\ DOMAIN Image(v) = 1..Len(Image(v))
    BY <1>2, <1>3, LenProperties
  <1>5. Len(Image(v)) \in Nat
    BY <1>3, LenProperties
  <1>6. QED
    BY <1>3, <1>4, <1>5, Numbers

LEMMA AbsentIsNoFile == Absent \notin Seq(Piece)
  <1>1. SUFFICES ASSUME Absent \in Seq(Piece) PROVE FALSE
    OBVIOUS
  <1>2. Absent[1] \in Piece
    BY <1>1, ElementOfSeq, Len(Absent) = 1 DEF Absent
  <1>3. QED
    BY <1>2 DEF Absent, Piece

\* Copying one more piece gives a longer copy.
LEMMA CopyGrows ==
    ASSUME NEW copy \in Seq(Piece), NEW whole \in Seq(Piece),
           Copies(copy, whole), Len(copy) < Len(whole)
    PROVE  /\ Append(copy, whole[Len(copy) + 1]) \in Seq(Piece)
           /\ Copies(Append(copy, whole[Len(copy) + 1]), whole)
  <1> DEFINE piece == whole[Len(copy) + 1]
             longer == Append(copy, piece)
  <1>1. Len(copy) \in Nat /\ Len(whole) \in Nat
    BY LenProperties
  <1>2. piece \in Piece
    BY <1>1, ElementOfSeq
  <1>3. /\ longer \in Seq(Piece)
        /\ Len(longer) = Len(copy) + 1
        /\ \A i \in 1..Len(copy) + 1 :
              longer[i] = IF i <= Len(copy) THEN copy[i] ELSE piece
    BY <1>1, <1>2, AppendProperties
  <1>4. ASSUME NEW i \in 1..Len(copy) + 1
        PROVE  longer[i] = whole[i]
    <2>1. CASE i <= Len(copy)
      BY <1>1, <1>3, <2>1 DEF Copies
    <2>2. CASE i = Len(copy) + 1
      BY <1>1, <1>3, <2>2
    <2>3. QED
      BY <1>1, <2>1, <2>2
  <1>5. QED
    BY <1>1, <1>3, <1>4 DEF Copies

LEMMA WholeCopy ==
    ASSUME NEW copy \in Seq(Piece), NEW whole \in Seq(Piece),
           Copies(copy, whole), Len(copy) = Len(whole)
    PROVE  copy = whole
  BY SeqEqual DEF Copies

\* An image that is whole ends with its last piece, so its file is closed.
LEMMA WholeIsClosed ==
    ASSUME FirmwareTypeOK, HandleInv, NEW file, file = new, Whole(file)
    PROVE  ~handle
  <1>1. PICK v \in Versions : file = Image(v)
    BY DEF Whole
  <1>2. file \in Seq(Piece) /\ Len(file) = Parts
    BY <1>1, ImageIsSeq
  <1>3. file[Parts] = <<v, Parts>>
    BY <1>1, Numbers DEF Image
  <1>4. SUFFICES ASSUME handle PROVE FALSE
    OBVIOUS
  <1>5. file[Parts][2] # Parts
    BY <1>2, <1>4, Numbers DEF HandleInv
  <1>6. QED
    BY <1>3, <1>5

-----------------------------------------------------------------------------
(* The steps *)

LEMMA InitFirmware == FirmwareInit => FirmwareInv
  <1> SUFFICES ASSUME FirmwareInit PROVE FirmwareInv
    OBVIOUS
  <1> USE FirmwareAssumption
  <1>1. slot \in [Slots -> Seq(Piece)] /\ slot[1] = Image(Shipped)
    BY ImageIsSeq, EmptySeq DEF FirmwareInit, Slots
  <1>2. upload \in [Clients -> [version : Versions, sent : 0..Parts - 1]]
    BY DEF FirmwareInit, NoUpload
  <1>3. work.step = "idle"
        /\ work \in [step : {"idle", "backup", "open", "flash"},
                     of : {"apply", "revert"}]
    BY DEF FirmwareInit
  <1>4. FirmwareTypeOK
    <2>1. running \in Slots /\ boot \in Slots
      BY DEF FirmwareInit, Slots
    <2>2. failures \in 0..MaxFailures
      BY Numbers DEF FirmwareInit
    <2>3. new = Absent /\ bak = Absent
      BY DEF FirmwareInit
    <2>4. handle \in BOOLEAN /\ rebooting \in BOOLEAN
      BY DEF FirmwareInit
    <2>5. ran \subseteq Versions
      BY DEF FirmwareInit
    <2>6. QED
      BY <1>1, <1>2, <1>3, <2>1, <2>2, <2>3, <2>4, <2>5 DEF FirmwareTypeOK
  <1>5. NeverBricked
    BY <1>1 DEF FirmwareInit, NeverBricked, Whole
  <1>6. HandleInv /\ BackupInv /\ FlashInv
    BY <1>3 DEF FirmwareInit, HandleInv, BackupInv, FlashInv
  <1>7. RanInv
    BY <1>1, AbsentIsNoFile DEF FirmwareInit, RanInv
  <1>8. QED
    BY <1>4, <1>5, <1>6, <1>7 DEF FirmwareInv

LEMMA WorkType ==
    ASSUME FirmwareTypeOK
    PROVE  /\ work.step \in {"idle", "backup", "open", "flash"}
           /\ work.of \in {"apply", "revert"}
  BY DEF FirmwareTypeOK

\* A step that touches neither what runs nor the backup keeps RanInv.
LEMMA RanKept ==
    ASSUME RanInv, slot'[running] = slot[running],
           UNCHANGED <<running, bak, ran>>
    PROVE  RanInv'
  BY DEF RanInv, Copies, Image

\* The failures counted stay within their bound.
LEMMA FailureType ==
    ASSUME FirmwareTypeOK, Fails \/ Works
    PROVE  failures' \in 0..MaxFailures
  BY Numbers DEF FirmwareTypeOK, Fails, Works

LEMMA StepUpload ==
    ASSUME FirmwareInv,
           \/ \E c \in Clients, v \in Versions : UploadStarts(c, v)
           \/ \E c \in Clients : UploadContinues(c)
    PROVE  FirmwareInv'
  <1>0. /\ FirmwareTypeOK /\ HandleInv /\ BackupInv /\ FlashInv /\ NeverBricked
        /\ RanInv
    BY DEF FirmwareInv
  <1>1. /\ NoWork /\ UNCHANGED <<slot, running, boot, bak, work, rebooting, ran>>
        /\ failures' \in 0..MaxFailures
    BY <1>0, FailureType DEF UploadStarts, UploadContinues
  <1>2. /\ upload' \in [Clients -> [version : Versions, sent : 0..Parts - 1]]
        /\ handle' \in BOOLEAN
        /\ new' \in Seq(Piece) \cup {Absent}
        /\ handle' =>
              new' \in Seq(Piece) /\ \A i \in 1..Len(new') : new'[i][2] # Parts
    <2>1. CASE \E c \in Clients, v \in Versions : UploadStarts(c, v)
      <3>1. PICK c \in Clients, v \in Versions : UploadStarts(c, v)
        BY <2>1
      <3>2. upload' \in [Clients -> [version : Versions, sent : 0..Parts - 1]]
        BY <1>0, <3>1, Numbers DEF UploadStarts, FirmwareTypeOK
      <3>3. << <<v, 1>> >> \in Seq(Piece)
        BY Numbers DEF Piece
      <3>4. \A i \in 1..Len(<< <<v, 1>> >>) : << <<v, 1>> >>[i][2] # Parts
        BY Numbers
      <3>5. CASE new' = << <<v, 1>> >> /\ handle' = TRUE
        BY <3>2, <3>3, <3>4, <3>5
      <3>6. CASE new' \in {new, <<>>, Absent} /\ handle' = FALSE
        BY <1>0, <3>2, <3>6, EmptySeq DEF FirmwareTypeOK
      <3>7. QED
        BY <3>1, <3>5, <3>6 DEF UploadStarts
    <2>2. CASE \E c \in Clients : UploadContinues(c)
      <3>1. PICK c \in Clients : UploadContinues(c)
        BY <2>2
      <3> DEFINE piece == <<upload[c].version, upload[c].sent + 1>>
      <3>2. /\ upload[c] \in [version : Versions, sent : 0..Parts - 1]
            /\ upload[c].sent > 0
        BY <1>0, <3>1 DEF UploadContinues, FirmwareTypeOK
      <3>3. upload' \in [Clients -> [version : Versions, sent : 0..Parts - 1]]
        <4>1. (IF upload[c].sent + 1 < Parts THEN upload[c].sent + 1 ELSE 0)
                  \in 0..Parts - 1
          BY <3>2, Numbers
        <4>2. QED
          BY <1>0, <3>1, <3>2, <4>1 DEF UploadContinues, Sent, FirmwareTypeOK
      <3>4. piece \in Piece
        BY <3>2, Numbers DEF Piece
      <3>5. CASE /\ handle
                 /\ new' = Append(new, piece)
                 /\ handle' = (upload[c].sent + 1 < Parts)
        <4>1. new \in Seq(Piece) /\ Len(new) \in Nat
          BY <1>0, <3>5, LenProperties DEF HandleInv
        <4>2. /\ new' \in Seq(Piece)
              /\ Len(new') = Len(new) + 1
              /\ \A i \in 1..Len(new) + 1 :
                    new'[i] = IF i <= Len(new) THEN new[i] ELSE piece
          BY <3>4, <3>5, <4>1, AppendProperties
        <4>3. ASSUME handle', NEW i \in 1..Len(new')
              PROVE  new'[i][2] # Parts
          <5>1. CASE i <= Len(new)
            BY <1>0, <3>5, <4>1, <4>2, <5>1 DEF HandleInv
          <5>2. CASE i = Len(new) + 1
            <6>1. new'[i] = piece
              BY <4>1, <4>2, <5>2
            <6>2. upload[c].sent + 1 < Parts
              BY <3>5, <4>3
            <6>3. QED
              BY <3>2, <6>1, <6>2, Numbers
          <5>3. QED
            BY <4>1, <4>2, <5>1, <5>2
        <4>4. handle' \in BOOLEAN
          BY <3>2, <3>5
        <4>5. handle' => \A i \in 1..Len(new') : new'[i][2] # Parts
          BY <4>3
        <4>6. new' \in Seq(Piece)
          BY <4>2
        <4> HIDE DEF piece
        <4>7. QED
          BY <3>3, <4>4, <4>5, <4>6
      <3>6. CASE new' \in {new, Absent} /\ handle' = FALSE
        BY <1>0, <3>3, <3>6 DEF FirmwareTypeOK
      <3>7. CASE ~handle /\ UNCHANGED <<new, handle>>
        BY <1>0, <3>3, <3>7 DEF FirmwareTypeOK
      <3>8. QED
        BY <3>1, <3>5, <3>6, <3>7 DEF UploadContinues
    <2>3. QED
      BY <2>1, <2>2
  <1>3. FirmwareTypeOK'
    BY <1>0, <1>1, <1>2 DEF FirmwareTypeOK
  <1>4. HandleInv'
    BY <1>2 DEF HandleInv
  <1>5. BackupInv' /\ FlashInv'
    BY <1>1 DEF NoWork, BackupInv, FlashInv
  <1>6. NeverBricked'
    BY <1>0, <1>1 DEF NeverBricked, Whole
  <1>7. RanInv'
    BY <1>0, <1>1, RanKept
  <1>8. QED
    BY <1>3, <1>4, <1>5, <1>6, <1>7 DEF FirmwareInv

LEMMA StepRequest == FirmwareInv /\ (Apply \/ Revert) => FirmwareInv'
  <1> SUFFICES ASSUME FirmwareInv, Apply \/ Revert PROVE FirmwareInv'
    OBVIOUS
  <1>0. /\ FirmwareTypeOK /\ HandleInv /\ BackupInv /\ FlashInv /\ NeverBricked
        /\ RanInv
    BY DEF FirmwareInv
  <1>1. UNCHANGED <<slot, running, boot, new, upload, handle, rebooting, ran>>
    BY DEF Apply, Revert
  <1>2. /\ work' \in [step : {"idle", "backup", "open", "flash"},
                      of : {"apply", "revert"}]
        /\ bak' \in Seq(Piece) \cup {Absent}
        /\ failures' \in 0..MaxFailures
        /\ BackupInv' /\ work'.step # "flash"
    <2>1. CASE Apply
      <3>1. CASE work' = [step |-> "backup", of |-> "apply"] /\ Works /\ bak' = <<>>
        <4>1. <<>> \in Seq(Piece) /\ Len(<<>>) = 0 /\ Len(slot[running]) \in Nat
          BY <1>0, EmptySeq, LenProperties DEF FirmwareTypeOK
        <4>2. Copies(<<>>, slot[running])
          BY <4>1 DEF Copies
        <4>3. work'.step = "backup"
          BY <3>1
        <4>4. BackupInv'
          BY <1>1, <3>1, <4>1, <4>2, <4>3 DEF BackupInv, Copies
        <4>5. QED
          BY <1>0, <3>1, <4>1, <4>3, <4>4, FailureType
      <3>2. CASE work' = [step |-> "open", of |-> "apply"] /\ UNCHANGED bak /\ Fails
        <4>1. failures' # 0
          BY <1>0, <3>2 DEF Fails, FirmwareTypeOK
        <4>2. work'.step = "open"
          BY <3>2
        <4>3. BackupInv'
          BY <4>1, <4>2 DEF BackupInv
        <4>4. QED
          BY <1>0, <3>2, <4>2, <4>3, FailureType DEF FirmwareTypeOK
      <3>3. QED
        BY <2>1, <3>1, <3>2 DEF Apply, ApplyStep, Start
    <2>2. CASE Revert
      <3>1. work' = [step |-> "open", of |-> "revert"] /\ UNCHANGED <<bak, failures>>
        BY <2>2 DEF Revert, Start
      <3>2. work'.step = "open" /\ work'.of = "revert"
        BY <3>1
      <3>3. QED
        BY <1>0, <3>1, <3>2 DEF BackupInv, FirmwareTypeOK
    <2>3. QED
      BY <2>1, <2>2
  <1>3. FirmwareTypeOK'
    BY <1>0, <1>1, <1>2 DEF FirmwareTypeOK
  <1>4. HandleInv' /\ NeverBricked' /\ FlashInv'
    BY <1>0, <1>1, <1>2 DEF HandleInv, NeverBricked, Whole, FlashInv
  <1>5. RanInv'
    <2>1. CASE UNCHANGED bak
      BY <1>0, <1>1, <2>1, RanKept
    <2>2. CASE bak' = <<>>
      <3>1. PICK v \in ran : slot[running] = Image(v)
        BY <1>0 DEF RanInv
      <3>2. Copies(<<>>, Image(v))
        BY <1>0, <3>1, ImageIsSeq, EmptySeq, LenProperties
           DEF Copies, FirmwareTypeOK
      <3>3. QED
        BY <1>1, <2>2, <3>1, <3>2 DEF RanInv, Copies, Image
    <2>3. QED
      BY <2>1, <2>2 DEF Apply, Revert, ApplyStep
  <1>6. QED
    BY <1>2, <1>3, <1>4, <1>5 DEF FirmwareInv

\* What the steps of a request do to the work.
LEMMA Steps ==
    ASSUME FirmwareTypeOK
    PROVE  /\ \A step \in {"idle", "backup", "open", "flash"} :
                 Start(step, work.of) =>
                     /\ work' \in [step : {"idle", "backup", "open", "flash"},
                                   of : {"apply", "revert"}]
                     /\ work'.step = step /\ work'.of = work.of
           /\ Done =>
                 /\ work' \in [step : {"idle", "backup", "open", "flash"},
                               of : {"apply", "revert"}]
                 /\ work'.step = "idle" /\ work'.of = work.of
  BY DEF FirmwareTypeOK, Start, Done

LEMMA StepBackup == FirmwareInv /\ Backup => FirmwareInv'
  <1> SUFFICES ASSUME FirmwareInv, Backup PROVE FirmwareInv'
    OBVIOUS
  <1>0. /\ FirmwareTypeOK /\ HandleInv /\ BackupInv /\ FlashInv /\ NeverBricked
        /\ RanInv
    BY DEF FirmwareInv
  <1>1. /\ work.step = "backup"
        /\ UNCHANGED <<slot, running, boot, new, upload, handle, rebooting, ran>>
        /\ failures' \in 0..MaxFailures
    BY <1>0, FailureType DEF Backup
  <1>2. /\ bak \in Seq(Piece) /\ slot[running] \in Seq(Piece)
        /\ Copies(bak, slot[running])
    BY <1>0, <1>1 DEF BackupInv, FirmwareTypeOK
  <1>3. /\ work' \in [step : {"idle", "backup", "open", "flash"},
                      of : {"apply", "revert"}]
        /\ bak' \in Seq(Piece) \cup {Absent}
        /\ BackupInv' /\ work'.step # "flash"
    <2>1. CASE /\ Len(bak) < Len(slot[running])
               /\ bak' = Append(bak, slot[running][Len(bak) + 1])
               /\ UNCHANGED work
      <3>1. bak' \in Seq(Piece) /\ Copies(bak', slot[running])
        BY <1>2, <2>1, CopyGrows
      <3>2. BackupInv'
        BY <1>1, <2>1, <3>1 DEF BackupInv, Copies
      <3>3. QED
        BY <1>0, <1>1, <2>1, <3>1, <3>2 DEF FirmwareTypeOK
    <2>2. CASE /\ Len(bak) = Len(slot[running])
               /\ Start("open", work.of) /\ UNCHANGED bak
      <3>1. bak = slot[running]
        BY <1>2, <2>2, WholeCopy
      <3>2. work'.step = "open"
        BY <1>0, <2>2, Steps
      <3>3. BackupInv'
        BY <1>1, <2>2, <3>1, <3>2 DEF BackupInv
      <3>4. QED
        BY <1>0, <1>2, <2>2, <3>2, <3>3, Steps
    <2>3. CASE bak' \in {bak, Absent} /\ Start("open", work.of) /\ Fails
      <3>1. failures' # 0
        BY <1>0, <2>3 DEF Fails, FirmwareTypeOK
      <3>2. work'.step = "open"
        BY <1>0, <2>3, Steps
      <3>3. BackupInv'
        BY <3>1, <3>2 DEF BackupInv
      <3>4. QED
        BY <1>0, <1>2, <2>3, <3>2, <3>3, Steps
    <2>4. QED
      BY <2>1, <2>2, <2>3 DEF Backup, Copied
  <1>4. FirmwareTypeOK'
    BY <1>0, <1>1, <1>3 DEF FirmwareTypeOK
  <1>5. HandleInv' /\ NeverBricked' /\ FlashInv'
    BY <1>0, <1>1, <1>3 DEF HandleInv, NeverBricked, Whole, FlashInv
  <1>6. RanInv'
    <2>1. PICK v \in ran : slot[running] = Image(v)
      BY <1>0 DEF RanInv
    <2>2. CASE bak' \in {bak, Absent}
      <3>1. CASE bak' = bak
        BY <1>0, <1>1, <3>1, RanKept
      <3>2. CASE bak' = Absent
        BY <1>1, <2>1, <3>2, AbsentIsNoFile DEF RanInv, Image, Absent
      <3>3. QED
        BY <2>2, <3>1, <3>2
    <2>3. CASE /\ Len(bak) < Len(slot[running])
               /\ bak' = Append(bak, slot[running][Len(bak) + 1])
      <3>1. Copies(bak', slot[running])
        BY <1>2, <2>3, CopyGrows
      <3>2. QED
        BY <1>1, <2>1, <3>1 DEF RanInv, Copies, Image
    <2>4. QED
      BY <2>2, <2>3 DEF Backup, Copied
  <1>7. QED
    BY <1>3, <1>4, <1>5, <1>6 DEF FirmwareInv

\* Erasing and writing touch only the partition that does not run.
LEMMA StepFlashBegins == FirmwareInv /\ FlashBegins => FirmwareInv'
  <1> SUFFICES ASSUME FirmwareInv, FlashBegins PROVE FirmwareInv'
    OBVIOUS
  <1>0. /\ FirmwareTypeOK /\ HandleInv /\ BackupInv /\ FlashInv /\ NeverBricked
        /\ RanInv
    BY DEF FirmwareInv
  <1>1. /\ work.step = "open"
        /\ UNCHANGED <<running, boot, new, bak, upload, handle, rebooting, ran>>
        /\ failures' \in 0..MaxFailures
        /\ failures' = 0 => failures = 0
    BY <1>0, FailureType DEF FlashBegins, Fails, Works, FirmwareTypeOK
  <1>2. /\ slot' \in [Slots -> Seq(Piece)] /\ slot'[running] = slot[running]
        /\ work' \in [step : {"idle", "backup", "open", "flash"},
                      of : {"apply", "revert"}]
        /\ work'.of = work.of
        /\ \/ work'.step = "idle"
           \/ /\ work'.step = "flash" /\ Source \in Seq(Piece)
              /\ slot'[Target] = <<>>
    <2>1. CASE /\ Source \notin {Absent, <<>>} /\ Start("flash", work.of)
               /\ slot' = [slot EXCEPT ![Target] = <<>>]
      <3>1. Source \in Seq(Piece)
        BY <1>0, <2>1 DEF Source, FirmwareTypeOK
      <3>2. slot' \in [Slots -> Seq(Piece)] /\ slot'[Target] = <<>>
            /\ slot'[running] = slot[running]
        BY <1>0, <2>1, OtherSlot, EmptySeq DEF FirmwareTypeOK
      <3>3. QED
        BY <1>0, <2>1, <3>1, <3>2, Steps
    <2>2. CASE Done /\ UNCHANGED slot
      BY <1>0, <2>2, Steps DEF FirmwareTypeOK
    <2>3. QED
      BY <2>1, <2>2 DEF FlashBegins
  <1>3. FirmwareTypeOK'
    BY <1>0, <1>1, <1>2 DEF FirmwareTypeOK
  <1>4. HandleInv' /\ NeverBricked'
    BY <1>0, <1>1, <1>2 DEF HandleInv, NeverBricked, Whole
  <1>5. BackupInv'
    BY <1>0, <1>1, <1>2 DEF BackupInv
  <1>6. FlashInv'
    <2>1. Source' = Source /\ Target' = Target
      BY <1>1, <1>2 DEF Source, Target
    <2>2. \A s \in Seq(Piece) : Copies(<<>>, s)
      BY EmptySeq, LenProperties DEF Copies
    <2>3. QED
      BY <1>2, <2>1, <2>2 DEF FlashInv
  <1>7. RanInv'
    BY <1>0, <1>1, <1>2, RanKept
  <1>8. QED
    BY <1>3, <1>4, <1>5, <1>6, <1>7 DEF FirmwareInv

LEMMA StepFlashWrites == FirmwareInv /\ FlashWrites => FirmwareInv'
  <1> SUFFICES ASSUME FirmwareInv, FlashWrites PROVE FirmwareInv'
    OBVIOUS
  <1>0. /\ FirmwareTypeOK /\ HandleInv /\ BackupInv /\ FlashInv /\ NeverBricked
        /\ RanInv
    BY DEF FirmwareInv
  <1>1. /\ work.step = "flash" /\ Len(slot[Target]) < Len(Source)
        /\ UNCHANGED <<running, boot, new, bak, upload, handle, rebooting, ran>>
        /\ failures' \in 0..MaxFailures
        /\ failures' = 0 => failures = 0
    BY <1>0, FailureType DEF FlashWrites, Fails, Works, FirmwareTypeOK
  <1>2. /\ slot[Target] \in Seq(Piece) /\ Source \in Seq(Piece)
        /\ Copies(slot[Target], Source)
    BY <1>0, <1>1, OtherSlot DEF FlashInv, FirmwareTypeOK
  <1>3. /\ slot' \in [Slots -> Seq(Piece)] /\ slot'[running] = slot[running]
        /\ work' \in [step : {"idle", "backup", "open", "flash"},
                      of : {"apply", "revert"}]
        /\ work'.of = work.of
        /\ \/ work'.step = "idle"
           \/ work'.step = "flash" /\ Copies(slot'[Target], Source)
    <2>1. CASE /\ slot' = [slot EXCEPT ![Target] =
                               Append(@, Source[Len(@) + 1])]
               /\ UNCHANGED work
      <3> DEFINE longer == Append(slot[Target], Source[Len(slot[Target]) + 1])
      <3>1. longer \in Seq(Piece) /\ Copies(longer, Source)
        BY <1>1, <1>2, CopyGrows
      <3>2. slot' = [slot EXCEPT ![Target] = longer]
        BY <2>1
      <3> HIDE DEF longer
      <3>3. slot' \in [Slots -> Seq(Piece)] /\ slot'[Target] = longer
            /\ slot'[running] = slot[running]
        BY <1>0, <3>1, <3>2, OtherSlot DEF FirmwareTypeOK
      <3>4. QED
        BY <1>0, <1>1, <2>1, <3>1, <3>3 DEF FirmwareTypeOK
    <2>2. CASE Done /\ UNCHANGED slot
      <3>1. slot' \in [Slots -> Seq(Piece)] /\ slot'[running] = slot[running]
        BY <1>0, <2>2 DEF FirmwareTypeOK
      <3>2. QED
        BY <1>0, <2>2, <3>1, Steps
    <2>3. QED
      BY <2>1, <2>2 DEF FlashWrites
  <1>4. FirmwareTypeOK'
    BY <1>0, <1>1, <1>3 DEF FirmwareTypeOK
  <1>5. HandleInv' /\ NeverBricked'
    BY <1>0, <1>1, <1>3 DEF HandleInv, NeverBricked, Whole
  <1>6. BackupInv'
    BY <1>0, <1>1, <1>3 DEF BackupInv
  <1>7. FlashInv'
    <2>1. Source' = Source /\ Target' = Target
      BY <1>1, <1>3 DEF Source, Target
    <2>2. QED
      BY <1>2, <1>3, <2>1 DEF FlashInv, Copies
  <1>8. RanInv'
    BY <1>0, <1>1, <1>3, RanKept
  <1>9. QED
    BY <1>4, <1>5, <1>6, <1>7, <1>8 DEF FirmwareInv

LEMMA StepFlashEnds == FirmwareInv /\ FlashEnds => FirmwareInv'
  <1> SUFFICES ASSUME FirmwareInv, FlashEnds PROVE FirmwareInv'
    OBVIOUS
  <1>0. /\ FirmwareTypeOK /\ HandleInv /\ BackupInv /\ FlashInv /\ NeverBricked
        /\ RanInv
    BY DEF FirmwareInv
  <1>1. /\ work.step = "flash" /\ Len(slot[Target]) = Len(Source) /\ Done
        /\ UNCHANGED <<slot, running, bak, upload, handle, failures, ran>>
    BY DEF FlashEnds
  <1>2. /\ work'.step = "idle"
        /\ work' \in [step : {"idle", "backup", "open", "flash"},
                      of : {"apply", "revert"}]
    BY <1>0, <1>1, Steps
  <1>3. /\ boot' \in Slots /\ rebooting' \in BOOLEAN
        /\ new' \in Seq(Piece) \cup {Absent}
    BY <1>0, OtherSlot DEF FlashEnds, FirmwareTypeOK
  <1>4. FirmwareTypeOK'
    BY <1>0, <1>1, <1>2, <1>3 DEF FirmwareTypeOK
  <1>5. new' = new \/ ~handle
    <2>1. CASE Accepted /\ work.of = "apply"
      <3>1. slot[Target] = new
        BY <1>0, <1>1, <2>1, WholeCopy, OtherSlot
           DEF FlashInv, Source, FirmwareTypeOK
      <3>2. QED
        BY <1>0, <2>1, <3>1, WholeIsClosed DEF Accepted
    <2>2. CASE ~(Accepted /\ work.of = "apply")
      BY <2>2 DEF FlashEnds
    <2>3. QED
      BY <2>1, <2>2
  <1>6. HandleInv'
    BY <1>0, <1>1, <1>5 DEF HandleInv
  <1>7. BackupInv' /\ FlashInv' /\ NeverBricked'
    BY <1>0, <1>1, <1>2 DEF BackupInv, FlashInv, NeverBricked, Whole
  <1>8. RanInv'
    BY <1>0, <1>1, RanKept
  <1>9. QED
    BY <1>4, <1>6, <1>7, <1>8 DEF FirmwareInv

LEMMA StepPowerCycle == FirmwareInv /\ PowerCycle => FirmwareInv'
  <1> SUFFICES ASSUME FirmwareInv, PowerCycle PROVE FirmwareInv'
    OBVIOUS
  <1>0. /\ FirmwareTypeOK /\ HandleInv /\ BackupInv /\ FlashInv /\ NeverBricked
        /\ RanInv
    BY DEF FirmwareInv
  <1>1. /\ UNCHANGED <<slot, boot, new, bak, failures>>
        /\ ~handle' /\ handle' \in BOOLEAN /\ rebooting' \in BOOLEAN
    BY DEF PowerCycle
  <1>2. running' \in Slots
    BY <1>0, OtherSlot DEF PowerCycle, Target, Slots, FirmwareTypeOK
  <1>3. upload' \in [Clients -> [version : Versions, sent : 0..Parts - 1]]
    BY FirmwareAssumption DEF PowerCycle, NoUpload
  <1>4. /\ work'.step = "idle"
        /\ work' \in [step : {"idle", "backup", "open", "flash"},
                      of : {"apply", "revert"}]
    BY <1>0, Steps DEF PowerCycle
  <1>5. ran \subseteq ran' /\ ran' \subseteq Versions
    BY <1>0 DEF PowerCycle, FirmwareTypeOK
  <1>6. FirmwareTypeOK'
    BY <1>0, <1>1, <1>2, <1>3, <1>4, <1>5 DEF FirmwareTypeOK
  <1>7. NeverBricked'
    <2>1. CASE Whole(slot[boot])
      BY <1>1, <2>1 DEF PowerCycle, NeverBricked, Whole
    <2>2. CASE ~Whole(slot[boot])
      <3>1. boot # running
        BY <1>0, <2>2 DEF NeverBricked
      <3>2. running' = running
        BY <1>0, <2>2, <3>1, OtherSlot
           DEF PowerCycle, Target, Slots, FirmwareTypeOK
      <3>3. QED
        BY <1>0, <1>1, <3>2 DEF NeverBricked, Whole
    <2>3. QED
      BY <2>1, <2>2
  <1>8. HandleInv' /\ BackupInv' /\ FlashInv'
    BY <1>1, <1>4 DEF HandleInv, BackupInv, FlashInv
  <1>9. RanInv'
    <2>1. PICK v \in Versions : slot[running'] = Image(v)
      BY <1>1, <1>7 DEF NeverBricked, Whole, Image
    <2>2. v \in ran' /\ slot'[running'] = Image(v)
      BY <1>1, <2>1 DEF PowerCycle
    <2>3. QED
      BY <1>0, <1>1, <1>5, <2>2 DEF RanInv, Copies, Image
  <1>10. QED
    BY <1>6, <1>7, <1>8, <1>9 DEF FirmwareInv

-----------------------------------------------------------------------------
(* The theorems *)

LEMMA StepFirmware == FirmwareInv /\ [FirmwareNext]_firmwareVars => FirmwareInv'
  <1>1. FirmwareInv /\ FirmwareNext => FirmwareInv'
    BY StepUpload, StepRequest, StepBackup, StepFlashBegins, StepFlashWrites,
       StepFlashEnds, StepPowerCycle DEF FirmwareNext, FirmwareStep
  <1>2. FirmwareInv /\ UNCHANGED firmwareVars => FirmwareInv'
    <2> SUFFICES ASSUME FirmwareInv, UNCHANGED firmwareVars PROVE FirmwareInv'
      OBVIOUS
    <2> USE DEF firmwareVars
    <2>1. FirmwareTypeOK'
      BY DEF FirmwareInv, FirmwareTypeOK
    <2>2. HandleInv' /\ NeverBricked'
      BY DEF FirmwareInv, HandleInv, NeverBricked, Whole
    <2>3. BackupInv'
      BY DEF FirmwareInv, BackupInv, Copies
    <2>4. FlashInv'
      BY DEF FirmwareInv, FlashInv, Copies, Source, Target
    <2>5. RanInv'
      BY RanKept DEF FirmwareInv
    <2>6. QED
      BY <2>1, <2>2, <2>3, <2>4, <2>5 DEF FirmwareInv
  <1>3. QED
    BY <1>1, <1>2

LEMMA FirmwareInvAlways == FirmwareSpec => []FirmwareInv
  BY InitFirmware, StepFirmware, PTL DEF FirmwareSpec

\* The variables keep their types: no request fails on a file that another
\* client's upload or the power has left in some other state.
THEOREM FirmwareTypes == FirmwareSpec => []FirmwareTypeOK
  <1>1. FirmwareInv => FirmwareTypeOK
    BY DEF FirmwareInv
  <1>2. QED
    BY <1>1, FirmwareInvAlways, PTL

\* However many clients upload, whatever fails and whenever the power goes,
\* the partition that runs holds one whole image.
THEOREM AlwaysStarts == FirmwareSpec => []NeverBricked
  <1>1. FirmwareInv => NeverBricked
    BY DEF FirmwareInv
  <1>2. QED
    BY <1>1, FirmwareInvAlways, PTL

\* Unless something failed, an apply erases and writes a partition only when
\* the running firmware is on the card, piece by piece.
THEOREM AlwaysBackedUp == FirmwareSpec => []BackedUpFirst
  <1>1. FirmwareInv => BackedUpFirst
    BY DEF FirmwareInv, BackupInv, BackedUpFirst
  <1>2. QED
    BY <1>1, FirmwareInvAlways, PTL

\* A revert installs only what has run on this controller: the backup is a copy
\* of an image that ran, of all of it when the image check accepts the copy.
THEOREM OnlyWhatRanIsRestored == FirmwareSpec => RevertedHasRun
  <1>1. FirmwareInv /\ [FirmwareNext]_firmwareVars =>
            [FlashEnds /\ Accepted /\ work.of = "revert" =>
                \E v \in ran : slot[Target] = Image(v)]_firmwareVars
    <2> SUFFICES ASSUME FirmwareInv, FlashEnds, Accepted, work.of = "revert"
                 PROVE  \E v \in ran : slot[Target] = Image(v)
      OBVIOUS
    <2>0. FirmwareTypeOK /\ FlashInv /\ RanInv
      BY DEF FirmwareInv
    <2>1. slot[Target] = bak /\ bak \in Seq(Piece)
      BY <2>0, WholeCopy, OtherSlot DEF FlashEnds, FlashInv, Source, FirmwareTypeOK
    <2>2. PICK w \in Versions : bak = Image(w)
      BY <2>1 DEF Accepted, Whole
    <2>3. PICK v \in ran : Copies(bak, Image(v))
      BY <2>0, <2>1 DEF RanInv
    <2>4. Len(bak) = Len(Image(v)) /\ Image(v) \in Seq(Piece)
      BY <2>0, <2>2, <2>3, ImageIsSeq DEF FirmwareTypeOK
    <2>5. bak = Image(v)
      BY <2>1, <2>3, <2>4, WholeCopy
    <2>6. QED
      BY <2>1, <2>3, <2>5
  <1>2. QED
    BY <1>1, FirmwareInvAlways, PTL DEF FirmwareSpec, RevertedHasRun

=============================================================================
