------------------------------ MODULE Firmware ------------------------------
(***************************************************************************)
(* Firmware updates: the upload to the card, in pieces that those of       *)
(* another client may come between; the backup and the flashing of an      *)
(* apply, the flashing of a revert, and the delayed reboot; with the card  *)
(* or the flash failing, and the power going, at each step.                *)
(***************************************************************************)
EXTENDS Naturals, Sequences

CONSTANTS
    Versions,       \* firmware versions
    Shipped,        \* the one the controller came with
    Clients,        \* clients that may upload at once
    Parts,          \* pieces of an image
    MaxFailures     \* bound on the failures of the card and the flash

ASSUME FirmwareAssumption ==
    /\ Shipped \in Versions
    /\ Parts \in Nat \ {0, 1} /\ MaxFailures \in Nat

VARIABLES
    slot,       \* the contents of the two application partitions
    running,    \* the partition that runs
    boot,       \* the partition to boot
    new,        \* /firmware.new: its pieces, or Absent
    bak,        \* /firmware.bak
    work,       \* what the request that applies or reverts is doing
    upload,     \* the version each client sends, and the pieces sent
    handle,     \* whether _otaFile is open
    rebooting,  \* whether the delayed reboot is pending
    failures,
    ran         \* a history variable: the versions that have run here

firmwareVars == <<slot, running, boot, new, bak, work, upload, handle,
                  rebooting, failures, ran>>

Slots == {1, 2}
Piece == Versions \X (1..Parts)
Image(v) == [i \in 1..Parts |-> <<v, i>>]
Whole(content) == \E v \in Versions : content = Image(v)
Absent == << <<Shipped, 0>> >>     \* no piece has this number
Exists(content) == content # Absent

FirmwareTypeOK ==
    /\ slot \in [Slots -> Seq(Piece)]
    /\ running \in Slots /\ boot \in Slots
    /\ new \in Seq(Piece) \cup {Absent}
    /\ bak \in Seq(Piece) \cup {Absent}
    /\ work \in [step : {"idle", "backup", "open", "flash"},
                 of : {"apply", "revert"}]
    /\ upload \in [Clients -> [version : Versions, sent : 0..Parts - 1]]
    /\ handle \in BOOLEAN /\ rebooting \in BOOLEAN
    /\ failures \in 0..MaxFailures
    /\ ran \subseteq Versions

WrongTarget == 3 - boot

\* Update writes the partition that does not run.
Target == 3 - running

Fails == failures < MaxFailures /\ failures' = failures + 1
Works == UNCHANGED failures

NoWork == work.step = "idle"
Start(step, of) == work' = [step |-> step, of |-> of]
Done == work' = [work EXCEPT !.step = "idle"]

-----------------------------------------------------------------------------
(* The upload, whose handlers take turns with those of the other requests *)

\* The last piece ends the upload.
Sent(c) ==
    upload' = [upload EXCEPT ![c].sent = IF @ + 1 < Parts THEN @ + 1 ELSE 0]

\* The first piece truncates the file, whoever else is writing it; a failure
\* leaves it as it was, removed, or truncated.
UploadStarts(c, v) ==
    /\ NoWork
    /\ upload' = [upload EXCEPT ![c] = [version |-> v, sent |-> 1]]
    /\ \/ new' = << <<v, 1>> >> /\ handle' = TRUE /\ Works
       \/ new' \in {new, <<>>, Absent} /\ handle' = FALSE /\ Fails
    /\ UNCHANGED <<slot, running, boot, bak, work, rebooting, ran>>

\* A later piece goes to the shared file if that is open; the last one of any
\* client closes it, a write that fails removes it if that works.
UploadContinues(c) ==
    /\ NoWork
    /\ upload[c].sent > 0
    /\ Sent(c)
    /\ IF handle
       THEN \/ /\ new' = Append(new, <<upload[c].version, upload[c].sent + 1>>)
               /\ handle' = (upload[c].sent + 1 < Parts)
               /\ Works
            \/ new' \in {new, Absent} /\ handle' = FALSE /\ Fails
       ELSE UNCHANGED <<new, handle>> /\ Works
    /\ UNCHANGED <<slot, running, boot, bak, work, rebooting, ran>>

-----------------------------------------------------------------------------
(* POST /apply and POST /revert *)

WrongApplyStep == IF Exists(bak) THEN "open" ELSE "backup"

ApplyStep == "backup"

\* The backup file is opened, which truncates it; an apply goes on without a
\* backup if that fails.
Apply ==
    /\ NoWork /\ Exists(new)
    /\ \/ Start(ApplyStep, "apply") /\ Works
          /\ bak' = IF ApplyStep = "backup" THEN <<>> ELSE bak
       \/ Start("open", "apply") /\ UNCHANGED bak /\ Fails
    /\ UNCHANGED <<slot, running, boot, new, upload, handle, rebooting, ran>>

WrongCopied == slot[boot]

Copied == slot[running]

\* backupFirmwareToSD(): the running image is copied piece by piece; the
\* result is ignored.
Backup ==
    /\ work.step = "backup"
    /\ \/ /\ Len(bak) < Len(Copied)
          /\ bak' = Append(bak, Copied[Len(bak) + 1])
          /\ UNCHANGED work /\ Works
       \/ /\ Len(bak) = Len(Copied)
          /\ Start("open", work.of) /\ UNCHANGED bak /\ Works
       \/ /\ bak' \in {bak, Absent}
          /\ Start("open", work.of) /\ Fails
    /\ UNCHANGED <<slot, running, boot, new, upload, handle, rebooting, ran>>

Revert ==
    /\ NoWork /\ Exists(bak)
    /\ Start("open", "revert")
    /\ UNCHANGED <<slot, running, boot, new, bak, upload, handle, rebooting,
                   failures, ran>>

Source == IF work.of = "apply" THEN new ELSE bak

\* revertFirmwareFromSD() begins: a file that cannot be opened or is too small
\* ends the request, else the target is erased.
FlashBegins ==
    /\ work.step = "open"
    /\ \/ /\ Source \notin {Absent, <<>>} /\ Works
          /\ Start("flash", work.of)
          /\ slot' = [slot EXCEPT ![Target] = <<>>]
       \/ /\ Source \in {Absent, <<>>} /\ Works
          /\ Done /\ UNCHANGED slot
       \/ Fails /\ Done /\ UNCHANGED slot
    /\ UNCHANGED <<running, boot, new, bak, upload, handle, rebooting, ran>>

FlashWrites ==
    /\ work.step = "flash" /\ Len(slot[Target]) < Len(Source)
    /\ \/ /\ slot' = [slot EXCEPT ![Target] =
                          Append(@, Source[Len(@) + 1])]
          /\ UNCHANGED work /\ Works
       \/ Done /\ UNCHANGED slot /\ Fails
    /\ UNCHANGED <<running, boot, new, bak, upload, handle, rebooting, ran>>

\* Update.end() has the bootloader verify the image.
Accepted == Whole(slot[Target])

\* Only then is it booted, the uploaded file removed and the reboot scheduled.
FlashEnds ==
    /\ work.step = "flash" /\ Len(slot[Target]) = Len(Source)
    /\ Done
    /\ IF Accepted
       THEN /\ boot' = Target
            /\ rebooting' = TRUE
            /\ new' \in {new, IF work.of = "apply" THEN Absent ELSE new}
       ELSE UNCHANGED <<boot, rebooting, new>>
    /\ UNCHANGED <<slot, running, bak, upload, handle, failures, ran>>

-----------------------------------------------------------------------------
NoUpload == [c \in Clients |-> [version |-> Shipped, sent |-> 0]]

\* The delayed reboot or a power loss: the bootloader falls back to the other
\* partition when the one to boot is not whole.
PowerCycle ==
    /\ running' = IF Whole(slot[boot]) THEN boot ELSE 3 - boot
    /\ Done
    /\ upload' = NoUpload
    /\ handle' = FALSE /\ rebooting' = FALSE
    /\ ran' = ran \cup {v \in Versions : slot[running'] = Image(v)}
    /\ UNCHANGED <<slot, boot, new, bak, failures>>

FirmwareInit ==
    /\ slot = [s \in Slots |-> IF s = 1 THEN Image(Shipped) ELSE <<>>]
    /\ running = 1 /\ boot = 1
    /\ new = Absent /\ bak = Absent
    /\ work = [step |-> "idle", of |-> "apply"]
    /\ upload = NoUpload
    /\ handle = FALSE /\ rebooting = FALSE
    /\ failures = 0
    /\ ran = {Shipped}

FirmwareStep == Backup \/ FlashBegins \/ FlashWrites \/ FlashEnds

FirmwareNext ==
    \/ \E c \in Clients, v \in Versions : UploadStarts(c, v)
    \/ \E c \in Clients : UploadContinues(c)
    \/ Apply \/ Revert \/ FirmwareStep \/ PowerCycle

FirmwareSpec == FirmwareInit /\ [][FirmwareNext]_firmwareVars

-----------------------------------------------------------------------------
(* Properties *)

\* Whatever fails and whenever the power goes, the partition that runs is
\* whole, so the controller starts again.
NeverBricked == Whole(slot[running])

\* Unless something failed, an apply overwrites the other partition only when
\* the running firmware is on the card.
BackedUpFirst ==
    work.of = "apply" /\ work.step = "flash" /\ failures = 0 =>
        bak = slot[running]

\* A revert installs only firmware that has run on this controller, never an
\* update that was flashed and not booted, whichever applies and power losses
\* came between the backup and the revert.
RevertedHasRun ==
    [][FlashEnds /\ Accepted /\ work.of = "revert" =>
          \E v \in ran : slot[Target] = Image(v)]_firmwareVars

=============================================================================
