------------------------------- MODULE BootOta -------------------------------
(***************************************************************************)
(* The two-bank firmware update of the GD32VW55x SDK: the main boot loader *)
(* (MBL) chooses, validates and starts one of two images, and the running  *)
(* image downloads a new one into the other bank and flips the persistent  *)
(* image flags.  Every persistent write is a step of its own and a reset   *)
(* (power loss, watchdog, reboot command) may come between any two.        *)
(***************************************************************************)
EXTENDS Naturals

CONSTANTS
    Versions,      \* the firmware versions that can be downloaded
    VerifyImages,  \* TRUE: the ROM hands over IBL_VERIFY_IMG_ONLY or _CERT_IMG
    StatusFaults   \* TRUE: reads and writes of the system status area may fail

ASSUME VersionsAssumption == Versions \subseteq Nat /\ Versions # {}
ASSUME VerifyImagesAssumption == VerifyImages \in BOOLEAN
ASSUME StatusFaultsAssumption == StatusFaults \in BOOLEAN

VARIABLES
    flag,    \* SYS_IMAGE0_STATUS and SYS_IMAGE1_STATUS (persistent)
    bank,    \* contents of the two image banks (persistent)
    fwVer,   \* main image version counter (persistent)
    runImg,  \* SYS_RUNNING_IMG (persistent)
    mode,    \* what the processor is doing
    sel,     \* boot_idx while in MBL, running_idx while in an update
    exec,    \* the bank the processor executes from once MBL has jumped
    err,     \* res of the flag writes of an update
    hurt     \* history: what an update did to the bank it was running from

vars == <<flag, bank, fwVer, runImg, mode, sel, exec, err, hurt>>
persistent == <<flag, bank, fwVer, runImg>>

Img == {0, 1}
Other(i) == 1 - i

Results == {"none", "ok", "fail"}
FlagRec == [found : BOOLEAN, newer : BOOLEAN, verify : Results, ia : Results]
NoFlag  == [found |-> FALSE, newer |-> FALSE, verify |-> "none", ia |-> "none"]

Contents  == {"partial", "bad", "good"}
BankRec   == [st : Contents, ver : Nat]
Partial   == [st |-> "partial", ver |-> 0]

MblModes == {"reset", "validate", "markOk", "setRunning", "failed"}
AppModes == {"app", "fetchHttp", "fetchBle", "oldHttp", "clearHttp",
             "newerHttp", "oldBle", "switchBle"}

\* "overrun": a BLE download into bank 0 ran on into bank 1; "wrongBank": an
\* update took the running bank for the other one.
Damage == {"none", "overrun", "wrongBank"}

-----------------------------------------------------------------------------
(* The ROM's system status area: a tagged store of small items.            *)

\* rom_sys_set_img_flag creates the item when it is not there yet.
SetNewer(i, b)  == [flag EXCEPT ![i].found = TRUE, ![i].newer = b]
SetVerify(i, r) == [flag EXCEPT ![i].found = TRUE, ![i].verify = r]

\* One call of rom_sys_set_img_flag: it stores the new flags, or, when the
\* status area cannot be written, returns an error and leaves them alone.
WriteFlags(new) ==
    \/ flag' = new /\ err' = err
    \/ StatusFaults /\ flag' = flag /\ err' = TRUE

-----------------------------------------------------------------------------
(* MBL                                                                     *)

NewerUsable(f, i) ==
    f[i].found /\ f[i].newer /\ f[i].verify # "fail" /\ f[i].ia # "fail"
ProvenUsable(f, i) ==
    f[i].found /\ f[i].verify = "ok" /\ f[i].ia = "ok"

NoImage == 2

\* The choice boot_image_find makes from the two image status words; NoImage
\* stands for its results -4 and -5.
ImgSelected(f) ==
    CASE ~f[0].found /\ f[1].found  -> NoImage
      [] ~f[0].found /\ ~f[1].found -> 0
      [] f[0].found /\ NewerUsable(f, 0)  -> 0
      [] f[0].found /\ ~NewerUsable(f, 0) /\ NewerUsable(f, 1) -> 1
      [] f[0].found /\ ~NewerUsable(f, 0) /\ ~NewerUsable(f, 1)
           /\ ProvenUsable(f, 0) -> 0
      [] f[0].found /\ ~NewerUsable(f, 0) /\ ~NewerUsable(f, 1)
           /\ ~ProvenUsable(f, 0) /\ ProvenUsable(f, 1) -> 1
      [] OTHER -> NoImage

\* Mutant: the results -4 and -5 are not noticed.
BootImageFindUnchecked ==
    /\ mode = "reset"
    /\ mode' = "validate"
    /\ sel' = ImgSelected(flag)
    /\ UNCHANGED <<persistent, exec, err, hurt>>

\* A freshly programmed device has no image status: the first boot writes one.
BootImageFind ==
    /\ mode = "reset"
    /\ IF ~flag[0].found /\ ~flag[1].found
         THEN WriteFlags(SetNewer(0, TRUE))
         ELSE UNCHANGED <<flag, err>>
    /\ IF ImgSelected(flag) = NoImage
         THEN mode' = "failed" /\ sel' = sel
         ELSE mode' = "validate" /\ sel' = ImgSelected(flag)
    /\ UNCHANGED <<bank, fwVer, runImg, exec, hurt>>

\* Results -2 and -3: an image status word cannot be read.
BootStatusUnreadable ==
    /\ StatusFaults
    /\ mode = "reset"
    /\ mode' = "failed"
    /\ UNCHANGED <<persistent, sel, exec, err, hurt>>

\* Mutant: the rollback check is forgotten.
AcceptedAnyVersion(b, v) == ~VerifyImages \/ b.st = "good"

\* What image_x_validate accepts: anything when validation is switched off,
\* otherwise an authentic image that is not older than the version counter.
Accepted(b, v) == ~VerifyImages \/ (b.st = "good" /\ b.ver >= v)

\* Mutant: the version counter is not advanced.
ImageValidUncounted ==
    /\ mode = "validate"
    /\ Accepted(bank[sel], fwVer)
    /\ mode' = "markOk"
    /\ UNCHANGED <<persistent, sel, exec, err, hurt>>

\* image_x_validate succeeds; it advances the version counter on the way.
ImageValid ==
    /\ mode = "validate"
    /\ Accepted(bank[sel], fwVer)
    /\ fwVer' = IF VerifyImages THEN bank[sel].ver ELSE fwVer
    /\ mode' = "markOk"
    /\ UNCHANGED <<flag, bank, runImg, sel, exec, err, hurt>>

\* Mutant: a failed image is not marked.
ImageInvalidUnmarked ==
    /\ mode = "validate"
    /\ ~Accepted(bank[sel], fwVer)
    /\ mode' = "failed"
    /\ UNCHANGED <<persistent, sel, exec, err, hurt>>

\* image_x_validate fails, also when the version counter of a good image
\* cannot be written: the image is marked and MBL spins until a reset.
ImageInvalid ==
    /\ mode = "validate"
    /\ ~Accepted(bank[sel], fwVer) \/ (StatusFaults /\ VerifyImages)
    /\ WriteFlags(SetVerify(sel, "fail"))
    /\ mode' = "failed"
    /\ UNCHANGED <<bank, fwVer, runImg, sel, exec, hurt>>

MarkVerifyOk ==
    /\ mode = "markOk"
    /\ WriteFlags(SetVerify(sel, "ok"))
    /\ mode' = "setRunning"
    /\ UNCHANGED <<bank, fwVer, runImg, sel, exec, hurt>>

\* Mutant: the running image is not recorded.
JumpUnrecorded ==
    /\ mode = "setRunning"
    /\ exec' = sel
    /\ err' = FALSE
    /\ mode' = "app"
    /\ hurt' = IF bank[sel].st = "good" THEN "none" ELSE hurt
    /\ UNCHANGED <<persistent, sel>>

\* rom_sys_set_running_img, whose result MBL ignores, and the jump.
SetRunningAndJump ==
    /\ mode = "setRunning"
    /\ \/ runImg' = sel
       \/ StatusFaults /\ runImg' = runImg
    /\ exec' = sel
    /\ err' = FALSE
    /\ mode' = "app"
    /\ hurt' = IF bank[sel].st = "good" THEN "none" ELSE hurt
    /\ UNCHANGED <<flag, bank, fwVer, sel>>

MblStep ==
    \/ BootImageFind
    \/ BootStatusUnreadable
    \/ ImageValid
    \/ ImageInvalid
    \/ MarkVerifyOk
    \/ SetRunningAndJump

-----------------------------------------------------------------------------
(* Updates made by the running image                                       *)

\* Mutants: IMG_IA_OK is not set; IMG_FLAG_NEWER is left set.
OldFlagsNoIa(i) == [flag EXCEPT ![i].found = TRUE, ![i].newer = FALSE]
OldFlagsStillNewer(i) == [flag EXCEPT ![i].found = TRUE, ![i].ia = "ok"]

\* The flags IMG_IA_OK | IMG_FLAG_OLDER for image i.
OldFlags(i) ==
    [flag EXCEPT ![i].found = TRUE, ![i].newer = FALSE, ![i].ia = "ok"]

\* SYS_RUNNING_IMG as an update reads it.  When it cannot be read, the HTTP
\* task gives up; the BLE server goes on with its cleared working_bank.
RunningIdx(m) == {runImg} \cup {i \in {0} : StatusFaults /\ m = "fetchBle"}

\* Mutant: the running image is marked before the download, not after it.
FetchStartMarksFirst(m) ==
    /\ mode = "app"
    /\ mode' = m
    /\ sel' = runImg
    /\ err' = FALSE
    /\ flag' = OldFlags(runImg)
    /\ bank' = [bank EXCEPT ![Other(runImg)] = Partial]
    /\ UNCHANGED <<fwVer, runImg, exec, hurt>>

\* ota_demo_task (HTTP) and app_dfu_srv_control_cb (BLE) read SYS_RUNNING_IMG
\* and erase the first sectors of the other bank; no check keeps a wrong
\* SYS_RUNNING_IMG from naming the bank the code runs from.
FetchStart(m) ==
    /\ mode = "app"
    /\ mode' = m
    /\ err' = FALSE
    /\ \E r \in RunningIdx(m) :
         /\ sel' = r
         /\ bank' = [bank EXCEPT ![Other(r)] = Partial]
         /\ hurt' = IF Other(r) = exec THEN "wrongBank" ELSE hurt
    /\ UNCHANGED <<flag, fwVer, runImg, exec>>

\* app_dfu_srv_data_cb writes at cur_offset, which a timeout leaves standing,
\* and erases a sector ahead of it; neither the announced size nor the offset
\* is compared with total_bank_size.  Bank 0 ends where bank 1 begins, so a
\* download into bank 0 can erase and program bank 1.  (http_rsp_image checks
\* the length; what follows bank 1 is user data, see DfuSession.)
DfuOverrun ==
    /\ mode = "fetchBle"
    /\ Other(sel) = 0
    /\ bank' = [bank EXCEPT ![1] = Partial]
    /\ hurt' = IF exec = 1 THEN "overrun" ELSE hurt
    /\ UNCHANGED <<flag, fwVer, runImg, mode, sel, exec, err>>

\* A socket error, a timeout or a disconnection ends the download, over BLE
\* also after the last byte (hash mismatch, no reboot command): nothing is
\* cleaned up.
FetchFail ==
    /\ mode \in {"fetchHttp", "fetchBle", "oldBle"}
    /\ mode' = "app"
    /\ UNCHANGED <<persistent, sel, exec, err, hurt>>

\* The last byte is written.  The download does not authenticate the image.
FetchDone(st, ver) ==
    /\ mode \in {"fetchHttp", "fetchBle"}
    /\ bank' = [bank EXCEPT ![Other(sel)] = [st |-> st, ver |-> ver]]
    /\ mode' = IF mode = "fetchHttp" THEN "oldHttp" ELSE "oldBle"
    /\ UNCHANGED <<flag, fwVer, runImg, sel, exec, err, hurt>>

\* First write of both update paths: the running image becomes IA_OK | OLDER.
MarkRunningOld ==
    /\ mode \in {"oldHttp", "oldBle"}
    /\ WriteFlags(OldFlags(sel))
    /\ mode' = IF mode = "oldHttp" THEN "clearHttp" ELSE "switchBle"
    /\ UNCHANGED <<bank, fwVer, runImg, sel, exec, hurt>>

\* Second write of ota_demo_task: all flags of the new image are cleared.
ClearNewFlags ==
    /\ mode = "clearHttp"
    /\ WriteFlags([flag EXCEPT ![Other(sel)] = [NoFlag EXCEPT !.found = TRUE]])
    /\ mode' = "newerHttp"
    /\ UNCHANGED <<bank, fwVer, runImg, sel, exec, hurt>>

\* Third write of ota_demo_task; the task then ends and asks for a reboot.
MarkNewNewer ==
    /\ mode = "newerHttp"
    /\ WriteFlags(SetNewer(Other(sel), TRUE))
    /\ mode' = "app"
    /\ UNCHANGED <<bank, fwVer, runImg, sel, exec, hurt>>

\* Second and last write of app_dfu_srv_disconn_cb, which resets the chip
\* when both writes succeeded.
SwitchBle ==
    /\ mode = "switchBle"
    /\ WriteFlags([flag EXCEPT ![Other(sel)] =
                       [NoFlag EXCEPT !.found = TRUE, !.newer = TRUE]])
    /\ mode' = IF err' THEN "app" ELSE "reset"
    /\ UNCHANGED <<bank, fwVer, runImg, sel, exec, hurt>>

\* The code of an update is that of the bank in exec: a bank MBL started
\* although it is corrupt takes none of these steps.  An image whose own bank
\* was damaged under it may crash (Reset) or go on.
UpdateStep ==
    /\ bank[exec].st = "good" \/ hurt # "none"
    /\ \/ \E m \in {"fetchHttp", "fetchBle"} : FetchStart(m)
       \/ DfuOverrun
       \/ FetchFail
       \/ \E st \in {"bad", "good"}, ver \in Versions : FetchDone(st, ver)
       \/ MarkRunningOld
       \/ ClearNewFlags
       \/ MarkNewNewer
       \/ SwitchBle

-----------------------------------------------------------------------------
\* Power loss, watchdog or a commanded reboot at any moment.
Reset ==
    /\ mode # "reset"
    /\ mode' = "reset"
    /\ err' = FALSE
    /\ UNCHANGED <<persistent, sel, exec, hurt>>

\* Bank 0 was programmed in the factory; there is no image status yet.
Init ==
    /\ flag = [i \in Img |-> NoFlag]
    /\ \E v \in Versions :
         bank = [i \in Img |-> IF i = 0 THEN [st |-> "good", ver |-> v]
                                        ELSE Partial]
    /\ fwVer = 0
    /\ runImg = 0
    /\ mode = "reset"
    /\ sel = 0
    /\ exec = 0
    /\ err = FALSE
    /\ hurt = "none"

Next == MblStep \/ UpdateStep \/ Reset

Spec == Init /\ [][Next]_vars

\* A boot step that keeps being reached is not cut short by a reset for ever,
\* and a device stuck in BootFailed is power-cycled at some point.
PowerCycle == mode = "failed" /\ Reset
Fairness ==
    /\ WF_vars(BootImageFind)
    /\ SF_vars(ImageValid)
    /\ SF_vars(ImageInvalid)
    /\ SF_vars(MarkVerifyOk)
    /\ SF_vars(SetRunningAndJump)
    /\ WF_vars(PowerCycle)

FairSpec == Spec /\ Fairness

-----------------------------------------------------------------------------
(* Properties                                                              *)

TypeOK ==
    /\ flag \in [Img -> FlagRec]
    /\ bank \in [Img -> BankRec]
    /\ fwVer \in Nat
    /\ runImg \in Img
    /\ mode \in MblModes \cup AppModes
    /\ sel \in Img
    /\ exec \in Img
    /\ err \in BOOLEAN
    /\ hurt \in Damage

\* A BLE download into bank 0 destroyed the image in bank 1 it was running
\* from, and no authentic image has been started since: nothing is promised.
Overrun == hurt = "overrun"

\* boot_image_find leads to an image that image_x_validate accepts, at once
\* or after the one it prefers has been marked VERIFY_FAIL: in no state, in
\* the middle of a download or of the flag writes, would a reset leave the
\* device without an image to start, unless a BLE download that its bank does
\* not hold destroyed the running image.
Bootable(f) == ImgSelected(f) # NoImage /\ Accepted(bank[ImgSelected(f)], fwVer)
AlwaysBootable ==
    \/ Overrun
    \/ Bootable(flag)
    \/ /\ ImgSelected(flag) # NoImage
       /\ Bootable([flag EXCEPT ![ImgSelected(flag)].found = TRUE,
                                ![ImgSelected(flag)].verify = "fail"])

\* No step of an update erases or writes the bank the processor executes from,
\* from MBL's record in SYS_RUNNING_IMG to the last write, except a BLE
\* download into bank 0 that runs on into the running bank 1.
RunningBankKept ==
    [][bank'[exec] # bank[exec] => Overrun']_vars

\* An image that runs is authentic, and no image that ever ran was newer,
\* unless a BLE download that its bank does not hold destroyed it.
RunningIsCurrent ==
    mode \in AppModes /\ ~Overrun =>
        bank[exec].st = "good" /\ bank[exec].ver = fwVer

\* Whatever was downloaded into the other bank and whenever power was lost,
\* the device comes back to a running image; only a BLE download that its
\* bank does not hold can prevent it.
BackToApp == []<>(mode \in AppModes \/ Overrun)

\* The flags VERIFY_OK | IA_OK of a bank outlive its contents, from the start
\* of a download to the second flag write.  boot_image_find never starts a
\* half-written bank because of them: only a bank marked NEWER, a finished
\* update that is being downloaded again before a reboot, can be started so,
\* or the running bank that a BLE download of another one destroyed.
StaleFlagsHarmless ==
    /\ ImgSelected(flag) # NoImage
    /\ bank[ImgSelected(flag)].st = "partial" =>
         flag[ImgSelected(flag)].newer \/ Overrun

\* MBL jumps only to an authentic image of the version in the counter, and the
\* counter never goes back: no image older than one accepted before is started,
\* whatever status reads and writes fail on the way.
JumpOnlyToAccepted ==
    [][/\ fwVer' >= fwVer
       /\ mode = "setRunning" /\ mode' = "app" =>
            bank[exec'].st = "good" /\ bank[exec'].ver = fwVer]_vars

\* rom_image.h: "Only one image is set to be NEWER at the same time."
OnlyOneNewer == ~(flag[0].newer /\ flag[1].newer)
=============================================================================
