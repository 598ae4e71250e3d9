---------------------------- MODULE BootOtaProofs ----------------------------
(***************************************************************************)
(* Proofs about the boot and update model, for every set of versions.      *)
(***************************************************************************)
EXTENDS BootOta, TLAPS

-----------------------------------------------------------------------------
(* Type correctness, with or without validation and status faults.         *)

\* A freshly programmed device is in a well-typed state.
LEMMA TypeInit == Init => TypeOK
<1> SUFFICES ASSUME Init PROVE TypeOK
  OBVIOUS
<1>1. flag \in [Img -> FlagRec]
  BY DEF Init, NoFlag, FlagRec, Results
<1>2. bank \in [Img -> BankRec]
  <2>1. PICK v \in Versions :
          bank = [i \in Img |-> IF i = 0 THEN [st |-> "good", ver |-> v]
                                         ELSE Partial]
    BY DEF Init
  <2>2. v \in Nat
    BY VersionsAssumption
  <2> QED BY <2>1, <2>2 DEF Partial, BankRec, Contents
<1> QED BY <1>1, <1>2 DEF Init, TypeOK, Img, MblModes, AppModes, Damage

\* boot_image_find returns an image number or fails.
LEMMA SelectedType == ImgSelected(flag) \in Img \cup {NoImage}
  BY DEF ImgSelected, Img, NoImage

\* A flag write, done or failed, leaves well-typed flags.
LEMMA WriteFlagsType ==
  ASSUME TypeOK, NEW new \in [Img -> FlagRec], WriteFlags(new)
  PROVE  flag' \in [Img -> FlagRec] /\ err' \in BOOLEAN
  BY DEF WriteFlags, TypeOK

\* The flags that MBL and the updates write are well typed.
LEMMA FlagUpdateType ==
  ASSUME TypeOK, NEW i \in Img
  PROVE  /\ SetNewer(i, TRUE) \in [Img -> FlagRec]
         /\ \A r \in Results : SetVerify(i, r) \in [Img -> FlagRec]
         /\ Other(i) \in Img
         /\ [flag EXCEPT ![i].found = TRUE, ![i].newer = FALSE,
                         ![i].ia = "ok"] \in [Img -> FlagRec]
         /\ [flag EXCEPT ![i] = [NoFlag EXCEPT !.found = TRUE]]
              \in [Img -> FlagRec]
         /\ [flag EXCEPT ![i] = [NoFlag EXCEPT !.found = TRUE, !.newer = TRUE]]
              \in [Img -> FlagRec]
<1> flag \in [Img -> FlagRec]
  BY DEF TypeOK
<1>1. Other(i) \in Img
  BY DEF Other, Img
<1>2. SetNewer(i, TRUE) \in [Img -> FlagRec]
  BY DEF SetNewer, FlagRec
<1>3. \A r \in Results : SetVerify(i, r) \in [Img -> FlagRec]
  BY DEF SetVerify, FlagRec
<1>4. [flag EXCEPT ![i].found = TRUE, ![i].newer = FALSE, ![i].ia = "ok"]
        \in [Img -> FlagRec]
  BY DEF FlagRec, Results
<1>5. [NoFlag EXCEPT !.found = TRUE] \in FlagRec
  BY DEF NoFlag, FlagRec, Results
<1>6. [NoFlag EXCEPT !.found = TRUE, !.newer = TRUE] \in FlagRec
  BY DEF NoFlag, FlagRec, Results
<1> QED BY <1>1, <1>2, <1>3, <1>4, <1>5, <1>6

\* Every step of MBL and of an update keeps the types.
LEMMA TypeStep == TypeOK /\ [Next]_vars => TypeOK'
<1> SUFFICES ASSUME TypeOK, [Next]_vars PROVE TypeOK'
  OBVIOUS
<1>1. CASE BootImageFind
  <2>1. flag' \in [Img -> FlagRec] /\ err' \in BOOLEAN
    BY <1>1, WriteFlagsType, FlagUpdateType DEF BootImageFind, TypeOK, Img
  <2>2. mode' \in MblModes \cup AppModes /\ sel' \in Img
    BY <1>1, SelectedType DEF BootImageFind, TypeOK, MblModes
  <2> QED BY <1>1, <2>1, <2>2 DEF BootImageFind, TypeOK
<1>2. CASE BootStatusUnreadable
  BY <1>2 DEF BootStatusUnreadable, TypeOK, persistent, MblModes
<1>3. CASE ImageValid
  BY <1>3 DEF ImageValid, TypeOK, MblModes, BankRec
<1>4. CASE ImageInvalid
  <2>1. flag' \in [Img -> FlagRec] /\ err' \in BOOLEAN
    BY <1>4, WriteFlagsType, FlagUpdateType DEF ImageInvalid, TypeOK, Results
  <2> QED BY <1>4, <2>1 DEF ImageInvalid, TypeOK, MblModes
<1>5. CASE MarkVerifyOk
  <2>1. flag' \in [Img -> FlagRec] /\ err' \in BOOLEAN
    BY <1>5, WriteFlagsType, FlagUpdateType DEF MarkVerifyOk, TypeOK, Results
  <2> QED BY <1>5, <2>1 DEF MarkVerifyOk, TypeOK, MblModes
<1>6. CASE SetRunningAndJump
  BY <1>6 DEF SetRunningAndJump, TypeOK, AppModes, Damage
<1>7. CASE \E m \in {"fetchHttp", "fetchBle"} : FetchStart(m)
  <2>1. Partial \in BankRec
    BY DEF Partial, BankRec, Contents
  <2>2. PICK m \in {"fetchHttp", "fetchBle"} : FetchStart(m)
    BY <1>7
  <2>3. PICK r \in RunningIdx(m) :
          /\ sel' = r /\ bank' = [bank EXCEPT ![Other(r)] = Partial]
          /\ hurt' = IF Other(r) = exec THEN "wrongBank" ELSE hurt
    BY <2>2 DEF FetchStart
  <2>4. r \in Img
    BY DEF RunningIdx, TypeOK, Img
  <2> QED BY <2>1, <2>2, <2>3, <2>4 DEF FetchStart, TypeOK, AppModes, Damage
<1>8. CASE FetchFail
  BY <1>8 DEF FetchFail, TypeOK, persistent, AppModes
<1>9. CASE \E st \in {"bad", "good"}, ver \in Versions : FetchDone(st, ver)
  <2>1. PICK st \in {"bad", "good"}, ver \in Versions : FetchDone(st, ver)
    BY <1>9
  <2>2. [st |-> st, ver |-> ver] \in BankRec
    BY VersionsAssumption DEF BankRec, Contents
  <2> QED BY <2>1, <2>2 DEF FetchDone, TypeOK, AppModes
<1>10. CASE MarkRunningOld
  <2>1. flag' \in [Img -> FlagRec] /\ err' \in BOOLEAN
    BY <1>10, WriteFlagsType, FlagUpdateType DEF MarkRunningOld, OldFlags, TypeOK
  <2> QED BY <1>10, <2>1 DEF MarkRunningOld, OldFlags, TypeOK, AppModes
<1>11. CASE ClearNewFlags
  <2>1. flag' \in [Img -> FlagRec] /\ err' \in BOOLEAN
    BY <1>11, WriteFlagsType, FlagUpdateType, Other(sel) \in Img
    DEF ClearNewFlags, TypeOK, Other, Img
  <2> QED BY <1>11, <2>1 DEF ClearNewFlags, TypeOK, AppModes
<1>12. CASE MarkNewNewer
  <2>1. flag' \in [Img -> FlagRec] /\ err' \in BOOLEAN
    BY <1>12, WriteFlagsType, FlagUpdateType DEF MarkNewNewer, TypeOK, Other, Img
  <2> QED BY <1>12, <2>1 DEF MarkNewNewer, TypeOK, AppModes
<1>13. CASE SwitchBle
  <2>1. flag' \in [Img -> FlagRec] /\ err' \in BOOLEAN
    BY <1>13, WriteFlagsType, FlagUpdateType DEF SwitchBle, TypeOK, Other, Img
  <2> QED BY <1>13, <2>1 DEF SwitchBle, TypeOK, AppModes, MblModes
<1>14. CASE Reset
  BY <1>14 DEF Reset, TypeOK, persistent, MblModes
<1>15. CASE DfuOverrun
  <2>1. Partial \in BankRec
    BY DEF Partial, BankRec, Contents
  <2> QED BY <1>15, <2>1 DEF DfuOverrun, TypeOK, AppModes, Damage
<1>16. CASE UNCHANGED vars
  BY <1>16 DEF vars, TypeOK
<1> QED
  BY <1>1, <1>2, <1>3, <1>4, <1>5, <1>6, <1>7, <1>8, <1>9, <1>10, <1>11,
     <1>12, <1>13, <1>14, <1>15, <1>16 DEF Next, MblStep, UpdateStep

(* The variables of MBL and of the updates keep their types.               *)
THEOREM TypeCorrect == Spec => []TypeOK
<1> QED BY TypeInit, TypeStep, PTL DEF Spec

-----------------------------------------------------------------------------
(* A device that validates its images and whose status area works always   *)
(* has an image to start, unless a BLE download overran the running bank.  *)
(* The inductive invariant says which one: the running image while one     *)
(* runs, and between a reset and the jump some authentic image that one of *)
(* the rules of boot_image_find accepts.  After an overrun only the flags  *)
(* are what they should be; the next jump restores the rest, since it goes *)
(* to an image that was validated.                                         *)

Usable(i)  == NewerUsable(flag, i) \/ ProvenUsable(flag, i)
Current(i) == bank[i].st = "good" /\ bank[i].ver >= fwVer

Blank == ~flag[0].found /\ ~flag[1].found

\* Before the first boot bank 0 is started whatever the flags say.
Recoverable ==
    IF Blank THEN mode = "reset" /\ Current(0) /\ flag[0] = NoFlag
             ELSE /\ flag[0].found
                  /\ Overrun \/ \E h \in Img : Current(h) /\ Usable(h)

MblInv ==
    /\ mode = "validate" => sel = ImgSelected(flag)
    /\ mode \in {"markOk", "setRunning"} =>
         bank[sel].st = "good" /\ bank[sel].ver = fwVer /\ Usable(sel)
    /\ mode = "setRunning" => flag[sel].verify = "ok"

AppInv ==
    mode \in AppModes =>
        /\ runImg = exec
        /\ mode # "app" => sel = exec
        /\ ~Overrun => bank[exec].st = "good" /\ bank[exec].ver = fwVer
        /\ Usable(exec) /\ flag[exec].verify = "ok"

BootInv == TypeOK /\ Recoverable /\ MblInv /\ AppInv

\* What boot_image_find picks satisfies the rule it picked it by.
LEMMA SelectedUsable ==
  ASSUME NEW i \in Img, ImgSelected(flag) = i, ~Blank, TypeOK
  PROVE  Usable(i)
  BY DEF ImgSelected, Blank, Usable, NewerUsable, ProvenUsable, Img, NoImage

\* It picks something as soon as one image satisfies one of its rules.
LEMMA UsableSelected ==
  ASSUME TypeOK, flag[0].found, NEW h \in Img, Usable(h)
  PROVE  ImgSelected(flag) \in Img
  BY DEF ImgSelected, Usable, NewerUsable, ProvenUsable, Img, NoImage

\* With a working status area a flag write takes effect.
LEMMA SoundWrite ==
  ASSUME ~StatusFaults, NEW new, WriteFlags(new)
  PROVE  flag' = new /\ err' = err
  BY DEF WriteFlags

\* Before the first boot bank 0 is the image to start.
LEMMA BootInvInit == Init => BootInv
<1> SUFFICES ASSUME Init PROVE BootInv
  OBVIOUS
<1>1. TypeOK
  BY TypeInit
<1>2. PICK v \in Versions :
        bank = [i \in Img |-> IF i = 0 THEN [st |-> "good", ver |-> v]
                                       ELSE Partial]
  BY DEF Init
<1>3. v \in Nat
  BY VersionsAssumption
<1>4. Blank /\ Current(0) /\ flag[0] = NoFlag
  BY <1>2, <1>3 DEF Init, Blank, Current, NoFlag, Img
<1> QED BY <1>1, <1>4 DEF BootInv, Recoverable, MblInv, AppInv, Init, AppModes

\* A step of an update that leaves the flags of the running bank usable, and
\* the bank alone unless it is an overrun.
LEMMA RunningKept ==
  ASSUME BootInv, TypeOK', mode \in AppModes,
         mode' \in AppModes \cup {"reset"},
         mode' \notin {"app", "reset"} => sel' = exec,
         UNCHANGED <<fwVer, runImg, exec>>,
         Overrun' \/ (bank'[exec] = bank[exec] /\ hurt' = hurt),
         flag'[0].found, Usable(exec)', flag'[exec].verify = "ok"
  PROVE  BootInv'
<1>1. runImg = exec /\ exec \in Img
  BY DEF BootInv, AppInv, TypeOK
<1>2. ~Overrun' => /\ bank'[exec].st = "good" /\ bank'[exec].ver = fwVer'
                   /\ Current(exec)'
  BY DEF Current, BootInv, AppInv, TypeOK, Overrun
<1>3. Recoverable'
  BY <1>1, <1>2 DEF Recoverable, Blank
<1>4. MblInv'
  BY DEF MblInv, AppModes
<1> QED BY <1>1, <1>2, <1>3, <1>4 DEF BootInv, AppInv, AppModes

\* Every step keeps an image to start.
LEMMA BootInvStep ==
  ASSUME VerifyImages, ~StatusFaults, BootInv, [Next]_vars
  PROVE  BootInv'
<1> USE DEF BootInv
<1>0. TypeOK'
  BY TypeStep
<1>1. CASE BootImageFind
  <2>1. CASE Blank
    <3>1. flag' = SetNewer(0, TRUE) /\ ImgSelected(flag) = 0
      BY <1>1, <2>1, SoundWrite DEF BootImageFind, Blank, ImgSelected
    <3>2. flag[0] = NoFlag /\ Current(0)
      BY <2>1 DEF Recoverable
    <3>3. flag'[0].found /\ NewerUsable(flag', 0)
      BY <3>1, <3>2 DEF SetNewer, NewerUsable, TypeOK, FlagRec, Img, NoFlag
    <3>4. ImgSelected(flag') = 0
      BY <3>3 DEF ImgSelected
    <3>5. mode' = "validate" /\ sel' = 0
      BY <1>1, <3>1 DEF BootImageFind, NoImage
    <3>6. Current(0)' /\ Usable(0)'
      BY <1>1, <3>2, <3>3 DEF BootImageFind, Current, Usable
    <3> QED BY <1>0, <3>3, <3>4, <3>5, <3>6
            DEF Recoverable, Blank, MblInv, AppInv, AppModes, Img
  <2>2. CASE ~Blank
    <3>1. UNCHANGED <<flag, bank, fwVer, hurt>>
      BY <1>1, <2>2 DEF BootImageFind, Blank
    <3>3. mode' = "failed" \/ (mode' = "validate" /\ sel' = ImgSelected(flag))
      BY <1>1 DEF BootImageFind
    <3>4. Recoverable'
      BY <2>2, <3>1 DEF Recoverable, Blank, Current, Usable, NewerUsable,
                        ProvenUsable, Overrun
    <3> QED BY <1>0, <3>1, <3>3, <3>4 DEF MblInv, AppInv, AppModes, ImgSelected,
                                          NewerUsable, ProvenUsable
  <2> QED BY <2>1, <2>2
<1>2. CASE BootStatusUnreadable
  BY <1>2 DEF BootStatusUnreadable
<1>3. CASE ImageValid
  <2>1. /\ UNCHANGED <<flag, bank, sel, hurt>>
        /\ bank[sel].st = "good" /\ bank[sel].ver >= fwVer
        /\ fwVer' = bank[sel].ver /\ mode' = "markOk"
    BY <1>3 DEF ImageValid, Accepted
  <2>2. ~Blank /\ sel = ImgSelected(flag) /\ sel \in Img
    BY <1>3 DEF ImageValid, Recoverable, MblInv, TypeOK
  <2>3. Usable(sel)
    BY <2>2, SelectedUsable
  <2>4. Usable(sel)' /\ Current(sel)'
    BY <2>1, <2>2, <2>3 DEF Usable, NewerUsable, ProvenUsable, Current, TypeOK,
                            BankRec
  <2>5. Recoverable'
    BY <2>1, <2>2, <2>4 DEF Recoverable, Blank
  <2> QED BY <1>0, <2>1, <2>4, <2>5 DEF MblInv, AppInv, AppModes
<1>4. CASE ImageInvalid
  <2>1. /\ flag' = SetVerify(sel, "fail") /\ mode' = "failed"
        /\ UNCHANGED <<bank, fwVer, hurt>> /\ ~Current(sel) /\ sel \in Img
    BY <1>4, SoundWrite DEF ImageInvalid, Accepted, Current, TypeOK
  <2>2. flag[0].found /\ ~Blank
    BY <1>4 DEF ImageInvalid, Recoverable
  <2>3. flag'[0].found
    BY <2>1, <2>2 DEF SetVerify, TypeOK, FlagRec, Img
  <2>4. ASSUME ~Overrun PROVE \E h \in Img : Current(h)' /\ Usable(h)'
    <3>1. PICK h \in Img : Current(h) /\ Usable(h)
      BY <2>2, <2>4 DEF Recoverable
    <3>2. h # sel
      BY <2>1, <3>1
    <3>3. flag'[h] = flag[h]
      BY <2>1, <3>2 DEF SetVerify, TypeOK, FlagRec, Img
    <3>4. Current(h)' /\ Usable(h)'
      BY <2>1, <3>1, <3>3 DEF Current, Usable, NewerUsable, ProvenUsable
    <3> QED BY <3>4
  <2>5. Recoverable'
    BY <2>1, <2>3, <2>4 DEF Recoverable, Blank, Overrun
  <2> QED BY <1>0, <2>1, <2>5 DEF MblInv, AppInv, AppModes
<1>5. CASE MarkVerifyOk
  <2>1. /\ flag' = SetVerify(sel, "ok") /\ mode' = "setRunning"
        /\ UNCHANGED <<bank, fwVer, sel>>
    BY <1>5, SoundWrite DEF MarkVerifyOk
  <2>2. /\ flag[0].found /\ sel \in Img
        /\ bank[sel].st = "good" /\ bank[sel].ver = fwVer /\ Usable(sel)
    BY <1>5 DEF MarkVerifyOk, Recoverable, MblInv, TypeOK
  <2>3. /\ flag'[0].found /\ flag'[sel].found
        /\ flag'[sel].verify = "ok" /\ flag'[sel].newer = flag[sel].newer
        /\ flag'[sel].ia = flag[sel].ia
    BY <2>1, <2>2 DEF SetVerify, TypeOK, FlagRec, Img
  <2>4. Usable(sel)' /\ Current(sel)'
    BY <2>1, <2>2, <2>3 DEF Usable, NewerUsable, ProvenUsable, Current, TypeOK
  <2> QED BY <1>0, <2>1, <2>2, <2>3, <2>4 DEF Recoverable, Blank, MblInv, AppInv,
                                              AppModes
<1>6. CASE SetRunningAndJump
  <2>1. /\ UNCHANGED <<flag, bank, fwVer>> /\ mode' = "app"
        /\ runImg' = sel /\ exec' = sel
    BY <1>6 DEF SetRunningAndJump
  <2>2. /\ bank[sel].st = "good" /\ bank[sel].ver = fwVer /\ Usable(sel)
        /\ flag[sel].verify = "ok" /\ ~Blank
    BY <1>6 DEF SetRunningAndJump, MblInv, Recoverable
  <2>3. Recoverable'
    <3>1. sel \in Img /\ fwVer \in Nat /\ flag[0].found
      BY <2>2 DEF TypeOK, Recoverable
    <3>2. Usable(sel)' /\ sel' = sel
      BY <1>6, <2>1, <2>2 DEF Usable, NewerUsable, ProvenUsable, SetRunningAndJump
    <3>3. Current(sel)'
      BY <2>1, <2>2, <3>1, <3>2 DEF Current
    <3> QED BY <2>1, <2>2, <3>1, <3>2, <3>3 DEF Recoverable, Blank
  <2> QED BY <1>0, <2>1, <2>2, <2>3 DEF MblInv, AppInv, Usable, NewerUsable,
                                        ProvenUsable
<1>7. ASSUME mode \in AppModes
      PROVE  /\ runImg = exec /\ exec \in Img /\ flag[0].found
             /\ mode # "app" => sel = exec
             /\ Usable(exec) /\ flag[exec].verify = "ok"
  BY <1>7 DEF AppInv, Recoverable, AppModes, TypeOK
<1>8. ASSUME NEW m \in {"fetchHttp", "fetchBle"}, FetchStart(m)
      PROVE  BootInv'
  <2>1. mode \in AppModes /\ mode' \in AppModes
    BY <1>8 DEF FetchStart, AppModes
  <2>0. RunningIdx(m) = {runImg}
    BY DEF RunningIdx
  <2>2. /\ sel' = exec /\ UNCHANGED <<fwVer, runImg, exec, flag, hurt>>
        /\ bank' = [bank EXCEPT ![Other(exec)] = Partial]
    BY <1>7, <1>8, <2>0, <2>1 DEF FetchStart, Other, Img
  <2>3. bank'[exec] = bank[exec]
    BY <1>7, <2>1, <2>2 DEF TypeOK, Other, Img
  <2>4. Usable(exec)' /\ flag'[exec].verify = "ok" /\ flag'[0].found
    BY <1>7, <2>1, <2>2 DEF Usable, NewerUsable, ProvenUsable
  <2> QED BY <1>0, <2>1, <2>2, <2>3, <2>4, RunningKept
<1>9. CASE FetchFail
  <2>1. mode \in AppModes /\ mode' = "app" /\ UNCHANGED <<persistent, exec, hurt>>
    BY <1>9 DEF FetchFail, AppModes
  <2>2. Usable(exec)' /\ flag'[exec].verify = "ok" /\ flag'[0].found
    BY <1>7, <2>1 DEF Usable, NewerUsable, ProvenUsable, persistent
  <2> QED BY <1>0, <2>1, <2>2, RunningKept DEF persistent, AppModes
<1>10. ASSUME NEW st \in {"bad", "good"}, NEW ver \in Versions,
              FetchDone(st, ver)
       PROVE  BootInv'
  <2>1. mode \in AppModes /\ mode' \in AppModes /\ mode # "app"
    BY <1>10 DEF FetchDone, AppModes
  <2>2. sel = exec /\ UNCHANGED <<sel, fwVer, runImg, exec, flag, hurt>>
    BY <1>7, <1>10, <2>1 DEF FetchDone
  <2>3. bank'[exec] = bank[exec]
    BY <1>7, <1>10, <2>1, <2>2 DEF FetchDone, TypeOK, Other, Img
  <2>4. Usable(exec)' /\ flag'[exec].verify = "ok" /\ flag'[0].found
    BY <1>7, <2>1, <2>2 DEF Usable, NewerUsable, ProvenUsable
  <2> QED BY <1>0, <2>1, <2>2, <2>3, <2>4, RunningKept
<1>11. CASE MarkRunningOld
  <2>1. mode \in AppModes /\ mode' \in AppModes /\ mode # "app"
    BY <1>11 DEF MarkRunningOld, OldFlags, AppModes
  <2>2. sel = exec /\ UNCHANGED <<sel, fwVer, runImg, exec, bank, hurt>>
    BY <1>7, <1>11, <2>1 DEF MarkRunningOld, OldFlags
  <2>3. flag' = [flag EXCEPT ![sel].found = TRUE, ![sel].newer = FALSE,
                             ![sel].ia = "ok"]
    BY <1>11, SoundWrite DEF MarkRunningOld, OldFlags
  <2>4. /\ flag'[exec].found /\ flag'[exec].ia = "ok"
        /\ flag'[exec].verify = "ok" /\ flag'[0].found
    BY <1>7, <2>1, <2>2, <2>3 DEF TypeOK, FlagRec, Img
  <2>5. Usable(exec)'
    BY <2>2, <2>4 DEF Usable, ProvenUsable
  <2> QED BY <1>0, <2>1, <2>2, <2>4, <2>5, RunningKept
<1>12. CASE ClearNewFlags
  <2>1. mode \in AppModes /\ mode' \in AppModes /\ mode # "app"
    BY <1>12 DEF ClearNewFlags, AppModes
  <2>2. sel = exec /\ UNCHANGED <<sel, fwVer, runImg, exec, bank, hurt>>
    BY <1>7, <1>12, <2>1 DEF ClearNewFlags
  <2>3. flag' = [flag EXCEPT ![Other(sel)] = [NoFlag EXCEPT !.found = TRUE]]
    BY <1>12, SoundWrite DEF ClearNewFlags
  <2>4. flag'[exec] = flag[exec] /\ flag'[0].found
    BY <1>7, <2>1, <2>2, <2>3 DEF TypeOK, Img, Other, NoFlag
  <2>5. Usable(exec)' /\ flag'[exec].verify = "ok"
    BY <1>7, <2>1, <2>2, <2>4 DEF Usable, NewerUsable, ProvenUsable
  <2> QED BY <1>0, <2>1, <2>2, <2>4, <2>5, RunningKept
<1>13. CASE MarkNewNewer
  <2>1. mode \in AppModes /\ mode' \in AppModes /\ mode # "app"
    BY <1>13 DEF MarkNewNewer, AppModes
  <2>2. sel = exec /\ UNCHANGED <<sel, fwVer, runImg, exec, bank, hurt>>
    BY <1>7, <1>13, <2>1 DEF MarkNewNewer
  <2>3. flag' = SetNewer(Other(sel), TRUE)
    BY <1>13, SoundWrite DEF MarkNewNewer
  <2>4. flag'[exec] = flag[exec] /\ flag'[0].found
    BY <1>7, <2>1, <2>2, <2>3 DEF TypeOK, Img, Other, SetNewer, FlagRec
  <2>5. Usable(exec)' /\ flag'[exec].verify = "ok"
    BY <1>7, <2>1, <2>2, <2>4 DEF Usable, NewerUsable, ProvenUsable
  <2> QED BY <1>0, <2>1, <2>2, <2>4, <2>5, RunningKept
<1>14. CASE SwitchBle
  <2>1. mode \in AppModes /\ mode' \in {"app", "reset"} /\ mode # "app"
    BY <1>14 DEF SwitchBle, AppModes
  <2>2. sel = exec /\ UNCHANGED <<sel, fwVer, runImg, exec, bank, hurt>>
    BY <1>7, <1>14, <2>1 DEF SwitchBle
  <2>3. flag' = [flag EXCEPT ![Other(sel)] =
                     [NoFlag EXCEPT !.found = TRUE, !.newer = TRUE]]
    BY <1>14, SoundWrite DEF SwitchBle
  <2>4. flag'[exec] = flag[exec] /\ flag'[0].found
    BY <1>7, <2>1, <2>2, <2>3 DEF TypeOK, Img, Other, NoFlag
  <2>5. Usable(exec)' /\ flag'[exec].verify = "ok"
    BY <1>7, <2>1, <2>2, <2>4 DEF Usable, NewerUsable, ProvenUsable
  <2> QED BY <1>0, <2>1, <2>2, <2>4, <2>5, RunningKept DEF AppModes
<1>15. CASE Reset
  <2>1. mode' = "reset" /\ UNCHANGED <<persistent, hurt>> /\ mode # "reset"
    BY <1>15 DEF Reset
  <2>2. ~Blank /\ Recoverable'
    BY <2>1 DEF Recoverable, Blank, Current, Usable, NewerUsable, ProvenUsable,
                persistent, Overrun
  <2> QED BY <1>0, <2>1, <2>2 DEF MblInv, AppInv, AppModes
<1>16. CASE DfuOverrun
  <2>1. /\ mode \in AppModes /\ mode' \in AppModes /\ mode # "app"
        /\ UNCHANGED <<sel, fwVer, runImg, exec, flag>>
    BY <1>16 DEF DfuOverrun, AppModes
  <2>2. sel = exec /\ Overrun'
    BY <1>7, <1>16, <2>1 DEF DfuOverrun, Overrun, Other, Img
  <2>3. Usable(exec)' /\ flag'[exec].verify = "ok" /\ flag'[0].found
    BY <1>7, <2>1 DEF Usable, NewerUsable, ProvenUsable
  <2> QED BY <1>0, <2>1, <2>2, <2>3, RunningKept
<1>17. CASE UNCHANGED vars
  BY <1>0, <1>17 DEF vars, Recoverable, Blank, Current, Usable, NewerUsable,
                     ProvenUsable, MblInv, AppInv, ImgSelected, Overrun
<1> QED
  BY <1>1, <1>2, <1>3, <1>4, <1>5, <1>6, <1>8, <1>9, <1>10, <1>11, <1>12,
     <1>13, <1>14, <1>15, <1>16, <1>17 DEF Next, MblStep, UpdateStep

\* The inductive invariant gives the two boot invariants.
LEMMA BootInvImplies ==
  ASSUME BootInv, VerifyImages
  PROVE  AlwaysBootable /\ RunningIsCurrent
<1> USE DEF BootInv
<1>1. RunningIsCurrent
  BY DEF RunningIsCurrent, AppInv
<1>0. CASE Overrun
  BY <1>0, <1>1, Zenon DEF AlwaysBootable
<1>2. CASE Blank
  <2>1. ImgSelected(flag) = 0 /\ Current(0)
    BY <1>2 DEF Recoverable, Blank, ImgSelected
  <2>2. Bootable(flag)
    BY <2>1 DEF Bootable, Current, Accepted, NoImage
  <2> QED BY <1>1, <2>2, Zenon DEF AlwaysBootable
<1>3. CASE ~Blank /\ ~Overrun
  <2>1. flag[0].found
    BY <1>3 DEF Recoverable
  <2>2. PICK h \in Img : Current(h) /\ Usable(h)
    BY <1>3 DEF Recoverable
  <2>3. ImgSelected(flag) \in Img
    BY <2>1, <2>2, UsableSelected
  <2>4. CASE ImgSelected(flag) = h
    <3>1. Bootable(flag)
      BY <2>2, <2>4 DEF Bootable, Current, Accepted, NoImage, Img
    <3> QED BY <1>1, <3>1, Zenon DEF AlwaysBootable
  <2>5. CASE ImgSelected(flag) # h
    <3> DEFINE o == ImgSelected(flag)
               g == [flag EXCEPT ![o].found = TRUE, ![o].verify = "fail"]
    <3>1. o \in Img /\ o # h
      BY <2>3, <2>5
    <3>2. g[h] = flag[h] /\ g[0].found /\ g[o].verify = "fail"
      BY <3>1, <2>1 DEF TypeOK, FlagRec, Img
    <3>3. ImgSelected(g) = h
      BY <3>1, <3>2, <2>2
      DEF ImgSelected, Usable, NewerUsable, ProvenUsable, Img
    <3>4. Bootable(g)
      BY <3>3, <2>2 DEF Bootable, Current, Accepted, NoImage, Img
    <3>5. ImgSelected(flag) # NoImage
      BY <3>1 DEF NoImage, Img
    <3> QED BY <1>1, <3>4, <3>5, Zenon DEF AlwaysBootable
  <2> QED BY <2>4, <2>5
<1> QED BY <1>0, <1>2, <1>3

(* With image validation on and a status area that does not fail, no state *)
(* of a download, of the flag writes or of MBL is one from which a reset   *)
(* finds no image to start (boot_image_find and image_x_validate), unless  *)
(* app_dfu_srv_data_cb overran bank 0 while image 1 was running.           *)
THEOREM DeviceAlwaysBootable ==
  ASSUME VerifyImages, ~StatusFaults
  PROVE  Spec => []AlwaysBootable
<1>1. Init => BootInv
  BY BootInvInit
<1>2. BootInv /\ [Next]_vars => BootInv'
  BY BootInvStep
<1>3. BootInv => AlwaysBootable
  BY BootInvImplies
<1> QED BY <1>1, <1>2, <1>3, PTL DEF Spec

\* Only an overrun changes the bank that is executing.
LEMMA BankStep ==
  ASSUME VerifyImages, ~StatusFaults, BootInv, [Next]_vars,
         bank'[exec] # bank[exec]
  PROVE  Overrun'
<1>1. \/ DfuOverrun
      \/ \E m \in {"fetchHttp", "fetchBle"} : FetchStart(m)
      \/ \E st \in {"bad", "good"}, ver \in Versions : FetchDone(st, ver)
  BY DEF Next, MblStep, BootImageFind, BootStatusUnreadable, ImageValid,
         ImageInvalid, MarkVerifyOk, SetRunningAndJump, UpdateStep, FetchFail,
         MarkRunningOld, ClearNewFlags, MarkNewNewer, SwitchBle, Reset, vars,
         persistent
<1>2. mode \in AppModes
  BY <1>1 DEF DfuOverrun, FetchStart, FetchDone, AppModes
<1>3. runImg = exec /\ exec \in Img /\ (mode # "app" => sel = exec)
  BY <1>2 DEF BootInv, AppInv, TypeOK
<1>4. CASE DfuOverrun
  BY <1>3, <1>4 DEF DfuOverrun, Overrun, Other, Img
<1>5. CASE \E m \in {"fetchHttp", "fetchBle"} : FetchStart(m)
  BY <1>3, <1>5 DEF FetchStart, RunningIdx, BootInv, TypeOK, Other, Img
<1>6. CASE \E st \in {"bad", "good"}, ver \in Versions : FetchDone(st, ver)
  BY <1>3, <1>6 DEF FetchDone, BootInv, TypeOK, Other, Img
<1> QED BY <1>1, <1>4, <1>5, <1>6

(* Under the same assumptions no step of ota_demo_task or of the BLE       *)
(* update changes the bank that is executing, except the writes of         *)
(* app_dfu_srv_data_cb past the end of bank 0.                             *)
THEOREM RunningImageKept ==
  ASSUME VerifyImages, ~StatusFaults
  PROVE  Spec => RunningBankKept
<1>1. Init => BootInv
  BY BootInvInit
<1>2. BootInv /\ [Next]_vars => BootInv'
  BY BootInvStep
<1>3. BootInv /\ [Next]_vars => [bank'[exec] # bank[exec] => Overrun']_vars
  BY BankStep
<1> QED BY <1>1, <1>2, <1>3, PTL DEF Spec, RunningBankKept

(* Under the same assumptions the image that runs stays authentic and the  *)
(* newest that image_x_validate ever accepted, up to such an overrun.      *)
THEOREM RunningImageCurrent ==
  ASSUME VerifyImages, ~StatusFaults
  PROVE  Spec => []RunningIsCurrent
<1>1. Init => BootInv
  BY BootInvInit
<1>2. BootInv /\ [Next]_vars => BootInv'
  BY BootInvStep
<1>3. BootInv => RunningIsCurrent
  BY BootInvImplies
<1> QED BY <1>1, <1>2, <1>3, PTL DEF Spec

-----------------------------------------------------------------------------
(* With a working status area at most one image is marked NEWER, whether   *)
(* or not images are validated: both update paths withdraw the mark of the *)
(* running image before they set the other one.                            *)

LastWrites == {"clearHttp", "newerHttp", "switchBle"}

NewerInv ==
    /\ OnlyOneNewer
    /\ \A i \in Img : ~flag[i].found => ~flag[i].newer
    /\ mode \in LastWrites => ~flag[sel].newer

\* The image flags f differ from the present ones at image i at most, where
\* they are n, v and a.
Written(f, i, n, v, a) ==
    /\ f[i].found /\ f[i].newer = n /\ f[i].verify = v /\ f[i].ia = a
    /\ f[Other(i)] = flag[Other(i)]

\* What each write of the status area does to the flags.
LEMMA FlagWrites ==
  ASSUME TypeOK, NEW i \in Img
  PROVE  /\ Other(i) \in Img /\ Other(i) # i /\ Other(Other(i)) = i
         /\ \A j \in Img : j = i \/ j = Other(i)
         /\ Written(SetNewer(i, TRUE), i, TRUE, flag[i].verify, flag[i].ia)
         /\ \A r : Written(SetVerify(i, r), i, flag[i].newer, r, flag[i].ia)
         /\ Written(OldFlags(i), i, FALSE, flag[i].verify, "ok")
         /\ Written([flag EXCEPT ![i] = [NoFlag EXCEPT !.found = TRUE]],
                    i, FALSE, "none", "none")
         /\ Written([flag EXCEPT ![i] = [NoFlag EXCEPT !.found = TRUE,
                                                       !.newer = TRUE]],
                    i, TRUE, "none", "none")
<1>1. flag \in [Img -> FlagRec] /\ flag[i] \in FlagRec
  BY DEF TypeOK
<1>2. /\ Other(i) \in Img /\ Other(i) # i /\ Other(Other(i)) = i
      /\ \A j \in Img : j = i \/ j = Other(i)
  BY DEF Other, Img
<1> USE DEF Written
<1>3. Written(SetNewer(i, TRUE), i, TRUE, flag[i].verify, flag[i].ia)
  BY <1>1, <1>2 DEF SetNewer, FlagRec
<1>4. \A r : Written(SetVerify(i, r), i, flag[i].newer, r, flag[i].ia)
  BY <1>1, <1>2 DEF SetVerify, FlagRec
<1>5. Written(OldFlags(i), i, FALSE, flag[i].verify, "ok")
  BY <1>1, <1>2 DEF OldFlags, FlagRec
<1>6. Written([flag EXCEPT ![i] = [NoFlag EXCEPT !.found = TRUE]],
              i, FALSE, "none", "none")
  BY <1>1, <1>2 DEF NoFlag
<1>7. Written([flag EXCEPT ![i] = [NoFlag EXCEPT !.found = TRUE, !.newer = TRUE]],
              i, TRUE, "none", "none")
  BY <1>1, <1>2 DEF NoFlag
<1> QED BY <1>2, <1>3, <1>4, <1>5, <1>6, <1>7 DEF Other

\* Every step keeps at most one mark.
LEMMA NewerInvStep ==
  ASSUME ~StatusFaults, TypeOK, NewerInv, [Next]_vars
  PROVE  NewerInv'
<1> USE DEF LastWrites
<1>0. flag \in [Img -> FlagRec] /\ sel \in Img /\ 0 \in Img /\ 1 \in Img
  BY DEF TypeOK, Img
<1>1. CASE BootImageFind
  <2>1. CASE ~flag[0].found /\ ~flag[1].found
    <3>1. flag' = SetNewer(0, TRUE)
      BY <1>1, <2>1, SoundWrite DEF BootImageFind
    <3>2. mode' \notin LastWrites
      BY <1>1 DEF BootImageFind
    <3>3. Written(flag', 0, TRUE, flag[0].verify, flag[0].ia)
      BY <1>0, <3>1, FlagWrites
    <3> QED BY <1>0, <2>1, <3>2, <3>3
            DEF NewerInv, OnlyOneNewer, Written, Other, Img
  <2>2. CASE ~(~flag[0].found /\ ~flag[1].found)
    BY <1>1, <2>2 DEF BootImageFind, NewerInv, OnlyOneNewer
  <2> QED BY <2>1, <2>2
<1>2. CASE BootStatusUnreadable
  BY <1>2 DEF BootStatusUnreadable
<1>3. CASE ImageValid
  BY <1>3 DEF ImageValid, NewerInv, OnlyOneNewer
<1>4. ASSUME NEW r, flag' = SetVerify(sel, r), mode' \notin LastWrites
      PROVE  NewerInv'
  <2>1. Written(flag', sel, flag[sel].newer, r, flag[sel].ia)
    BY <1>0, <1>4, FlagWrites
  <2> QED BY <1>0, <1>4, <2>1 DEF NewerInv, OnlyOneNewer, Written, Other, Img
<1>5. CASE ImageInvalid
  BY <1>4, <1>5, SoundWrite DEF ImageInvalid
<1>6. CASE MarkVerifyOk
  BY <1>4, <1>6, SoundWrite DEF MarkVerifyOk
<1>7. CASE SetRunningAndJump
  BY <1>7 DEF SetRunningAndJump, NewerInv, OnlyOneNewer
<1>8. CASE \E m \in {"fetchHttp", "fetchBle"} : FetchStart(m)
  BY <1>8 DEF FetchStart, NewerInv, OnlyOneNewer
<1>9. CASE FetchFail
  BY <1>9 DEF FetchFail, persistent, NewerInv, OnlyOneNewer
<1>10. CASE \E st \in {"bad", "good"}, ver \in Versions : FetchDone(st, ver)
  BY <1>10 DEF FetchDone, NewerInv, OnlyOneNewer
<1>11. CASE MarkRunningOld
  <2>1. flag' = OldFlags(sel) /\ sel' = sel
    BY <1>11, SoundWrite DEF MarkRunningOld
  <2>2. Written(flag', sel, FALSE, flag[sel].verify, "ok")
    BY <1>0, <2>1, FlagWrites
  <2> QED BY <1>0, <2>1, <2>2 DEF NewerInv, OnlyOneNewer, Written, Other, Img
<1>12. ASSUME mode \in LastWrites, sel' = sel, NEW b, NEW r, NEW x,
              Written(flag', Other(sel), b, r, x)
       PROVE  NewerInv'
  <2>1. flag'[sel] = flag[sel] /\ flag'[Other(sel)].found
    BY <1>0, <1>12, FlagWrites DEF Written
  <2>2. ~flag[sel].newer
    BY <1>12 DEF NewerInv
  <2> QED BY <1>0, <1>12, <2>1, <2>2 DEF NewerInv, OnlyOneNewer, Img, Other
<1>13. CASE ClearNewFlags
  <2>1. /\ flag' = [flag EXCEPT ![Other(sel)] = [NoFlag EXCEPT !.found = TRUE]]
        /\ mode \in LastWrites /\ sel' = sel
    BY <1>13, SoundWrite DEF ClearNewFlags
  <2>2. Other(sel) \in Img
    BY <1>0, FlagWrites
  <2>3. Written(flag', Other(sel), FALSE, "none", "none")
    BY <2>1, <2>2, FlagWrites
  <2> QED BY <1>12, <2>1, <2>3
<1>14. CASE MarkNewNewer
  <2>1. /\ flag' = SetNewer(Other(sel), TRUE)
        /\ mode \in LastWrites /\ sel' = sel
    BY <1>14, SoundWrite DEF MarkNewNewer
  <2>2. Other(sel) \in Img
    BY <1>0, FlagWrites
  <2>3. Written(flag', Other(sel), TRUE, flag[Other(sel)].verify,
                flag[Other(sel)].ia)
    BY <2>1, <2>2, FlagWrites
  <2> QED BY <1>12, <2>1, <2>3
<1>15. CASE SwitchBle
  <2>1. /\ flag' = [flag EXCEPT ![Other(sel)] =
                   [NoFlag EXCEPT !.found = TRUE, !.newer = TRUE]]
        /\ mode \in LastWrites /\ sel' = sel
    BY <1>15, SoundWrite DEF SwitchBle
  <2>2. Other(sel) \in Img
    BY <1>0, FlagWrites
  <2>3. Written(flag', Other(sel), TRUE, "none", "none")
    BY <2>1, <2>2, FlagWrites
  <2> QED BY <1>12, <2>1, <2>3
<1>16. CASE Reset
  BY <1>16 DEF Reset, persistent, NewerInv, OnlyOneNewer
<1>17. CASE DfuOverrun
  BY <1>17 DEF DfuOverrun, NewerInv, OnlyOneNewer
<1>18. CASE UNCHANGED vars
  BY <1>18 DEF vars, NewerInv, OnlyOneNewer
<1> QED
  BY <1>1, <1>2, <1>3, <1>5, <1>6, <1>7, <1>8, <1>9, <1>10, <1>11, <1>13,
     <1>14, <1>15, <1>16, <1>17, <1>18 DEF Next, MblStep, UpdateStep, BootStatusUnreadable

(* rom_image.h's promise that only one image is NEWER at a time holds      *)
(* across ota_demo_task, the BLE update and every reset, with and without  *)
(* image validation, as long as the status area works.                     *)
THEOREM AtMostOneNewer ==
  ASSUME ~StatusFaults
  PROVE  Spec => []OnlyOneNewer
<1>1. Init => NewerInv
  BY DEF Init, NewerInv, OnlyOneNewer, NoFlag, LastWrites, Img
<1>2. TypeOK /\ NewerInv /\ [Next]_vars => NewerInv'
  BY NewerInvStep
<1>3. NewerInv => OnlyOneNewer
  BY DEF NewerInv
<1>4. Spec => []TypeOK
  BY TypeCorrect
<1> QED BY <1>1, <1>2, <1>3, <1>4, PTL DEF Spec

-----------------------------------------------------------------------------
(* A device that does not validate its images (IBL_VERIFY_NONE) starts     *)
(* whatever boot_image_find selects.  The flags of a bank outlive its      *)
(* contents while it is downloaded; the invariant says why no reset starts *)
(* a half-written bank through them.  While none is NEWER and the last     *)
(* writes of an update have not begun, the image that runs is the one      *)
(* boot_image_find would choose again, so the bank that is erased is not;  *)
(* during the last writes the other bank is complete.  An overrun of the   *)
(* running bank leaves all this true of the flags.                         *)

NoneNewer == ~flag[0].newer /\ ~flag[1].newer

PlainFlags ==
    /\ \A i \in Img : flag[i].verify # "fail" /\ flag[i].ia # "fail"
    /\ IF Blank THEN mode = "reset" /\ bank[0].st = "good"
                ELSE flag[0].found /\ \E h \in Img : Usable(h)
    /\ NoneNewer => Overrun \/ bank[ImgSelected(flag)].st # "partial"

PlainMbl ==
    /\ mode \in {"validate", "markOk", "setRunning"} => sel = ImgSelected(flag)
    /\ mode = "setRunning" => flag[sel].verify = "ok"

PlainApp ==
    mode \in AppModes =>
        /\ runImg = exec
        /\ mode # "app" => sel = exec
        /\ Usable(exec) /\ flag[exec].verify = "ok"
        /\ mode \in LastWrites => flag[exec].ia = "ok"
        /\ mode \notin LastWrites /\ NoneNewer => exec = ImgSelected(flag)
        /\ mode \notin {"app", "fetchHttp", "fetchBle"} =>
             Overrun \/ bank[Other(exec)].st # "partial"

PlainInv ==
    TypeOK /\ NewerInv /\ hurt # "wrongBank" /\ PlainFlags /\ PlainMbl /\ PlainApp

\* The rules of boot_image_find when no image is marked failed and at most
\* one is NEWER: the NEWER one, else image 0 if it is proven, else image 1.
LEMMA PlainSelected ==
  ASSUME NEW f \in [Img -> FlagRec], f[0].found,
         \A i \in Img : f[i].verify # "fail" /\ f[i].ia # "fail"
  PROVE  /\ \A i \in Img : f[i].newer /\ f[i].found /\ ~f[Other(i)].newer =>
                             ImgSelected(f) = i
         /\ ~f[0].newer /\ ~f[1].newer =>
              /\ ProvenUsable(f, 0) => ImgSelected(f) = 0
              /\ ~ProvenUsable(f, 0) /\ ProvenUsable(f, 1) => ImgSelected(f) = 1
  BY DEF ImgSelected, NewerUsable, ProvenUsable, Img, Other, FlagRec

\* Every step keeps the invariant on a device without validation.
LEMMA PlainInvStep ==
  ASSUME ~VerifyImages, ~StatusFaults, PlainInv, [Next]_vars
  PROVE  PlainInv'
<1> USE DEF LastWrites
<1> DEFINE Runs == bank[exec].st = "good" \/ Overrun
<1>0. /\ TypeOK' /\ NewerInv' /\ flag \in [Img -> FlagRec]
      /\ flag' \in [Img -> FlagRec] /\ sel \in Img /\ exec \in Img
      /\ 0 \in Img /\ 1 \in Img
  BY TypeStep, NewerInvStep DEF PlainInv, TypeOK, Img
<1>a. mode # "reset" => ~Blank /\ flag[0].found
  BY DEF PlainInv, PlainFlags, Blank
<1>1. CASE BootImageFind
  <2>0. UNCHANGED <<bank, exec, runImg, hurt>>
    BY <1>1 DEF BootImageFind
  <2>1. CASE Blank
    <3>1. flag' = SetNewer(0, TRUE) /\ ImgSelected(flag) = 0
      BY <1>1, <2>1, SoundWrite DEF BootImageFind, Blank, ImgSelected
    <3>2. Written(flag', 0, TRUE, flag[0].verify, flag[0].ia)
      BY <1>0, <3>1, FlagWrites DEF PlainInv
    <3>3. ~flag[0].newer /\ ~flag[1].newer
      BY <1>0, <2>1 DEF PlainInv, NewerInv, Blank
    <3>4. \A i \in Img : flag'[i].verify # "fail" /\ flag'[i].ia # "fail"
      BY <3>2 DEF PlainInv, PlainFlags, Written, Other, Img
    <3>5. ImgSelected(flag') = 0 /\ Usable(0)'
      BY <1>0, <3>2, <3>3, <3>4
         DEF Written, Other, ImgSelected, Usable, NewerUsable
    <3>6. mode' = "validate" /\ sel' = 0
      BY <1>1, <3>1 DEF BootImageFind, NoImage
    <3>7. flag'[0].found /\ flag'[0].newer
      BY <3>2 DEF Written
    <3> QED BY <1>0, <2>0, <3>4, <3>5, <3>6, <3>7
            DEF PlainInv, PlainFlags, PlainMbl, PlainApp, Blank, NoneNewer, AppModes, Overrun
  <2>2. CASE ~Blank
    <3>1. UNCHANGED flag
      BY <1>1, <2>2 DEF BootImageFind, Blank
    <3>2. ImgSelected(flag) \in Img
      BY <2>2, UsableSelected DEF PlainInv, PlainFlags
    <3>3. mode' = "validate" /\ sel' = ImgSelected(flag)
      BY <1>1, <3>2 DEF BootImageFind, NoImage, Img
    <3>4. ImgSelected(flag') = ImgSelected(flag) /\ \A i \in Img : Usable(i)' = Usable(i)
      BY <3>1 DEF ImgSelected, Usable, NewerUsable, ProvenUsable
    <3> QED BY <1>0, <2>0, <2>2, <3>1, <3>3, <3>4
            DEF PlainInv, PlainFlags, PlainMbl, PlainApp, Blank, NoneNewer, AppModes, Overrun
  <2> QED BY <2>1, <2>2
<1>2. ASSUME UNCHANGED flag
      PROVE  /\ ImgSelected(flag)' = ImgSelected(flag) /\ Blank' = Blank
             /\ NoneNewer' = NoneNewer /\ \A i \in Img : Usable(i)' = Usable(i)
  BY <1>2 DEF ImgSelected, Usable, NewerUsable, ProvenUsable, Blank, NoneNewer
<1>3. ASSUME UNCHANGED <<flag, bank, hurt>>, mode' = "reset" \/ mode # "reset"
      PROVE  PlainFlags'
  BY <1>2, <1>3, <1>a DEF PlainInv, PlainFlags, Overrun
<1>4. CASE ImageValid
  BY <1>0, <1>2, <1>3, <1>4
     DEF ImageValid, PlainInv, PlainMbl, PlainApp, AppModes
<1>5. CASE ImageInvalid
  BY <1>5 DEF ImageInvalid, Accepted
<1>6. CASE MarkVerifyOk
  <2>1. /\ flag' = SetVerify(sel, "ok") /\ mode' = "setRunning"
        /\ UNCHANGED <<bank, sel, hurt>> /\ sel = ImgSelected(flag)
        /\ flag[0].found /\ mode # "reset"
    BY <1>6, <1>a, SoundWrite DEF MarkVerifyOk, PlainInv, PlainMbl
  <2>2. Written(flag', sel, flag[sel].newer, "ok", flag[sel].ia)
    BY <1>0, <2>1, FlagWrites DEF PlainInv
  <2>3. Usable(sel)
    BY <1>0, <1>a, <2>1, SelectedUsable DEF PlainInv
  <2>4. \A i \in Img : flag'[i].verify # "fail" /\ flag'[i].ia # "fail"
    BY <1>0, <2>2 DEF PlainInv, PlainFlags, Written, Other, Img
  <2>5. flag'[0].found /\ Usable(sel)' /\ NoneNewer' = NoneNewer
    BY <1>0, <2>1, <2>2, <2>3, <2>4
       DEF Written, Other, Img, Usable, NewerUsable, ProvenUsable, NoneNewer
  <2>6. ImgSelected(flag') = sel
    <3>1. \A i \in Img : NewerUsable(flag', i) <=> NewerUsable(flag, i)
      BY <1>0, <2>2, <2>4
         DEF Written, NewerUsable, PlainInv, PlainFlags, NewerInv, Other, Img
    <3>2. /\ ProvenUsable(flag, sel) => ProvenUsable(flag', sel)
          /\ ProvenUsable(flag', Other(sel)) <=> ProvenUsable(flag, Other(sel))
      BY <2>2 DEF Written, ProvenUsable
    <3>3. \/ NewerUsable(flag, sel)
          \/ ProvenUsable(flag, sel)
      BY <2>3 DEF Usable
    <3>4. CASE sel = 0
      BY <1>0, <2>1, <2>5, <3>1, <3>2, <3>3, <3>4 DEF ImgSelected, Other
    <3>5. CASE sel = 1
      BY <1>0, <2>1, <2>5, <3>1, <3>2, <3>3, <3>5 DEF ImgSelected, Other
    <3> QED BY <1>0, <3>4, <3>5 DEF Img
  <2> QED BY <1>0, <2>1, <2>2, <2>4, <2>5, <2>6
          DEF PlainInv, PlainFlags, PlainMbl, PlainApp, Blank, AppModes, Written, Overrun
<1>7. CASE SetRunningAndJump
  <2>1. Usable(sel)
    BY <1>0, <1>7, <1>a, SelectedUsable DEF SetRunningAndJump, PlainInv, PlainMbl
  <2>2. PlainFlags'
    BY <1>2, <1>7, <1>a DEF SetRunningAndJump, PlainInv, PlainFlags, PlainMbl, Overrun
  <2> QED BY <1>0, <1>2, <1>7, <2>1, <2>2
          DEF SetRunningAndJump, PlainInv, PlainMbl, PlainApp, AppModes
<1>8. CASE Runs /\ \E m \in {"fetchHttp", "fetchBle"} : FetchStart(m)
  <2>0. Other(exec) # exec
    BY <1>0 DEF Other, Img
  <2>1. /\ mode = "app" /\ mode' \in {"fetchHttp", "fetchBle"}
        /\ UNCHANGED <<flag, runImg, exec, hurt>> /\ sel' = exec /\ runImg = exec
        /\ bank' = [bank EXCEPT ![Other(exec)] = Partial]
    BY <1>8, <2>0 DEF FetchStart, RunningIdx, PlainInv, PlainApp, AppModes
  <2>2. bank'[exec] = bank[exec]
    BY <1>0, <2>1 DEF PlainInv, TypeOK, Other, Img
  <2>3. /\ ImgSelected(flag)' = ImgSelected(flag) /\ Blank' = Blank
        /\ NoneNewer' = NoneNewer /\ \A i \in Img : Usable(i)' = Usable(i)
    BY <2>1 DEF ImgSelected, Usable, NewerUsable, ProvenUsable, Blank, NoneNewer
  <2>4. NoneNewer => ImgSelected(flag) = exec
    BY <2>1 DEF PlainInv, PlainApp, AppModes
  <2> QED BY <1>0, <1>8, <1>a, <2>1, <2>2, <2>3, <2>4
          DEF PlainInv, PlainFlags, PlainMbl, PlainApp, AppModes, Overrun
<1>9. CASE FetchFail
  BY <1>0, <1>2, <1>3, <1>9
     DEF FetchFail, persistent, PlainInv, PlainMbl, PlainApp, AppModes
<1>10. CASE \E st \in {"bad", "good"}, ver \in Versions : FetchDone(st, ver)
  <2>1. PICK st \in {"bad", "good"}, ver \in Versions : FetchDone(st, ver)
    BY <1>10
  <2>2. /\ mode \in {"fetchHttp", "fetchBle"} /\ mode' \in {"oldHttp", "oldBle"}
        /\ UNCHANGED <<flag, runImg, exec, sel, hurt>> /\ sel = exec
        /\ bank' = [bank EXCEPT ![Other(exec)] = [st |-> st, ver |-> ver]]
    BY <2>1 DEF FetchDone, PlainInv, PlainApp, AppModes
  <2>3. /\ bank'[exec] = bank[exec] /\ bank'[Other(exec)].st # "partial"
        /\ \A i \in Img : i = exec \/ i = Other(exec)
    BY <1>0, <2>2 DEF PlainInv, TypeOK, Other, Img
  <2>4. /\ ImgSelected(flag)' = ImgSelected(flag) /\ Blank' = Blank
        /\ NoneNewer' = NoneNewer /\ \A i \in Img : Usable(i)' = Usable(i)
    BY <2>2 DEF ImgSelected, Usable, NewerUsable, ProvenUsable, Blank, NoneNewer
  <2>5. NoneNewer => ImgSelected(flag) = exec
    BY <2>2 DEF PlainInv, PlainApp, AppModes
  <2> QED BY <1>0, <1>a, <2>2, <2>3, <2>4, <2>5
          DEF PlainInv, PlainFlags, PlainMbl, PlainApp, AppModes, Overrun
<1>11. ASSUME mode \in AppModes, mode # "app", Runs,
              UNCHANGED <<bank, runImg, exec, sel, hurt>>
       PROVE  /\ sel = exec /\ sel \in Img /\ flag[0].found /\ runImg = exec
              /\ flag[sel].verify = "ok" /\ Usable(sel) /\ flag[sel].found
  BY <1>0, <1>11, <1>a DEF PlainInv, PlainApp, Usable, NewerUsable, ProvenUsable, AppModes
<1>12. CASE MarkRunningOld /\ Runs
  <2>1. /\ flag' = OldFlags(sel) /\ mode \in {"oldHttp", "oldBle"}
        /\ mode' \in {"clearHttp", "switchBle"}
        /\ UNCHANGED <<bank, runImg, exec, sel, hurt>> /\ mode \in AppModes
    BY <1>12, SoundWrite DEF MarkRunningOld, AppModes
  <2>2. Written(flag', sel, FALSE, flag[sel].verify, "ok")
    BY <1>0, <2>1, FlagWrites DEF PlainInv
  <2>3. /\ sel = exec /\ flag[0].found /\ runImg = exec
        /\ flag[sel].verify = "ok"
        /\ Overrun \/ bank[Other(exec)].st # "partial"
    BY <1>11, <1>12, <2>1 DEF PlainInv, PlainApp
  <2>4. \A i \in Img : flag'[i].verify # "fail" /\ flag'[i].ia # "fail"
    BY <1>0, <2>2 DEF PlainInv, PlainFlags, Written, Other, Img
  <2>5. flag'[0].found /\ Usable(sel)'
    BY <1>0, <2>1, <2>2, <2>3 DEF Written, Other, Img, Usable, ProvenUsable
  <2>6. ImgSelected(flag)' \in Img
    BY <1>0, <2>1, <2>5, UsableSelected DEF ImgSelected, NewerUsable, ProvenUsable, NoImage,
       Usable, Img
  <2>7. Overrun \/ bank'[ImgSelected(flag)'].st # "partial"
    BY <1>0, <1>12, <2>1, <2>3, <2>6 DEF Other, Img
  <2> QED BY <1>0, <2>1, <2>2, <2>3, <2>4, <2>5, <2>7
          DEF PlainInv, PlainFlags, PlainMbl, PlainApp, Blank, AppModes, Written, Overrun
<1>13. CASE ClearNewFlags /\ Runs
  <2>1. /\ flag' = [flag EXCEPT ![Other(sel)] = [NoFlag EXCEPT !.found = TRUE]]
        /\ mode = "clearHttp" /\ mode' = "newerHttp"
        /\ UNCHANGED <<bank, runImg, exec, sel, hurt>> /\ mode \in AppModes
    BY <1>13, SoundWrite DEF ClearNewFlags, AppModes
  <2>2. /\ sel = exec /\ flag[0].found /\ runImg = exec /\ flag[sel].found
        /\ flag[sel].verify = "ok" /\ flag[sel].ia = "ok" /\ ~flag[sel].newer
        /\ Overrun \/ bank[Other(exec)].st # "partial"
    BY <1>11, <1>13, <2>1 DEF PlainInv, PlainApp, NewerInv
  <2>3. Written(flag', Other(sel), FALSE, "none", "none")
    BY <1>0, <2>1, FlagWrites DEF PlainInv
  <2>4. flag'[sel] = flag[sel] /\ flag'[0].found
    BY <1>0, <2>2, <2>3 DEF Written, Other, Img
  <2>5. \A i \in Img : flag'[i].verify # "fail" /\ flag'[i].ia # "fail"
    BY <1>0, <2>2, <2>3, <2>4 DEF Written, Other, Img
  <2>6. Usable(sel)'
    BY <2>1, <2>2, <2>4 DEF Usable, ProvenUsable
  <2>7. Overrun \/ (bank'[0].st # "partial" /\ bank'[1].st # "partial")
    BY <1>0, <1>13, <2>1, <2>2 DEF Other, Img
  <2>8. ImgSelected(flag)' \in Img
    BY <1>0, <2>1, <2>4, <2>6 DEF ImgSelected, NewerUsable, ProvenUsable, NoImage,
       Usable, Img
  <2> QED BY <1>0, <2>1, <2>2, <2>4, <2>5, <2>6, <2>7, <2>8
          DEF PlainInv, PlainFlags, PlainMbl, PlainApp, Blank, AppModes, Img, Other, Overrun
<1>14. ASSUME mode \in LastWrites, mode' \in {"app", "reset"}, Runs,
              UNCHANGED <<bank, runImg, exec, sel, hurt>>, NEW v, NEW a, v # "fail", a # "fail",
              Written(flag', Other(sel), TRUE, v, a)
       PROVE  PlainInv'
  <2>1. /\ sel = exec /\ flag[0].found /\ runImg = exec /\ flag[sel].found
        /\ flag[sel].verify = "ok" /\ flag[sel].ia = "ok"
    BY <1>11, <1>14 DEF PlainInv, PlainApp, AppModes
  <2>2. flag'[sel] = flag[sel] /\ flag'[0].found
    BY <1>0, <1>14, <2>1 DEF Written, Other, Img
  <2>3. \A i \in Img : flag'[i].verify # "fail" /\ flag'[i].ia # "fail"
    BY <1>0, <1>14, <2>1, <2>2 DEF Written, Other, Img
  <2>4. Usable(sel)'
    BY <1>14, <2>1, <2>2 DEF Usable, ProvenUsable
  <2>5. ~NoneNewer'
    BY <1>0, <1>14 DEF Written, NoneNewer, Other, Img
  <2> QED BY <1>0, <1>14, <2>1, <2>2, <2>3, <2>4, <2>5
          DEF PlainInv, PlainFlags, PlainMbl, PlainApp, Blank, AppModes, Overrun
<1>15. CASE MarkNewNewer /\ Runs
  <2>1. /\ flag' = SetNewer(Other(sel), TRUE) /\ mode \in LastWrites /\ mode' = "app"
        /\ UNCHANGED <<bank, runImg, exec, sel, hurt>>
    BY <1>15, SoundWrite DEF MarkNewNewer
  <2>2. Other(sel) \in Img
    BY <1>0 DEF Other, Img
  <2>3. Written(flag', Other(sel), TRUE, flag[Other(sel)].verify, flag[Other(sel)].ia)
    BY <2>1, <2>2, FlagWrites DEF PlainInv
  <2>4. flag[Other(sel)].verify # "fail" /\ flag[Other(sel)].ia # "fail"
    BY <2>2 DEF PlainInv, PlainFlags
  <2> QED BY <1>14, <1>15, <2>1, <2>3, <2>4
<1>16. CASE SwitchBle /\ Runs
  <2>1. /\ flag' = [flag EXCEPT ![Other(sel)] =
                      [NoFlag EXCEPT !.found = TRUE, !.newer = TRUE]]
        /\ mode \in LastWrites /\ mode' \in {"app", "reset"}
        /\ UNCHANGED <<bank, runImg, exec, sel, hurt>>
    BY <1>16, SoundWrite DEF SwitchBle
  <2>2. Other(sel) \in Img
    BY <1>0 DEF Other, Img
  <2>3. Written(flag', Other(sel), TRUE, "none", "none")
    BY <2>1, <2>2, FlagWrites DEF PlainInv
  <2> QED BY <1>14, <1>16, <2>1, <2>3
<1>17. CASE Reset
  BY <1>0, <1>2, <1>3, <1>17 DEF Reset, persistent, PlainInv, PlainMbl, PlainApp, AppModes
<1>18. CASE DfuOverrun
  <2>1. /\ UNCHANGED <<flag, runImg, mode, sel, exec>> /\ mode = "fetchBle"
        /\ sel = exec /\ Overrun'
    BY <1>0, <1>18 DEF DfuOverrun, PlainInv, PlainApp, AppModes, Overrun, Other, Img
  <2>2. PlainFlags'
    BY <1>2, <1>a, <2>1 DEF PlainInv, PlainFlags
  <2> QED BY <1>0, <1>2, <2>1, <2>2
          DEF PlainInv, PlainMbl, PlainApp, AppModes, Overrun
<1>19. CASE UNCHANGED vars
  <2>1. PlainFlags'
    BY <1>2, <1>19 DEF vars, PlainInv, PlainFlags, Overrun
  <2> QED BY <1>0, <1>2, <1>19, <2>1 DEF vars, PlainInv, PlainMbl, PlainApp, Overrun
<1>20. UpdateStep => Runs
  BY DEF UpdateStep, PlainInv, TypeOK, Damage, Overrun
<1> QED
  BY <1>1, <1>4, <1>5, <1>6, <1>7, <1>8, <1>9, <1>10, <1>12, <1>13, <1>15,
     <1>16, <1>17, <1>18, <1>19, <1>20 DEF Next, MblStep, UpdateStep, BootStatusUnreadable

\* A blank device satisfies the invariant: bank 0 holds the factory image.
LEMMA PlainInvInit == Init => PlainInv
<1> SUFFICES ASSUME Init PROVE PlainInv
  OBVIOUS
<1>1. TypeOK
  BY TypeInit
<1>2. /\ \A i \in Img : flag[i] = NoFlag
      /\ bank[0].st = "good" /\ mode = "reset" /\ 0 \in Img /\ 1 \in Img
  BY DEF Init, Img
<1>3. ImgSelected(flag) = 0 /\ Blank
  BY <1>2 DEF ImgSelected, NoFlag, Blank
<1> QED BY <1>1, <1>2, <1>3 DEF PlainInv, NewerInv, OnlyOneNewer, PlainFlags,
           PlainMbl, PlainApp, NoFlag, AppModes, LastWrites, Init

\* boot_image_find finds an image, and a half-written one only if NEWER.
LEMMA PlainInvImplies ==
  ASSUME PlainInv
  PROVE  StaleFlagsHarmless
<1>1. CASE Blank
  <2>1. ImgSelected(flag) = 0 /\ bank[0].st = "good"
    BY <1>1 DEF ImgSelected, Blank, PlainInv, PlainFlags
  <2> QED BY <2>1 DEF StaleFlagsHarmless, NoImage
<1>2. CASE ~Blank
  <2>1. flag[0].found /\ ImgSelected(flag) \in Img
    BY <1>2, UsableSelected DEF PlainInv, PlainFlags
  <2>2. ASSUME ~NoneNewer
        PROVE  flag[ImgSelected(flag)].newer
    <3>1. \A i \in Img : ~flag[i].found => ~flag[i].newer
      BY DEF PlainInv, NewerInv
    <3>2. PICK i \in Img : flag[i].newer /\ flag[i].found
      BY <2>2, <3>1 DEF NoneNewer, Img
    <3>3. ~flag[Other(i)].newer
      BY <3>2 DEF PlainInv, NewerInv, OnlyOneNewer, Other, Img
    <3>4. flag \in [Img -> FlagRec] /\ \A j \in Img : flag[j].verify # "fail" /\ flag[j].ia # "fail"
      BY DEF PlainInv, TypeOK, PlainFlags
    <3>5. ImgSelected(flag) = i
      BY <2>1, <3>2, <3>3, <3>4, PlainSelected
    <3> QED BY <3>2, <3>5
  <2> QED BY <2>1, <2>2 DEF StaleFlagsHarmless, PlainInv, PlainFlags, NoImage, Img
<1> QED BY <1>1, <1>2

(* On a device that does not validate images, boot_image_find always finds *)
(* one and never starts a half-written bank because flags of its former    *)
(* contents say VERIFY_OK and IA_OK, however downloads, their restarts,    *)
(* the flag writes and resets are interleaved, unless a BLE download       *)
(* overran the bank that was running.                                      *)
THEOREM StaleFlagsAreHarmless ==
  ASSUME ~VerifyImages, ~StatusFaults
  PROVE  Spec => []StaleFlagsHarmless
<1>1. Init => PlainInv
  BY PlainInvInit
<1>2. PlainInv /\ [Next]_vars => PlainInv'
  BY PlainInvStep
<1>3. PlainInv => StaleFlagsHarmless
  BY PlainInvImplies
<1> QED BY <1>1, <1>2, <1>3, PTL DEF Spec

-----------------------------------------------------------------------------
(* With validation on, no failure of the status area lets MBL jump to an   *)
(* image that is not authentic or is older than one accepted before.       *)

JumpInv ==
    mode \in {"markOk", "setRunning"} =>
        bank[sel].st = "good" /\ bank[sel].ver = fwVer

\* What image_x_validate accepted stays accepted up to the jump.
LEMMA JumpInvStep ==
  ASSUME VerifyImages, JumpInv, [Next]_vars
  PROVE  JumpInv'
<1> USE DEF JumpInv
<1>1. CASE BootImageFind
  BY <1>1 DEF BootImageFind
<1>2. CASE BootStatusUnreadable
  BY <1>2 DEF BootStatusUnreadable
<1>3. CASE ImageValid
  BY <1>3 DEF ImageValid, Accepted
<1>4. CASE ImageInvalid
  BY <1>4 DEF ImageInvalid
<1>5. CASE MarkVerifyOk
  BY <1>5 DEF MarkVerifyOk
<1>6. CASE SetRunningAndJump
  BY <1>6 DEF SetRunningAndJump
<1>7. CASE UpdateStep
  BY <1>7 DEF UpdateStep, FetchStart, FetchFail, FetchDone, MarkRunningOld, OldFlags,
              DfuOverrun, ClearNewFlags, MarkNewNewer, SwitchBle
<1>8. CASE Reset
  BY <1>8 DEF Reset
<1>9. CASE UNCHANGED vars
  BY <1>9 DEF vars
<1> QED
  BY <1>1, <1>2, <1>3, <1>4, <1>5, <1>6, <1>7, <1>8, <1>9 DEF Next, MblStep

\* The jump of MBL goes to what image_x_validate accepted.
LEMMA JumpStep ==
  ASSUME JumpInv, [Next]_vars, mode = "setRunning", mode' = "app"
  PROVE  bank[exec'].st = "good" /\ bank[exec'].ver = fwVer
<1>1. SetRunningAndJump
  BY DEF Next, MblStep, BootImageFind, BootStatusUnreadable, ImageValid,
         ImageInvalid, MarkVerifyOk, UpdateStep, FetchStart, FetchFail,
         DfuOverrun, FetchDone, MarkRunningOld, ClearNewFlags, MarkNewNewer, SwitchBle,
         Reset, vars
<1> QED BY <1>1 DEF SetRunningAndJump, JumpInv

\* Only image_x_validate writes the version counter, and only upwards.
LEMMA CounterStep ==
  ASSUME TypeOK, [Next]_vars
  PROVE  fwVer' >= fwVer
<1>0. fwVer \in Nat /\ sel \in Img /\ bank \in [Img -> BankRec]
  BY DEF TypeOK
<1>1. CASE ImageValid
  <2>1. bank[sel].ver \in Nat
    BY <1>0 DEF BankRec
  <2> QED BY <1>0, <1>1, <2>1 DEF ImageValid, Accepted
<1>2. CASE fwVer' = fwVer
  BY <1>0, <1>2
<1>3. [Next]_vars => ImageValid \/ fwVer' = fwVer
  BY DEF Next, MblStep, BootImageFind, BootStatusUnreadable, ImageInvalid,
         MarkVerifyOk, SetRunningAndJump, UpdateStep, FetchStart, FetchFail,
         DfuOverrun, FetchDone, MarkRunningOld, ClearNewFlags, MarkNewNewer, SwitchBle,
         Reset, vars, persistent
<1> QED BY <1>1, <1>2, <1>3

(* MBL jumps only to an image that image_x_validate accepted, and none older *)
(* than an earlier one (mbl.c, main; mbl_image_validate.c).                  *)
THEOREM JumpsAreAccepted ==
  ASSUME VerifyImages
  PROVE  Spec => JumpOnlyToAccepted
<1>1. Init => JumpInv
  BY DEF Init, JumpInv
<1>2. JumpInv /\ [Next]_vars => JumpInv'
  BY JumpInvStep
<1>3. JumpInv /\ TypeOK /\ [Next]_vars =>
        [/\ fwVer' >= fwVer
         /\ mode = "setRunning" /\ mode' = "app" =>
              bank[exec'].st = "good" /\ bank[exec'].ver = fwVer]_vars
  BY JumpStep, CounterStep
<1>4. Spec => []TypeOK
  BY TypeCorrect
<1> QED BY <1>1, <1>2, <1>3, <1>4, PTL DEF Spec, JumpOnlyToAccepted
=============================================================================
