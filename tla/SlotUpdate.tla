----------------------------- MODULE SlotUpdate -----------------------------
(***************************************************************************)
(* Updating the firmware of one machine: the capsule path of               *)
(* FmpDeviceSlotLib (patches/edk2/0003), the commands of scripts/vbnv.py   *)
(* and flashrom on the OS side, and vboot's slot selection, over the two   *)
(* slots in flash, the VBNV block in CMOS with its copy in RW_NVRAM, and   *)
(* the rollback counter in the TPM.  Power can fail between any two steps. *)
(***************************************************************************)
EXTENDS Vbnv

CONSTANTS
  Images,     \* firmware releases
  NoImage,    \* erased or half-programmed flash; no capsule
  Factory,    \* the release both slots hold at first
  Version,    \* Version[i]: the keyblock version release i is signed with
  Dies,       \* Dies[i]: how far release i gets
  Fits,       \* releases built for this machine's slot size
  NBlocks,    \* SMMSTORE blocks in a slot
  OsOps,      \* what the user does from the OS
  MaxFaults   \* bound: power cuts, CMOS losses and flash errors

AllOsOps == {"stage", "flash", "arm", "trynext", "inplace"}

ASSUME SlotUpdateAssumption ==
  /\ NoImage \notin Images
  /\ Factory \in Fits
  /\ Fits \subseteq Images
  /\ Version \in [Images -> Nat \ {0}]
  /\ Dies \in [Images -> {"never", "early", "late"}]
  /\ Dies[Factory] = "never"
  /\ NBlocks \in Nat \ {0}
  /\ OsOps \subseteq AllOsOps
  /\ MaxFaults \in Nat

VARIABLES
  flash,      \* flash[s][k]: block k of slot s
  cmos,       \* the VBNV block in CMOS
  backup,     \* its copy in RW_NVRAM
  counter,    \* the version in the TPM's firmware space
  phase,      \* how far the machine is
  run,        \* the firmware half that runs: a slot, "RO" or "none"
  image,      \* the release that runs, NoImage in RO
  staged,     \* the capsule the OS left in memory
  capsule,    \* the capsule coreboot found in this boot
  job,        \* the loop of FmpDeviceSetImageWithStatus()
  attempt,    \* LastAttemptStatus of the latest SetImage
  cameUp,     \* history: releases that reached userspace
  reported,   \* history: releases that reported success while running
  kept,       \* history: slots that reported since last written or armed
  faults      \* faults so far

vars == <<flash, cmos, backup, counter, phase, run, image, staged, capsule,
          job, attempt, cameUp, reported, kept, faults>>

Blocks  == 1 .. NBlocks
Content == [img : Images \cup {NoImage}, half : Slots]
Junk    == [img |-> NoImage, half |-> "A"]
Half(i, s) == [img |-> i, half |-> s]
NoJob   == [img |-> NoImage, next |-> 1, erased |-> FALSE]
Jobs    == [img : Images \cup {NoImage}, next : 1 .. NBlocks + 1,
            erased : BOOLEAN]

Phases  == {"off", "verstage", "romstage", "payload", "writing", "arming",
            "processed", "os", "hung"}
Statuses == {"none", "success", "no_layout", "image_size", "no_smmstore",
             "out_of_memory", "erase_failed", "write_failed",
             "no_flash_access", "vbnv_failed"}

TypeOK ==
  /\ flash \in [Slots -> [Blocks -> Content]]
  /\ cmos \in Block
  /\ backup \in Block
  /\ counter \in Nat
  /\ phase \in Phases
  /\ run \in Slots \cup {"RO", "none"}
  /\ image \in Images \cup {NoImage}
  /\ staged \in Images \cup {NoImage}
  /\ capsule \in Images \cup {NoImage}
  /\ job \in Jobs
  /\ attempt \in Statuses
  /\ cameUp \subseteq Images
  /\ reported \subseteq Images
  /\ kept \subseteq Slots
  /\ faults \in 0 .. MaxFaults

Init ==
  /\ flash = [s \in Slots |-> [k \in Blocks |-> Half(Factory, s)]]
  /\ cmos = FreshBlock
  /\ backup = FreshBlock
  /\ counter = 0
  /\ phase = "off"
  /\ run = "none"
  /\ image = NoImage
  /\ staged = NoImage
  /\ capsule = NoImage
  /\ job = NoJob
  /\ attempt = "none"
  /\ cameUp = {Factory}
  /\ reported = {}
  /\ kept = {}
  /\ faults = 0

-----------------------------------------------------------------------------
(* vboot's view of a slot (external): block 1 holds the VBLOCK, whose       *)
(* preamble carries the version; the body is checked after it.              *)

SlotImage(s) == flash[s][1].img
IsWhole(s)   == SlotImage(s) # NoImage /\ \A k \in Blocks : flash[s][k] = flash[s][1]
PreambleOk(s) == SlotImage(s) # NoImage /\ Version[SlotImage(s)] >= counter
Verifies(s)   == PreambleOk(s) /\ IsWhole(s)

\* coreboot takes the copy in RW_NVRAM when the block in CMOS does not verify.
Nv == IF cmos.valid THEN cmos ELSE backup

\* Roll-forward: the boot before ran this slot and was reported successful.
RolledCounter(b, s) ==
  IF /\ PreambleOk(s)
     /\ Version[SlotImage(s)] > counter
     /\ b.tried = s
     /\ b.result = "success"
  THEN Version[SlotImage(s)]
  ELSE counter

-----------------------------------------------------------------------------
(* Power and resets                                                          *)

PowerOn ==
  /\ phase = "off"
  /\ phase' = "verstage"
  /\ UNCHANGED <<flash, cmos, backup, counter, run, image, staged, capsule,
                 job, attempt, cameUp, reported, kept, faults>>

ForgetBoot ==
  /\ run' = "none"
  /\ image' = NoImage
  /\ capsule' = NoImage
  /\ job' = NoJob

\* The power cut while ArmTrialBoot() writes its sixteen bytes leaves the old
\* block, the new one, or one whose CRC is wrong.
CmosAfterCut ==
  IF phase = "arming"
  THEN {cmos, ArmTrialBoot(cmos, Other(run)), Torn(cmos)}
  ELSE {cmos}

PowerCut ==
  /\ phase \notin {"off", "os", "hung"}
  /\ faults < MaxFaults
  /\ faults' = faults + 1
  /\ phase' = "off"
  /\ staged' = NoImage
  /\ cmos' \in CmosAfterCut
  /\ ForgetBoot
  /\ kept' = IF phase = "arming" THEN kept \ {Other(run)} ELSE kept
  /\ UNCHANGED <<flash, backup, counter, attempt, cameUp, reported>>

\* The user turns the machine off; the only way out of a hang.
PowerOff ==
  /\ phase \in {"os", "hung"}
  /\ phase' = "off"
  /\ staged' = NoImage
  /\ ForgetBoot
  /\ UNCHANGED <<flash, cmos, backup, counter, attempt, cameUp, reported,
                 kept, faults>>

\* The coin cell is pulled.
CmosLoss ==
  /\ phase = "off"
  /\ cmos.valid
  /\ faults < MaxFaults
  /\ faults' = faults + 1
  /\ cmos' = Torn(cmos)
  /\ UNCHANGED <<flash, backup, counter, phase, run, image, staged, capsule,
                 job, attempt, cameUp, reported, kept>>

-----------------------------------------------------------------------------
(* One boot: verstage picks a slot, ramstage hands over to the payload      *)

EnterRecovery ==
  /\ phase = "verstage"
  /\ Nv.recovery
  /\ cmos' = Nv
  /\ run' = "RO"
  /\ phase' = "romstage"
  /\ UNCHANGED <<flash, backup, counter, image, staged, capsule, job,
                 attempt, cameUp, reported, kept, faults>>

BootSlot ==
  /\ phase = "verstage"
  /\ ~Nv.recovery
  /\ LET s == SelectedSlot(Nv)
     IN  /\ Verifies(s)
         /\ cmos' = SelectFwSlot(Nv)
         /\ counter' = RolledCounter(Nv, s)
         /\ run' = s
         /\ image' = SlotImage(s)
  /\ phase' = "romstage"
  /\ UNCHANGED <<flash, backup, staged, capsule, job, attempt, cameUp,
                 reported, kept, faults>>

RejectSlot ==
  /\ phase = "verstage"
  /\ ~Nv.recovery
  /\ LET s == SelectedSlot(Nv)
     IN  /\ ~Verifies(s)
         /\ cmos' = FailFwSlot(Nv)
         /\ counter' = RolledCounter(Nv, s)
  /\ UNCHANGED <<flash, backup, phase, run, image, staged, capsule, job,
                 attempt, cameUp, reported, kept, faults>>

\* FSP-M runs in place: the half linked for the other slot hangs in romstage.
HangsEarly ==
  run \in Slots /\ (flash[run][1].half # run \/ Dies[image] = "early")

\* Mutant: the request is still there after the recovery boot.
RamstageKeepsRequest ==
  /\ phase = "romstage"
  /\ phase' = IF HangsEarly THEN "hung" ELSE "payload"
  /\ backup' = Nv
  /\ capsule' = staged
  /\ staged' = NoImage
  /\ UNCHANGED <<flash, cmos, counter, run, image, job, attempt, cameUp,
                 reported, kept, faults>>

\* Mutant: the capsule is still in memory for the next boot.
RamstageKeepsCapsule ==
  /\ phase = "romstage"
  /\ phase' = IF HangsEarly THEN "hung" ELSE "payload"
  /\ cmos' = [Nv EXCEPT !.recovery = FALSE]
  /\ backup' = [Nv EXCEPT !.recovery = FALSE]
  /\ capsule' = staged
  /\ UNCHANGED <<flash, counter, run, image, staged, job, attempt, cameUp,
                 reported, kept, faults>>

\* Ramstage clears a recovery request, copies the block to RW_NVRAM and counts
\* the capsules once; the SMI handler's full-flash access hangs on that count.
Ramstage ==
  /\ phase = "romstage"
  /\ IF HangsEarly
     THEN /\ phase' = "hung"
          /\ UNCHANGED <<cmos, backup, staged, capsule>>
     ELSE /\ phase' = "payload"
          /\ cmos' = [Nv EXCEPT !.recovery = FALSE]
          /\ backup' = [Nv EXCEPT !.recovery = FALSE]
          /\ capsule' = staged
          /\ staged' = NoImage
  /\ UNCHANGED <<flash, counter, run, image, job, attempt, cameUp, reported,
                 kept, faults>>

\* Capsules are processed before an OS is booted.
BootOs ==
  /\ \/ phase = "processed"
     \/ phase = "payload" /\ capsule = NoImage
  /\ IF run \in Slots /\ Dies[image] = "late"
     THEN phase' = "hung" /\ UNCHANGED cameUp
     ELSE /\ phase' = "os"
          /\ cameUp' = IF run \in Slots THEN cameUp \cup {image} ELSE cameUp
  /\ UNCHANGED <<flash, cmos, backup, counter, run, image, staged, capsule,
                 job, attempt, reported, kept, faults>>

\* A processed capsule may be followed by a reset even when it failed.
ResetAfterCapsule ==
  /\ phase = "processed"
  /\ capsule # NoImage
  /\ phase' = "verstage"
  /\ ForgetBoot
  /\ UNCHANGED <<flash, cmos, backup, counter, staged, attempt, cameUp,
                 reported, kept, faults>>

-----------------------------------------------------------------------------
(* FmpDeviceSlotLib                                                          *)

HasCapsules == capsule # NoImage

\* Mutant: the CBFS offset taken for the target, not for the running slot.
ResolveSlotRunning == run

\* ResolveSlot(): the slot that does not hold the CBFS this boot came from.
ResolveSlot == Other(run)

\* Mutant: mImageOffset left at zero.
HalfToWriteFirst(i) == Half(i, "A")

\* Both halves travel in the image; mImageOffset picks the target's.
HalfToWrite(i) == Half(i, ResolveSlot)

\* FmpDeviceCheckImageWithStatus() and the read buffer after it; "none" lets
\* the write begin.  The slots of every layout here are block aligned.
CheckImage(i) ==
  IF run = "RO" THEN {"no_layout"}
  ELSE IF i \notin Fits THEN {"image_size"}
  ELSE {"none", "no_smmstore", "out_of_memory"}

\* FmpDxe calls for the capsule of this boot; without one an application can
\* still call, and finds the flash closed.
SetImage(i) ==
  /\ phase = "payload"
  /\ HasCapsules => i = capsule
  /\ \E status \in CheckImage(i) :
       /\ attempt' = status
       /\ IF status = "none"
          THEN /\ phase' = "writing"
               /\ job' = [img |-> i, next |-> 1, erased |-> FALSE]
          ELSE phase' = "processed" /\ UNCHANGED job
  /\ UNCHANGED <<flash, cmos, backup, counter, run, image, staged, capsule,
                 cameUp, reported, kept, faults>>

Writing == phase = "writing" /\ job.next \in Blocks

\* Mutant: the loop variable advanced by the skip as well.
SkipBlockTwice ==
  /\ Writing
  /\ ~job.erased
  /\ HasCapsules
  /\ flash[ResolveSlot][job.next] = HalfToWrite(job.img)
  /\ job' = [job EXCEPT !.next = job.next + 2]
  /\ UNCHANGED <<flash, cmos, backup, counter, phase, run, image, staged,
                 capsule, attempt, cameUp, reported, kept, faults>>

\* A block that can be read and already matches costs no flash cycle.
SkipBlock ==
  /\ Writing
  /\ ~job.erased
  /\ HasCapsules
  /\ flash[ResolveSlot][job.next] = HalfToWrite(job.img)
  /\ job' = [job EXCEPT !.next = job.next + 1]
  /\ UNCHANGED <<flash, cmos, backup, counter, phase, run, image, staged,
                 capsule, attempt, cameUp, reported, kept, faults>>

\* An unreadable block is rewritten too, so a match does not forbid the erase.
EraseBlock ==
  /\ Writing
  /\ ~job.erased
  /\ HasCapsules
  /\ flash' = [flash EXCEPT ![ResolveSlot][job.next] = Junk]
  /\ job' = [job EXCEPT !.erased = TRUE]
  /\ kept' = kept \ {ResolveSlot}
  /\ UNCHANGED <<cmos, backup, counter, phase, run, image, staged, capsule,
                 attempt, cameUp, reported, faults>>

WriteBlock ==
  /\ Writing
  /\ job.erased
  /\ flash' = [flash EXCEPT ![ResolveSlot][job.next] = HalfToWrite(job.img)]
  /\ job' = [job EXCEPT !.next = job.next + 1, !.erased = FALSE]
  /\ UNCHANGED <<cmos, backup, counter, phase, run, image, staged, capsule,
                 attempt, cameUp, reported, kept, faults>>

\* The Failed: label, with and without full-flash access.
RefuseBlock ==
  /\ Writing
  /\ ~HasCapsules
  /\ attempt' = "no_flash_access"
  /\ phase' = "processed"
  /\ job' = NoJob
  /\ UNCHANGED <<flash, cmos, backup, counter, run, image, staged, capsule,
                 cameUp, reported, kept, faults>>

FailBlock ==
  /\ Writing
  /\ HasCapsules
  /\ faults < MaxFaults
  /\ faults' = faults + 1
  /\ attempt' = IF job.erased THEN "write_failed" ELSE "erase_failed"
  /\ flash' \in {flash, [flash EXCEPT ![ResolveSlot][job.next] = Junk]}
  /\ phase' = "processed"
  /\ job' = NoJob
  /\ kept' = kept \ {ResolveSlot}
  /\ UNCHANGED <<cmos, backup, counter, run, image, staged, capsule, cameUp,
                 reported>>

\* Mutant: the loop ends one block early.
SlotWrittenEarly ==
  /\ phase = "writing"
  /\ job.next = NBlocks
  /\ phase' = "arming"
  /\ UNCHANGED <<flash, cmos, backup, counter, run, image, staged, capsule,
                 job, attempt, cameUp, reported, kept, faults>>

\* Only a slot written to its last block is armed.
SlotWritten ==
  /\ phase = "writing"
  /\ job.next = NBlocks + 1
  /\ phase' = "arming"
  /\ UNCHANGED <<flash, cmos, backup, counter, run, image, staged, capsule,
                 job, attempt, cameUp, reported, kept, faults>>

\* The block verified, was written and read back; the platform resets.
Arm ==
  /\ phase = "arming"
  /\ cmos' = ArmTrialBoot(cmos, ResolveSlot)
  /\ attempt' = "success"
  /\ phase' = "verstage"
  /\ kept' = kept \ {ResolveSlot}
  /\ ForgetBoot
  /\ UNCHANGED <<flash, backup, counter, staged, cameUp, reported, 
                 faults>>

\* The block did not verify and is left alone, or the write did not stick.
ArmFails ==
  /\ phase = "arming"
  /\ faults < MaxFaults
  /\ faults' = faults + 1
  /\ cmos' \in {cmos, Torn(cmos)}
  /\ attempt' = "vbnv_failed"
  /\ phase' = "processed"
  /\ job' = NoJob
  /\ UNCHANGED <<flash, backup, counter, run, image, staged, capsule, cameUp,
                 reported, kept>>

-----------------------------------------------------------------------------
(* The OS: scripts/vbnv.py, flashrom, fwupd or the kernel's capsule loader.  *)
(* Each vbnv.py command refuses a block that does not verify.                *)

InOs(op) == phase = "os" /\ op \in OsOps

\* Mutant: the firmware reports for the OS, before there is one.
BootOkFromPayload ==
  /\ phase \in {"payload", "os"}
  /\ cmos.valid
  /\ cmos.result # "success"
  /\ cmos' = MarkSuccess(cmos)
  /\ reported' = IF run \in Slots THEN reported \cup {image} ELSE reported
  /\ kept' = IF run \in Slots THEN kept \cup {run} ELSE kept
  /\ UNCHANGED <<flash, backup, counter, phase, run, image, staged, capsule,
                 job, attempt, cameUp, faults>>

\* Mutant: the slot marked good is made the next one as well.
BootOkSelects ==
  /\ phase = "os"
  /\ cmos.valid
  /\ cmos.result # "success"
  /\ cmos' = SelectNext(MarkSuccess(cmos), cmos.tried)
  /\ reported' = IF run \in Slots THEN reported \cup {image} ELSE reported
  /\ kept' = IF run \in Slots THEN kept \cup {run} ELSE kept
  /\ UNCHANGED <<flash, backup, counter, phase, run, image, staged, capsule,
                 job, attempt, cameUp, faults>>

\* vboot-boot-ok.service runs in every boot, a recovery boot included.
BootOk ==
  /\ phase = "os"
  /\ cmos.valid
  /\ cmos.result # "success"
  /\ cmos' = MarkSuccess(cmos)
  /\ reported' = IF run \in Slots THEN reported \cup {image} ELSE reported
  /\ kept' = IF run \in Slots THEN kept \cup {run} ELSE kept
  /\ UNCHANGED <<flash, backup, counter, phase, run, image, staged, capsule,
                 job, attempt, cameUp, faults>>

\* The documented flow touches the slot not running and nothing else.
MayTouch(s) == s # cmos.tried \/ "inplace" \in OsOps

CmdArmUpdate(s, n) ==
  /\ InOs("arm")
  /\ cmos.valid
  /\ s = InactiveSlot(cmos) \/ "inplace" \in OsOps
  /\ cmos' = ArmUpdate(cmos, s, n)
  /\ kept' = kept \ {s}
  /\ UNCHANGED <<flash, backup, counter, phase, run, image, staged, capsule,
                 job, attempt, cameUp, reported, faults>>

CmdTryNext(s) ==
  /\ InOs("trynext")
  /\ cmos.valid
  /\ cmos.tryNext # s
  /\ cmos' = SelectNext(cmos, s)
  /\ UNCHANGED <<flash, backup, counter, phase, run, image, staged, capsule,
                 job, attempt, cameUp, reported, kept, faults>>

\* flashrom -i RW_SECTION_<s>, verified or interrupted.
FlashSlot(s, i) ==
  /\ InOs("flash")
  /\ MayTouch(s)
  /\ flash' = [flash EXCEPT ![s] = [k \in Blocks |-> Half(i, s)]]
  /\ kept' = kept \ {s}
  /\ UNCHANGED <<cmos, backup, counter, phase, run, image, staged, capsule,
                 job, attempt, cameUp, reported, faults>>

FlashCut(s, i, k) ==
  /\ InOs("flash")
  /\ MayTouch(s)
  /\ faults < MaxFaults
  /\ faults' = faults + 1
  /\ flash' = [flash EXCEPT ![s] =
                 [j \in Blocks |-> IF j < k THEN Half(i, s)
                                   ELSE IF j = k THEN Junk
                                   ELSE flash[s][j]]]
  /\ phase' = "off"
  /\ kept' = kept \ {s}
  /\ staged' = NoImage
  /\ ForgetBoot
  /\ UNCHANGED <<cmos, backup, counter, attempt, cameUp, reported>>

StageCapsule(i) ==
  /\ InOs("stage")
  /\ staged' = i
  /\ UNCHANGED <<flash, cmos, backup, counter, phase, run, image, capsule,
                 job, attempt, cameUp, reported, kept, faults>>

\* A warm reset keeps the staged capsule.
Reboot ==
  /\ phase = "os"
  /\ phase' = "verstage"
  /\ ForgetBoot
  /\ UNCHANGED <<flash, cmos, backup, counter, staged, attempt, cameUp,
                 reported, kept, faults>>

-----------------------------------------------------------------------------

\* The steps the machine takes by itself; each phase but "os" has one.
Firmware ==
  \/ PowerOn
  \/ EnterRecovery
  \/ BootSlot
  \/ RejectSlot
  \/ Ramstage
  \/ BootOs
  \/ ResetAfterCapsule
  \/ \E i \in Images : SetImage(i)
  \/ SkipBlock
  \/ EraseBlock
  \/ WriteBlock
  \/ RefuseBlock
  \/ SlotWritten
  \/ Arm

Fault == PowerCut \/ CmosLoss \/ FailBlock \/ ArmFails

Os ==
  \/ BootOk
  \/ \E s \in Slots, n \in 1 .. MaxTries : CmdArmUpdate(s, n)
  \/ \E s \in Slots : CmdTryNext(s)
  \/ \E s \in Slots, i \in Fits : FlashSlot(s, i)
  \/ \E s \in Slots, i \in Fits, k \in Blocks : FlashCut(s, i, k)
  \/ \E i \in Images : StageCapsule(i)
  \/ Reboot

Next == Firmware \/ Fault \/ Os \/ PowerOff

Spec == Init /\ [][Next]_vars

\* The machine runs while it has power, and a user facing a hang turns it off.
Fairness == WF_vars(Firmware) /\ WF_vars(phase = "hung" /\ PowerOff)

FairSpec == Spec /\ Fairness

-----------------------------------------------------------------------------
(* Properties                                                                *)

\* A slot the machine can go back to: it verifies, and its release has been
\* in userspace on this machine.
Fallback(s) == /\ Verifies(s)
               /\ flash[s][1].half = s
               /\ SlotImage(s) \in cameUp

\* However an update is cut short, and whatever it carried, one slot stays
\* bootable with a release that has worked here (0003: "A slot that never
\* comes up costs one boot and the machine returns to the old one").
FallbackSurvives == \E s \in Slots : Fallback(s)

\* The rollback counter holds the version of a release that came up here and
\* reported success itself: an update that does not work cannot raise it
\* (vbnv.py: "the counter waits for the new image to report for itself").
CounterWaits ==
  counter = 0 \/ \E i \in reported \cap cameUp : Version[i] = counter

\* SetImage never touches the running slot, never writes without a capsule in
\* this boot, and writes no half that was linked for the other slot.
WritesTargetOnly ==
  [][(phase \in {"writing", "arming"} /\ flash' # flash) =>
        /\ HasCapsules
        /\ run \in Slots
        /\ flash'[run] = flash[run]
        /\ \A k \in Blocks : flash'[Other(run)][k] # flash[Other(run)][k] =>
              flash'[Other(run)][k] \in {Junk, Half(job.img, Other(run))}]_vars

\* A trial is pending only for a slot that was written to its last block, and
\* never for one that holds the wrong half (ArmTrialBoot, arm-update).
ArmedSlotWhole ==
  (cmos.valid /\ cmos.tryCount > 0) =>
     IsWhole(cmos.tryNext) /\ flash[cmos.tryNext][1].half = cmos.tryNext

\* When the ESRT says success, the next boot does try what was written, once.
SuccessMeansArmed ==
  [][(attempt' = "success" /\ attempt # "success") =>
        /\ IsWhole(Other(run))
        /\ SlotImage(Other(run)) = capsule
        /\ cmos'.valid
        /\ SelectedSlot(cmos') = Other(run)
        /\ cmos'.tryCount = 1]_vars

\* With the block intact, vboot leaves a slot for the other one only if the
\* slot's trial has not reported (vbnv.py: "Runs out of tries without a report
\* and the boot after falls back").
ReportSticks ==
  [][(/\ phase = "verstage"
      /\ cmos.valid
      /\ run' \in Slots
      /\ run' # cmos.tryNext) => cmos.tryNext \notin kept]_vars

\* A boot that vboot marks as a trial moves the rollback counter only for a
\* release that has reported success (vbnv.py, arm-update: "the rollback
\* counter cannot move until the new image itself reports success").
TrialHoldsCounter ==
  [][(counter' # counter /\ cmos'.result = "trying") => image' \in reported]_vars

\* The recovery half is entered only while a slot does not verify: a request
\* left in CMOS does not outlive the repair of both (the clearing in ramstage,
\* which runs before the OS that repairs them).
RecoveryMeansBroken ==
  [][run' = "RO" /\ run # "RO" => \E s \in Slots : ~Verifies(s)]_vars

\* What boot-ok reports in a recovery boot, where neither slot came up, is of a
\* slot that the next boot does not choose: the roll-forward never takes it for
\* the report of a slot that was repaired in that boot (vbnv.py, boot-ok:
\* "Report this boot as successful, so the next one can roll the TPM rollback
\* counter forward").  With try-next or an explicit slot for arm-update the user
\* can choose that slot; the runs and the theorem are about capsules and flashrom.
RecoveryReportsIdle ==
  (phase = "os" /\ run = "RO" /\ cmos.valid) => SelectedSlot(cmos) # cmos.tried

\* Whatever an update carried and however it was cut short, the machine keeps
\* coming up (GUIDE: "the next boot falls back to the old slot on its own").
ComesUp == []<>(phase = "os")
=============================================================================
