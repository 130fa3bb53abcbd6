----------------------- MODULE CapsuleRefinement_proofs -----------------------
(***************************************************************************)
(* With updates by capsule alone, for any releases, blocks and faults: what *)
(* an armed trial stands for (TrialInv next to CapsuleOnlyInv, action by    *)
(* action), and that the machine implements SafeUpdate.  Most steps leave   *)
(* all four abstract variables as they are; those that do not have a lemma  *)
(* each.                                                                    *)
(***************************************************************************)
EXTENDS CapsuleRefinement, CapsuleUpdate_proofs

(* Trials                                                                    *)

LEMMA TrialInit == Init => TrialInv
BY DEF Init, TrialInv, ProgressInv, ArmedSlotWhole, KeptInv, FreshBlock

\* The block stays, or is torn: no trial begins.
LEMMA QuietBlock ==
  ASSUME cmos \in Block, ArmedSlotWhole, KeptInv,
         flash' = flash, kept' \subseteq kept, cmos' \in {cmos, Torn(cmos)}
  PROVE  ArmedSlotWhole' /\ KeptInv'
<1>1. CASE cmos' = cmos
  BY <1>1 DEF ArmedSlotWhole, KeptInv, IsWhole, SlotImage
<1>2. CASE cmos' = Torn(cmos)
  <2>1. ~cmos'.valid
    BY <1>2 DEF Torn, Block
  <2> QED BY <2>1 DEF ArmedSlotWhole, KeptInv
<1> QED BY <1>1, <1>2

\* Neither is there one in the block.
LEMMA SpentBlock ==
  ASSUME cmos'.tryCount = 0, cmos'.result # "trying"
  PROVE  ArmedSlotWhole' /\ KeptInv'
BY DEF ArmedSlotWhole, KeptInv

\* The block that ArmTrialBoot() writes, whether the machine then resets or
\* loses power.
LEMMA TrialArmed ==
  ASSUME TypeInv, CapsuleOnlyInv, TrialInv, phase = "arming", flash' = flash,
         cmos' = ArmTrialBoot(cmos, Other(run)), kept' = kept \ {Other(run)}
  PROVE  /\ ArmedSlotWhole' /\ KeptInv'
         /\ IsWhole(Other(run)) /\ SlotImage(Other(run)) = capsule
         /\ cmos'.valid /\ cmos'.tryCount = 1 /\ cmos'.tryNext = Other(run)
<1>1. capsule # NoImage
  BY DEF CapsuleOnlyInv, CapsuleInv
<1>2. /\ cmos \in Block /\ cmos.valid
      /\ run \in Slots /\ Other(run) \in Slots
  BY <1>1, RunWorks, OtherSlot DEF SettledBlock, FallbackSlots
<1>3. /\ cmos'.valid = cmos.valid /\ cmos'.tryCount = 1
      /\ cmos'.tryNext = Other(run)
  BY <1>2 DEF ArmTrialBoot, Block
<1>4. \A k \in Blocks : flash[Other(run)][k] = Half(capsule, Other(run))
  BY Constants DEF TrialInv, ProgressInv, Written, Blocks
<1>5. /\ IsWhole(Other(run)) /\ SlotImage(Other(run)) = capsule
      /\ flash[Other(run)][1].half = Other(run)
  BY <1>1, <1>4, OneBlock DEF IsWhole, SlotImage, Half
<1>6. ArmedSlotWhole'
  BY <1>3, <1>5 DEF ArmedSlotWhole, IsWhole, SlotImage
<1>7. KeptInv'
  BY <1>3 DEF KeptInv
<1> QED BY <1>2, <1>3, <1>5, <1>6, <1>7

LEMMA TrialPower ==
  ASSUME TypeInv, CapsuleOnlyInv, TrialInv,
         PowerOn \/ PowerOff \/ CmosLoss \/ PowerCut \/ Arm
  PROVE  TrialInv'
<1>1. /\ phase' \in {"off", "verstage"} /\ flash' = flash
      /\ kept' \subseteq kept
  BY DEF PowerOn, PowerOff, CmosLoss, PowerCut, Arm
<1>2. run' = "none"
  BY DEF PowerOn, PowerOff, CmosLoss, PowerCut, Arm, ForgetBoot, TrialInv,
         ProgressInv
<1>3. ProgressInv'
  BY <1>1, <1>2 DEF ProgressInv
<1>4. CASE cmos' \in {cmos, Torn(cmos)}
  BY <1>1, <1>3, <1>4, QuietBlock DEF TrialInv, TypeInv, TypeOK
<1>5. CASE cmos' \notin {cmos, Torn(cmos)}
  <2>1. /\ phase = "arming" /\ cmos' = ArmTrialBoot(cmos, Other(run))
        /\ kept' = kept \ {Other(run)}
    BY <1>5 DEF PowerOn, PowerOff, CmosLoss, PowerCut, Arm, CmosAfterCut,
                ResolveSlot
  <2> QED BY <1>1, <1>3, <2>1, TrialArmed DEF TrialInv
<1> QED BY <1>4, <1>5

\* vboot takes the only try from the block, or gives the slot up.
LEMMA TrialVerstage ==
  ASSUME TypeInv, CapsuleOnlyInv, TrialInv, BootSlot \/ RejectSlot
  PROVE  TrialInv'
<1>1. /\ Nv \in Block /\ SafeBlock(Nv) /\ Nv.tryNext \in Slots
      /\ Nv.tryCount \in {0, 1}
  BY NvSafe, BlockFields DEF CapsuleOnlyInv, SafeBlock
<1>2. flash' = flash /\ kept' = kept
  BY DEF BootSlot, RejectSlot
<1>3. ProgressInv'
  BY DEF BootSlot, RejectSlot, TrialInv, ProgressInv
<1>4. CASE RejectSlot
  <2>1. cmos'.tryCount = 0 /\ cmos'.result = "failure"
    BY <1>1, <1>4 DEF RejectSlot, FailFwSlot, Block
  <2> QED BY <1>3, <2>1, SpentBlock DEF TrialInv
<1>5. CASE BootSlot
  <2>1. /\ cmos'.tryCount = 0
        /\ cmos'.tryNext = SelectedSlot(Nv)
        /\ cmos'.result = IF Nv.tryCount > 0 THEN "trying" ELSE "unknown"
    BY <1>1, <1>5 DEF BootSlot, SelectFwSlot, Block
  <2>2. ArmedSlotWhole'
    BY <2>1 DEF ArmedSlotWhole
  <2>3. KeptInv'
    <3>1. CASE Nv.tryCount = 0
      BY <2>1, <3>1 DEF KeptInv
    <3>2. CASE Nv.tryCount = 1
      <4>1. cmos.valid /\ Nv = cmos
        BY <3>2 DEF Nv, CapsuleOnlyInv, BlockInv, SettledBlock
      <4>2. SelectedSlot(Nv) = cmos.tryNext
        BY <3>2, <4>1 DEF SelectedSlot, SpentTrial
      <4>3. cmos.tryNext \notin kept
        BY <3>2, <4>1 DEF TrialInv, KeptInv
      <4> QED BY <1>2, <2>1, <4>2, <4>3 DEF KeptInv
    <3> QED BY <1>1, <3>1, <3>2
  <2> QED BY <1>3, <2>2, <2>3 DEF TrialInv
<1> QED BY <1>4, <1>5

LEMMA TrialRamstage ==
  ASSUME TypeInv, CapsuleOnlyInv, TrialInv, Ramstage
  PROVE  TrialInv'
<1>1. /\ phase = "romstage" /\ SettledBlock(cmos)
      /\ flash' = flash /\ kept' = kept
      /\ phase' \in {"hung", "payload"}
  BY DEF Ramstage, CapsuleOnlyInv, RunInv, Booted
<1>2. cmos.valid /\ Nv = cmos /\ ~cmos.recovery
  BY <1>1 DEF SettledBlock, Nv, CapsuleOnlyInv, BlockInv, SafeBlock
<1>3. cmos' = cmos
  BY <1>2, NotRequested DEF Ramstage, TypeInv, TypeOK
<1>4. ProgressInv'
  BY <1>1 DEF ProgressInv
<1> QED BY <1>1, <1>3, <1>4, QuietBlock DEF TrialInv, TypeInv, TypeOK

\* The service of the OS; an earlier try has always been taken.
LEMMA TrialBootOk ==
  ASSUME TypeInv, CapsuleOnlyInv, TrialInv, BootOk
  PROVE  TrialInv'
<1>1. /\ phase = "os" /\ phase' = "os" /\ cmos.valid
      /\ cmos' = MarkSuccess(cmos) /\ cmos \in Block
      /\ cmos \in {backup, Torn(backup), MarkSuccess(backup)}
      /\ backup \in Block /\ backup.tryCount = 0
  BY DEF BootOk, CapsuleOnlyInv, RunInv, BlockInv, SettledBlock, TypeInv,
         TypeOK, Booted
<1>2. cmos.tryCount = 0
  BY <1>1 DEF Torn, MarkSuccess, Block
<1>3. cmos'.tryCount = 0 /\ cmos'.result = "success"
  BY <1>1, <1>2 DEF MarkSuccess, Block
<1>4. ProgressInv'
  BY <1>1 DEF ProgressInv
<1> QED BY <1>3, <1>4, SpentBlock DEF TrialInv

\* Steps of the payload and the OS that write neither slot nor block, or tear it.
LEMMA TrialElsewhere ==
  ASSUME TypeInv, CapsuleOnlyInv, TrialInv,
         BootOs \/ ResetAfterCapsule \/ RefuseBlock \/ ArmFails \/ Reboot
           \/ \E i \in Images : StageCapsule(i)
  PROVE  TrialInv'
<1>1. /\ flash' = flash /\ kept' = kept /\ cmos' \in {cmos, Torn(cmos)}
      /\ \/ phase' \in {"os", "hung", "processed"}
         \/ phase' = "verstage" /\ run' = "none"
  BY DEF BootOs, ResetAfterCapsule, RefuseBlock, ArmFails, Reboot,
         StageCapsule, ForgetBoot, InOs
<1>2. ProgressInv'
  BY <1>1 DEF ProgressInv
<1> QED BY <1>1, <1>2, QuietBlock DEF TrialInv, TypeInv, TypeOK

LEMMA TrialLoop ==
  ASSUME TypeInv, CapsuleOnlyInv, TrialInv,
         (\E i \in Images : SetImage(i)) \/ SkipBlock \/ SlotWritten
  PROVE  TrialInv'
<1>1. UNCHANGED <<flash, kept, cmos, run, capsule>>
  BY DEF SetImage, SkipBlock, SlotWritten
<1>2. ArmedSlotWhole' /\ KeptInv'
  BY <1>1, QuietBlock DEF TrialInv, TypeInv, TypeOK
<1>3. ASSUME NEW i \in Images, SetImage(i) PROVE ProgressInv'
  <2>1. CASE phase' = "processed"
    BY <2>1 DEF ProgressInv
  <2>2. CASE phase' = "writing"
    <3>1. /\ job' = [img |-> i, next |-> 1, erased |-> FALSE]
          /\ HasCapsules => i = capsule
      BY <1>3, <2>2 DEF SetImage
    <3>2. job'.img = i /\ job'.next = 1
      BY <3>1
    <3>3. \A k \in Blocks : ~(k < 1)
      BY DEF Blocks
    <3> QED
      BY <1>1, <2>2, <3>1, <3>2, <3>3 DEF ProgressInv, Written, HasCapsules
  <2> QED BY <1>3, <2>1, <2>2 DEF SetImage
<1>4. CASE SkipBlock
  <2>1. /\ phase = "writing" /\ phase' = "writing" /\ capsule # NoImage
        /\ job.next \in Blocks /\ job \in Jobs
        /\ job' = [job EXCEPT !.next = job.next + 1]
        /\ flash[Other(run)][job.next] = Half(job.img, Other(run))
    BY <1>4 DEF SkipBlock, Writing, HasCapsules, ResolveSlot, HalfToWrite,
                TypeInv, TypeOK
  <2>2. job'.img = job.img /\ job'.next = job.next + 1
    BY <2>1 DEF Jobs
  <2>3. job.img = capsule /\ Written(job.next)
    BY <2>1 DEF TrialInv, ProgressInv
  <2>4. \A k \in Blocks : k < job.next + 1 => k < job.next \/ k = job.next
    BY <2>1 DEF Blocks
  <2>5. Written(job.next + 1)
    BY <2>1, <2>3, <2>4 DEF Written
  <2>6. \A k \in Blocks : k < job'.next =>
          flash'[Other(run')][k] = Half(capsule', Other(run'))
    BY <1>1, <2>2, <2>5 DEF Written
  <2>7. job'.img = capsule' /\ phase' = "writing"
    BY <1>1, <2>1, <2>2, <2>3
  <2> QED BY <1>2, <2>6, <2>7 DEF TrialInv, ProgressInv, Written
<1>5. CASE SlotWritten
  <2>1. phase = "writing" /\ phase' = "arming" /\ job.next = NBlocks + 1
    BY <1>5 DEF SlotWritten
  <2>2. capsule # NoImage
    BY <2>1, Constants DEF CapsuleOnlyInv, CapsuleInv
  <2>3. Written(NBlocks + 1)
    BY <2>1, <2>2 DEF TrialInv, ProgressInv
  <2>4. \A k \in Blocks : k < NBlocks + 1 =>
          flash'[Other(run')][k] = Half(capsule', Other(run'))
    BY <1>1, <2>3 DEF Written
  <2> QED BY <1>2, <2>1, <2>4 DEF TrialInv, ProgressInv, Written
<1> QED BY <1>2, <1>3, <1>4, <1>5 DEF TrialInv

\* The target is written while no trial is pending.
LEMMA TrialWrites ==
  ASSUME TypeInv, CapsuleOnlyInv, TrialInv,
         EraseBlock \/ WriteBlock \/ FailBlock
  PROVE  TrialInv'
<1>1. /\ phase = "writing" /\ capsule # NoImage /\ job.next \in Blocks
      /\ UNCHANGED <<cmos, run, capsule>> /\ kept' \subseteq kept
  BY DEF EraseBlock, WriteBlock, FailBlock, Writing, HasCapsules,
         CapsuleOnlyInv, CapsuleInv
<1>2. /\ cmos.tryCount = 0 /\ cmos.result = "unknown"
      /\ run \in Slots /\ Other(run) \in Slots
  BY <1>1, RunWorks, OtherSlot DEF SettledBlock, FallbackSlots
<1>3. ArmedSlotWhole' /\ KeptInv'
  BY <1>1, <1>2, SpentBlock
<1>4. /\ job \in Jobs /\ flash \in [Slots -> [Blocks -> Content]]
      /\ job.img = capsule /\ Written(job.next)
  BY <1>1 DEF TypeInv, TypeOK, TrialInv, ProgressInv
<1>5. CASE FailBlock
  BY <1>3, <1>5 DEF FailBlock, TrialInv, ProgressInv
<1>6. CASE EraseBlock
  <2>1. /\ flash' = [flash EXCEPT ![Other(run)][job.next] = Junk]
        /\ job' = [job EXCEPT !.erased = TRUE] /\ phase' = "writing"
    BY <1>1, <1>6 DEF EraseBlock, ResolveSlot
  <2>2. job'.img = job.img /\ job'.next = job.next
    BY <1>4, <2>1 DEF Jobs
  <2>3. \A k \in Blocks : k < job.next =>
          flash'[Other(run)][k] = flash[Other(run)][k]
    <3> HIDE DEF Junk
    <3>1. \A k \in Blocks : k < job.next => k # job.next
      BY <1>1 DEF Blocks
    <3> QED BY <1>2, <1>4, <2>1, <3>1
  <2> QED BY <1>1, <1>3, <1>4, <2>1, <2>2, <2>3 DEF TrialInv, ProgressInv, Written
<1>7. CASE WriteBlock
  <2>1. /\ flash' = [flash EXCEPT ![Other(run)][job.next] =
                       Half(capsule, Other(run))]
        /\ job' = [job EXCEPT !.next = job.next + 1, !.erased = FALSE]
        /\ phase' = "writing"
    BY <1>1, <1>4, <1>7 DEF WriteBlock, ResolveSlot, HalfToWrite
  <2>2. job'.img = job.img /\ job'.next = job.next + 1
    BY <1>4, <2>1 DEF Jobs
  <2>3. \A k \in Blocks : k < job.next + 1 => k < job.next \/ k = job.next
    BY <1>1 DEF Blocks
  <2>4. /\ flash'[Other(run)][job.next] = Half(capsule, Other(run))
        /\ \A k \in Blocks : k # job.next =>
             flash'[Other(run)][k] = flash[Other(run)][k]
    <3> HIDE DEF Half
    <3> QED BY <1>1, <1>2, <1>4, <2>1
  <2>5. \A k \in Blocks : k < job.next + 1 =>
          flash'[Other(run)][k] = Half(capsule, Other(run))
    BY <1>4, <2>3, <2>4 DEF Written
  <2> QED BY <1>1, <1>3, <1>4, <2>1, <2>2, <2>5 DEF TrialInv, ProgressInv, Written
<1> QED BY <1>5, <1>6, <1>7

-----------------------------------------------------------------------------

LEMMA TrialStep ==
  ASSUME OsOps \subseteq {"stage"},
         TypeInv, CapsuleOnlyInv, TrialInv, [Next]_vars
  PROVE  TrialInv'
<1>1. CASE UNCHANGED vars
  <2>1. UNCHANGED <<flash, cmos, kept, phase, run, capsule, job>>
    BY <1>1 DEF vars
  <2>2. ArmedSlotWhole' /\ KeptInv'
    BY <2>1, QuietBlock DEF TrialInv, TypeInv, TypeOK
  <2> QED BY <2>1, <2>2 DEF TrialInv, ProgressInv, Written
<1>2. ~InOs("arm") /\ ~InOs("trynext") /\ ~InOs("flash")
  BY DEF InOs
<1>3. ~EnterRecovery
  BY NoRecovery
<1> QED
  BY <1>1, <1>2, <1>3, TrialPower, TrialVerstage, TrialRamstage, TrialBootOk,
     TrialElsewhere, TrialLoop, TrialWrites
     DEF Next, Firmware, Fault, Os, CmdArmUpdate, CmdTryNext, FlashSlot,
         FlashCut

LEMMA TrialAlways ==
  ASSUME OsOps \subseteq {"stage"}
  PROVE  Spec => [](TypeInv /\ CapsuleOnlyInv /\ TrialInv)
<1>1. Init => TypeInv /\ CapsuleOnlyInv /\ TrialInv
  BY TypeInit, CapsuleInit, TrialInit
<1>2. TypeInv /\ CapsuleOnlyInv /\ TrialInv /\ [Next]_vars
        => (TypeInv /\ CapsuleOnlyInv /\ TrialInv)'
  BY TypeStep, CapsuleStep, TrialStep
<1> QED BY <1>1, <1>2, PTL DEF Spec

\* A pending trial is always of a slot written to its end, with its own half.
THEOREM ArmedAlwaysWhole ==
  ASSUME OsOps \subseteq {"stage"}
  PROVE  Spec => []ArmedSlotWhole
BY TrialAlways, PTL DEF TrialInv

SuccessStep ==
  (attempt' = "success" /\ attempt # "success") =>
     /\ IsWhole(Other(run))
     /\ SlotImage(Other(run)) = capsule
     /\ cmos'.valid
     /\ SelectedSlot(cmos') = Other(run)
     /\ cmos'.tryCount = 1

LEMMA SuccessStepHolds ==
  ASSUME OsOps \subseteq {"stage"},
         TypeInv, CapsuleOnlyInv, TrialInv, [Next]_vars
  PROVE  SuccessStep
<1> SUFFICES ASSUME attempt' = "success", attempt # "success"
             PROVE  SuccessStep
  BY DEF SuccessStep
<1>1. Arm
  BY DEF vars, Next, Firmware, Fault, Os, PowerOn, PowerCut, PowerOff,
         CmosLoss, EnterRecovery, BootSlot, RejectSlot, Ramstage, BootOs,
         ResetAfterCapsule, SetImage, CheckImage, SkipBlock, EraseBlock,
         WriteBlock, RefuseBlock, FailBlock, SlotWritten, ArmFails, BootOk,
         CmdArmUpdate, CmdTryNext, FlashSlot, FlashCut, StageCapsule, Reboot
<1>2. /\ phase = "arming" /\ flash' = flash
      /\ cmos' = ArmTrialBoot(cmos, Other(run)) /\ kept' = kept \ {Other(run)}
  BY <1>1 DEF Arm, ResolveSlot
<1>3. /\ IsWhole(Other(run)) /\ SlotImage(Other(run)) = capsule
      /\ cmos'.valid /\ cmos'.tryCount = 1 /\ cmos'.tryNext = Other(run)
  BY <1>2, TrialArmed
<1> QED BY <1>3 DEF SuccessStep, SelectedSlot, SpentTrial

\* The ESRT says success only for an update that the next boot tries.
THEOREM SuccessIsArmed ==
  ASSUME OsOps \subseteq {"stage"}
  PROVE  Spec => SuccessMeansArmed
<1>1. TypeInv /\ CapsuleOnlyInv /\ TrialInv /\ [Next]_vars => [SuccessStep]_vars
  BY SuccessStepHolds
<1> QED BY <1>1, TrialAlways, PTL DEF Spec, SuccessMeansArmed, SuccessStep

ReportStep ==
  (/\ phase = "verstage"
   /\ cmos.valid
   /\ run' \in Slots
   /\ run' # cmos.tryNext) => cmos.tryNext \notin kept

LEMMA ReportStepHolds ==
  ASSUME OsOps \subseteq {"stage"},
         TypeInv, CapsuleOnlyInv, TrialInv, [Next]_vars
  PROVE  ReportStep
<1> SUFFICES ASSUME phase = "verstage", cmos.valid, run' \in Slots,
                    run' # cmos.tryNext
             PROVE  cmos.tryNext \notin kept
  BY DEF ReportStep
<1>1. run = "none" /\ run \notin Slots
  BY DEF TrialInv, ProgressInv, Slots
<1>2. BootSlot
  BY <1>1, NoRecovery
     DEF vars, Next, Firmware, Fault, Os, PowerOn, PowerCut, PowerOff,
         CmosLoss, RejectSlot, Ramstage, BootOs, ForgetBoot,
         ResetAfterCapsule, SetImage, SkipBlock, EraseBlock, Writing,
         WriteBlock, RefuseBlock, FailBlock, SlotWritten, Arm, ArmFails,
         BootOk, CmdArmUpdate, CmdTryNext, FlashSlot, FlashCut, StageCapsule,
         Reboot, InOs
<1>3. SpentTrial(cmos)
  BY <1>2 DEF BootSlot, Nv, SelectedSlot
<1> QED BY <1>3 DEF SpentTrial, TrialInv, KeptInv

\* A slot that has reported keeps being booted.
THEOREM ReportAlwaysSticks ==
  ASSUME OsOps \subseteq {"stage"}
  PROVE  Spec => ReportSticks
<1>1. TypeInv /\ CapsuleOnlyInv /\ TrialInv /\ [Next]_vars => [ReportStep]_vars
  BY ReportStepHolds
<1> QED BY <1>1, TrialAlways, PTL DEF Spec, ReportSticks, ReportStep

-----------------------------------------------------------------------------
(* SafeUpdate                                                                *)

LEMMA UsableSame ==
  ASSUME FallbackSlots' = FallbackSlots,
         \A s \in Slots : SlotImage(s)' = SlotImage(s)
  PROVE  Usable' = Usable
BY DEF Usable, FallbackSlots

\* What the refinement mapping says of one fallback.
LEMMA FallbackImage ==
  ASSUME TypeInv, NEW s \in FallbackSlots
  PROVE  /\ SlotImage(s) \in Usable /\ SlotImage(s) \in Images
         /\ SlotImage(s) \in cameUp
         /\ Version[SlotImage(s)] >= counter
BY OneBlock
   DEF Usable, FallbackSlots, Fallback, Verifies, PreambleOk, IsWhole,
       TypeInv, TypeOK, SlotImage, Content

\* A step that changes none of the four, whatever else it does.
LEMMA Stutter ==
  ASSUME UNCHANGED <<flash, counter, cameUp, reported>>
  PROVE  UNCHANGED SU!vars
BY SlotsSame, UsableSame DEF SU!vars

LEMMA ImplementsInit == Init => SU!Init
<1> SUFFICES ASSUME Init PROVE SU!Init
  OBVIOUS
<1>1. /\ Factory \in Images /\ NoImage # Factory /\ Version[Factory] >= 0
      /\ counter = 0 /\ cameUp = {Factory} /\ reported = {}
  BY Constants DEF Init
<1>2. \A s \in Slots : /\ SlotImage(s) = Factory /\ flash[s][1].half = s
                       /\ \A k \in Blocks : flash[s][k] = flash[s][1]
  BY OneBlock DEF Init, SlotImage, Half
<1>3. \A s \in Slots : Fallback(s)
  BY <1>1, <1>2 DEF Fallback, Verifies, PreambleOk, IsWhole
<1>4. Usable = {Factory}
  BY <1>2, <1>3 DEF Usable, FallbackSlots, Slots
<1> QED BY <1>1, <1>4 DEF SU!Init

-----------------------------------------------------------------------------
(* The steps that the abstract machine sees *)

\* SetImage, or a flash error in it: the running slot's release stays.
LEMMA WritesReplace ==
  ASSUME TypeInv, TypeInv', CapsuleOnlyInv, CapsuleOnlyInv',
         EraseBlock \/ WriteBlock \/ FailBlock
  PROVE  SU!Replace
<1>1. /\ phase = "writing" /\ capsule # NoImage
      /\ UNCHANGED <<counter, cameUp, reported, run>>
  BY DEF EraseBlock, WriteBlock, FailBlock, Writing, HasCapsules,
         CapsuleOnlyInv, CapsuleInv
<1>2. run \in FallbackSlots
  BY <1>1, RunWorks
<1>3. flash'[run] = flash[run]
  <2>1. \E k \in Blocks : \E c : flash' = [flash EXCEPT ![Other(run)][k] = c]
        \/ flash' = flash
    BY DEF EraseBlock, WriteBlock, FailBlock, Writing, ResolveSlot
  <2>2. run \in Slots /\ Other(run) # run
        /\ flash \in [Slots -> [Blocks -> Content]]
    BY <1>2, OtherSlot DEF FallbackSlots, TypeInv, TypeOK
  <2> QED BY <2>1, <2>2
<1>4. /\ Verifies(run)' = Verifies(run) /\ SlotImage(run)' = SlotImage(run)
      /\ run \in FallbackSlots'
  BY <1>1, <1>2, <1>3
     DEF Verifies, PreambleOk, IsWhole, SlotImage, FallbackSlots, Fallback
<1>5. SlotImage(run) \in Usable /\ SlotImage(run) \in Usable'
  BY <1>1, <1>2, <1>4 DEF Usable
<1>6. \A s \in FallbackSlots' : /\ SlotImage(s)' \in cameUp'
                                /\ Version[SlotImage(s)'] >= counter'
  BY DEF FallbackSlots, Fallback, Verifies, PreambleOk, SlotImage
<1>7. Usable' \in SUBSET {i \in cameUp : Version[i] >= counter}
  BY <1>1, <1>6 DEF Usable
<1> QED BY <1>1, <1>5, <1>7 DEF SU!Replace

\* The release that runs reaches userspace.
LEMMA BootProves ==
  ASSUME TypeInv, CapsuleOnlyInv, BootOs
  PROVE  UNCHANGED SU!vars \/ \E i \in Images : SU!Prove(i)
<1>1. phase \in {"processed", "payload"}
  BY DEF BootOs
<1>2. /\ run \in Slots /\ Verifies(run) /\ image = SlotImage(run)
      /\ flash[run][1].half = run
  BY <1>1 DEF CapsuleOnlyInv, RunInv, Booted
<1>3. image \in Images /\ Version[image] >= counter
  BY <1>2, OneBlock
     DEF Verifies, PreambleOk, IsWhole, TypeInv, TypeOK, SlotImage, Content
<1>4. UNCHANGED <<flash, counter, reported, run>>
  BY DEF BootOs
<1>5. CASE cameUp' = cameUp
  BY <1>4, <1>5, Stutter
<1>6. CASE cameUp' # cameUp
  <2>1. cameUp' = cameUp \cup {image} /\ image \notin cameUp
    BY <1>2, <1>6 DEF BootOs
  <2>2. \A s \in Slots : /\ Verifies(s)' = Verifies(s)
                         /\ SlotImage(s)' = SlotImage(s)
                         /\ flash'[s][1].half = flash[s][1].half
    BY <1>4 DEF Verifies, PreambleOk, IsWhole, SlotImage
  <2>3. \A s \in Slots :
          Fallback(s)' <=> /\ Verifies(s) /\ flash[s][1].half = s
                           /\ SlotImage(s) \in cameUp \cup {image}
    BY <2>1, <2>2 DEF Fallback
  <2>4. Fallback(run)' /\ SlotImage(run)' = image
    BY <1>2, <1>4, <2>2, <2>3
  <2>5. \A s \in Slots : Fallback(s) => Fallback(s)'
    BY <2>3 DEF Fallback
  <2>6. \A s \in Slots : Fallback(s)' => Fallback(s) \/ SlotImage(s) = image
    BY <2>3 DEF Fallback
  <2>7. Usable \cup {image} \subseteq Usable'
    BY <1>2, <1>4, <2>2, <2>4, <2>5 DEF Usable, FallbackSlots
  <2>8. Usable' \subseteq Usable \cup {image}
    BY <2>2, <2>6 DEF Usable, FallbackSlots
  <2> QED BY <1>3, <1>4, <2>1, <2>7, <2>8 DEF SU!Prove
<1> QED BY <1>5, <1>6

\* boot-ok, in the release that runs.
LEMMA ReportConfirms ==
  ASSUME TypeInv, CapsuleOnlyInv, BootOk
  PROVE  \E i \in Images : SU!Confirm(i)
<1>1. /\ run \in Slots /\ Verifies(run) /\ image = SlotImage(run)
      /\ flash[run][1].half = run /\ image \in cameUp
  BY DEF BootOk, CapsuleOnlyInv, RunInv, Booted
<1>2. /\ reported' = reported \cup {image}
      /\ UNCHANGED <<flash, counter, cameUp>>
  BY <1>1 DEF BootOk
<1>3. run \in FallbackSlots
  BY <1>1 DEF FallbackSlots, Fallback
<1>4. image \in Usable /\ image \in Images
  BY <1>1, <1>3, FallbackImage
<1>5. Usable' = Usable
  BY <1>2 DEF Usable, FallbackSlots, Fallback, Verifies, PreambleOk, IsWhole,
              SlotImage
<1> QED BY <1>2, <1>4, <1>5 DEF SU!Confirm

\* vboot rolls the counter forward in the boot after the report.
LEMMA RollRaises ==
  ASSUME TypeInv, CapsuleOnlyInv, BootSlot \/ RejectSlot
  PROVE  UNCHANGED SU!vars \/ \E i \in Images : SU!RaiseFloor(i)
<1> DEFINE s == SelectedSlot(Nv)
<1>1. /\ UNCHANGED <<flash, cameUp, reported>>
      /\ counter' = RolledCounter(Nv, s)
  BY DEF BootSlot, RejectSlot
<1>2. CASE counter' = counter
  BY <1>1, <1>2, Stutter
<1>3. CASE counter' # counter
  <2>1. /\ s \in FallbackSlots \cap ReportedSlots
        /\ counter' = Version[SlotImage(s)]
        /\ Version[SlotImage(s)] > counter
    BY <1>1, <1>3, RollIsReported DEF CapsuleOnlyInv
  <2>2. SlotImage(s) \in Usable \cap reported /\ SlotImage(s) \in Images
    BY <2>1, FallbackImage DEF ReportedSlots
  <2>3. \A t \in Slots : /\ SlotImage(t)' = SlotImage(t)
                         /\ IsWhole(t)' = IsWhole(t)
                         /\ flash'[t][1].half = flash[t][1].half
                         /\ SlotImage(t) \in Images \cup {NoImage}
    BY <1>1, OneBlock DEF SlotImage, IsWhole, TypeInv, TypeOK, Content
  <2>4. /\ \A i \in Images : Version[i] \in Nat
        /\ counter \in Nat /\ counter' \in Nat /\ counter' > counter
    BY <2>1, <2>2, Constants DEF TypeInv, TypeOK
  <2>5. \A t \in Slots :
          Fallback(t)' <=> Fallback(t) /\ Version[SlotImage(t)] >= counter'
    BY <1>1, <2>3, <2>4 DEF Fallback, Verifies, PreambleOk
  <2>6. Usable' = {i \in Usable : Version[i] >= counter'}
    BY <2>3, <2>5 DEF Usable, FallbackSlots
  <2> QED BY <1>1, <2>1, <2>2, <2>6 DEF SU!RaiseFloor
<1> QED BY <1>2, <1>3

-----------------------------------------------------------------------------

LEMMA ImplementsStep ==
  ASSUME OsOps \subseteq {"stage"},
         TypeInv, TypeInv', CapsuleOnlyInv, CapsuleOnlyInv', [Next]_vars
  PROVE  [SU!Next]_(SU!vars)
<1>1. CASE UNCHANGED vars
  BY <1>1, Stutter DEF vars
<1>2. CASE EraseBlock \/ WriteBlock \/ FailBlock
  BY <1>2, WritesReplace DEF SU!Next
<1>3. CASE BootOs
  BY <1>3, BootProves DEF SU!Next
<1>4. CASE BootOk
  BY <1>4, ReportConfirms DEF SU!Next
<1>5. CASE BootSlot \/ RejectSlot
  BY <1>5, RollRaises DEF SU!Next
<1>6. CASE \/ PowerOn \/ PowerOff \/ PowerCut \/ CmosLoss
           \/ EnterRecovery \/ Ramstage \/ ResetAfterCapsule
           \/ \E i \in Images : SetImage(i)
           \/ SkipBlock \/ RefuseBlock \/ SlotWritten \/ Arm \/ ArmFails
           \/ \E i \in Images : StageCapsule(i)
           \/ Reboot
  <2>1. UNCHANGED <<flash, counter, cameUp, reported>>
    BY <1>6
       DEF PowerOn, PowerOff, PowerCut, CmosLoss, EnterRecovery, Ramstage,
           ResetAfterCapsule, SetImage, SkipBlock, RefuseBlock, SlotWritten,
           Arm, ArmFails, StageCapsule, Reboot
  <2> QED BY <2>1, Stutter
<1>7. ~InOs("arm") /\ ~InOs("trynext") /\ ~InOs("flash")
  BY DEF InOs
<1> QED
  BY <1>1, <1>2, <1>3, <1>4, <1>5, <1>6, <1>7
     DEF Next, Firmware, Fault, Os, CmdArmUpdate, CmdTryNext, FlashSlot,
         FlashCut

\* With updates by capsule alone the machine does what SafeUpdate allows.
THEOREM CapsulesImplement ==
  ASSUME OsOps \subseteq {"stage"}
  PROVE  Spec => ImplementsSafeUpdate
<1>1. Init => TypeInv /\ CapsuleOnlyInv /\ SU!Init
  BY TypeInit, CapsuleInit, ImplementsInit
<1>2. TypeInv /\ CapsuleOnlyInv /\ [Next]_vars => (TypeInv /\ CapsuleOnlyInv)'
  BY TypeStep, CapsuleStep
<1>3. /\ TypeInv /\ CapsuleOnlyInv /\ (TypeInv /\ CapsuleOnlyInv)'
      /\ [Next]_vars
      => [SU!Next]_(SU!vars)
  BY ImplementsStep
<1> QED
  BY <1>1, <1>2, <1>3, PTL DEF Spec, ImplementsSafeUpdate, SU!Spec
=============================================================================
