--------------------------- MODULE SlotUpdate_proofs ---------------------------
(***************************************************************************)
(* Proofs about SlotUpdate for every value of its constants: any number of  *)
(* releases, versions, blocks per slot and faults, and any mix of the ways  *)
(* to update.                                                              *)
(***************************************************************************)
EXTENDS SlotUpdate, TLAPS

(* What the operations on the VBNV block return *)

LEMMA OtherSlot ==
  \A s \in Slots : /\ Other(s) \in Slots
                   /\ Other(s) # s
                   /\ Other(Other(s)) = s
                   /\ \A t \in Slots : t = s \/ t = Other(s)
BY DEF Other, Slots

LEMMA FieldUpdates ==
  ASSUME NEW b \in Block
  PROVE  /\ \A v \in BOOLEAN : [b EXCEPT !.valid = v] \in Block
         /\ \A s \in Slots : [b EXCEPT !.tryNext = s] \in Block
         /\ \A n \in 0 .. MaxTries : [b EXCEPT !.tryCount = n] \in Block
         /\ \A s \in Slots : [b EXCEPT !.tried = s] \in Block
         /\ \A r \in Results : [b EXCEPT !.result = r] \in Block
         /\ \A v \in BOOLEAN : [b EXCEPT !.recovery = v] \in Block
BY DEF Block

LEMMA BlockFields ==
  ASSUME NEW b \in Block
  PROVE  /\ b.valid \in BOOLEAN /\ b.recovery \in BOOLEAN
         /\ b.tryNext \in Slots /\ b.tried \in Slots
         /\ b.tryCount \in 0 .. MaxTries
         /\ b.result \in Results
BY DEF Block

LEMMA BlockOps ==
  ASSUME NEW b \in Block
  PROVE  /\ Torn(b) \in Block
         /\ MarkSuccess(b) \in Block
         /\ [b EXCEPT !.recovery = FALSE] \in Block
         /\ \A s \in Slots : SelectNext(b, s) \in Block
         /\ \A s \in Slots : ArmTrialBoot(b, s) \in Block
         /\ \A s \in Slots, n \in 1 .. MaxTries : ArmUpdate(b, s, n) \in Block
<1>1. Torn(b) \in Block /\ MarkSuccess(b) \in Block
  BY FieldUpdates DEF Torn, MarkSuccess, Results
<1>2. [b EXCEPT !.recovery = FALSE] \in Block
      /\ \A s \in Slots : SelectNext(b, s) \in Block
  BY FieldUpdates DEF SelectNext
<1>3. ASSUME NEW s \in Slots, NEW n \in 1 .. MaxTries
      PROVE  ArmUpdate(b, s, n) \in Block
  <2>1. [b EXCEPT !.tryNext = s] \in Block /\ n \in 0 .. MaxTries
    BY FieldUpdates, MaxTriesAssumption
  <2>2. [[b EXCEPT !.tryNext = s] EXCEPT !.tryCount = n] \in Block
    BY <2>1, FieldUpdates, Zenon
  <2> QED BY <2>2 DEF ArmUpdate
<1>4. 1 \in 1 .. MaxTries
  BY MaxTriesAssumption
<1>5. \A s \in Slots : ArmTrialBoot(b, s) \in Block
  BY <1>3, <1>4, Zenon DEF ArmUpdate, ArmTrialBoot
<1> QED BY <1>1, <1>2, <1>3, <1>5

LEMMA BlockChoice ==
  ASSUME NEW b \in Block
  PROVE  /\ SelectedSlot(b) \in Slots
         /\ SelectFwSlot(b) \in Block
         /\ FailFwSlot(b) \in Block
<1> DEFINE s == SelectedSlot(b)
           r == IF b.tryCount > 0 THEN "trying" ELSE "unknown"
           n == IF b.tryCount > 0 THEN b.tryCount - 1 ELSE 0
           v == b.tried = Other(s) /\ b.result = "failure"
<1>1. s \in Slots /\ Other(s) \in Slots
  BY BlockFields, OtherSlot DEF SelectedSlot
<1>2. r \in Results /\ n \in 0 .. MaxTries /\ 0 \in 0 .. MaxTries
      /\ "failure" \in Results
  BY BlockFields, MaxTriesAssumption DEF Results
<1>3. v \in BOOLEAN
  OBVIOUS
<1> HIDE DEF s, r, n, v
<1>4. [[[[b EXCEPT !.tryNext = s] EXCEPT !.tried = s] EXCEPT !.result = r]
         EXCEPT !.tryCount = n] \in Block
  <2>1. [b EXCEPT !.tryNext = s] \in Block
    BY <1>1, FieldUpdates
  <2>2. [[b EXCEPT !.tryNext = s] EXCEPT !.tried = s] \in Block
    BY <2>1, <1>1, FieldUpdates, Zenon
  <2>3. [[[b EXCEPT !.tryNext = s] EXCEPT !.tried = s] EXCEPT !.result = r] \in Block
    BY <2>2, <1>2, FieldUpdates, Zenon
  <2> QED BY <2>3, <1>2, FieldUpdates, Zenon
<1>5. [[[[[b EXCEPT !.tryNext = Other(s)] EXCEPT !.tried = s]
          EXCEPT !.result = "failure"] EXCEPT !.tryCount = 0]
          EXCEPT !.recovery = v] \in Block
  <2>1. [b EXCEPT !.tryNext = Other(s)] \in Block
    BY <1>1, FieldUpdates
  <2>2. [[b EXCEPT !.tryNext = Other(s)] EXCEPT !.tried = s] \in Block
    BY <2>1, <1>1, FieldUpdates, Zenon
  <2>3. [[[b EXCEPT !.tryNext = Other(s)] EXCEPT !.tried = s]
           EXCEPT !.result = "failure"] \in Block
    BY <2>2, <1>2, FieldUpdates, Zenon
  <2>4. [[[[b EXCEPT !.tryNext = Other(s)] EXCEPT !.tried = s]
           EXCEPT !.result = "failure"] EXCEPT !.tryCount = 0] \in Block
    BY <2>3, <1>2, FieldUpdates, Zenon
  <2> QED BY <2>4, <1>3, FieldUpdates, Zenon
<1> USE DEF s, r, n, v
<1>6. SelectFwSlot(b) \in Block
  BY <1>4, Zenon DEF SelectFwSlot
<1>7. FailFwSlot(b) \in Block
  BY <1>5, Zenon DEF FailFwSlot
<1> QED BY <1>1, <1>6, <1>7

-----------------------------------------------------------------------------
(* Type correctness *)

LEMMA Constants ==
  /\ NBlocks \in Nat \ {0}
  /\ MaxFaults \in Nat
  /\ NoImage \notin Images
  /\ Fits \subseteq Images
  /\ Version \in [Images -> Nat \ {0}]
  /\ Factory \in Images
BY SlotUpdateAssumption

LEMMA NvType == TypeOK => Nv \in Block
BY DEF TypeOK, Nv

LEMMA CounterType ==
  ASSUME TypeOK, NEW b \in Block, NEW s \in Slots
  PROVE  RolledCounter(b, s) \in Nat
<1>1. 1 \in Blocks BY Constants DEF Blocks
<1>2. SlotImage(s) \in Images \cup {NoImage}
  BY <1>1 DEF TypeOK, SlotImage, Content
<1>3. SlotImage(s) # NoImage => Version[SlotImage(s)] \in Nat
  BY <1>2, Constants
<1> QED BY <1>3 DEF RolledCounter, PreambleOk, TypeOK

\* What the types alone do not say of a boot: a slot that runs has a release
\* in it, only a slot's boot writes flash, and only with a capsule in hand.
BootInv ==
  /\ run \in Slots => image \in Images
  /\ phase \in {"writing", "arming"} => run \in Slots
  /\ phase \in {"romstage", "payload", "processed", "os"} => run # "none"
  /\ (phase = "writing" /\ job.erased) => HasCapsules
  /\ phase = "writing" => job.img \in Images

TypeInv == TypeOK /\ BootInv

LEMMA TypeInit == Init => TypeInv
BY Constants, MaxTriesAssumption
   DEF Init, TypeInv, BootInv, TypeOK, Content, Half, Block, FreshBlock,
       Results, Slots, Phases, Jobs, NoJob, Statuses, Blocks

LEMMA HalfType == \A i \in Images \cup {NoImage}, s \in Slots : Half(i, s) \in Content
BY DEF Half, Content

LEMMA JunkType == Junk \in Content
BY DEF Junk, Content, Slots

LEMMA OneBlock == 1 \in Blocks
BY Constants DEF Blocks

\* The slot being written takes one block at a time.
LEMMA FlashType ==
  ASSUME TypeOK, NEW s \in Slots, NEW k \in Blocks, NEW c \in Content
  PROVE  [flash EXCEPT ![s][k] = c] \in [Slots -> [Blocks -> Content]]
BY DEF TypeOK

LEMMA JobType ==
  ASSUME NEW j \in Jobs, j.next \in Blocks
  PROVE  /\ [j EXCEPT !.next = j.next + 1] \in Jobs
         /\ [j EXCEPT !.next = j.next + 1, !.erased = FALSE] \in Jobs
         /\ [j EXCEPT !.erased = TRUE] \in Jobs
<1>1. j.next + 1 \in 1 .. NBlocks + 1
  BY Constants DEF Jobs, Blocks
<1>2. [j EXCEPT !.next = j.next + 1] \in Jobs
      /\ [j EXCEPT !.erased = TRUE] \in Jobs
  BY <1>1 DEF Jobs
<1>3. \A c \in Jobs : [c EXCEPT !.erased = FALSE] \in Jobs
  BY DEF Jobs
<1>4. [[j EXCEPT !.next = j.next + 1] EXCEPT !.erased = FALSE] \in Jobs
  BY <1>2, <1>3, Zenon
<1> QED BY <1>2, <1>4

LEMMA JobStart ==
  /\ NoJob \in Jobs
  /\ \A i \in Images : [img |-> i, next |-> 1, erased |-> FALSE] \in Jobs
BY Constants DEF Jobs, NoJob

LEMMA FaultCount ==
  (faults \in 0 .. MaxFaults /\ faults < MaxFaults) => faults + 1 \in 0 .. MaxFaults
BY Constants

LEMMA TypeFirmware == TypeInv /\ Firmware => TypeInv'
<1> SUFFICES ASSUME TypeInv, Firmware PROVE TypeInv'
  OBVIOUS
<1> USE DEF TypeInv, BootInv, Phases, Statuses
<1>1. CASE PowerOn
  BY <1>1 DEF TypeOK, PowerOn, HasCapsules
<1>2. CASE EnterRecovery
  BY <1>2, NvType DEF TypeOK, EnterRecovery, HasCapsules, Slots
<1>3. CASE BootSlot
  <2> DEFINE s == SelectedSlot(Nv)
  <2>1. s \in Slots /\ SelectFwSlot(Nv) \in Block /\ RolledCounter(Nv, s) \in Nat
    BY NvType, BlockChoice, CounterType
  <2>2. SlotImage(s) \in Images
    BY <1>3, <2>1, OneBlock
       DEF TypeOK, SlotImage, Content, BootSlot, Verifies, PreambleOk
  <2> QED BY <1>3, <2>1, <2>2 DEF TypeOK, BootSlot, Slots
<1>4. CASE RejectSlot
  <2> DEFINE s == SelectedSlot(Nv)
  <2>1. s \in Slots /\ FailFwSlot(Nv) \in Block /\ RolledCounter(Nv, s) \in Nat
    BY NvType, BlockChoice, CounterType
  <2> QED BY <1>4, <2>1 DEF TypeOK, RejectSlot
<1>5. CASE Ramstage
  <2>1. [Nv EXCEPT !.recovery = FALSE] \in Block
    BY NvType DEF Block
  <2> QED BY <1>5, <2>1 DEF TypeOK, Ramstage
<1>6. CASE BootOs
  BY <1>6 DEF TypeOK, BootOs
<1>7. CASE ResetAfterCapsule
  BY <1>7, JobStart DEF TypeOK, ResetAfterCapsule, ForgetBoot, Slots
<1>8. CASE \E i \in Images : SetImage(i)
  <2> PICK i \in Images : SetImage(i)
    BY <1>8
  <2> PICK status \in CheckImage(i) :
         /\ attempt' = status
         /\ IF status = "none"
            THEN /\ phase' = "writing"
                 /\ job' = [img |-> i, next |-> 1, erased |-> FALSE]
            ELSE phase' = "processed" /\ UNCHANGED job
    BY DEF SetImage
  <2>1. status \in {"no_layout", "image_size", "none", "no_smmstore",
                 "out_of_memory"}
        /\ (run = "RO" => status = "no_layout")
    BY DEF CheckImage
  <2>2. job' \in Jobs
    BY JobStart DEF TypeOK
  <2>3. status = "none" => job'.img = i /\ job'.erased = FALSE
    OBVIOUS
  <2> QED BY <2>1, <2>2, <2>3 DEF SetImage, TypeOK
<1>9. CASE SkipBlock
  <2>1. job' \in Jobs /\ job'.img = job.img /\ job'.erased = job.erased
    BY <1>9, JobType DEF SkipBlock, Writing, TypeOK, Jobs
  <2> QED BY <1>9, <2>1 DEF TypeOK, SkipBlock, HasCapsules, Writing
<1>10. CASE EraseBlock
  <2>1. job' \in Jobs /\ job'.img = job.img
    BY <1>10, JobType DEF EraseBlock, Writing, TypeOK, Jobs
  <2>2. flash' \in [Slots -> [Blocks -> Content]]
    BY <1>10, FlashType, JunkType, OtherSlot DEF EraseBlock, Writing, ResolveSlot
  <2> QED BY <1>10, <2>1, <2>2 DEF TypeOK, EraseBlock, HasCapsules, Writing
<1>11. CASE WriteBlock
  <2>1. job' \in Jobs /\ job'.img = job.img /\ job'.erased = FALSE
    BY <1>11, JobType DEF WriteBlock, Writing, TypeOK, Jobs
  <2>2. HalfToWrite(job.img) \in Content
    BY <1>11, HalfType, OtherSlot DEF WriteBlock, Writing, HalfToWrite, ResolveSlot
  <2>3. flash' \in [Slots -> [Blocks -> Content]]
    BY <1>11, <2>2, FlashType, OtherSlot DEF WriteBlock, Writing, ResolveSlot
  <2> QED BY <1>11, <2>1, <2>3 DEF TypeOK, WriteBlock, HasCapsules, Writing
<1>12. CASE RefuseBlock
  BY <1>12, JobStart DEF TypeOK, RefuseBlock, Writing, Slots
<1>13. CASE SlotWritten
  BY <1>13 DEF TypeOK, SlotWritten
<1>14. CASE Arm
  BY <1>14, BlockOps, OtherSlot, JobStart
     DEF TypeOK, Arm, ForgetBoot, ResolveSlot, Slots
<1> QED
  BY <1>1, <1>2, <1>3, <1>4, <1>5, <1>6, <1>7, <1>8, <1>9, <1>10, <1>11,
     <1>12, <1>13, <1>14 DEF Firmware

LEMMA TypeFault == TypeInv /\ (Fault \/ PowerOff) => TypeInv'
<1> SUFFICES ASSUME TypeInv, Fault \/ PowerOff PROVE TypeInv'
  OBVIOUS
<1> USE DEF TypeInv, BootInv, Phases, Statuses
<1>1. CASE PowerCut
  <2>1. cmos' \in Block
    <3>1. cmos \in Block /\ Torn(cmos) \in Block
      BY BlockOps DEF TypeOK
    <3>2. phase = "arming" => ArmTrialBoot(cmos, Other(run)) \in Block
      BY <3>1, BlockOps, OtherSlot
    <3> QED BY <1>1, <3>1, <3>2 DEF PowerCut, CmosAfterCut
  <2>2. kept' \subseteq Slots /\ faults' \in 0 .. MaxFaults
    BY <1>1, FaultCount DEF PowerCut, TypeOK
  <2> QED
    BY <1>1, <2>1, <2>2, JobStart DEF TypeOK, PowerCut, ForgetBoot, Slots
<1>2. CASE CmosLoss
  <2>1. cmos' \in Block /\ faults' \in 0 .. MaxFaults
    BY <1>2, BlockOps, FaultCount DEF CmosLoss, TypeOK
  <2> QED BY <1>2, <2>1 DEF CmosLoss, TypeOK, HasCapsules
<1>3. CASE FailBlock
  <2>1. flash' \in [Slots -> [Blocks -> Content]]
    <3>1. job.next \in Blocks /\ run \in Slots
      BY <1>3 DEF FailBlock, Writing
    <3>2. flash' \in {flash, [flash EXCEPT ![Other(run)][job.next] = Junk]}
      BY <1>3 DEF FailBlock, ResolveSlot
    <3>3. flash \in [Slots -> [Blocks -> Content]]
      BY DEF TypeOK
    <3> QED BY <3>1, <3>2, <3>3, FlashType, JunkType, OtherSlot
  <2>2. faults' \in 0 .. MaxFaults /\ attempt' \in Statuses
    BY <1>3, FaultCount DEF FailBlock, TypeOK
  <2> QED BY <1>3, <2>1, <2>2, JobStart DEF FailBlock, TypeOK, Writing, Slots
<1>4. CASE ArmFails
  <2>1. cmos' \in Block
    BY <1>4, BlockOps, MaxTriesAssumption DEF ArmFails, TypeOK, Torn, Block
  <2>2. faults' \in 0 .. MaxFaults
    BY <1>4, FaultCount DEF ArmFails, TypeOK
  <2> QED BY <1>4, <2>1, <2>2, JobStart DEF ArmFails, TypeOK, Slots
<1>5. CASE PowerOff
  BY <1>5, JobStart DEF TypeOK, PowerOff, ForgetBoot, Slots
<1> QED BY <1>1, <1>2, <1>3, <1>4, <1>5 DEF Fault

LEMMA TypeOs == TypeInv /\ Os => TypeInv'
<1> SUFFICES ASSUME TypeInv, Os PROVE TypeInv'
  OBVIOUS
<1> USE DEF TypeInv, BootInv, Phases, Statuses
<1>1. CASE BootOk
  BY <1>1, BlockOps, OtherSlot, MaxTriesAssumption DEF TypeOK, BootOk, MarkSuccess, Block, Results
<1>2. CASE \E s \in Slots, n \in 1 .. MaxTries : CmdArmUpdate(s, n)
  <2> PICK s \in Slots, n \in 1 .. MaxTries : CmdArmUpdate(s, n)
    BY <1>2
  <2>1. cmos' \in Block
    BY BlockOps DEF TypeOK, CmdArmUpdate
  <2> QED BY <2>1 DEF TypeOK, CmdArmUpdate, InOs
<1>3. CASE \E s \in Slots : CmdTryNext(s)
  <2> PICK s \in Slots : CmdTryNext(s)
    BY <1>3
  <2>1. cmos' \in Block
    BY DEF CmdTryNext, SelectNext, Block, TypeOK
  <2> QED BY <2>1 DEF TypeOK, CmdTryNext, InOs
<1>4. CASE \E s \in Slots, i \in Fits : FlashSlot(s, i)
  BY <1>4, HalfType, Constants DEF TypeOK, FlashSlot, InOs
<1>5. CASE \E s \in Slots, i \in Fits, k \in Blocks : FlashCut(s, i, k)
  <2> PICK s \in Slots, i \in Fits, k \in Blocks : FlashCut(s, i, k)
    BY <1>5
  <2>1. flash' \in [Slots -> [Blocks -> Content]]
    BY HalfType, JunkType, Constants DEF FlashCut, TypeOK
  <2> QED BY <2>1, JobStart, Constants DEF TypeOK, FlashCut, ForgetBoot, Slots, InOs
<1>6. CASE \E i \in Images : StageCapsule(i)
  BY <1>6 DEF TypeOK, StageCapsule, InOs
<1>7. CASE Reboot
  BY <1>7, JobStart DEF TypeOK, Reboot, ForgetBoot, Slots
<1> QED BY <1>1, <1>2, <1>3, <1>4, <1>5, <1>6, <1>7 DEF Os

LEMMA TypeStep == TypeInv /\ [Next]_vars => TypeInv'
<1>1. TypeInv /\ UNCHANGED vars => TypeInv'
  BY DEF vars, TypeInv, TypeOK, BootInv, HasCapsules
<1> QED BY <1>1, TypeFirmware, TypeFault, TypeOs DEF Next

\* Every variable stays in its type, whatever the mix of updates and faults.
THEOREM TypeCorrect == Spec => []TypeOK
<1>1. Spec => []TypeInv
  BY TypeInit, TypeStep, PTL DEF Spec
<1> QED BY <1>1, PTL DEF TypeInv

-----------------------------------------------------------------------------
(* What SetImage may write *)

\* The relation between a state and the next that WritesTargetOnly asks for.
TargetStep ==
  (phase \in {"writing", "arming"} /\ flash' # flash) =>
     /\ HasCapsules
     /\ run \in Slots
     /\ flash'[run] = flash[run]
     /\ \A k \in Blocks : flash'[Other(run)][k] # flash[Other(run)][k] =>
           flash'[Other(run)][k] \in {Junk, Half(job.img, Other(run))}

LEMMA FlashWriters ==
  Next /\ phase \in {"writing", "arming"} =>
     flash' = flash \/ EraseBlock \/ WriteBlock \/ FailBlock
BY DEF Next, Firmware, Fault, Os, PowerOn, PowerCut, PowerOff, CmosLoss,
       EnterRecovery, BootSlot, RejectSlot, Ramstage, BootOs,
       ResetAfterCapsule, SetImage, SkipBlock, RefuseBlock, SlotWritten, Arm,
       ArmFails, BootOk, CmdArmUpdate, CmdTryNext, FlashSlot, FlashCut, InOs,
       StageCapsule, Reboot

LEMMA TargetStepHolds == TypeInv /\ [Next]_vars => TargetStep
<1> SUFFICES ASSUME TypeInv, [Next]_vars,
                    phase \in {"writing", "arming"}, flash' # flash
             PROVE  TargetStep
  BY DEF TargetStep
<1>1. run \in Slots /\ Other(run) \in Slots
  BY OtherSlot DEF TypeInv, BootInv
<1>2. EraseBlock \/ WriteBlock \/ FailBlock
  BY FlashWriters DEF vars
<1>3. HasCapsules
  BY <1>2 DEF EraseBlock, WriteBlock, FailBlock, Writing, TypeInv, BootInv
<1>4. job.next \in Blocks
  BY <1>2 DEF EraseBlock, WriteBlock, FailBlock, Writing
<1>5. PICK c \in {Junk, Half(job.img, Other(run))} :
         flash' = [flash EXCEPT ![Other(run)][job.next] = c]
  BY <1>2 DEF EraseBlock, WriteBlock, FailBlock, ResolveSlot, HalfToWrite
<1>6. TypeOK
  BY DEF TypeInv
<1>7. /\ flash'[run] = flash[run]
      /\ \A j \in Blocks : flash'[Other(run)][j] # flash[Other(run)][j] =>
            flash'[Other(run)][j] = c
  <2> HIDE DEF Junk, Half
  <2>1. flash \in [Slots -> [Blocks -> Content]] /\ Other(run) # run
    BY <1>1, <1>6, OtherSlot DEF TypeOK
  <2> QED BY <1>1, <1>4, <1>5, <2>1
<1> QED
  BY <1>1, <1>3, <1>7 DEF TargetStep

\* Whatever update is attempted in whatever boot, the slot that runs is never
\* written by SetImage and the other one gets only erased blocks and its half.
THEOREM TargetOnly == Spec => WritesTargetOnly
<1>1. Spec => []TypeInv
  BY TypeInit, TypeStep, PTL DEF Spec
<1>2. TypeInv /\ [Next]_vars => [TargetStep]_vars
  BY TargetStepHolds
<1> QED
  BY <1>1, <1>2, PTL DEF Spec, WritesTargetOnly, TargetStep

-----------------------------------------------------------------------------
(* What sends the machine to the recovery half *)

SomeBroken == \E s \in Slots : ~Verifies(s)

\* A request comes from two rejections in one boot or in two, and lives in
\* CMOS alone until ramstage: nobody can repair a slot before that.
RecoveryInv ==
  /\ ~backup.recovery
  /\ cmos.recovery => phase \in {"off", "verstage", "romstage"} /\ SomeBroken
  /\ (phase = "romstage" /\ run \in Slots) => ~cmos.recovery

RecoveryStep == run' = "RO" /\ run # "RO" => SomeBroken

\* The blocks and the slots' contents alone decide.
LEMMA RecoveryKept ==
  ASSUME RecoveryInv, backup' = backup, ~cmos.recovery, ~cmos'.recovery
  PROVE  RecoveryInv'
BY DEF RecoveryInv

LEMMA RequestFields ==
  ASSUME NEW b \in Block
  PROVE  /\ Torn(b).recovery = b.recovery
         /\ MarkSuccess(b).recovery = b.recovery
         /\ [b EXCEPT !.recovery = FALSE].recovery = FALSE
         /\ SelectFwSlot(b).recovery = b.recovery
         /\ \A s \in Slots : SelectNext(b, s).recovery = b.recovery
         /\ \A s \in Slots : ArmTrialBoot(b, s).recovery = b.recovery
         /\ \A s \in Slots, n \in 1 .. MaxTries :
              ArmUpdate(b, s, n).recovery = b.recovery
BY DEF Block, Torn, MarkSuccess, SelectFwSlot, SelectNext, ArmTrialBoot,
       ArmUpdate

\* A slot that does not verify is not helped by the roll-forward of another.
LEMMA BrokenStays ==
  ASSUME TypeInv, NEW s \in Slots, ~Verifies(s), flash' = flash,
         counter' = counter \/ \E t \in Slots : counter' = RolledCounter(Nv, t)
  PROVE  ~Verifies(s)'
<1>1. \A t \in Slots : SlotImage(t) \in Images \cup {NoImage}
  BY OneBlock DEF TypeInv, TypeOK, SlotImage, Content
<1>2. \A t \in Slots : RolledCounter(Nv, t) \in Nat
                       /\ RolledCounter(Nv, t) >= counter
  <2>1. ASSUME NEW t \in Slots
        PROVE  RolledCounter(Nv, t) \in Nat /\ RolledCounter(Nv, t) >= counter
    <3>1. counter \in Nat /\ RolledCounter(Nv, t) \in Nat
      BY NvType, CounterType DEF TypeInv, TypeOK
    <3>2. SlotImage(t) # NoImage => Version[SlotImage(t)] \in Nat
      BY <1>1, Constants
    <3> QED BY <3>1, <3>2 DEF RolledCounter, PreambleOk
  <2> QED BY <2>1
<1>3. counter \in Nat /\ counter' \in Nat /\ counter' >= counter
  BY <1>2 DEF TypeInv, TypeOK
<1>4. SlotImage(s) # NoImage => Version[SlotImage(s)] \in Nat
  BY <1>1, Constants
<1>5. SlotImage(s)' = SlotImage(s) /\ IsWhole(s)' = IsWhole(s)
  BY DEF SlotImage, IsWhole
<1>6. PreambleOk(s)' => PreambleOk(s)
  BY <1>3, <1>4, <1>5 DEF PreambleOk
<1> QED BY <1>5, <1>6 DEF Verifies

LEMMA RecoveryInit == Init => RecoveryInv
BY DEF Init, RecoveryInv, FreshBlock

LEMMA RecoveryFirmware ==
  ASSUME TypeInv, RecoveryInv, Firmware
  PROVE  RecoveryInv' /\ RecoveryStep
<1> USE DEF TypeInv
<1>1. cmos \in Block /\ backup \in Block /\ Nv \in Block
  BY NvType DEF TypeOK
<1>2. Nv.recovery => cmos.recovery
  BY DEF Nv, RecoveryInv
<1>3. CASE PowerOn
  BY <1>3 DEF PowerOn, RecoveryInv, RecoveryStep, SomeBroken, Verifies,
              PreambleOk, IsWhole, SlotImage
<1>4. CASE EnterRecovery
  BY <1>2, <1>4 DEF EnterRecovery, RecoveryInv, RecoveryStep, SomeBroken,
                    Verifies, PreambleOk, IsWhole, SlotImage, Slots
<1>5. CASE BootSlot
  <2>1. ~cmos'.recovery /\ backup' = backup
    BY <1>1, <1>5, RequestFields DEF BootSlot
  <2>2. run' \in Slots
    BY <1>1, <1>5, BlockChoice DEF BootSlot
  <2> QED BY <2>1, <2>2 DEF RecoveryInv, RecoveryStep, Slots
<1>6. CASE RejectSlot
  <2>1. PICK s \in Slots : ~Verifies(s) /\ counter' = RolledCounter(Nv, s)
    BY <1>1, <1>6, BlockChoice DEF RejectSlot
  <2>2. /\ flash' = flash /\ backup' = backup /\ phase' = "verstage"
        /\ run' = run
    BY <1>6 DEF RejectSlot
  <2>3. SomeBroken'
    BY <2>1, <2>2, BrokenStays DEF SomeBroken
  <2> QED BY <2>2, <2>3 DEF RecoveryInv, RecoveryStep
<1>7. CASE Ramstage
  <2>1. CASE HangsEarly
    BY <1>7, <2>1 DEF Ramstage, HangsEarly, RecoveryInv, RecoveryStep
  <2>2. CASE ~HangsEarly
    <3>1. ~[Nv EXCEPT !.recovery = FALSE].recovery
      BY <1>1 DEF Block
    <3>2. ~cmos'.recovery /\ ~backup'.recovery /\ run' = run
      BY <1>7, <2>2, <3>1 DEF Ramstage
    <3> QED BY <3>2 DEF RecoveryInv, RecoveryStep
  <2> QED BY <2>1, <2>2
<1>8. CASE Arm
  <2>1. ~cmos.recovery
    BY <1>8 DEF Arm, RecoveryInv
  <2>2. ResolveSlot \in Slots
    BY <1>8, OtherSlot DEF Arm, BootInv, ResolveSlot
  <2>3. ~cmos'.recovery /\ backup' = backup /\ run' = "none"
    BY <1>1, <1>8, <2>1, <2>2, RequestFields DEF Arm, ForgetBoot
  <2> QED BY <2>1, <2>3 DEF RecoveryInv, RecoveryStep
<1>9. CASE \/ BootOs \/ ResetAfterCapsule \/ SkipBlock \/ EraseBlock
           \/ WriteBlock \/ RefuseBlock \/ SlotWritten
           \/ \E i \in Images : SetImage(i)
  <2>1. ~cmos.recovery /\ cmos' = cmos /\ backup' = backup
        /\ run' \in {run, "none"}
    BY <1>9 DEF BootOs, ResetAfterCapsule, SkipBlock, EraseBlock, WriteBlock,
       RefuseBlock, SlotWritten, SetImage, Writing, ForgetBoot, RecoveryInv
  <2> QED BY <2>1 DEF RecoveryInv, RecoveryStep
<1> QED BY <1>3, <1>4, <1>5, <1>6, <1>7, <1>8, <1>9 DEF Firmware

\* A cut while ramstage is still to come keeps the request and the slots.
LEMMA RecoveryFault ==
  ASSUME TypeInv, RecoveryInv, Fault \/ PowerOff
  PROVE  RecoveryInv' /\ RecoveryStep
<1> USE DEF TypeInv
<1>1. cmos \in Block /\ backup' = backup
  BY DEF TypeOK, Fault, PowerCut, CmosLoss, FailBlock, ArmFails, PowerOff
<1>2. SomeBroken /\ UNCHANGED <<flash, counter>> => SomeBroken'
  BY DEF SomeBroken, Verifies, PreambleOk, IsWhole, SlotImage
<1>3. run' \in {run, "none"}
  BY DEF Fault, PowerCut, CmosLoss, FailBlock, ArmFails, PowerOff, ForgetBoot
<1>4. cmos'.recovery = cmos.recovery
  <2>1. Torn(cmos).recovery = cmos.recovery
    BY <1>1, RequestFields
  <2>2. phase = "arming" =>
          ArmTrialBoot(cmos, Other(run)).recovery = cmos.recovery
    BY <1>1, RequestFields, OtherSlot DEF BootInv
  <2>3. \/ cmos' \in {cmos, Torn(cmos)}
        \/ phase = "arming" /\ cmos' = ArmTrialBoot(cmos, Other(run))
    <3>1. CASE PowerCut
      BY <3>1 DEF PowerCut, CmosAfterCut
    <3>2. CASE CmosLoss \/ FailBlock \/ ArmFails \/ PowerOff
      BY <3>2 DEF CmosLoss, FailBlock, ArmFails, PowerOff
    <3> QED BY <3>1, <3>2 DEF Fault
  <2> QED BY <2>1, <2>2, <2>3
<1>5. CASE phase \in {"off", "verstage", "romstage"}
  <2>1. UNCHANGED <<flash, counter>> /\ phase' = "off"
    BY <1>5 DEF Fault, PowerCut, CmosLoss, FailBlock, ArmFails, PowerOff,
                Writing
  <2> QED BY <1>1, <1>2, <1>3, <1>4, <2>1 DEF RecoveryInv, RecoveryStep
<1>6. CASE phase \notin {"off", "verstage", "romstage"}
  BY <1>1, <1>3, <1>4, <1>6 DEF RecoveryInv, RecoveryStep
<1> QED BY <1>5, <1>6

LEMMA RecoveryOs ==
  ASSUME TypeInv, RecoveryInv, Os
  PROVE  RecoveryInv' /\ RecoveryStep
<1>1. phase = "os" /\ ~cmos.recovery
  BY DEF Os, BootOk, CmdArmUpdate, CmdTryNext, FlashSlot, FlashCut,
         StageCapsule, Reboot, InOs, RecoveryInv
<1>2. cmos \in Block
  BY DEF TypeInv, TypeOK
<1>3. \/ cmos' = cmos
      \/ cmos' = MarkSuccess(cmos)
      \/ \E s \in Slots, n \in 1 .. MaxTries : cmos' = ArmUpdate(cmos, s, n)
      \/ \E s \in Slots : cmos' = SelectNext(cmos, s)
  BY DEF Os, BootOk, CmdArmUpdate, CmdTryNext, FlashSlot, FlashCut,
         StageCapsule, Reboot
<1>4. ~cmos'.recovery
  BY <1>1, <1>2, <1>3, RequestFields
<1>5. backup' = backup /\ run' \in {run, "none"}
  BY DEF Os, BootOk, CmdArmUpdate, CmdTryNext, FlashSlot, FlashCut,
         StageCapsule, Reboot, ForgetBoot
<1> QED BY <1>1, <1>4, <1>5 DEF RecoveryInv, RecoveryStep

LEMMA RecoveryNext ==
  TypeInv /\ RecoveryInv /\ [Next]_vars => RecoveryInv' /\ [RecoveryStep]_vars
<1>1. RecoveryInv /\ UNCHANGED vars => RecoveryInv'
  BY DEF vars, RecoveryInv, SomeBroken, Verifies, PreambleOk, IsWhole,
         SlotImage
<1> QED BY <1>1, RecoveryFirmware, RecoveryFault, RecoveryOs DEF Next

\* Whatever the user does from the OS, slots written in place included, and
\* wherever power fails: a boot enters the recovery half only while a slot
\* does not verify.  A request never outlives the repair of the slots.
THEOREM RecoveryAlwaysBroken == Spec => RecoveryMeansBroken
<1>1. Spec => [](TypeInv /\ RecoveryInv)
  BY TypeInit, TypeStep, RecoveryInit, RecoveryNext, PTL DEF Spec
<1>2. TypeInv /\ RecoveryInv /\ [Next]_vars => [RecoveryStep]_vars
  BY RecoveryNext
<1> QED
  BY <1>1, <1>2, PTL DEF Spec, RecoveryMeansBroken, RecoveryStep, SomeBroken

-----------------------------------------------------------------------------
(* What a recovery boot reports *)

\* The slot that failed last asks for recovery with the other one next, and no
\* one changes that choice before the OS has gone.
IdleInv ==
  /\ cmos.recovery => cmos.tryNext # cmos.tried
  /\ run = "RO" => /\ phase \notin {"off", "verstage"}
                   /\ cmos.valid
                   /\ cmos.tryNext # cmos.tried

LEMMA IdleInit == Init => IdleInv
BY DEF Init, IdleInv, FreshBlock, Slots

\* Edits that leave the choice of the slot alone, and vboot's after a failure.
LEMMA ChoiceFields ==
  ASSUME NEW b \in Block
  PROVE  /\ \A c \in {Torn(b), MarkSuccess(b), [b EXCEPT !.recovery = FALSE]} :
              c.tryNext = b.tryNext /\ c.tried = b.tried
         /\ MarkSuccess(b).valid = b.valid
         /\ [b EXCEPT !.recovery = FALSE].valid = b.valid
         /\ FailFwSlot(b).tryNext # FailFwSlot(b).tried
<1>1. SelectedSlot(b) \in Slots
  BY BlockChoice
<1>2. FailFwSlot(b).tryNext # FailFwSlot(b).tried
  BY <1>1, OtherSlot DEF FailFwSlot, Block
<1> QED BY <1>2 DEF Block, Torn, MarkSuccess

LEMMA IdleFirmware ==
  ASSUME TypeInv, RecoveryInv, IdleInv, Firmware
  PROVE  IdleInv'
<1> USE DEF TypeInv
<1>1. cmos \in Block /\ Nv \in Block
  BY NvType DEF TypeOK
<1>2. CASE PowerOn
  BY <1>2 DEF PowerOn, IdleInv
<1>3. CASE EnterRecovery
  <2>1. cmos.valid /\ Nv = cmos
    BY <1>3 DEF EnterRecovery, Nv, RecoveryInv
  <2> QED BY <1>3, <2>1 DEF EnterRecovery, IdleInv
<1>4. CASE BootSlot
  <2>1. ~cmos'.recovery /\ run' \in Slots
    BY <1>1, <1>4, RequestFields, BlockChoice DEF BootSlot
  <2> QED BY <2>1 DEF IdleInv, Slots
<1>5. CASE RejectSlot
  BY <1>1, <1>5, ChoiceFields DEF RejectSlot, IdleInv
<1>6. CASE Ramstage
  <2>1. CASE HangsEarly
    BY <1>6, <2>1 DEF Ramstage, IdleInv
  <2>2. CASE ~HangsEarly
    <3>1. /\ cmos' = [Nv EXCEPT !.recovery = FALSE]
          /\ run' = run /\ phase' = "payload"
      BY <1>6, <2>2 DEF Ramstage
    <3>2. ~cmos'.recovery
      BY <1>1, <3>1, RequestFields
    <3>3. run = "RO" => cmos'.valid /\ cmos'.tryNext # cmos'.tried
      BY <1>1, <3>1, ChoiceFields DEF Nv, IdleInv
    <3> QED BY <3>1, <3>2, <3>3 DEF IdleInv
  <2> QED BY <2>1, <2>2
<1>7. CASE Arm
  <2>1. ~cmos.recovery /\ ResolveSlot \in Slots
    BY <1>7, OtherSlot DEF Arm, RecoveryInv, BootInv, ResolveSlot
  <2>2. ~cmos'.recovery /\ run' = "none"
    BY <1>1, <1>7, <2>1, RequestFields DEF Arm, ForgetBoot
  <2> QED BY <2>2 DEF IdleInv
<1>8. CASE \/ BootOs \/ ResetAfterCapsule \/ SkipBlock \/ EraseBlock
           \/ WriteBlock \/ RefuseBlock \/ SlotWritten
           \/ \E i \in Images : SetImage(i)
  <2>1. cmos' = cmos /\ (run' = "none" \/ (run' = run /\ phase' \notin {"off", "verstage"}))
    BY <1>8 DEF BootOs, ResetAfterCapsule, SkipBlock, EraseBlock, WriteBlock,
       RefuseBlock, SlotWritten, SetImage, Writing, ForgetBoot
  <2> QED BY <2>1 DEF IdleInv
<1> QED BY <1>2, <1>3, <1>4, <1>5, <1>6, <1>7, <1>8 DEF Firmware

LEMMA IdleFault ==
  ASSUME TypeInv, RecoveryInv, IdleInv, Fault \/ PowerOff
  PROVE  IdleInv'
<1> USE DEF TypeInv
<1>1. cmos \in Block
  BY DEF TypeOK
<1>2. CASE phase \in {"writing", "arming"}
  <2>1. ~cmos.recovery /\ run \in Slots
    BY <1>2 DEF RecoveryInv, BootInv
  <2>2. cmos' \in {cmos, Torn(cmos), ArmTrialBoot(cmos, Other(run))}
    BY <1>2 DEF Fault, PowerCut, CmosAfterCut, CmosLoss, FailBlock, ArmFails,
                PowerOff
  <2>3. ~cmos'.recovery
    BY <1>1, <2>1, <2>2, RequestFields, OtherSlot
  <2>4. run' \in {run, "none"}
    BY DEF Fault, PowerCut, CmosLoss, FailBlock, ArmFails, PowerOff, ForgetBoot
  <2> QED BY <2>1, <2>3, <2>4 DEF IdleInv, Slots
<1>3. CASE phase \notin {"writing", "arming"}
  <2>1. \/ cmos' = cmos /\ run' = "none"
        \/ cmos' = Torn(cmos) /\ run' = run /\ phase = "off"
    BY <1>3 DEF Fault, PowerCut, CmosAfterCut, CmosLoss, FailBlock, ArmFails,
                PowerOff, Writing, ForgetBoot
  <2>2. Torn(cmos).recovery = cmos.recovery
    BY <1>1, RequestFields
  <2>3. Torn(cmos).tryNext = cmos.tryNext /\ Torn(cmos).tried = cmos.tried
    BY <1>1, ChoiceFields
  <2> QED BY <2>1, <2>2, <2>3 DEF IdleInv
<1> QED BY <1>2, <1>3

LEMMA IdleOs ==
  ASSUME TypeInv, RecoveryInv, IdleInv, Os, OsOps \cap {"arm", "trynext"} = {}
  PROVE  IdleInv'
<1>1. cmos \in Block /\ phase = "os" /\ ~cmos.recovery
  BY DEF Os, BootOk, CmdArmUpdate, CmdTryNext, FlashSlot, FlashCut,
         StageCapsule, Reboot, InOs, RecoveryInv, TypeInv, TypeOK
<1>2. CASE BootOk
  <2>1. cmos' = MarkSuccess(cmos) /\ run' = run /\ phase' = phase
    BY <1>2 DEF BootOk
  <2>2. ~cmos'.recovery
    BY <1>1, <2>1, RequestFields
  <2> QED BY <1>1, <2>1, <2>2, ChoiceFields DEF IdleInv
<1>3. CASE ~BootOk
  <2>1. cmos' = cmos /\ (run' = "none" \/ (run' = run /\ phase' = phase))
    BY <1>3 DEF Os, CmdArmUpdate, CmdTryNext, FlashSlot, FlashCut,
                StageCapsule, Reboot, InOs, ForgetBoot
  <2> QED BY <2>1 DEF IdleInv
<1> QED BY <1>2, <1>3

\* Updates by capsule and by flashrom, slots written in place included: what
\* boot-ok reports in a recovery boot is of a slot that is not the next one.
THEOREM RecoveryAlwaysIdle ==
  OsOps \cap {"arm", "trynext"} = {} /\ Spec => []RecoveryReportsIdle
<1> SUFFICES ASSUME OsOps \cap {"arm", "trynext"} = {}
             PROVE  Spec => []RecoveryReportsIdle
  OBVIOUS
<1>1. Spec => [](TypeInv /\ RecoveryInv)
  BY TypeInit, TypeStep, RecoveryInit, RecoveryNext, PTL DEF Spec
<1>2. TypeInv /\ RecoveryInv /\ IdleInv /\ [Next]_vars => IdleInv'
  <2>1. IdleInv /\ UNCHANGED vars => IdleInv'
    BY DEF vars, IdleInv
  <2> QED BY <2>1, IdleFirmware, IdleFault, IdleOs DEF Next
<1>3. IdleInv => RecoveryReportsIdle
  BY DEF IdleInv, RecoveryReportsIdle, SelectedSlot, SpentTrial
<1> QED BY <1>1, <1>2, <1>3, IdleInit, PTL DEF Spec
=============================================================================
