-------------------------- MODULE CapsuleInvariant --------------------------
(***************************************************************************)
(* Why updates by capsule alone, or with flashrom and vbnv.py alone, cannot *)
(* cost the machine its firmware: the inductive invariants behind           *)
(* FallbackSurvives and CounterWaits.                                       *)
(*                                                                         *)
(* The block in CMOS and its older copy in RW_NVRAM can each come into      *)
(* effect at any power loss, so each of them has to lead vboot to a slot    *)
(* that works, whatever has happened to flash and to the counter since.     *)
(***************************************************************************)
EXTENDS SlotUpdate

FallbackSlots == {s \in Slots : Fallback(s)}

\* Choosing one of these ends in a release that has worked, or in a rejection.
ProvenSlots == {s \in Slots : Verifies(s) => Fallback(s)}

ReportedSlots == {s \in Slots : SlotImage(s) \in reported}

\* What a block that may come into effect promises about the slots.
SafeBlock(b) ==
  /\ ~b.recovery
  /\ b.tryCount \in {0, 1}
  /\ b.tryCount = 1 => /\ Other(b.tryNext) \in ProvenSlots
                       /\ b.tried = Other(b.tryNext)
                       /\ b.result \in {"unknown", "success"}
  /\ (b.tryCount = 0 /\ b.result = "trying") =>
        b.tried = b.tryNext /\ Other(b.tryNext) \in ProvenSlots
  /\ (b.tryCount = 0 /\ b.result # "trying") => b.tryNext \in FallbackSlots
  /\ b.result = "success" => b.tried \in FallbackSlots \cap ReportedSlots
  /\ (b.tryCount = 0 /\ b.result = "success") => b.tried = b.tryNext

\* Ramstage copies the block after vboot has consumed an attempt.
SettledBlock(b) ==
  /\ b.valid
  /\ b.tryCount = 0
  /\ b.result \in {"unknown", "trying"}
  /\ b.tried = b.tryNext

Booted == {"romstage", "payload", "writing", "arming", "processed", "os"}

\* The slot that runs is the one the block names, and it is whole.
RunInv ==
  /\ phase \in Booted => /\ run \in Slots
                         /\ Verifies(run)
                         /\ image = SlotImage(run)
  /\ phase \in Booted \ {"romstage"} => /\ flash[run][1].half = run
                                        /\ backup.tried = run
  /\ phase = "romstage" => SettledBlock(cmos) /\ cmos.tried = run
  /\ phase \in {"payload", "writing", "arming"} => cmos = backup
  /\ phase = "processed" => cmos \in {backup, Torn(backup)}
  /\ phase = "os" => /\ image \in cameUp
                     /\ cmos \in {backup, Torn(backup), MarkSuccess(backup)}

\* A capsule is only processed by a release that has worked here: the boot
\* that consumes one is never a trial.
CapsuleInv ==
  /\ staged # NoImage => phase \in {"verstage", "romstage", "os", "hung"}
  /\ (staged # NoImage /\ phase = "verstage") => Nv.tryCount = 0
  /\ (staged # NoImage /\ phase = "romstage") => cmos.result = "unknown"
  /\ (capsule # NoImage /\ phase \in {"payload", "writing", "arming"}) =>
        backup.result = "unknown"
  /\ (capsule = NoImage /\ phase = "writing") => job.next = 1 /\ ~job.erased
  /\ phase = "arming" => capsule # NoImage

BlockInv ==
  /\ cmos.valid => SafeBlock(cmos)
  /\ SettledBlock(backup)
  /\ SafeBlock(backup)
  /\ (cmos.valid /\ cmos.result = "success") => cmos.tried = backup.tried

CapsuleOnlyInv == /\ RunInv
                  /\ CapsuleInv
                  /\ BlockInv
                  /\ FallbackSurvives
                  /\ CounterWaits

-----------------------------------------------------------------------------
(* On top of it: what an armed trial stands for                              *)

\* What SetImage has written so far is the target's half of the capsule.
Written(upto) ==
  \A k \in Blocks : k < upto => flash[Other(run)][k] = Half(capsule, Other(run))

ProgressInv ==
  /\ phase \in {"off", "verstage"} => run = "none"
  /\ (phase = "writing" /\ capsule # NoImage) =>
        job.img = capsule /\ Written(job.next)
  /\ phase = "arming" => Written(NBlocks + 1)

\* A slot that has reported is on trial no more.
KeptInv ==
  (cmos.valid /\ (cmos.tryCount > 0 \/ cmos.result = "trying")) =>
     cmos.tryNext \notin kept

TrialInv == ProgressInv /\ ArmedSlotWhole /\ KeptInv

-----------------------------------------------------------------------------
(* And why updates with flashrom and vbnv.py alone cannot: the slot not      *)
(* running is the only one written, and a block never asks for a slot that   *)
(* a report vouches for without that slot being the one that reported.       *)

\* The running slot is the one the block calls tried, and it is whole.
RunningInv ==
  /\ phase \in Booted => /\ run \in Slots
                         /\ cmos.tried = run
                         /\ Verifies(run)
                         /\ image = SlotImage(run)
  /\ phase \in Booted \ {"romstage"} => flash[run][1].half = run
  /\ phase = "romstage" => cmos.valid /\ cmos.result \in {"unknown", "trying"}
  /\ phase = "os" => image \in cameUp

\* No capsule, so that SetImage ends at its first block.
ClosedInv ==
  /\ staged = NoImage /\ capsule = NoImage
  /\ phase # "arming"
  /\ phase = "writing" => job.next = 1 /\ ~job.erased

\* A block that says "success" names a slot that works, one that says
\* "failure" a slot that does not; neither ever asks for recovery.
VouchInv ==
  /\ ~cmos.recovery
  /\ backup.valid /\ ~backup.recovery /\ backup.result \in {"unknown", "trying"}
  /\ cmos.result = "success" =>
        cmos.tried \in FallbackSlots \cap ReportedSlots
  /\ cmos.result = "failure" =>
        phase \in {"off", "verstage"} /\ ~Verifies(cmos.tried)

FlashromOnlyInv == /\ RunningInv
                   /\ ClosedInv
                   /\ VouchInv
                   /\ FallbackSurvives
                   /\ CounterWaits
=============================================================================
