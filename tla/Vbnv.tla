-------------------------------- MODULE Vbnv --------------------------------
(***************************************************************************)
(* The vboot non-volatile block (VBNV) at the level of its fields: what    *)
(* the firmware's ArmTrialBoot() and scripts/vbnv.py do to it, and what    *)
(* vboot itself does to it while it picks a slot.  VbnvBytes relates the   *)
(* fields to the sixteen bytes in CMOS.                                    *)
(***************************************************************************)
EXTENDS Integers

CONSTANT MaxTries   \* the largest --tries considered; the tool takes 1..15

ASSUME MaxTriesAssumption == MaxTries \in 1..15

Slots == {"A", "B"}
Other(s) == IF s = "A" THEN "B" ELSE "A"

Results == {"unknown", "trying", "success", "failure"}

\* "valid" is the header signature and the CRC together; "recovery" is a
\* non-zero recovery request.  "tried" is the slot the block calls running.
Block == [valid    : BOOLEAN,
          tryNext  : Slots,
          tryCount : 0 .. MaxTries,
          tried    : Slots,
          result   : Results,
          recovery : BOOLEAN]

\* What vboot creates when neither CMOS nor the flash copy has a block.
FreshBlock == [valid    |-> TRUE,
               tryNext  |-> "A",
               tryCount |-> 0,
               tried    |-> "A",
               result   |-> "unknown",
               recovery |-> FALSE]

Torn(b) == [b EXCEPT !.valid = FALSE]

-----------------------------------------------------------------------------
(* Mutants of ArmTrialBoot: no count, one that does not replace the old     *)
(* one, and the wrong slot.                                                *)

ArmTrialBootUncounted(b, target) == [b EXCEPT !.tryNext = target]
ArmTrialBootLeftCount(b, target) ==
    [b EXCEPT !.tryNext = target, !.tryCount = MaxTries]
ArmTrialBootSwapped(b, target) ==
    [b EXCEPT !.tryNext = Other(target), !.tryCount = 1]

\* FmpDeviceSlotLib: the next boot runs the slot just written, once.
ArmTrialBoot(b, target) == [b EXCEPT !.tryNext = target, !.tryCount = 1]

\* vbnv.py boot-ok, on a block that does not say "success" yet.
MarkSuccess(b) == [b EXCEPT !.result = "success"]

\* vbnv.py arm-update without a slot argument takes the one not running.
InactiveSlot(b) == Other(b.tried)

ArmUpdate(b, s, n) == [b EXCEPT !.tryNext = s, !.tryCount = n]

SelectNext(b, s) == [b EXCEPT !.tryNext = s]

-----------------------------------------------------------------------------
(* vboot (external): vb2_select_fw_slot() and vb2api_fail().               *)

\* The trial that never reported and has no attempt left.
SpentTrial(b) == b.result = "trying" /\ b.tried = b.tryNext /\ b.tryCount = 0

SelectedSlot(b) == IF SpentTrial(b) THEN Other(b.tryNext) ELSE b.tryNext

SelectFwSlot(b) ==
    [b EXCEPT !.tryNext  = SelectedSlot(b),
              !.tried    = SelectedSlot(b),
              !.result   = IF b.tryCount > 0 THEN "trying" ELSE "unknown",
              !.tryCount = IF b.tryCount > 0 THEN b.tryCount - 1 ELSE 0]

\* The slot chosen from b did not verify: the other one is next, unless that
\* one failed on the boot before, which asks for recovery.
FailFwSlot(b) ==
    LET s == SelectedSlot(b)
    IN  [b EXCEPT !.tryNext  = Other(s),
                  !.tried    = s,
                  !.result   = "failure",
                  !.tryCount = 0,
                  !.recovery = b.tried = Other(s) /\ b.result = "failure"]
=============================================================================
