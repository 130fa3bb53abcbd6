-------------------------- MODULE CapsuleRefinement --------------------------
(***************************************************************************)
(* SlotUpdate with capsules alone implements SafeUpdate: a release is       *)
(* usable when one of the two slots is a fallback that holds it, the floor  *)
(* is the counter in the TPM, and what proves and confirms a release is     *)
(* that it reached userspace and that boot-ok ran in it.                    *)
(***************************************************************************)
EXTENDS CapsuleInvariant

Usable == {SlotImage(s) : s \in FallbackSlots}

SU == INSTANCE SafeUpdate
        WITH Releases  <- Images,
             usable    <- Usable,
             proven    <- cameUp,
             confirmed <- reported,
             floor     <- counter

\* Whatever happens to the two slots, the two blocks and the power, the machine
\* does what SafeUpdate allows: no step takes the last release that worked, and
\* the counter rises only under one that has reported and is still there (0003:
\* "A slot that never comes up costs one boot and the machine returns to the
\* old one without help").
ImplementsSafeUpdate == SU!Spec
=============================================================================
