---------------------------- MODULE MCSlotUpdate ----------------------------
(***************************************************************************)
(* SlotUpdate on small instances: f is the release the machine starts      *)
(* with, g a working release with a raised version, l one that dies after  *)
(* the payload, e one that dies before it, m one built for another layout. *)
(***************************************************************************)
EXTENDS CapsuleRefinement

CONSTANTS f, g, l, e, m

VersionOf(i) == IF i = f THEN 1 ELSE IF i = l THEN 3 ELSE 2
DiesOf(i) == IF i = l THEN "late" ELSE IF i = e THEN "early" ELSE "never"

MCVersion == [i \in Images |-> VersionOf(i)]
MCDies == [i \in Images |-> DiesOf(i)]
MCFits == Images \ {m}
=============================================================================
