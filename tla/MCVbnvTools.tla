----------------------------- MODULE MCVbnvTools -----------------------------
(***************************************************************************)
(* VbnvTools on the blocks vboot leaves behind: every slot, result and next *)
(* slot, with reserved bits and the previous boot set and clear, and one    *)
(* block that does not verify.                                             *)
(***************************************************************************)
EXTENDS VbnvTools

CONSTANTS p1, p2

Blank == [k \in 0 .. 15 |-> IF k = OffsHeader THEN {6, 4} ELSE {}]

BootBytes == {{}, {7, 1, 0}}
Boot2Bytes == {r \cup q : r \in SUBSET (0 .. 3), q \in {{}, {6, 5}}}

GoodBlocks ==
  {Sealed([Blank EXCEPT ![OffsBoot] = b, ![OffsBoot2] = c, ![9] = {7, 2}]) :
     b \in BootBytes, c \in Boot2Bytes}

MCBootBlocks == GoodBlocks \cup {Blank}

Command(op, slot, tries) == [op |-> op, slot |-> slot, tries |-> tries]

MCCommands == {Command("boot-ok", "A", 1), Command("arm-update", "B", 1),
               Command("arm-update", "A", 14), Command("try-next", "A", 1),
               Command("fix-checksum", "A", 1)}

\* Two commands typed while the service of the boot runs.
OverlapBlocks == {Sealed([Blank EXCEPT ![OffsBoot2] = {0}])}
OverlapCommands == {Command("boot-ok", "A", 1), Command("arm-update", "B", 1)}
=============================================================================
