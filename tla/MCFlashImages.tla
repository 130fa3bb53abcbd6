--------------------------- MODULE MCFlashImages ---------------------------
(***************************************************************************)
(* FlashImages on eleven cells: the layout of patches/base/0040, one with    *)
(* its areas moved, one with other sizes, one with slots of two sizes, and   *)
(* one without verified boot.                                               *)
(***************************************************************************)
EXTENDS FlashImages

At(off, size) == [off |-> off, size |-> size]

\* Descriptor and GbE come first, COREBOOT ends the chip.
Common == [SI_DESC |-> At(0, 1), SI_GBE |-> At(1, 1)]

With(areas) == [a \in DOMAIN areas \cup DOMAIN Common |->
                  IF a \in DOMAIN areas THEN areas[a] ELSE Common[a]]

MCMap ==
  [vboot   |-> With([SMMSTORE |-> At(2, 1), RW_SECTION_A |-> At(3, 2),
                     RW_SECTION_B |-> At(5, 2), WP_RO |-> At(7, 4),
                     FMAP |-> At(7, 2), COREBOOT |-> At(9, 2)]),
   moved   |-> With([SMMSTORE |-> At(6, 1), RW_SECTION_A |-> At(4, 2),
                     RW_SECTION_B |-> At(2, 2), WP_RO |-> At(7, 4),
                     FMAP |-> At(7, 2), COREBOOT |-> At(9, 2)]),
   resized |-> With([SMMSTORE |-> At(2, 2), RW_SECTION_A |-> At(4, 1),
                     RW_SECTION_B |-> At(5, 1), WP_RO |-> At(6, 5),
                     FMAP |-> At(6, 2), COREBOOT |-> At(8, 3)]),
   unequal |-> With([SMMSTORE |-> At(2, 1), RW_SECTION_A |-> At(3, 1),
                     RW_SECTION_B |-> At(4, 3), WP_RO |-> At(7, 4),
                     FMAP |-> At(7, 2), COREBOOT |-> At(9, 2)]),
   plain   |-> With([SMMSTORE |-> At(1, 1), SI_GBE |-> At(2, 1), FMAP |-> At(3, 2),
                     COREBOOT |-> At(5, 6)])]

MCLayouts == DOMAIN MCMap
=============================================================================
