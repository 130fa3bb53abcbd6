------------------------------ MODULE VbnvBytes ------------------------------
(***************************************************************************)
(* The sixteen bytes of the VBNV block: the CRC, the two checks, and the    *)
(* edits of scripts/vbnv.py and ArmTrialBoot() (patches/edk2/0003).  A byte *)
(* is the set of its one bits, so masks are intersections.                  *)
(***************************************************************************)
EXTENDS Vbnv

Byte  == SUBSET (0 .. 7)
Bytes == [0 .. 15 -> Byte]

OffsHeader   == 0
OffsBoot     == 1
OffsRecovery == 2
OffsBoot2    == 7
OffsCrc      == 15

HeaderMask      == {7, 6, 1, 0}
HeaderSignature == {6}
BootTryCount    == 0 .. 3
Boot2Result     == {0, 1}
Boot2Tried      == 2
Boot2TryNext    == 3

\* A number below 16 as bits, and back.
Bits(n) == {i \in BootTryCount : (n \div 2^i) % 2 = 1}
Num(bits) == CHOOSE n \in 0 .. 15 : Bits(n) = bits

ResultBits == [unknown |-> {}, trying |-> {0}, success |-> {1}, failure |-> {0, 1}]

-----------------------------------------------------------------------------
(* CRC-8 ITU on a 16-bit register                                            *)

Xor(a, b) == (a \ b) \cup (b \ a)

\* Mutant: the polynomial never subtracted.
ShiftNoPoly(crc) == {i + 1 : i \in crc \ {15}}

\* 0x1070 << 3 is taken off when the top bit is set; the register is 16 bits.
Shift(crc) ==
  LET c == IF 15 \in crc THEN Xor(crc, {15, 9, 8, 7}) ELSE crc
  IN  {i + 1 : i \in c \ {15}}

\* The register after the eight shifts of one byte.  They empty its low half,
\* so the high half alone carries over to the next byte.
EightShifts ==
  [byte \in Byte |->
     LET Two(crc)  == Shift(Shift(crc))
         Four(crc) == Two(Two(crc))
     IN  {i - 8 : i \in Four(Four({i + 8 : i \in byte}))}]

AddByte(crc, byte) == EightShifts[Xor(crc, byte)]

\* The high half of the register after all the bytes before the CRC.
HighHalf(blk) ==
  LET crc[k \in 0 .. OffsCrc] ==
        IF k = 0 THEN {} ELSE AddByte(crc[k - 1], blk[k - 1])
  IN  crc[OffsCrc]

\* The register shifted right by eight.
Crc8(blk) == HighHalf(blk)

\* check() and the head of ArmTrialBoot().
BlockOk(blk) ==
  /\ blk[OffsHeader] \cap HeaderMask = HeaderSignature
  /\ blk[OffsCrc] = Crc8(blk)

Sealed(blk) == [blk EXCEPT ![OffsCrc] = Crc8(blk)]

-----------------------------------------------------------------------------
(* The fields of a block, as Vbnv has them                                   *)

SlotBit(blk, bit) == IF bit \in blk[OffsBoot2] THEN "B" ELSE "A"

Decode(blk) ==
  [valid    |-> BlockOk(blk),
   tryNext  |-> SlotBit(blk, Boot2TryNext),
   tryCount |-> Num(blk[OffsBoot] \cap BootTryCount),
   tried    |-> SlotBit(blk, Boot2Tried),
   result   |-> CHOOSE r \in Results :
                   ResultBits[r] = blk[OffsBoot2] \cap Boot2Result,
   recovery |-> blk[OffsRecovery] # {}]

-----------------------------------------------------------------------------
(* Edits, each sealed with a new CRC                                         *)

PutTryNext(blk, s) ==
  [blk EXCEPT ![OffsBoot2] = IF s = "B" THEN @ \cup {Boot2TryNext}
                                        ELSE @ \ {Boot2TryNext}]

PutTryCount(blk, n) ==
  [blk EXCEPT ![OffsBoot] = (@ \ BootTryCount) \cup Bits(n)]

\* Mutant: the result stored over the whole byte.
BootOkWholeByte(blk) == Sealed([blk EXCEPT ![OffsBoot2] = ResultBits.success])

BootOkBytes(blk) ==
  Sealed([blk EXCEPT ![OffsBoot2] = (@ \ Boot2Result) \cup ResultBits.success])

\* Mutant: the count put in without clearing the field first.
ArmUpdateOrOnly(blk, s, n) ==
  Sealed([PutTryNext(blk, s) EXCEPT ![OffsBoot] = @ \cup Bits(n)])

ArmUpdateBytes(blk, s, n) == Sealed(PutTryCount(PutTryNext(blk, s), n))

TryNextBytes(blk, s) == Sealed(PutTryNext(blk, s))

\* Mutant: the firmware stores its register without the shift by eight.
ArmTrialBootUnshifted(blk, s) ==
  LET b == PutTryCount(PutTryNext(blk, s), 1)
  IN  [b EXCEPT ![OffsCrc] = {i + 8 : i \in HighHalf(b)}]

\* ArmTrialBoot() writes the same edit, with one try.
ArmTrialBootBytes(blk, s) == Sealed(PutTryCount(PutTryNext(blk, s), 1))
=============================================================================
