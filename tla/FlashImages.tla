---------------------------- MODULE FlashImages ----------------------------
(***************************************************************************)
(* One flash chip and the image files about it: ROMs of scripts/            *)
(* build-firmware.py, a backup of the chip, scripts/transfer-settings.py    *)
(* from one to the other, the capsule of scripts/make-capsule.py, the       *)
(* payload that cuts its half out of it, and the protected ranges that      *)
(* patches/base/0043 puts over what no update may touch.                    *)
(*                                                                         *)
(* Layouts move between builds, so every step looks its areas up.  `map` of *)
(* a file and `halves` of a capsule are history: where things really are.   *)
(***************************************************************************)
EXTENDS FlashMap, FiniteSets

CONSTANTS
  Layouts,    \* layouts ROMs have been built with
  Map,        \* Map[l][name]: offset and size of an area
  Size,       \* cells of the chip
  Factory,    \* the build on the chip at first
  Releases,   \* builds made later
  User,       \* content of settings that the user has changed
  FspTakes,   \* how many registers FSP may have taken
  CutAt,      \* where a copy may end early
  MaxFileOps  \* bound: files made from other files

Slots == {"A", "B"}
Other(s) == IF s = "A" THEN "B" ELSE "A"
Section(s) == IF s = "A" THEN "RW_SECTION_A" ELSE "RW_SECTION_B"
Sealed == {"WP_RO", "SI_DESC", "SI_GBE"}

AreaOf(r) == r.off .. r.off + r.size - 1

\* What the layouts have in common: an area is inside the chip and overlaps no
\* other, WP_RO around FMAP apart; what updates and transfers move lies before
\* the map, so that a file cut short has it or has no map; the descriptor is
\* the first thing on the chip.
Before == {"SI_GBE", "SMMSTORE", "RW_SECTION_A", "RW_SECTION_B"}

LayoutOk(m) ==
  /\ {"FMAP", "COREBOOT", "SI_DESC", "SI_GBE", "SMMSTORE"} \subseteq DOMAIN m
  /\ \A a \in DOMAIN m : /\ m[a].off \in 0 .. Size - 1
                         /\ m[a].size \in 1 .. Size - m[a].off
  /\ m["FMAP"].size = MapCells
  /\ m["SI_DESC"].off = 0
  /\ \A a \in Before \cap DOMAIN m :
       /\ m[a].off + m[a].size <= m["FMAP"].off
       /\ \A c \in (Before \cup {"SI_DESC", "WP_RO"}) \cap DOMAIN m :
            a # c => AreaOf(m[a]) \cap AreaOf(m[c]) = {}
  /\ \A s \in Slots : Section(s) \in DOMAIN m =>
       m["COREBOOT"].off \notin AreaOf(m[Section(s)])

ASSUME FlashImagesAssumption ==
  /\ Size \in Nat \ {0}
  /\ User \notin Releases \cup {Factory}
  /\ FspTakes \subseteq 0 .. 5
  /\ CutAt \subseteq 0 .. Size - 1
  /\ MaxFileOps \in Nat
  /\ \A l \in Layouts : LayoutOk(Map[l])

VARIABLES
  chip,     \* what is in flash
  run,      \* the firmware that runs: a slot, "RO" or "off"
  fprs,     \* the protected range registers
  rom,      \* the ROM file at hand
  backup,   \* the file read from the chip
  cap,      \* the capsule
  fileOps   \* files made so far

vars == <<chip, run, fprs, rom, backup, cap, fileOps>>

-----------------------------------------------------------------------------
(* Images                                                                    *)

\* A C string in uncompressed code: its terminator is no major version.
Text == [major |-> 0, nareas |-> 1, areas |-> NoMap]

HeadAt(l, k) ==
  IF k = Map[l]["FMAP"].off
  THEN [major |-> 1, nareas |-> 10, areas |-> Map[l]]
  ELSE IF \E s \in Slots : /\ Section(s) \in DOMAIN Map[l]
                           /\ k = Map[l][Section(s)].off
  THEN Text
  ELSE NoHead

Cell(i, l, k) == [by |-> i, layout |-> l, k |-> k, head |-> HeadAt(l, k)]

Setting(k) == [by |-> User, layout |-> User, k |-> k, head |-> NoHead]

BuiltRom(i, l) ==
  [len |-> Size,
   at  |-> [k \in 0 .. Size - 1 |-> Cell(i, l, k)],
   map |-> Map[l]]

NoFile == [len |-> 0, at |-> <<>>, map |-> NoMap]
NoCapsule == [data   |-> [len |-> 0, at |-> <<>>],
              halves |-> [s \in Slots |-> [len |-> 0, at |-> <<>>]]]

\* What an area of an image really is, wherever its map was found.
Truth(b, a) == Slice(b, b.map[a].off, b.map[a].size)

-----------------------------------------------------------------------------
(* Protected ranges: coreboot's boot_device_wp_region() is external          *)

FPRs == 0 .. 4
Register == [base : 0 .. Size - 1, limit : 0 .. Size - 1, wpe : BOOLEAN]
Zero == [base |-> 0, limit |-> 0, wpe |-> FALSE]

\* FSP may have taken registers before coreboot gets to them.
FspRange == [base |-> 0, limit |-> 0, wpe |-> TRUE]
AfterFsp(n) == [r \in FPRs |-> IF r < n THEN FspRange ELSE Zero]

\* Mutant: the limit is the first cell after the area.
ProtectToNext(regs, range) ==
  IF \A r \in FPRs : regs[r] # Zero
  THEN regs
  ELSE LET free == CHOOSE r \in FPRs : /\ regs[r] = Zero
                                       /\ \A q \in FPRs : regs[q] = Zero => r <= q
       IN  [regs EXCEPT ![free] = [base  |-> range.off,
                                   limit |-> range.off + range.size,
                                   wpe   |-> TRUE]]

\* The first free register, or "No SPI FPR free!" and the boot goes on.
Protect(regs, range) ==
  IF \A r \in FPRs : regs[r] # Zero
  THEN regs
  ELSE LET free == CHOOSE r \in FPRs : /\ regs[r] = Zero
                                       /\ \A q \in FPRs : regs[q] = Zero => r <= q
       IN  [regs EXCEPT ![free] = [base  |-> range.off,
                                   limit |-> range.off + range.size - 1,
                                   wpe   |-> TRUE]]

Adjacent(map) ==
  map["SI_DESC"].off + map["SI_DESC"].size = map["SI_GBE"].off

\* Mutant: the range covers the descriptor alone.
LockDescriptorOnly(regs, map) ==
  IF Adjacent(map) THEN Protect(regs, map["SI_DESC"]) ELSE regs

\* One range over both, or none at all if they are not adjacent.
LockDescriptorAndGbe(regs, map) ==
  IF Adjacent(map)
  THEN Protect(regs, [off  |-> map["SI_DESC"].off,
                      size |-> map["SI_DESC"].size + map["SI_GBE"].size])
  ELSE regs

Lockdown(regs, map) ==
  LockDescriptorAndGbe(
    IF "WP_RO" \in DOMAIN map THEN Protect(regs, map["WP_RO"]) ELSE regs, map)

Blocked(k) ==
  \E r \in FPRs : fprs[r].wpe /\ k \in fprs[r].base .. fprs[r].limit

\* What spi-ranges.py prints: the cells of the ranges with writes=blocked.
ReportedBlocked ==
  UNION {fprs[r].base .. fprs[r].limit :
           r \in {q \in FPRs : fprs[q] # Zero /\ fprs[q].wpe}}

TakenByFsp == {r \in FPRs : fprs[r] = FspRange}

-----------------------------------------------------------------------------
(* The machine                                                               *)

VbootLayout(map) == {Section(s) : s \in Slots} \subseteq DOMAIN map

\* vboot's choice is free here; a layout without slots runs its only copy.
Boot(s, n) ==
  /\ run = "off"
  /\ s \in Slots => VbootLayout(chip.map)
  /\ run' = s
  /\ fprs' = Lockdown(AfterFsp(n), chip.map)
  /\ UNCHANGED <<chip, rom, backup, cap, fileOps>>

PowerOff ==
  /\ run # "off"
  /\ run' = "off"
  /\ fprs' = AfterFsp(0)
  /\ UNCHANGED <<chip, rom, backup, cap, fileOps>>

\* The payload writes variables into SMMSTORE.
ChangeSettings ==
  /\ run # "off"
  /\ LET r == chip.map["SMMSTORE"]
     IN  chip' = [chip EXCEPT !.at = [k \in 0 .. chip.len - 1 |->
                    IF k \in AreaOf(r) /\ ~Blocked(k)
                    THEN Setting(k - r.off) ELSE chip.at[k]]]
  /\ UNCHANGED <<run, fprs, rom, backup, cap, fileOps>>

-----------------------------------------------------------------------------
(* Files                                                                     *)

FileOp == fileOps < MaxFileOps /\ fileOps' = fileOps + 1

\* flashrom -r backup.bin, from the OS or with the programmer.
Backup ==
  /\ run = "off"
  /\ FileOp
  /\ backup' = chip
  /\ UNCHANGED <<chip, run, fprs, rom, cap>>

Build(i, l) ==
  /\ FileOp
  /\ rom' = BuiltRom(i, l)
  /\ UNCHANGED <<chip, run, fprs, backup, cap>>

Shortened(b, n) ==
  LET r == Slice(b, 0, n)
  IN  [len |-> r.len, at |-> r.at, map |-> b.map]

\* A copy of both files on a full disk, as long as each fits.
Cut(n) ==
  /\ rom # NoFile /\ n < rom.len
  /\ FileOp
  /\ rom' = Shortened(rom, n)
  /\ backup' \in {backup} \cup
                 (IF backup = NoFile THEN {} ELSE {Shortened(backup, n)})
  /\ UNCHANGED <<chip, run, fprs, cap>>

\* The BIOS region alone, as ifdtool extracts it: it begins after the regions
\* of the descriptor, and the offsets in its map still count from them.
BiosRegion(b) ==
  LET n == b.map["SI_GBE"].off + b.map["SI_GBE"].size
      r == Slice(b, n, b.len)
  IN  [len |-> r.len,
       at  |-> r.at,
       map |-> [a \in DOMAIN b.map |-> [off  |-> b.map[a].off - n,
                                        size |-> b.map[a].size]]]

\* Mutant: the destination taken from the original's map.
CopyRegionSameOffset(out, orig, ao, an, r) ==
  Splice(out, ao[r].off, an[r].size, Slice(orig, ao[r].off, ao[r].size))

CopyRegion(out, orig, ao, an, r) ==
  Splice(out, an[r].off, an[r].size, Slice(orig, ao[r].off, ao[r].size))

\* parse_fmap() of both files and the checks of each region; the output is the
\* file that gets flashed.  COREBOOT is compared before it is written.
Transfer(gbe) ==
  LET ao == FirstFmap(backup)
      an == FirstFmap(rom)
      regions == {"SMMSTORE"} \cup IF gbe THEN {"SI_GBE"} ELSE {}
      one == CopyRegion(rom, backup, ao, an, "SMMSTORE")
      out == IF gbe THEN CopyRegion(one, backup, ao, an, "SI_GBE") ELSE one
  IN  /\ FileOp
      /\ backup # NoFile /\ rom # NoFile
      /\ backup.len = rom.len
      /\ regions \subseteq DOMAIN ao \cap DOMAIN an
      /\ \A r \in regions : ao[r].size = an[r].size
      /\ "COREBOOT" \in DOMAIN an =>
           Slice(out, an["COREBOOT"].off, an["COREBOOT"].size)
             = Slice(rom, an["COREBOOT"].off, an["COREBOOT"].size)
      /\ rom' = [len |-> out.len, at |-> out.at, map |-> rom.map]
      /\ UNCHANGED <<chip, run, fprs, backup, cap>>

\* Both slots, A first then B, and nothing else.
Payload(b, areas) ==
  Concat(Slice(b, areas["RW_SECTION_A"].off, areas["RW_SECTION_A"].size),
         Slice(b, areas["RW_SECTION_B"].off, areas["RW_SECTION_B"].size))

\* make-capsule.py on a file, whole or not: no map, no slots or slots of two
\* sizes are errors, and the capsule of an earlier run stays.
MakeCapsule(b) ==
  LET areas == FindFmap(b)
  IN  /\ FileOp
      /\ VbootLayout(areas)
      /\ areas["RW_SECTION_A"].size = areas["RW_SECTION_B"].size
      /\ cap' = [data   |-> Payload(b, areas),
                 halves |-> [s \in Slots |-> Truth(b, Section(s))]]
      /\ UNCHANGED <<chip, run, fprs, rom, backup>>

PackFile ==
  /\ rom # NoFile
  /\ MakeCapsule(rom) \/ MakeCapsule(BiosRegion(rom))

-----------------------------------------------------------------------------
(* FmpDeviceSlotLib on the layout that coreboot handed over                  *)

\* FLASH_LAYOUT_INFO: the CBFS this boot came from.
CbfsOffset ==
  IF run \in Slots
  THEN LET r == chip.map[Section(run)] IN r.off + r.size - 1
  ELSE chip.map["COREBOOT"].off

\* ResolveSlot(): the slot without that CBFS, "none" if there is no such slot
\* or the slots differ in size.
ResolveSlot(map) ==
  IF ~VbootLayout(map) THEN "none"
  ELSE IF map[Section("A")].size # map[Section("B")].size THEN "none"
  ELSE IF CbfsOffset \in AreaOf(map[Section("A")]) THEN "B"
  ELSE IF CbfsOffset \in AreaOf(map[Section("B")]) THEN "A"
  ELSE "none"

\* mImageOffset: where the target's half starts in the image.
ImageOffset(target, slot) == IF target = "B" THEN slot.size ELSE 0

\* A capsule found in this boot is checked and written.  A cell is a block, so
\* that every slot is aligned.  The reset after it ends the boot.
Apply ==
  LET target == ResolveSlot(chip.map)
      slot == chip.map[Section(target)]
      from == ImageOffset(target, slot)
  IN  /\ run # "off"
      /\ cap # NoCapsule
      /\ target # "none"
      /\ cap.data.len = 2 * slot.size
      /\ chip' = [chip EXCEPT !.at = [k \in 0 .. chip.len - 1 |->
                    IF k \in AreaOf(slot) /\ ~Blocked(k)
                    THEN cap.data.at[from + k - slot.off]
                    ELSE chip.at[k]]]
      /\ run' = "off"
      /\ fprs' = AfterFsp(0)
      /\ UNCHANGED <<rom, backup, cap, fileOps>>

\* flashrom -p internal --fmap with BIOS Lock off, on any areas.  It writes
\* nothing that a protected range covers, and the guide asks for one layout.
OsWrite(areas) ==
  /\ run # "off"
  /\ rom.len = chip.len
  /\ rom.map = chip.map
  /\ chip' = [chip EXCEPT !.at = [k \in 0 .. chip.len - 1 |->
                IF ~Blocked(k) /\ \E a \in areas : k \in AreaOf(chip.map[a])
                THEN rom.at[k] ELSE chip.at[k]]]
  /\ UNCHANGED <<run, fprs, rom, backup, cap, fileOps>>

\* The whole chip with the programmer.
Program ==
  /\ run = "off"
  /\ rom.len = Size
  /\ chip' = rom
  /\ UNCHANGED <<run, fprs, rom, backup, cap, fileOps>>

-----------------------------------------------------------------------------

Init ==
  /\ \E l \in Layouts : chip = BuiltRom(Factory, l)
  /\ run = "off"
  /\ fprs = AfterFsp(0)
  /\ rom = NoFile
  /\ backup = NoFile
  /\ cap = NoCapsule
  /\ fileOps = 0

Next ==
  \/ \E s \in Slots \cup {"RO"}, n \in FspTakes : Boot(s, n)
  \/ PowerOff
  \/ ChangeSettings
  \/ Backup
  \/ \E i \in Releases, l \in Layouts : Build(i, l)
  \/ \E n \in CutAt : Cut(n)
  \/ \E gbe \in BOOLEAN : Transfer(gbe)
  \/ PackFile
  \/ Apply
  \/ \E areas \in {Sealed, {"RW_SECTION_A", "RW_SECTION_B"}} : OsWrite(areas \cap DOMAIN chip.map)
  \/ Program

Spec == Init /\ [][Next]_vars

-----------------------------------------------------------------------------
(* Properties                                                                *)

IsImage(b) == DOMAIN b.at = 0 .. b.len - 1

TypeOK ==
  /\ IsImage(chip) /\ chip.len = Size
  /\ run \in Slots \cup {"RO", "off"}
  /\ fprs \in [FPRs -> Register]
  /\ IsImage(rom)
  /\ backup = NoFile \/ IsImage(backup)
  /\ IsImage(cap.data)
  /\ fileOps \in 0 .. MaxFileOps

\* Whatever layouts the backup and the new ROM have, the output is the new ROM
\* with the settings of the original in their place: nothing of the firmware
\* changes, and no setting is lost or cut (transfer-settings.py: "without
\* touching the firmware itself").
OnlySettingsMove ==
  [][\A gbe \in BOOLEAN : Transfer(gbe) =>
       LET moved == {"SMMSTORE"} \cup IF gbe THEN {"SI_GBE"} ELSE {}
       IN  /\ rom'.len = rom.len
           /\ \A a \in moved : Truth(rom', a) = Truth(backup, a)
           /\ \A k \in 0 .. rom.len - 1 :
                (\A a \in moved : k \notin AreaOf(rom.map[a])) =>
                   rom'.at[k] = rom.at[k]]_vars

\* A capsule, from whatever file it was packed, puts the half that was built for
\* a slot into that slot, never into the one that runs, and changes nothing
\* else on the chip (0003: "Carrying both halves makes that impossible, not
\* unlikely").
HalfLandsWhole ==
  [][Apply =>
       /\ run \in Slots
       /\ LET slot == AreaOf(chip.map[Section(Other(run))])
          IN  /\ Truth(chip', Section(Other(run))) = cap.halves[Other(run)]
              /\ \A k \in 0 .. Size - 1 \ slot : chip'.at[k] = chip.at[k]]_vars

\* While the machine runs nothing changes what spi-ranges.py shows as blocked;
\* and if FSP has left two registers, that is WP_RO, the descriptor and the MAC,
\* as far as one range can cover them (GUIDE: "ignore BIOS Lock, root and SMM alike").
SealedStays ==
  [][run # "off" =>
       /\ \A k \in ReportedBlocked : chip'.at[k] = chip.at[k]
       /\ (Adjacent(chip.map) /\ Cardinality(TakenByFsp) <= 3) =>
            \A a \in Sealed \cap DOMAIN chip.map :
               AreaOf(chip.map[a]) \subseteq ReportedBlocked]_vars
=============================================================================
