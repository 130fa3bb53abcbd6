-------------------------- MODULE FlashImages_proofs --------------------------
(***************************************************************************)
(* Proofs about the protected ranges, the transfer of settings and the       *)
(* writing of a capsule, for any chip, any layouts, any files and any number *)
(* of registers that FSP has taken.                                          *)
(***************************************************************************)
EXTENDS FlashImages, FiniteSetTheorems, TLAPS

Maps == {Map[l] : l \in Layouts}

\* A file has the three fields and nothing else.
IsFile(b) == b = [len |-> b.len, at |-> b.at, map |-> b.map] /\ IsImage(b)

ChipInv == IsFile(chip) /\ chip.len = Size /\ chip.map \in Maps

FilesInv ==
  /\ IsFile(rom) /\ (rom = NoFile \/ rom.map \in Maps)
  /\ IsFile(backup)
  /\ IsImage(cap.data)
  /\ fileOps \in 0 .. MaxFileOps

\* The registers are those of this boot, set up from the layout on the chip.
FprInv ==
  /\ run \in Slots \cup {"RO", "off"}
  /\ run = "off" => fprs = AfterFsp(0)
  /\ run # "off" => \E n \in FspTakes : fprs = Lockdown(AfterFsp(n), chip.map)

IInv == ChipInv /\ FilesInv /\ FprInv

-----------------------------------------------------------------------------
(* The registers                                                             *)

\* A range that lies on the chip.
OnChip(range) == range.off \in 0 .. Size - 1 /\ range.size \in 1 .. Size - range.off

Entry(range) ==
  [base |-> range.off, limit |-> range.off + range.size - 1, wpe |-> TRUE]

\* The first j registers are in use.
Busy(regs, j) ==
  /\ regs \in [FPRs -> Register]
  /\ \A r \in FPRs : r < j <=> regs[r] # Zero

LEMMA EntryTyped ==
  ASSUME NEW range, OnChip(range)
  PROVE  Entry(range) \in Register /\ Entry(range) # Zero
<1>1. range.off \in 0 .. Size - 1 /\ range.off + range.size - 1 \in 0 .. Size - 1
  BY FlashImagesAssumption DEF OnChip
<1>2. Entry(range) \in Register
  BY <1>1 DEF Entry, Register
<1>3. Entry(range).wpe # Zero.wpe
  BY DEF Entry, Zero
<1> QED BY <1>2, <1>3

LEMMA AfterFspBusy ==
  ASSUME NEW n \in 0 .. 5
  PROVE  Busy(AfterFsp(n), n)
<1>1. Zero \in Register /\ FspRange \in Register
  BY FlashImagesAssumption DEF Zero, FspRange, Register
<1>2. FspRange # Zero
  <2>1. FspRange.wpe # Zero.wpe
    BY DEF Zero, FspRange
  <2> QED BY <2>1
<1>3. AfterFsp(n) \in [FPRs -> Register]
  BY <1>1 DEF AfterFsp
<1> QED BY <1>2, <1>3 DEF Busy, AfterFsp

\* Protect() takes register j, if there is one.
LEMMA ProtectNext ==
  ASSUME NEW regs, NEW j \in 0 .. 4, Busy(regs, j), NEW range, OnChip(range)
  PROVE  /\ Protect(regs, range) = [regs EXCEPT ![j] = Entry(range)]
         /\ Busy(Protect(regs, range), j + 1)
<1> DEFINE First(r) == /\ regs[r] = Zero
                       /\ \A q \in FPRs : regs[q] = Zero => r <= q
           free == CHOOSE r \in FPRs : First(r)
<1>1. j \in FPRs /\ First(j)
  BY DEF Busy, FPRs
<1>2. free \in FPRs /\ First(free)
  BY <1>1
<1>3. free = j
  BY <1>1, <1>2 DEF FPRs
<1>4. Protect(regs, range) = [regs EXCEPT ![free] = Entry(range)]
  BY <1>1 DEF Protect, Entry
<1>5. Protect(regs, range) = [regs EXCEPT ![j] = Entry(range)]
  BY <1>3, <1>4
<1>6. Busy(Protect(regs, range), j + 1)
  BY <1>1, <1>5, EntryTyped DEF Busy, FPRs
<1> QED BY <1>5, <1>6

LEMMA ProtectFull ==
  ASSUME NEW regs, Busy(regs, 5), NEW range
  PROVE  Protect(regs, range) = regs
BY DEF Busy, Protect, FPRs

\* In any case the registers keep their types, and those in use stay.
LEMMA ProtectKeeps ==
  ASSUME NEW regs, NEW j \in 0 .. 5, Busy(regs, j), NEW range, OnChip(range)
  PROVE  /\ \E k \in j .. 5 : Busy(Protect(regs, range), k)
         /\ \A r \in FPRs : r < j => Protect(regs, range)[r] = regs[r]
<1>1. CASE j = 5
  BY <1>1, ProtectFull
<1>2. CASE j \in 0 .. 4
  BY <1>2, ProtectNext DEF Busy, FPRs
<1> QED BY <1>1, <1>2

-----------------------------------------------------------------------------
(* The layouts                                                               *)

LEMMA MapFacts ==
  ASSUME NEW m \in Maps
  PROVE  /\ \A a \in DOMAIN m : OnChip(m[a])
         /\ {"SI_DESC", "SI_GBE", "SMMSTORE", "COREBOOT"} \subseteq DOMAIN m
         /\ m["SI_DESC"].off = 0
BY FlashImagesAssumption DEF Maps, LayoutOk, OnChip

\* The range over descriptor and GbE.
Both(m) == [off |-> m["SI_DESC"].off, size |-> m["SI_DESC"].size + m["SI_GBE"].size]

LEMMA BothOnChip ==
  ASSUME NEW m \in Maps, Adjacent(m)
  PROVE  OnChip(Both(m))
<1>1. OnChip(m["SI_DESC"]) /\ OnChip(m["SI_GBE"]) /\ m["SI_DESC"].off = 0
  BY MapFacts
<1>2. m["SI_DESC"].size = m["SI_GBE"].off
  BY <1>1 DEF Adjacent, OnChip
<1> QED BY <1>1, <1>2, FlashImagesAssumption DEF OnChip, Both

LEMMA LockdownKeeps ==
  ASSUME NEW m \in Maps, NEW n \in 0 .. 5
  PROVE  /\ Lockdown(AfterFsp(n), m) \in [FPRs -> Register]
         /\ \A r \in FPRs : r < n => Lockdown(AfterFsp(n), m)[r] = FspRange
<1> DEFINE one == IF "WP_RO" \in DOMAIN m
                  THEN Protect(AfterFsp(n), m["WP_RO"]) ELSE AfterFsp(n)
<1>1. PICK k \in n .. 5 : Busy(one, k)
  BY AfterFspBusy, ProtectKeeps, MapFacts
<1>2. \A r \in FPRs : r < n => one[r] = FspRange
  <2>1. \A r \in FPRs : r < n => AfterFsp(n)[r] = FspRange
    BY DEF AfterFsp
  <2> QED BY <2>1, AfterFspBusy, ProtectKeeps, MapFacts
<1>3. Lockdown(AfterFsp(n), m) = LockDescriptorAndGbe(one, m)
  BY DEF Lockdown
<1>4. CASE Adjacent(m)
  <2>1. Lockdown(AfterFsp(n), m) = Protect(one, Both(m))
    BY <1>3, <1>4 DEF LockDescriptorAndGbe, Both
  <2>2. OnChip(Both(m)) /\ k \in 0 .. 5
    BY <1>4, BothOnChip
  <2>3. /\ \E i \in k .. 5 : Busy(Protect(one, Both(m)), i)
        /\ \A r \in FPRs : r < k => Protect(one, Both(m))[r] = one[r]
    BY <1>1, <2>2, ProtectKeeps
  <2> HIDE DEF one
  <2> QED BY <1>2, <2>1, <2>3 DEF Busy, FPRs
<1>5. CASE ~Adjacent(m)
  BY <1>1, <1>2, <1>3, <1>5 DEF LockDescriptorAndGbe, Busy
<1> QED BY <1>4, <1>5

\* With two registers left, everything that is sealed is under one of them.
LEMMA LockdownSeals ==
  ASSUME NEW m \in Maps, NEW n \in 0 .. 3, Adjacent(m), NEW a \in Sealed \cap DOMAIN m
  PROVE  LET regs == Lockdown(AfterFsp(n), m)
         IN  \E r \in FPRs : /\ regs[r] # Zero /\ regs[r].wpe
                             /\ AreaOf(m[a]) \subseteq regs[r].base .. regs[r].limit
<1> DEFINE regs == Lockdown(AfterFsp(n), m)
           one == IF "WP_RO" \in DOMAIN m
                  THEN Protect(AfterFsp(n), m["WP_RO"]) ELSE AfterFsp(n)
           j == IF "WP_RO" \in DOMAIN m THEN n + 1 ELSE n
<1>1. Busy(AfterFsp(n), n)
  BY AfterFspBusy
<1>2. Busy(one, j) /\ j \in 0 .. 4
  <2>1. CASE "WP_RO" \in DOMAIN m
    <3>1. Busy(Protect(AfterFsp(n), m["WP_RO"]), n + 1)
      BY <1>1, <2>1, ProtectNext, MapFacts
    <3> QED BY <2>1, <3>1
  <2>2. CASE "WP_RO" \notin DOMAIN m
    BY <1>1, <2>2
  <2> QED BY <2>1, <2>2
<1>3. ASSUME "WP_RO" \in DOMAIN m
      PROVE  one = [AfterFsp(n) EXCEPT ![n] = Entry(m["WP_RO"])]
  <2>1. OnChip(m["WP_RO"]) /\ n \in 0 .. 4
    BY <1>3, MapFacts
  <2>2. Protect(AfterFsp(n), m["WP_RO"]) = [AfterFsp(n) EXCEPT ![n] = Entry(m["WP_RO"])]
    BY <1>1, <2>1, ProtectNext
  <2> QED BY <1>3, <2>2
<1>4. regs = Protect(one, Both(m))
  BY DEF Lockdown, LockDescriptorAndGbe, Both
<1> HIDE DEF one, regs
<1>5. OnChip(Both(m))
  BY BothOnChip
<1>6. regs = [one EXCEPT ![j] = Entry(Both(m))]
  BY <1>2, <1>4, <1>5, ProtectNext
<1>7. regs[j] = Entry(Both(m)) /\ j \in FPRs
  BY <1>2, <1>6 DEF Busy, FPRs
<1>8. CASE a = "WP_RO"
  <2>1. regs[n] = Entry(m["WP_RO"]) /\ n \in FPRs
    BY <1>1, <1>3, <1>6, <1>8 DEF Busy, FPRs
  <2>2. OnChip(m["WP_RO"])
    BY <1>8, MapFacts
  <2>3. regs[n] # Zero
    BY <2>1, <2>2, EntryTyped
  <2>4. regs[n].wpe /\ AreaOf(m[a]) \subseteq regs[n].base .. regs[n].limit
    BY <1>8, <2>1 DEF Entry, AreaOf
  <2> QED BY <2>1, <2>3, <2>4 DEF regs
<1>9. CASE a \in {"SI_DESC", "SI_GBE"}
  <2>1. /\ OnChip(m["SI_DESC"]) /\ OnChip(m["SI_GBE"]) /\ m["SI_DESC"].off = 0
        /\ m["SI_DESC"].size = m["SI_GBE"].off
    BY MapFacts DEF Adjacent, OnChip
  <2>2. regs[j].wpe /\ regs[j].base = 0
        /\ regs[j].limit = m["SI_DESC"].size + m["SI_GBE"].size - 1
    <3>1. Both(m).off = 0 /\ Both(m).size = m["SI_DESC"].size + m["SI_GBE"].size
      BY <2>1 DEF Both
    <3>2. /\ regs[j].wpe /\ regs[j].base = Both(m).off
          /\ regs[j].limit = Both(m).off + Both(m).size - 1
      BY <1>7 DEF Entry
    <3> QED BY <2>1, <3>1, <3>2, FlashImagesAssumption DEF OnChip
  <2>3. AreaOf(m[a]) \subseteq regs[j].base .. regs[j].limit
    BY <1>9, <2>1, <2>2, FlashImagesAssumption DEF AreaOf, OnChip
  <2>4. regs[j] # Zero
    BY <1>5, <1>7, EntryTyped
  <2> QED BY <1>7, <2>2, <2>3, <2>4 DEF regs
<1> QED BY <1>8, <1>9 DEF Sealed

-----------------------------------------------------------------------------
(* The machine                                                               *)

LEMMA InitHolds == Init => IInv
<1> SUFFICES ASSUME Init PROVE IInv
  OBVIOUS
<1>1. PICK l \in Layouts : chip = BuiltRom(Factory, l)
  BY DEF Init
<1>2. ChipInv
  BY <1>1 DEF BuiltRom, ChipInv, IsFile, IsImage, Maps
<1>3. FilesInv
  BY FlashImagesAssumption
     DEF Init, FilesInv, IsFile, IsImage, NoFile, NoCapsule, NoMap
<1>4. FprInv
  BY DEF Init, FprInv
<1> QED BY <1>2, <1>3, <1>4 DEF IInv

\* A write into the running machine's chip, by whomever.
LEMMA WriteKeepsChip ==
  ASSUME ChipInv, NEW f, chip' = [chip EXCEPT !.at = f], DOMAIN f = 0 .. chip.len - 1
  PROVE  ChipInv' /\ chip'.map = chip.map /\ chip'.at = f
BY DEF ChipInv, IsFile, IsImage

LEMMA BootHolds ==
  ASSUME IInv, NEW s \in Slots \cup {"RO"}, NEW n \in FspTakes, Boot(s, n)
  PROVE  IInv'
<1>1. ChipInv' /\ FilesInv'
  BY DEF IInv, Boot, ChipInv, FilesInv, IsFile, IsImage
<1>2. FprInv'
  BY DEF Boot, FprInv, Slots
<1> QED BY <1>1, <1>2 DEF IInv

LEMMA PowerOffHolds ==
  ASSUME IInv, PowerOff
  PROVE  IInv'
BY DEF IInv, PowerOff, ChipInv, FilesInv, IsFile, IsImage, FprInv

LEMMA ChangeSettingsHolds ==
  ASSUME IInv, ChangeSettings
  PROVE  IInv'
<1>1. ChipInv' /\ chip'.map = chip.map
  BY WriteKeepsChip DEF IInv, ChangeSettings
<1>2. FilesInv' /\ FprInv'
  BY <1>1 DEF IInv, ChangeSettings, FilesInv, IsFile, IsImage, FprInv
<1> QED BY <1>1, <1>2 DEF IInv

LEMMA OsWriteHolds ==
  ASSUME IInv, NEW areas, OsWrite(areas)
  PROVE  IInv'
<1>1. ChipInv' /\ chip'.map = chip.map
  BY WriteKeepsChip DEF IInv, OsWrite
<1>2. FilesInv' /\ FprInv'
  BY <1>1 DEF IInv, OsWrite, FilesInv, IsFile, IsImage, FprInv
<1> QED BY <1>1, <1>2 DEF IInv

LEMMA ApplyHolds ==
  ASSUME IInv, Apply
  PROVE  IInv'
<1>1. ChipInv'
  BY WriteKeepsChip DEF IInv, Apply
<1>2. FilesInv' /\ FprInv'
  BY DEF IInv, Apply, FilesInv, IsFile, IsImage, FprInv
<1> QED BY <1>1, <1>2 DEF IInv

LEMMA ProgramHolds ==
  ASSUME IInv, Program
  PROVE  IInv'
<1>1. rom # NoFile
  BY FlashImagesAssumption DEF Program, NoFile
<1>2. ChipInv'
  BY <1>1 DEF IInv, Program, ChipInv, FilesInv, IsFile, IsImage
<1>3. FilesInv' /\ FprInv'
  BY DEF IInv, Program, FilesInv, IsFile, IsImage, FprInv
<1> QED BY <1>2, <1>3 DEF IInv

\* The steps that only make files.
LEMMA FileHolds ==
  ASSUME IInv, UNCHANGED <<chip, run, fprs>>, FileOp,
         IsFile(rom)', rom' = NoFile \/ rom'.map \in Maps,
         IsFile(backup)', IsImage(cap.data)'
  PROVE  IInv'
<1>1. ChipInv' /\ FprInv'
  BY DEF IInv, ChipInv, IsFile, IsImage, FprInv
<1>2. fileOps' \in 0 .. MaxFileOps
  BY FlashImagesAssumption DEF IInv, FilesInv, FileOp
<1> QED BY <1>1, <1>2 DEF IInv, FilesInv

LEMMA ShortenedIsFile ==
  ASSUME NEW b, NEW n
  PROVE  IsFile(Shortened(b, n)) /\ Shortened(b, n).map = b.map
<1>1. DOMAIN Slice(b, 0, n).at = 0 .. Slice(b, 0, n).len - 1
  BY DEF Slice
<1> QED BY <1>1 DEF Shortened, IsFile, IsImage

LEMMA ConcatIsImage ==
  ASSUME NEW b, NEW c
  PROVE  IsImage(Concat(b, c))
<1>1. Concat(b, c).len = b.len + c.len
  BY DEF Concat
<1>2. DOMAIN Concat(b, c).at = 0 .. (b.len + c.len) - 1
  BY DEF Concat
<1> QED BY <1>1, <1>2, Zenon DEF IsImage

LEMMA FilesHold ==
  ASSUME IInv,
         \/ Backup
         \/ \E i \in Releases, l \in Layouts : Build(i, l)
         \/ \E n \in CutAt : Cut(n)
         \/ \E gbe \in BOOLEAN : Transfer(gbe)
         \/ PackFile
  PROVE  IInv'
<1> USE DEF IInv, ChipInv, FilesInv
<1>1. CASE Backup
  <2>1. IsFile(rom)' /\ IsFile(backup)' /\ IsImage(cap.data)'
    BY <1>1 DEF Backup, IsFile, IsImage
  <2> QED BY <1>1, <2>1, FileHolds DEF Backup
<1>2. ASSUME NEW i \in Releases, NEW l \in Layouts, Build(i, l) PROVE IInv'
  <2>1. IsFile(rom)' /\ rom'.map \in Maps
    BY <1>2 DEF Build, BuiltRom, IsFile, IsImage, Maps
  <2>2. IsFile(backup)' /\ IsImage(cap.data)'
    BY <1>2 DEF Build, IsFile, IsImage
  <2> QED BY <1>2, <2>1, <2>2, FileHolds DEF Build
<1>3. ASSUME NEW n \in CutAt, Cut(n) PROVE IInv'
  <2>1. IsFile(rom)' /\ rom'.map = rom.map /\ rom # NoFile
    BY <1>3, ShortenedIsFile DEF Cut, IsFile, IsImage
  <2>2. IsFile(backup)'
    BY <1>3, ShortenedIsFile DEF Cut, IsFile, IsImage
  <2>3. IsImage(cap.data)'
    BY <1>3 DEF Cut, IsImage
  <2> QED BY <1>3, <2>1, <2>2, <2>3, FileHolds DEF Cut
<1>4. ASSUME NEW gbe \in BOOLEAN, Transfer(gbe) PROVE IInv'
  <2>1. \A out, orig, ao, an, r : IsImage(CopyRegion(out, orig, ao, an, r))
    BY ConcatIsImage DEF CopyRegion, Splice
  <2>2. IsFile(rom)' /\ rom'.map = rom.map /\ rom # NoFile
    BY <1>4, <2>1 DEF Transfer, IsFile, IsImage
  <2>3. IsFile(backup)' /\ IsImage(cap.data)'
    BY <1>4 DEF Transfer, IsFile, IsImage
  <2>4. UNCHANGED <<chip, run, fprs>> /\ FileOp
    BY <1>4 DEF Transfer
  <2> QED BY <2>2, <2>3, <2>4, FileHolds
<1>5. CASE PackFile
  <2>1. PICK b : MakeCapsule(b)
    BY <1>5 DEF PackFile
  <2>2. IsImage(cap.data)'
    <3>1. \A areas : IsImage(Payload(b, areas))
      BY ConcatIsImage DEF Payload
    <3>2. cap'.data = Payload(b, FindFmap(b))
      BY <2>1 DEF MakeCapsule
    <3> QED BY <3>1, <3>2
  <2>3. IsFile(rom)' /\ IsFile(backup)'
    BY <2>1 DEF MakeCapsule, IsFile, IsImage
  <2>4. UNCHANGED <<chip, run, fprs, rom>> /\ FileOp
    BY <2>1 DEF MakeCapsule
  <2> QED BY <2>2, <2>3, <2>4, FileHolds
<1> QED BY <1>1, <1>2, <1>3, <1>4, <1>5

LEMMA StepHolds == IInv /\ [Next]_vars => IInv'
<1>1. ASSUME IInv, UNCHANGED vars PROVE IInv'
  BY <1>1 DEF vars, IInv, ChipInv, FilesInv, FprInv, IsFile, IsImage
<1> QED BY <1>1, BootHolds, PowerOffHolds, ChangeSettingsHolds, FilesHold,
           ApplyHolds, OsWriteHolds, ProgramHolds DEF Next

LEMMA Invariance == Spec => []IInv
BY InitHolds, StepHolds, PTL DEF Spec

LEMMA RegistersTyped ==
  ASSUME IInv
  PROVE  fprs \in [FPRs -> Register]
<1>1. AfterFsp(0) \in [FPRs -> Register]
  BY AfterFspBusy DEF Busy
<1>2. run # "off" => fprs \in [FPRs -> Register]
  BY LockdownKeeps, FlashImagesAssumption DEF IInv, FprInv, ChipInv
<1> QED BY <1>1, <1>2 DEF IInv, FprInv

\* The types hold for any layouts, files and registers taken.
THEOREM TypeCorrect == Spec => []TypeOK
<1>1. IInv => TypeOK
  BY RegistersTyped DEF IInv, ChipInv, FilesInv, FprInv, IsFile, TypeOK
<1> QED BY <1>1, Invariance, PTL

-----------------------------------------------------------------------------
(* What is sealed                                                            *)

LEMMA ReportedIsBlocked ==
  ASSUME IInv, NEW k \in ReportedBlocked
  PROVE  k \in 0 .. Size - 1 /\ Blocked(k)
<1>1. PICK r \in FPRs : fprs[r].wpe /\ k \in fprs[r].base .. fprs[r].limit
  BY DEF ReportedBlocked
<1>2. fprs[r] \in Register
  BY RegistersTyped
<1>3. fprs[r].base \in 0 .. Size - 1 /\ fprs[r].limit \in 0 .. Size - 1
  BY <1>2 DEF Register
<1> QED BY <1>1, <1>3, FlashImagesAssumption DEF Blocked

LEMMA BlockedStays ==
  ASSUME IInv, [Next]_vars, run # "off", NEW k \in ReportedBlocked
  PROVE  chip'.at[k] = chip.at[k]
<1>1. k \in 0 .. chip.len - 1 /\ Blocked(k)
  BY ReportedIsBlocked DEF IInv, ChipInv
<1>2. CASE ChangeSettings
  BY <1>1, <1>2, WriteKeepsChip DEF ChangeSettings, IInv
<1>3. ASSUME NEW areas, OsWrite(areas) PROVE chip'.at[k] = chip.at[k]
  BY <1>1, <1>3, WriteKeepsChip DEF OsWrite, IInv
<1>4. CASE Apply
  <2> DEFINE slot == chip.map[Section(ResolveSlot(chip.map))]
             from == ImageOffset(ResolveSlot(chip.map), slot)
             f == [i \in 0 .. chip.len - 1 |->
                     IF i \in AreaOf(slot) /\ ~Blocked(i)
                     THEN cap.data.at[from + i - slot.off] ELSE chip.at[i]]
  <2>1. chip' = [chip EXCEPT !.at = f]
    BY <1>4 DEF Apply
  <2>2. chip'.at = f
    BY <2>1, WriteKeepsChip DEF IInv
  <2>3. f[k] = chip.at[k]
    BY <1>1
  <2> QED BY <2>2, <2>3
<1>5. CASE UNCHANGED chip
  BY <1>5
<1>6. ~Program
  BY DEF Program
<1> QED BY <1>2, <1>3, <1>4, <1>5, <1>6
        DEF Next, vars, Boot, PowerOff, Backup, Build, Cut, Transfer, PackFile,
            MakeCapsule

LEMMA SealedIsReported ==
  ASSUME IInv, run # "off", Adjacent(chip.map), Cardinality(TakenByFsp) <= 3,
         NEW a \in Sealed \cap DOMAIN chip.map
  PROVE  AreaOf(chip.map[a]) \subseteq ReportedBlocked
<1>1. chip.map \in Maps
  BY DEF IInv, ChipInv
<1>2. PICK n \in FspTakes : fprs = Lockdown(AfterFsp(n), chip.map)
  BY DEF IInv, FprInv
<1>3. n \in 0 .. 5
  BY FlashImagesAssumption
<1>4. n <= 3
  <2>1. \A r \in FPRs : r < n => fprs[r] = FspRange
    BY <1>1, <1>2, <1>3, LockdownKeeps
  <2>2. 0 .. n - 1 \subseteq TakenByFsp
    BY <1>3, <2>1 DEF TakenByFsp, FPRs
  <2>3. IsFiniteSet(TakenByFsp)
    <3>1. IsFiniteSet(0 .. 4)
      BY 0 \in Int, 4 \in Int, FS_Interval
    <3>2. TakenByFsp \subseteq 0 .. 4
      BY DEF TakenByFsp, FPRs
    <3> QED BY <3>1, <3>2, FS_Subset
  <2>4. Cardinality(0 .. n - 1) <= Cardinality(TakenByFsp)
    BY <2>2, <2>3, FS_Subset
  <2>5. Cardinality(0 .. n - 1) = n
    BY <1>3, FS_Interval
  <2>6. Cardinality(TakenByFsp) \in Nat
    BY <2>3, FS_CardinalityType
  <2> QED BY <1>3, <2>4, <2>5, <2>6
<1>5. PICK r \in FPRs : /\ fprs[r] # Zero /\ fprs[r].wpe
                        /\ AreaOf(chip.map[a]) \subseteq fprs[r].base .. fprs[r].limit
  BY <1>1, <1>2, <1>3, <1>4, LockdownSeals
<1> QED BY <1>5 DEF ReportedBlocked

\* On any chip and layout what spi-ranges.py shows as blocked is blocked, and
\* with two registers left by FSP that is everything meant to be sealed.
THEOREM SealAlwaysHolds == Spec => SealedStays
<1>1. ASSUME IInv, [Next]_vars, run # "off"
      PROVE  /\ \A k \in ReportedBlocked : chip'.at[k] = chip.at[k]
             /\ (Adjacent(chip.map) /\ Cardinality(TakenByFsp) <= 3) =>
                  \A a \in Sealed \cap DOMAIN chip.map :
                     AreaOf(chip.map[a]) \subseteq ReportedBlocked
  BY <1>1, BlockedStays, SealedIsReported
<1> QED BY <1>1, Invariance, PTL DEF Spec, SealedStays

-----------------------------------------------------------------------------
(* Slices                                                                    *)

LEMMA SliceIs ==
  ASSUME NEW b, b.len \in Nat, NEW off \in Nat, NEW size \in Nat,
         off + size <= b.len
  PROVE  Slice(b, off, size)
           = [len |-> size, at |-> [k \in 0 .. size - 1 |-> b.at[off + k]]]
<1>1. Clip(b, off + size) = off + size /\ Clip(b, off) = off
  BY DEF Clip
<1>2. Clip(b, off + size) - Clip(b, off) = size
  BY <1>1
<1> QED BY <1>2 DEF Slice

\* All from a place on, however far the slice was asked to go.
LEMMA TailIs ==
  ASSUME NEW b, b.len \in Nat, NEW off \in 0 .. b.len, NEW size \in Nat,
         off + size >= b.len
  PROVE  Slice(b, off, size)
           = [len |-> b.len - off, at |-> [k \in 0 .. (b.len - off) - 1 |-> b.at[off + k]]]
<1>1. Clip(b, off + size) = b.len /\ Clip(b, off) = off
  BY DEF Clip
<1> QED BY <1>1 DEF Slice

LEMMA ConcatIs ==
  ASSUME NEW b, NEW c, b.len \in Nat, c.len \in Nat
  PROVE  /\ Concat(b, c).len = b.len + c.len
         /\ DOMAIN Concat(b, c).at = 0 .. (b.len + c.len) - 1
         /\ \A k \in 0 .. (b.len + c.len) - 1 :
              Concat(b, c).at[k] = IF k < b.len THEN b.at[k] ELSE c.at[k - b.len]
<1>1. Concat(b, c).len = b.len + c.len
  BY DEF Concat
<1>2. DOMAIN Concat(b, c).at = 0 .. (b.len + c.len) - 1
  BY DEF Concat
<1>3. \A k \in 0 .. (b.len + c.len) - 1 :
        Concat(b, c).at[k] = IF k < b.len THEN b.at[k] ELSE c.at[k - b.len]
  BY DEF Concat
<1> QED BY <1>1, <1>2, <1>3

\* A splice of the same length changes what it covers and nothing else.
LEMMA SpliceIs ==
  ASSUME NEW b, b.len \in Nat, NEW off \in Nat, NEW size \in Nat,
         off + size <= b.len, NEW c, c.len = size
  PROVE  /\ Splice(b, off, size, c).len = b.len
         /\ \A k \in 0 .. b.len - 1 :
              Splice(b, off, size, c).at[k]
                = IF k \in off .. off + size - 1 THEN c.at[k - off] ELSE b.at[k]
<1> DEFINE head == Slice(b, 0, off)
           tail == Slice(b, off + size, b.len)
           front == Concat(head, c)
<1>1. /\ head.len = off
      /\ \A k \in 0 .. off - 1 : head.at[k] = b.at[k]
  <2>1. head = [len |-> off, at |-> [k \in 0 .. off - 1 |-> b.at[0 + k]]]
    <3>1. 0 \in Nat /\ 0 + off <= b.len
      OBVIOUS
    <3> QED BY <3>1, SliceIs
  <2> HIDE DEF head
  <2> QED BY <2>1
<1>2. /\ tail.len = b.len - (off + size)
      /\ \A k \in 0 .. (b.len - (off + size)) - 1 : tail.at[k] = b.at[off + size + k]
  <2>1. tail = [len |-> b.len - (off + size),
                at  |-> [k \in 0 .. (b.len - (off + size)) - 1 |->
                           b.at[(off + size) + k]]]
    <3>1. off + size \in 0 .. b.len /\ (off + size) + b.len >= b.len
      OBVIOUS
    <3> QED BY <3>1, TailIs
  <2> HIDE DEF tail
  <2> QED BY <2>1
<1>3. Splice(b, off, size, c) = Concat(front, tail)
  BY DEF Splice
<1> HIDE DEF head, tail
<1>4. /\ front.len = off + size
      /\ \A k \in 0 .. (off + size) - 1 :
           front.at[k] = IF k < off THEN b.at[k] ELSE c.at[k - off]
  <2>1. head.len \in Nat /\ c.len \in Nat /\ head.len + c.len = off + size
    BY <1>1
  <2>2. front.len = off + size
    BY <2>1, ConcatIs
  <2>3. ASSUME NEW k \in 0 .. (off + size) - 1
        PROVE  front.at[k] = IF k < off THEN b.at[k] ELSE c.at[k - off]
    <3>1. front.at[k] = IF k < head.len THEN head.at[k] ELSE c.at[k - head.len]
      BY <2>1, ConcatIs
    <3>2. k < off => head.at[k] = b.at[k]
      BY <1>1
    <3> QED BY <1>1, <3>1, <3>2
  <2> QED BY <2>2, <2>3
<1> HIDE DEF front
<1>5. Concat(front, tail).len = b.len
  <2>1. front.len + tail.len = b.len /\ front.len \in Nat /\ tail.len \in Nat
    BY <1>2, <1>4
  <2> QED BY <2>1, ConcatIs
<1>6. ASSUME NEW k \in 0 .. b.len - 1
      PROVE  Concat(front, tail).at[k]
               = IF k \in off .. off + size - 1 THEN c.at[k - off] ELSE b.at[k]
  <2>1. front.len \in Nat /\ tail.len \in Nat /\ (front.len + tail.len) - 1 = b.len - 1
    BY <1>2, <1>4
  <2>2. Concat(front, tail).at[k]
          = IF k < front.len THEN front.at[k] ELSE tail.at[k - front.len]
    BY <2>1, ConcatIs
  <2>3. CASE k < off + size
    BY <1>4, <2>2, <2>3
  <2>4. CASE k >= off + size
    <3>1. k - front.len \in 0 .. (b.len - (off + size)) - 1
      BY <1>4, <2>4
    <3>2. tail.at[k - front.len] = b.at[off + size + (k - front.len)]
      BY <1>2, <3>1
    <3>3. off + size + (k - front.len) = k
      BY <1>4
    <3> QED BY <1>4, <2>2, <2>4, <3>2, <3>3
  <2> QED BY <2>3, <2>4
<1> QED BY <1>3, <1>5, <1>6

-----------------------------------------------------------------------------
(* Maps are where they say                                                   *)

\* A cell that no search takes for a map.
Plain(c) == c.head = NoHead \/ c.head.major # 1

\* The only map in an image is its own, at the place it names.
OwnMap(b) ==
  \A p \in 0 .. b.len - 1 :
    ~Plain(b.at[p]) => p = b.map["FMAP"].off /\ b.at[p].head.areas = b.map

\* Where the half of a slot starts in a capsule.
Start(s, n) == IF s = "B" THEN n ELSE 0

CapsuleOk(c) ==
  \E n \in Nat :
    /\ c.data.len = 2 * n
    /\ \A i \in 0 .. 2 * n - 1 : Plain(c.data.at[i])
    /\ \A s \in Slots :
         c.halves[s] = [len |-> n,
                        at  |-> [k \in 0 .. n - 1 |-> c.data.at[Start(s, n) + k]]]

MapInv ==
  /\ OwnMap(chip)
  /\ OwnMap(rom) /\ rom.len \in Nat
  /\ OwnMap(backup) /\ backup.len \in Nat /\ (backup = NoFile \/ backup.map \in Maps)
  /\ cap = NoCapsule \/ CapsuleOk(cap)

LEMMA FirstFmapIs ==
  ASSUME NEW b, b.len \in Nat, OwnMap(b), FirstFmap(b) # NoMap
  PROVE  FirstFmap(b) = b.map /\ b.map["FMAP"].off + MapCells <= b.len
<1> DEFINE found == {p \in Hits(b) : Plausible(b, p, 1024)}
           First(p) == \A q \in found : p <= q
           first == CHOOSE p \in found : First(p)
<1>1. found # {} /\ FirstFmap(b) = b.at[first].head.areas
  BY DEF FirstFmap
<1>2. \A p \in found : /\ p \in Nat /\ p + MapCells <= b.len
                       /\ p = b.map["FMAP"].off /\ b.at[p].head.areas = b.map
  <2>1. \A p \in found : p \in 0 .. b.len - 1 /\ ~Plain(b.at[p]) /\ p + MapCells <= b.len
    BY DEF Hits, Plausible, Plain
  <2> HIDE DEF found
  <2> QED BY <2>1 DEF OwnMap
<1>3. first \in found
  <2>1. PICK p \in found : TRUE
    BY <1>1
  <2> HIDE DEF found
  <2>2. First(p)
    BY <1>2
  <2> HIDE DEF First
  <2> QED BY <2>1, <2>2
<1> HIDE DEF found, first
<1> QED BY <1>1, <1>2, <1>3

LEMMA FindFmapIs ==
  ASSUME NEW b, b.len \in Nat, OwnMap(b), FindFmap(b) # NoMap
  PROVE  FindFmap(b) = b.map /\ b.map["FMAP"].off + MapCells <= b.len
<1> DEFINE found == {p \in Hits(b) : ParsesAt(b, p)}
           one == CHOOSE p \in found : TRUE
<1>1. found # {} /\ FindFmap(b) = b.at[one].head.areas
  BY DEF FindFmap
<1>2. \A p \in found : /\ p + MapCells <= b.len
                       /\ p = b.map["FMAP"].off /\ b.at[p].head.areas = b.map
  BY DEF Hits, ParsesAt, Plausible, OwnMap, Plain
<1>3. one \in found
  BY <1>1
<1> HIDE DEF found, one
<1> QED BY <1>1, <1>2, <1>3

LEMMA Apart ==
  ASSUME NEW m \in Maps, NEW a \in Before \cap DOMAIN m
  PROVE  /\ OnChip(m[a]) /\ m["FMAP"].off \in Nat
         /\ m[a].off + m[a].size <= m["FMAP"].off
         /\ \A c \in (Before \cup {"SI_DESC", "WP_RO"}) \cap DOMAIN m :
              a # c => AreaOf(m[a]) \cap AreaOf(m[c]) = {}
<1>1. LayoutOk(m)
  BY FlashImagesAssumption DEF Maps
<1> QED BY <1>1, MapFacts, FlashImagesAssumption DEF LayoutOk, OnChip

\* A file that has its map has all that is before it.
LEMMA InFile ==
  ASSUME NEW m \in Maps, NEW a \in Before \cap DOMAIN m, NEW n \in Nat,
         m["FMAP"].off + MapCells <= n
  PROVE  /\ m[a].off \in Nat /\ m[a].size \in Nat \ {0}
         /\ m[a].off + m[a].size <= n
         /\ m[a].off + m[a].size <= m["FMAP"].off
         /\ m["FMAP"].off \in Nat
BY Apart, FlashImagesAssumption DEF OnChip, MapCells

LEMMA BuiltIsOwn ==
  ASSUME NEW i, NEW l \in Layouts
  PROVE  OwnMap(BuiltRom(i, l))
<1> SUFFICES ASSUME NEW p \in 0 .. Size - 1, ~Plain(BuiltRom(i, l).at[p])
             PROVE  p = Map[l]["FMAP"].off /\ BuiltRom(i, l).at[p].head.areas = Map[l]
  BY DEF OwnMap, BuiltRom
<1>1. BuiltRom(i, l).at[p].head = HeadAt(l, p)
  BY DEF BuiltRom, Cell
<1>2. HeadAt(l, p) # NoHead /\ HeadAt(l, p) # Text
  BY <1>1 DEF Plain, Text
<1> QED BY <1>1, <1>2 DEF HeadAt

-----------------------------------------------------------------------------
(* The transfer                                                              *)

Moved(gbe) == {"SMMSTORE"} \cup IF gbe THEN {"SI_GBE"} ELSE {}

\* copy_region() between two files that have the region, and with one size.
LEMMA CopyRegionIs ==
  ASSUME NEW out, out.len \in Nat, NEW orig, orig.len \in Nat,
         NEW ao \in Maps, NEW an \in Maps,
         ao["FMAP"].off + MapCells <= orig.len, an["FMAP"].off + MapCells <= out.len,
         NEW r \in Before \cap DOMAIN ao \cap DOMAIN an, ao[r].size = an[r].size
  PROVE  /\ CopyRegion(out, orig, ao, an, r).len = out.len
         /\ \A k \in 0 .. out.len - 1 :
              CopyRegion(out, orig, ao, an, r).at[k]
                = IF k \in AreaOf(an[r])
                  THEN orig.at[ao[r].off + (k - an[r].off)] ELSE out.at[k]
<1> DEFINE c == Slice(orig, ao[r].off, ao[r].size)
<1>1. /\ ao[r].off \in Nat /\ ao[r].size \in Nat /\ ao[r].off + ao[r].size <= orig.len
      /\ an[r].off \in Nat /\ an[r].size \in Nat /\ an[r].off + an[r].size <= out.len
  BY InFile
<1>2. c = [len |-> ao[r].size, at |-> [k \in 0 .. ao[r].size - 1 |-> orig.at[ao[r].off + k]]]
  BY <1>1, SliceIs
<1>3. CopyRegion(out, orig, ao, an, r) = Splice(out, an[r].off, an[r].size, c)
  BY DEF CopyRegion
<1> HIDE DEF c
<1>4. c.len = an[r].size
  BY <1>2
<1>5. /\ CopyRegion(out, orig, ao, an, r).len = out.len
      /\ \A k \in 0 .. out.len - 1 :
           CopyRegion(out, orig, ao, an, r).at[k]
             = IF k \in an[r].off .. an[r].off + an[r].size - 1
               THEN c.at[k - an[r].off] ELSE out.at[k]
  BY <1>1, <1>3, <1>4, SpliceIs
<1>6. ASSUME NEW k \in AreaOf(an[r])
      PROVE  c.at[k - an[r].off] = orig.at[ao[r].off + (k - an[r].off)]
  <2>1. k - an[r].off \in 0 .. ao[r].size - 1
    BY <1>1 DEF AreaOf
  <2> QED BY <1>2, <2>1
<1> QED BY <1>5, <1>6 DEF AreaOf

\* The searches of a transfer that goes through.
LEMMA TransferMaps ==
  ASSUME IInv, MapInv, NEW gbe \in BOOLEAN, Transfer(gbe)
  PROVE  /\ rom.map \in Maps /\ backup.map \in Maps
         /\ FirstFmap(rom) = rom.map /\ FirstFmap(backup) = backup.map
         /\ rom.map["FMAP"].off + MapCells <= rom.len
         /\ backup.map["FMAP"].off + MapCells <= backup.len
<1>1. rom.map \in Maps /\ backup.map \in Maps
  BY DEF IInv, FilesInv, MapInv, Transfer
<1>2. "SMMSTORE" \in DOMAIN FirstFmap(backup) /\ "SMMSTORE" \in DOMAIN FirstFmap(rom)
  BY DEF Transfer
<1>3. FirstFmap(backup) # NoMap /\ FirstFmap(rom) # NoMap
  BY <1>2 DEF NoMap
<1> QED BY <1>1, <1>3, FirstFmapIs DEF MapInv

\* What a transfer leaves in the output, cell by cell.
LEMMA TransferIs ==
  ASSUME IInv, MapInv, NEW gbe \in BOOLEAN, Transfer(gbe)
  PROVE  /\ rom'.len = rom.len /\ rom'.map = rom.map
         /\ \A a \in Moved(gbe) :
              /\ a \in Before \cap DOMAIN rom.map \cap DOMAIN backup.map
              /\ rom.map[a].size = backup.map[a].size
              /\ \A k \in 0 .. rom.len - 1 :
                   k \in AreaOf(rom.map[a]) =>
                     rom'.at[k] = backup.at[backup.map[a].off + (k - rom.map[a].off)]
         /\ \A k \in 0 .. rom.len - 1 :
              (\A a \in Moved(gbe) : k \notin AreaOf(rom.map[a])) =>
                 rom'.at[k] = rom.at[k]
<1> DEFINE ao == backup.map
           an == rom.map
           one == CopyRegion(rom, backup, ao, an, "SMMSTORE")
           two == CopyRegion(one, backup, ao, an, "SI_GBE")
           From(r, k) == backup.at[ao[r].off + (k - an[r].off)]
<1>1. /\ an \in Maps /\ ao \in Maps /\ rom.len \in Nat /\ backup.len \in Nat
      /\ an["FMAP"].off + MapCells <= rom.len
      /\ ao["FMAP"].off + MapCells <= backup.len
  BY TransferMaps DEF MapInv
<1>2. /\ \A r \in Moved(gbe) : r \in DOMAIN ao \cap DOMAIN an /\ ao[r].size = an[r].size
      /\ rom' = [len |-> (IF gbe THEN two ELSE one).len,
                 at |-> (IF gbe THEN two ELSE one).at, map |-> rom.map]
  BY TransferMaps, Zenon DEF Transfer, Moved
<1>3. \A r \in Moved(gbe) : r \in Before \cap DOMAIN an \cap DOMAIN ao
  BY <1>2 DEF Moved, Before
<1>4. /\ one.len = rom.len
      /\ \A k \in 0 .. rom.len - 1 :
           one.at[k] = IF k \in AreaOf(an["SMMSTORE"]) THEN From("SMMSTORE", k) ELSE rom.at[k]
  <2>1. "SMMSTORE" \in Before \cap DOMAIN ao \cap DOMAIN an /\ ao["SMMSTORE"].size = an["SMMSTORE"].size
    BY <1>2, <1>3 DEF Moved
  <2> HIDE DEF an, ao
  <2> QED BY <1>1, <2>1, CopyRegionIs
<1> HIDE DEF one
<1>5. ASSUME gbe
      PROVE  /\ two.len = rom.len
             /\ \A k \in 0 .. rom.len - 1 :
                  two.at[k] = IF k \in AreaOf(an["SI_GBE"]) THEN From("SI_GBE", k) ELSE one.at[k]
  <2>1. "SI_GBE" \in Before \cap DOMAIN ao \cap DOMAIN an /\ ao["SI_GBE"].size = an["SI_GBE"].size
    BY <1>2, <1>3, <1>5 DEF Moved
  <2> HIDE DEF an, ao
  <2> QED BY <1>1, <1>4, <2>1, CopyRegionIs
<1> HIDE DEF two
<1>6. gbe => AreaOf(an["SMMSTORE"]) \cap AreaOf(an["SI_GBE"]) = {}
  <2>1. gbe => "SMMSTORE" \in Before \cap DOMAIN an /\ "SI_GBE" \in Before \cap DOMAIN an
    BY <1>3 DEF Moved
  <2>2. "SMMSTORE" # "SI_GBE"
    OBVIOUS
  <2> HIDE DEF an
  <2> QED BY <1>1, <2>1, <2>2, Apart
<1> HIDE DEF an, ao
<1>7. CASE gbe
  <2>1. rom'.len = two.len /\ rom'.at = two.at /\ rom'.map = an
    BY <1>2, <1>7 DEF an
  <2>2. Moved(gbe) = {"SMMSTORE", "SI_GBE"}
    BY <1>7 DEF Moved
  <2> QED BY <1>2, <1>3, <1>4, <1>5, <1>6, <1>7, <2>1, <2>2 DEF an, ao
<1>8. CASE ~gbe
  <2>1. rom'.len = one.len /\ rom'.at = one.at /\ rom'.map = an
    BY <1>2, <1>8 DEF an
  <2>2. Moved(gbe) = {"SMMSTORE"}
    BY <1>8 DEF Moved
  <2> QED BY <1>2, <1>3, <1>4, <2>1, <2>2 DEF an, ao
<1> QED BY <1>7, <1>8

\* A moved area is the backup's.
LEMMA MovedIsWhole ==
  ASSUME IInv, MapInv, NEW gbe \in BOOLEAN, Transfer(gbe), NEW a \in Moved(gbe)
  PROVE  Truth(rom', a) = Truth(backup, a)
<1> DEFINE to == rom.map[a]
           from == backup.map[a]
<1>1. /\ to.off \in Nat /\ to.size \in Nat /\ to.off + to.size <= rom.len
      /\ from.off \in Nat /\ from.size = to.size /\ from.off + from.size <= backup.len
  BY TransferIs, TransferMaps, InFile DEF MapInv
<1>2. /\ rom'.len = rom.len /\ rom'.len \in Nat /\ rom'.map = rom.map
      /\ rom.len \in Nat /\ backup.len \in Nat
  BY TransferIs DEF MapInv
<1>3. Truth(rom', a) = [len |-> to.size, at |-> [k \in 0 .. to.size - 1 |-> rom'.at[to.off + k]]]
  <2>1. Truth(rom', a) = Slice(rom', to.off, to.size)
    BY <1>2 DEF Truth
  <2> HIDE DEF to
  <2> QED BY <1>1, <1>2, <2>1, SliceIs
<1>4. Truth(backup, a)
        = [len |-> to.size, at |-> [k \in 0 .. to.size - 1 |-> backup.at[from.off + k]]]
  <2>1. Truth(backup, a) = Slice(backup, from.off, to.size)
    BY <1>1 DEF Truth
  <2>2. /\ backup.len \in Nat /\ from.off \in Nat /\ to.size \in Nat
        /\ from.off + to.size <= backup.len
    BY <1>1, <1>2
  <2> HIDE DEF to, from
  <2>3. Slice(backup, from.off, to.size)
          = [len |-> to.size, at |-> [k \in 0 .. to.size - 1 |-> backup.at[from.off + k]]]
    BY <2>2, SliceIs
  <2> QED BY <2>1, <2>3
<1>5. ASSUME NEW k \in 0 .. to.size - 1
      PROVE  rom'.at[to.off + k] = backup.at[from.off + k]
  <2>1. to.off + k \in 0 .. rom.len - 1 /\ to.off + k \in AreaOf(to)
    BY <1>1, <1>2 DEF AreaOf
  <2>2. rom'.at[to.off + k] = backup.at[from.off + ((to.off + k) - to.off)]
    BY <2>1, TransferIs
  <2>3. (to.off + k) - to.off = k
    BY <1>1
  <2> QED BY <2>2, <2>3
<1> HIDE DEF to, from
<1> QED BY <1>3, <1>4, <1>5

-----------------------------------------------------------------------------
(* The capsule                                                               *)

LEMMA SlotsOf ==
  ASSUME NEW m, VbootLayout(m)
  PROVE  \A s \in Slots : Section(s) \in Before \cap DOMAIN m
BY DEF VbootLayout, Before, Section, Slots

\* The BIOS region has the map at a place that the map does not name.
LEMMA NoMapInBiosRegion ==
  ASSUME NEW b, b.len \in Nat, OwnMap(b), b.map \in Maps
  PROVE  FindFmap(BiosRegion(b)) = NoMap
<1> DEFINE n == b.map["SI_GBE"].off + b.map["SI_GBE"].size
           r == Slice(b, n, b.len)
<1>1. n \in Nat \ {0}
  <2>1. OnChip(b.map["SI_GBE"])
    BY MapFacts
  <2> QED BY <2>1, FlashImagesAssumption DEF OnChip
<1>2. BiosRegion(b).len = r.len /\ BiosRegion(b).at = r.at
  BY DEF BiosRegion
<1> HIDE DEF n
<1>3. ASSUME NEW p \in 0 .. r.len - 1 PROVE n + p \in 0 .. b.len - 1 /\ r.at[p] = b.at[n + p]
  <2>1. r.len = Clip(b, n + b.len) - Clip(b, n)
    BY DEF Slice
  <2>2. r.len = IF n < b.len THEN b.len - n ELSE 0
    BY <1>1, <2>1 DEF Clip
  <2>3. r.at[p] = b.at[n + p]
    BY <2>1 DEF Slice
  <2> QED BY <1>1, <2>2, <2>3
<1> HIDE DEF r
<1>4. ASSUME NEW p \in Hits(BiosRegion(b)), ParsesAt(BiosRegion(b), p) PROVE FALSE
  <2>1. p \in 0 .. r.len - 1 /\ ~Plain(r.at[p]) /\ r.at[p].head.areas["FMAP"].off = p
    BY <1>2, <1>4 DEF Hits, ParsesAt, Plausible, Plain
  <2>2. n + p = p
    BY <1>3, <2>1 DEF OwnMap
  <2> QED BY <1>1, <2>1, <2>2
<1> QED BY <1>4 DEF FindFmap

\* Two halves of one size, each at its place, and no map in them.
LEMMA PackedOk ==
  ASSUME IInv, MapInv, rom # NoFile, MakeCapsule(rom)
  PROVE  CapsuleOk(cap')
<1> DEFINE m == rom.map
           n == m["RW_SECTION_A"].size
           half(s) == Slice(rom, m[Section(s)].off, m[Section(s)].size)
<1>1. m \in Maps /\ rom.len \in Nat /\ OwnMap(rom)
  BY DEF IInv, FilesInv, MapInv
<1>2. VbootLayout(FindFmap(rom))
  BY DEF MakeCapsule
<1>3. FindFmap(rom) # NoMap
  BY <1>2, SlotsOf DEF NoMap, Slots
<1>4. FindFmap(rom) = m /\ m["FMAP"].off + MapCells <= rom.len
  BY <1>1, <1>3, FindFmapIs
<1>5. /\ m["RW_SECTION_A"].size = m["RW_SECTION_B"].size
      /\ cap'.data = Concat(half("A"), half("B"))
      /\ cap'.halves = [s \in Slots |-> half(s)]
  BY <1>4 DEF MakeCapsule, Payload, Truth, Section
<1>6. \A s \in Slots : Section(s) \in Before \cap DOMAIN m
  BY <1>2, <1>4, SlotsOf
<1> HIDE DEF m
<1>7. ASSUME NEW s \in Slots
      PROVE  /\ m[Section(s)].off \in Nat /\ m[Section(s)].size = n /\ n \in Nat
             /\ m[Section(s)].off + n <= rom.len
             /\ m[Section(s)].off + n <= m["FMAP"].off /\ m["FMAP"].off \in Nat
  <2>1. m[Section(s)].size = n
    BY <1>5 DEF Section, Slots
  <2> QED BY <1>1, <1>4, <1>6, <2>1, InFile
<1>8. ASSUME NEW s \in Slots
      PROVE  half(s) = [len |-> n, at |-> [k \in 0 .. n - 1 |-> rom.at[m[Section(s)].off + k]]]
  <2>1. half(s) = Slice(rom, m[Section(s)].off, n)
    BY <1>7
  <2> HIDE DEF n
  <2>2. /\ rom.len \in Nat /\ m[Section(s)].off \in Nat /\ n \in Nat
        /\ m[Section(s)].off + n <= rom.len
    BY <1>1, <1>7
  <2>3. Slice(rom, m[Section(s)].off, n)
          = [len |-> n, at |-> [k \in 0 .. n - 1 |-> rom.at[m[Section(s)].off + k]]]
    BY <2>2, SliceIs
  <2> QED BY <2>1, <2>3
<1>9. n \in Nat
  BY <1>7 DEF Slots
<1> HIDE DEF n, half
<1>10. ASSUME NEW s \in Slots, NEW k \in 0 .. n - 1
       PROVE  Plain(half(s).at[k])
  <2>1. half(s).at[k] = rom.at[m[Section(s)].off + k]
    <3>1. half(s) = [len |-> n, at |-> [i \in 0 .. n - 1 |-> rom.at[m[Section(s)].off + i]]]
      BY <1>8
    <3> QED BY <3>1
  <2>2. /\ m[Section(s)].off + k \in 0 .. rom.len - 1
        /\ m[Section(s)].off + k # m["FMAP"].off
    BY <1>1, <1>7
  <2> QED BY <1>1, <2>1, <2>2 DEF OwnMap, m
<1>11. "A" \in Slots /\ "B" \in Slots /\ half("A").len = n /\ half("B").len = n
  BY <1>8 DEF Slots
<1>12. /\ cap'.data.len = 2 * n
       /\ \A i \in 0 .. 2 * n - 1 :
            cap'.data.at[i] = IF i < n THEN half("A").at[i] ELSE half("B").at[i - n]
  <2>1. n + n = 2 * n
    BY <1>9
  <2>2. /\ Concat(half("A"), half("B")).len = n + n
        /\ \A i \in 0 .. (n + n) - 1 :
             Concat(half("A"), half("B")).at[i]
               = IF i < n THEN half("A").at[i] ELSE half("B").at[i - n]
    <3>1. /\ half("A").len \in Nat /\ half("B").len \in Nat
          /\ half("A").len + half("B").len = n + n
      BY <1>9, <1>11
    <3>2. /\ Concat(half("A"), half("B")).len = half("A").len + half("B").len
          /\ \A i \in 0 .. (half("A").len + half("B").len) - 1 :
               Concat(half("A"), half("B")).at[i]
                 = IF i < half("A").len THEN half("A").at[i]
                   ELSE half("B").at[i - half("A").len]
      BY <3>1, ConcatIs
    <3> QED BY <1>11, <3>1, <3>2
  <2> QED BY <1>5, <2>1, <2>2
<1>13. ASSUME NEW i \in 0 .. 2 * n - 1 PROVE Plain(cap'.data.at[i])
  <2>1. i < n => i \in 0 .. n - 1
    BY <1>9
  <2>2. ~(i < n) => i - n \in 0 .. n - 1
    BY <1>9
  <2> QED BY <1>10, <1>11, <1>12, <2>1, <2>2
<1>14. ASSUME NEW s \in Slots
       PROVE  cap'.halves[s] = [len |-> n,
                                at |-> [k \in 0 .. n - 1 |-> cap'.data.at[Start(s, n) + k]]]
  <2>1. cap'.halves[s] = half(s)
    BY <1>5
  <2>2. half(s) = [len |-> n, at |-> [k \in 0 .. n - 1 |-> half(s).at[k]]]
    <3>1. half(s) = [len |-> n, at |-> [k \in 0 .. n - 1 |-> rom.at[m[Section(s)].off + k]]]
      BY <1>8
    <3>2. \A k \in 0 .. n - 1 : half(s).at[k] = rom.at[m[Section(s)].off + k]
      BY <3>1
    <3> QED BY <3>1, <3>2
  <2>3. ASSUME NEW k \in 0 .. n - 1 PROVE cap'.data.at[Start(s, n) + k] = half(s).at[k]
    <3>1. CASE s = "A"
      <4>1. Start(s, n) + k = k /\ k \in 0 .. 2 * n - 1 /\ k < n
        BY <1>9, <3>1 DEF Start
      <4> QED BY <1>12, <3>1, <4>1
    <3>2. CASE s = "B"
      <4>1. /\ Start(s, n) + k = n + k /\ n + k \in 0 .. 2 * n - 1
            /\ ~(n + k < n) /\ (n + k) - n = k
        BY <1>9, <3>2 DEF Start
      <4> QED BY <1>12, <3>2, <4>1
    <3> QED BY <3>1, <3>2 DEF Slots
  <2> QED BY <2>1, <2>2, <2>3
<1> QED BY <1>9, <1>12, <1>13, <1>14 DEF CapsuleOk

LEMMA PackFileOk ==
  ASSUME IInv, MapInv, PackFile
  PROVE  CapsuleOk(cap')
<1>1. ~MakeCapsule(BiosRegion(rom))
  <2>1. FindFmap(BiosRegion(rom)) = NoMap
    BY NoMapInBiosRegion DEF IInv, FilesInv, MapInv, PackFile
  <2>2. ~VbootLayout(NoMap)
    BY SlotsOf DEF NoMap, Slots
  <2> QED BY <2>1, <2>2 DEF MakeCapsule
<1> QED BY <1>1, PackedOk DEF PackFile

-----------------------------------------------------------------------------
(* Applying it                                                               *)

\* A register is free, FSP's or over one of the two ranges of the lockdown.
Ranges(m) == (IF "WP_RO" \in DOMAIN m THEN {Entry(m["WP_RO"])} ELSE {})
             \cup (IF Adjacent(m) THEN {Entry(Both(m))} ELSE {})

LEMMA ProtectAdds ==
  ASSUME NEW regs, NEW j \in 0 .. 5, Busy(regs, j), NEW range, OnChip(range),
         NEW r \in FPRs
  PROVE  Protect(regs, range)[r] \in {regs[r], Entry(range)}
<1>1. CASE j = 5
  BY <1>1, ProtectFull
<1>2. CASE j \in 0 .. 4
  BY <1>2, ProtectNext DEF Busy
<1> QED BY <1>1, <1>2

LEMMA LockdownOnly ==
  ASSUME NEW m \in Maps, NEW n \in 0 .. 5, NEW r \in FPRs
  PROVE  Lockdown(AfterFsp(n), m)[r] \in {Zero, FspRange} \cup Ranges(m)
<1> DEFINE one == IF "WP_RO" \in DOMAIN m
                  THEN Protect(AfterFsp(n), m["WP_RO"]) ELSE AfterFsp(n)
<1>1. Busy(AfterFsp(n), n) /\ AfterFsp(n)[r] \in {Zero, FspRange}
  BY AfterFspBusy DEF AfterFsp
<1>2. PICK k \in n .. 5 : Busy(one, k)
  BY AfterFspBusy, ProtectKeeps, MapFacts
<1>3. one[r] \in {Zero, FspRange} \cup Ranges(m)
  <2>1. CASE "WP_RO" \in DOMAIN m
    <3>1. one[r] \in {AfterFsp(n)[r], Entry(m["WP_RO"])}
      BY <1>1, <2>1, MapFacts, ProtectAdds
    <3> QED BY <1>1, <2>1, <3>1 DEF Ranges
  <2>2. CASE "WP_RO" \notin DOMAIN m
    BY <1>1, <2>2
  <2> QED BY <2>1, <2>2
<1>4. Lockdown(AfterFsp(n), m) = IF Adjacent(m) THEN Protect(one, Both(m)) ELSE one
  BY DEF Lockdown, LockDescriptorAndGbe, Both
<1> HIDE DEF one
<1>5. CASE Adjacent(m)
  <2>1. k \in 0 .. 5 /\ OnChip(Both(m))
    BY <1>5, BothOnChip
  <2>2. Protect(one, Both(m))[r] \in {one[r], Entry(Both(m))}
    BY <1>2, <2>1, ProtectAdds
  <2> QED BY <1>3, <1>4, <1>5, <2>2 DEF Ranges
<1> QED BY <1>3, <1>4, <1>5

\* No register of a running machine is over a slot.
LEMMA SlotsAreOpen ==
  ASSUME IInv, run # "off", NEW s \in Slots, Section(s) \in DOMAIN chip.map,
         NEW k \in AreaOf(chip.map[Section(s)])
  PROVE  ~Blocked(k)
<1> DEFINE m == chip.map
           slot == Section(s)
<1>1. m \in Maps
  BY DEF IInv, ChipInv
<1>2. slot \in Before \cap DOMAIN m /\ slot \notin {"SI_DESC", "SI_GBE", "WP_RO"}
  BY DEF Before, Section, Slots
<1>3. /\ OnChip(m[slot]) /\ OnChip(m["SI_DESC"]) /\ OnChip(m["SI_GBE"])
      /\ m["SI_DESC"].off = 0 /\ {"SI_DESC", "SI_GBE"} \subseteq DOMAIN m
  BY <1>1, <1>2, MapFacts
<1>4. \A c \in {"SI_DESC", "SI_GBE", "WP_RO"} \cap DOMAIN m : k \notin AreaOf(m[c])
  <2> HIDE DEF m, slot
  <2>1. k \in AreaOf(m[slot])
    BY DEF m, slot
  <2>2. ASSUME NEW c \in {"SI_DESC", "SI_GBE", "WP_RO"} \cap DOMAIN m
        PROVE  k \notin AreaOf(m[c])
    <3>1. c \in (Before \cup {"SI_DESC", "WP_RO"}) \cap DOMAIN m /\ slot # c
      BY <1>2 DEF Before
    <3>2. AreaOf(m[slot]) \cap AreaOf(m[c]) = {}
      BY <1>1, <1>2, <3>1, Apart
    <3> QED BY <2>1, <3>2
  <2> QED BY <2>2
<1>5. k \in Int /\ k >= 0
  BY <1>3, FlashImagesAssumption DEF OnChip, AreaOf
<1>6. PICK n \in FspTakes : fprs = Lockdown(AfterFsp(n), m)
  BY DEF IInv, FprInv
<1>7. ASSUME NEW r \in FPRs, fprs[r].wpe, k \in fprs[r].base .. fprs[r].limit
      PROVE  FALSE
  <2>1. fprs[r] \in {Zero, FspRange} \cup Ranges(m)
    BY <1>1, <1>6, LockdownOnly, FlashImagesAssumption
  <2> HIDE DEF m, slot
  <2>2. fprs[r] # Zero
    BY <1>7 DEF Zero
  <2>3. k # 0
    <3>1. 0 \in AreaOf(m["SI_DESC"])
      BY <1>3, FlashImagesAssumption DEF AreaOf, OnChip
    <3> QED BY <1>3, <1>4, <3>1
  <2>4. fprs[r] # FspRange
    BY <1>7, <2>3 DEF FspRange
  <2>5. CASE "WP_RO" \in DOMAIN m /\ fprs[r] = Entry(m["WP_RO"])
    BY <1>4, <1>7, <2>5 DEF Entry, AreaOf
  <2>6. CASE Adjacent(m) /\ fprs[r] = Entry(Both(m))
    <3>1. m["SI_DESC"].size = m["SI_GBE"].off
      BY <1>3, <2>6 DEF Adjacent, OnChip
    <3>2. fprs[r].base = 0 /\ fprs[r].limit = m["SI_GBE"].off + m["SI_GBE"].size - 1
      BY <1>3, <2>6, <3>1, FlashImagesAssumption DEF Entry, Both, OnChip
    <3>3. k < m["SI_GBE"].off => k \in AreaOf(m["SI_DESC"])
      BY <1>3, <1>5, <3>1, FlashImagesAssumption DEF AreaOf, OnChip
    <3>4. k >= m["SI_GBE"].off => k \in AreaOf(m["SI_GBE"])
      BY <1>3, <1>5, <1>7, <3>2, FlashImagesAssumption DEF AreaOf, OnChip
    <3>5. k < m["SI_GBE"].off \/ k >= m["SI_GBE"].off
      BY <1>3, <1>5 DEF OnChip
    <3> QED BY <1>3, <1>4, <3>3, <3>4, <3>5
  <2> QED BY <2>1, <2>2, <2>4, <2>5, <2>6 DEF Ranges
<1> QED BY <1>7 DEF Blocked

\* ResolveSlot() finds the slot that does not run, or none.
LEMMA ResolvesOther ==
  ASSUME IInv, run # "off", ResolveSlot(chip.map) # "none"
  PROVE  run \in Slots /\ ResolveSlot(chip.map) = Other(run)
<1> DEFINE m == chip.map
           A == AreaOf(m["RW_SECTION_A"])
           B == AreaOf(m["RW_SECTION_B"])
<1>1. m \in Maps
  BY DEF IInv, ChipInv
<1>2. VbootLayout(m)
  BY DEF ResolveSlot
<1>3. \A s \in Slots : Section(s) \in Before \cap DOMAIN m
  BY <1>2, SlotsOf
<1>4. /\ "RW_SECTION_A" \in Before \cap DOMAIN m /\ "RW_SECTION_B" \in Before \cap DOMAIN m
      /\ OnChip(m["RW_SECTION_A"]) /\ OnChip(m["RW_SECTION_B"])
  BY <1>1, <1>3, MapFacts DEF Section, Slots
<1>5. A \cap B = {}
  <2> HIDE DEF m
  <2>1. "RW_SECTION_A" # "RW_SECTION_B"
    OBVIOUS
  <2> QED BY <1>1, <1>4, <2>1, Apart
<1>6. CASE run = "A"
  <2>1. CbfsOffset \in A
    BY <1>4, <1>6, FlashImagesAssumption DEF CbfsOffset, Slots, Section, OnChip, AreaOf
  <2> QED BY <1>6, <2>1 DEF ResolveSlot, Section, Other, Slots
<1>7. CASE run = "B"
  <2>1. CbfsOffset \in B
    BY <1>4, <1>7, FlashImagesAssumption DEF CbfsOffset, Slots, Section, OnChip, AreaOf
  <2>2. CbfsOffset \notin A
    BY <1>5, <2>1
  <2>3. ResolveSlot(m) = "A"
    BY <2>1, <2>2 DEF ResolveSlot, Section
  <2> QED BY <1>7, <2>3 DEF Other, Slots
<1>8. CASE run = "RO"
  <2>1. CbfsOffset = m["COREBOOT"].off
    BY <1>8 DEF CbfsOffset, Slots
  <2>2. LayoutOk(m)
    BY <1>1, FlashImagesAssumption DEF Maps
  <2>3. CbfsOffset \notin A /\ CbfsOffset \notin B
    BY <1>4, <2>1, <2>2 DEF LayoutOk, Slots, Section
  <2> QED BY <2>3 DEF ResolveSlot, Section
<1> QED BY <1>6, <1>7, <1>8 DEF IInv, FprInv, Slots

\* What Apply leaves on the chip, cell by cell.
LEMMA ApplyIs ==
  ASSUME IInv, MapInv, Apply
  PROVE  LET slot == chip.map[Section(Other(run))]
         IN  /\ run \in Slots
             /\ chip'.map = chip.map /\ chip'.len = Size
             /\ slot.off \in Nat /\ slot.size \in Nat /\ slot.off + slot.size <= Size
             /\ \A k \in 0 .. Size - 1 \ AreaOf(slot) : chip'.at[k] = chip.at[k]
             /\ \A k \in 0 .. slot.size - 1 :
                  chip'.at[slot.off + k] = cap.data.at[Start(Other(run), slot.size) + k]
             /\ cap.data.len = 2 * slot.size
<1> DEFINE t == Other(run)
           slot == chip.map[Section(t)]
           f == [k \in 0 .. chip.len - 1 |->
                   IF k \in AreaOf(slot) /\ ~Blocked(k)
                   THEN cap.data.at[ImageOffset(t, slot) + k - slot.off]
                   ELSE chip.at[k]]
<1>1. /\ run \in Slots /\ ResolveSlot(chip.map) = t /\ t \in Slots /\ run # "off"
      /\ Section(t) \in Before \cap DOMAIN chip.map
  <2>1. run # "off" /\ ResolveSlot(chip.map) # "none"
    BY DEF Apply
  <2>2. VbootLayout(chip.map)
    BY <2>1 DEF ResolveSlot
  <2>3. run \in Slots /\ ResolveSlot(chip.map) = t
    BY <2>1, ResolvesOther
  <2>4. t \in Slots
    BY DEF Other, Slots
  <2> QED BY <2>1, <2>2, <2>3, <2>4, SlotsOf
<1>2. chip' = [chip EXCEPT !.at = f] /\ cap.data.len = 2 * slot.size
  BY <1>1 DEF Apply
<1>3. chip'.at = f /\ chip'.map = chip.map /\ chip'.len = Size /\ chip.len = Size
  BY <1>2, WriteKeepsChip DEF IInv, ChipInv
<1>4. slot.off \in Nat /\ slot.size \in Nat \ {0} /\ slot.off + slot.size <= Size
  <2>1. OnChip(slot)
    BY <1>1, MapFacts DEF IInv, ChipInv
  <2> QED BY <2>1, FlashImagesAssumption DEF OnChip
<1>5. \A k \in AreaOf(slot) : ~Blocked(k)
  BY <1>1, SlotsAreOpen
<1>6. \A k \in 0 .. Size - 1 \ AreaOf(slot) : chip'.at[k] = chip.at[k]
  BY <1>3
<1>7. ASSUME NEW k \in 0 .. slot.size - 1
      PROVE  chip'.at[slot.off + k] = cap.data.at[Start(t, slot.size) + k]
  <2> HIDE DEF slot, t
  <2>1. slot.off + k \in 0 .. Size - 1 /\ slot.off + k \in AreaOf(slot)
    BY <1>4, FlashImagesAssumption DEF AreaOf
  <2>2. chip'.at[slot.off + k]
          = cap.data.at[ImageOffset(t, slot) + (slot.off + k) - slot.off]
    BY <1>3, <1>5, <2>1
  <2>3. ImageOffset(t, slot) + (slot.off + k) - slot.off = Start(t, slot.size) + k
    BY <1>4 DEF ImageOffset, Start
  <2> QED BY <2>2, <2>3
<1> QED BY <1>1, <1>2, <1>3, <1>4, <1>6, <1>7

\* The slot gets its own half.
LEMMA HalfIsWhole ==
  ASSUME IInv, MapInv, Apply
  PROVE  Truth(chip', Section(Other(run))) = cap.halves[Other(run)]
<1> DEFINE t == Other(run)
           slot == chip.map[Section(t)]
<1>1. /\ chip'.map = chip.map /\ chip'.len = Size /\ cap.data.len = 2 * slot.size
      /\ slot.off \in Nat /\ slot.size \in Nat /\ slot.off + slot.size <= Size
      /\ \A k \in 0 .. slot.size - 1 :
           chip'.at[slot.off + k] = cap.data.at[Start(t, slot.size) + k]
      /\ t \in Slots
  <2>1. t \in Slots
    BY DEF Other, Slots
  <2> QED BY <2>1, ApplyIs
<1>2. CapsuleOk(cap)
  BY DEF MapInv, Apply
<1>3. PICK n \in Nat :
        /\ cap.data.len = 2 * n
        /\ \A s \in Slots :
             cap.halves[s] = [len |-> n,
                              at |-> [k \in 0 .. n - 1 |-> cap.data.at[Start(s, n) + k]]]
  BY <1>2 DEF CapsuleOk
<1>4. Truth(chip', Section(t)) = Slice(chip', slot.off, slot.size)
  BY <1>1 DEF Truth
<1> HIDE DEF slot, t
<1>5. n = slot.size
  BY <1>1, <1>3
<1>6. Slice(chip', slot.off, slot.size)
        = [len |-> slot.size, at |-> [k \in 0 .. slot.size - 1 |-> chip'.at[slot.off + k]]]
  <2>1. /\ chip'.len \in Nat /\ slot.off \in Nat /\ slot.size \in Nat
        /\ slot.off + slot.size <= chip'.len
    BY <1>1, FlashImagesAssumption
  <2> QED BY <2>1, SliceIs
<1>7. cap.halves[t] = [len |-> slot.size,
                       at  |-> [k \in 0 .. slot.size - 1 |->
                                  cap.data.at[Start(t, slot.size) + k]]]
  BY <1>1, <1>3, <1>5
<1>8. Truth(chip', Section(t)) = cap.halves[t]
  BY <1>1, <1>4, <1>6, <1>7
<1> QED BY <1>8 DEF t

-----------------------------------------------------------------------------
(* The maps are kept by every step                                           *)

LEMMA WriteKeepsMap ==
  ASSUME ChipInv, NEW f, chip' = [chip EXCEPT !.at = f], DOMAIN f = 0 .. chip.len - 1,
         \A k \in 0 .. chip.len - 1 :
           ~Plain(f[k]) => k = chip.map["FMAP"].off /\ f[k].head.areas = chip.map
  PROVE  OwnMap(chip')
<1>1. chip'.at = f /\ chip'.map = chip.map /\ chip'.len = chip.len
  BY WriteKeepsChip DEF ChipInv
<1> QED BY <1>1 DEF OwnMap

LEMMA ShortenedIsOwn ==
  ASSUME NEW b, b.len \in Nat, OwnMap(b), NEW n \in Nat
  PROVE  OwnMap(Shortened(b, n)) /\ Shortened(b, n).len \in Nat
<1> DEFINE r == Slice(b, 0, n)
<1>1. r.len = Clip(b, 0 + n) - Clip(b, 0) /\ r.at = [k \in 0 .. r.len - 1 |-> b.at[0 + k]]
  BY DEF Slice
<1>2. r.len \in Nat /\ r.len <= b.len
  BY <1>1 DEF Clip
<1> HIDE DEF r
<1>3. \A k \in 0 .. r.len - 1 : k \in 0 .. b.len - 1 /\ r.at[k] = b.at[k]
  <2>1. \A k \in 0 .. r.len - 1 : k \in 0 .. b.len - 1 /\ 0 + k = k
    BY <1>2
  <2>2. \A k \in 0 .. r.len - 1 : r.at[k] = b.at[0 + k]
    BY <1>1
  <2> QED BY <2>1, <2>2
<1>4. Shortened(b, n) = [len |-> r.len, at |-> r.at, map |-> b.map]
  BY DEF Shortened, r
<1> QED BY <1>2, <1>3, <1>4 DEF OwnMap

LEMMA TransferKeepsMap ==
  ASSUME IInv, MapInv, NEW gbe \in BOOLEAN, Transfer(gbe)
  PROVE  OwnMap(rom')
<1>1. rom'.len = rom.len /\ rom'.map = rom.map /\ rom.len \in Nat /\ backup.len \in Nat
  BY TransferIs DEF MapInv
<1>2. SUFFICES ASSUME NEW k \in 0 .. rom.len - 1, ~Plain(rom'.at[k])
               PROVE  k = rom.map["FMAP"].off /\ rom'.at[k].head.areas = rom.map
  BY <1>1 DEF OwnMap
<1>3. CASE \A a \in Moved(gbe) : k \notin AreaOf(rom.map[a])
  BY <1>2, <1>3, TransferIs DEF MapInv, OwnMap
<1>4. ASSUME NEW a \in Moved(gbe), k \in AreaOf(rom.map[a]) PROVE FALSE
  <2> DEFINE to == rom.map[a]
             from == backup.map[a]
             i == from.off + (k - to.off)
  <2>1. /\ a \in Before \cap DOMAIN rom.map \cap DOMAIN backup.map
        /\ to.size = from.size /\ rom'.at[k] = backup.at[i]
    BY <1>4, TransferIs
  <2>2. /\ to.off \in Nat /\ to.size \in Nat /\ from.off \in Nat
        /\ from.off + from.size <= backup.len
        /\ from.off + from.size <= backup.map["FMAP"].off
        /\ backup.map["FMAP"].off \in Nat
    BY <1>1, <2>1, TransferMaps, InFile
  <2>3. i \in 0 .. backup.len - 1 /\ i # backup.map["FMAP"].off
    BY <1>1, <1>4, <2>1, <2>2 DEF AreaOf
  <2> HIDE DEF i
  <2> QED BY <1>2, <2>1, <2>3 DEF MapInv, OwnMap
<1> QED BY <1>3, <1>4

LEMMA ApplyKeepsMap ==
  ASSUME IInv, MapInv, Apply
  PROVE  OwnMap(chip')
<1> DEFINE t == Other(run)
           slot == chip.map[Section(t)]
<1>1. /\ chip'.map = chip.map /\ chip'.len = Size /\ cap.data.len = 2 * slot.size
      /\ slot.off \in Nat /\ slot.size \in Nat /\ slot.off + slot.size <= Size
      /\ \A k \in 0 .. Size - 1 \ AreaOf(slot) : chip'.at[k] = chip.at[k]
      /\ \A k \in 0 .. slot.size - 1 :
           chip'.at[slot.off + k] = cap.data.at[Start(t, slot.size) + k]
  BY ApplyIs
<1>2. PICK n \in Nat :
        cap.data.len = 2 * n /\ \A i \in 0 .. 2 * n - 1 : Plain(cap.data.at[i])
  <2>1. CapsuleOk(cap)
    BY DEF MapInv, Apply
  <2> QED BY <2>1 DEF CapsuleOk
<1>3. OwnMap(chip) /\ chip.len = Size
  BY DEF MapInv, IInv, ChipInv
<1> HIDE DEF slot, t
<1>4. ASSUME NEW k \in 0 .. Size - 1, k \in AreaOf(slot) PROVE Plain(chip'.at[k])
  <2>1. k - slot.off \in 0 .. slot.size - 1 /\ slot.off + (k - slot.off) = k
    BY <1>1, <1>4 DEF AreaOf
  <2>2. chip'.at[k] = cap.data.at[Start(t, slot.size) + (k - slot.off)]
    BY <1>1, <2>1
  <2>3. Start(t, slot.size) + (k - slot.off) \in 0 .. 2 * n - 1
    BY <1>1, <1>2, <2>1 DEF Start
  <2> QED BY <1>2, <2>2, <2>3
<1> QED BY <1>1, <1>3, <1>4 DEF OwnMap

LEMMA InitMaps == Init => MapInv
<1> SUFFICES ASSUME Init PROVE MapInv
  OBVIOUS
<1>1. OwnMap(chip)
  BY BuiltIsOwn DEF Init
<1>2. OwnMap(NoFile) /\ NoFile.len \in Nat
  BY DEF OwnMap, NoFile
<1> QED BY <1>1, <1>2 DEF Init, MapInv

LEMMA MapStepHolds == IInv /\ MapInv /\ [Next]_vars => MapInv'
<1> SUFFICES ASSUME IInv, MapInv, [Next]_vars PROVE MapInv'
  OBVIOUS
<1> DEFINE Files == UNCHANGED <<rom, backup, cap>>
<1>1. ASSUME Files, OwnMap(chip') PROVE MapInv'
  BY <1>1 DEF MapInv, CapsuleOk
<1>2. ASSUME Files, UNCHANGED chip PROVE MapInv'
  BY <1>1, <1>2 DEF MapInv, OwnMap
<1>3. CASE ChangeSettings
  <2> DEFINE r == chip.map["SMMSTORE"]
             f == [k \in 0 .. chip.len - 1 |->
                     IF k \in AreaOf(r) /\ ~Blocked(k) THEN Setting(k - r.off) ELSE chip.at[k]]
  <2>1. \A k : Plain(Setting(k))
    BY DEF Plain, Setting
  <2>2. chip' = [chip EXCEPT !.at = f]
    BY <1>3 DEF ChangeSettings
  <2>3. \A k \in 0 .. chip.len - 1 :
          ~Plain(f[k]) => k = chip.map["FMAP"].off /\ f[k].head.areas = chip.map
    BY <2>1 DEF MapInv, OwnMap
  <2>4. OwnMap(chip')
    BY <2>2, <2>3, WriteKeepsMap DEF IInv
  <2> QED BY <1>1, <1>3, <2>4 DEF ChangeSettings
<1>4. ASSUME NEW areas, OsWrite(areas) PROVE MapInv'
  <2> DEFINE f == [k \in 0 .. chip.len - 1 |->
                     IF ~Blocked(k) /\ \E a \in areas : k \in AreaOf(chip.map[a])
                     THEN rom.at[k] ELSE chip.at[k]]
  <2>1. chip' = [chip EXCEPT !.at = f] /\ rom.len = chip.len /\ rom.map = chip.map
    BY <1>4 DEF OsWrite
  <2>2. \A k \in 0 .. chip.len - 1 :
          ~Plain(f[k]) => k = chip.map["FMAP"].off /\ f[k].head.areas = chip.map
    BY <2>1 DEF MapInv, OwnMap
  <2>3. OwnMap(chip')
    BY <2>1, <2>2, WriteKeepsMap DEF IInv
  <2> QED BY <1>1, <1>4, <2>3 DEF OsWrite
<1>5. CASE Apply
  BY <1>1, <1>5, ApplyKeepsMap DEF Apply
<1>6. CASE Program
  BY <1>1, <1>6 DEF Program, MapInv
<1>7. CASE Backup
  <2>1. chip.len \in Nat /\ chip.map \in Maps
    BY FlashImagesAssumption DEF IInv, ChipInv
  <2> QED BY <1>7, <2>1 DEF Backup, MapInv, OwnMap, CapsuleOk
<1>8. ASSUME NEW i \in Releases, NEW l \in Layouts, Build(i, l) PROVE MapInv'
  <2>1. OwnMap(rom') /\ rom'.len \in Nat
    BY <1>8, BuiltIsOwn, FlashImagesAssumption DEF Build, BuiltRom
  <2>2. UNCHANGED <<chip, backup, cap>>
    BY <1>8 DEF Build
  <2> QED BY <2>1, <2>2 DEF MapInv, OwnMap, CapsuleOk
<1>9. ASSUME NEW n \in CutAt, Cut(n) PROVE MapInv'
  <2>1. n \in Nat
    BY FlashImagesAssumption
  <2>2. OwnMap(rom') /\ rom'.len \in Nat
    BY <1>9, <2>1, ShortenedIsOwn DEF Cut, MapInv
  <2>3. /\ OwnMap(backup') /\ backup'.len \in Nat
        /\ backup' = NoFile \/ backup'.map \in Maps
    <3>1. backup' = backup \/ (backup # NoFile /\ backup' = Shortened(backup, n))
      BY <1>9 DEF Cut
    <3> QED BY <2>1, <3>1, ShortenedIsOwn, ShortenedIsFile DEF MapInv
  <2>4. UNCHANGED <<chip, cap>>
    BY <1>9 DEF Cut
  <2>5. OwnMap(chip') /\ (cap' = NoCapsule \/ CapsuleOk(cap'))
    BY <2>4 DEF MapInv
  <2> QED BY <2>2, <2>3, <2>5 DEF MapInv
<1>10. ASSUME NEW gbe \in BOOLEAN, Transfer(gbe) PROVE MapInv'
  <2>1. OwnMap(rom') /\ rom'.len \in Nat
    BY <1>10, TransferKeepsMap, TransferIs DEF MapInv
  <2>2. UNCHANGED <<chip, backup, cap>>
    BY <1>10 DEF Transfer
  <2> QED BY <2>1, <2>2 DEF MapInv, OwnMap, CapsuleOk
<1>11. CASE PackFile
  <2>1. CapsuleOk(cap')
    BY <1>11, PackFileOk
  <2>2. UNCHANGED <<chip, rom, backup>>
    BY <1>11 DEF PackFile, MakeCapsule
  <2> QED BY <2>1, <2>2 DEF MapInv, OwnMap, CapsuleOk
<1>12. CASE UNCHANGED vars \/ PowerOff \/ \E s \in Slots \cup {"RO"}, n \in FspTakes : Boot(s, n)
  BY <1>2, <1>12 DEF vars, PowerOff, Boot
<1> QED BY <1>3, <1>4, <1>5, <1>6, <1>7, <1>8, <1>9, <1>10, <1>11, <1>12 DEF Next

LEMMA MapInvariance == Spec => [](IInv /\ MapInv)
<1>1. Init => IInv /\ MapInv
  BY InitHolds, InitMaps
<1>2. (IInv /\ MapInv) /\ [Next]_vars => (IInv /\ MapInv)'
  BY StepHolds, MapStepHolds
<1> QED BY <1>1, <1>2, PTL DEF Spec

\* Between any two layouts, and from a file that was cut short too, a transfer
\* moves the settings whole and changes nothing of the firmware.
THEOREM OnlySettingsMoveAlways == Spec => OnlySettingsMove
<1> DEFINE Good == \A gbe \in BOOLEAN : Transfer(gbe) =>
              LET moved == {"SMMSTORE"} \cup IF gbe THEN {"SI_GBE"} ELSE {}
              IN  /\ rom'.len = rom.len
                  /\ \A a \in moved : Truth(rom', a) = Truth(backup, a)
                  /\ \A k \in 0 .. rom.len - 1 :
                       (\A a \in moved : k \notin AreaOf(rom.map[a])) =>
                          rom'.at[k] = rom.at[k]
<1>1. IInv /\ MapInv /\ [Next]_vars => Good
  <2> SUFFICES ASSUME IInv, MapInv, NEW gbe \in BOOLEAN, Transfer(gbe)
               PROVE  /\ rom'.len = rom.len
                      /\ \A a \in Moved(gbe) : Truth(rom', a) = Truth(backup, a)
                      /\ \A k \in 0 .. rom.len - 1 :
                           (\A a \in Moved(gbe) : k \notin AreaOf(rom.map[a])) =>
                              rom'.at[k] = rom.at[k]
    BY DEF Moved
  <2> QED BY TransferIs, MovedIsWhole
<1> QED BY <1>1, MapInvariance, PTL DEF Spec, OnlySettingsMove

\* On any layout a capsule that is written puts the half for the idle slot into
\* the idle slot, whole, and leaves the rest of the chip alone.
THEOREM HalfAlwaysLands == Spec => HalfLandsWhole
<1> DEFINE Good == Apply =>
              /\ run \in Slots
              /\ LET slot == AreaOf(chip.map[Section(Other(run))])
                 IN  /\ Truth(chip', Section(Other(run))) = cap.halves[Other(run)]
                     /\ \A k \in 0 .. Size - 1 \ slot : chip'.at[k] = chip.at[k]
<1>1. IInv /\ MapInv /\ [Next]_vars => Good
  BY ApplyIs, HalfIsWhole
<1> QED BY <1>1, MapInvariance, PTL DEF Spec, HalfLandsWhole
=============================================================================
