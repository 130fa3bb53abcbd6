# TLA+ models of coreboot-t480

Models of what this repository adds to coreboot, edk2 and vboot for the
ThinkPad T480, and of the scripts that build and operate it. TLC checks the
models on small instances, TLAPS proves some of the results for every value of
the constants. Paths below are relative to the repository's root.

## 1. Inventory

| Component | Source | State it keeps | Operations |
|---|---|---|---|
| Capsule updates | `patches/edk2/0003` (FmpDeviceSlotLib) | the slots RW_SECTION_A/B in flash, the VBNV block in CMOS, `mSlotIsB`/`mImageOffset` per boot, the loop of SetImage, LastAttemptStatus | `ResolveSlot`, `FmpDeviceCheckImageWithStatus`, `FmpDeviceSetImageWithStatus`, `ArmTrialBoot` |
| VBNV tool | `scripts/vbnv.py`, its boot-ok service in `GUIDE.md` | the VBNV block through `/dev/nvram` | `show`, `boot-ok`, `arm-update`, `try-next`, `fix-checksum` |
| vboot | coreboot's 3rdparty, options in `config/defconfig`, described in `docs/vboot-notes.md` | CMOS block, its copy in RW_NVRAM, the TPM's firmware version | slot choice, fallback, recovery request, roll-forward |
| OS side of an update | `GUIDE.md` (fwupd, flashrom) | the staged capsule, the other slot | stage, flash, reboot |
| Fan control | `patches/base/0010`, `0011`, `0012`, `0020` | `\FLVL`, `\FPRO`, the EC's fan register, the option in SMMSTORE | `_ACx`, `_ON`/`_OFF`/`_STA` of four power resources, `_INI`, the SSDT |
| Fetching | `fetch.sh`, `build/fetch-sources.sh` | `config/versions.lock`, `sources/` with its lock, stamps, trees, tarball and checksums | resolve or read the set, invalidate, fill each tree, record, take over |
| Building | `scripts/build-firmware.py`, `build/Dockerfile.offline` | the image coreboot-t480 and its label, the working-tree copy in `sources/` | require, verify, sync, hash, build base, build variants |
| Capsule packing | `scripts/make-capsule.py` | the capsule file | find the FMAP, cut the two halves, sign |
| Settings transfer | `scripts/transfer-settings.py` | the ROM file it writes | copy SMMSTORE and GbE between images |
| Protected ranges | `patches/base/0042`, `0043`, `scripts/spi-ranges.py` | five SPI protected range registers | lock, print |
| TPM | `patches/base/0046`, `0047`, `patches/edk2/0005`, `0006`, `0007`, `patches/tpm-reset` | pre-RAM log, PCR banks, platform hierarchy | initialise the CRTM, replay the log, allocate banks, shut the hierarchy, clear |
| Radio state | `patches/base/0033`, `0034`, `0035` | radio bits in the EC and the option | keep or set at boot |
| Keys | `scripts/gen-vboot-keys.sh`, `scripts/gen-capsule-certs.sh` | `keys/` | create once |
| Payload plumbing | `patches/edk2/0001`, `0002`, `0004`, `patches/base/0044`, `0048` | HOBs, PCDs, ESRT | hand the flash layout and version over |
| Fixed data | `patches/base/0001`, `0002`, `0030`-`0032`, `0040`, `0041`, `0060`, `patches/regression`, `config/`, `build/Dockerfile.deps`, `build/apply-devicetree.sh` | none | none |

### How they interact

The OS stages a capsule in memory and resets warm. Coreboot finds it, and only
because it did, the SMI handler gives the payload the whole flash in that boot.
FmpDeviceSlotLib writes the half of the image that was linked for the slot the
machine did not boot from, then changes two fields of the VBNV block in CMOS.
vboot reads those on the next boot, tries the slot, and leaves a note in the
same block that the trial is running. `vbnv.py boot-ok`, a service of the OS,
changes the note to "success". On a later boot vboot raises the version in the
TPM to that of the slot, after which older firmware is refused. Five writers
of one 16-byte block (payload, vboot, ramstage, `vbnv.py`, the power supply),
two of which cannot see the others, and a counter that only goes up: this is
where most of the risk is, and what was modelled first.

What is in flash and in the files is found through maps: the FMAP in the chip,
in a ROM, in a backup, and in the ROM a capsule is packed from, each of which
may have been built with another layout. `make-capsule.py` finds the halves with
the map of the file, FmpDeviceSlotLib writes them with the map of the chip;
`transfer-settings.py` uses the map of each of its two files; `0043` seals what
the map of the chip names.

Fan control has the OS as a partner that is not in the repository. It polls the
zone, compares the temperature with trip points that move with the level, and
calls the power resources in an order that the firmware does not choose.

The TPM is passed from hand to hand in one boot: vboot and CBFS extend and log
in coreboot, the payload turns that log into hobs for Tcg2Dxe, which goes on in
a log of its own and also fixes the banks of the next startup. The OS's
physical presence requests of the boot before are carried out after the
console, and the platform hierarchy is disabled when the OS is about to start.

On the build host, `fetch.sh` and `build-firmware.py` are linked by files
alone: the lock and the trees in `sources/`, `sha256sums.txt`, and the label of
a container image. Each script skips what earlier ones have left.

### What is hard here, and what correctness means

* **Updates.** Power cuts between any two writes, a trial that hangs, a capsule
  that meets a trial, a torn CMOS block that brings the older copy in flash
  back into effect. Correct means: one slot always boots a release that has
  worked here; the counter waits for the release that reports; only the target
  is written; "success" in the ESRT is true; the machine comes up again.
* **The block.** Unlocked read-modify-write by separate processes, and a CRC as
  the only protection against torn writes. Correct means: torn writes are
  noticed, each byte edit is the field edit it is meant to be, no report is
  lost, what a command has said is so.
* **Flash layouts.** Eight places in a ROM carry the signature of the map, areas
  move between builds, files are cut short, and of five range registers FSP may
  have taken some. Correct means: what is moved between images lands whole where
  it belongs and nothing else changes; what is sealed stays as it is.
* **Fans.** Order of calls, moving trip points, resume from S3, a garbage
  option. Correct means: the register matches the level or is automatic, OS and
  firmware agree, full speed comes before throttling, no oscillation at a
  steady temperature.
* **TPM.** Two logs and one set of PCRs in three programs, a bank change that
  applies a boot later, requests that need the hierarchy which the OS must not
  have, a latch that outlives resets. Correct means: the log the OS reads
  reconstructs the PCRs; the next boot's log parses; no reset loop; the
  hierarchy is open until the requests are done and shut before the OS.
* **Fetch and build.** A script stopped anywhere, tags that are cut again, the
  user editing the lock, stale images. Correct means: a stamp stands for a
  complete tree, the lock names what is there, a ROM holds what was asked for.

## 2. Modules

| Module | Models | Used by |
|---|---|---|
| `Vbnv` | the VBNV block as fields: `ArmTrialBoot`, the edits of `vbnv.py`, vboot's choice and failure rules | `SlotUpdate`, `VbnvBytes` |
| `SlotUpdate` | one machine: power, boot, FmpDeviceSlotLib, the OS | `CapsuleInvariant`, `SlotUpdate_proofs` |
| `CapsuleInvariant` | the inductive invariants of updates by capsule alone, and by flashrom alone | `CapsuleRefinement`, `CapsuleUpdate_proofs` |
| `SafeUpdate` | what updates promise: usable, proven and confirmed releases and a floor | `CapsuleRefinement` |
| `CapsuleRefinement` | the refinement mapping from `SlotUpdate` to `SafeUpdate` | `MCSlotUpdate`, `CapsuleRefinement_proofs` |
| `VbnvBytes` | the sixteen bytes, CRC-8, the masks, the decoding to fields | `VbnvTools` |
| `VbnvTools` | processes of `vbnv.py` and the byte loop of `ArmTrialBoot` | `MCVbnvTools`, `VbnvTools_proofs` |
| `FlashMap` | images, Python's slices, the two searches for the FMAP | `FlashImages` |
| `FlashImages` | one chip and the files about it: ROMs, a backup, settings, a capsule, protected ranges | `MCFlashImages`, `FlashImages_proofs` |
| `FanControl` | thermal zone, power resources, profiles, the polling OS | `MCFanControl`, `FanControl_proofs` |
| `MeasuredBoot` | extends, logs, banks, hierarchy and requests from power-on to the OS, the reset ROM | `MCMeasuredBoot`, `MeasuredBoot_proofs` |
| `FetchSources` | `fetch.sh` and `fetch-sources.sh`, stopped anywhere | `BuildFirmware` |
| `BuildFirmware` | `build-firmware.py` and the container build on what the fetch left | `MCBuildFirmware` |
| `SlotUpdate_proofs`, `CapsuleUpdate_proofs`, `CapsuleRefinement_proofs` | theorems about updates | |
| `VbnvTools_proofs`, `FlashImages_proofs`, `FanControl_proofs`, `MeasuredBoot_proofs`, `BuildFirmware_proofs` | theorems about the others | |

### SlotUpdate and Vbnv

`phase` is how far the machine is; an action per step of the code moves it on.

* `PowerOn`, `EnterRecovery`, `BootSlot`, `RejectSlot`, `Ramstage`: verstage and
  ramstage. They are coreboot and vboot code that the repository selects and
  does not contain, and are marked external. `Nv` is the block in CMOS if it
  verifies, else the copy of the last ramstage in RW_NVRAM.
* `SetImage`, `SkipBlock`, `EraseBlock`, `WriteBlock`, `RefuseBlock`,
  `FailBlock`, `SlotWritten`, `Arm`, `ArmFails`: FmpDeviceSetImageWithStatus
  cut at each flash and CMOS access, so that a power cut can fall between any
  two. A slot is `NBlocks` SMMSTORE blocks, each with a release and the half it
  was linked for. `CheckImage` lists the early returns.
* `BootOk`, `CmdArmUpdate`, `CmdTryNext`, `FlashSlot`, `FlashCut`,
  `StageCapsule`, `Reboot`: what runs in the OS. `OsOps` says which of them a
  run allows, and "inplace" lifts the documented rule that the running slot is
  left alone.
* `PowerCut`, `CmosLoss`: at most `MaxFaults`, with flash errors, per
  behaviour.

A release is a model value with a keyblock version and a fate (`Dies`): it
hangs in romstage ("early"), between payload and userspace ("late"), or works.
`cameUp`, `reported` and `kept` are history: they let a property say "a release
that has worked here" and change no behaviour.

### SafeUpdate and CapsuleRefinement

`SafeUpdate` knows no slots, blocks, CMOS or power. A machine has a set of
releases it can go back to, never an empty one, each of which has worked on it;
a floor under the versions rises to that of a release that has reported, while
it is still one of them. `CapsuleRefinement` maps `SlotUpdate` to it: `usable`
is what the fallback slots hold, `floor` the counter in the TPM. An update, a
torn write, a repaired slot and a CMOS loss are all `Replace` or a stutter; the
first time a release reaches userspace is `Prove`, `boot-ok` is `Confirm`,
vboot's roll-forward is `RaiseFloor`.

### VbnvBytes and VbnvTools

A byte is the set of its one bits, so masks are intersections and no bitwise
library is needed. `Decode` maps bytes to the record of `Vbnv`; `EditsAsFields`
and `TornCaught` check that the field-level model is a right view of the
bytes. A command is three steps, `ReadBlock`, `WriteBlock`, `ReadBack`, as the
script's calls are; the kernel's two calls are atomic each.

### FlashMap and FlashImages

An image is `len` cells, one flash block each, with what Python's slices do to
them, cutting at the end included. A cell knows the build, the layout and the
offset it was linked for, so that "the right half" and "the settings of that
machine" are equalities of cells. A cell may carry the signature of the map and
a head behind it: the real map, and the string constant in each slot's code,
whose head is no map. `FindFmap` is the search of `make-capsule.py` (one valid
candidate that points back at itself), `FirstFmap` that of
`transfer-settings.py` (the first plausible one).

* `Build`, `Backup`, `Cut`, `Transfer`, `PackFile` make files: a ROM of any
  layout, a dump of the chip, copies that end early, the settings of the backup
  in the ROM, the capsule of the ROM or of its BIOS region. `Transfer` and
  `MakeCapsule` have the scripts' checks as guards; where they fail the files
  stay as they were.
* `Boot` sets up the range registers that FSP has left (`Protect`, `Lockdown`)
  from the map on the chip. coreboot's own protection of WP_RO and the
  allocation of the registers are external.
* `ChangeSettings`, `Apply`, `OsWrite`, `Program` write the chip: the payload's
  variables, a capsule through `ResolveSlot`, flashrom in the OS, a programmer.
  The first three cannot write what `Blocked` says. vboot's choice of the slot
  is free here; `SlotUpdate` has it.

`map` of a file and `halves` of a capsule are history: where the areas really
are. The properties compare with them, and no guard of the scripts' reads them.

### FanControl

The state of the ACPI namespace (`flvl`, `fpro`), of the EC (`hfsp`) and of the
OS (`sample`, `wanted`, `todo`, `dev`). `Evaluate` is one poll with the trip
points `ACX`, `Switch` one call of `_ON` or `_OFF`, in any order. `FTBL` is the
table of 0020 for the four profiles.

### MeasuredBoot

`phase` moves from the bootblock to the OS. A PCR is the sequence of what was
extended (`pcrs`, all registers together), so that "the log reconstructs the
PCRs" is equality of two sequences; what one digest is does not matter here.

* `VerifyFirmware` is `extend_pcrs()` with the call 0046 puts before it,
  `MeasureFile` one CBFS file. `Extend`, `InitCrtm` and the room the log has
  are coreboot's and external.
* `PostDevice` is the place of the reset ROM's hook in ramstage. Of its steps
  any one may fail, and the others go on.
* `BuildTpmEventLogHobs` and `Tcg2Dxe` are the payload's: hobs, the bank
  allocation (which the TPM may refuse, in every boot), the header of the log.
* `BeforeConsole`, `AfterConsole` and `ReadyToBoot` are the order in which the
  payload signals its events and carries out requests; `HierarchyEvent` is the
  one that 0007 chooses. `Submit`, `UseTpm`, `FlashRom` are the OS and its user.

### FetchSources and BuildFirmware

`pc` walks through the script; `Abort` stops it at any step. A lock entry is a
tag and a revision, because a tag can be cut again. `whole` is history: which
trees are complete, whatever the stamps say. So is `missed`: a run was stopped
after it had begun to write `sources/versions.lock` and before it removed the
stamps of what had moved, and no `--refresh` has ended since. `BuildFirmware`
extends `FetchSources` and adds the image, its label and the checks before a
build. `BuildBase` has three outcomes for an image that is there: the label
matches, it is another one (refused), or there is none, or inspect fails, and the
image is used with a warning (`pc = "unverified"`). `BuildByHand` is the
`podman build` at the head of `Dockerfile.offline`, which sets no label.
`Works` are the inputs of a build that the lock does not name: defconfig,
patches, keys and the MAC, which is hashed with them.

## 3. Runs

| Run | Instance | Properties |
|---|---|---|
| `capsule` | five releases (working, newer, dies late, dies early, wrong layout), 2 blocks, 2 faults, capsules only | `TypeOK` `FallbackSurvives` `CounterWaits` `ArmedSlotWhole` `WritesTargetOnly` `ImplementsSafeUpdate` `SuccessMeansArmed` `ReportSticks` `ComesUp` |
| `flashrom` | three releases, 2 blocks, 1 fault; flashrom, arm-update with up to 2 tries, try-next, the other slot only | `FallbackSurvives` `CounterWaits` |
| `recovery` | two releases, 2 blocks, 2 faults; both slots may be written, capsules too | `RecoveryReportsIdle` `RecoveryMeansBroken` `ComesUp` |
| `stacked` | no fault; a capsule while a trial armed from the OS is pending | `FallbackSurvives` is violated |
| `inplace` | no fault; arm-update names the running slot | `TrialHoldsCounter` is violated |
| `layout` | eleven cells, five layouts (as in 0040, moved, resized, unequal slots, without slots), copies cut short, 0 or 4 registers taken by FSP, four files made | `TypeOK` `OnlySettingsMove` `HalfLandsWhole` `SealedStays` |
| `oneatatime` | two commands one after the other on every block vboot leaves, power cut at each byte | `TypeOK` `TornCaught` `EditsAsFields` `PromiseKept` |
| `overlap` | boot-ok and arm-update at the same time | `PromiseKept` is violated |
| `zone` | every threshold of every profile and the degree below it, a garbage option | `TypeOK` `RegisterSafe` `OsAgrees` `EscalatesFirst` `HysteresisHolds` `ComesToRest` |
| `tpm` | two files, two algorithms, a log with no entry to spare, two faults; any request, ROM and latch in any boot | `TypeOK` `PcrsReconstruct` `NextLogParses` `OpenThenShut` `ResetRomClears` `ReachesOs` |
| `pipeline` | two releases of coreboot, an edk2 tag cut again, one fetch stopped, two working trees, images built by hand | `TypeOK` `StampMeansWhole` `Edk2Recorded` `RefreshRepairs` `RomFollowsConfig` `TakesOverFetched` |
| `libreboot` | two releases of libreboot, no fetch stopped | `RomFollowsLock` is violated |

### Bounds, and why they are enough

* `NBlocks = 2`: block 1 carries the VBLOCK and is checked on its own, block 2
  is "the rest". A write cut in the middle leaves new-old, junk-old and
  new-junk, and a third block adds no other pattern to the checks.
* `MaxFaults = 2` in `capsule`: the second fault falls on what the first has
  left, which is where the copy in RW_NVRAM is older than CMOS. The theorems
  of section 5 hold without the bound.
* Releases: one of each fate, and versions below, equal to and above another.
* `MaxTries = 2` (field level) tells one try from more; the byte level has 15.
* `layout`: eleven cells hold every area of 0040 with slots of two cells, so
  that half a slot is not a whole one. A second build tells new from old.
  `MaxFileOps = 4` is a ROM, a backup, a transfer and a capsule, or a cut in
  place of one. `CutAt = {8}` cuts the map of three layouts in two, and those of
  the others' files just behind the map or in COREBOOT: an earlier cut leaves no
  map either, which is the scripts' error. FSP takes none or all
  but one of the registers; the theorem has the other numbers.
* `zone`: between two neighbouring thresholds no comparison in the model
  changes, so a degree on each side of each threshold stands for all.
* `tpm`: `LogSize = 6` is the four entries of `extend_pcrs()` and one for each
  file, the least for which the record is whole: the assumption on `LogSize`
  says so, and a longer list of files would lose entries in coreboot's log.
  Two algorithms give the banks of the mask, other ones, and too many. A refused
  allocation is not a fault and happens as often as it likes.
* `pipeline`: two releases are an old and a new one; a second stopped run
  meets stamps that the first could have left as well.

### Fairness

`Fairness` in `SlotUpdate`: the firmware goes on while it has power
(`WF` of the steps each phase has), and a person in front of a hung machine
holds the power button. Nothing is assumed of the user in the OS, and nothing of
faults. `Fairness` in `FanControl`: the zone's `_TZP` has the OS poll it every
ten seconds, and a poll comes to its end. In `MeasuredBoot` the firmware goes on while it has power,
which code that only runs forward does; users and faults are free. `VbnvTools`, `FlashImages` and the build pipeline
have no fairness, and no liveness is claimed for them.

## 4. What the runs found

Where the code does other than what the repository says of it:

1. `stacked`. FmpDeviceSlotLib does not look at the block before it writes. If
   `arm-update` has a trial pending, the boot that consumes the capsule is that
   trial. Should the untested slot get as far as the payload, the library
   overwrites the other slot, which held the only release that works, and arms
   it. `FallbackSurvives` fails from the first erase on, and if both new
   releases die after the payload neither slot comes up, against "A slot that never comes up
   costs one boot and the machine returns to the old one without help" (0003)
   and "the next boot falls back to the old slot on its own" (GUIDE).
   Capsules alone cannot do this (section 5).
2. `inplace`. `arm-update` accepts the running slot, promises that the running
   slot "stays as fallback", and says that "the rollback counter cannot move
   until the new image itself reports success". If the slot was flashed in
   place and its predecessor had reported, vboot's roll-forward sees
   tried = slot and result = success in the old block and raises the counter in
   the very boot that starts the trial.
3. `overlap`. Two `vbnv.py` processes interleave: boot-ok has read the block,
   arm-update writes and verifies, boot-ok writes its copy. arm-update has
   said "next boot tries slot B", and the block says A. Or arm-update reads back
   the block of the other, whose CRC is right, and prints the same.
4. `libreboot`. `fetch-sources.sh` keeps the old tarball when the lock moves to
   a newer libreboot ("a new one is just a file that is not there yet"), and the
   Dockerfile takes the first of `ls`. The image's label hashes the lock that
   names the new one; the blobs come from the old one.

Seen while modelling, not in a run:

* `RomFollowsLock` also fails (a) if the lock moved and the run was stopped
  between writing `sources/versions.lock` and removing the stamps: the next run
  compares the lock with itself; (b) if a coreboot tag is cut again; (c) if a
  build lies between a stopped fetch and the next complete one: the label is
  the same, so the stale image "exists and matches". It holds when none of
  this happens and libreboot stays, however the other three move
  (`RomIsOfItsLock`, section 5). lbmk, too, is not filled again
  when libreboot alone moves.
* `TakesOverFetched` has an exception. A `--latest` stopped between writing
  `sources/versions.lock` (`fetch-sources.sh:260`) and removing the stamps
  (`:284-287`) leaves the new set beside the old trees and their stamps. The next
  `--latest` compares the set with itself, sees no move, skips the trees and
  copies the set over `config/versions.lock`: a coreboot that was never fetched is
  recorded, against "take them over now that the fetch actually succeeded" and "a
  fetch that dies halfway cannot leave config/versions.lock half-updated"
  (`fetch.sh:123-125`, `:145-146`). TLC refutes the property in `pipeline` as soon
  as the exception (`missed` without `--refresh`) is taken out; no run keeps
  that counterexample.
* An image without a label, as the command in `Dockerfile.offline:5-12` makes it,
  is used whatever is in it, and so is any image when `podman image inspect`
  fails (`build-firmware.py:239-242`): the ROM may be of another working tree and
  another set, with a warning only. `RomFollowsConfig` and `RomFollowsLock`
  leave the warned case out; with it, both fail.
* A partial libreboot tarball is kept as "present" and stops every later run at
  its checksum until `--refresh`; for an unpinned release whose checksum no
  mirror has served there is only a warning.
* `docs/firmware-versions.md:56` says that nothing sets VB2_NV_TRY_COUNT;
  `patches/edk2/0003` and `vbnv.py` do.
* `patches/README.md:230` names a call that `patches/base/0020` does not make.
* boot-ok also runs in a recovery boot and then reports for the slot that
  FW_TRIED names, which did not boot. The other slot is next then, so the report is
  gone before anything can be counted on it (`RecoveryReportsIdle`). A user who repairs the
  slot with a newer release from there and chooses it with `try-next` or with
  `arm-update` and its name makes it count: the counter rises in the boot
  that runs the new release first.
* `CounterWaits` does not hold in the instance of `recovery`: flashing the running
  slot after its report is enough, the roll-forward of `inplace`.
* try-next sends the machine to a slot that is broken, too.
* `boot-ok` leaves the remaining tries. With `arm-update --tries 2` the next
  boot is marked as a trial again although the first has reported, and if that
  one is turned off before its service runs, vboot falls back ("Runs out of
  tries without a report"). `ReportSticks` therefore needs `MaxTries = 1`, which
  is what a capsule arms.
* If CMOS is lost after a report and before the next ramstage, the copy in
  flash still says "trying" and the machine falls back. `ReportSticks` is
  stated for an intact block.
* `transfer-settings.py` does not check that the map it found points back at
  itself. On whole files the first plausible one is the right one. Given two
  BIOS regions alone, whose maps count from the start of the chip, it would
  write the settings into the wrong area, and its safety net compares COREBOOT
  only; its documentation asks for whole 16 MB files, and so does the model.
* A capsule from a ROM whose slots lie elsewhere but have the same size is
  accepted. It lands whole (`HalfLandsWhole`), but FSP-M is linked for one
  address, and the trial then hangs and falls back.
* `make-capsule.py` takes the version from `config/defconfig` at packing time,
  not from the ROM.
* Without gcab in the image an older `.cab` stays beside a new `.cap`.
* If SI_DESC and SI_GBE are not adjacent, or FSP has left one register, the
  boot goes on without that protection and a line in the log. `SealedStays` says
  what is promised then.
* After S3 the fan register is automatic while `\FLVL` is not: safe, and the
  next change of level corrects it. `RegisterSafe` allows it.

## 5. What is proved

Eight modules hold proofs, each from the assumptions of its own module alone:
any releases, layouts, tags, files, and any number of blocks and faults. Each
has an inductive invariant, a lemma for each action with a step for each part
that the action can disturb, and theorems that read the result off.

### Updates

`SlotUpdate_proofs` and `CapsuleUpdate_proofs` rest on `SlotUpdateAssumption`
and `MaxTriesAssumption`.

* `TypeCorrect`: `Spec => []TypeOK`, from the stronger `TypeInv`, which also
  keeps the running release tied to the running half.
* `TargetOnly`: `Spec => WritesTargetOnly`. The invariant it needs is that the
  loop has a running slot whenever it has a capsule, so that `Other(run)` is
  never the slot in use.
* `RecoveryAlwaysBroken`: `Spec => RecoveryMeansBroken`, whatever the OS writes
  into either slot. `RecoveryInv`: a request is in CMOS only until ramstage, while
  a slot does not verify, and never in the copy; so no OS repairs the slots while
  one is left.
* `RecoveryAlwaysIdle`: `Spec => []RecoveryReportsIdle` unless the user chooses slots
  from the OS (`arm`, `trynext`). `IdleInv`: a request, and the recovery boot it leads
  to, have the other slot than the last rejected one as the next.
* `FallbackAlways` and `CounterAlways`: `OsOps \subseteq {"stage"}` implies
  `Spec => []FallbackSurvives` and `Spec => []CounterWaits`. Mixed with the
  other OS operations the first is no theorem, as `stacked` shows.

The two properties are not inductive. A fault can bring the copy in RW_NVRAM
back, so the invariant `CapsuleOnlyInv` must say of both blocks what vboot will
do with them: `SafeBlock` says that whichever slot the block leads to is
either a fallback, or fails to verify, or is a trial whose other slot is one;
that a "success" in it was reported by the release in that slot; and that it
asks for no recovery. `RunInv` ties the running slot to the block and the copy
to the running slot. `CapsuleInv` is the heart: a staged capsule is lost on the
power cycle that ends a hang, so the boot that consumes one is never a trial,
and the slot that stays is one that came up.

### Updates with flashrom and vbnv.py

`FlashromFallbackAlways` and `FlashromCounterAlways` are the same two properties
for `OsOps \subseteq {"flash", "arm", "trynext"}`: any number of releases flashed
over the slot not running, armed for any number of tries or selected outright,
flashrom cut at any block. `CapsuleOnlyInv` does not hold here, since `try-next`
may ask for a slot that does not work. `FlashromOnlyInv` asks less of a block
(`VouchInv`: a "success" in it names a fallback that has reported, a
"failure" names a slot that does not verify) and more of the running slot
(`RunningInv`: it is the one the block calls tried), and rests on `ClosedInv`:
without a capsule SetImage ends at its first block.

`FlashromTrialsWait` and `CapsuleTrialsWait` are `Spec => TrialHoldsCounter`, the
promise of `arm-update` that run `inplace` refutes, under the two conditions: it
is kept if the running slot is left alone.

### Updates by capsule, further

`CapsuleRefinement_proofs` adds `TrialInv` to `CapsuleOnlyInv`: `ProgressInv`
says what the loop of SetImage has behind it (every block before `next` is the
capsule's half for the target), and `KeptInv` that a slot whose report vboot must honour is not under
trial. From the two follow, under the same condition, `ArmedAlwaysWhole`
(`ArmedSlotWhole`), `SuccessIsArmed` (`SuccessMeansArmed`) and
`ReportAlwaysSticks` (`ReportSticks`).

The module also shows `CapsulesImplement`: under the same condition
`Spec => ImplementsSafeUpdate`. `CapsuleOnlyInv` makes the set of fallback slots
nonempty in every state. Most steps are stutters. A block erased or written by
SetImage is `Replace`: the slot that runs is a fallback and keeps its release, and
the target is one only with a release that had come up before.

### The bytes of the block

`VbnvTools_proofs` rests on `VbnvToolsAssumption`: any blocks the boot may find,
any commands with any tries, any processes. The work is in the
recursion of CRC-8 over fifteen bytes. The induction theorems of the library
cannot be used with these provers, so `LeastNumber` takes the least number for which a claim
fails (`WFMin` on the order of the naturals) and the step before it gives the
contradiction. That is how `HighHalf` is shown to be defined for every block and
two registers that differ once to differ ever after.

* `OneByteIsCaught`: two blocks that differ in exactly one of the bytes the CRC
  covers have different CRCs. `EightShifts` is injective, so a difference never
  cancels.
* `TornAlwaysCaught`: `Spec => []TornCaught`, overlapping commands or not.
  `TornInv` says that the block is a mixture of the old and the intended one,
  cut at the byte the loop has reached. The two differ in the bytes
  `OffsBoot` and `OffsBoot2` and in the CRC, and whichever of them are
  missing, either the decoding is one of the two or the CRC tells.
* `EditsAlwaysFields`, `ReportAlwaysKept`, `PromiseAlwaysKept`: under `~Overlap`,
  `[]EditsAsFields`, `[]ReportKept`, `[]PromiseKept`. `SeqInv` is that one process
  at most is past its first step (`Alone`) and that what it has read is what
  is there (`CommandInv`). With `Overlap` they fail, as run `overlap` shows.
* `TypeCorrect`: `[]TypeOK`.

### Flash images

`FlashImages_proofs` rests on `FlashImagesAssumption`: any layouts whose areas
lie on the chip as `LayoutOk` says, any files, any registers taken by FSP.
`TypeCorrect` is `[]TypeOK`; `SealAlwaysHolds` is `SealedStays`. The invariant
`FprInv` is that while the machine runs the registers are `Lockdown` of some
start and of the map on the chip, which changes only while it is off. The lemmas
`ProtectNext` and `ProtectFull` say what one call does to the first free
register; `LockdownKeeps` and `LockdownSeals` what the two calls do to five.
The bound in the property, three registers taken, becomes a bound on how many
FSP took by counting (`FiniteSetTheorems`).

`OnlySettingsMoveAlways` and `HalfAlwaysLands` are `OnlySettingsMove` and
`HalfLandsWhole`. Their invariant `MapInv` is about every cell of every file:
one that a search could take for a map (it is not `Plain`) is in the place its
image's own map names and holds that map, which copying, clipping, flashing and
splicing keep because what they move lies before the map and carries none; and a
capsule is two halves of one size. So both searches find the truth or nothing
(`FirstFmapIs`, `FindFmapIs`), and nothing in the BIOS region alone
(`NoMapInBiosRegion`). `SliceIs`, `ConcatIs` and `SpliceIs` say what Python's
slices do when they are not clipped, `TransferIs` and `ApplyIs` what the two
actions leave cell by cell, `SlotsAreOpen` that no register covers a slot, and
`ResolvesOther` that `ResolveSlot` finds the slot that does not run, or none.

### The build host

`BuildFirmware_proofs` rests on `FetchAssumption` and `BuildAssumption`: any
releases, any tags cut again, any number of stopped runs. The theorems are
`TypeCorrect` (`TypeOK`), `StampsMeanWhole`, `Edk2IsRecorded`, `RefreshAlwaysRepairs`, `RomHasItsConfig`
and `LockTakesOverFetched` (`TakesOverFetched`). The invariant says what a run
has behind it at each step: `SetInv` what lock and set have to do with each
other, `StampInv` and `TreeInv` which trees are whole, `RefreshInv` what
`--refresh` has fetched again, `ImageInv` that an image with a label is of the
working tree the label names. `RomHasItsConfig` leaves out what the build has warned
of, and shows that with `--rebuild-base` there is nothing to warn of.
`LockTakesOverFetched` rests on `FollowInv`, by release and as long as no run
has `missed` its stamps: they are of the lock of the last run until `Invalidate`
has compared the two, and of this run's set after it (`BehindInv`), and each step
leaves its tree at the release of the set (`FilledInv`). `BuildTypeInv` is what `TypeOK` needs besides: an image is built
of four versions that exist only if `ls | head -1` finds a tarball, so there must
be one whenever the lbmk tree is whole (the one that filled its cache), and a
least one among any (`LeastNumber` again).

`RomIsOfItsLock` is `Spec => []RomFollowsLock`, which run `libreboot` refutes, for
locks that keep their libreboot release, upstreams that cut no tag again and
fetches that do not stop midway; working trees, `--latest`, `--refresh`,
`--rebuild-base`, images built by hand and the releases of the other three are
free. Under these conditions a release has one revision (`TagInv`) and no run has
`missed` its stamps, so `FollowInv` makes the trees what the lock names whenever
a build may start (`SourcesInv`), and an image is what its label, if it has one,
names (`FromInv`). Each condition is needed: section 4 has a
way to break the property without it.

### Fans

`FanControl_proofs` rests on `FanAssumption`: any temperatures, any option.

* `TypeCorrect`, `RegisterAlways` and `AgreementAlways`: `[]TypeOK`,
  `[]RegisterSafe`, `[]OsAgrees`. The invariant relates level, devices and `todo` in the middle of a pass: which
  devices have been switched, and that what is left will bring both together.
* `EscalationAlways`, `HysteresisAlways`: `[]EscalatesFirst` and
  `HysteresisHolds`, from the invariant and the shape of the table.

### TPM

`MeasuredBoot_proofs` rests on `MeasuredBootAssumption`: any files that fit in
coreboot's log, any coreboot table with a TPM log in it, any algorithms with
SHA-256 among them, any number of faults. All five invariants of run `tpm` are
theorems: `TypeCorrect`, `LogIsWhole` (`PcrsReconstruct`), `BanksComeRight`
(`NextLogParses`), `HierarchyShut` (`OpenThenShut`) and `HookClears`
(`ResetRomClears`). Each speaks of the end of a boot, so the invariant says
phase by phase what has been achieved: `RecordInv` where the record of the
extends is (coreboot's log, the hobs, the log of Tcg2Dxe) and that
the log has room for the files to come, `BanksInv`, `HierarchyInv` and
`ClearInv` likewise. The lemmas `FirstEntries` and `NextEntry` say what
`extend_pcrs()` and a file do to both records.

### What stays with TLC

* Liveness (`ComesUp`, `ComesToRest`, `ReachesOs`) and everything with ENABLED,
  for which the prover has no support.
* The four runs that end in a violation: a counterexample is TLC's to find.

Every invariant, every action property and the refinement that a passing run
checks is a theorem.
One theorem, `ReportAlwaysKept`, is about a property that no run checks.

No module uses RECURSIVE.

## 6. What could come next

`VbnvTools` and `SlotUpdate` meet in the fields of `Vbnv`; a module that
interleaves the byte-level writers with reboots would be the composition of both.
## 7. What is not modelled

* Cryptography: a signature is a version and a whole body, `Verifies`; a
  capsule's PKCS7 check belongs to FmpDxe and is not in the model, nor are the
  FMP header and the cab that `make-capsule.py` puts around the payload.
* Key and certificate generation: scripts run once by hand, whose only state is
  which files exist.
* Radio state (`0033` to `0035`): one bit of the EC and one option; a model would
  restate the guard of the patch.
* BIOS Lock (`0042`): an option that is copied into one bit. `FlashImages` has it
  off, the case in which the range registers matter.
* Layouts in which a slot lies behind the map, or in which areas other than
  WP_RO and FMAP overlap (`LayoutOk`), and flashrom with a file of another
  layout, which the guide rules out.
* Of the TPM: resume from S3 (whether hierarchy and measurements are set up
  again), logs in a format other than TPM 2.0's, the values of digests, the
  firmware version counter (which is in `SlotUpdate`).
* Patches that set constants or tables (`0001`, `0002`, `0030`-`0032`, `0041`,
  `0060`, HDA verbs, `config/`), `build/Dockerfile.deps` and
  `build/apply-devicetree.sh`: no state.
* Logging, option parsing, container handling, download mirrors: their outcome
  (a step succeeds, or the run stops there) is in the model.
* A tarball that the user provides (`LIBREBOOT_TARBALL`). A signature that does
  not verify is a fetch that stops at `Verify`, as any failing step is.
* The outputs of a build: `Variant` ends it, and what `--no-tpm` and the like
  change in the copy of the image is not followed.
* Smaller steps: a TPM command that fails inside the ReadyToBoot callback or in
  the setup of the reset ROM's hook, an event log whose hob cannot be built, a
  read-back of CMOS that fails after the write was right, an EC write that fails.
* The setup menu on a trial boot, which spends the trial (vboot-notes): the
  model has it as a trial that is turned off before it reports.
