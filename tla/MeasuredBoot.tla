---------------------------- MODULE MeasuredBoot ----------------------------
(***************************************************************************)
(* The TPM during a boot: what coreboot (patches/base/0046, 0047) and the    *)
(* payload (patches/edk2/0005, 0006, 0007) extend and log, which PCR banks   *)
(* are active, how long the platform hierarchy is open for the requests the  *)
(* OS has left, and the ROM that clears the TPM (patches/tpm-reset).         *)
(***************************************************************************)
EXTENDS Integers, Sequences

CONSTANTS
  Files,      \* the CBFS files a boot measures, in order
  Table,      \* the ids of the cbmem entries in the coreboot table, in order
  LogSize,    \* entries coreboot's log has room for
  Algs,       \* the hash algorithms of the TPM
  MaxFaults   \* bound: power cuts and TPM commands that fail

\* extend_pcrs() and the CRTM log four entries before the first file.
ASSUME MeasuredBootAssumption ==
  /\ Files \in Seq(STRING)
  /\ Table \in Seq(STRING)
  /\ \E i \in 1 .. Len(Table) : Table[i] = "tpm2"
  /\ LogSize \in Nat
  /\ LogSize >= 4 + Len(Files)
  /\ "sha256" \in Algs
  /\ MaxFaults \in Nat

VARIABLES
  phase,        \* how far the boot is
  pcrs,         \* what was extended since the TPM started, in order
  log,          \* coreboot's log, in CAR and then in cbmem
  ready,        \* tpm_log_available()
  next,         \* the next file to be measured
  hobs,         \* gTcgEvent2EntryHobGuid hobs
  efiLog,       \* the event log of Tcg2Dxe
  header,       \* the algorithms its SpecID header lists
  banks,        \* the active PCR banks
  pending,      \* the banks that the next startup makes active
  refused,      \* history: the TPM has refused an allocation in this boot
  phEnable,     \* the platform hierarchy is enabled
  request,      \* the physical presence request of the OS
  response,     \* what became of it
  rom,          \* "normal", or "reset" for the ROM of --tpm-reset
  sealed,       \* the OS has sealed something to the TPM
  disableClear, \* TPM2_Clear is latched off
  hook,         \* history: the commands of the reset hook, "failed" on an error
  faults        \* faults so far

logs  == <<log, ready, next, hobs, efiLog, header>>
owner == <<rom, sealed, disableClear, hook>>
vars  == <<phase, pcrs, logs, banks, pending, refused, phEnable, request,
           response, owner, faults>>

Phases == {"off", "bootblock", "coreboot", "ramstage", "payload", "dxe", "bds",
           "console", "boot", "os"}
BankSets == (SUBSET Algs) \ {{}}
Requests == [op : {"none", "clear"}, banks : {{}}]
              \cup [op : {"banks"}, banks : BankSets]
NoRequest == [op |-> "none", banks |-> {}]

\* What a log can name: what the firmware measures by itself, and the files.
Entries == {"bootblock", "boot_mode", "gbb_hwid", "fw_version", "variables",
            "separator"} \cup {Files[i] : i \in 1 .. Len(Files)}

TypeOK ==
  /\ phase \in Phases
  /\ {pcrs, log, hobs, efiLog} \subseteq Seq(Entries)
  /\ ready \in BOOLEAN
  /\ next \in 1 .. Len(Files) + 1
  /\ header \in SUBSET Algs
  /\ {banks, pending} \subseteq BankSets
  /\ {refused, phEnable, sealed, disableClear} \subseteq BOOLEAN
  /\ request \in Requests
  /\ response \in {"none", "done", "aborted", "failed"}
  /\ rom \in {"normal", "reset"}
  /\ hook \in {"idle", "clean", "failed"}
  /\ faults \in 0 .. MaxFaults

\* A TPM as another firmware has left it.
Init ==
  /\ phase = "off"
  /\ pcrs = <<>>
  /\ log = <<>>
  /\ ready = FALSE
  /\ next = 1
  /\ hobs = <<>>
  /\ efiLog = <<>>
  /\ header = {}
  /\ banks \in BankSets
  /\ pending = banks
  /\ refused = FALSE
  /\ phEnable = TRUE
  /\ request = NoRequest
  /\ response = "none"
  /\ rom \in {"normal", "reset"}
  /\ sealed \in BOOLEAN
  /\ disableClear \in BOOLEAN
  /\ hook = "idle"
  /\ faults = 0

\* Every platform reset resets the TPM, and coreboot starts it with CLEAR.
PowerOn ==
  /\ phase = "off"
  /\ phase' = "bootblock"
  /\ pcrs' = <<>>
  /\ log' = <<>>
  /\ ready' = FALSE
  /\ next' = 1
  /\ hobs' = <<>>
  /\ efiLog' = <<>>
  /\ header' = {}
  /\ banks' = pending
  /\ refused' = FALSE
  /\ phEnable' = TRUE
  /\ hook' = "idle"
  /\ UNCHANGED <<pending, request, response, rom, sealed, disableClear, faults>>

-----------------------------------------------------------------------------
(* coreboot.  t is the part of the state that a measurement changes.         *)

Measured == [pcrs |-> pcrs, log |-> log, ready |-> ready]

\* tpm_extend_pcr() (external): the PCR, then the log if it has room.
Extend(t, e) ==
  [pcrs  |-> Append(t.pcrs, e),
   log   |-> IF Len(t.log) < LogSize THEN Append(t.log, e) ELSE t.log,
   ready |-> t.ready]

\* tspi_init_crtm() (external) clears the log and measures the bootblock.
InitCrtm(t) ==
  Extend([pcrs |-> t.pcrs, log |-> <<>>, ready |-> TRUE], "bootblock")

EnsureCrtm(t) == IF t.ready THEN t ELSE InitCrtm(t)

ExtendVboot(t) ==
  Extend(Extend(Extend(t, "boot_mode"), "gbb_hwid"), "fw_version")

\* Mutant: the CRTM left to the first CBFS measurement.
ExtendPcrsLazily(t) == ExtendVboot(t)

ExtendPcrs(t) == ExtendVboot(EnsureCrtm(t))

CbfsMeasurement(t, name) == Extend(EnsureCrtm(t), name)

TakeMeasured(t) == pcrs' = t.pcrs /\ log' = t.log /\ ready' = t.ready

VerifyFirmware ==
  /\ phase = "bootblock"
  /\ TakeMeasured(ExtendPcrs(Measured))
  /\ phase' = "coreboot"
  /\ UNCHANGED <<next, hobs, efiLog, header, banks, pending, refused, phEnable,
                 request, response, owner, faults>>

\* vboot resets when extend_pcrs() returns an error.
VerifyFails ==
  /\ phase = "bootblock"
  /\ faults < MaxFaults
  /\ faults' = faults + 1
  /\ phase' = "off"
  /\ UNCHANGED <<pcrs, logs, banks, pending, refused, phEnable, request, response,
                 owner>>

\* A file whose measurement fails is used all the same.
MeasureFile ==
  /\ phase = "coreboot"
  /\ next <= Len(Files)
  /\ next' = next + 1
  /\ \/ /\ TakeMeasured(CbfsMeasurement(Measured, Files[next]))
        /\ UNCHANGED faults
     \/ /\ faults < MaxFaults
        /\ faults' = faults + 1
        /\ UNCHANGED <<pcrs, log, ready>>
  /\ UNCHANGED <<phase, hobs, efiLog, header, banks, pending, refused, phEnable,
                 request, response, owner>>

FilesMeasured ==
  /\ phase = "coreboot"
  /\ next = Len(Files) + 1
  /\ phase' = "ramstage"
  /\ UNCHANGED <<pcrs, logs, banks, pending, refused, phEnable, request, response,
                 owner, faults>>

\* Mutant: TPM2_Clear alone.
ClearControlSkipped == disableClear

\* tlcl2_clear_control(): lifts the latch with the platform's authorisation.
ClearControl == disableClear /\ ~phEnable

ForceClear(latched) ==
  IF phEnable /\ ~latched THEN sealed' = FALSE ELSE UNCHANGED sealed

\* The reset ROM's hook comes before the last files are measured, which it has
\* nothing to do with.  No step of it is fatal.
PostDevice ==
  /\ phase = "ramstage"
  /\ phase' = "payload"
  /\ \/ rom = "normal" /\ UNCHANGED <<sealed, disableClear, hook, faults>>
     \/ /\ rom = "reset"
        /\ disableClear' = ClearControl
        /\ ForceClear(disableClear')
        /\ hook' = "clean"
        /\ UNCHANGED faults
     \/ /\ rom = "reset"
        /\ faults < MaxFaults
        /\ faults' = faults + 1
        /\ hook' = "failed"
        /\ \/ ForceClear(disableClear) /\ UNCHANGED disableClear
           \/ disableClear' = ClearControl /\ UNCHANGED sealed
  /\ UNCHANGED <<pcrs, logs, banks, pending, refused, phEnable, request, response,
                 rom>>

-----------------------------------------------------------------------------
(* The payload                                                               *)

\* ParseTpmLogInfo() walks all the records.
FindTpmLog == \E i \in 1 .. Len(Table) : Table[i] = "tpm2"

\* What BuildTpmEventLogHobs() checks of the counts.
LogUsable == Len(log) <= LogSize

BuildTpmEventLogHobs ==
  /\ phase = "payload"
  /\ hobs' = IF FindTpmLog /\ LogUsable THEN log ELSE <<>>
  /\ phase' = "dxe"
  /\ UNCHANGED <<pcrs, log, ready, next, efiLog, header, banks, pending, refused,
                 phEnable, request, response, owner, faults>>

\* PcdTpm2HashMask, cut to the one hash instance that is registered.
HashMask == {"sha256"}

\* Mutant: only a bank that is missing counts as wrong.
WrongBanksMissing == ~(HashMask \subseteq banks)

WrongBanks == HashMask # {} /\ banks # HashMask

AllocateBanks ==
  IF WrongBanks
  THEN \/ pending' = HashMask /\ UNCHANGED refused
       \/ refused' = TRUE /\ UNCHANGED pending
  ELSE UNCHANGED <<pending, refused>>

MeasureInPayload(e) ==
  /\ pcrs' = Append(pcrs, e)
  /\ efiLog' = Append(efiLog, e)

\* Mutant: a reset to make the allocation take effect.
Tcg2DxeResets ==
  /\ phase = "dxe"
  /\ AllocateBanks
  /\ phase' = IF WrongBanks THEN "off" ELSE "bds"
  /\ header' = banks
  /\ efiLog' = Append(hobs, "variables")
  /\ pcrs' = Append(pcrs, "variables")
  /\ UNCHANGED <<log, ready, next, hobs, banks, phEnable, request, response,
                 owner, faults>>

\* Tcg2Dxe: the banks of the next startup, a header for those of this one, the
\* hobs, and its own measurements.
Tcg2Dxe ==
  /\ phase = "dxe"
  /\ AllocateBanks
  /\ phase' = "bds"
  /\ header' = banks
  /\ efiLog' = Append(hobs, "variables")
  /\ pcrs' = Append(pcrs, "variables")
  /\ UNCHANGED <<log, ready, next, hobs, banks, phEnable, request, response,
                 owner, faults>>

\* Mutant: the event of upstream.
HierarchyEventOfUpstream == "ready_to_lock"

\* The event Tcg2PlatformDxe has its callback on.
HierarchyEvent == "ready_to_boot"

\* PcdRandomizePlatformHierarchy is off: the callback disables the hierarchy.
Signal(event) ==
  phEnable' = (phEnable /\ event # HierarchyEvent)

\* PlatformBootManagerBeforeConsole() (external) installs DxeSmmReadyToLock.
BeforeConsole ==
  /\ phase = "bds"
  /\ Signal("ready_to_lock")
  /\ phase' = "console"
  /\ UNCHANGED <<pcrs, logs, banks, pending, refused, request, response, owner,
                 faults>>

\* Mutant: the request cut to the mask, which may leave nothing.
ExecuteMasked(r) ==
  IF r.op = "clear"
  THEN sealed' = FALSE /\ disableClear' = FALSE /\ UNCHANGED pending
  ELSE pending' = r.banks \cap HashMask /\ UNCHANGED <<sealed, disableClear>>

\* What the TPM does for a request, with the platform's authorisation.
Execute(r) ==
  IF r.op = "clear"
  THEN sealed' = FALSE /\ disableClear' = FALSE /\ UNCHANGED pending
  ELSE pending' = r.banks /\ UNCHANGED <<sealed, disableClear>>

\* PlatformBootManagerAfterConsole() (external): the user may turn a request
\* down; one that is carried out is followed by a reset.
AfterConsole ==
  /\ phase = "console"
  /\ request' = NoRequest
  /\ \/ /\ request = NoRequest
        /\ phase' = "boot"
        /\ UNCHANGED <<response, pending, sealed, disableClear>>
     \/ /\ request # NoRequest
        /\ response' = IF phEnable THEN "aborted" ELSE "failed"
        /\ phase' = "boot"
        /\ UNCHANGED <<pending, sealed, disableClear>>
     \/ /\ request # NoRequest
        /\ phEnable
        /\ response' = "done"
        /\ phase' = "off"
        /\ Execute(request)
  /\ UNCHANGED <<pcrs, logs, banks, refused, phEnable, rom, hook, faults>>

\* Tcg2Dxe measures the separators, and the OS takes over.
ReadyToBoot ==
  /\ phase = "boot"
  /\ Signal("ready_to_boot")
  /\ MeasureInPayload("separator")
  /\ phase' = "os"
  /\ UNCHANGED <<log, ready, next, hobs, header, banks, pending, refused,
                 request, response, owner, faults>>

-----------------------------------------------------------------------------
(* The OS and its user                                                       *)

\* Linux reads the log that the ACPI table names in preference to the EFI one.
AcpiNamesLog == FALSE

OsLog == IF AcpiNamesLog THEN log ELSE efiLog

Submit(r) ==
  /\ phase = "os"
  /\ request' = r
  /\ UNCHANGED <<phase, pcrs, logs, banks, pending, refused, phEnable, response,
                 owner, faults>>

UseTpm(latch) ==
  /\ phase = "os"
  /\ sealed' = TRUE
  /\ disableClear' = latch
  /\ UNCHANGED <<phase, pcrs, logs, banks, pending, refused, phEnable, request,
                 response, rom, hook, faults>>

FlashRom(kind) ==
  /\ phase = "os"
  /\ rom' = kind
  /\ UNCHANGED <<phase, pcrs, logs, banks, pending, refused, phEnable, request,
                 response, sealed, disableClear, hook, faults>>

Reset(cut) ==
  /\ faults' = faults + cut
  /\ phase' = "off"
  /\ UNCHANGED <<pcrs, logs, banks, pending, refused, phEnable, request,
                 response, owner>>

Reboot == phase = "os" /\ Reset(0)

PowerCut == phase \notin {"off", "os"} /\ faults < MaxFaults /\ Reset(1)

-----------------------------------------------------------------------------

Firmware ==
  \/ PowerOn
  \/ VerifyFirmware
  \/ MeasureFile
  \/ FilesMeasured
  \/ PostDevice
  \/ BuildTpmEventLogHobs
  \/ Tcg2Dxe
  \/ BeforeConsole
  \/ AfterConsole
  \/ ReadyToBoot

Os ==
  \/ \E r \in Requests : Submit(r)
  \/ \E latch \in BOOLEAN : UseTpm(latch)
  \/ \E kind \in {"normal", "reset"} : FlashRom(kind)
  \/ Reboot

Next == Firmware \/ Os \/ VerifyFails \/ PowerCut

Spec == Init /\ [][Next]_vars

\* The firmware goes on while the machine has power.
FairSpec == Spec /\ WF_vars(Firmware)

-----------------------------------------------------------------------------
(* Properties                                                                *)

\* The log the OS reads names every extend since the TPM was started, in order,
\* so that the PCRs reconstruct, also after measurements that failed
\* (config/defconfig: "the one log the kernel reads carries the whole chain").
PcrsReconstruct == phase = "os" => OsLog = pcrs

\* A log whose header lists a bank without digests is followed by one that
\* parses, unless the TPM has refused the banks (0006: "this boot runs on the
\* old banks and the next comes up clean").
NextLogParses ==
  phase = "os" => \/ header = HashMask
                  \/ pending = HashMask
                  \/ refused

\* The platform hierarchy is open for every request of the OS that the user
\* confirms, and shut before the OS runs (0007: "Ready-to-boot is the last point
\* before control transfer").
OpenThenShut == response # "failed" /\ (phase = "os" => ~phEnable)

\* One boot of the reset ROM clears the TPM, whatever the OS or another firmware
\* had latched, if no command fails (tpm-reset: "recovers a TPM wedged").
ResetRomClears == (phase = "payload" /\ hook = "clean") => ~sealed

\* Banks that a TPM never accepts, and requests of the OS, do not keep the
\* machine from booting (0006: "boot must not turn into a reset loop").
ReachesOs == []<>(phase = "os")
=============================================================================
