------------------------ MODULE MeasuredBoot_proofs ------------------------
(***************************************************************************)
(* Proofs about MeasuredBoot, for any files, tables, banks and number of    *)
(* faults: its type, the one log that reconstructs the PCRs, the banks of   *)
(* the next boot, the platform hierarchy and the ROM that clears the TPM.   *)
(***************************************************************************)
EXTENDS MeasuredBoot, SequenceTheorems, TLAPS

USE DEF logs, owner

\* A log has room for what the files not yet measured will add.
LEMMA LogHasRoom ==
  /\ LogSize \in Nat
  /\ Len(Files) \in Nat
  /\ \A n \in 1 .. Len(Files) + 1 : 3 + n <= LogSize
<1>1. Len(Files) \in Nat
  BY MeasuredBootAssumption
<1>2. QED
  BY <1>1, MeasuredBootAssumption

LEMMA MaskIsABankSet == HashMask \in BankSets /\ HashMask # {}
<1>1. "sha256" \in Algs
  BY MeasuredBootAssumption
<1>2. QED
  BY <1>1 DEF HashMask, BankSets

LEMMA RequestBanks ==
  ASSUME NEW r \in Requests, r # NoRequest, r.op # "clear"
  PROVE  r.banks \in BankSets
  BY DEF Requests, NoRequest

LEMMA NoRequestIsARequest == NoRequest \in Requests
  BY DEF Requests, NoRequest

-----------------------------------------------------------------------------
(* What the steps of coreboot do to the log                                  *)

\* What a measurement changes, with a log that is started and names every extend.
InStep(s) == [pcrs |-> s, log |-> s, ready |-> TRUE]

\* An extend while there is room keeps the log and the PCRs in step.
LEMMA ExtendInStep ==
  ASSUME NEW s \in Seq(Entries), NEW e \in Entries, Len(s) < LogSize
  PROVE  /\ Extend(InStep(s), e) = InStep(Append(s, e))
         /\ Append(s, e) \in Seq(Entries)
         /\ Len(Append(s, e)) = Len(s) + 1
  BY AppendProperties DEF Extend, InStep

\* extend_pcrs() starts the log and leaves four entries in it.
LEMMA FirstEntries ==
  ASSUME pcrs = <<>>, log = <<>>, ready = FALSE
  PROVE  \E s \in Seq(Entries) :
           Len(s) = 4 /\ ExtendPcrs(Measured) = InStep(s)
<1> DEFINE s0 == <<>>
           s1 == Append(s0, "bootblock")
           s2 == Append(s1, "boot_mode")
           s3 == Append(s2, "gbb_hwid")
           s4 == Append(s3, "fw_version")
<1>1. LogSize \in Nat /\ 4 <= LogSize
  BY LogHasRoom
<1>2. /\ "bootblock" \in Entries
      /\ "boot_mode" \in Entries
      /\ "gbb_hwid" \in Entries
      /\ "fw_version" \in Entries
  BY DEF Entries
<1>3. EnsureCrtm(Measured) = Extend(InStep(s0), "bootblock")
  BY DEF EnsureCrtm, InitCrtm, Measured, InStep
<1>4. s0 \in Seq(Entries) /\ Len(s0) = 0 /\ Len(s0) < LogSize
  BY <1>1, EmptySeq
<1> HIDE DEF s0
<1>5. /\ Extend(InStep(s0), "bootblock") = InStep(s1)
      /\ s1 \in Seq(Entries)
      /\ Len(s1) = 1 /\ Len(s1) < LogSize
  <2>1. Extend(InStep(s0), "bootblock") = InStep(s1)
    BY <1>2, <1>4, ExtendInStep
  <2>2. s1 \in Seq(Entries)
    BY <1>2, <1>4, ExtendInStep
  <2>3. Len(s1) = Len(s0) + 1
    BY <1>2, <1>4, ExtendInStep
  <2>4. QED
    BY <1>1, <1>4, <2>1, <2>2, <2>3
<1> HIDE DEF s1
<1>6. /\ Extend(InStep(s1), "boot_mode") = InStep(s2)
      /\ s2 \in Seq(Entries)
      /\ Len(s2) = 2 /\ Len(s2) < LogSize
  <2>1. Extend(InStep(s1), "boot_mode") = InStep(s2)
    BY <1>2, <1>5, ExtendInStep
  <2>2. s2 \in Seq(Entries)
    BY <1>2, <1>5, ExtendInStep
  <2>3. Len(s2) = Len(s1) + 1
    BY <1>2, <1>5, ExtendInStep
  <2>4. QED
    BY <1>1, <1>5, <2>1, <2>2, <2>3
<1> HIDE DEF s2
<1>7. /\ Extend(InStep(s2), "gbb_hwid") = InStep(s3)
      /\ s3 \in Seq(Entries)
      /\ Len(s3) = 3 /\ Len(s3) < LogSize
  <2>1. Extend(InStep(s2), "gbb_hwid") = InStep(s3)
    BY <1>2, <1>6, ExtendInStep
  <2>2. s3 \in Seq(Entries)
    BY <1>2, <1>6, ExtendInStep
  <2>3. Len(s3) = Len(s2) + 1
    BY <1>2, <1>6, ExtendInStep
  <2>4. QED
    BY <1>1, <1>6, <2>1, <2>2, <2>3
<1> HIDE DEF s3
<1>8. /\ Extend(InStep(s3), "fw_version") = InStep(s4)
      /\ s4 \in Seq(Entries)
      /\ Len(s4) = 4
  <2>1. Extend(InStep(s3), "fw_version") = InStep(s4)
    BY <1>2, <1>7, ExtendInStep
  <2>2. s4 \in Seq(Entries)
    BY <1>2, <1>7, ExtendInStep
  <2>3. Len(s4) = Len(s3) + 1
    BY <1>2, <1>7, ExtendInStep
  <2>4. QED
    BY <1>1, <1>7, <2>1, <2>2, <2>3
<1> HIDE DEF s4
<1>9. ExtendPcrs(Measured) = InStep(s4)
  BY <1>3, <1>5, <1>6, <1>7, <1>8 DEF ExtendPcrs, ExtendVboot
<1>10. QED
  BY <1>8, <1>9

\* A file measured once the log is started adds one entry.
LEMMA NextEntry ==
  ASSUME pcrs \in Seq(Entries), log = pcrs, ready = TRUE, Len(log) < LogSize,
         NEW name \in Entries
  PROVE  CbfsMeasurement(Measured, name) = InStep(Append(pcrs, name))
<1>1. EnsureCrtm(Measured) = InStep(pcrs)
  BY DEF EnsureCrtm, Measured, InStep
<1>2. QED
  BY <1>1, ExtendInStep DEF CbfsMeasurement

-----------------------------------------------------------------------------
(* The inductive invariant                                                   *)

Payload == {"bds", "console", "boot", "os"}

\* Where the record of the extends is, phase by phase, and that it has room.
RecordInv ==
  /\ phase = "bootblock" => pcrs = <<>> /\ log = <<>> /\ ready = FALSE /\ next = 1
  /\ phase = "coreboot" => ready = TRUE
  /\ phase \in {"coreboot", "ramstage", "payload"} =>
       log = pcrs /\ Len(log) <= 3 + next
  /\ phase = "dxe" => hobs = pcrs
  /\ phase \in Payload => efiLog = pcrs

BanksInv ==
  phase \in Payload => header = HashMask \/ pending = HashMask \/ refused

HierarchyInv ==
  /\ phase \notin {"off", "os"} => phEnable
  /\ phase = "os" => ~phEnable
  /\ response # "failed"

ClearInv ==
  /\ phase \in {"bootblock", "coreboot", "ramstage"} => hook = "idle"
  /\ phase = "payload" /\ hook = "clean" => ~sealed

IInv == TypeOK /\ RecordInv /\ BanksInv /\ HierarchyInv /\ ClearInv

LEMMA InitInv == Init => IInv
<1> SUFFICES ASSUME Init PROVE IInv
  OBVIOUS
<1>1. <<>> \in Seq(Entries)
  BY EmptySeq
<1>2. 1 \in 1 .. Len(Files) + 1 /\ 0 \in 0 .. MaxFaults
  BY LogHasRoom, MeasuredBootAssumption
<1>3. TypeOK
  BY <1>1, <1>2, NoRequestIsARequest DEF Init, TypeOK, Phases
<1>4. QED
  BY <1>3 DEF Init, IInv, RecordInv, BanksInv, HierarchyInv, ClearInv, Payload

\* One fault more is still within the bound.
LEMMA FaultCounted ==
  ASSUME faults \in 0 .. MaxFaults, faults < MaxFaults
  PROVE  faults + 1 \in 0 .. MaxFaults
  BY MeasuredBootAssumption

-----------------------------------------------------------------------------
(* Every step preserves it                                                   *)

\* Only the event of ready-to-boot disables the hierarchy.
LEMMA HierarchyKept ==
  ASSUME IInv, [Next]_vars
  PROVE  HierarchyInv'
<1>1. CASE PowerOn
  BY <1>1 DEF PowerOn, IInv, HierarchyInv
<1>2. CASE VerifyFirmware
  BY <1>2 DEF VerifyFirmware, TakeMeasured, IInv, HierarchyInv
<1>3. CASE MeasureFile
  BY <1>3 DEF MeasureFile, TakeMeasured, IInv, HierarchyInv
<1>4. CASE FilesMeasured
  BY <1>4 DEF FilesMeasured, IInv, HierarchyInv
<1>5. CASE PostDevice
  BY <1>5 DEF PostDevice, IInv, HierarchyInv
<1>6. CASE BuildTpmEventLogHobs
  BY <1>6 DEF BuildTpmEventLogHobs, IInv, HierarchyInv
<1>7. CASE Tcg2Dxe
  BY <1>7 DEF Tcg2Dxe, IInv, HierarchyInv
<1>8. CASE BeforeConsole
  BY <1>8 DEF BeforeConsole, Signal, HierarchyEvent, IInv, HierarchyInv
<1>9. CASE AfterConsole
  BY <1>9 DEF AfterConsole, IInv, HierarchyInv
<1>10. CASE ReadyToBoot
  BY <1>10 DEF ReadyToBoot, Signal, HierarchyEvent, IInv, HierarchyInv
<1>11. CASE Os
  BY <1>11 DEF Os, Submit, UseTpm, FlashRom, Reboot, Reset, IInv, HierarchyInv
<1>12. CASE VerifyFails
  BY <1>12 DEF VerifyFails, IInv, HierarchyInv
<1>13. CASE PowerCut
  BY <1>13 DEF PowerCut, Reset, IInv, HierarchyInv
<1>14. CASE UNCHANGED vars
  BY <1>14 DEF IInv, vars, HierarchyInv
<1>15. QED
  BY <1>1, <1>2, <1>3, <1>4, <1>5, <1>6, <1>7, <1>8,
     <1>9, <1>10, <1>11, <1>12, <1>13, <1>14
     DEF Next, Firmware

\* Nothing but a request, which ends in a reset, takes the allocation back.
LEMMA BanksKept ==
  ASSUME IInv, [Next]_vars
  PROVE  BanksInv'
<1>1. CASE PowerOn
  BY <1>1 DEF PowerOn, IInv, BanksInv, Payload
<1>2. CASE VerifyFirmware
  BY <1>2 DEF VerifyFirmware, TakeMeasured, IInv, BanksInv, Payload
<1>3. CASE MeasureFile
  BY <1>3 DEF MeasureFile, TakeMeasured, IInv, BanksInv, Payload
<1>4. CASE FilesMeasured
  BY <1>4 DEF FilesMeasured, IInv, BanksInv, Payload
<1>5. CASE PostDevice
  BY <1>5 DEF PostDevice, IInv, BanksInv, Payload
<1>6. CASE BuildTpmEventLogHobs
  BY <1>6 DEF BuildTpmEventLogHobs, IInv, BanksInv, Payload
<1>7. CASE Tcg2Dxe
  <2>1. header' = banks
    BY <1>7 DEF Tcg2Dxe
  <2>2. banks = HashMask \/ pending' = HashMask \/ refused' = TRUE
    BY <1>7, MaskIsABankSet DEF Tcg2Dxe, AllocateBanks, WrongBanks
  <2>3. QED
    BY <2>1, <2>2 DEF BanksInv
<1>8. CASE BeforeConsole
  BY <1>8 DEF BeforeConsole, Signal, IInv, BanksInv, Payload
<1>9. CASE AfterConsole
  BY <1>9 DEF AfterConsole, IInv, BanksInv, Payload
<1>10. CASE ReadyToBoot
  BY <1>10 DEF ReadyToBoot, Signal, HierarchyEvent, IInv, BanksInv, Payload
<1>11. CASE Os
  BY <1>11 DEF Os, Submit, UseTpm, FlashRom, Reboot, Reset, IInv, BanksInv, Payload
<1>12. CASE VerifyFails
  BY <1>12 DEF VerifyFails, IInv, BanksInv, Payload
<1>13. CASE PowerCut
  BY <1>13 DEF PowerCut, Reset, IInv, BanksInv, Payload
<1>14. CASE UNCHANGED vars
  BY <1>14 DEF IInv, vars, BanksInv, Payload
<1>15. QED
  BY <1>1, <1>2, <1>3, <1>4, <1>5, <1>6, <1>7, <1>8,
     <1>9, <1>10, <1>11, <1>12, <1>13, <1>14
     DEF Next, Firmware

\* The hook finds the hierarchy enabled, so the latch gives way.
LEMMA ClearKept ==
  ASSUME IInv, [Next]_vars
  PROVE  ClearInv'
<1>1. CASE PowerOn
  BY <1>1 DEF PowerOn, IInv, ClearInv
<1>2. CASE VerifyFirmware
  BY <1>2 DEF VerifyFirmware, TakeMeasured, IInv, ClearInv
<1>3. CASE MeasureFile
  BY <1>3 DEF MeasureFile, TakeMeasured, IInv, ClearInv
<1>4. CASE FilesMeasured
  BY <1>4 DEF FilesMeasured, IInv, ClearInv
<1>5. CASE PostDevice
  BY <1>5 DEF PostDevice, ClearControl, ForceClear, IInv, ClearInv, HierarchyInv
<1>6. CASE BuildTpmEventLogHobs
  BY <1>6 DEF BuildTpmEventLogHobs, IInv, ClearInv
<1>7. CASE Tcg2Dxe
  BY <1>7 DEF Tcg2Dxe, IInv, ClearInv
<1>8. CASE BeforeConsole
  BY <1>8 DEF BeforeConsole, Signal, IInv, ClearInv
<1>9. CASE AfterConsole
  BY <1>9 DEF AfterConsole, IInv, ClearInv
<1>10. CASE ReadyToBoot
  BY <1>10 DEF ReadyToBoot, Signal, HierarchyEvent, IInv, ClearInv
<1>11. CASE Os
  BY <1>11 DEF Os, Submit, UseTpm, FlashRom, Reboot, Reset, IInv, ClearInv
<1>12. CASE VerifyFails
  BY <1>12 DEF VerifyFails, IInv, ClearInv
<1>13. CASE PowerCut
  BY <1>13 DEF PowerCut, Reset, IInv, ClearInv
<1>14. CASE UNCHANGED vars
  BY <1>14 DEF IInv, vars, ClearInv
<1>15. QED
  BY <1>1, <1>2, <1>3, <1>4, <1>5, <1>6, <1>7, <1>8,
     <1>9, <1>10, <1>11, <1>12, <1>13, <1>14
     DEF Next, Firmware

\* Each step that measures adds to both records, and no log is full.
LEMMA RecordKept ==
  ASSUME IInv, [Next]_vars
  PROVE  RecordInv'
<1> USE DEF RecordInv, Payload
<1>1. CASE PowerOn
  BY <1>1 DEF PowerOn
<1>2. CASE VerifyFirmware
  <2>1. pcrs = <<>> /\ log = <<>> /\ ready = FALSE /\ next = 1
    BY <1>2 DEF VerifyFirmware, IInv
  <2>2. PICK s \in Seq(Entries) :
          Len(s) = 4 /\ ExtendPcrs(Measured) = InStep(s)
    BY <2>1, FirstEntries
  <2>3. pcrs' = s /\ log' = s /\ ready' = TRUE
    BY <1>2, <2>2 DEF VerifyFirmware, TakeMeasured, InStep
  <2>4. Len(log') = 4 /\ next' = 1
    BY <1>2, <2>1, <2>2, <2>3 DEF VerifyFirmware
  <2>5. QED
    BY <1>2, <2>3, <2>4 DEF VerifyFirmware
<1>3. CASE MeasureFile
  <2>1. /\ phase = "coreboot" /\ phase' = "coreboot"
        /\ next \in 1 .. Len(Files) /\ next' = next + 1
        /\ pcrs \in Seq(Entries) /\ log = pcrs /\ ready = TRUE
        /\ Len(log) <= 3 + next
    BY <1>3, LogHasRoom DEF MeasureFile, IInv, TypeOK
  <2>2. next \in Int /\ Len(log) \in Nat
    BY <2>1, LenProperties
  <2>3. CASE TakeMeasured(CbfsMeasurement(Measured, Files[next]))
    <3>1. Files[next] \in Entries
      BY <2>1 DEF Entries
    <3>2. 3 + next < LogSize
      <4>1. 3 + (next + 1) <= LogSize
        BY <2>1, LogHasRoom
      <4>2. QED
        BY <2>2, <4>1, LogHasRoom
    <3>3. Len(log) < LogSize
      BY <2>1, <2>2, <3>2, LogHasRoom
    <3>4. CbfsMeasurement(Measured, Files[next]) =
            InStep(Append(pcrs, Files[next]))
      BY <2>1, <3>1, <3>3, NextEntry
    <3>5. /\ pcrs' = Append(pcrs, Files[next])
          /\ log' = pcrs'
          /\ ready' = TRUE
      BY <2>3, <3>4 DEF TakeMeasured, InStep
    <3>6. Len(log') = Len(log) + 1
      BY <2>1, <3>1, <3>5, AppendProperties
    <3>7. Len(log') <= 3 + next'
      BY <2>1, <2>2, <3>6
    <3>8. QED
      BY <2>1, <3>5, <3>7
  <2>4. CASE UNCHANGED <<pcrs, log, ready>>
    <3>1. Len(log') <= 3 + next'
      BY <2>1, <2>2, <2>4
    <3>2. QED
      BY <2>1, <2>4, <3>1
  <2>5. QED
    BY <1>3, <2>3, <2>4 DEF MeasureFile
<1>4. CASE FilesMeasured
  BY <1>4 DEF FilesMeasured, IInv
<1>5. CASE PostDevice
  BY <1>5 DEF PostDevice, IInv
<1>6. CASE BuildTpmEventLogHobs
  <2>1. phase = "payload" /\ log = pcrs /\ Len(log) <= 3 + next
    BY <1>6 DEF BuildTpmEventLogHobs, IInv
  <2>2. next \in 1 .. Len(Files) + 1 /\ Len(log) \in Nat
    BY LenProperties DEF IInv, TypeOK
  <2>3. LogUsable
    BY <2>1, <2>2, LogHasRoom DEF LogUsable
  <2>4. FindTpmLog
    BY MeasuredBootAssumption DEF FindTpmLog
  <2>5. QED
    BY <1>6, <2>1, <2>3, <2>4 DEF BuildTpmEventLogHobs
<1>7. CASE Tcg2Dxe
  BY <1>7 DEF Tcg2Dxe, IInv
<1>8. CASE BeforeConsole
  BY <1>8 DEF BeforeConsole, IInv
<1>9. CASE AfterConsole
  BY <1>9 DEF AfterConsole, IInv
<1>10. CASE ReadyToBoot
  BY <1>10 DEF ReadyToBoot, MeasureInPayload, IInv
<1>11. CASE Os
  BY <1>11 DEF Os, Submit, UseTpm, FlashRom, Reboot, Reset, IInv
<1>12. CASE VerifyFails
  BY <1>12 DEF VerifyFails
<1>13. CASE PowerCut
  BY <1>13 DEF PowerCut, Reset
<1>14. CASE UNCHANGED vars
  BY <1>14 DEF vars, IInv
<1>15. QED
  BY <1>1, <1>2, <1>3, <1>4, <1>5, <1>6, <1>7, <1>8,
     <1>9, <1>10, <1>11, <1>12, <1>13, <1>14
     DEF Next, Firmware

\* Every step keeps the types.
LEMMA TypeKept ==
  ASSUME IInv, [Next]_vars
  PROVE  TypeOK'
<1> USE DEF TypeOK, Phases
<1>0. TypeOK
  BY DEF IInv
<1>1. CASE PowerOn
  <2>1. <<>> \in Seq(Entries) /\ 1 \in 1 .. Len(Files) + 1
    BY EmptySeq, LogHasRoom
  <2>2. QED
    BY <1>0, <1>1, <2>1 DEF PowerOn
<1>2. CASE VerifyFirmware
  <2>1. PICK s \in Seq(Entries) : ExtendPcrs(Measured) = InStep(s)
    BY <1>2, FirstEntries DEF VerifyFirmware, IInv, RecordInv
  <2>2. pcrs' \in Seq(Entries) /\ log' \in Seq(Entries) /\ ready' \in BOOLEAN
    BY <1>2, <2>1 DEF VerifyFirmware, TakeMeasured, InStep
  <2>3. QED
    BY <1>0, <1>2, <2>2 DEF VerifyFirmware
<1>3. CASE MeasureFile
  <2>1. /\ next \in 1 .. Len(Files) /\ next' = next + 1
        /\ pcrs \in Seq(Entries) /\ log = pcrs /\ ready = TRUE
        /\ Len(log) <= 3 + next
    BY <1>3, LogHasRoom DEF MeasureFile, IInv, RecordInv
  <2>2. next' \in 1 .. Len(Files) + 1
    BY <2>1, LogHasRoom
  <2>3. CASE TakeMeasured(CbfsMeasurement(Measured, Files[next])) /\ UNCHANGED faults
    <3>1. Files[next] \in Entries
      BY <2>1 DEF Entries
    <3>2. Len(log) < LogSize
      <4>1. 3 + (next + 1) <= LogSize
        BY <2>1, LogHasRoom
      <4>2. next \in Int /\ Len(log) \in Nat
        BY <2>1, LenProperties
      <4>3. QED
        BY <2>1, <4>1, <4>2, LogHasRoom
    <3>3. CbfsMeasurement(Measured, Files[next]) =
            InStep(Append(pcrs, Files[next]))
      BY <2>1, <3>1, <3>2, NextEntry
    <3>4. Append(pcrs, Files[next]) \in Seq(Entries)
      BY <2>1, <3>1, AppendProperties
    <3>5. pcrs' \in Seq(Entries) /\ log' \in Seq(Entries) /\ ready' = TRUE
      BY <2>3, <3>3, <3>4 DEF TakeMeasured, InStep
    <3>6. QED
      BY <1>0, <1>3, <2>2, <2>3, <3>5 DEF MeasureFile
  <2>4. CASE /\ faults < MaxFaults
             /\ faults' = faults + 1
             /\ UNCHANGED <<pcrs, log, ready>>
    BY <1>0, <1>3, <2>2, <2>4, FaultCounted DEF MeasureFile
  <2>5. QED
    BY <1>3, <2>3, <2>4 DEF MeasureFile
<1>4. CASE FilesMeasured
  BY <1>0, <1>4 DEF FilesMeasured
<1>5. CASE PostDevice
  BY <1>0, <1>5, FaultCounted DEF PostDevice, ClearControl, ForceClear
<1>6. CASE BuildTpmEventLogHobs
  BY <1>0, <1>6, EmptySeq DEF BuildTpmEventLogHobs
<1>7. CASE Tcg2Dxe
  <2>1. Append(hobs, "variables") \in Seq(Entries)
    <3>1. "variables" \in Entries
      BY DEF Entries
    <3>2. QED
      BY <1>0, <3>1, AppendProperties
  <2>2. Append(pcrs, "variables") \in Seq(Entries)
    <3>1. "variables" \in Entries
      BY DEF Entries
    <3>2. QED
      BY <1>0, <3>1, AppendProperties
  <2>3. header' \in SUBSET Algs
    BY <1>0, <1>7 DEF Tcg2Dxe, BankSets
  <2>4. pending' \in BankSets /\ refused' \in BOOLEAN
    BY <1>0, <1>7, MaskIsABankSet DEF Tcg2Dxe, AllocateBanks
  <2>5. QED
    BY <1>0, <1>7, <2>1, <2>2, <2>3, <2>4 DEF Tcg2Dxe
<1>8. CASE BeforeConsole
  BY <1>0, <1>8 DEF BeforeConsole, Signal
<1>9. CASE AfterConsole
  <2>1. request' \in Requests
    BY <1>9, NoRequestIsARequest DEF AfterConsole
  <2>2. /\ pending' \in BankSets
        /\ sealed' \in BOOLEAN
        /\ disableClear' \in BOOLEAN
    BY <1>0, <1>9, RequestBanks DEF AfterConsole, Execute
  <2>3. QED
    BY <1>0, <1>9, <2>1, <2>2 DEF AfterConsole
<1>10. CASE ReadyToBoot
  <2>1. "separator" \in Entries
    BY DEF Entries
  <2>2. Append(pcrs, "separator") \in Seq(Entries)
    BY <1>0, <2>1, AppendProperties
  <2>3. Append(efiLog, "separator") \in Seq(Entries)
    BY <1>0, <2>1, AppendProperties
  <2>4. QED
    BY <1>0, <1>10, <2>2, <2>3 DEF ReadyToBoot, MeasureInPayload, Signal
<1>11. CASE Os
  <2>1. CASE \E r \in Requests : Submit(r)
    BY <1>0, <2>1 DEF Submit
  <2>2. CASE \E latch \in BOOLEAN : UseTpm(latch)
    BY <1>0, <2>2 DEF UseTpm
  <2>3. CASE \E kind \in {"normal", "reset"} : FlashRom(kind)
    BY <1>0, <2>3 DEF FlashRom
  <2>4. CASE Reboot
    <3>1. faults' \in 0 .. MaxFaults
      BY <1>0, <2>4 DEF Reboot, Reset
    <3>2. QED
      BY <1>0, <2>4, <3>1 DEF Reboot, Reset
  <2>5. QED
    BY <1>11, <2>1, <2>2, <2>3, <2>4 DEF Os
<1>12. CASE VerifyFails
  BY <1>0, <1>12, FaultCounted DEF VerifyFails
<1>13. CASE PowerCut
  BY <1>0, <1>13, FaultCounted DEF PowerCut, Reset
<1>14. CASE UNCHANGED vars
  BY <1>0, <1>14 DEF vars
<1>15. QED
  BY <1>1, <1>2, <1>3, <1>4, <1>5, <1>6, <1>7, <1>8,
     <1>9, <1>10, <1>11, <1>12, <1>13, <1>14
     DEF Next, Firmware

-----------------------------------------------------------------------------
(* The theorems                                                              *)

LEMMA Invariance == Spec => []IInv
<1>1. IInv /\ [Next]_vars => IInv'
  BY TypeKept, RecordKept, BanksKept, HierarchyKept, ClearKept DEF IInv
<1>2. QED
  BY InitInv, <1>1, PTL DEF Spec

\* The variables of the TPM's boot keep their types.
THEOREM TypeCorrect == Spec => []TypeOK
<1>1. IInv => TypeOK
  BY DEF IInv
<1>2. QED
  BY Invariance, <1>1, PTL

\* Whatever fails before, the one log that the OS reads names every extend of
\* this boot, in order, for any files that fit in coreboot's log (0005, 0046,
\* 0047).
THEOREM LogIsWhole == Spec => []PcrsReconstruct
<1>1. IInv => PcrsReconstruct
  BY DEF IInv, RecordInv, Payload, PcrsReconstruct, OsLog, AcpiNamesLog
<1>2. QED
  BY Invariance, <1>1, PTL

\* The next boot comes up on the banks of the mask, unless the TPM has refused
\* or this one did already (0006).
THEOREM BanksComeRight == Spec => []NextLogParses
<1>1. IInv => NextLogParses
  BY DEF IInv, BanksInv, Payload, NextLogParses
<1>2. QED
  BY Invariance, <1>1, PTL

\* No request that the user confirms finds the platform hierarchy disabled, and
\* no OS finds it enabled (0007).
THEOREM HierarchyShut == Spec => []OpenThenShut
<1>1. IInv => OpenThenShut
  BY DEF IInv, HierarchyInv, OpenThenShut
<1>2. QED
  BY Invariance, <1>1, PTL

\* The reset ROM's hook, if none of its commands fails, leaves nothing sealed,
\* latched or not (tpm-reset).
THEOREM HookClears == Spec => []ResetRomClears
<1>1. IInv => ResetRomClears
  BY DEF IInv, ClearInv, ResetRomClears
<1>2. QED
  BY Invariance, <1>1, PTL
=============================================================================
