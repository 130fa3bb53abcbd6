------------------------------ MODULE VbnvTools ------------------------------
(***************************************************************************)
(* Everyone who edits the VBNV block between two slot choices of vboot:     *)
(* ArmTrialBoot() before the OS, one CMOS byte at a time, and in the OS the *)
(* commands of scripts/vbnv.py, each a process of its own that reads the    *)
(* block from /dev/nvram, edits its copy, writes it back and reads again.   *)
(***************************************************************************)
EXTENDS VbnvBytes

CONSTANTS
  Procs,      \* runs of vbnv.py in this boot; the boot-ok service is one
  Commands,   \* the commands they may be
  BootBlocks, \* blocks the firmware may have left in CMOS
  Overlap     \* whether two commands may run at the same time

ASSUME VbnvToolsAssumption ==
  /\ Commands # {}
  /\ \A c \in Commands : /\ c.op \in {"boot-ok", "arm-update", "try-next",
                                      "fix-checksum"}
                         /\ c.slot \in Slots
                         /\ c.tries \in 1 .. MaxTries
  /\ BootBlocks \subseteq Bytes
  /\ Overlap \in BOOLEAN

VARIABLES
  cmos,    \* the sixteen bytes
  sum,     \* the legacy PC CMOS checksum is right
  phase,   \* "payload", "arming", "armed", "os" or "reset"
  target,  \* the slot ArmTrialBoot() arms
  intent,  \* the bytes it writes
  index,   \* the next of them
  first,   \* history: the bytes before ArmTrialBoot()
  pc,      \* pc[p]: what process p does next
  cmd,     \* cmd[p]: its command
  buf,     \* buf[p]: its copy of the block
  said,    \* said[p]: its last message
  marked,  \* history: a boot-ok has said that the boot is marked
  promise  \* history: what the last arm-update has said

vars == <<cmos, sum, phase, target, intent, index, first, pc, cmd, buf, said,
          marked, promise>>

fwVars == <<phase, target, intent, index, first>>

Messages == {"none", "ok", "already", "refused", "io_error", "not_stuck"}

\* What stands for "no promise": nothing said of the next boot yet.
NoPromise == [slot |-> "A", tries |-> 0]

TypeOK ==
  /\ cmos \in Bytes
  /\ sum \in BOOLEAN
  /\ phase \in {"payload", "arming", "armed", "os", "reset"}
  /\ target \in Slots
  /\ intent \in Bytes
  /\ index \in 0 .. 16
  /\ first \in Bytes
  /\ pc \in [Procs -> {"idle", "read", "write", "verify", "done"}]
  /\ cmd \in [Procs -> Commands]
  /\ buf \in [Procs -> Bytes]
  /\ said \in [Procs -> Messages]
  /\ marked \in BOOLEAN
  /\ promise \in [slot : Slots, tries : 0 .. MaxTries]

Init ==
  /\ cmos \in BootBlocks
  /\ sum \in BOOLEAN
  /\ phase = "payload"
  /\ target = "A"
  /\ intent = cmos
  /\ index = 0
  /\ first = cmos
  /\ pc = [p \in Procs |-> "idle"]
  /\ cmd = [p \in Procs |-> CHOOSE c \in Commands : TRUE]
  /\ buf = [p \in Procs |-> cmos]
  /\ said = [p \in Procs |-> "none"]
  /\ marked = FALSE
  /\ promise = NoPromise

-----------------------------------------------------------------------------
(* ArmTrialBoot()                                                            *)

FwRead(s) ==
  /\ phase = "payload"
  /\ BlockOk(cmos)
  /\ target' = s
  /\ intent' = ArmTrialBootBytes(cmos, s)
  /\ phase' = "arming"
  /\ UNCHANGED <<cmos, sum, index, first, pc, cmd, buf, said, marked,
                 promise>>

FwWriteByte ==
  /\ phase = "arming"
  /\ index < 16
  /\ cmos' = [cmos EXCEPT ![index] = intent[index]]
  /\ index' = index + 1
  /\ UNCHANGED <<sum, phase, target, intent, first, pc, cmd, buf, said,
                 marked, promise>>

FwVerify ==
  /\ phase = "arming"
  /\ index = 16
  /\ cmos = intent
  /\ phase' = "armed"
  /\ UNCHANGED <<cmos, sum, target, intent, index, first, pc, cmd, buf, said,
                 marked, promise>>

PowerCut ==
  /\ phase = "arming"
  /\ phase' = "reset"
  /\ UNCHANGED <<cmos, sum, target, intent, index, first, pc, cmd, buf, said,
                 marked, promise>>

\* No capsule in this boot, or one that failed before it was armed.
BootOs ==
  /\ phase = "payload"
  /\ phase' = "os"
  /\ UNCHANGED <<cmos, sum, target, intent, index, first, pc, cmd, buf, said,
                 marked, promise>>

-----------------------------------------------------------------------------
(* scripts/vbnv.py.  The kernel reads and writes the block in one call each, *)
(* and refuses both while the legacy checksum is stale.                      *)

Running(p) == pc[p] \in {"read", "write", "verify"}

Start(p, c) ==
  /\ phase = "os"
  /\ pc[p] = "idle"
  /\ Overlap \/ \A q \in Procs : ~Running(q)
  /\ cmd' = [cmd EXCEPT ![p] = c]
  /\ pc' = [pc EXCEPT ![p] = "read"]
  /\ UNCHANGED <<cmos, sum, fwVars, buf, said, marked, promise>>

Stop(p, message) ==
  /\ pc' = [pc EXCEPT ![p] = "done"]
  /\ said' = [said EXCEPT ![p] = message]

\* The slot of arm-update is its argument, or the one not running.
Edited(c, blk) ==
  CASE c.op = "boot-ok"    -> BootOkBytes(blk)
    [] c.op = "arm-update" -> ArmUpdateBytes(blk, c.slot, c.tries)
    [] c.op = "try-next"   -> TryNextBytes(blk, c.slot)

\* boot-ok and try-next have nothing to write; arm-update always writes.
NothingToDo(c, blk) ==
  \/ c.op = "boot-ok" /\ Decode(blk).result = "success"
  \/ c.op = "try-next" /\ Decode(blk).tryNext = c.slot

ReadBlock(p) ==
  /\ pc[p] = "read"
  /\ cmd[p].op # "fix-checksum"
  /\ IF ~sum THEN Stop(p, "io_error") /\ UNCHANGED buf
     ELSE IF ~BlockOk(cmos) THEN Stop(p, "refused") /\ UNCHANGED buf
     ELSE IF NothingToDo(cmd[p], cmos)
          THEN Stop(p, "already") /\ UNCHANGED buf
     ELSE /\ buf' = [buf EXCEPT ![p] = Edited(cmd[p], cmos)]
          /\ pc' = [pc EXCEPT ![p] = "write"]
          /\ UNCHANGED said
  /\ marked' = (marked \/ (pc'[p] = "done" /\ said'[p] = "already"
                             /\ cmd[p].op = "boot-ok"))
  /\ UNCHANGED <<cmos, sum, fwVars, cmd, promise>>

WriteBlock(p) ==
  /\ pc[p] = "write"
  /\ cmos' = buf[p]
  /\ pc' = [pc EXCEPT ![p] = "verify"]
  /\ promise' = IF cmd[p].op = "boot-ok" THEN promise ELSE NoPromise
  /\ UNCHANGED <<sum, fwVars, cmd, buf, said, marked>>

\* boot-ok and try-next look for their own edit, arm-update at the CRC alone.
Took(c, blk) ==
  /\ BlockOk(blk)
  /\ c.op = "boot-ok" => Decode(blk).result = "success"
  /\ c.op = "try-next" => Decode(blk).tryNext = c.slot

ReadBack(p) ==
  /\ pc[p] = "verify"
  /\ IF Took(cmd[p], cmos)
     THEN /\ Stop(p, "ok")
          /\ marked' = (marked \/ cmd[p].op = "boot-ok")
          /\ promise' = IF cmd[p].op = "arm-update"
                        THEN [slot |-> cmd[p].slot, tries |-> cmd[p].tries]
                        ELSE promise
     ELSE /\ Stop(p, "not_stuck")
          /\ UNCHANGED <<marked, promise>>
  /\ UNCHANGED <<cmos, sum, fwVars, cmd, buf>>

FixChecksum(p) ==
  /\ pc[p] = "read"
  /\ cmd[p].op = "fix-checksum"
  /\ sum' = TRUE
  /\ Stop(p, "ok")
  /\ UNCHANGED <<cmos, fwVars, cmd, buf, marked, promise>>

Tool == \E p \in Procs :
          \/ \E c \in Commands : Start(p, c)
          \/ ReadBlock(p)
          \/ WriteBlock(p)
          \/ ReadBack(p)
          \/ FixChecksum(p)

Next == (\E s \in Slots : FwRead(s)) \/ FwWriteByte \/ FwVerify \/ PowerCut \/ BootOs \/ Tool

Spec == Init /\ [][Next]_vars

-----------------------------------------------------------------------------
(* Properties                                                                *)

\* However far ArmTrialBoot() has come when power fails, the block that is
\* left is the old one, the armed one, or one vboot rejects: the field-level
\* model of a torn write is complete (vbnv block, CRC-8).
TornCaught ==
  phase \in {"arming", "reset"} =>
     LET b == Decode(cmos)
     IN  b.valid => b \in {Decode(first), ArmTrialBoot(Decode(first), target)}

\* Each edit of the bytes is the edit of the fields that Vbnv states, and
\* leaves every other field alone.
EditsAsFields ==
  \A p \in Procs : pc[p] = "write" =>
    LET b == Decode(cmos)
        c == cmd[p]
    IN  Decode(buf[p]) =
          CASE c.op = "boot-ok"    -> MarkSuccess(b)
            [] c.op = "arm-update" -> ArmUpdate(b, c.slot, c.tries)
            [] c.op = "try-next"   -> SelectNext(b, c.slot)

\* Once boot-ok has said that the boot is marked, it stays marked: what the
\* other commands write does not take the report back.
ReportKept == marked => Decode(cmos).result = "success"

\* "next boot tries slot <s> (<n> attempts)", as arm-update says, is true of the
\* block until another arm-update or try-next writes it.
PromiseKept ==
  promise.tries > 0 =>
     LET b == Decode(cmos)
     IN  b.valid /\ b.tryNext = promise.slot /\ b.tryCount = promise.tries
=============================================================================
