----------------------------- MODULE FanControl -----------------------------
(***************************************************************************)
(* Stepped fan control: the five-level thermal zone of patches/base/0010,   *)
(* 0011 and 0012, the fan profiles of 0020, and the operating system that   *)
(* polls the zone and switches the fan devices in an order of its own.      *)
(* A lower level is a faster fan; level 4 leaves the fan to the EC.         *)
(***************************************************************************)
EXTENDS Integers

CONSTANTS
  Temps,      \* temperatures of the zone, in degrees C
  Options     \* what the setup menu may hold as "fan_profile"

ASSUME FanAssumption == Temps \subseteq Nat \ {0} /\ Options \subseteq Nat

VARIABLES
  option,   \* "fan_profile" in SMMSTORE
  fpro,     \* \FPRO, as ramstage published it in this boot
  flvl,     \* \FLVL
  hfsp,     \* the EC's fan register
  temp,     \* the temperature
  sample,   \* what the OS read in its latest pass, 0 before the first
  wanted,   \* the fans that pass wants on
  todo,     \* the fans it has not come to
  dev       \* dev[x]: the OS has FANx on

vars == <<option, fpro, flvl, hfsp, temp, sample, wanted, todo, dev>>

Fans == 0 .. 3       \* the devices of _AL0 .. _AL3
Levels == 0 .. 4

EcCurve == 128       \* 0x80, the EC's own curve

HfspOf(x) == <<7, 5, 4, 2, EcCurve>>[x + 1]

\* The _ACx pairs of each profile: Quiet, Balanced, Performance, EC only.
FTBL == <<<<88, 80, 80, 72, 72, 64, 64, 56>>,
          <<80, 72, 72, 64, 64, 56, 54, 46>>,
          <<78, 70, 68, 60, 58, 50, 48, 40>>,
          <<96, 94, 95, 93, 94, 92, 93, 91>>>>

OnAt(p, x)  == FTBL[p + 1][2 * x + 1]
OffAt(p, x) == FTBL[p + 1][2 * x + 2]

\* Mutant: the option published as it was stored.
ProfileUnguarded(p) == p

\* mainboard_fill_ssdt() and the guard of ACX: anything else is Balanced.
Profile(p) == IF p > 3 THEN 1 ELSE p

TypeOK ==
  /\ option \in Options
  /\ fpro \in 0 .. 3
  /\ flvl \in Levels
  /\ hfsp \in 0 .. 255
  /\ temp \in Temps
  /\ sample \in Temps \cup {0}
  /\ wanted \subseteq Fans
  /\ todo \subseteq Fans
  /\ dev \in [Fans -> BOOLEAN]

\* _INI sets the level and nothing else; ramstage has left the register at
\* automatic.
Init ==
  /\ option \in Options
  /\ fpro = Profile(option)
  /\ flvl = 4
  /\ hfsp = EcCurve
  /\ temp \in Temps
  /\ sample = 0
  /\ wanted = {}
  /\ todo = {}
  /\ dev = [x \in Fans |-> FALSE]

-----------------------------------------------------------------------------

\* Mutants: one threshold for both directions; the two swapped; one index per
\* level in place of two.
ACXNoHysteresis(x) == OnAt(Profile(fpro), x)
ACXInverted(x) == IF flvl <= x THEN OnAt(Profile(fpro), x)
                               ELSE OffAt(Profile(fpro), x)
ACXOneIndex(x) == FTBL[Profile(fpro) + 1][IF flvl <= x THEN x + 2 ELSE x + 1]

\* The trip point of level x: the lower one while the level is active.
ACX(x) == IF flvl <= x THEN OffAt(Profile(fpro), x)
                       ELSE OnAt(Profile(fpro), x)

STA(x) == flvl <= x

\* Mutant: the register of the level that was asked for before.
FANLStale(level) == hfsp' = HfspOf(flvl)

FANL(level) == hfsp' = HfspOf(level)

ON(x) ==
  IF STA(x) THEN UNCHANGED <<flvl, hfsp>>
  ELSE flvl' = x /\ FANL(x)

\* Mutant: one level down whatever the level is.
OFFUnguarded(x) == flvl' = x + 1 /\ FANL(x + 1)

\* One level down, and at level 3 back to the EC's own curve.
OFF(x) ==
  IF STA(x) THEN flvl' = x + 1 /\ FANL(x + 1)
  ELSE UNCHANGED <<flvl, hfsp>>

-----------------------------------------------------------------------------
(* The OS (external): it reads the temperature and the trip points when it   *)
(* polls and when a method has notified a change, then switches the fans     *)
(* whose state is not what it wants, in whatever order.                      *)

Evaluate ==
  /\ todo = {}
  /\ sample' = temp
  /\ wanted' = {x \in Fans : temp >= ACX(x)}
  /\ todo' = {x \in Fans : dev[x] # (x \in wanted')}
  /\ UNCHANGED <<option, fpro, flvl, hfsp, temp, dev>>

Switch(x) ==
  /\ x \in todo
  /\ todo' = todo \ {x}
  /\ IF x \in wanted THEN ON(x) ELSE OFF(x)
  /\ dev' = [dev EXCEPT ![x] = x \in wanted]
  /\ UNCHANGED <<option, fpro, temp, sample, wanted>>

ChangeTemp ==
  /\ temp' \in Temps \ {temp}
  /\ UNCHANGED <<option, fpro, flvl, hfsp, sample, wanted, todo, dev>>

\* Suspend to RAM: ramstage runs and leaves the register at automatic, the
\* ACPI objects live on in the OS's memory.
Resume ==
  /\ todo = {}
  /\ hfsp' = EcCurve
  /\ UNCHANGED <<option, fpro, flvl, temp, sample, wanted, todo, dev>>

\* A visit to the setup menu is part of a reboot.
Reboot ==
  /\ option' \in Options
  /\ fpro' = Profile(option')
  /\ flvl' = 4
  /\ hfsp' = EcCurve
  /\ sample' = 0
  /\ wanted' = {}
  /\ todo' = {}
  /\ dev' = [x \in Fans |-> FALSE]
  /\ UNCHANGED temp

Next ==
  \/ Evaluate
  \/ \E x \in Fans : Switch(x)
  \/ ChangeTemp
  \/ Resume
  \/ Reboot

Spec == Init /\ [][Next]_vars

\* The zone is polled every ten seconds, and a pass ends.
Fairness == WF_vars(Evaluate) /\ \A x \in Fans : WF_vars(Switch(x))

FairSpec == Spec /\ Fairness

-----------------------------------------------------------------------------
(* Properties                                                                *)

\* The fan is at the speed of the level or on the EC's own curve, whatever the
\* order of the switching: never off, never at a level that was left.
RegisterSafe == hfsp \in {HfspOf(flvl), EcCurve}

\* Between passes the OS and \FLVL agree on which fans are on, although the
\* methods move the one level by more than a step when they run out of order.
OsAgrees == todo = {} => \A x \in Fans : dev[x] = (flvl <= x)

\* Every profile, "EC only" too, has the fan at full speed before the CPU
\* throttles at 100 C (0020: "an ACPI escalation remains before throttling").
EscalatesFirst == (todo = {} /\ sample >= 96) => flvl = 0

\* A level is entered at its ON threshold only and left below its OFF
\* threshold only, also when several levels are passed at once.
HysteresisHolds ==
  [][\A x \in Fans :
       /\ (flvl > x /\ flvl' <= x) => sample >= OnAt(fpro, x)
       /\ (flvl <= x /\ flvl' > x /\ fpro' = fpro /\ sample' # 0) =>
             sample < OffAt(fpro, x)]_vars

LevelFits ==
  \A x \in Fans : IF flvl <= x THEN temp >= OffAt(fpro, x)
                               ELSE temp < OnAt(fpro, x)

\* At a temperature that holds, the level comes to rest where it belongs: the
\* trip points that move with the level do not chase each other.
ComesToRest ==
  <>[][Evaluate \/ \E x \in Fans : Switch(x)]_vars => <>[]LevelFits
=============================================================================
