-------------------------- MODULE FanControl_proofs --------------------------
(***************************************************************************)
(* Proofs about FanControl: the zone behaves whatever the temperatures, the *)
(* option and the order in which the OS switches the fans.                  *)
(***************************************************************************)
EXTENDS FanControl, TLAPS

Profiles == 0 .. 3

LEMMA OnValues ==
  /\ \A x \in Fans : OnAt(0, x) = 88 - 8 * x
  /\ OnAt(1, 0) = 80 /\ OnAt(1, 1) = 72 /\ OnAt(1, 2) = 64 /\ OnAt(1, 3) = 54
  /\ \A x \in Fans : OnAt(2, x) = 78 - 10 * x
  /\ \A x \in Fans : OnAt(3, x) = 96 - x
BY DEF OnAt, FTBL, Fans

LEMMA OffValues ==
  /\ \A x \in Fans : OffAt(0, x) = 80 - 8 * x
  /\ OffAt(1, 0) = 72 /\ OffAt(1, 1) = 64 /\ OffAt(1, 2) = 56
  /\ OffAt(1, 3) = 46
  /\ \A x \in Fans : OffAt(2, x) = 70 - 10 * x
  /\ \A x \in Fans : OffAt(3, x) = 94 - x
BY DEF OffAt, FTBL, Fans

\* What the curve of every profile has to be: ON above OFF, and falling with
\* the level.
LEMMA Curve ==
  ASSUME NEW p \in Profiles, NEW x \in Fans
  PROVE  /\ OnAt(p, x) \in Nat
         /\ OffAt(p, x) \in Nat
         /\ OffAt(p, x) < OnAt(p, x)
         /\ OnAt(p, x) <= 96
         /\ \A y \in Fans : x <= y => /\ OnAt(p, y) <= OnAt(p, x)
                                      /\ OffAt(p, y) <= OffAt(p, x)
<1>1. p = 0 \/ p = 1 \/ p = 2 \/ p = 3
  BY DEF Profiles
<1>2. x = 0 \/ x = 1 \/ x = 2 \/ x = 3
  BY DEF Fans
<1> QED
  BY <1>1, <1>2, OnValues, OffValues DEF Fans

-----------------------------------------------------------------------------

RegisterInv == TypeOK /\ RegisterSafe

LEMMA Registers == /\ EcCurve \in 0 .. 255
                   /\ HfspOf(4) = EcCurve
                   /\ \A x \in Levels : HfspOf(x) \in 0 .. 255
<1>1. EcCurve \in 0 .. 255
  BY DEF EcCurve
<1>2. /\ HfspOf(0) = 7 /\ HfspOf(1) = 5 /\ HfspOf(2) = 4
      /\ HfspOf(3) = 2 /\ HfspOf(4) = EcCurve
  BY DEF HfspOf
<1> QED BY <1>1, <1>2 DEF Levels

LEMMA RegisterInit == Init => RegisterInv
<1> SUFFICES ASSUME Init PROVE RegisterInv
  OBVIOUS
<1>1. fpro \in 0 .. 3
  BY FanAssumption DEF Init, Profile
<1> QED BY <1>1, Registers DEF Init, RegisterInv, TypeOK, RegisterSafe, Levels

LEMMA RegisterStep == RegisterInv /\ [Next]_vars => RegisterInv'
<1> SUFFICES ASSUME RegisterInv, [Next]_vars PROVE RegisterInv'
  OBVIOUS
<1> USE DEF RegisterInv, TypeOK, RegisterSafe
<1>1. CASE Evaluate
  BY <1>1 DEF Evaluate
<1>2. ASSUME NEW x \in Fans, Switch(x) PROVE RegisterInv'
  <2>1. \/ UNCHANGED <<flvl, hfsp>>
        \/ flvl' \in Levels /\ hfsp' = HfspOf(flvl')
    BY <1>2 DEF Switch, ON, OFF, FANL, Fans, Levels
  <2> QED BY <1>2, <2>1, Registers DEF Switch
<1>3. CASE ChangeTemp
  BY <1>3 DEF ChangeTemp
<1>4. CASE Resume
  BY <1>4, Registers DEF Resume
<1>5. CASE Reboot
  <2>1. fpro' \in 0 .. 3
    BY <1>5, FanAssumption DEF Reboot, Profile
  <2> QED BY <1>5, <2>1, Registers DEF Reboot, Levels
<1>6. CASE UNCHANGED vars
  BY <1>6 DEF vars
<1> QED BY <1>1, <1>2, <1>3, <1>4, <1>5, <1>6 DEF Next

\* The types hold for any temperatures and option: a profile is one of the
\* table's four, and the register takes what is written to it.
THEOREM TypeCorrect == Spec => []TypeOK
<1>1. Spec => []RegisterInv
  BY RegisterInit, RegisterStep, PTL DEF Spec
<1>2. RegisterInv => TypeOK
  BY DEF RegisterInv
<1> QED BY <1>1, <1>2, PTL

\* The fan is never left off or at the speed of a level that was left, in
\* every profile and for every order of switching.
THEOREM RegisterAlways == Spec => []RegisterSafe
<1>1. Spec => []RegisterInv
  BY RegisterInit, RegisterStep, PTL DEF Spec
<1> QED BY <1>1, PTL DEF RegisterInv

-----------------------------------------------------------------------------
(* One pass of the OS.  While it speeds the fan up, the level is the fastest *)
(* fan that is on; while it slows it down, the level is below the slowest    *)
(* that is off.  Both hold between passes, when nothing is left to do.       *)

Wants(w) == wanted = {x \in Fans : x >= w}

SpeedingUp ==
  /\ todo \subseteq wanted
  /\ \A x \in todo : sample >= OnAt(fpro, x)
  /\ flvl = 4 \/ dev[flvl]
  /\ \A x \in Fans : x < flvl => ~dev[x]

SlowingDown ==
  /\ todo \cap wanted = {}
  /\ \A x \in todo : sample < OffAt(fpro, x)
  /\ flvl = 0 \/ ~dev[flvl - 1]
  /\ \A x \in Fans : x >= flvl => dev[x]

PassInv ==
  /\ TypeOK
  /\ \E w \in Levels : Wants(w)
  /\ \A x \in Fans : x \in todo <=> dev[x] # (x \in wanted)
  /\ SpeedingUp \/ SlowingDown
  /\ sample >= 96 => wanted = Fans

\* With nothing left to do the level is the least fan wanted, either way.
LEMMA PassEnds ==
  ASSUME PassInv, todo = {}
  PROVE  \A x \in Fans : dev[x] = (flvl <= x)
<1>1. PICK w \in Levels : Wants(w)
  BY DEF PassInv
<1>2. \A x \in Fans : dev[x] = (x >= w)
  BY <1>1 DEF PassInv, Wants, TypeOK
<1>5. \A x \in Fans : dev[x] <=> x >= w
  BY <1>2
<1>3. flvl \in Levels /\ w \in 0 .. 4
  BY DEF PassInv, TypeOK, Levels
<1>4. flvl = w
  <2>1. CASE SpeedingUp
    <3>1. ~(flvl < w)
      BY <1>5, <1>3, <2>1 DEF SpeedingUp, Fans, Levels
    <3>2. ~(w < flvl)
      BY <1>5, <1>3, <2>1 DEF SpeedingUp, Fans, Levels
    <3> QED BY <1>3, <3>1, <3>2 DEF Levels
  <2>2. CASE SlowingDown
    <3>1. ~(flvl < w)
      BY <1>5, <1>3, <2>2 DEF SlowingDown, Fans, Levels
    <3>2. ~(w < flvl)
      BY <1>5, <1>3, <2>2 DEF SlowingDown, Fans, Levels
    <3> QED BY <1>3, <3>1, <3>2 DEF Levels
  <2> QED BY <2>1, <2>2 DEF PassInv
<1> QED
  BY <1>2, <1>3, <1>4 DEF Fans, Levels

LEMMA PassInit == Init => PassInv
<1> SUFFICES ASSUME Init PROVE PassInv
  OBVIOUS
<1>1. TypeOK
  BY RegisterInit DEF RegisterInv
<1>2. Wants(4) /\ 4 \in Levels
  BY DEF Init, Wants, Fans, Levels
<1>3. SpeedingUp
  BY DEF Init, SpeedingUp, Fans
<1>4. \A x \in Fans : /\ x \notin todo
                       /\ dev[x] = FALSE
                       /\ (x \in wanted) = FALSE
  BY DEF Init
<1>5. ~(sample >= 96)
  BY DEF Init
<1> QED
  BY <1>1, <1>2, <1>3, <1>4, <1>5 DEF PassInv

LEMMA UpClosed ==
  ASSUME NEW S \in SUBSET Fans, \A x, y \in Fans : x \in S /\ x < y => y \in S
  PROVE  \E w \in Levels : S = {x \in Fans : x >= w}
<1>1. SUFFICES \E w \in Levels : \A x \in Fans : x \in S <=> x >= w
  <2>1. ASSUME NEW w \in Levels, \A x \in Fans : x \in S <=> x >= w
        PROVE  S = {x \in Fans : x >= w}
    BY <2>1
  <2> QED BY <2>1
<1>2. \A x \in Fans : x \in {0, 1, 2, 3}
  BY DEF Fans
<1>3. 0 \in Fans /\ 1 \in Fans /\ 2 \in Fans /\ 3 \in Fans
  BY DEF Fans
<1>4. CASE 0 \in S
  BY <1>2, <1>3, <1>4 DEF Levels
<1>5. CASE 0 \notin S /\ 1 \in S
  BY <1>2, <1>3, <1>5 DEF Levels
<1>6. CASE 1 \notin S /\ 2 \in S
  BY <1>2, <1>3, <1>6 DEF Levels
<1>7. CASE 2 \notin S /\ 3 \in S
  BY <1>2, <1>3, <1>7 DEF Levels
<1>8. CASE 3 \notin S
  BY <1>2, <1>3, <1>8 DEF Levels
<1> QED BY <1>4, <1>5, <1>6, <1>7, <1>8

LEMMA PassEvaluate == ASSUME PassInv, Evaluate, TypeOK' PROVE PassInv'
<1>1. \A x \in Fans : dev[x] = (flvl <= x)
  BY PassEnds DEF Evaluate
<1>2. flvl \in 0 .. 4 /\ fpro \in Profiles /\ Profile(fpro) = fpro
  BY DEF PassInv, TypeOK, Levels, Profiles, Profile
<1>3. temp \in Nat
  BY FanAssumption DEF PassInv, TypeOK
<1>4. \A x, y \in Fans : x < y => ACX(y) <= ACX(x)
  BY <1>2, Curve DEF ACX, Fans
<1>5. \A x \in Fans : ACX(x) \in Nat
  BY <1>2, Curve DEF ACX
<1>6. \E w \in Levels : Wants(w)'
  <2>1. \A x, y \in Fans : x \in wanted' /\ x < y => y \in wanted'
    BY <1>3, <1>4, <1>5 DEF Evaluate
  <2>2. wanted' \subseteq Fans
    BY DEF Evaluate
  <2> QED BY <2>1, <2>2, UpClosed DEF Wants
<1>7. \A x \in Fans : x \in todo' <=> dev'[x] # (x \in wanted')
  BY DEF Evaluate
<1>8. \A x \in Fans : dev'[x] <=> flvl' <= x
  BY <1>1 DEF Evaluate
<1>9. SpeedingUp' \/ SlowingDown'
  <2>1. CASE \E x \in Fans : x < flvl /\ x \in wanted'
    <3>1. \A x \in Fans : x >= flvl => x \in wanted'
      BY <1>2, <1>3, <1>4, <1>5, <2>1 DEF Evaluate, Fans
    <3>2. \A x \in todo' : x < flvl /\ x \in wanted'
      BY <1>1, <1>2, <3>1 DEF Evaluate, Fans
    <3>3. \A x \in todo' : temp >= OnAt(fpro, x)
      BY <1>2, <3>2 DEF Evaluate, ACX, Fans
    <3>4. flvl' = 4 \/ dev'[flvl']
      BY <1>2, <1>8 DEF Evaluate, Fans
    <3>5. \A x \in Fans : x < flvl' => ~dev'[x]
      BY <1>2, <1>8 DEF Evaluate, Fans
    <3> QED BY <3>2, <3>3, <3>4, <3>5 DEF Evaluate, SpeedingUp
  <2>2. CASE \A x \in Fans : x < flvl => x \notin wanted'
    <3>1. \A x \in todo' : x >= flvl /\ x \notin wanted'
      BY <1>1, <1>2, <2>2 DEF Evaluate, Fans
    <3>2. \A x \in todo' : temp < OffAt(fpro, x)
      BY <1>2, <1>3, <1>5, <3>1 DEF Evaluate, ACX, Fans
    <3>3. flvl' = 0 \/ ~dev'[flvl' - 1]
      BY <1>2, <1>8 DEF Evaluate, Fans
    <3>4. \A x \in Fans : x >= flvl' => dev'[x]
      BY <1>2, <1>8 DEF Evaluate, Fans
    <3> QED BY <3>1, <3>2, <3>3, <3>4 DEF Evaluate, SlowingDown
  <2> QED BY <2>1, <2>2
<1>10. sample' >= 96 => wanted' = Fans
  <2>1. \A x \in Fans : ACX(x) <= 96
    BY <1>2, Curve DEF ACX
  <2> QED BY <1>3, <1>5, <2>1 DEF Evaluate
<1> QED BY <1>6, <1>7, <1>9, <1>10 DEF PassInv

LEMMA PassSwitch ==
  ASSUME PassInv, NEW x \in Fans, Switch(x), TypeOK'
  PROVE  PassInv'
<1>1. /\ flvl \in 0 .. 4
      /\ dev \in [Fans -> BOOLEAN]
      /\ dev' = [dev EXCEPT ![x] = x \in wanted]
      /\ todo' = todo \ {x} /\ x \in todo /\ todo \subseteq Fans
      /\ UNCHANGED <<wanted, sample, fpro>>
  BY DEF PassInv, TypeOK, Switch, Levels
<1>2. \E w \in Levels : Wants(w)'
  BY <1>1 DEF PassInv, Wants
<1>3. \A y \in Fans : y \in todo' <=> dev'[y] # (y \in wanted')
  BY <1>1 DEF PassInv
<1>4. CASE SpeedingUp
  <2>1. dev'[x] = TRUE /\ \A y \in Fans \ {x} : dev'[y] = dev[y]
    BY <1>1, <1>4 DEF SpeedingUp
  <2>2. flvl' = IF flvl <= x THEN flvl ELSE x
    BY <1>1, <1>4 DEF Switch, SpeedingUp, ON, STA
  <2>3. flvl' = 4 \/ dev'[flvl']
    BY <1>1, <1>4, <2>1, <2>2 DEF SpeedingUp, Fans
  <2>4. \A y \in Fans : y < flvl' => ~dev'[y]
    BY <1>1, <1>4, <2>1, <2>2 DEF SpeedingUp, Fans
  <2>5. SpeedingUp'
    BY <1>1, <1>4, <2>3, <2>4 DEF SpeedingUp
  <2> QED BY <1>1, <1>2, <1>3, <2>5 DEF PassInv
<1>5. CASE SlowingDown
  <2>1. dev'[x] = FALSE /\ \A y \in Fans \ {x} : dev'[y] = dev[y]
    <3>1. (x \in wanted) = FALSE
      BY <1>1, <1>5 DEF SlowingDown
    <3> QED BY <1>1, <3>1
  <2>2. flvl' = IF flvl <= x THEN x + 1 ELSE flvl
    BY <1>1, <1>5 DEF Switch, SlowingDown, OFF, STA
  <2>3. flvl' = 0 \/ ~dev'[flvl' - 1]
    BY <1>1, <1>5, <2>1, <2>2 DEF SlowingDown, Fans
  <2>4. \A y \in Fans : y >= flvl' => dev'[y]
    BY <1>1, <1>5, <2>1, <2>2 DEF SlowingDown, Fans
  <2>5. SlowingDown'
    BY <1>1, <1>5, <2>3, <2>4 DEF SlowingDown
  <2> QED BY <1>1, <1>2, <1>3, <2>5 DEF PassInv
<1> QED BY <1>4, <1>5 DEF PassInv

LEMMA PassStep == PassInv /\ TypeOK' /\ [Next]_vars => PassInv'
<1> SUFFICES ASSUME PassInv, TypeOK', [Next]_vars PROVE PassInv'
  OBVIOUS
<1>1. CASE Evaluate
  BY <1>1, PassEvaluate
<1>2. ASSUME NEW x \in Fans, Switch(x) PROVE PassInv'
  BY <1>2, PassSwitch
<1>3. CASE ChangeTemp \/ Resume \/ UNCHANGED vars
  <2>1. UNCHANGED <<fpro, flvl, sample, wanted, todo, dev>>
    BY <1>3 DEF ChangeTemp, Resume, vars
  <2> QED BY <2>1 DEF PassInv, Wants, SpeedingUp, SlowingDown
<1>4. CASE Reboot
  <2>1. Wants(4)' /\ 4 \in Levels
    BY <1>4 DEF Reboot, Wants, Fans, Levels
  <2>2. SpeedingUp'
    BY <1>4 DEF Reboot, SpeedingUp, Fans
  <2>3. \A x \in Fans : /\ x \notin todo'
                         /\ dev'[x] = FALSE
                         /\ (x \in wanted') = FALSE
    BY <1>4 DEF Reboot
  <2>4. ~(sample' >= 96)
    BY <1>4 DEF Reboot
  <2> QED BY <2>1, <2>2, <2>3, <2>4 DEF PassInv
<1> QED BY <1>1, <1>2, <1>3, <1>4 DEF Next

LEMMA PassAlways == Spec => [](RegisterInv /\ PassInv)
<1>1. Init => RegisterInv /\ PassInv
  BY RegisterInit, PassInit
<1>2. RegisterInv /\ PassInv /\ [Next]_vars => (RegisterInv /\ PassInv)'
  BY RegisterStep, PassStep DEF RegisterInv
<1> QED BY <1>1, <1>2, PTL DEF Spec

\* In whatever order the OS switches the fans, its view of them and the level
\* agree when it is done.
THEOREM AgreementAlways == Spec => []OsAgrees
<1>1. PassInv => OsAgrees
  BY PassEnds DEF OsAgrees
<1> QED BY <1>1, PassAlways, PTL

\* The fan is at full speed before the CPU throttles, in every profile.
THEOREM EscalationAlways == Spec => []EscalatesFirst
<1>1. PassInv => EscalatesFirst
  <2> SUFFICES ASSUME PassInv, todo = {}, sample >= 96 PROVE flvl = 0
    BY DEF EscalatesFirst
  <2>1. 0 \in Fans /\ 0 \in wanted
    BY DEF PassInv, Fans
  <2>2. dev[0] = TRUE
    BY <2>1 DEF PassInv, TypeOK
  <2>3. flvl <= 0
    BY <2>1, <2>2, PassEnds
  <2> QED BY <2>3 DEF PassInv, TypeOK, Levels
<1> QED BY <1>1, PassAlways, PTL

HysteresisStep ==
  \A x \in Fans :
       /\ (flvl > x /\ flvl' <= x) => sample >= OnAt(fpro, x)
       /\ (flvl <= x /\ flvl' > x /\ fpro' = fpro /\ sample' # 0) =>
             sample < OffAt(fpro, x)

\* At whatever temperatures the zone is polled, no level is entered or left
\* between its two thresholds.
THEOREM HysteresisAlways == Spec => HysteresisHolds
<1>1. PassInv /\ [Next]_vars => [HysteresisStep]_vars
  <2> SUFFICES ASSUME PassInv, Next PROVE HysteresisStep
    OBVIOUS
  <2>1. /\ flvl \in 0 .. 4 /\ fpro \in Profiles
        /\ sample \in Nat /\ todo \subseteq Fans
    BY FanAssumption DEF PassInv, TypeOK, Levels, Profiles
  <2>2. CASE UNCHANGED flvl
    BY <2>1, <2>2 DEF HysteresisStep, Fans
  <2>3. CASE Reboot
    BY <2>1, <2>3 DEF HysteresisStep, Reboot, Fans
  <2>4. ASSUME NEW y \in Fans, Switch(y), flvl' # flvl PROVE HysteresisStep
    <3>1. y \in todo
      BY <2>4 DEF Switch
    <3>2. CASE SpeedingUp
      <4>1. flvl' = y /\ y < flvl /\ sample >= OnAt(fpro, y)
        BY <2>1, <2>4, <3>1, <3>2 DEF Switch, SpeedingUp, ON, STA, Fans
      <4> QED BY <2>1, <4>1, Curve DEF HysteresisStep, Fans
    <3>3. CASE SlowingDown
      <4>1. flvl' = y + 1 /\ flvl <= y /\ sample < OffAt(fpro, y)
        BY <2>1, <2>4, <3>1, <3>3 DEF Switch, SlowingDown, OFF, STA, Fans
      <4> QED BY <2>1, <4>1, Curve DEF HysteresisStep, Fans
    <3> QED BY <3>2, <3>3 DEF PassInv
  <2> QED
    BY <2>2, <2>3, <2>4 DEF Next, Evaluate, ChangeTemp, Resume
<1> QED
  BY <1>1, PassAlways, PTL DEF Spec, HysteresisHolds, HysteresisStep
=============================================================================
