------------------------ MODULE CapsuleUpdate_proofs ------------------------
(***************************************************************************)
(* When firmware is updated by capsule alone, or with flashrom and vbnv.py  *)
(* alone, for every set of releases, versions, slot size and number of      *)
(* faults: one slot always holds a release that works here, and the         *)
(* rollback counter waits for a report.                                     *)
(***************************************************************************)
EXTENDS CapsuleInvariant, SlotUpdate_proofs

(* How steps move the sets of slots *)

LEMMA SlotsSame ==
  ASSUME flash' = flash, counter' = counter, cameUp' = cameUp,
         reported' = reported
  PROVE  /\ FallbackSlots' = FallbackSlots
         /\ ProvenSlots' = ProvenSlots
         /\ ReportedSlots' = ReportedSlots
         /\ FallbackSurvives' = FallbackSurvives
         /\ CounterWaits' = CounterWaits
         /\ \A s : Verifies(s)' = Verifies(s)
         /\ \A s : SlotImage(s)' = SlotImage(s)
BY DEF FallbackSlots, ProvenSlots, ReportedSlots, FallbackSurvives, Fallback,
       Verifies, PreambleOk, IsWhole, SlotImage, CounterWaits

LEMMA Survives == FallbackSurvives <=> FallbackSlots # {}
BY DEF FallbackSurvives, FallbackSlots

LEMMA FallbackProven == FallbackSlots \subseteq ProvenSlots
BY DEF FallbackSlots, ProvenSlots

\* vboot never reads the recovery half's request here, and follows either block.
LEMMA NvSafe ==
  ASSUME TypeInv, BlockInv
  PROVE  Nv \in Block /\ SafeBlock(Nv) /\ Nv.valid
BY DEF TypeInv, TypeOK, BlockInv, Nv, SettledBlock

LEMMA NotRequested ==
  ASSUME NEW b \in Block, ~b.recovery
  PROVE  [b EXCEPT !.recovery = FALSE] = b
BY DEF Block

LEMMA CapsuleInit == Init => CapsuleOnlyInv
<1> SUFFICES ASSUME Init PROVE CapsuleOnlyInv
  OBVIOUS
<1>1. Factory \in Images /\ Version[Factory] \in Nat /\ NoImage \notin Images
  BY Constants
<1>2. \A s \in Slots : SlotImage(s) = Factory /\ flash[s][1].half = s
  BY OneBlock DEF Init, SlotImage, Half
<1>3. \A s \in Slots : IsWhole(s)
  BY <1>1, <1>2, OneBlock DEF IsWhole, Init
<1>4. \A s \in Slots : Fallback(s)
  <2>1. counter = 0 /\ cameUp = {Factory} /\ Version[Factory] >= 0
    BY <1>1 DEF Init
  <2>2. Factory # NoImage
    BY <1>1
  <2> QED BY <1>2, <1>3, <2>1, <2>2, Zenon DEF Fallback, Verifies, PreambleOk
<1>5. FallbackSlots = Slots
  BY <1>4 DEF FallbackSlots
<1>6. FallbackSurvives
  BY <1>5, Survives DEF Slots
<1>7. SafeBlock(FreshBlock) /\ SettledBlock(FreshBlock)
  BY <1>5 DEF SafeBlock, SettledBlock, FreshBlock, Slots
<1> QED
  BY <1>6, <1>7 DEF Init, CapsuleOnlyInv, RunInv, CapsuleInv, BlockInv,
     CounterWaits, Booted, FreshBlock

-----------------------------------------------------------------------------
(* One boot *)

\* A roll-forward only ever happens to a release that came up and reported.
LEMMA RollIsReported ==
  ASSUME TypeInv, BlockInv,
         RolledCounter(Nv, SelectedSlot(Nv)) # counter
  PROVE  /\ SelectedSlot(Nv) \in FallbackSlots \cap ReportedSlots
         /\ SelectedSlot(Nv) = backup.tried
         /\ Nv.tryCount = 0
         /\ Nv.result = "success"
         /\ RolledCounter(Nv, SelectedSlot(Nv))
              = Version[SlotImage(SelectedSlot(Nv))]
         /\ Version[SlotImage(SelectedSlot(Nv))] > counter
<1> DEFINE s == SelectedSlot(Nv)
<1>1. /\ Nv.tried = s
      /\ Nv.result = "success"
      /\ RolledCounter(Nv, s) = Version[SlotImage(s)]
      /\ Version[SlotImage(s)] > counter
  BY DEF RolledCounter
<1>2. Nv \in Block /\ SafeBlock(Nv)
  BY NvSafe
<1>3. s = Nv.tryNext
  BY <1>1 DEF SelectedSlot, SpentTrial
<1>4. Nv.tryCount = 0
  <2>1. Nv.tryNext \in Slots
    BY <1>2, BlockFields
  <2> QED BY <1>1, <1>2, <1>3, <2>1, OtherSlot DEF SafeBlock
<1>5. Nv = cmos /\ cmos.valid
  BY <1>1 DEF Nv, BlockInv, SettledBlock
<1> QED
  BY <1>1, <1>2, <1>3, <1>4, <1>5 DEF SafeBlock, BlockInv

LEMMA SelectedWorks ==
  ASSUME TypeInv, BlockInv, Verifies(SelectedSlot(Nv)), Nv.tryCount = 0
  PROVE  SelectedSlot(Nv) \in FallbackSlots
<1> DEFINE s == SelectedSlot(Nv)
<1>1. Nv \in Block /\ SafeBlock(Nv) /\ s \in Slots
  BY NvSafe, BlockChoice
<1>2. CASE Nv.result = "trying"
  <2>1. s = Other(Nv.tryNext)
    BY <1>1, <1>2 DEF SafeBlock, SelectedSlot, SpentTrial
  <2>2. s \in ProvenSlots
    BY <1>1, <1>2, <2>1 DEF SafeBlock
  <2> QED BY <2>2 DEF ProvenSlots, FallbackSlots
<1>3. CASE Nv.result # "trying"
  BY <1>1, <1>3 DEF SafeBlock, SelectedSlot, SpentTrial
<1> QED BY <1>2, <1>3

\* A counter that moves to the version of the slot s leaves s standing, and
\* can only turn other slots into rejections.
LEMMA SlotsRolled ==
  ASSUME TypeInv, NEW s \in FallbackSlots,
         flash' = flash, cameUp' = cameUp, reported' = reported,
         counter' = Version[SlotImage(s)], counter' > counter
  PROVE  /\ s \in FallbackSlots'
         /\ Verifies(s)'
         /\ ProvenSlots \subseteq ProvenSlots'
         /\ ReportedSlots' = ReportedSlots
<1>1. s \in Slots /\ Fallback(s)
  BY DEF FallbackSlots
<1>2. \A t \in Slots : /\ SlotImage(t)' = SlotImage(t)
                       /\ IsWhole(t)' = IsWhole(t)
                       /\ SlotImage(t) \in Images \cup {NoImage}
  BY OneBlock DEF SlotImage, IsWhole, TypeInv, TypeOK, Content
<1>3. \A t \in Slots : SlotImage(t) # NoImage => Version[SlotImage(t)] \in Nat
  BY <1>2, Constants
<1>4. counter \in Nat
  BY DEF TypeInv, TypeOK
<1>5. /\ SlotImage(s) # NoImage
      /\ Version[SlotImage(s)] >= counter'
      /\ counter' \in Nat
  BY <1>1, <1>3 DEF Fallback, Verifies, PreambleOk
<1>6. \A t \in Slots : Verifies(t)' => Verifies(t)
  <2> SUFFICES ASSUME NEW t \in Slots, Verifies(t)'
               PROVE  Verifies(t)
    OBVIOUS
  <2>1. SlotImage(t) # NoImage /\ Version[SlotImage(t)] >= counter' /\ IsWhole(t)
    BY <1>2 DEF Verifies, PreambleOk
  <2>2. Version[SlotImage(t)] >= counter
    BY <2>1, <1>2, <1>3, <1>4, <1>5
  <2> QED BY <2>1, <2>2 DEF Verifies, PreambleOk
<1>7. Verifies(s)'
  BY <1>1, <1>2, <1>5 DEF Fallback, Verifies, PreambleOk
<1>8. \A t \in Slots : Verifies(t)' /\ Fallback(t) => Fallback(t)'
  BY <1>2 DEF Fallback
<1> QED
  BY <1>1, <1>2, <1>6, <1>7, <1>8
     DEF FallbackSlots, ProvenSlots, ReportedSlots
LEMMA CapsuleBootSlot == TypeInv /\ CapsuleOnlyInv /\ BootSlot => CapsuleOnlyInv'
<1> SUFFICES ASSUME TypeInv, CapsuleOnlyInv, BootSlot PROVE CapsuleOnlyInv'
  OBVIOUS
<1> PICK s \in Slots : s = SelectedSlot(Nv)
  BY NvSafe, BlockChoice DEF CapsuleOnlyInv
<1>1. /\ Nv \in Block /\ SafeBlock(Nv) /\ Nv.valid
      /\ s \in Slots /\ Nv.tryNext \in Slots /\ Other(Nv.tryNext) \in Slots
  BY NvSafe, BlockChoice, BlockFields, OtherSlot DEF CapsuleOnlyInv
<1>2. /\ Verifies(s)
      /\ cmos' = SelectFwSlot(Nv)
      /\ counter' = RolledCounter(Nv, s)
      /\ run' = s /\ image' = SlotImage(s) /\ phase' = "romstage"
      /\ phase = "verstage"
      /\ UNCHANGED <<flash, backup, staged, capsule, job, cameUp, reported>>
  BY DEF BootSlot
<1>3. /\ ProvenSlots \subseteq ProvenSlots'
      /\ ReportedSlots' = ReportedSlots
      /\ Verifies(s)'
      /\ SlotImage(s)' = SlotImage(s)
      /\ \/ FallbackSlots' = FallbackSlots
         \/ /\ s \in FallbackSlots' /\ s = backup.tried
            /\ Nv.tryCount = 0 /\ Nv.result = "success"
  <2>1. CASE counter' = counter
    <3>1. /\ FallbackSlots' = FallbackSlots /\ ProvenSlots' = ProvenSlots
          /\ ReportedSlots' = ReportedSlots
          /\ Verifies(s)' = Verifies(s) /\ SlotImage(s)' = SlotImage(s)
      BY <1>2, <2>1, SlotsSame
    <3> QED BY <1>2, <3>1
  <2>2. CASE counter' # counter
    <3>1. /\ s \in FallbackSlots /\ s = backup.tried
          /\ Nv.tryCount = 0 /\ Nv.result = "success"
          /\ counter' = Version[SlotImage(s)] /\ counter' > counter
      BY <1>2, <2>2, RollIsReported DEF CapsuleOnlyInv
    <3>2. /\ s \in FallbackSlots' /\ Verifies(s)'
          /\ ProvenSlots \subseteq ProvenSlots'
          /\ ReportedSlots' = ReportedSlots
      BY <1>2, <3>1, SlotsRolled
    <3>3. SlotImage(s)' = SlotImage(s)
      BY <1>2 DEF SlotImage
    <3> QED BY <3>1, <3>2, <3>3
  <2> QED BY <2>1, <2>2
<1>4. /\ cmos'.valid /\ cmos'.recovery = FALSE
      /\ cmos'.tryNext = s /\ cmos'.tried = s
      /\ cmos'.tryCount = 0
      /\ cmos'.result = IF Nv.tryCount = 0 THEN "unknown" ELSE "trying"
  BY <1>1, <1>2 DEF SelectFwSlot, Block, SafeBlock
<1>5. Nv.tryCount = 0 => s \in FallbackSlots'
  BY <1>2, <1>3, SelectedWorks DEF CapsuleOnlyInv
<1>6. Nv.tryCount = 1 => Other(s) \in ProvenSlots'
  BY <1>1, <1>3 DEF SafeBlock, SelectedSlot, SpentTrial
<1>7. SafeBlock(cmos)'
  BY <1>1, <1>4, <1>5, <1>6 DEF SafeBlock
<1>8. SafeBlock(backup)'
  BY <1>2, <1>3 DEF SafeBlock, CapsuleOnlyInv, BlockInv, SettledBlock
<1>9. BlockInv'
  BY <1>2, <1>4, <1>7, <1>8 DEF CapsuleOnlyInv, BlockInv, SettledBlock
<1>10. RunInv'
  <2>1. Verifies(run)' /\ image' = SlotImage(run)'
    BY <1>2, <1>3 DEF Verifies, PreambleOk, IsWhole, SlotImage
  <2> QED BY <1>2, <1>4, <2>1 DEF RunInv, Booted, SettledBlock
<1>11. CapsuleInv'
  BY <1>2, <1>4 DEF CapsuleOnlyInv, CapsuleInv
<1>12. FallbackSurvives'
  <2>1. FallbackSlots # {}
    BY Survives DEF CapsuleOnlyInv
  <2>2. FallbackSlots' # {}
    BY <1>3, <2>1
  <2> QED BY <2>2 DEF FallbackSurvives, FallbackSlots
<1>13. CounterWaits'
  <2>1. CASE counter' = counter
    BY <1>2, <2>1 DEF CapsuleOnlyInv, CounterWaits
  <2>2. CASE counter' # counter
    <3>1. s \in FallbackSlots \cap ReportedSlots /\ counter' = Version[SlotImage(s)]
      BY <1>2, <2>2, RollIsReported DEF CapsuleOnlyInv
    <3>2. SlotImage(s) \in reported \cap cameUp
      BY <3>1 DEF FallbackSlots, ReportedSlots, Fallback
    <3> QED BY <1>2, <3>1, <3>2 DEF CounterWaits
  <2> QED BY <2>1, <2>2
<1> QED BY <1>9, <1>10, <1>11, <1>12, <1>13 DEF CapsuleOnlyInv

LEMMA CapsuleRejectSlot ==
  TypeInv /\ CapsuleOnlyInv /\ RejectSlot => CapsuleOnlyInv'
<1> SUFFICES ASSUME TypeInv, CapsuleOnlyInv, RejectSlot PROVE CapsuleOnlyInv'
  OBVIOUS
<1> DEFINE s == SelectedSlot(Nv)
<1>1. /\ Nv \in Block /\ SafeBlock(Nv) /\ Nv.valid
      /\ s \in Slots /\ Other(s) \in Slots
      /\ \A t \in Slots : t = s \/ t = Other(s)
  BY NvSafe, BlockChoice, OtherSlot DEF CapsuleOnlyInv
<1>2. /\ ~Verifies(s)
      /\ cmos' = FailFwSlot(Nv)
      /\ counter' = RolledCounter(Nv, s)
      /\ phase = "verstage"
      /\ UNCHANGED <<flash, backup, phase, run, image, staged, capsule, job,
                     cameUp, reported>>
  BY DEF RejectSlot
<1>3. s \notin FallbackSlots
  BY <1>2 DEF FallbackSlots, Fallback
<1>4. counter' = counter
  BY <1>2, <1>3, RollIsReported DEF CapsuleOnlyInv
<1>5. /\ FallbackSlots' = FallbackSlots /\ ProvenSlots' = ProvenSlots
      /\ ReportedSlots' = ReportedSlots
      /\ FallbackSurvives' /\ CounterWaits'
  BY <1>2, <1>4, SlotsSame DEF CapsuleOnlyInv
<1>6. Other(s) \in FallbackSlots
  <2>1. \E t \in Slots : t \in FallbackSlots
    BY DEF CapsuleOnlyInv, FallbackSurvives, FallbackSlots
  <2> QED BY <1>1, <1>3, <2>1
<1>7. Nv.result # "failure"
  <2>1. Nv.result = "failure" => Nv.tryCount = 0 /\ s = Nv.tryNext
    BY <1>1 DEF SafeBlock, SelectedSlot, SpentTrial
  <2> QED BY <1>1, <1>3, <2>1 DEF SafeBlock
<1>8. /\ cmos'.valid
      /\ ~cmos'.recovery
      /\ cmos'.tryNext = Other(s)
      /\ cmos'.tryCount = 0
      /\ cmos'.result = "failure"
  BY <1>1, <1>2, <1>7 DEF FailFwSlot, Block
<1>9. SafeBlock(cmos)'
  BY <1>5, <1>6, <1>8 DEF SafeBlock
<1>10. SafeBlock(backup)'
  BY <1>2, <1>5 DEF SafeBlock, CapsuleOnlyInv, BlockInv
<1>11. BlockInv'
  BY <1>2, <1>8, <1>9, <1>10 DEF CapsuleOnlyInv, BlockInv, SettledBlock
<1>12. RunInv'
  BY <1>2 DEF RunInv, Booted
<1>13. CapsuleInv'
  <2>1. Nv' = cmos'
    BY <1>8 DEF Nv
  <2> QED BY <1>2, <1>8, <2>1 DEF CapsuleOnlyInv, CapsuleInv
<1> QED BY <1>5, <1>11, <1>12, <1>13 DEF CapsuleOnlyInv

LEMMA CapsuleRamstage ==
  TypeInv /\ CapsuleOnlyInv /\ Ramstage => CapsuleOnlyInv'
<1> SUFFICES ASSUME TypeInv, CapsuleOnlyInv, Ramstage PROVE CapsuleOnlyInv'
  OBVIOUS
<1>1. /\ phase = "romstage" /\ run \in Slots /\ Verifies(run)
      /\ image = SlotImage(run)
      /\ SettledBlock(cmos) /\ cmos.tried = run
  BY DEF Ramstage, CapsuleOnlyInv, RunInv, Booted
<1>2. UNCHANGED <<flash, counter, run, image, job, cameUp, reported>>
  BY DEF Ramstage
<1>3. /\ FallbackSlots' = FallbackSlots /\ ProvenSlots' = ProvenSlots
      /\ ReportedSlots' = ReportedSlots
      /\ FallbackSurvives' /\ CounterWaits'
      /\ Verifies(run)' /\ SlotImage(run)' = SlotImage(run)
  BY <1>1, <1>2, SlotsSame DEF CapsuleOnlyInv, Verifies, PreambleOk, IsWhole, SlotImage
<1>4. CASE HangsEarly
  <2>1. phase' = "hung" /\ UNCHANGED <<cmos, backup, staged, capsule>>
    BY <1>4 DEF Ramstage
  <2>2. BlockInv'
    BY <1>3, <2>1 DEF CapsuleOnlyInv, BlockInv, SafeBlock, SettledBlock
  <2> QED
    BY <1>3, <2>1, <2>2 DEF CapsuleOnlyInv, RunInv, CapsuleInv, Booted
<1>5. CASE ~HangsEarly
  <2>1. Nv = cmos /\ cmos \in Block /\ SafeBlock(cmos)
    BY <1>1 DEF Nv, SettledBlock, TypeInv, TypeOK, CapsuleOnlyInv, BlockInv
  <2>2. [cmos EXCEPT !.recovery = FALSE] = cmos
    BY <2>1, NotRequested DEF SafeBlock
  <2>3. /\ phase' = "payload" /\ cmos' = cmos /\ backup' = cmos
        /\ capsule' = staged /\ staged' = NoImage
    BY <1>5, <2>1, <2>2 DEF Ramstage
  <2>4. BlockInv'
    BY <1>1, <1>3, <2>1, <2>3 DEF BlockInv, SafeBlock, SettledBlock
  <2>5. RunInv'
    BY <1>1, <1>2, <1>3, <1>5, <2>3 DEF RunInv, Booted, HangsEarly
  <2>6. CapsuleInv'
    BY <1>1, <2>3 DEF CapsuleOnlyInv, CapsuleInv
  <2> QED BY <1>3, <2>4, <2>5, <2>6 DEF CapsuleOnlyInv
<1> QED BY <1>4, <1>5
-----------------------------------------------------------------------------
(* Steps that leave flash and counter alone *)

LEMMA SlotsGrowing ==
  ASSUME flash' = flash, counter' = counter, cameUp \subseteq cameUp',
         reported \subseteq reported', FallbackSurvives, CounterWaits
  PROVE  /\ FallbackSlots \subseteq FallbackSlots'
         /\ ProvenSlots \subseteq ProvenSlots'
         /\ ReportedSlots \subseteq ReportedSlots'
         /\ FallbackSurvives'
         /\ CounterWaits'
<1>1. \A s \in Slots : /\ Verifies(s)' = Verifies(s)
                       /\ SlotImage(s)' = SlotImage(s)
                       /\ Fallback(s) => Fallback(s)'
  BY DEF Verifies, PreambleOk, IsWhole, SlotImage, Fallback
<1>2. CounterWaits'
  BY DEF CounterWaits
<1>3. FallbackSurvives'
  BY <1>1 DEF FallbackSurvives
<1> QED
  BY <1>1, <1>2, <1>3 DEF FallbackSlots, ProvenSlots, ReportedSlots

LEMMA SlotsGrow ==
  ASSUME flash' = flash, counter' = counter, cameUp \subseteq cameUp',
         reported \subseteq reported', CapsuleOnlyInv
  PROVE  /\ FallbackSlots \subseteq FallbackSlots'
         /\ ProvenSlots \subseteq ProvenSlots'
         /\ ReportedSlots \subseteq ReportedSlots'
         /\ FallbackSurvives'
         /\ CounterWaits'
BY SlotsGrowing DEF CapsuleOnlyInv

LEMMA BlocksKept ==
  ASSUME BlockInv, UNCHANGED <<cmos, backup>>,
         FallbackSlots \subseteq FallbackSlots',
         ProvenSlots \subseteq ProvenSlots',
         ReportedSlots \subseteq ReportedSlots'
  PROVE  BlockInv'
BY DEF BlockInv, SafeBlock, SettledBlock

LEMMA CapsuleBootOs == TypeInv /\ CapsuleOnlyInv /\ BootOs => CapsuleOnlyInv'
<1> SUFFICES ASSUME TypeInv, CapsuleOnlyInv, BootOs PROVE CapsuleOnlyInv'
  OBVIOUS
<1>1. /\ phase \in {"processed", "payload"}
      /\ UNCHANGED <<flash, cmos, backup, counter, run, image, staged,
                     capsule, job, reported>>
      /\ \/ phase' = "os" /\ cameUp' = cameUp \cup {image}
         \/ phase' = "hung" /\ cameUp' = cameUp
  <2>1. phase \in {"processed", "payload"}
    BY DEF BootOs
  <2>2. run \in Slots
    BY <2>1 DEF CapsuleOnlyInv, RunInv, Booted
  <2>3. CASE Dies[image] = "late"
    BY <2>1, <2>2, <2>3 DEF BootOs
  <2>4. CASE Dies[image] # "late"
    <3>1. phase' = "os"
      BY <2>4 DEF BootOs
    <3>2. cameUp' = cameUp \cup {image}
      BY <2>2, <2>4, Zenon DEF BootOs
    <3> QED BY <2>1, <3>1, <3>2 DEF BootOs
  <2> QED BY <2>3, <2>4
<1>2. /\ FallbackSlots \subseteq FallbackSlots'
      /\ ProvenSlots \subseteq ProvenSlots'
      /\ ReportedSlots \subseteq ReportedSlots'
      /\ FallbackSurvives' /\ CounterWaits'
  BY <1>1, SlotsGrow
<1>3. BlockInv'
  BY <1>1, <1>2, BlocksKept DEF CapsuleOnlyInv
<1>4. RunInv'
  <2>1. Verifies(run)' = Verifies(run) /\ SlotImage(run)' = SlotImage(run)
    BY <1>1 DEF Verifies, PreambleOk, IsWhole, SlotImage
  <2> QED BY <1>1, <2>1 DEF CapsuleOnlyInv, RunInv, Booted
<1>5. CapsuleInv'
  BY <1>1 DEF CapsuleOnlyInv, CapsuleInv
<1> QED BY <1>2, <1>3, <1>4, <1>5 DEF CapsuleOnlyInv

LEMMA CapsuleBootOk == TypeInv /\ CapsuleOnlyInv /\ BootOk => CapsuleOnlyInv'
<1> SUFFICES ASSUME TypeInv, CapsuleOnlyInv, BootOk PROVE CapsuleOnlyInv'
  OBVIOUS
<1>1. /\ phase = "os" /\ run \in Slots /\ Verifies(run)
      /\ image = SlotImage(run) /\ image \in cameUp
      /\ flash[run][1].half = run /\ backup.tried = run
      /\ cmos \in {backup, Torn(backup), MarkSuccess(backup)}
  BY DEF BootOk, CapsuleOnlyInv, RunInv, Booted
<1>2. /\ cmos.valid /\ cmos.result # "success"
      /\ cmos' = MarkSuccess(cmos)
      /\ reported' = reported \cup {image}
      /\ UNCHANGED <<flash, backup, counter, phase, run, image, staged,
                     capsule, job, cameUp>>
  BY <1>1 DEF BootOk
<1>3. backup \in Block /\ SettledBlock(backup) /\ SafeBlock(backup)
  BY DEF TypeInv, TypeOK, CapsuleOnlyInv, BlockInv
<1>4. cmos = backup
  BY <1>1, <1>2, <1>3 DEF Torn, MarkSuccess, Block
<1>5. /\ FallbackSlots \subseteq FallbackSlots'
      /\ ProvenSlots \subseteq ProvenSlots'
      /\ ReportedSlots \subseteq ReportedSlots'
      /\ FallbackSurvives' /\ CounterWaits'
  BY <1>2, SlotsGrow
<1>6. run \in FallbackSlots' /\ run \in ReportedSlots'
  <2>1. run \in FallbackSlots
    BY <1>1 DEF FallbackSlots, Fallback
  <2>2. SlotImage(run) \in reported' /\ run \in ReportedSlots'
    BY <1>1, <1>2 DEF ReportedSlots, SlotImage
  <2> QED BY <1>5, <2>1, <2>2
<1>7. /\ cmos'.valid /\ ~cmos'.recovery /\ cmos'.tryCount = 0
      /\ cmos'.tryNext = run /\ cmos'.tried = run
      /\ cmos'.result = "success"
  BY <1>1, <1>2, <1>3, <1>4 DEF MarkSuccess, Block, SettledBlock, SafeBlock
<1>8. SafeBlock(cmos)'
  BY <1>6, <1>7 DEF SafeBlock
<1>9. SafeBlock(backup)'
  BY <1>2, <1>3, <1>5 DEF SafeBlock
<1>10. BlockInv'
  BY <1>1, <1>2, <1>3, <1>7, <1>8, <1>9 DEF BlockInv, SettledBlock
<1>11. RunInv'
  <2>1. Verifies(run)' = Verifies(run) /\ SlotImage(run)' = SlotImage(run)
    BY <1>2 DEF Verifies, PreambleOk, IsWhole, SlotImage
  <2> QED BY <1>1, <1>2, <1>4, <2>1 DEF RunInv, Booted
<1>12. CapsuleInv'
  BY <1>1, <1>2 DEF CapsuleOnlyInv, CapsuleInv
<1> QED BY <1>5, <1>10, <1>11, <1>12 DEF CapsuleOnlyInv

\* A capsule at hand means that the slot that runs has worked here.
LEMMA RunWorks ==
  ASSUME TypeInv, CapsuleOnlyInv, phase \in {"writing", "arming"},
         capsule # NoImage
  PROVE  /\ cmos = backup /\ cmos \in Block /\ SettledBlock(cmos)
         /\ SafeBlock(cmos) /\ cmos.result = "unknown"
         /\ run \in FallbackSlots /\ run = cmos.tryNext /\ run = cmos.tried
<1>1. /\ cmos = backup /\ backup.tried = run
      /\ backup.result = "unknown"
      /\ SettledBlock(backup) /\ SafeBlock(backup)
  BY DEF CapsuleOnlyInv, RunInv, CapsuleInv, BlockInv, Booted
<1> QED
  BY <1>1 DEF SettledBlock, SafeBlock, TypeInv, TypeOK

\* The block that arms the other slot can always lead back to this one.
LEMMA ArmedSafe ==
  ASSUME TypeInv, CapsuleOnlyInv, phase = "arming"
  PROVE  /\ SafeBlock(ArmTrialBoot(cmos, Other(run)))
         /\ ArmTrialBoot(cmos, Other(run)).result = "unknown"
<1>1. capsule # NoImage
  BY DEF CapsuleOnlyInv, CapsuleInv
<1>2. /\ cmos \in Block /\ SettledBlock(cmos)
      /\ SafeBlock(cmos) /\ cmos.result = "unknown"
      /\ run \in FallbackSlots /\ run = cmos.tryNext /\ run = cmos.tried
  BY <1>1, RunWorks
<1>3. run \in Slots /\ Other(Other(run)) = run
  BY <1>2, OtherSlot DEF FallbackSlots
<1>4. run \in ProvenSlots
  BY <1>2, FallbackProven
<1> DEFINE b == ArmTrialBoot(cmos, Other(run))
<1>5. /\ b.tryNext = Other(run) /\ b.tryCount = 1 /\ b.tried = run
      /\ b.result = "unknown" /\ ~b.recovery
  BY <1>2 DEF ArmTrialBoot, Block, SafeBlock
<1> HIDE DEF b
<1>6. SafeBlock(b)
  BY <1>3, <1>4, <1>5 DEF SafeBlock
<1> QED BY <1>5, <1>6 DEF b

\* Power lost, a reset, a wait in the OS: the steps after which the machine
\* holds the same flash, counter and history.
LEMMA CapsuleQuiet ==
  ASSUME TypeInv, CapsuleOnlyInv,
         UNCHANGED <<flash, counter, cameUp, reported>>
  PROVE  /\ FallbackSlots' = FallbackSlots
         /\ ProvenSlots' = ProvenSlots
         /\ ReportedSlots' = ReportedSlots
         /\ FallbackSurvives' /\ CounterWaits'
         /\ UNCHANGED <<cmos, backup>> => BlockInv'
         /\ run' = run =>
              Verifies(run)' = Verifies(run) /\ SlotImage(run)' = SlotImage(run)
<1>1. /\ FallbackSlots' = FallbackSlots
      /\ ProvenSlots' = ProvenSlots
      /\ ReportedSlots' = ReportedSlots
      /\ FallbackSurvives' /\ CounterWaits'
  BY SlotsSame DEF CapsuleOnlyInv
<1>2. UNCHANGED <<cmos, backup>> => BlockInv'
  BY <1>1 DEF CapsuleOnlyInv, BlockInv, SafeBlock, SettledBlock
<1>3. run' = run =>
         Verifies(run)' = Verifies(run) /\ SlotImage(run)' = SlotImage(run)
  BY DEF Verifies, PreambleOk, IsWhole, SlotImage
<1> QED BY <1>1, <1>2, <1>3
LEMMA CapsulePower ==
  TypeInv /\ CapsuleOnlyInv /\ (PowerOn \/ PowerOff \/ CmosLoss)
     => CapsuleOnlyInv'
<1> SUFFICES ASSUME TypeInv, CapsuleOnlyInv, PowerOn \/ PowerOff \/ CmosLoss
             PROVE  CapsuleOnlyInv'
  OBVIOUS
<1>1. /\ UNCHANGED <<flash, counter, cameUp, reported, backup>>
      /\ phase' \in {"off", "verstage"}
      /\ staged' = NoImage
      /\ cmos' \in {cmos, Torn(cmos)}
  BY DEF PowerOn, PowerOff, CmosLoss, ForgetBoot, CapsuleOnlyInv, CapsuleInv
<1>2. /\ FallbackSlots' = FallbackSlots
      /\ ProvenSlots' = ProvenSlots
      /\ ReportedSlots' = ReportedSlots
      /\ FallbackSurvives' /\ CounterWaits'
      /\ UNCHANGED <<cmos, backup>> => BlockInv'
  BY <1>1, CapsuleQuiet
<1>3. BlockInv'
  <2>1. CASE cmos' = cmos
    BY <1>1, <1>2, <2>1
  <2>2. CASE cmos' = Torn(cmos)
    <3>1. ~cmos'.valid
      BY <2>2 DEF Torn, TypeInv, TypeOK, Block
    <3> QED
      BY <1>1, <1>2, <3>1
         DEF CapsuleOnlyInv, BlockInv, SafeBlock, SettledBlock
  <2> QED BY <1>1, <2>1, <2>2
<1>4. RunInv' /\ CapsuleInv'
  BY <1>1 DEF RunInv, CapsuleInv, Booted
<1> QED BY <1>2, <1>3, <1>4 DEF CapsuleOnlyInv

LEMMA CapsulePowerCut ==
  TypeInv /\ CapsuleOnlyInv /\ (PowerCut \/ Arm) => CapsuleOnlyInv'
<1> SUFFICES ASSUME TypeInv, CapsuleOnlyInv, PowerCut \/ Arm
             PROVE  CapsuleOnlyInv'
  OBVIOUS
<1>1. /\ UNCHANGED <<flash, counter, cameUp, reported, backup>>
      /\ phase' \in {"off", "verstage"}
      /\ cmos' \in CmosAfterCut
  BY DEF PowerCut, Arm, CmosAfterCut, ResolveSlot
<1>2. staged' = NoImage
  BY DEF PowerCut, Arm, CapsuleOnlyInv, CapsuleInv
<1>3. /\ FallbackSlots' = FallbackSlots
      /\ ProvenSlots' = ProvenSlots
      /\ ReportedSlots' = ReportedSlots
      /\ FallbackSurvives' /\ CounterWaits'
      /\ UNCHANGED <<cmos, backup>> => BlockInv'
  BY <1>1, CapsuleQuiet
<1>4. BlockInv'
  <2>1. CASE cmos' = cmos
    BY <1>1, <1>3, <2>1
  <2>2. CASE phase = "arming" /\ cmos' = ArmTrialBoot(cmos, Other(run))
    <3>1. /\ SafeBlock(ArmTrialBoot(cmos, Other(run)))
          /\ ArmTrialBoot(cmos, Other(run)).result = "unknown"
      BY <2>2, ArmedSafe
    <3>2. SafeBlock(cmos)' /\ cmos'.result = "unknown"
      BY <1>3, <2>2, <3>1 DEF SafeBlock
    <3> QED
      BY <1>1, <1>3, <3>2 DEF CapsuleOnlyInv, BlockInv, SafeBlock, SettledBlock
  <2>3. CASE cmos' = Torn(cmos)
    <3>1. ~cmos'.valid
      BY <2>3 DEF Torn, TypeInv, TypeOK, Block
    <3> QED
      BY <1>1, <1>3, <3>1
         DEF CapsuleOnlyInv, BlockInv, SafeBlock, SettledBlock
  <2> QED BY <1>1, <2>1, <2>2, <2>3 DEF CmosAfterCut
<1>5. RunInv' /\ CapsuleInv'
  BY <1>1, <1>2 DEF RunInv, CapsuleInv, Booted
<1> QED BY <1>3, <1>4, <1>5 DEF CapsuleOnlyInv

LEMMA CapsuleProcessing ==
  TypeInv /\ CapsuleOnlyInv
    /\ ((\E i \in Images : SetImage(i)) \/ SkipBlock \/ RefuseBlock
         \/ SlotWritten)
    => CapsuleOnlyInv'
<1> SUFFICES ASSUME TypeInv, CapsuleOnlyInv,
                    (\E i \in Images : SetImage(i)) \/ SkipBlock
                      \/ RefuseBlock \/ SlotWritten
             PROVE  CapsuleOnlyInv'
  OBVIOUS
<1>1. /\ UNCHANGED <<flash, counter, cameUp, reported, backup, cmos, run,
                     image, staged, capsule>>
      /\ phase \in {"payload", "writing"}
      /\ phase' \in {"writing", "arming", "processed"}
      /\ staged = NoImage
  BY DEF SetImage, SkipBlock, RefuseBlock, SlotWritten, Writing,
         CapsuleOnlyInv, CapsuleInv
<1>2. /\ FallbackSurvives' /\ CounterWaits' /\ BlockInv'
      /\ Verifies(run)' = Verifies(run) /\ SlotImage(run)' = SlotImage(run)
  BY <1>1, CapsuleQuiet
<1>3. RunInv'
  BY <1>1, <1>2 DEF CapsuleOnlyInv, RunInv, Booted
<1>4. CapsuleInv'
  <2>1. CASE \E i \in Images : SetImage(i)
    <3>1. /\ phase = "payload"
          /\ \/ phase' = "processed"
             \/ phase' = "writing" /\ job'.next = 1 /\ ~job'.erased
      <4> PICK i \in Images : SetImage(i)
        BY <2>1
      <4>1. PICK status \in CheckImage(i) :
               IF status = "none"
               THEN /\ phase' = "writing"
                    /\ job' = [img |-> i, next |-> 1, erased |-> FALSE]
               ELSE phase' = "processed" /\ UNCHANGED job
        BY DEF SetImage
      <4>2. phase = "payload"
        BY DEF SetImage
      <4> QED BY <4>1, <4>2
    <3> QED BY <1>1, <3>1 DEF CapsuleOnlyInv, CapsuleInv
  <2>2. CASE SkipBlock
    BY <1>1, <2>2 DEF CapsuleOnlyInv, CapsuleInv, SkipBlock, HasCapsules, Writing
  <2>3. CASE RefuseBlock
    BY <1>1, <2>3 DEF CapsuleOnlyInv, CapsuleInv, RefuseBlock
  <2>4. CASE SlotWritten
    <3>1. capsule # NoImage
      BY <2>4, Constants DEF SlotWritten, CapsuleOnlyInv, CapsuleInv
    <3> QED BY <1>1, <2>4, <3>1 DEF SlotWritten, CapsuleOnlyInv, CapsuleInv
  <2> QED BY <2>1, <2>2, <2>3, <2>4
<1> QED BY <1>2, <1>3, <1>4 DEF CapsuleOnlyInv

LEMMA CapsuleAfter ==
  TypeInv /\ CapsuleOnlyInv
    /\ (ArmFails \/ ResetAfterCapsule \/ Reboot
         \/ \E i \in Images : StageCapsule(i))
    => CapsuleOnlyInv'
<1> SUFFICES ASSUME TypeInv, CapsuleOnlyInv,
                    ArmFails \/ ResetAfterCapsule \/ Reboot
                      \/ \E i \in Images : StageCapsule(i)
             PROVE  CapsuleOnlyInv'
  OBVIOUS
<1>1. UNCHANGED <<flash, counter, cameUp, reported, backup>>
  BY DEF ArmFails, ResetAfterCapsule, Reboot, StageCapsule
<1>2. /\ FallbackSlots' = FallbackSlots
      /\ ProvenSlots' = ProvenSlots
      /\ ReportedSlots' = ReportedSlots
      /\ FallbackSurvives' /\ CounterWaits'
      /\ UNCHANGED <<cmos, backup>> => BlockInv'
      /\ run' = run =>
           Verifies(run)' = Verifies(run) /\ SlotImage(run)' = SlotImage(run)
  BY <1>1, CapsuleQuiet
<1>3. CASE ArmFails
  <2>1. /\ phase = "arming" /\ phase' = "processed" /\ cmos = backup
        /\ cmos' \in {cmos, Torn(cmos)}
        /\ UNCHANGED <<run, image, staged, capsule>>
        /\ staged = NoImage
    BY <1>3 DEF ArmFails, CapsuleOnlyInv, RunInv, CapsuleInv
  <2>2. BlockInv'
    <3>1. CASE cmos' = cmos
      BY <1>1, <1>2, <3>1
    <3>2. CASE cmos' = Torn(cmos)
      <4>1. ~cmos'.valid
        BY <3>2 DEF Torn, TypeInv, TypeOK, Block
      <4> QED
        BY <1>1, <1>2, <4>1
           DEF CapsuleOnlyInv, BlockInv, SafeBlock, SettledBlock
    <3> QED BY <2>1, <3>1, <3>2
  <2>3. RunInv'
    BY <1>1, <1>2, <2>1 DEF CapsuleOnlyInv, RunInv, Booted
  <2>4. CapsuleInv'
    BY <2>1 DEF CapsuleInv
  <2> QED BY <1>2, <2>2, <2>3, <2>4 DEF CapsuleOnlyInv
<1>4. CASE ResetAfterCapsule
  <2>1. /\ phase = "processed" /\ phase' = "verstage"
        /\ UNCHANGED <<cmos, staged>> /\ staged = NoImage
    BY <1>4 DEF ResetAfterCapsule, CapsuleOnlyInv, CapsuleInv
  <2>2. RunInv' /\ CapsuleInv'
    BY <2>1 DEF RunInv, CapsuleInv, Booted
  <2> QED BY <1>1, <1>2, <2>1, <2>2 DEF CapsuleOnlyInv
<1>5. CASE Reboot
  <2>1. /\ phase = "os" /\ phase' = "verstage" /\ UNCHANGED <<cmos, staged>>
        /\ cmos \in {backup, Torn(backup), MarkSuccess(backup)}
        /\ SettledBlock(backup) /\ backup \in Block
    BY <1>5 DEF Reboot, CapsuleOnlyInv, RunInv, BlockInv, TypeInv, TypeOK
  <2>2. Nv.tryCount = 0
    BY <2>1 DEF Nv, MarkSuccess, Torn, SettledBlock, Block
  <2>3. Nv' = Nv
    BY <1>1, <2>1 DEF Nv
  <2>4. RunInv' /\ CapsuleInv'
    BY <2>1, <2>2, <2>3 DEF RunInv, CapsuleInv, Booted
  <2> QED BY <1>1, <1>2, <2>1, <2>4 DEF CapsuleOnlyInv
<1>6. CASE \E i \in Images : StageCapsule(i)
  <2>1. /\ phase = "os" /\ UNCHANGED <<cmos, phase, run, image, capsule, job>>
    BY <1>6 DEF StageCapsule, InOs
  <2>2. RunInv'
    BY <1>1, <1>2, <2>1 DEF CapsuleOnlyInv, RunInv, Booted
  <2>3. CapsuleInv'
    BY <2>1 DEF CapsuleInv
  <2> QED BY <1>1, <1>2, <2>1, <2>2, <2>3 DEF CapsuleOnlyInv
<1> QED BY <1>3, <1>4, <1>5, <1>6

-----------------------------------------------------------------------------
(* Steps that write the other slot *)

LEMMA CapsuleWrites ==
  TypeInv /\ CapsuleOnlyInv /\ (EraseBlock \/ WriteBlock \/ FailBlock)
    => CapsuleOnlyInv'
<1> SUFFICES ASSUME TypeInv, CapsuleOnlyInv,
                    EraseBlock \/ WriteBlock \/ FailBlock
             PROVE  CapsuleOnlyInv'
  OBVIOUS
<1>1. /\ phase = "writing" /\ capsule # NoImage /\ staged = NoImage
      /\ UNCHANGED <<counter, cameUp, reported, backup, cmos, run, image,
                     staged, capsule>>
      /\ phase' \in {"writing", "processed"}
  BY DEF EraseBlock, WriteBlock, FailBlock, Writing, HasCapsules,
         CapsuleOnlyInv, CapsuleInv
<1>2. /\ cmos = backup /\ cmos \in Block /\ SettledBlock(cmos)
      /\ SafeBlock(cmos) /\ cmos.result = "unknown"
      /\ run \in FallbackSlots /\ run = cmos.tryNext /\ run = cmos.tried
  BY <1>1, RunWorks
<1>3. flash'[run] = flash[run]
  <2>1. \E k \in Blocks : \E c : flash' = [flash EXCEPT ![Other(run)][k] = c]
        \/ flash' = flash
    BY DEF EraseBlock, WriteBlock, FailBlock, Writing, ResolveSlot
  <2>2. run \in Slots /\ Other(run) # run
        /\ flash \in [Slots -> [Blocks -> Content]]
    BY <1>2, OtherSlot DEF FallbackSlots, TypeInv, TypeOK
  <2> QED BY <2>1, <2>2
<1>4. Verifies(run)' = Verifies(run) /\ SlotImage(run)' = SlotImage(run)
  BY <1>1, <1>3 DEF Verifies, PreambleOk, IsWhole, SlotImage
<1>5. run \in FallbackSlots'
  BY <1>1, <1>2, <1>3, <1>4 DEF FallbackSlots, Fallback
<1>6. SafeBlock(cmos)' /\ SafeBlock(backup)'
  BY <1>1, <1>2, <1>5 DEF SafeBlock, SettledBlock
<1>7. BlockInv'
  BY <1>1, <1>2, <1>6 DEF BlockInv, SettledBlock
<1>8. RunInv'
  BY <1>1, <1>2, <1>3, <1>4 DEF CapsuleOnlyInv, RunInv, Booted
<1>9. CapsuleInv'
  BY <1>1 DEF CapsuleOnlyInv, CapsuleInv
<1>10. FallbackSurvives'
  BY <1>5 DEF FallbackSlots, FallbackSurvives
<1>11. CounterWaits'
  BY <1>1 DEF CapsuleOnlyInv, CounterWaits
<1> QED BY <1>7, <1>8, <1>9, <1>10, <1>11 DEF CapsuleOnlyInv

LEMMA NoRecovery ==
  TypeInv /\ CapsuleOnlyInv => ~EnterRecovery
BY NvSafe DEF EnterRecovery, CapsuleOnlyInv, SafeBlock

LEMMA CapsuleStep ==
  ASSUME OsOps \subseteq {"stage"}
  PROVE  TypeInv /\ CapsuleOnlyInv /\ [Next]_vars => CapsuleOnlyInv'
<1> SUFFICES ASSUME TypeInv, CapsuleOnlyInv, [Next]_vars
             PROVE  CapsuleOnlyInv'
  OBVIOUS
<1>1. CASE UNCHANGED vars
  <2>1. UNCHANGED <<flash, counter, cameUp, reported, cmos, backup, phase,
                    run, image, staged, capsule, job>>
    BY <1>1 DEF vars
  <2>2. /\ BlockInv' /\ FallbackSurvives' /\ CounterWaits'
        /\ Verifies(run)' = Verifies(run) /\ SlotImage(run)' = SlotImage(run)
    BY <2>1, CapsuleQuiet
  <2>3. RunInv' /\ CapsuleInv'
    BY <2>1, <2>2 DEF CapsuleOnlyInv, RunInv, CapsuleInv, Booted, Nv
  <2> QED BY <2>2, <2>3 DEF CapsuleOnlyInv
<1>2. CASE Firmware
  BY <1>2, NoRecovery, CapsulePower, CapsuleBootSlot, CapsuleRejectSlot,
     CapsuleRamstage, CapsuleBootOs, CapsuleAfter, CapsuleProcessing,
     CapsuleWrites, CapsulePowerCut DEF Firmware
<1>3. CASE Fault \/ PowerOff
  BY <1>3, CapsulePower, CapsulePowerCut, CapsuleWrites, CapsuleAfter DEF Fault
<1>4. CASE Os
  <2>1. BootOk \/ Reboot \/ \E i \in Images : StageCapsule(i)
    BY <1>4 DEF Os, InOs, CmdArmUpdate, CmdTryNext, FlashSlot, FlashCut
  <2> QED BY <2>1, CapsuleBootOk, CapsuleAfter
<1> QED BY <1>1, <1>2, <1>3, <1>4 DEF Next

\* However many updates a machine is given by capsule, whatever they carry and
\* wherever each is cut short, a release that has worked here stays bootable.
THEOREM FallbackAlways ==
  ASSUME OsOps \subseteq {"stage"}
  PROVE  Spec => []FallbackSurvives
<1>1. Init => TypeInv /\ CapsuleOnlyInv
  BY TypeInit, CapsuleInit
<1>2. TypeInv /\ CapsuleOnlyInv /\ [Next]_vars => (TypeInv /\ CapsuleOnlyInv)'
  BY TypeStep, CapsuleStep
<1> QED
  BY <1>1, <1>2, PTL DEF Spec, CapsuleOnlyInv

\* And the rollback counter never passes the version of such a release before
\* that release has reported success.
THEOREM CounterAlways ==
  ASSUME OsOps \subseteq {"stage"}
  PROVE  Spec => []CounterWaits
<1>1. Init => TypeInv /\ CapsuleOnlyInv
  BY TypeInit, CapsuleInit
<1>2. TypeInv /\ CapsuleOnlyInv /\ [Next]_vars => (TypeInv /\ CapsuleOnlyInv)'
  BY TypeStep, CapsuleStep
<1> QED
  BY <1>1, <1>2, PTL DEF Spec, CapsuleOnlyInv

-----------------------------------------------------------------------------
(* Updates with flashrom and vbnv.py alone                                   *)

FlashromOps == {"flash", "arm", "trynext"}

LEMMA FlashromInit == Init => FlashromOnlyInv
<1> SUFFICES ASSUME Init PROVE FlashromOnlyInv
  OBVIOUS
<1>1. FallbackSurvives /\ CounterWaits
  BY CapsuleInit DEF CapsuleOnlyInv
<1> QED BY <1>1 DEF Init, FlashromOnlyInv, RunningInv, ClosedInv, VouchInv,
                    Booted, FreshBlock

\* A roll-forward only happens to the slot that reported.
LEMMA FlashromRoll ==
  ASSUME TypeInv, FlashromOnlyInv,
         RolledCounter(Nv, SelectedSlot(Nv)) # counter
  PROVE  /\ SelectedSlot(Nv) \in FallbackSlots \cap ReportedSlots
         /\ RolledCounter(Nv, SelectedSlot(Nv))
              = Version[SlotImage(SelectedSlot(Nv))]
         /\ Version[SlotImage(SelectedSlot(Nv))] > counter
<1>1. /\ Nv.tried = SelectedSlot(Nv)
      /\ Nv.result = "success"
      /\ RolledCounter(Nv, SelectedSlot(Nv))
           = Version[SlotImage(SelectedSlot(Nv))]
      /\ Version[SlotImage(SelectedSlot(Nv))] > counter
  BY DEF RolledCounter
<1>2. Nv = cmos
  BY <1>1 DEF Nv, FlashromOnlyInv, VouchInv
<1> QED BY <1>1, <1>2 DEF FlashromOnlyInv, VouchInv

LEMMA FlashromBootSlot ==
  TypeInv /\ FlashromOnlyInv /\ BootSlot => FlashromOnlyInv'
<1> SUFFICES ASSUME TypeInv, FlashromOnlyInv, BootSlot PROVE FlashromOnlyInv'
  OBVIOUS
<1> PICK s \in Slots : s = SelectedSlot(Nv)
  BY NvType, BlockChoice DEF TypeInv
<1>1. /\ Verifies(s)
      /\ cmos' = SelectFwSlot(Nv)
      /\ counter' = RolledCounter(Nv, s)
      /\ run' = s /\ image' = SlotImage(s) /\ phase' = "romstage"
      /\ phase = "verstage"
      /\ UNCHANGED <<flash, backup, staged, capsule, job, cameUp, reported>>
  BY DEF BootSlot
<1>2. Nv \in Block /\ Nv.valid /\ ~Nv.recovery
  BY NvType DEF Nv, TypeInv, FlashromOnlyInv, VouchInv
<1>3. /\ cmos'.valid /\ ~cmos'.recovery /\ cmos'.tried = s
      /\ cmos'.result \in {"unknown", "trying"}
  BY <1>1, <1>2 DEF SelectFwSlot, Block
<1>4. /\ Verifies(s)' /\ SlotImage(s)' = SlotImage(s)
      /\ FallbackSurvives' /\ CounterWaits'
  <2>1. CASE counter' = counter
    BY <1>1, <2>1, SlotsSame DEF FlashromOnlyInv
  <2>2. CASE counter' # counter
    <3>1. /\ s \in FallbackSlots \cap ReportedSlots
          /\ counter' = Version[SlotImage(s)] /\ counter' > counter
      BY <1>1, <2>2, FlashromRoll
    <3>2. s \in FallbackSlots' /\ Verifies(s)'
      BY <1>1, <3>1, SlotsRolled
    <3>3. SlotImage(s)' = SlotImage(s)
      BY <1>1 DEF SlotImage
    <3>4. FallbackSurvives'
      BY <3>2 DEF FallbackSlots, FallbackSurvives
    <3>5. SlotImage(s) \in reported \cap cameUp
      BY <3>1 DEF FallbackSlots, ReportedSlots, Fallback
    <3>6. CounterWaits'
      BY <1>1, <3>1, <3>5 DEF CounterWaits
    <3> QED BY <3>2, <3>3, <3>4, <3>6
  <2> QED BY <2>1, <2>2
<1>5. Verifies(run)' /\ image' = SlotImage(run)'
  BY <1>1, <1>4 DEF Verifies, PreambleOk, IsWhole, SlotImage
<1>6. RunningInv'
  BY <1>1, <1>3, <1>5 DEF RunningInv, Booted
<1>7. ClosedInv' /\ VouchInv'
  BY <1>1, <1>3 DEF FlashromOnlyInv, ClosedInv, VouchInv
<1> QED BY <1>4, <1>6, <1>7 DEF FlashromOnlyInv

LEMMA FlashromRejectSlot ==
  TypeInv /\ FlashromOnlyInv /\ RejectSlot => FlashromOnlyInv'
<1> SUFFICES ASSUME TypeInv, FlashromOnlyInv, RejectSlot PROVE FlashromOnlyInv'
  OBVIOUS
<1> PICK s \in Slots : s = SelectedSlot(Nv)
  BY NvType, BlockChoice DEF TypeInv
<1>1. /\ ~Verifies(s)
      /\ cmos' = FailFwSlot(Nv)
      /\ counter' = RolledCounter(Nv, s)
      /\ phase = "verstage"
      /\ UNCHANGED <<flash, backup, phase, run, image, staged, capsule, job,
                     cameUp, reported>>
  BY DEF RejectSlot
<1>2. s \notin FallbackSlots
  BY <1>1 DEF FallbackSlots, Fallback
<1>3. counter' = counter
  BY <1>1, <1>2, FlashromRoll
<1>4. /\ FallbackSurvives' /\ CounterWaits' /\ ~Verifies(s)'
  BY <1>1, <1>3, SlotsSame DEF FlashromOnlyInv
<1>5. Verifies(Other(s))
  <2>1. PICK t \in Slots : Fallback(t)
    BY DEF FlashromOnlyInv, FallbackSurvives
  <2>2. t # s
    BY <1>1, <2>1 DEF Fallback
  <2>3. t = Other(s)
    BY <2>2, OtherSlot
  <2> QED BY <2>1, <2>3 DEF Fallback
<1>6. ~(Nv.tried = Other(s) /\ Nv.result = "failure")
  <2>1. Nv.result = "failure" => Nv = cmos
    BY DEF Nv, FlashromOnlyInv, VouchInv
  <2> QED BY <1>5, <2>1 DEF FlashromOnlyInv, VouchInv
<1>7. Nv \in Block
  BY NvType DEF TypeInv
<1>8. ~cmos'.recovery /\ cmos'.tried = s /\ cmos'.result = "failure"
  BY <1>1, <1>6, <1>7 DEF FailFwSlot, Block
<1>9. ~Verifies(cmos.tried)'
  BY <1>4, <1>8 DEF Verifies, PreambleOk, IsWhole, SlotImage
<1>10. RunningInv' /\ ClosedInv'
  BY <1>1 DEF FlashromOnlyInv, RunningInv, ClosedInv, Booted
<1>11. VouchInv'
  BY <1>1, <1>8, <1>9 DEF FlashromOnlyInv, VouchInv
<1> QED BY <1>4, <1>10, <1>11 DEF FlashromOnlyInv

LEMMA FlashromRamstage ==
  TypeInv /\ FlashromOnlyInv /\ Ramstage => FlashromOnlyInv'
<1> SUFFICES ASSUME TypeInv, FlashromOnlyInv, Ramstage PROVE FlashromOnlyInv'
  OBVIOUS
<1>1. /\ phase = "romstage" /\ run \in Slots /\ cmos.tried = run
      /\ cmos.valid /\ cmos.result \in {"unknown", "trying"}
      /\ ~cmos.recovery /\ cmos \in Block /\ Nv = cmos
      /\ UNCHANGED <<flash, counter, run, image, job, cameUp, reported>>
  BY DEF Ramstage, FlashromOnlyInv, RunningInv, VouchInv, Booted, Nv, TypeInv,
         TypeOK
<1>2. [cmos EXCEPT !.recovery = FALSE] = cmos
  BY <1>1, NotRequested
<1>3. /\ cmos' = cmos /\ backup' \in {backup, cmos}
      /\ staged' = NoImage /\ capsule' = NoImage
      /\ phase' = IF HangsEarly THEN "hung" ELSE "payload"
  <2>1. staged = NoImage /\ capsule = NoImage
    BY DEF FlashromOnlyInv, ClosedInv
  <2>2. CASE HangsEarly
    BY <2>1, <2>2 DEF Ramstage
  <2>3. CASE ~HangsEarly
    BY <1>1, <1>2, <2>1, <2>3 DEF Ramstage
  <2> QED BY <2>2, <2>3
<1>4. /\ FallbackSlots' = FallbackSlots /\ ReportedSlots' = ReportedSlots
      /\ FallbackSurvives' /\ CounterWaits'
      /\ Verifies(run)' = Verifies(run) /\ SlotImage(run)' = SlotImage(run)
  BY <1>1, SlotsSame DEF FlashromOnlyInv, Verifies, PreambleOk, IsWhole,
                         SlotImage
<1>5. phase' = "payload" => flash'[run][1].half = run
  BY <1>1, <1>3 DEF HangsEarly
<1>6. RunningInv'
  BY <1>1, <1>3, <1>4, <1>5 DEF FlashromOnlyInv, RunningInv, Booted
<1>7. ClosedInv' /\ VouchInv'
  BY <1>1, <1>3, <1>4 DEF FlashromOnlyInv, ClosedInv, VouchInv
<1> QED BY <1>4, <1>6, <1>7 DEF FlashromOnlyInv

\* Steps that keep flash, the counter and the block.
LEMMA FlashromQuiet ==
  ASSUME FlashromOnlyInv, UNCHANGED <<flash, counter, backup>>,
         cameUp \subseteq cameUp', reported \subseteq reported',
         cmos' = cmos \/ cmos' = Torn(cmos), TypeInv
  PROVE  /\ FallbackSurvives' /\ CounterWaits'
         /\ phase' \in {phase, "off", "verstage"} => VouchInv'
         /\ cmos.result # "failure" => VouchInv'
         /\ cmos'.tried = cmos.tried
         /\ Verifies(run) /\ run' = run => Verifies(run)'
         /\ run' = run => SlotImage(run)' = SlotImage(run)
<1>1. /\ cmos'.recovery = cmos.recovery /\ cmos'.tried = cmos.tried
      /\ cmos'.result = cmos.result
  BY DEF TypeInv, TypeOK, Block, Torn
<1>2. /\ FallbackSlots \subseteq FallbackSlots'
      /\ ReportedSlots \subseteq ReportedSlots'
      /\ FallbackSurvives' /\ CounterWaits'
  BY SlotsGrowing DEF FlashromOnlyInv
<1>3. /\ Verifies(cmos.tried)' = Verifies(cmos.tried)
      /\ run' = run => Verifies(run)' = Verifies(run)
      /\ run' = run => SlotImage(run)' = SlotImage(run)
  BY <1>1 DEF Verifies, PreambleOk, IsWhole, SlotImage
<1>4. cmos.result # "failure" => VouchInv'
  BY <1>1, <1>2, <1>3 DEF FlashromOnlyInv, VouchInv
<1>5. phase' \in {phase, "off", "verstage"} => VouchInv'
  BY <1>1, <1>2, <1>3 DEF FlashromOnlyInv, VouchInv
<1> QED BY <1>1, <1>2, <1>3, <1>4, <1>5

\* Power comes and goes; the machine forgets what it was doing.
LEMMA FlashromPower ==
  ASSUME TypeInv, FlashromOnlyInv,
         PowerOn \/ PowerCut \/ PowerOff \/ CmosLoss \/ Reboot
           \/ ResetAfterCapsule
  PROVE  FlashromOnlyInv'
<1>1. /\ UNCHANGED <<flash, counter, backup, cameUp, reported>>
      /\ cmos' = cmos \/ cmos' = Torn(cmos)
      /\ phase' \in {"off", "verstage"}
      /\ staged' \in {staged, NoImage} /\ capsule' \in {capsule, NoImage}
  BY DEF PowerOn, PowerCut, CmosAfterCut, PowerOff, CmosLoss, Reboot,
         ResetAfterCapsule, ForgetBoot, FlashromOnlyInv, ClosedInv
<1>2. FallbackSurvives' /\ CounterWaits' /\ VouchInv'
  BY <1>1, FlashromQuiet
<1>3. RunningInv' /\ ClosedInv'
  BY <1>1 DEF FlashromOnlyInv, RunningInv, ClosedInv, Booted
<1> QED BY <1>2, <1>3 DEF FlashromOnlyInv

LEMMA FlashromBootOs ==
  ASSUME TypeInv, FlashromOnlyInv, BootOs
  PROVE  FlashromOnlyInv'
<1>1. /\ phase \in {"processed", "payload"}
      /\ UNCHANGED <<flash, cmos, backup, counter, run, image, staged,
                     capsule, job, reported>>
      /\ run \in Slots
      /\ \/ phase' = "hung" /\ cameUp' = cameUp
         \/ phase' = "os" /\ cameUp' = cameUp \cup {image}
  BY DEF BootOs, FlashromOnlyInv, RunningInv, Booted
<1>2. /\ cmos.result # "failure" /\ Verifies(run) /\ image = SlotImage(run)
      /\ cmos.tried = run /\ flash[run][1].half = run
  BY <1>1 DEF FlashromOnlyInv, VouchInv, RunningInv, Booted
<1>3. /\ FallbackSurvives' /\ CounterWaits' /\ VouchInv'
      /\ Verifies(run)' /\ SlotImage(run)' = SlotImage(run)
  BY <1>1, <1>2, FlashromQuiet
<1>4. RunningInv'
  BY <1>1, <1>2, <1>3 DEF RunningInv, Booted
<1>5. ClosedInv'
  BY <1>1 DEF FlashromOnlyInv, ClosedInv
<1> QED BY <1>3, <1>4, <1>5 DEF FlashromOnlyInv

\* Without a capsule in the boot the driver gets as far as a refused block.
LEMMA FlashromSetImage ==
  ASSUME TypeInv, FlashromOnlyInv,
         RefuseBlock \/ \E i \in Images : SetImage(i)
  PROVE  FlashromOnlyInv'
<1>1. /\ phase \in {"payload", "writing"}
      /\ phase' \in {"writing", "processed"}
      /\ UNCHANGED <<flash, cmos, backup, counter, run, image, staged,
                     capsule, cameUp, reported>>
      /\ phase' = "writing" => job'.next = 1 /\ ~job'.erased
  BY DEF RefuseBlock, Writing, SetImage
<1>2. /\ run \in Slots /\ cmos.result # "failure" /\ Verifies(run)
      /\ image = SlotImage(run)
      /\ cmos.tried = run /\ flash[run][1].half = run
  BY <1>1 DEF FlashromOnlyInv, VouchInv, RunningInv, Booted
<1>3. /\ FallbackSurvives' /\ CounterWaits' /\ VouchInv'
      /\ Verifies(run)' /\ SlotImage(run)' = SlotImage(run)
  BY <1>1, <1>2, FlashromQuiet
<1>4. RunningInv'
  BY <1>1, <1>2, <1>3 DEF RunningInv, Booted
<1>5. ClosedInv'
  BY <1>1 DEF FlashromOnlyInv, ClosedInv
<1> QED BY <1>3, <1>4, <1>5 DEF FlashromOnlyInv

\* The steps that need a capsule, or a request for recovery, are not taken.
LEMMA FlashromNever ==
  ASSUME TypeInv, FlashromOnlyInv
  PROVE  /\ ~SkipBlock /\ ~EraseBlock /\ ~WriteBlock /\ ~FailBlock
         /\ ~SlotWritten /\ ~Arm /\ ~ArmFails
         /\ ~EnterRecovery
<1>1. ~HasCapsules /\ phase # "arming"
      /\ (phase = "writing" => job.next = 1 /\ ~job.erased)
  BY DEF FlashromOnlyInv, ClosedInv, HasCapsules
<1>2. ~Nv.recovery
  BY DEF FlashromOnlyInv, VouchInv, Nv
<1>3. NBlocks + 1 # 1
  BY Constants
<1> QED BY <1>1, <1>2, <1>3 DEF SkipBlock, EraseBlock, WriteBlock, FailBlock,
           Writing, SlotWritten, Arm, ArmFails, EnterRecovery

\* In the OS the slot that runs is a fallback.
LEMMA RunningWorks ==
  ASSUME FlashromOnlyInv, phase = "os"
  PROVE  /\ run \in Slots /\ cmos.tried = run /\ run \in FallbackSlots
         /\ image = SlotImage(run) /\ cmos.result # "failure"
BY DEF FlashromOnlyInv, RunningInv, VouchInv, Booted, FallbackSlots, Fallback

LEMMA FlashromEdits ==
  ASSUME TypeInv, FlashromOnlyInv,
         \/ BootOk
         \/ \E s \in Slots, n \in 1 .. MaxTries : CmdArmUpdate(s, n)
         \/ \E s \in Slots : CmdTryNext(s)
  PROVE  FlashromOnlyInv'
<1>1. /\ phase = "os" /\ phase' = phase
      /\ UNCHANGED <<flash, backup, counter, run, image, staged, capsule,
                     job, cameUp>>
  BY DEF BootOk, CmdArmUpdate, CmdTryNext, InOs
<1>2. /\ run \in Slots /\ cmos.tried = run /\ run \in FallbackSlots
      /\ image = SlotImage(run) /\ cmos.result # "failure"
  BY <1>1, RunningWorks
<1>3. /\ cmos'.tried = run /\ ~cmos'.recovery
      /\ \/ cmos'.result = cmos.result /\ reported' = reported
         \/ cmos'.result = "success" /\ reported' = reported \cup {image}
  <2>1. cmos \in Block /\ ~cmos.recovery
    BY DEF TypeInv, TypeOK, FlashromOnlyInv, VouchInv
  <2>2. CASE BootOk
    BY <1>2, <2>1, <2>2 DEF BootOk, MarkSuccess, Block
  <2>3. CASE \E s \in Slots, n \in 1 .. MaxTries : CmdArmUpdate(s, n)
    BY <1>2, <2>1, <2>3 DEF CmdArmUpdate, ArmUpdate, Block
  <2>4. CASE \E s \in Slots : CmdTryNext(s)
    BY <1>2, <2>1, <2>4 DEF CmdTryNext, SelectNext, Block
  <2> QED BY <2>2, <2>3, <2>4
<1>4. /\ FallbackSlots \subseteq FallbackSlots'
      /\ ReportedSlots \subseteq ReportedSlots'
      /\ FallbackSurvives' /\ CounterWaits'
  BY <1>1, <1>3, SlotsGrowing DEF FlashromOnlyInv
<1>5. SlotImage(run)' = SlotImage(run) /\ Verifies(run)' = Verifies(run)
  BY <1>1 DEF Verifies, PreambleOk, IsWhole, SlotImage
<1>6. cmos'.result = "success" => run \in ReportedSlots'
  <2>1. CASE cmos'.result = cmos.result
    BY <1>2, <1>4, <2>1 DEF FlashromOnlyInv, VouchInv
  <2>2. CASE reported' = reported \cup {image}
    BY <1>1, <1>2, <1>5, <2>2 DEF ReportedSlots, SlotImage
  <2> QED BY <1>3, <2>1, <2>2
<1>7. VouchInv'
  BY <1>1, <1>2, <1>3, <1>4, <1>6 DEF FlashromOnlyInv, VouchInv
<1>8. RunningInv' /\ ClosedInv'
  BY <1>1, <1>3, <1>5 DEF FlashromOnlyInv, RunningInv, ClosedInv, Booted
<1> QED BY <1>4, <1>7, <1>8 DEF FlashromOnlyInv

\* Whatever is written over the other slot, whole or cut short.
LEMMA FlashromWrites ==
  ASSUME TypeInv, FlashromOnlyInv, OsOps \subseteq FlashromOps,
         \/ \E s \in Slots, i \in Fits : FlashSlot(s, i)
         \/ \E s \in Slots, i \in Fits, k \in Blocks : FlashCut(s, i, k)
  PROVE  FlashromOnlyInv'
<1>1. /\ phase = "os" /\ phase' \in {"os", "off"}
      /\ UNCHANGED <<cmos, backup, counter, cameUp, reported>>
      /\ phase' = "os" => UNCHANGED <<run, image>>
      /\ staged' \in {staged, NoImage} /\ capsule' \in {capsule, NoImage}
  BY DEF FlashSlot, FlashCut, InOs, ForgetBoot
<1>2. /\ run \in Slots /\ cmos.tried = run /\ run \in FallbackSlots
      /\ image = SlotImage(run) /\ cmos.result # "failure"
  BY <1>1, RunningWorks
<1> PICK r \in Slots : r = run
  BY <1>2
<1>3. PICK s \in Slots : s # r /\ \E f : flash' = [flash EXCEPT ![s] = f]
  BY <1>2 DEF FlashSlot, FlashCut, MayTouch, FlashromOps
<1>4. flash'[r] = flash[r]
  BY <1>3 DEF TypeInv, TypeOK
<1>5. /\ SlotImage(r)' = SlotImage(r) /\ Verifies(r)' = Verifies(r)
      /\ Fallback(r)'
  BY <1>1, <1>2, <1>4 DEF FallbackSlots, Fallback, Verifies, PreambleOk,
                          IsWhole, SlotImage
<1>6. FallbackSurvives' /\ CounterWaits'
  BY <1>1, <1>5 DEF FallbackSurvives, CounterWaits, FlashromOnlyInv
<1>7. r \in FallbackSlots' /\ (r \in ReportedSlots => r \in ReportedSlots')
  BY <1>1, <1>5 DEF FallbackSlots, ReportedSlots
<1>8. VouchInv'
  BY <1>1, <1>2, <1>7 DEF FlashromOnlyInv, VouchInv
<1>9. phase' = "os" => /\ Verifies(run)' /\ image' = SlotImage(run)'
                       /\ flash'[run'][1].half = run'
  <2>1. Verifies(r) /\ flash[r][1].half = r
    BY <1>2 DEF FallbackSlots, Fallback
  <2> QED BY <1>1, <1>2, <1>4, <1>5, <2>1 DEF Verifies, PreambleOk, IsWhole,
                                              SlotImage
<1>10. RunningInv'
  BY <1>1, <1>2, <1>9 DEF FlashromOnlyInv, RunningInv, Booted
<1>11. ClosedInv'
  BY <1>1 DEF FlashromOnlyInv, ClosedInv
<1> QED BY <1>6, <1>8, <1>10, <1>11 DEF FlashromOnlyInv

LEMMA FlashromStep ==
  ASSUME OsOps \subseteq FlashromOps
  PROVE  TypeInv /\ FlashromOnlyInv /\ [Next]_vars => FlashromOnlyInv'
<1> SUFFICES ASSUME TypeInv, FlashromOnlyInv, [Next]_vars
             PROVE  FlashromOnlyInv'
  OBVIOUS
<1>1. CASE UNCHANGED vars
  BY <1>1 DEF vars, FlashromOnlyInv, RunningInv, ClosedInv, VouchInv, Booted,
     FallbackSurvives, CounterWaits, FallbackSlots, ReportedSlots, Fallback,
     Verifies, PreambleOk, IsWhole, SlotImage
<1>2. CASE Firmware
  BY <1>2, FlashromNever, FlashromPower, FlashromBootSlot, FlashromRejectSlot,
     FlashromRamstage, FlashromBootOs, FlashromSetImage DEF Firmware
<1>3. CASE Fault \/ PowerOff
  BY <1>3, FlashromNever, FlashromPower DEF Fault
<1>4. CASE Os
  <2>1. ~ \E i \in Images : StageCapsule(i)
    BY DEF StageCapsule, InOs, FlashromOps
  <2> QED BY <1>4, <2>1, FlashromPower, FlashromEdits, FlashromWrites DEF Os
<1> QED BY <1>1, <1>2, <1>3, <1>4 DEF Next

LEMMA FlashromOnly ==
  ASSUME OsOps \subseteq FlashromOps
  PROVE  Spec => [](TypeInv /\ FlashromOnlyInv)
BY TypeInit, FlashromInit, TypeStep, FlashromStep, PTL DEF Spec

\* However many releases are flashed from the OS over the slot not running,
\* armed for any number of tries or selected outright, and wherever flashrom
\* is cut short: a release that has worked here stays bootable.
THEOREM FlashromFallbackAlways ==
  ASSUME OsOps \subseteq {"flash", "arm", "trynext"}
  PROVE  Spec => []FallbackSurvives
<1>1. FlashromOnlyInv => FallbackSurvives
  BY DEF FlashromOnlyInv
<1> QED BY <1>1, FlashromOnly, PTL DEF FlashromOps

\* And the rollback counter waits for such a release to report.
THEOREM FlashromCounterAlways ==
  ASSUME OsOps \subseteq {"flash", "arm", "trynext"}
  PROVE  Spec => []CounterWaits
<1>1. FlashromOnlyInv => CounterWaits
  BY DEF FlashromOnlyInv
<1> QED BY <1>1, FlashromOnly, PTL DEF FlashromOps

-----------------------------------------------------------------------------
(* Trials and the rollback counter                                           *)

LEMMA CounterMoves ==
  ASSUME [Next]_vars, counter' # counter
  PROVE  /\ RolledCounter(Nv, SelectedSlot(Nv)) # counter
         /\ \/ Verifies(SelectedSlot(Nv)) /\ image' = SlotImage(SelectedSlot(Nv))
            \/ ~Verifies(SelectedSlot(Nv))
         /\ reported' = reported
<1>1. BootSlot \/ RejectSlot
  BY DEF Next, vars, Firmware, Fault, Os, PowerOn, EnterRecovery, Ramstage,
         BootOs, ResetAfterCapsule, SetImage, SkipBlock, EraseBlock, WriteBlock,
         RefuseBlock, FailBlock, SlotWritten, Arm, ArmFails, PowerCut, PowerOff,
         CmosLoss, BootOk, CmdArmUpdate, CmdTryNext, FlashSlot, FlashCut,
         StageCapsule, Reboot
<1> QED BY <1>1 DEF BootSlot, RejectSlot

\* arm-update's promise, that the rollback counter cannot move until the new
\* image itself reports success, is kept as long as updates go to the slot not
\* running, from the OS.
THEOREM FlashromTrialsWait ==
  ASSUME OsOps \subseteq {"flash", "arm", "trynext"}
  PROVE  Spec => TrialHoldsCounter
<1>1. ASSUME TypeInv, FlashromOnlyInv, [Next]_vars, counter' # counter
      PROVE  image' \in reported'
  <2>1. SelectedSlot(Nv) \in FallbackSlots \cap ReportedSlots
    BY <1>1, CounterMoves, FlashromRoll
  <2> QED BY <1>1, <2>1, CounterMoves DEF FallbackSlots, Fallback, ReportedSlots
<1>2. TypeInv /\ FlashromOnlyInv /\ [Next]_vars =>
        [(counter' # counter /\ cmos'.result = "trying")
           => image' \in reported]_vars
  BY <1>1, CounterMoves
<1> QED BY <1>2, FlashromOnly, PTL DEF FlashromOps, Spec, TrialHoldsCounter

\* And as long as all updates are capsules.
THEOREM CapsuleTrialsWait ==
  ASSUME OsOps \subseteq {"stage"}
  PROVE  Spec => TrialHoldsCounter
<1>1. ASSUME TypeInv, CapsuleOnlyInv, [Next]_vars, counter' # counter
      PROVE  image' \in reported'
  <2>1. SelectedSlot(Nv) \in FallbackSlots \cap ReportedSlots
    BY <1>1, CounterMoves, RollIsReported DEF CapsuleOnlyInv
  <2> QED BY <1>1, <2>1, CounterMoves DEF FallbackSlots, Fallback, ReportedSlots
<1>2. TypeInv /\ CapsuleOnlyInv /\ [Next]_vars =>
        [(counter' # counter /\ cmos'.result = "trying")
           => image' \in reported]_vars
  BY <1>1, CounterMoves
<1>3. Init => TypeInv /\ CapsuleOnlyInv
  BY TypeInit, CapsuleInit
<1>4. TypeInv /\ CapsuleOnlyInv /\ [Next]_vars => (TypeInv /\ CapsuleOnlyInv)'
  BY TypeStep, CapsuleStep
<1> QED BY <1>2, <1>3, <1>4, PTL DEF Spec, TrialHoldsCounter
=============================================================================
