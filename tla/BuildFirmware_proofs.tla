------------------------- MODULE BuildFirmware_proofs -------------------------
(***************************************************************************)
(* Proofs about fetching and building for any releases, any cuts of tags,   *)
(* any working trees and any number of stopped runs.                        *)
(***************************************************************************)
EXTENDS BuildFirmware, WellFoundedInduction, TLAPS

(* How far a run is, by what it has behind it *)

AfterHead == {"libreboot", "download", "verify", "lbmk", "populate", "sums",
              "takeover", "freeze"}
AfterEdk2 == AfterHead \cup {"head"}
AfterCoreboot == AfterEdk2 \cup {"edk2", "checkout", "submodules"}
BeforeHead == {"invalidate", "coreboot", "clone", "crossgcc", "edk2",
               "checkout", "submodules", "head"}
AfterDownload == {"verify", "lbmk", "populate", "sums", "takeover", "freeze"}
AfterLbmk == {"sums", "takeover", "freeze"}

\* TypeOK but for what only a build changes.
TreeOK ==
  /\ tree \in [Trees -> Version \cup {Nothing}]
  /\ whole \subseteq Trees
  /\ stamps \subseteq Stamps

FileOK ==
  /\ tarball \in [Refs -> {"none", "part", "whole"}]
  /\ sha \subseteq Refs
  /\ sums \in [ref : Refs \cup {0}, file : {"none", "part", "whole"}]

LockOK ==
  /\ config \in [Comps -> Version]
  /\ lock \in Set /\ prev \in Set /\ now \in Set
  /\ latest \in BOOLEAN /\ refresh \in BOOLEAN

RestOK ==
  /\ newest \in [Comps -> Refs]
  /\ tag \in [Comps -> [Refs -> 0 .. 1]]
  /\ work \in Works
  /\ frozen \in Works \cup {0}
  /\ ready \in {"no", "yes", "refreshed"}
  /\ missed \in BOOLEAN
  /\ faults \in 0 .. MaxFaults
  /\ pc \in {"idle", "base", "variant", "unverified"} \cup FetchSteps

TypeInv == TreeOK /\ FileOK /\ LockOK /\ RestOK

\* A run knows its whole set, and writes it into sources/versions.lock.
SetInv ==
  /\ pc \in FetchSteps => now \in [Comps -> Version] /\ ready = "no"
  /\ pc \in BeforeHead => lock = now
  /\ pc \in AfterHead => lock = [now EXCEPT !["edk2"] = tree["edk2"]]

\* What stands behind a stamp.
StampInv ==
  /\ StampMeansWhole
  /\ "clone" \in stamps => tree["coreboot"] # Nothing
  /\ pc = "crossgcc" => tree["coreboot"] # Nothing
  /\ pc \in {"checkout", "submodules"} => "edk2" \notin stamps
  /\ pc = "populate" => "lbmk" \notin stamps

\* Which trees a run has made sure of.
TreeInv ==
  /\ pc = "submodules" => tree["edk2"] = now["edk2"]
  /\ pc \in AfterCoreboot => "coreboot" \in whole
  /\ pc \in AfterEdk2 => "edk2" \in whole
  /\ pc \in AfterLbmk => "lbmk" \in whole

\* What --refresh has fetched again so far.
RefreshInv ==
  refresh =>
     /\ pc \in AfterCoreboot \cup {"crossgcc"} =>
          tree["coreboot"].ref = now["coreboot"].ref
     /\ pc \in AfterEdk2 => tree["edk2"] = now["edk2"]
     /\ pc \in AfterDownload => tarball[now["libreboot"].ref] = "whole"
     /\ pc \in AfterLbmk => tree["lbmk"].ref = now["lbmk"].ref

\* sha256sums.txt is of the tarball of the set.
SumsInv ==
  pc \in {"takeover", "freeze"} => sums.ref = now["libreboot"].ref

\* The image is what its label says, if it has one; a build that goes on
\* without a warning has what it started from.
ImageInv ==
  /\ image.label # NoLabel => image.label[2] = image.config
  /\ pc = "base" => frozen = asked /\ frozen # 0
  /\ pc = "variant" => image.config = asked
  /\ pc = "unverified" => ~force

DoneInv == Edk2Recorded /\ RefreshRepairs

IInv ==
  /\ TypeInv /\ SetInv /\ StampInv /\ TreeInv /\ RefreshInv
  /\ SumsInv /\ ImageInv /\ DoneInv

\* What only a build changes.
buildVars == <<force, asked, image>>

-----------------------------------------------------------------------------

LEMMA SetFacts ==
  /\ Nothing \in Version \cup {Nothing}
  /\ NoSet \in Set
  /\ Comps = {"coreboot", "edk2", "libreboot", "lbmk"}
  /\ Trees = {"coreboot", "edk2", "lbmk"}
BY DEF Set, NoSet, Comps, Trees

LEMMA CutVersion ==
  ASSUME RestOK, NEW c \in Comps, NEW r \in Refs
  PROVE  Cut(c, r) \in Version /\ Cut(c, r) # Nothing /\ Cut(c, r).ref = r
BY FetchAssumption DEF RestOK, Cut, Version, Nothing

LEMMA VersionRef ==
  ASSUME NEW v \in Version
  PROVE  v # Nothing /\ v.ref \in Refs
BY FetchAssumption DEF Version, Nothing

LEMMA InitHolds == Init => IInv
<1> SUFFICES ASSUME Init PROVE IInv
  OBVIOUS
<1> USE DEF Init, FetchInit
<1>1. TypeInv
  <2>1. [ref |-> 1, rev |-> 0] \in Version
    BY FetchAssumption DEF Version
  <2>2. TreeOK
    BY SetFacts DEF TreeOK
  <2>3. FileOK
    BY DEF FileOK, NoSums
  <2>4. LockOK
    BY <2>1, SetFacts DEF LockOK
  <2>5. RestOK
    <3>1. missed \in BOOLEAN
      OBVIOUS
    <3>2. faults \in 0 .. MaxFaults /\ tag \in [Comps -> [Refs -> 0 .. 1]]
      BY FetchAssumption
    <3> QED BY <3>1, <3>2, FetchAssumption DEF RestOK
  <2> QED BY <2>2, <2>3, <2>4, <2>5 DEF TypeInv
<1>2. SetInv
  BY DEF SetInv, FetchSteps, BeforeHead, AfterHead
<1>3. StampInv /\ TreeInv
  BY DEF StampInv, StampMeansWhole, TreeInv, AfterHead, AfterEdk2,
         AfterCoreboot, AfterLbmk
<1>4. RefreshInv /\ SumsInv /\ ImageInv /\ DoneInv
  BY DEF RefreshInv, SumsInv, ImageInv, NoImage, DoneInv, Edk2Recorded,
         RefreshRepairs
<1> QED BY <1>1, <1>2, <1>3, <1>4 DEF IInv

LEMMA UserHolds ==
  ASSUME IInv, User, UNCHANGED buildVars
  PROVE  IInv'
<1>1. UNCHANGED <<lock, disk, frozen, pc, flags, ready, missed, faults, force,
                  asked, image>>
  BY DEF User, Release, Recut, EditLock, EditWork, buildVars
<1>2. TreeOK' /\ FileOK'
  BY <1>1 DEF IInv, TypeInv, TreeOK, FileOK, disk
<1>3. LockOK' /\ RestOK'
  <2> USE <1>1 DEF IInv, TypeInv, LockOK, RestOK, disk, flags
  <2>1. ASSUME NEW c \in Comps, Release(c) PROVE LockOK' /\ RestOK'
    BY <2>1 DEF Release
  <2>2. ASSUME NEW c \in Comps, Recut(c) PROVE LockOK' /\ RestOK'
    BY <2>2 DEF Recut
  <2>3. ASSUME NEW c \in Comps, NEW r \in Refs, EditLock(c, r)
        PROVE  LockOK' /\ RestOK'
    BY <2>3, CutVersion DEF EditLock, upstream
  <2>4. ASSUME NEW w \in Works, EditWork(w) PROVE LockOK' /\ RestOK'
    BY <2>4 DEF EditWork, upstream
  <2> QED BY <2>1, <2>2, <2>3, <2>4 DEF User
<1>4. SetInv' /\ StampInv' /\ TreeInv' /\ RefreshInv'
  BY <1>1 DEF IInv, SetInv, StampInv, StampMeansWhole, TreeInv, RefreshInv,
              disk, flags
<1>5. SumsInv' /\ ImageInv'
  BY <1>1 DEF IInv, SumsInv, ImageInv, disk, flags
<1>6. DoneInv'
  BY <1>1 DEF IInv, DoneInv, Edk2Recorded, RefreshRepairs, disk
<1> QED BY <1>2, <1>3, <1>4, <1>5, <1>6 DEF IInv, TypeInv

(***************************************************************************)
(* One lemma per step of a fetch, with one step per part of the invariant.   *)
(***************************************************************************)

LEMMA StartHolds ==
  ASSUME IInv, NEW l \in BOOLEAN, NEW r \in BOOLEAN, Start(l, r),
         UNCHANGED buildVars
  PROVE  IInv'
<1> USE DEF IInv, Start, upstream, disk, buildVars
<1>1. TypeInv'
  <2> USE DEF TypeInv
  <2>1. TreeOK'
    BY DEF TreeOK
  <2>2. FileOK'
    BY DEF FileOK
  <2>3. LockOK'
    BY SetFacts, CutVersion DEF LockOK, RestOK, Set
  <2>4. RestOK'
    BY DEF RestOK, FetchSteps
  <2> QED BY <2>1, <2>2, <2>3, <2>4
<1>2. SetInv'
  BY CutVersion DEF TypeInv, LockOK, RestOK, SetInv, AfterHead, BeforeHead
<1>3. StampInv'
  BY DEF StampInv, StampMeansWhole
<1>4. TreeInv'
  BY DEF TreeInv, AfterHead, AfterEdk2, AfterCoreboot, AfterLbmk
<1>5. RefreshInv'
  BY DEF RefreshInv, AfterHead, AfterEdk2, AfterCoreboot, AfterDownload,
         AfterLbmk
<1>6. SumsInv' /\ ImageInv'
  BY DEF SumsInv, ImageInv
<1>7. DoneInv'
  BY DEF DoneInv, Edk2Recorded, RefreshRepairs
<1> QED BY <1>1, <1>2, <1>3, <1>4, <1>5, <1>6, <1>7

LEMMA FillLockHolds ==
  ASSUME IInv, FillLock, UNCHANGED buildVars
  PROVE  IInv'
<1> USE DEF IInv, FillLock, Goto, flags, upstream, disk, buildVars
<1>1. TypeInv'
  <2> USE DEF TypeInv
  <2>1. TreeOK'
    BY DEF TreeOK
  <2>2. FileOK'
    BY DEF FileOK
  <2>3. LockOK'
    BY DEF LockOK
  <2>4. RestOK'
    BY DEF RestOK, FetchSteps
  <2> QED BY <2>1, <2>2, <2>3, <2>4
<1>2. SetInv'
  BY DEF SetInv, AfterHead, BeforeHead, FetchSteps
<1>3. StampInv'
  BY DEF StampInv, StampMeansWhole
<1>4. TreeInv'
  BY DEF TreeInv, AfterHead, AfterEdk2, AfterCoreboot, AfterLbmk
<1>5. RefreshInv'
  BY DEF RefreshInv, AfterHead, AfterEdk2, AfterCoreboot, AfterDownload,
         AfterLbmk
<1>6. SumsInv' /\ ImageInv'
  BY DEF SumsInv, ImageInv
<1>7. DoneInv'
  BY DEF DoneInv, Edk2Recorded, RefreshRepairs, SetInv, FetchSteps
<1> QED BY <1>1, <1>2, <1>3, <1>4, <1>5, <1>6, <1>7

LEMMA InvalidateHolds ==
  ASSUME IInv, Invalidate, UNCHANGED buildVars
  PROVE  IInv'
<1> USE DEF IInv, Invalidate, Moved, Goto, flags, upstream, buildVars
<1>1. TypeInv'
  <2> USE DEF TypeInv
  <2>1. TreeOK'
    BY DEF TreeOK
  <2>2. FileOK'
    BY DEF FileOK
  <2>3. LockOK'
    BY DEF LockOK
  <2>4. RestOK'
    BY DEF RestOK, FetchSteps
  <2> QED BY <2>1, <2>2, <2>3, <2>4
<1>2. SetInv'
  BY DEF SetInv, AfterHead, BeforeHead, FetchSteps
<1>3. StampInv'
  BY DEF StampInv, StampMeansWhole
<1>4. TreeInv'
  BY DEF TreeInv, AfterHead, AfterEdk2, AfterCoreboot, AfterLbmk
<1>5. RefreshInv'
  BY DEF RefreshInv, AfterHead, AfterEdk2, AfterCoreboot, AfterDownload,
         AfterLbmk
<1>6. SumsInv' /\ ImageInv'
  BY DEF SumsInv, ImageInv
<1>7. DoneInv'
  BY DEF DoneInv, Edk2Recorded, RefreshRepairs
<1> QED BY <1>1, <1>2, <1>3, <1>4, <1>5, <1>6, <1>7

LEMMA CorebootHolds ==
  ASSUME IInv, Coreboot, UNCHANGED buildVars
  PROVE  IInv'
<1> USE DEF IInv, Coreboot, Have, Goto, flags, upstream, buildVars
<1>1. TypeInv'
  <2> USE DEF TypeInv
  <2>1. TreeOK'
    BY DEF TreeOK
  <2>2. FileOK'
    BY DEF FileOK
  <2>3. LockOK'
    BY DEF LockOK
  <2>4. RestOK'
    BY DEF RestOK, FetchSteps
  <2> QED BY <2>1, <2>2, <2>3, <2>4
<1>2. SetInv'
  BY DEF SetInv, AfterHead, BeforeHead, FetchSteps
<1>3. StampInv'
  BY SetFacts DEF TypeInv, TreeOK, StampInv, StampMeansWhole
<1>4. TreeInv'
  BY SetFacts
     DEF StampInv, StampMeansWhole, TreeInv, AfterHead, AfterEdk2,
         AfterCoreboot, AfterLbmk
<1>5. RefreshInv'
  BY DEF RefreshInv, AfterHead, AfterEdk2, AfterCoreboot, AfterDownload,
         AfterLbmk
<1>6. SumsInv' /\ ImageInv'
  BY DEF SumsInv, ImageInv
<1>7. DoneInv'
  BY DEF DoneInv, Edk2Recorded, RefreshRepairs, SetInv, FetchSteps
<1> QED BY <1>1, <1>2, <1>3, <1>4, <1>5, <1>6, <1>7

LEMMA CloneHolds ==
  ASSUME IInv, Clone, UNCHANGED buildVars
  PROVE  IInv'
<1> USE DEF IInv, Clone, Goto, flags, upstream, buildVars
<1>1. TypeInv'
  <2> USE DEF TypeInv
  <2>1. TreeOK'
    <3>1. Cut("coreboot", now["coreboot"].ref) \in Version
      BY SetFacts, CutVersion, VersionRef DEF SetInv, FetchSteps
    <3>2. tree' \in [Trees -> Version \cup {Nothing}]
      BY <3>1, SetFacts DEF TreeOK
    <3>3. whole' \subseteq Trees /\ stamps' \subseteq Stamps
      BY SetFacts DEF TreeOK, Stamps
    <3> QED BY <3>2, <3>3 DEF TreeOK
  <2>2. FileOK'
    BY DEF FileOK
  <2>3. LockOK'
    BY DEF LockOK
  <2>4. RestOK'
    BY DEF RestOK, FetchSteps
  <2> QED BY <2>1, <2>2, <2>3, <2>4
<1>2. SetInv'
  BY DEF SetInv, AfterHead, BeforeHead, FetchSteps
<1>3. StampInv'
  BY SetFacts, VersionRef, CutVersion
     DEF TypeInv, TreeOK, SetInv, StampInv, StampMeansWhole, FetchSteps
<1>4. TreeInv'
  BY DEF TreeInv, AfterHead, AfterEdk2, AfterCoreboot, AfterLbmk
<1>5. RefreshInv'
  BY SetFacts, VersionRef, CutVersion
     DEF TypeInv, TreeOK, RestOK, SetInv, RefreshInv, AfterHead, AfterEdk2,
         AfterDownload, AfterLbmk
<1>6. SumsInv' /\ ImageInv'
  BY DEF SumsInv, ImageInv
<1>7. DoneInv'
  BY DEF DoneInv, Edk2Recorded, RefreshRepairs, SetInv, FetchSteps
<1> QED BY <1>1, <1>2, <1>3, <1>4, <1>5, <1>6, <1>7

LEMMA CrossgccHolds ==
  ASSUME IInv, Crossgcc, UNCHANGED buildVars
  PROVE  IInv'
<1> USE DEF IInv, Crossgcc, Goto, flags, upstream, buildVars
<1>1. TypeInv'
  <2> USE DEF TypeInv
  <2>1. TreeOK'
    BY SetFacts DEF TreeOK, Stamps
  <2>2. FileOK'
    BY DEF FileOK
  <2>3. LockOK'
    BY DEF LockOK
  <2>4. RestOK'
    BY DEF RestOK, FetchSteps
  <2> QED BY <2>1, <2>2, <2>3, <2>4
<1>2. SetInv'
  BY DEF SetInv, AfterHead, BeforeHead, FetchSteps
<1>3. StampInv'
  BY DEF StampInv, StampMeansWhole
<1>4. TreeInv'
  BY DEF TreeInv, AfterHead, AfterEdk2, AfterCoreboot, AfterLbmk
<1>5. RefreshInv'
  BY DEF RefreshInv, AfterHead, AfterEdk2, AfterDownload, AfterLbmk
<1>6. SumsInv' /\ ImageInv'
  BY DEF SumsInv, ImageInv
<1>7. DoneInv'
  BY DEF DoneInv, Edk2Recorded, RefreshRepairs
<1> QED BY <1>1, <1>2, <1>3, <1>4, <1>5, <1>6, <1>7

LEMMA Edk2Holds ==
  ASSUME IInv, Edk2, UNCHANGED buildVars
  PROVE  IInv'
<1> USE DEF IInv, Edk2, Have, Goto, flags, upstream, buildVars
<1>1. TypeInv'
  <2> USE DEF TypeInv
  <2>1. TreeOK'
    <3>1. tree' \in [Trees -> Version \cup {Nothing}]
      BY SetFacts DEF TreeOK
    <3>2. whole' \subseteq Trees
      BY DEF TreeOK
    <3>3. stamps' \subseteq Stamps
      BY DEF TreeOK
    <3> QED BY <3>1, <3>2, <3>3 DEF TreeOK
  <2>2. FileOK'
    BY DEF FileOK
  <2>3. LockOK'
    BY DEF LockOK
  <2>4. RestOK'
    BY DEF RestOK, FetchSteps
  <2> QED BY <2>1, <2>2, <2>3, <2>4
<1>2. SetInv'
  BY DEF SetInv, AfterHead, BeforeHead, FetchSteps
<1>3. StampInv'
  BY SetFacts DEF TypeInv, TreeOK, StampInv, StampMeansWhole
<1>4. TreeInv'
  BY SetFacts
     DEF StampInv, StampMeansWhole, TreeInv, AfterHead, AfterEdk2,
         AfterCoreboot, AfterLbmk
<1>5. RefreshInv'
  BY SetFacts
     DEF TypeInv, TreeOK, RefreshInv, AfterHead, AfterEdk2, AfterCoreboot,
         AfterDownload, AfterLbmk
<1>6. SumsInv' /\ ImageInv'
  BY DEF SumsInv, ImageInv
<1>7. DoneInv'
  BY DEF DoneInv, Edk2Recorded, RefreshRepairs, SetInv, FetchSteps
<1> QED BY <1>1, <1>2, <1>3, <1>4, <1>5, <1>6, <1>7

LEMMA CheckoutHolds ==
  ASSUME IInv, Checkout, UNCHANGED buildVars
  PROVE  IInv'
<1> USE DEF IInv, Checkout, Goto, Exit, flags, upstream, buildVars
<1>1. TypeInv'
  <2> USE DEF TypeInv
  <2>1. TreeOK'
    BY SetFacts DEF TreeOK, LockOK, SetInv, Set
  <2>2. FileOK'
    BY DEF FileOK
  <2>3. LockOK'
    BY SetFacts DEF LockOK
  <2>4. RestOK'
    BY DEF RestOK, FetchSteps
  <2> QED BY <2>1, <2>2, <2>3, <2>4
<1>2. SetInv'
  BY DEF SetInv, AfterHead, BeforeHead, FetchSteps
<1>3. StampInv'
  BY SetFacts DEF TypeInv, TreeOK, StampInv, StampMeansWhole
<1>4. TreeInv'
  BY SetFacts
     DEF TypeInv, TreeOK, TreeInv, AfterHead, AfterEdk2, AfterCoreboot,
         AfterLbmk
<1>5. RefreshInv'
  BY SetFacts
     DEF TypeInv, TreeOK, RefreshInv, AfterCoreboot, AfterDownload, AfterLbmk
<1>6. SumsInv' /\ ImageInv'
  BY DEF SumsInv, ImageInv
<1>7. DoneInv'
  BY DEF DoneInv, Edk2Recorded, RefreshRepairs, SetInv, FetchSteps
<1> QED BY <1>1, <1>2, <1>3, <1>4, <1>5, <1>6, <1>7

LEMMA SubmodulesHolds ==
  ASSUME IInv, Submodules, UNCHANGED buildVars
  PROVE  IInv'
<1> USE DEF IInv, Submodules, Goto, flags, upstream, buildVars
<1>1. TypeInv'
  <2> USE DEF TypeInv
  <2>1. TreeOK'
    BY SetFacts DEF TreeOK, Stamps
  <2>2. FileOK'
    BY DEF FileOK
  <2>3. LockOK'
    BY DEF LockOK
  <2>4. RestOK'
    BY DEF RestOK, FetchSteps
  <2> QED BY <2>1, <2>2, <2>3, <2>4
<1>2. SetInv'
  BY DEF SetInv, AfterHead, BeforeHead, FetchSteps
<1>3. StampInv'
  <2>1. tree["edk2"] # Nothing
    BY VersionRef DEF SetInv, TreeInv, FetchSteps, Comps
  <2>2. StampMeansWhole'
    BY <2>1, SetFacts DEF StampInv, StampMeansWhole
  <2> QED BY <2>2 DEF StampInv
<1>4. TreeInv'
  BY DEF TreeInv, AfterHead, AfterEdk2, AfterCoreboot, AfterLbmk
<1>5. RefreshInv'
  BY DEF TreeInv, RefreshInv, AfterCoreboot, AfterDownload, AfterLbmk
<1>6. SumsInv' /\ ImageInv'
  BY DEF SumsInv, ImageInv
<1>7. DoneInv'
  BY DEF DoneInv, Edk2Recorded, RefreshRepairs
<1> QED BY <1>1, <1>2, <1>3, <1>4, <1>5, <1>6, <1>7

LEMMA HeadHolds ==
  ASSUME IInv, Head, UNCHANGED buildVars
  PROVE  IInv'
<1> USE DEF IInv, Head, Goto, flags, upstream, disk, buildVars
<1>1. TypeInv'
  <2> USE DEF TypeInv
  <2>1. TreeOK'
    BY DEF TreeOK
  <2>2. FileOK'
    BY DEF FileOK
  <2>3. LockOK'
    BY SetFacts DEF LockOK, TreeOK, Set
  <2>4. RestOK'
    BY DEF RestOK, FetchSteps
  <2> QED BY <2>1, <2>2, <2>3, <2>4
<1>2. SetInv'
  BY DEF SetInv, AfterHead, BeforeHead, FetchSteps
<1>3. StampInv'
  BY DEF StampInv, StampMeansWhole
<1>4. TreeInv'
  BY DEF TreeInv, AfterHead, AfterEdk2, AfterCoreboot, AfterLbmk
<1>5. RefreshInv'
  BY DEF RefreshInv, AfterEdk2, AfterCoreboot, AfterDownload, AfterLbmk
<1>6. SumsInv' /\ ImageInv'
  BY DEF SumsInv, ImageInv
<1>7. DoneInv'
  BY DEF DoneInv, Edk2Recorded, RefreshRepairs
<1> QED BY <1>1, <1>2, <1>3, <1>4, <1>5, <1>6, <1>7

LEMMA LibrebootHolds ==
  ASSUME IInv, Libreboot, UNCHANGED buildVars
  PROVE  IInv'
<1> USE DEF IInv, Libreboot, Goto, flags, upstream, buildVars
<1>1. TypeInv'
  <2> USE DEF TypeInv
  <2>1. TreeOK'
    BY DEF TreeOK
  <2>2. FileOK'
    BY DEF FileOK
  <2>3. LockOK'
    BY DEF LockOK
  <2>4. RestOK'
    BY DEF RestOK, FetchSteps
  <2> QED BY <2>1, <2>2, <2>3, <2>4
<1>2. SetInv'
  BY DEF SetInv, AfterHead, BeforeHead, FetchSteps
<1>3. StampInv'
  BY DEF StampInv, StampMeansWhole
<1>4. TreeInv'
  BY DEF TreeInv, AfterHead, AfterEdk2, AfterCoreboot, AfterLbmk
<1>5. RefreshInv'
  BY DEF RefreshInv, AfterHead, AfterEdk2, AfterCoreboot, AfterDownload,
         AfterLbmk
<1>6. SumsInv' /\ ImageInv'
  BY DEF SumsInv, ImageInv
<1>7. DoneInv'
  BY DEF DoneInv, Edk2Recorded, RefreshRepairs, SetInv, FetchSteps
<1> QED BY <1>1, <1>2, <1>3, <1>4, <1>5, <1>6, <1>7

LEMMA DownloadHolds ==
  ASSUME IInv, Download, UNCHANGED buildVars
  PROVE  IInv'
<1> USE DEF IInv, Download, Goto, flags, upstream, buildVars
<1>1. TypeInv'
  <2> USE DEF TypeInv
  <2>1. TreeOK'
    BY DEF TreeOK
  <2>2. FileOK'
    BY SetFacts, VersionRef DEF FileOK, SetInv, NoSums, FetchSteps
  <2>3. LockOK'
    BY DEF LockOK
  <2>4. RestOK'
    BY DEF RestOK, FetchSteps
  <2> QED BY <2>1, <2>2, <2>3, <2>4
<1>2. SetInv'
  BY DEF SetInv, AfterHead, BeforeHead, FetchSteps
<1>3. StampInv'
  BY DEF StampInv, StampMeansWhole
<1>4. TreeInv'
  BY DEF TreeInv, AfterHead, AfterEdk2, AfterCoreboot, AfterLbmk
<1>5. RefreshInv'
  BY SetFacts, VersionRef
     DEF TypeInv, FileOK, RestOK, SetInv, RefreshInv, AfterHead, AfterEdk2,
         AfterCoreboot, AfterLbmk
<1>6. SumsInv' /\ ImageInv'
  BY DEF SumsInv, ImageInv
<1>7. DoneInv'
  BY DEF DoneInv, Edk2Recorded, RefreshRepairs
<1> QED BY <1>1, <1>2, <1>3, <1>4, <1>5, <1>6, <1>7

LEMMA VerifyHolds ==
  ASSUME IInv, Verify, UNCHANGED buildVars
  PROVE  IInv'
<1> USE DEF IInv, Verify, Goto, Exit, flags, upstream, disk, buildVars
<1>1. TypeInv'
  <2> USE DEF TypeInv
  <2>1. TreeOK'
    BY DEF TreeOK
  <2>2. FileOK'
    BY DEF FileOK
  <2>3. LockOK'
    BY SetFacts DEF LockOK
  <2>4. RestOK'
    BY DEF RestOK, FetchSteps
  <2> QED BY <2>1, <2>2, <2>3, <2>4
<1>2. SetInv'
  BY DEF SetInv, AfterHead, BeforeHead, FetchSteps
<1>3. StampInv'
  BY DEF StampInv, StampMeansWhole
<1>4. TreeInv'
  BY DEF TreeInv, AfterHead, AfterEdk2, AfterCoreboot, AfterLbmk
<1>5. RefreshInv'
  BY DEF RefreshInv, AfterHead, AfterEdk2, AfterCoreboot, AfterDownload,
         AfterLbmk
<1>6. SumsInv' /\ ImageInv'
  BY DEF SumsInv, ImageInv
<1>7. DoneInv'
  BY DEF DoneInv, Edk2Recorded, RefreshRepairs
<1> QED BY <1>1, <1>2, <1>3, <1>4, <1>5, <1>6, <1>7

LEMMA LbmkHolds ==
  ASSUME IInv, Lbmk, UNCHANGED buildVars
  PROVE  IInv'
<1> USE DEF IInv, Lbmk, Have, Goto, flags, upstream, buildVars
<1>1. TypeInv'
  <2> USE DEF TypeInv
  <2>1. TreeOK'
    <3>1. tree' \in [Trees -> Version \cup {Nothing}]
      BY SetFacts DEF TreeOK
    <3>2. whole' \subseteq Trees
      BY DEF TreeOK
    <3>3. stamps' \subseteq Stamps
      BY DEF TreeOK
    <3> QED BY <3>1, <3>2, <3>3 DEF TreeOK
  <2>2. FileOK'
    BY DEF FileOK
  <2>3. LockOK'
    BY DEF LockOK
  <2>4. RestOK'
    BY DEF RestOK, FetchSteps
  <2> QED BY <2>1, <2>2, <2>3, <2>4
<1>2. SetInv'
  <2>1. tree'["edk2"] = tree["edk2"]
    BY SetFacts DEF TypeInv, TreeOK
  <2> QED BY <2>1 DEF SetInv, AfterHead, BeforeHead, FetchSteps
<1>3. StampInv'
  <2>1. StampMeansWhole'
    <3>1. (stamps \cap Trees)' \subseteq whole'
      BY SetFacts DEF StampInv, StampMeansWhole
    <3>2. ASSUME NEW c \in whole' PROVE tree'[c] # Nothing
      BY <3>2, SetFacts DEF TypeInv, TreeOK, StampInv, StampMeansWhole
    <3> QED BY <3>1, <3>2 DEF StampMeansWhole
  <2>2. tree'["coreboot"] = tree["coreboot"]
    BY SetFacts DEF TypeInv, TreeOK
  <2> QED BY <2>1, <2>2 DEF StampInv
<1>4. TreeInv'
  BY SetFacts
     DEF StampInv, StampMeansWhole, TreeInv, AfterHead, AfterEdk2,
         AfterCoreboot, AfterLbmk
<1>5. RefreshInv'
  BY SetFacts
     DEF TypeInv, TreeOK, RefreshInv, AfterHead, AfterEdk2, AfterCoreboot,
         AfterDownload, AfterLbmk
<1>6. SumsInv' /\ ImageInv'
  BY DEF SumsInv, ImageInv
<1>7. DoneInv'
  BY DEF DoneInv, Edk2Recorded, RefreshRepairs, SetInv, FetchSteps
<1> QED BY <1>1, <1>2, <1>3, <1>4, <1>5, <1>6, <1>7

LEMMA PopulateHolds ==
  ASSUME IInv, Populate, UNCHANGED buildVars
  PROVE  IInv'
<1> USE DEF IInv, Populate, Goto, Exit, flags, upstream, buildVars
<1>1. TypeInv'
  <2> USE DEF TypeInv
  <2>1. TreeOK'
    <3>1. Cut("lbmk", now["lbmk"].ref) \in Version
      BY SetFacts, CutVersion, VersionRef DEF SetInv, FetchSteps
    <3>2. tree' \in [Trees -> Version \cup {Nothing}]
      BY <3>1, SetFacts DEF TreeOK
    <3>3. whole' \subseteq Trees /\ stamps' \subseteq Stamps
      BY SetFacts DEF TreeOK, Stamps
    <3> QED BY <3>2, <3>3 DEF TreeOK
  <2>2. FileOK'
    BY DEF FileOK
  <2>3. LockOK'
    BY SetFacts DEF LockOK
  <2>4. RestOK'
    BY DEF RestOK, FetchSteps
  <2> QED BY <2>1, <2>2, <2>3, <2>4
<1>2. SetInv'
  BY DEF SetInv, AfterHead, BeforeHead, FetchSteps
<1>3. StampInv'
  <2>1. tree'["lbmk"] # Nothing
    BY SetFacts, CutVersion, VersionRef
       DEF TypeInv, TreeOK, SetInv, FetchSteps
  <2>2. tree'["coreboot"] = tree["coreboot"] /\ tree'["edk2"] = tree["edk2"]
    BY SetFacts DEF TypeInv
  <2>3. StampMeansWhole'
    BY <2>1, <2>2, SetFacts DEF TypeInv, TreeOK, StampInv, StampMeansWhole
  <2> QED BY <2>2, <2>3 DEF StampInv
<1>4. TreeInv'
  BY DEF TreeInv, AfterHead, AfterEdk2, AfterCoreboot, AfterLbmk
<1>5. RefreshInv'
  <2>1. tree'["coreboot"] = tree["coreboot"] /\ tree'["edk2"] = tree["edk2"]
    BY SetFacts DEF TypeInv
  <2>2. tree'["lbmk"].ref = now["lbmk"].ref
    BY SetFacts, CutVersion, VersionRef
       DEF TypeInv, TreeOK, SetInv, FetchSteps
  <2> QED BY <2>1, <2>2
         DEF RefreshInv, AfterCoreboot, AfterEdk2, AfterHead, AfterDownload,
             AfterLbmk
<1>6. SumsInv' /\ ImageInv'
  BY DEF SumsInv, ImageInv
<1>7. DoneInv'
  BY DEF DoneInv, Edk2Recorded, RefreshRepairs, SetInv, FetchSteps
<1> QED BY <1>1, <1>2, <1>3, <1>4, <1>5, <1>6, <1>7

LEMMA ChecksumsHolds ==
  ASSUME IInv, Checksums, UNCHANGED buildVars
  PROVE  IInv'
<1> USE DEF IInv, Checksums, Goto, flags, upstream, buildVars
<1>1. TypeInv'
  <2> USE DEF TypeInv
  <2>1. TreeOK'
    BY DEF TreeOK
  <2>2. FileOK'
    BY SetFacts, VersionRef DEF FileOK, SetInv, NoSums, FetchSteps
  <2>3. LockOK'
    BY DEF LockOK
  <2>4. RestOK'
    BY DEF RestOK, FetchSteps
  <2> QED BY <2>1, <2>2, <2>3, <2>4
<1>2. SetInv'
  BY DEF SetInv, AfterHead, BeforeHead, FetchSteps
<1>3. StampInv'
  BY DEF StampInv, StampMeansWhole
<1>4. TreeInv'
  BY DEF TreeInv, AfterHead, AfterEdk2, AfterCoreboot, AfterLbmk
<1>5. RefreshInv'
  BY DEF RefreshInv, AfterHead, AfterEdk2, AfterCoreboot, AfterDownload,
         AfterLbmk
<1>6. SumsInv' /\ ImageInv'
  BY DEF SumsInv, ImageInv
<1>7. DoneInv'
  BY DEF DoneInv, Edk2Recorded, RefreshRepairs
<1> QED BY <1>1, <1>2, <1>3, <1>4, <1>5, <1>6, <1>7

LEMMA TakeOverHolds ==
  ASSUME IInv, TakeOver, UNCHANGED buildVars
  PROVE  IInv'
<1> USE DEF IInv, TakeOver, Goto, flags, upstream, disk, buildVars
<1>1. TypeInv'
  <2> USE DEF TypeInv
  <2>1. TreeOK'
    BY DEF TreeOK
  <2>2. FileOK'
    BY DEF FileOK
  <2>3. LockOK'
    <3>1. now \in [Comps -> Version] /\ "edk2" \in whole
      BY DEF SetInv, TreeInv, FetchSteps, AfterEdk2, AfterHead
    <3>2. tree["edk2"] \in Version
      BY <3>1, SetFacts DEF TreeOK, StampInv, StampMeansWhole
    <3>3. lock \in [Comps -> Version]
      BY <3>1, <3>2 DEF SetInv, AfterHead
    <3> QED BY <3>3 DEF LockOK
  <2>4. RestOK'
    BY DEF RestOK, FetchSteps
  <2> QED BY <2>1, <2>2, <2>3, <2>4
<1>2. SetInv'
  BY DEF SetInv, AfterHead, BeforeHead, FetchSteps
<1>3. StampInv'
  BY DEF StampInv, StampMeansWhole
<1>4. TreeInv'
  BY DEF TreeInv, AfterHead, AfterEdk2, AfterCoreboot, AfterLbmk
<1>5. RefreshInv'
  BY DEF RefreshInv, AfterHead, AfterEdk2, AfterCoreboot, AfterDownload,
         AfterLbmk
<1>6. SumsInv' /\ ImageInv'
  BY DEF SumsInv, ImageInv
<1>7. DoneInv'
  BY DEF DoneInv, Edk2Recorded, RefreshRepairs
<1> QED BY <1>1, <1>2, <1>3, <1>4, <1>5, <1>6, <1>7

LEMMA FreezeHolds ==
  ASSUME IInv, Freeze, UNCHANGED buildVars
  PROVE  IInv'
<1> USE DEF IInv, Freeze, Exit, upstream, disk, buildVars
<1>1. TypeInv'
  <2> USE DEF TypeInv
  <2>1. TreeOK'
    BY DEF TreeOK
  <2>2. FileOK'
    BY DEF FileOK
  <2>3. LockOK'
    BY SetFacts DEF LockOK
  <2>4. RestOK'
    BY DEF RestOK
  <2> QED BY <2>1, <2>2, <2>3, <2>4
<1>2. SetInv'
  BY DEF SetInv, AfterHead, BeforeHead, FetchSteps
<1>3. StampInv'
  BY DEF StampInv, StampMeansWhole
<1>4. TreeInv'
  BY DEF TreeInv, AfterHead, AfterEdk2, AfterCoreboot, AfterLbmk
<1>5. RefreshInv'
  BY DEF RefreshInv
<1>6. SumsInv' /\ ImageInv'
  BY DEF SumsInv, ImageInv
<1>7. DoneInv'
  BY SetFacts
     DEF SetInv, TreeInv, RefreshInv, DoneInv, Edk2Recorded, RefreshRepairs,
         AfterHead, AfterEdk2, AfterCoreboot, AfterDownload, AfterLbmk, FetchSteps
<1> QED BY <1>1, <1>2, <1>3, <1>4, <1>5, <1>6, <1>7

LEMMA AbortHolds ==
  ASSUME IInv, Abort, UNCHANGED buildVars
  PROVE  IInv'
<1> USE DEF IInv, Abort, Exit, upstream, disk, buildVars
<1>1. TypeInv'
  <2> USE DEF TypeInv
  <2>1. TreeOK'
    BY DEF TreeOK
  <2>2. FileOK'
    BY DEF FileOK
  <2>3. LockOK'
    BY SetFacts DEF LockOK
  <2>4. RestOK'
    BY FetchAssumption DEF RestOK
  <2> QED BY <2>1, <2>2, <2>3, <2>4
<1>2. SetInv'
  BY DEF SetInv, AfterHead, BeforeHead, FetchSteps
<1>3. StampInv'
  BY DEF StampInv, StampMeansWhole
<1>4. TreeInv'
  BY DEF TreeInv, AfterHead, AfterEdk2, AfterCoreboot, AfterLbmk
<1>5. RefreshInv'
  BY DEF RefreshInv
<1>6. SumsInv' /\ ImageInv'
  BY DEF SumsInv, ImageInv
<1>7. DoneInv'
  BY DEF DoneInv, Edk2Recorded, RefreshRepairs
<1> QED BY <1>1, <1>2, <1>3, <1>4, <1>5, <1>6, <1>7

LEMMA StartBuildHolds ==
  ASSUME IInv, NEW f, StartBuild(f)
  PROVE  IInv'
<1> USE DEF IInv, StartBuild, RequireSources, flags, upstream, disk
<1>1. TypeInv'
  <2> USE DEF TypeInv
  <2>1. TreeOK'
    BY DEF TreeOK
  <2>2. FileOK'
    BY DEF FileOK
  <2>3. LockOK'
    BY DEF LockOK
  <2>4. RestOK'
    BY DEF RestOK
  <2> QED BY <2>1, <2>2, <2>3, <2>4
<1>2. SetInv'
  BY DEF SetInv, AfterHead, BeforeHead, FetchSteps
<1>3. StampInv'
  BY DEF StampInv, StampMeansWhole
<1>4. TreeInv'
  BY DEF TreeInv, AfterHead, AfterEdk2, AfterCoreboot, AfterLbmk
<1>5. RefreshInv'
  BY DEF RefreshInv, AfterHead, AfterEdk2, AfterCoreboot, AfterDownload,
         AfterLbmk
<1>6. SumsInv' /\ ImageInv'
  BY FetchAssumption DEF SumsInv, ImageInv, TypeInv, RestOK
<1>7. DoneInv'
  BY DEF DoneInv, Edk2Recorded, RefreshRepairs
<1> QED BY <1>1, <1>2, <1>3, <1>4, <1>5, <1>6, <1>7

LEMMA BuildBaseHolds ==
  ASSUME IInv, BuildBase
  PROVE  IInv'
<1> USE DEF IInv, BuildBase, Ends, Variants, Unverified, flags, upstream, disk
<1>1. TypeInv'
  <2> USE DEF TypeInv
  <2>1. TreeOK'
    BY DEF TreeOK
  <2>2. FileOK'
    BY DEF FileOK
  <2>3. LockOK'
    BY DEF LockOK
  <2>4. RestOK'
    BY DEF RestOK
  <2> QED BY <2>1, <2>2, <2>3, <2>4
<1>2. SetInv'
  BY DEF SetInv, AfterHead, BeforeHead, FetchSteps
<1>3. StampInv'
  BY DEF StampInv, StampMeansWhole
<1>4. TreeInv'
  BY DEF TreeInv, AfterHead, AfterEdk2, AfterCoreboot, AfterLbmk
<1>5. RefreshInv'
  BY DEF RefreshInv, AfterHead, AfterEdk2, AfterCoreboot, AfterDownload,
         AfterLbmk
<1>6. SumsInv' /\ ImageInv'
  <2>1. ConfigHash # NoLabel /\ ConfigHash[2] = asked
    BY DEF ImageInv, ConfigHash, NoLabel
  <2>2. BuiltImage.label = ConfigHash /\ BuiltImage.config = asked
    BY DEF ImageInv, BuiltImage
  <2>3. SumsInv'
    BY DEF SumsInv
  <2>4. ImageInv'
    BY <2>1, <2>2 DEF ImageInv
  <2> QED BY <2>3, <2>4
<1>7. DoneInv'
  BY DEF DoneInv, Edk2Recorded, RefreshRepairs
<1> QED BY <1>1, <1>2, <1>3, <1>4, <1>5, <1>6, <1>7

LEMMA VariantHolds ==
  ASSUME IInv, Variant
  PROVE  IInv'
<1> USE DEF IInv, Variant, Ends, flags, upstream, disk
<1>1. TypeInv'
  <2> USE DEF TypeInv
  <2>1. TreeOK'
    BY DEF TreeOK
  <2>2. FileOK'
    BY DEF FileOK
  <2>3. LockOK'
    BY DEF LockOK
  <2>4. RestOK'
    BY DEF RestOK
  <2> QED BY <2>1, <2>2, <2>3, <2>4
<1>2. SetInv'
  BY DEF SetInv, AfterHead, BeforeHead, FetchSteps
<1>3. StampInv'
  BY DEF StampInv, StampMeansWhole
<1>4. TreeInv'
  BY DEF TreeInv, AfterHead, AfterEdk2, AfterCoreboot, AfterLbmk
<1>5. RefreshInv'
  BY DEF RefreshInv, AfterHead, AfterEdk2, AfterCoreboot, AfterDownload,
         AfterLbmk
<1>6. SumsInv' /\ ImageInv'
  BY DEF SumsInv, ImageInv
<1>7. DoneInv'
  BY DEF DoneInv, Edk2Recorded, RefreshRepairs
<1> QED BY <1>1, <1>2, <1>3, <1>4, <1>5, <1>6, <1>7

LEMMA BuildByHandHolds ==
  ASSUME IInv, BuildByHand
  PROVE  IInv'
<1> USE DEF IInv, BuildByHand, fetchVars
<1>1. TypeInv'
  <2> USE DEF TypeInv
  <2>1. TreeOK'
    BY DEF TreeOK
  <2>2. FileOK'
    BY DEF FileOK
  <2>3. LockOK'
    BY DEF LockOK
  <2>4. RestOK'
    BY DEF RestOK
  <2> QED BY <2>1, <2>2, <2>3, <2>4
<1>2. SetInv'
  BY DEF SetInv, AfterHead, BeforeHead, FetchSteps
<1>3. StampInv'
  BY DEF StampInv, StampMeansWhole
<1>4. TreeInv'
  BY DEF TreeInv, AfterHead, AfterEdk2, AfterCoreboot, AfterLbmk
<1>5. RefreshInv'
  BY DEF RefreshInv, AfterHead, AfterEdk2, AfterCoreboot, AfterDownload,
         AfterLbmk
<1>6. SumsInv' /\ ImageInv'
  <2>1. image'.label = NoLabel
    BY DEF BuiltImage
  <2> QED BY <2>1 DEF SumsInv, ImageInv
<1>7. DoneInv'
  BY DEF DoneInv, Edk2Recorded, RefreshRepairs
<1> QED BY <1>1, <1>2, <1>3, <1>4, <1>5, <1>6, <1>7

-----------------------------------------------------------------------------

LEMMA StepHolds == IInv /\ [Next]_vars => IInv'
<1> SUFFICES ASSUME IInv, [Next]_vars PROVE IInv'
  OBVIOUS
<1>1. ASSUME Fetch, UNCHANGED buildVars PROVE IInv'
  BY <1>1, StartHolds, FillLockHolds, InvalidateHolds, CorebootHolds,
     CloneHolds, CrossgccHolds, Edk2Holds, CheckoutHolds, SubmodulesHolds,
     HeadHolds, LibrebootHolds, DownloadHolds, VerifyHolds, LbmkHolds,
     PopulateHolds, ChecksumsHolds, TakeOverHolds, FreezeHolds, AbortHolds
     DEF Fetch
<1>2. ASSUME Build PROVE IInv'
  BY <1>2, StartBuildHolds, BuildBaseHolds, VariantHolds, BuildByHandHolds
     DEF Build
<1>3. CASE UNCHANGED vars
  <2> USE <1>3 DEF vars, fetchVars
  <2>1. TypeInv'
    BY DEF IInv, TypeInv, TreeOK, FileOK, LockOK, RestOK
  <2>2. SetInv' /\ StampInv' /\ TreeInv' /\ RefreshInv'
    BY DEF IInv, SetInv, StampInv, StampMeansWhole, TreeInv, RefreshInv
  <2>3. SumsInv' /\ ImageInv' /\ DoneInv'
    BY DEF IInv, SumsInv, ImageInv, DoneInv, Edk2Recorded, RefreshRepairs
  <2> QED BY <2>1, <2>2, <2>3 DEF IInv
<1> QED BY <1>1, <1>2, <1>3, UserHolds DEF Next, buildVars

LEMMA Invariance == Spec => []IInv
BY InitHolds, StepHolds, PTL DEF Spec

\* A stamp never outlives the tree it stands for, whatever run was stopped
\* after whichever step: the run after it may skip what is stamped.
THEOREM StampsMeanWhole == Spec => []StampMeansWhole
<1>1. IInv => StampMeansWhole
  BY DEF IInv, StampInv
<1> QED BY <1>1, Invariance, PTL

\* sources/versions.lock names the edk2 commit in the tree after every run that
\* ended, however upstream moved its tags while it ran.
THEOREM Edk2IsRecorded == Spec => []Edk2Recorded
<1>1. IInv => Edk2Recorded
  BY DEF IInv, DoneInv
<1> QED BY <1>1, Invariance, PTL

\* One --refresh that ends repairs what any number of stopped runs left.
THEOREM RefreshAlwaysRepairs == Spec => []RefreshRepairs
<1>1. IInv => RefreshRepairs
  BY DEF IInv, DoneInv
<1> QED BY <1>1, Invariance, PTL

\* A ROM has the defconfig, patches and keys of the moment its build began,
\* whatever image was there, by hand or by script, unless the build has warned;
\* with --rebuild-base it has them always.
THEOREM RomHasItsConfig == Spec => []RomFollowsConfig
<1>1. IInv => RomFollowsConfig
  BY DEF IInv, ImageInv, RomFollowsConfig
<1> QED BY <1>1, Invariance, PTL

-----------------------------------------------------------------------------
(***************************************************************************)
(* What the trees are versions of.  A stop between the lock and the stamps   *)
(* breaks it, until a --refresh.                                             *)
(***************************************************************************)

\* What is stamped is of the releases of this set.
StampedOf(set) ==
  /\ \A c \in Trees : c \in stamps => tree[c].ref = set[c].ref
  /\ "clone" \in stamps => tree["coreboot"].ref = set["coreboot"].ref

\* Stamps are of the last set until Invalidate, and of this run's after it.
BehindInv ==
  ~missed => /\ pc \notin FetchSteps => StampedOf(lock)
             /\ pc \in {"fill", "invalidate"} => StampedOf(prev)
             /\ pc \in FetchSteps \ {"fill", "invalidate"} => StampedOf(now)

\* What this run has made sure of is of its set, whatever was there.
FilledInv ==
  ~missed => /\ pc \in AfterCoreboot \cup {"crossgcc"} =>
                  tree["coreboot"].ref = now["coreboot"].ref
             /\ pc \in AfterEdk2 => tree["edk2"].ref = now["edk2"].ref
             /\ pc \in AfterLbmk => tree["lbmk"].ref = now["lbmk"].ref

FollowInv == BehindInv /\ FilledInv

LEMMA FollowInit == Init => FollowInv
BY DEF Init, FetchInit, FollowInv, BehindInv, StampedOf, FilledInv, FetchSteps,
       AfterCoreboot, AfterEdk2, AfterHead, AfterLbmk

\* A stamp that Invalidate leaves is of a release that this run keeps.
LEMMA FollowInvalidate ==
  ASSUME IInv, FollowInv, Invalidate
  PROVE  FollowInv'
<1> SUFFICES ASSUME ~missed PROVE BehindInv' /\ FilledInv'
  BY DEF Invalidate, FollowInv, BehindInv, FilledInv
<1>1. /\ stamps' \subseteq stamps /\ UNCHANGED <<tree, now, prev>>
      /\ \A c \in Trees : c \in stamps' => ~Moved(c)
      /\ "clone" \in stamps' => ~Moved("coreboot")
      /\ pc = "invalidate" /\ pc' = "coreboot"
  BY DEF Invalidate, Goto, flags
<1>2. StampedOf(prev)
  BY <1>1 DEF FollowInv, BehindInv
<1>3. \A c \in Trees : tree[c] \in Version \cup {Nothing}
  BY DEF IInv, TypeInv, TreeOK
<1>4. /\ \A c \in Trees : c \in stamps => tree[c] # Nothing
      /\ "clone" \in stamps => tree["coreboot"] # Nothing
  BY DEF IInv, StampInv, StampMeansWhole
<1>5. \A c \in Trees : tree[c] # Nothing => tree[c].ref # Nothing.ref
  BY <1>3, VersionRef, FetchAssumption DEF Nothing
<1>6. StampedOf(now)'
  BY <1>1, <1>2, <1>4, <1>5, SetFacts DEF StampedOf, Moved
<1> QED BY <1>1, <1>6
        DEF BehindInv, FilledInv, FetchSteps, AfterCoreboot, AfterEdk2,
            AfterHead, AfterLbmk

\* The run is over at this step: its stamps are of the lock it leaves.
LEMMA FollowExit ==
  ASSUME IInv, FollowInv, ~missed,
         pc \in FetchSteps \ {"fill", "invalidate"}
  PROVE  StampedOf(lock)
<1>1. StampedOf(now)
  BY DEF FollowInv, BehindInv
<1>2. lock = now \/ lock = [now EXCEPT !["edk2"] = tree["edk2"]]
  BY DEF IInv, SetInv, FetchSteps, BeforeHead, AfterHead
<1>3. now \in Set
  BY DEF IInv, TypeInv, LockOK
<1>4. \A c \in Trees : lock[c] = now[c] \/ lock[c] = tree[c]
  BY <1>2, <1>3, SetFacts DEF Set
<1>5. lock["coreboot"] = now["coreboot"]
  BY <1>2, <1>3, SetFacts DEF Set
<1> QED BY <1>1, <1>4, <1>5 DEF StampedOf

LEMMA FollowFetch ==
  ASSUME IInv, FollowInv, Fetch
  PROVE  FollowInv'
<1> USE DEF FollowInv, AfterCoreboot, AfterEdk2, AfterHead, AfterLbmk
<1>1. tree \in [Trees -> Version \cup {Nothing}]
  BY DEF IInv, TypeInv, TreeOK
<1>2. ASSUME pc \in FetchSteps, NEW c \in Comps
      PROVE  Cut(c, now[c].ref).ref = now[c].ref
  BY <1>2, VersionRef DEF IInv, SetInv, Cut
<1>3. ASSUME NEW l, NEW r, Start(l, r) PROVE FollowInv'
  BY <1>3 DEF Start, disk, BehindInv, StampedOf, FilledInv, FetchSteps
<1>4. ASSUME FillLock PROVE FollowInv'
  BY <1>4 DEF FillLock, disk, Goto, flags, BehindInv, StampedOf, FilledInv,
              FetchSteps
<1>5. ASSUME Coreboot \/ Edk2 \/ Lbmk, ~missed PROVE FollowInv'
  <2>1. StampedOf(now)
    BY <1>5 DEF Coreboot, Edk2, Lbmk, BehindInv, FetchSteps
  <2>2. /\ UNCHANGED <<now, lock, prev, missed>>
        /\ pc' \in FetchSteps \ {"fill", "invalidate"}
    BY <1>5 DEF Coreboot, Edk2, Lbmk, Goto, flags, FetchSteps
  <2>3. StampedOf(now)'
    BY <2>1, <2>2, <1>1, <1>5, SetFacts DEF Coreboot, Edk2, Lbmk, StampedOf
  <2>4. FilledInv'
    BY <2>1, <2>2, <1>1, <1>5, SetFacts
       DEF Coreboot, Edk2, Lbmk, Goto, Have, StampedOf, FilledInv, FetchSteps
  <2> QED BY <2>2, <2>3, <2>4 DEF BehindInv
<1>6. ASSUME Clone \/ Crossgcc \/ Submodules \/ Head \/ Libreboot \/ Download
               \/ Checksums \/ TakeOver,
             ~missed
      PROVE  FollowInv'
  <2>1. StampedOf(now) /\ pc \in FetchSteps
    BY <1>6 DEF Clone, Crossgcc, Submodules, Head, Libreboot, Download,
                Checksums, TakeOver, BehindInv, FetchSteps
  <2>2. /\ UNCHANGED <<now, missed>>
        /\ pc' \in FetchSteps \ {"fill", "invalidate"}
    BY <1>6 DEF Clone, Crossgcc, Submodules, Head, Libreboot, Download,
                Checksums, TakeOver, Goto, flags, FetchSteps
  <2>3. StampedOf(now)' /\ FilledInv'
    <3>1. CASE Clone
      BY <3>1, <2>1, <2>2, <1>1, <1>2, SetFacts
         DEF Clone, Goto, StampedOf, FilledInv
    <3>2. CASE Crossgcc
      BY <3>2, <1>6, <2>1, <2>2, <1>1, SetFacts
         DEF Crossgcc, Goto, StampedOf, FilledInv
    <3>3. CASE Submodules
      <4>1. tree["edk2"] = now["edk2"]
        BY <3>3 DEF Submodules, IInv, TreeInv
      <4> QED BY <3>3, <4>1, <1>6, <2>1, <2>2, SetFacts
              DEF Submodules, Goto, StampedOf, FilledInv
    <3>4. CASE Head \/ Libreboot \/ Download \/ Checksums \/ TakeOver
      <4>1. UNCHANGED <<tree, stamps>>
        BY <3>4 DEF Head, Libreboot, Download, Checksums, TakeOver, disk
      <4> QED BY <3>4, <4>1, <1>6, <2>1, <2>2
              DEF Head, Libreboot, Download, Checksums, TakeOver, Goto,
                  StampedOf, FilledInv, FetchSteps
    <3> QED BY <1>6, <3>1, <3>2, <3>3, <3>4
  <2> QED BY <2>2, <2>3 DEF BehindInv
<1>7. ASSUME Checkout \/ Verify \/ Populate, ~missed PROVE FollowInv'
  <2>1. StampedOf(now) /\ StampedOf(lock) /\ pc \in FetchSteps /\ UNCHANGED missed
    BY <1>7, FollowExit DEF Checkout, Verify, Populate, BehindInv, FetchSteps
  <2>2. CASE pc' = "idle"
    <3>1. UNCHANGED <<stamps, lock>>
      BY <1>7, <2>2 DEF Checkout, Verify, Populate, Goto, disk
    <3>2. \A c \in Trees : c \in stamps => tree'[c] = tree[c]
      <4>1. ASSUME Populate PROVE "lbmk" \notin stamps
        BY <4>1 DEF Populate, IInv, StampInv
      <4>2. ASSUME Checkout PROVE "edk2" \notin stamps
        BY <4>2 DEF Checkout, IInv, StampInv
      <4> QED BY <4>1, <4>2, <1>1, <1>7, SetFacts
              DEF Checkout, Verify, Populate, disk
    <3>3. tree'["coreboot"] = tree["coreboot"]
      BY <1>1, <1>7, SetFacts DEF Checkout, Verify, Populate, disk
    <3>4. StampedOf(lock)'
      BY <3>1, <3>2, <3>3, <2>1 DEF StampedOf
    <3> QED BY <3>4, <2>2 DEF BehindInv, FilledInv, FetchSteps
  <2>3. CASE pc' # "idle"
    <3>1. now' = now /\ pc' \in FetchSteps \ {"fill", "invalidate"}
      BY <1>7, <2>3 DEF Checkout, Verify, Populate, Goto, Exit, flags, FetchSteps
    <3>2. CASE Checkout
      <4>1. "edk2" \notin stamps /\ UNCHANGED stamps /\ pc' = "submodules"
        BY <3>2, <2>3 DEF Checkout, Goto, Exit, IInv, StampInv
      <4>2. tree'["coreboot"] = tree["coreboot"] /\ tree'["lbmk"] = tree["lbmk"]
        BY <3>2, <1>1, SetFacts DEF Checkout
      <4>3. tree["coreboot"].ref = now["coreboot"].ref
        BY <3>2, <1>7 DEF Checkout, FilledInv
      <4> QED BY <4>1, <4>2, <4>3, <2>1, <3>1, SetFacts
              DEF BehindInv, StampedOf, FilledInv
    <3>3. CASE Verify
      BY <3>3, <1>7, <2>1, <2>3, <3>1
         DEF Verify, Goto, Exit, disk, BehindInv, StampedOf, FilledInv
    <3>4. CASE Populate
      <4>1. /\ tree'["lbmk"].ref = now["lbmk"].ref
            /\ tree'["coreboot"] = tree["coreboot"]
            /\ tree'["edk2"] = tree["edk2"]
        BY <3>4, <1>1, <1>2, <2>1, SetFacts DEF Populate
      <4>2. /\ tree["edk2"].ref = now["edk2"].ref
            /\ tree["coreboot"].ref = now["coreboot"].ref
        BY <3>4, <1>7 DEF Populate, FilledInv
      <4>3. stamps' \subseteq stamps \cup {"lbmk"} /\ pc' = "sums"
        BY <3>4, <2>3 DEF Populate, Goto, Exit
      <4> QED BY <4>1, <4>2, <4>3, <2>1, <3>1, SetFacts
              DEF BehindInv, StampedOf, FilledInv
    <3> QED BY <1>7, <3>2, <3>3, <3>4
  <2> QED BY <2>2, <2>3
<1>8. ASSUME Freeze PROVE FollowInv'
  <2>1. ~missed' => StampedOf(lock)
    <3>1. CASE ~missed
      BY <3>1, <1>8, FollowExit DEF Freeze, FetchSteps
    <3>2. CASE refresh
      <4>1. \A c \in Trees : tree[c].ref = now[c].ref
        BY <3>2, <1>8, SetFacts DEF Freeze, IInv, RefreshInv, AfterDownload
      <4>2. lock = [now EXCEPT !["edk2"] = tree["edk2"]] /\ now \in Set
        BY <1>8 DEF Freeze, IInv, SetInv, TypeInv, LockOK
      <4> QED BY <4>1, <4>2, SetFacts DEF StampedOf, Set
    <3> QED BY <3>1, <3>2, <1>8 DEF Freeze
  <2> QED BY <1>8, <2>1
          DEF Freeze, Exit, disk, BehindInv, StampedOf, FilledInv, FetchSteps
<1>9. ASSUME Abort PROVE FollowInv'
  <2>1. ~missed' => StampedOf(lock)
    BY <1>9, FollowExit DEF Abort, IInv, TypeInv, RestOK
  <2> QED BY <1>9, <2>1
          DEF Abort, Exit, disk, BehindInv, StampedOf, FilledInv, FetchSteps
<1>10. ASSUME missed, ~Freeze, ~Invalidate PROVE FollowInv'
  <2>1. missed'
    BY <1>10
       DEF Fetch, Start, FillLock, Coreboot, Clone, Crossgcc, Edk2, Checkout,
           Submodules, Head, Libreboot, Download, Verify, Lbmk, Populate,
           Checksums, TakeOver, Abort
  <2> QED BY <2>1 DEF BehindInv, FilledInv
<1> QED BY <1>3, <1>4, <1>5, <1>6, <1>7, <1>8, <1>9, <1>10, FollowInvalidate
        DEF Fetch

LEMMA FollowStep == IInv /\ FollowInv /\ [Next]_vars => FollowInv'
<1> SUFFICES ASSUME IInv, FollowInv, [Next]_vars, ~Fetch PROVE FollowInv'
  BY FollowFetch
<1>1. UNCHANGED <<lock, tree, stamps, now, prev, missed>>
  BY DEF Next, vars, fetchVars, Build, StartBuild, BuildBase, Variant,
         BuildByHand, User, Release, Recut, EditLock, EditWork, disk, flags
<1>2. pc' = pc \/ (pc \notin FetchSteps /\ pc' \notin FetchSteps)
  BY DEF Next, vars, fetchVars, Build, StartBuild, BuildBase, Variant,
         BuildByHand, Variants, Unverified, Ends, User, Release, Recut,
         EditLock, EditWork, FetchSteps
<1> QED BY <1>1, <1>2
        DEF FollowInv, BehindInv, StampedOf, FilledInv, FetchSteps,
            AfterCoreboot, AfterEdk2, AfterHead, AfterLbmk

\* What a fetch writes into config/versions.lock it has fetched, every tree and
\* the tarball, for any tags and any number of stopped runs; the exception is a
\* run stopped between the lock and the stamps with no --refresh since, and it
\* is needed (README, section 4).
THEOREM LockTakesOverFetched == Spec => TakesOverFetched
<1>1. ASSUME IInv, FollowInv, [Next]_vars, config' # config, pc # "idle"
      PROVE  /\ whole = Trees
             /\ config'["edk2"] = tree["edk2"]
             /\ sums.ref = config'["libreboot"].ref
             /\ ~missed \/ refresh =>
                  \A c \in Trees : tree[c].ref = config'[c].ref
  <2>1. TakeOver
    BY <1>1
       DEF Next, vars, fetchVars, Build, StartBuild, BuildBase, Variant,
           BuildByHand, Fetch, User, Start, FillLock, Invalidate, Coreboot,
           Clone, Crossgcc, Edk2, Checkout, Submodules, Head, Libreboot,
           Download, Verify, Lbmk, Populate, Checksums, Freeze, Abort, Release,
           Recut, EditLock, EditWork
  <2>2. lock = [now EXCEPT !["edk2"] = tree["edk2"]] /\ now \in [Comps -> Version]
    BY <1>1, <2>1 DEF TakeOver, IInv, SetInv, AfterHead, FetchSteps
  <2>3. whole = Trees
    BY <1>1, <2>1, SetFacts
       DEF TakeOver, IInv, TypeInv, TreeOK, TreeInv, AfterCoreboot, AfterEdk2,
           AfterHead, AfterLbmk
  <2>4. sums.ref = now["libreboot"].ref
    BY <1>1, <2>1 DEF TakeOver, IInv, SumsInv
  <2>5. ASSUME ~missed \/ refresh, NEW c \in Trees
        PROVE  tree[c].ref = now[c].ref
    BY <1>1, <2>1, <2>5, SetFacts
       DEF TakeOver, IInv, RefreshInv, FollowInv, FilledInv, AfterCoreboot,
           AfterEdk2, AfterHead, AfterDownload, AfterLbmk
  <2> QED BY <2>1, <2>2, <2>3, <2>4, <2>5, SetFacts DEF TakeOver
<1> QED BY <1>1, Invariance, FollowInit, FollowStep, PTL
        DEF Spec, TakesOverFetched
-----------------------------------------------------------------------------
(***************************************************************************)
(* The type of the image.  Its libreboot tarball is the first of a          *)
(* directory, so one must be there whenever the lbmk tree is whole: the     *)
(* tarball that has filled its cache.                                       *)
(***************************************************************************)

Images == [label  : Set \X Works \cup {NoLabel},
           from   : [Comps -> Version],
           config : Works]

BuildTypeInv ==
  /\ force \in BOOLEAN
  /\ asked \in Works \cup {0}
  /\ pc = "base" => asked \in Works
  /\ "lbmk" \in whole => \E r \in Refs : tarball[r] # "none"
  /\ image = NoImage \/ image \in Images

LEMMA LeastNumber ==
  ASSUME NEW T, T \subseteq Nat, T # {}
  PROVE  \E n \in T : \A m \in T : n <= m
<1>1. IsWellFoundedOn(OpToRel(<, Nat), Nat)
  BY NatLessThanWellFounded
<1>2. PICK n \in T : \A m \in T : ~(<<m, n>> \in OpToRel(<, Nat))
  BY <1>1, WFMin
<1>3. \A m \in T : m \in Nat /\ ~(m < n)
  BY <1>2 DEF OpToRel
<1> QED BY <1>3

\* ls | head -1 finds a tarball where there is one.
LEMMA FirstTarballThere ==
  ASSUME \E r \in Refs : tarball[r] # "none"
  PROVE  FirstTarball \in Refs
<1> DEFINE T == {r \in Refs : tarball[r] # "none"}
<1>1. T \subseteq Nat /\ T # {}
  BY FetchAssumption
<1> HIDE DEF T
<1>2. PICK n \in T : \A m \in T : n <= m
  BY <1>1, LeastNumber
<1> USE DEF T
<1>3. /\ n \in Refs
      /\ tarball[n] # "none"
      /\ \A q \in Refs : tarball[q] # "none" => n <= q
  BY <1>2
<1> QED BY <1>3 DEF FirstTarball

LEMMA BuildTypeFetch ==
  ASSUME IInv, BuildTypeInv, Fetch, UNCHANGED buildVars
  PROVE  BuildTypeInv'
<1> USE DEF buildVars
<1>1. pc' # "base"
  BY DEF Fetch, Start, FillLock, Invalidate, Coreboot, Clone, Crossgcc, Edk2,
         Checkout, Submodules, Head, Libreboot, Download, Verify, Lbmk,
         Populate, Checksums, TakeOver, Freeze, Abort, Goto, Exit
<1>2. ASSUME NEW r \in Refs, tarball[r] # "none" PROVE tarball'[r] # "none"
  BY <1>2
     DEF Fetch, Start, FillLock, Invalidate, Coreboot, Clone, Crossgcc, Edk2,
         Checkout, Submodules, Head, Libreboot, Download, Verify, Lbmk,
         Populate, Checksums, TakeOver, Freeze, Abort, disk,
         IInv, TypeInv, FileOK
<1>3. ASSUME "lbmk" \in whole', "lbmk" \notin whole
      PROVE  /\ pc = "populate" /\ tarball' = tarball
             /\ tarball[now["libreboot"].ref] = "whole"
  BY <1>3
     DEF Fetch, Start, FillLock, Invalidate, Coreboot, Clone, Crossgcc, Edk2,
         Checkout, Submodules, Head, Libreboot, Download, Verify, Lbmk,
         Populate, Checksums, TakeOver, Freeze, Abort, disk
<1>4. "lbmk" \in whole' => \E r \in Refs : tarball'[r] # "none"
  <2>1. CASE "lbmk" \in whole
    BY <2>1, <1>2 DEF BuildTypeInv
  <2>2. CASE "lbmk" \in whole' /\ "lbmk" \notin whole
    <3>1. now["libreboot"].ref \in Refs
      BY <2>2, <1>3, SetFacts, VersionRef DEF IInv, SetInv, FetchSteps
    <3> QED BY <3>1, <2>2, <1>3
  <2> QED BY <2>1, <2>2
<1> QED BY <1>1, <1>4 DEF BuildTypeInv

\* What the Dockerfile makes of sources/ is an image.
LEMMA BuiltImageType ==
  ASSUME IInv, BuildTypeInv, Compiles, frozen # 0, lock \in Set
  PROVE  BuiltImage \in Images
<1>1. frozen \in Works
  BY DEF IInv, TypeInv, RestOK
<1>2. FirstTarball \in Refs
  BY FirstTarballThere DEF Compiles, BuildTypeInv
<1>3. [ref |-> FirstTarball, rev |-> 0] \in Version
  BY <1>2 DEF Version
<1>4. ASSUME NEW c \in Trees PROVE tree[c] \in Version
  <2>1. tree[c] # Nothing
    BY SetFacts DEF Compiles, IInv, StampInv, StampMeansWhole
  <2>2. tree[c] \in Version \cup {Nothing}
    BY DEF IInv, TypeInv, TreeOK
  <2> QED BY <2>1, <2>2
<1> DEFINE from == [c \in Comps |-> IF c = "libreboot"
                                    THEN [ref |-> FirstTarball, rev |-> 0]
                                    ELSE tree[c]]
<1>5. from \in [Comps -> Version]
  BY <1>3, <1>4 DEF Trees
<1>6. BuiltImage = [label |-> <<lock, frozen>>, from |-> from, config |-> frozen]
  BY DEF BuiltImage, ConfigHash
<1> HIDE DEF from
<1> QED BY <1>1, <1>5, <1>6 DEF Images

LEMMA BuildTypeBase ==
  ASSUME IInv, BuildTypeInv, BuildBase
  PROVE  BuildTypeInv'
<1>1. UNCHANGED <<whole, tarball>> /\ pc' \in {"idle", "variant", "unverified"}
  BY DEF BuildBase, Variants, Unverified, Ends, disk
<1>2. force' \in BOOLEAN /\ asked' \in Works \cup {0}
  BY DEF BuildBase, Variants, Unverified, Ends, BuildTypeInv
<1>3. image' = NoImage \/ image' \in Images
  <2>1. CASE image' = image
    BY <2>1 DEF BuildTypeInv
  <2>2. CASE image' = BuiltImage /\ Compiles
    <3>1. frozen # 0 /\ lock \in Set
      BY DEF BuildBase, IInv, ImageInv, TypeInv, LockOK
    <3> QED BY <2>2, <3>1, BuiltImageType
  <2> QED BY <2>1, <2>2 DEF BuildBase
<1> QED BY <1>1, <1>2, <1>3 DEF BuildTypeInv

LEMMA BuildTypeByHand ==
  ASSUME IInv, BuildTypeInv, BuildByHand
  PROVE  BuildTypeInv'
<1>1. BuiltImage \in Images
  BY BuiltImageType DEF BuildByHand, IInv, TypeInv, LockOK
<1>2. [BuiltImage EXCEPT !.label = NoLabel] \in Images
  BY <1>1 DEF Images
<1> QED BY <1>2 DEF BuildByHand, fetchVars, BuildTypeInv

LEMMA BuildTypeStep ==
  IInv /\ BuildTypeInv /\ [Next]_vars => BuildTypeInv'
<1> SUFFICES ASSUME IInv, BuildTypeInv, [Next]_vars PROVE BuildTypeInv'
  OBVIOUS
<1>1. ASSUME NEW f \in BOOLEAN, StartBuild(f) PROVE BuildTypeInv'
  BY <1>1, BuildAssumption DEF StartBuild, disk, BuildTypeInv
<1>2. ASSUME Variant PROVE BuildTypeInv'
  BY <1>2 DEF Variant, Ends, disk, BuildTypeInv
<1>3. ASSUME User, UNCHANGED buildVars PROVE BuildTypeInv'
  BY <1>3 DEF User, Release, Recut, EditLock, EditWork, disk, buildVars,
              BuildTypeInv
<1>4. CASE UNCHANGED vars
  BY <1>4 DEF vars, fetchVars, BuildTypeInv
<1> QED BY <1>1, <1>2, <1>3, <1>4, BuildTypeFetch, BuildTypeBase,
          BuildTypeByHand
       DEF Next, Build, buildVars

\* The state of a build host keeps its type: above all, an image is built of
\* four versions that exist, and of a working tree that a build was asked for.
THEOREM TypeCorrect == Spec => []TypeOK
<1>1. Init => BuildTypeInv
  BY DEF Init, FetchInit, BuildTypeInv
<1>2. IInv /\ BuildTypeInv => TypeOK
  BY DEF IInv, TypeInv, TreeOK, FileOK, LockOK, RestOK, BuildTypeInv, TypeOK,
         FetchTypeOK, Images
<1> QED BY <1>1, <1>2, Invariance, BuildTypeStep, PTL DEF Spec

-----------------------------------------------------------------------------
(***************************************************************************)
(* When a ROM is built of the set that sources/versions.lock names: as long *)
(* as the lock keeps its libreboot release, no tag is cut again and no      *)
(* fetch stops midway.                                                      *)
(***************************************************************************)

Steady == "libreboot" \notin Moving /\ Recuts = {} /\ MaxFaults = 0

FirstCut == [ref |-> 1, rev |-> 0]

\* A tag has one commit, libreboot has one release, and no stop hides a move.
TagInv ==
  /\ \A c \in Comps, r \in Refs : tag[c][r] = 0
  /\ newest["libreboot"] = 1
  /\ \A c \in Comps : config[c].rev = 0
  /\ config["libreboot"].ref = 1
  /\ pc \in FetchSteps => /\ \A c \in Comps : now[c].rev = 0
                          /\ now["libreboot"].ref = 1
  /\ \A c \in Trees : tree[c].rev = 0
  /\ ~missed

\* So there is one tarball, and a download that began is completed.
TarballInv ==
  /\ \A r \in Refs : tarball[r] # "none" => r = 1
  /\ pc # "download" => tarball[1] # "part"
  /\ pc \in AfterDownload => tarball[1] = "whole"

\* sources/ is what its lock names as soon as it can be built from.
SourcesInv ==
  /\ ready = "no" => pc \in FetchSteps \/ (pc = "idle" /\ frozen = 0)
  /\ ready # "no" => /\ \A c \in Trees : tree[c] = lock[c]
                     /\ lock["libreboot"] = FirstCut

\* And so is the image, by its label.
FromInv ==
  /\ image.label # NoLabel => image.from = image.label[1]
  /\ pc = "variant" => image.from = lock

LockInv == TagInv /\ TarballInv /\ FollowInv /\ SourcesInv /\ FromInv

LEMMA LockInit == Init => LockInv
<1> SUFFICES ASSUME Init PROVE LockInv
  OBVIOUS
<1> USE DEF Init, FetchInit
<1>1. TagInv
  BY SetFacts DEF TagInv, FetchSteps, Nothing
<1>2. TarballInv
  BY FetchAssumption DEF TarballInv, AfterDownload
<1>3. FollowInv
  BY FollowInit
<1>4. SourcesInv /\ FromInv
  BY DEF SourcesInv, FromInv, NoImage
<1> QED BY <1>1, <1>2, <1>3, <1>4 DEF LockInv

\* A version is known by its tag.
LEMMA OneCut ==
  ASSUME IInv, TagInv, pc \in FetchSteps, NEW c \in Comps
  PROVE  /\ now[c] \in Version /\ now[c].ref \in Refs
         /\ Cut(c, now[c].ref) = now[c]
<1>1. now[c] \in Version
  BY DEF IInv, SetInv
<1>2. PICK r \in Refs, v \in 0 .. 1 : now[c] = [ref |-> r, rev |-> v]
  BY <1>1 DEF Version
<1>3. v = 0 /\ now[c].ref = r
  BY <1>2 DEF TagInv
<1> QED BY <1>1, <1>2, <1>3 DEF Cut, TagInv

LEMMA LockUser ==
  ASSUME Steady, IInv, LockInv, User, UNCHANGED buildVars
  PROVE  LockInv'
<1>1. UNCHANGED <<lock, tree, whole, stamps, tarball, sha, sums, frozen, pc,
                  latest, refresh, prev, now, ready, missed, force, asked,
                  image>>
  BY DEF User, Release, Recut, EditLock, EditWork, buildVars, disk, flags
<1>2. TagInv'
  <2> USE <1>1 DEF LockInv, TagInv, Steady
  <2>1. ASSUME NEW c \in Comps, Release(c) PROVE TagInv'
    BY <2>1, SetFacts DEF Release, IInv, TypeInv, RestOK
  <2>2. ASSUME NEW c \in Comps, Recut(c) PROVE TagInv'
    BY <2>2 DEF Recut
  <2>3. ASSUME NEW c \in Comps, NEW r \in Refs, EditLock(c, r) PROVE TagInv'
    <3>1. /\ UNCHANGED <<newest, tag>>
          /\ config' = [config EXCEPT ![c] = [ref |-> r, rev |-> 0]]
          /\ c # "libreboot"
      BY <2>3 DEF EditLock, upstream, Cut
    <3> QED BY <3>1, SetFacts DEF IInv, TypeInv, LockOK
  <2>4. ASSUME NEW w \in Works, EditWork(w) PROVE TagInv'
    BY <2>4 DEF EditWork, upstream
  <2> QED BY <2>1, <2>2, <2>3, <2>4 DEF User
<1>3. TarballInv' /\ FollowInv'
  BY <1>1 DEF LockInv, TarballInv, FollowInv, BehindInv, StampedOf, FilledInv
<1>4. SourcesInv' /\ FromInv'
  BY <1>1 DEF LockInv, SourcesInv, FromInv
<1> QED BY <1>2, <1>3, <1>4 DEF LockInv

\* Without faults a fetch ends only at its end.
LEMMA NoExit ==
  ASSUME Steady, IInv, LockInv, Fetch, pc \in FetchSteps, pc' \notin FetchSteps
  PROVE  Freeze
<1>1. ~Abort
  BY DEF Abort, Steady, IInv, TypeInv, RestOK
<1>2. Checkout => pc' = "submodules"
  BY OneCut, SetFacts DEF Checkout, Goto, LockInv
<1>3. Verify \/ Populate => pc' \in {"lbmk", "sums"}
  BY DEF Verify, Populate, Goto, LockInv, TarballInv, TagInv, AfterDownload
<1> QED BY <1>1, <1>2, <1>3
        DEF Fetch, Start, FillLock, Invalidate, Coreboot, Clone, Crossgcc, Edk2,
            Submodules, Head, Libreboot, Download, Lbmk, Checksums, TakeOver,
            Goto, FetchSteps

LEMMA LockTag ==
  ASSUME Steady, IInv, LockInv, Fetch
  PROVE  TagInv'
<1>1. UNCHANGED upstream
  BY DEF Fetch, Start, FillLock, Invalidate, Coreboot, Clone, Crossgcc, Edk2,
         Checkout, Submodules, Head, Libreboot, Download, Verify, Lbmk,
         Populate, Checksums, TakeOver, Freeze, Abort
<1>2. ~missed' /\ \A c \in Trees : tree'[c].rev = 0
  <2> USE DEF LockInv, TagInv
  <2>1. ~Abort
    BY DEF Abort, Steady, IInv, TypeInv, RestOK
  <2>2. ~missed'
    BY <2>1
       DEF Fetch, Start, FillLock, Invalidate, Coreboot, Clone, Crossgcc, Edk2,
           Checkout, Submodules, Head, Libreboot, Download, Verify, Lbmk,
           Populate, Checksums, TakeOver, Freeze
  <2>3. Nothing.rev = 0
    BY DEF Nothing
  <2>4. ASSUME Clone \/ Populate, NEW c \in Trees PROVE tree'[c].rev = 0
    <3>1. ASSUME NEW k \in Trees PROVE Cut(k, now[k].ref).rev = 0
      BY <2>4, <3>1, OneCut, SetFacts DEF Clone, Populate, FetchSteps
    <3> QED BY <2>4, <3>1, SetFacts DEF Clone, Populate, IInv, TypeInv, TreeOK
  <2>5. ASSUME ~Clone, ~Populate, NEW c \in Trees PROVE tree'[c].rev = 0
    BY <2>1, <2>3, <2>5, SetFacts
       DEF Fetch, Start, FillLock, Invalidate, Coreboot, Crossgcc, Edk2,
           Checkout, Submodules, Head, Libreboot, Download, Verify, Lbmk,
           Checksums, TakeOver, Freeze, disk, FetchSteps, IInv, TypeInv, TreeOK
  <2> QED BY <2>2, <2>4, <2>5
<1>3. CASE TakeOver
  <2>1. config' = lock /\ now' = now
    BY <1>3 DEF TakeOver, Goto, flags
  <2>2. lock = [now EXCEPT !["edk2"] = tree["edk2"]] /\ now \in [Comps -> Version]
    BY <1>3 DEF TakeOver, IInv, SetInv, AfterHead, FetchSteps
  <2>3. (\A c \in Comps : lock[c].rev = 0) /\ lock["libreboot"].ref = 1
    BY <1>3, <2>2, SetFacts DEF TakeOver, LockInv, TagInv, FetchSteps
  <2> QED BY <1>1, <1>2, <1>3, <2>1, <2>3
          DEF TakeOver, LockInv, TagInv, upstream, FetchSteps
<1>4. CASE \E l, r \in BOOLEAN : Start(l, r)
  <2>1. /\ now' = [c \in Comps |-> Cut(c, newest[c])] \/ now' = config
        /\ UNCHANGED config
    BY <1>4 DEF Start
  <2>2. \A c \in Comps : newest[c] \in Refs
    BY DEF IInv, TypeInv, RestOK
  <2> QED BY <1>1, <1>2, <2>1, <2>2, SetFacts DEF LockInv, TagInv, upstream, Cut
<1>5. CASE ~TakeOver /\ ~(\E l, r \in BOOLEAN : Start(l, r))
  <2>1. UNCHANGED config /\ (pc' \in FetchSteps => pc \in FetchSteps /\ now' = now)
    BY <1>5
       DEF Fetch, FillLock, Invalidate, Coreboot, Clone, Crossgcc, Edk2,
           Checkout, Submodules, Head, Libreboot, Download, Verify, Lbmk,
           Populate, Checksums, Freeze, Abort, Goto, Exit, flags, FetchSteps
  <2> QED BY <1>1, <1>2, <2>1 DEF LockInv, TagInv, upstream
<1> QED BY <1>3, <1>4, <1>5

LEMMA LockTarball ==
  ASSUME Steady, IInv, LockInv, Fetch
  PROVE  TarballInv'
<1> USE DEF LockInv, TagInv, TarballInv, AfterDownload
<1>1. tarball \in [Refs -> {"none", "part", "whole"}] /\ 1 \in Refs
  BY FetchAssumption DEF IInv, TypeInv, FileOK
<1>2. ASSUME Libreboot \/ Download PROVE TarballInv'
  BY <1>1, <1>2 DEF Libreboot, Download, Goto, FetchSteps
<1>3. ASSUME ~Libreboot, ~Download PROVE TarballInv'
  <2>1. UNCHANGED tarball
    BY <1>3
       DEF Fetch, Start, FillLock, Invalidate, Coreboot, Clone, Crossgcc, Edk2,
           Checkout, Submodules, Head, Verify, Lbmk, Populate, Checksums,
           TakeOver, Freeze, Abort, disk
  <2>2. pc # "download" /\ pc' # "download"
    BY <1>3
       DEF Fetch, Start, FillLock, Invalidate, Coreboot, Clone, Crossgcc, Edk2,
           Checkout, Submodules, Head, Verify, Lbmk, Populate, Checksums,
           TakeOver, Freeze, Abort, Goto, Exit, Steady, IInv, TypeInv, RestOK
  <2>3. pc' \in AfterDownload => pc \in AfterDownload
    BY <1>3
       DEF Fetch, Start, FillLock, Invalidate, Coreboot, Clone, Crossgcc, Edk2,
           Checkout, Submodules, Head, Verify, Lbmk, Populate, Checksums,
           TakeOver, Freeze, Abort, Goto, Exit
  <2> QED BY <2>1, <2>2, <2>3
<1> QED BY <1>2, <1>3

LEMMA LockSources ==
  ASSUME Steady, IInv, LockInv, Fetch, UNCHANGED buildVars
  PROVE  SourcesInv' /\ FromInv'
<1>1. FromInv'
  <2>1. pc' # "variant" /\ image' = image
    BY DEF Fetch, Start, FillLock, Invalidate, Coreboot, Clone, Crossgcc, Edk2,
           Checkout, Submodules, Head, Libreboot, Download, Verify, Lbmk,
           Populate, Checksums, TakeOver, Freeze, Abort, Goto, Exit, buildVars
  <2> QED BY <2>1 DEF LockInv, FromInv
<1>2. CASE Freeze
  <2>1. lock = [now EXCEPT !["edk2"] = tree["edk2"]] /\ now \in [Comps -> Version]
    BY <1>2 DEF Freeze, IInv, SetInv, AfterHead, FetchSteps
  <2>2. now["libreboot"] = FirstCut
    <3>1. now["libreboot"] = Cut("libreboot", 1) /\ "libreboot" \in Comps
      BY <1>2, OneCut, SetFacts DEF Freeze, LockInv, TagInv, FetchSteps
    <3> QED BY <3>1, FetchAssumption DEF Cut, LockInv, TagInv, FirstCut
  <2>3. ASSUME NEW c \in Trees PROVE tree[c] = now[c]
    <3>1. tree[c].ref = now[c].ref
      BY <1>2, SetFacts
         DEF Freeze, LockInv, TagInv, FollowInv, FilledInv, AfterCoreboot,
             AfterEdk2, AfterHead, AfterLbmk
    <3>2. tree[c].rev = 0 /\ now[c].rev = 0
      BY <1>2, SetFacts DEF Freeze, LockInv, TagInv, FetchSteps
    <3>3. tree[c] \in Version \cup {Nothing} /\ now[c] \in Version
      BY <2>1, SetFacts DEF IInv, TypeInv, TreeOK
    <3> QED BY <3>1, <3>2, <3>3 DEF Version, Nothing
  <2>4. \A c \in Trees : tree[c] = lock[c]
    BY <2>1, <2>3, SetFacts
  <2>5. lock["libreboot"] = FirstCut
    BY <2>1, <2>2, SetFacts
  <2>6. ready' # "no" /\ UNCHANGED <<lock, tree>>
    BY <1>2 DEF Freeze, disk
  <2> QED BY <1>1, <2>4, <2>5, <2>6 DEF SourcesInv, FirstCut
<1>3. CASE ~Freeze
  <2>1. ready' = "no"
    BY <1>3
       DEF Fetch, Start, FillLock, Invalidate, Coreboot, Clone, Crossgcc, Edk2,
           Checkout, Submodules, Head, Libreboot, Download, Verify, Lbmk,
           Populate, Checksums, TakeOver, Abort, IInv, SetInv, FetchSteps
  <2>2. pc' \in FetchSteps
    <3>1. pc \notin FetchSteps => \E l, r \in BOOLEAN : Start(l, r)
      BY DEF Fetch, FillLock, Invalidate, Coreboot, Clone, Crossgcc, Edk2,
             Checkout, Submodules, Head, Libreboot, Download, Verify, Lbmk,
             Populate, Checksums, TakeOver, Freeze, Abort, FetchSteps
    <3> QED BY <3>1, <1>3, NoExit DEF Start, FetchSteps
  <2> QED BY <1>1, <2>1, <2>2 DEF SourcesInv, FetchSteps
<1> QED BY <1>2, <1>3

\* The only tarball is the first one.
LEMMA BuiltOfLock ==
  ASSUME IInv, BuildTypeInv, LockInv, Compiles, ready # "no"
  PROVE  BuiltImage.from = lock
<1>1. FirstTarball = 1
  <2>1. \E r \in Refs : tarball[r] # "none"
    BY DEF Compiles, BuildTypeInv
  <2>2. 1 \in Refs /\ tarball[1] # "none"
    BY <2>1 DEF LockInv, TarballInv
  <2>3. \A r \in Refs : tarball[r] # "none" => r = 1
    BY DEF LockInv, TarballInv
  <2> QED BY <2>2, <2>3 DEF FirstTarball
<1>2. lock \in [Comps -> Version \cup {Nothing}]
  BY DEF IInv, TypeInv, LockOK, Set
<1>3. \A c \in Comps : BuiltImage.from[c] = lock[c]
  BY <1>1 DEF BuiltImage, LockInv, SourcesInv, FirstCut, Trees
<1>4. BuiltImage.from = [c \in Comps |-> BuiltImage.from[c]]
  BY DEF BuiltImage
<1>5. lock = [c \in Comps |-> lock[c]]
  BY <1>2
<1> QED BY <1>3, <1>4, <1>5

LEMMA LockBuild ==
  ASSUME Steady, IInv, BuildTypeInv, LockInv, Build
  PROVE  LockInv'
<1>1. UNCHANGED <<newest, tag, config, lock, tree, whole, stamps, tarball, now,
                  prev, ready, missed>>
  BY DEF Build, StartBuild, BuildBase, Variant, BuildByHand, fetchVars, upstream,
         disk, flags
<1>2. pc \notin FetchSteps /\ pc' \notin FetchSteps
  BY DEF Build, StartBuild, BuildBase, Variant, BuildByHand, fetchVars, Variants,
         Unverified, Ends, FetchSteps
<1>3. TagInv' /\ FollowInv'
  BY <1>1, <1>2, FollowStep DEF LockInv, TagInv, Next
<1>4. TarballInv'
  BY <1>1, <1>2 DEF LockInv, TarballInv, FetchSteps, AfterDownload
<1>5. ready # "no"
  BY <1>2 DEF Build, StartBuild, RequireSources, BuildBase, Variant,
              BuildByHand, LockInv, SourcesInv
<1>6. SourcesInv'
  BY <1>1, <1>5 DEF LockInv, SourcesInv
<1>7. FromInv'
  <2>1. ASSUME StartBuild(TRUE) \/ StartBuild(FALSE) PROVE FromInv'
    BY <2>1 DEF StartBuild, LockInv, FromInv
  <2>2. ASSUME Variant PROVE FromInv'
    BY <2>2 DEF Variant, Ends, LockInv, FromInv
  <2>3. ASSUME BuildBase PROVE FromInv'
    <3>1. CASE image' = image
      <4>1. ConfigHash # NoLabel /\ ConfigHash[1] = lock
        BY <2>3 DEF BuildBase, ConfigHash, NoLabel, IInv, ImageInv
      <4>2. pc' = "variant" => image.label = ConfigHash \/ (image' = BuiltImage /\ Compiles)
        BY <2>3, <4>1 DEF BuildBase, Variants, Unverified, Ends
      <4>3. BuiltImage.label = ConfigHash
        BY DEF BuiltImage
      <4> QED BY <1>1, <1>5, <3>1, <4>1, <4>2, <4>3, BuiltOfLock
              DEF LockInv, FromInv
    <3>2. CASE image' = BuiltImage /\ Compiles
      <4>1. BuiltImage.label[1] = lock
        BY DEF BuiltImage, ConfigHash
      <4> QED BY <1>1, <1>5, <3>2, <4>1, BuiltOfLock DEF FromInv
    <3> QED BY <2>3, <3>1, <3>2 DEF BuildBase
  <2>4. ASSUME BuildByHand PROVE FromInv'
    <3>1. image'.label = NoLabel /\ pc' = "idle"
      BY <2>4 DEF BuildByHand, BuiltImage, fetchVars
    <3> QED BY <3>1 DEF FromInv
  <2> QED BY <2>1, <2>2, <2>3, <2>4 DEF Build
<1> QED BY <1>3, <1>4, <1>6, <1>7 DEF LockInv

LEMMA LockStep ==
  Steady /\ IInv /\ BuildTypeInv /\ LockInv /\ [Next]_vars => LockInv'
<1> SUFFICES ASSUME Steady, IInv, BuildTypeInv, LockInv, [Next]_vars
             PROVE  LockInv'
  OBVIOUS
<1>1. ASSUME Fetch, UNCHANGED buildVars PROVE LockInv'
  BY <1>1, LockTag, LockTarball, FollowFetch, LockSources DEF LockInv
<1>2. CASE UNCHANGED vars
  <2> USE <1>2 DEF vars, fetchVars
  <2>1. TagInv' /\ TarballInv'
    BY DEF LockInv, TagInv, TarballInv
  <2>2. FollowInv' /\ SourcesInv' /\ FromInv'
    BY DEF LockInv, FollowInv, BehindInv, StampedOf, FilledInv, SourcesInv,
           FromInv
  <2> QED BY <2>1, <2>2 DEF LockInv
<1> QED BY <1>1, <1>2, LockUser, LockBuild DEF Next, buildVars

\* The promise in the header of sources/versions.lock, that it is the set the
\* sources were fetched with and a ROM is built from.  The run "libreboot" shows
\* that it breaks when the lock moves to another libreboot; moves of the other
\* three, by hand or by --latest, with --refresh or without, keep it.
THEOREM RomIsOfItsLock ==
  ASSUME "libreboot" \notin Moving, Recuts = {}, MaxFaults = 0
  PROVE  Spec => []RomFollowsLock
<1>1. Init => IInv /\ BuildTypeInv /\ LockInv
  BY InitHolds, LockInit DEF Init, FetchInit, BuildTypeInv
<1>2. IInv /\ BuildTypeInv /\ LockInv /\ [Next]_vars
        => (IInv /\ BuildTypeInv /\ LockInv)'
  BY StepHolds, BuildTypeStep, LockStep DEF Steady
<1>3. LockInv => RomFollowsLock
  BY DEF LockInv, FromInv, RomFollowsLock
<1> QED BY <1>1, <1>2, <1>3, PTL DEF Spec
=============================================================================
