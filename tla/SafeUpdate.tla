----------------------------- MODULE SafeUpdate -----------------------------
(***************************************************************************)
(* What updates by capsule promise, with nothing in it about slots, blocks, *)
(* CMOS or power: a machine holds a few releases that it can go back to,    *)
(* every one of which has worked on it, and never none; a floor under the   *)
(* versions rises to that of a release that has reported success, and only  *)
(* while that release is one of them.                                       *)
(***************************************************************************)
EXTENDS Integers

CONSTANTS
  Releases,   \* firmware releases
  Factory,    \* the release the machine is made with
  Version     \* Version[i]: what the floor is compared with

VARIABLES
  usable,     \* releases the machine can go back to
  proven,     \* releases that came up on this machine
  confirmed,  \* releases that reported success on it
  floor       \* versions below it are refused

vars == <<usable, proven, confirmed, floor>>

Init ==
  /\ usable = {Factory}
  /\ proven = {Factory}
  /\ confirmed = {}
  /\ floor = 0

\* An update in progress: releases go and known ones come, and one that was
\* usable stays so.
Replace ==
  /\ usable' \in SUBSET {i \in proven : Version[i] >= floor}
  /\ usable' \cap usable # {}
  /\ UNCHANGED <<proven, confirmed, floor>>

\* A release comes up for the first time; what was usable still is.
Prove(i) ==
  /\ i \notin proven
  /\ Version[i] >= floor
  /\ proven' = proven \cup {i}
  /\ usable' = usable \cup {i}
  /\ UNCHANGED <<confirmed, floor>>

Confirm(i) ==
  /\ i \in usable
  /\ confirmed' = confirmed \cup {i}
  /\ UNCHANGED <<usable, proven, floor>>

\* What the floor passes is refused from here on.
RaiseFloor(i) ==
  /\ i \in usable \cap confirmed
  /\ Version[i] > floor
  /\ floor' = Version[i]
  /\ usable' = {j \in usable : Version[j] >= floor'}
  /\ UNCHANGED <<proven, confirmed>>

Next ==
  \/ Replace
  \/ \E i \in Releases : Prove(i) \/ Confirm(i) \/ RaiseFloor(i)

Spec == Init /\ [][Next]_vars
=============================================================================
