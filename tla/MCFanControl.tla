---------------------------- MODULE MCFanControl ----------------------------
(***************************************************************************)
(* FanControl at the temperatures where some profile changes its mind: each *)
(* threshold and the degree below it.  Option 7 is garbage in SMMSTORE.     *)
(***************************************************************************)
EXTENDS FanControl

Thresholds == {FTBL[p][k] : p \in 1 .. 4, k \in 1 .. 8}

MCTemps == Thresholds \cup {t - 1 : t \in Thresholds}
=============================================================================
