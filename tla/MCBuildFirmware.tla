--------------------------- MODULE MCBuildFirmware ---------------------------
(***************************************************************************)
(* BuildFirmware with two releases of what moves.  Refs is small and        *)
(* ordered, so its numbers are given as they are.                           *)
(***************************************************************************)
EXTENDS BuildFirmware
=============================================================================
