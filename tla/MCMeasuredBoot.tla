--------------------------- MODULE MCMeasuredBoot ---------------------------
(***************************************************************************)
(* MeasuredBoot with two files before the payload and a coreboot table in   *)
(* which the TPM log is not the first cbmem entry.                          *)
(***************************************************************************)
EXTENDS MeasuredBoot

MCFiles == <<"romstage", "payload">>
MCTable == <<"console", "tpm2", "acpi">>
=============================================================================
