--------------------------- MODULE MCOTAFirmware ---------------------------
(* OTAFirmware for TLC: the sizes of the firmwares, in blocks. *)
EXTENDS OTAFirmware, TLC

CONSTANTS f0, f1, f2

ThreeSizes == f0 :> 1 @@ f1 :> 3 @@ f2 :> 2
=============================================================================
