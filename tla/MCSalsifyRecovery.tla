------------------------- MODULE MCSalsifyRecovery -------------------------
(***************************************************************************)
(* Small calls whose network turns good, with the values of MCSalsify.     *)
(***************************************************************************)
EXTENDS MCSalsify, SalsifyRecovery
=============================================================================
