------------------------------ MODULE RasterSize ------------------------------
(***************************************************************************)
(* The size of the pictures that are predicted from (vp8_raster.hh).       *)
(***************************************************************************)
EXTENDS Integers

CONSTANTS
  Columns, Rows,   (* of the raster, in macroblocks                          *)
  Margin           (* in pixels around a SafeRaster, 256 in the code         *)

ASSUME RasterSizeAssumption ==
  Columns \in Nat \ {0} /\ Rows \in Nat \ {0} /\ Margin \in Nat
=============================================================================
