---------------------------- MODULE MCRasterPool ----------------------------
(***************************************************************************)
(* Three rasters, three handles, two sizes and two contents.               *)
(***************************************************************************)
EXTENDS RasterPool, TLC

Symmetry == Permutations(Raster) \cup Permutations(Handle)
=============================================================================
