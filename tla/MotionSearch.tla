---------------------------- MODULE MotionSearch ----------------------------
(***************************************************************************)
(* The search for a new motion vector (encode_inter.cc): a diamond around  *)
(* the best place so far, halved again and again, begun anew with smaller  *)
(* diamonds as long as that helps.  Which place is best depends on the     *)
(* pictures: any that is looked at may be.  Vectors count eighths of a     *)
(* pixel.                                                                  *)
(***************************************************************************)
EXTENDS RasterSize

CONSTANTS
  FirstStep,       (* of the first diamond, 512 in the code                  *)
  Farthest,        (* from the base, 1023 in the code                        *)
  Bases            (* what census.best() may say                             *)

(* A macroblock's edge, and how far over the border clamp lets a vector      *)
(* point, in eighths; pixels of the raster that are not displayed take as    *)
(* much from the margin.                                                     *)
Macroblock == 128
Overhang == 128
Hidden == 8 * 15

PowersOfTwo == { 2, 4, 8, 16, 32, 64, 128, 256, 512, 1024 }

ASSUME SearchAssumption ==
  /\ FirstStep \in PowersOfTwo
  /\ Farthest \in Nat
  /\ 8 * Margin >= Overhang + Farthest + Hidden + 8 * 3
  /\ Bases \subseteq [ x : Int, y : Int ]
  /\ \A base \in Bases : base.x % 2 = 0 /\ base.y % 2 = 0

VARIABLES
  stage,       (* "start", "diamond", "done"                                 *)
  mb_place,    (* the macroblock                                             *)
  best_ref,    (* the clamped base                                           *)
  newmv,       (* the outer loop's vector, relative to the base              *)
  step,        (* the outer loop's first step                                *)
  origin,      (* the middle of the diamond                                  *)
  step_size,   (* and its size                                               *)
  first_step   (* what the next search would begin with                      *)

motion_vars == << stage, mb_place, best_ref, newmv, step, origin, step_size, first_step >>

Vector(x, y) == [ x |-> x, y |-> y ]
Sum2(a, b) == Vector(a.x + b.x, a.y + b.y)
Nowhere == Vector(0, 0)

Between(n, least, most) == IF n < least THEN least ELSE IF n > most THEN most ELSE n

(* Scorer::clamp                                                             *)
Clamped(v, macroblock) ==
  Vector(Between(v.x, -(macroblock.column * Macroblock) - Overhang,
                 ((Columns - 1) - macroblock.column) * Macroblock + Overhang),
         Between(v.y, -(macroblock.row * Macroblock) - Overhang,
                 ((Rows - 1) - macroblock.row) * Macroblock + Overhang))

out_of_bounds(v) ==
  v.x > Farthest \/ v.x < -Farthest \/ v.y > Farthest \/ v.y < -Farthest

check_sites == { Vector(-1, 0), Vector(0, -1), Vector(0, 0), Vector(0, 1), Vector(1, 0) }

(* Seeded fault: the places of a diamond are not looked at for bounds.       *)
SitesAnywhere(center, size) ==
  { Vector(center.x + size * site.x, center.y + size * site.y) : site \in check_sites }

Sites(center, size) ==
  { v \in { Vector(center.x + size * site.x, center.y + size * site.y) :
              site \in check_sites } : ~out_of_bounds(v) }

MotionInit ==
  /\ stage = "start"
  /\ mb_place = [ column |-> 0, row |-> 0 ]
  /\ best_ref = Nowhere /\ newmv = Nowhere /\ origin = Nowhere
  /\ step = FirstStep /\ step_size = FirstStep /\ first_step = FirstStep

(* luma_mb_inter_predict comes to NEWMV.                                     *)
BeginNewMv ==
  /\ stage = "start"
  /\ \E base \in Bases, column \in 0..(Columns - 1), row \in 0..(Rows - 1) :
       /\ mb_place' = [ column |-> column, row |-> row ]
       /\ best_ref' = Clamped(base, [ column |-> column, row |-> row ])
  /\ stage' = "diamond"
  /\ first_step' = FirstStep \div 2
  /\ UNCHANGED << newmv, step, origin, step_size >>

(* Seeded fault: the next search is to begin with the size that stayed where *)
(* it was, not the one below.                                                *)
SearchDiamondAsLarge ==
  /\ stage = "diamond"
  /\ step_size > 1
  /\ \E v \in Sites(origin, step_size) :
       /\ first_step' = IF v = origin THEN step_size ELSE first_step
       /\ origin' = v
  /\ step_size' = step_size \div 2
  /\ UNCHANGED << stage, mb_place, best_ref, newmv, step >>

(* One round of diamond_search.                                              *)
SearchDiamond ==
  /\ stage = "diamond"
  /\ step_size > 1
  /\ \E v \in Sites(origin, step_size) :
       /\ first_step' = IF v = origin THEN step_size \div 2 ELSE first_step
       /\ origin' = v
  /\ step_size' = step_size \div 2
  /\ UNCHANGED << stage, mb_place, best_ref, newmv, step >>

(* The search came back to where it began, or the loop runs out of steps.    *)
LeaveLoop ==
  /\ stage = "diamond"
  /\ step_size <= 1
  /\ origin = newmv \/ first_step <= 1
  /\ stage' = "done"
  /\ newmv' = origin
  /\ UNCHANGED << mb_place, best_ref, step, origin, step_size, first_step >>

SearchAgain ==
  /\ stage = "diamond"
  /\ step_size <= 1
  /\ origin # newmv /\ first_step > 1
  /\ newmv' = origin
  /\ step' = first_step
  /\ step_size' = first_step
  /\ first_step' = first_step \div 2
  /\ UNCHANGED << stage, mb_place, best_ref, origin >>

MotionNext == BeginNewMv \/ SearchDiamond \/ LeaveLoop \/ SearchAgain

MotionSpec == MotionInit /\ [][MotionNext]_motion_vars

-----------------------------------------------------------------------------
(* The prediction reads from two pixels before the block's first to three    *)
(* behind its last, in eighths from the raster's corner; the displayed       *)
(* picture ends at most Hidden before the raster.                            *)
StaysInMargin(v) ==
  /\ (v.x - 8 * 2) + mb_place.column * Macroblock >= -(8 * Margin)
  /\ (v.y - 8 * 2) + mb_place.row * Macroblock >= -(8 * Margin)
  /\ v.x + (mb_place.column + 1) * Macroblock + 8 * 3
       <= (Columns * Macroblock - Hidden) + 8 * Margin
  /\ v.y + (mb_place.row + 1) * Macroblock + 8 * 3
       <= (Rows * Macroblock - Hidden) + 8 * Margin

Even(v) == v.x % 2 = 0 /\ v.y % 2 = 0

(* Wherever the pictures draw the search, it stays within the bounds of its  *)
(* base for which there are tables of costs, reads no pixel beyond the       *)
(* margin the reference was copied with, neither for the vectors it looks at *)
(* (clamped) nor for the one it ends with, which it never clamps, and keeps  *)
(* to whole units of the coded vectors (encode_inter.cc:172-229, 287-300).   *)
SearchIsSafe ==
  stage # "start" =>
    /\ Even(best_ref) /\ Even(origin)
    /\ ~out_of_bounds(newmv) /\ ~out_of_bounds(origin)
    /\ StaysInMargin(Sum2(origin, best_ref))
    /\ \A v \in Sites(origin, step_size) :
         StaysInMargin(Clamped(Sum2(v, best_ref), mb_place))

(* Each search of the outer loop begins with a smaller diamond than the one  *)
(* before, although the next first step is that of the last round which      *)
(* stayed where it was, or half of the first if none did; so that the search *)
(* ends after few (encode_inter.cc:195-226, 287-298).                        *)
SearchShrinks == step_size' > step_size => step' < step /\ step_size' = step'

SearchEnds == [][SearchShrinks]_motion_vars
=============================================================================
