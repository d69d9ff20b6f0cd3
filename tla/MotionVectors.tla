--------------------------- MODULE MotionVectors ---------------------------
(***************************************************************************)
(* The vectors a macroblock may take over from its neighbours.  Scorer     *)
(* ranks the vectors of the three neighbours already known; the ranking    *)
(* gives the candidates NEARESTMV, NEARMV and the base of NEWMV, and picks *)
(* the probabilities the mode is coded with.                               *)
(***************************************************************************)
EXTENDS Integers

CONSTANTS Width, Height  (* of the frame, in macroblocks                     *)

ASSUME SizeAssumption == Width \in Nat \ {0} /\ Height \in Nat \ {0}

Vectors == [ x : Int, y : Int ]
MotionVector(x, y) == [ x |-> x, y |-> y ]
Zero == MotionVector(0, 0)
Negated(mv) == MotionVector(-mv.x, -mv.y)
Plus(a, b) == MotionVector(a.x + b.x, a.y + b.y)
Minus(a, b) == Plus(a, Negated(b))

-----------------------------------------------------------------------------
(* A neighbour as the census sees it: its vector, the one of its last block, *)
(* counts for an inter-coded macroblock only.                                *)
Neighbours == [ inter : BOOLEAN, split : BOOLEAN, flipped : BOOLEAN, mv : Vectors ]
Outside == [ inter |-> FALSE, split |-> FALSE, flipped |-> FALSE, mv |-> Zero ]

Scorer == [ scores |-> [ i \in 0..3 |-> 0 ], vectors |-> [ i \in 0..3 |-> Zero ],
            split |-> 0, index |-> 0 ]

(* Equal vectors share a score only when they come one after the other.      *)
AddVector(census, score, mv) ==
  LET i == IF mv = Zero THEN 0
           ELSE IF mv = census.vectors[census.index] THEN census.index
           ELSE census.index + 1
  IN [ census EXCEPT !.scores[i] = @ + score,
                     !.vectors[i] = mv,
                     !.index = IF i = 0 THEN @ ELSE i ]

(* Seeded fault: a vector that points the other way in time is not turned.   *)
AddAsIs(census, score, neighbour, flipped) ==
  IF ~neighbour.inter THEN census
  ELSE LET added == AddVector(census, score, neighbour.mv)
       IN [ added EXCEPT !.split = IF neighbour.split THEN @ + score ELSE @ ]

Add(census, score, neighbour, flipped) ==
  IF ~neighbour.inter THEN census
  ELSE LET mv == IF neighbour.flipped # flipped THEN Negated(neighbour.mv)
                                               ELSE neighbour.mv
           added == AddVector(census, score, mv)
       IN [ added EXCEPT !.split = IF neighbour.split THEN @ + score ELSE @ ]

(* A third vector equal to the first counts for it after all.                *)
ThirdJoined(census) ==
  IF census.scores[3] > 0 /\ census.vectors[census.index] = census.vectors[1]
  THEN [ census EXCEPT !.scores[1] = @ + census.scores[3] ]
  ELSE census

Ordered(census) ==
  IF census.scores[2] > census.scores[1]
  THEN [ census EXCEPT !.scores[1] = census.scores[2], !.scores[2] = census.scores[1],
                       !.vectors[1] = census.vectors[2], !.vectors[2] = census.vectors[1] ]
  ELSE census

Based(census) ==
  IF census.scores[1] >= census.scores[0]
  THEN [ census EXCEPT !.vectors[0] = census.vectors[1] ]
  ELSE census

Calculate(census) == Based(Ordered(ThirdJoined(census)))

motion_vector_census(above, left, above_left, flipped) ==
  Calculate(Add(Add(Add(Scorer, 2, above, flipped), 2, left, flipped),
                1, above_left, flipped))

best(census) == census.vectors[0]
nearest(census) == census.vectors[1]
near(census) == census.vectors[2]
mode_contexts(census) ==
  << census.scores[0], census.scores[1], census.scores[2], census.split >>

-----------------------------------------------------------------------------
Between(n, low, high) == IF n < low THEN low ELSE IF n > high THEN high ELSE n

(* Scorer::clamp: in eighths of a pixel, a macroblock may leave the frame by *)
(* its own size.                                                             *)
Clamp(mv, column, row) ==
  MotionVector(Between(mv.x, -(column * 128) - 128, (Width - 1 - column) * 128 + 128),
               Between(mv.y, -(row * 128) - 128, (Height - 1 - row) * 128 + 128))

(* luma_to_chroma: the average of four vectors, half a unit away from zero.  *)
Averaged(sum) == IF sum >= 0 THEN (sum + 4) \div 8 ELSE -((-sum + 4) \div 8)

luma_to_chroma(a, b, c, d) ==
  MotionVector(Averaged(a.x + b.x + c.x + d.x), Averaged(a.y + b.y + c.y + d.y))

(* The probabilities of a sub-block's mode, from the vectors beside it.      *)
submv_ref_index(left, above) ==
  IF left = above THEN IF left = Zero THEN 4 ELSE 3
  ELSE IF above = Zero THEN 2
  ELSE IF left = Zero THEN 1
  ELSE 0

-----------------------------------------------------------------------------
(* The number of neighbours' points for a vector, however they came.         *)
Points(mv, neighbours, flipped) ==
  LET Turned(n) == IF n.flipped # flipped THEN Negated(n.mv) ELSE n.mv
      Score(k) == IF neighbours[k].inter /\ Turned(neighbours[k]) = mv
                  THEN IF k = 3 THEN 1 ELSE 2
                  ELSE 0
  IN Score(1) + Score(2) + Score(3)

(* The census never offers a vector no neighbour has, in the block's own     *)
(* direction of time; the nearest is the one with most points of those that  *)
(* are not zero; nearest and near differ; the base of NEWMV has as many      *)
(* points as zero at least; and the scores stay within the table of six rows *)
(* they index.                                                               *)
CensusIsFair(above, left, above_left, flipped) ==
  LET neighbours == << above, left, above_left >>
      census == motion_vector_census(above, left, above_left, flipped)
      points(mv) == Points(mv, neighbours, flipped)
  IN /\ \A mv \in { best(census), nearest(census), near(census) } \ { Zero } :
          points(mv) > 0
     /\ nearest(census) = near(census) => nearest(census) = Zero
     /\ points(best(census)) >= points(Zero)
     /\ \A k \in 1..3 :
          LET n == neighbours[k]
              mv == IF n.flipped # flipped THEN Negated(n.mv) ELSE n.mv
          IN n.inter /\ mv # Zero => points(mv) <= points(nearest(census))
     /\ \A k \in 1..4 : mode_contexts(census)[k] \in 0..5
=============================================================================
