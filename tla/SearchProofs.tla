----------------------------- MODULE SearchProofs -----------------------------
(***************************************************************************)
(* The searches for a quantizer, a filter level and a vector end with what *)
(* they look for and stay where they may read, and the residue of a        *)
(* macroblock is that of the mode chosen: for windows, rasters, margins,   *)
(* first diamonds and macroblocks of any size and any pictures.            *)
(***************************************************************************)
EXTENDS QuantizerSearch, MacroblockSearch, MotionSearch,
        SequenceTheorems, WellFoundedInduction, TLAPS

(***************************************************************************)
(* Quantizers and levels.                                                  *)
(***************************************************************************)
Searches ==
  [ goal : {"none", "size", "quality", "level"}, first : Int, last : Int,
    low : Int, high : Int, best : Int ]

(* Between low and high there is always a candidate as long as there is no   *)
(* answer; the answer lies right above high; what lies below low did not fit.*)
SizeInv ==
  search.goal = "size" =>
    /\ 0 <= search.first /\ search.last <= Coarsest
    /\ search.first <= search.low
    /\ search.low <= search.high + 1 /\ search.high <= search.last
    /\ search.best = None => search.high = search.last /\ search.low <= search.high
    /\ search.best # None =>
         /\ search.high = search.best - 1
         /\ search.first <= search.best
         /\ search.best <= search.last
         /\ search.best \in picture \/ search.best = search.last
    /\ CoarserFits => \A q \in search.first..(search.low - 1) : q \notin picture

(* As no picture is ever measured, only the upper end moves.                 *)
QualityInv ==
  search.goal = "quality" => search.low = 0 /\ search.best \in {None, 0}

(* Levels are taken one by one; the first that is no better ends the search. *)
LevelInv ==
  search.goal = "level" =>
    /\ 0 <= search.first /\ search.first <= search.last
    /\ search.best = None => search.low = search.first /\ search.high = search.last
    /\ search.best # None =>
         /\ search.best \in search.first..search.last
         /\ search.low = search.best + 1
         /\ \/ search.high = search.last
            \/ search.high = search.best /\ search.low \notin picture
    /\ \A l \in (search.first + 1)..search.best : l \in picture

QuantizerInv ==
  /\ search \in Searches
  /\ picture \subseteq Int
  /\ SizeInv /\ QualityInv /\ LevelInv

-----------------------------------------------------------------------------
(* The middle of a window that is not empty lies in it.                      *)
LEMMA MiddleLies ==
  ASSUME NEW low \in Int, NEW high \in Int, low <= high
  PROVE  /\ (low + high) \div 2 \in Int
         /\ low <= (low + high) \div 2
         /\ (low + high) \div 2 <= high
         /\ low < high => (low + high) \div 2 < high
OBVIOUS

(* A window around any quantizer of a last frame, or none, is not empty.     *)
LEMMA SizeWindowLies ==
  ASSUME NEW last \in Lasts
  PROVE  /\ SizeWindow(last).first \in Nat
         /\ SizeWindow(last).last \in Nat
         /\ SizeWindow(last).first <= SizeWindow(last).last
         /\ SizeWindow(last).last <= Coarsest
<1>1. /\ last \in (0..Coarsest) \cup {-1}
      /\ Finest \in Nat /\ Coarsest \in Nat /\ Radius \in Nat
      /\ Finest <= Coarsest /\ Finest <= Radius
  BY QuantizerAssumption DEF None
<1> QED
  BY <1>1 DEF SizeWindow, Started, None

LEMMA LevelWindowLies ==
  ASSUME NEW level \in Lasts, level <= MaxLevel
  PROVE  /\ LevelWindow(level).first \in Nat
         /\ LevelWindow(level).last \in Nat
         /\ LevelWindow(level).first <= LevelWindow(level).last
<1>1. level \in Nat \cup {-1} /\ MaxLevel \in Nat
  BY QuantizerAssumption DEF None
<1> QED
  BY <1>1 DEF LevelWindow, Started, None

-----------------------------------------------------------------------------
LEMMA BeginKeepsQuantizerInv ==
  ASSUME BeginSearch
  PROVE  QuantizerInv'
<1>1. picture' \subseteq Int
  BY QuantizerAssumption DEF BeginSearch
<1>2. ASSUME NEW last \in Lasts, search' = SizeWindow(last)
      PROVE  QuantizerInv'
  <2>1. /\ search' \in Searches
        /\ search'.goal = "size" /\ search'.best = -1
        /\ search'.low = search'.first /\ search'.high = search'.last
        /\ search'.first \in Nat /\ search'.last \in Nat
        /\ search'.first <= search'.last /\ search'.last <= Coarsest
    BY <1>2, SizeWindowLies DEF SizeWindow, Started, Searches, None
  <2> QED
    BY <1>1, <2>1 DEF QuantizerInv, SizeInv, QualityInv, LevelInv, None
<1>3. ASSUME search' = Started("quality", 0, Coarsest, None)
      PROVE  QuantizerInv'
  BY <1>1, <1>3, QuantizerAssumption
     DEF QuantizerInv, SizeInv, QualityInv, LevelInv, Started, Searches, None
<1>4. ASSUME NEW level \in Lasts, level <= MaxLevel, search' = LevelWindow(level)
      PROVE  QuantizerInv'
  <2>1. /\ search' \in Searches
        /\ search'.goal = "level" /\ search'.best = -1
        /\ search'.low = search'.first /\ search'.high = search'.last
        /\ search'.first \in Nat /\ search'.last \in Nat
        /\ search'.first <= search'.last
    BY <1>4, LevelWindowLies DEF LevelWindow, Started, Searches, None
  <2> QED
    BY <1>1, <2>1 DEF QuantizerInv, SizeInv, QualityInv, LevelInv, None
<1> QED
  BY <1>2, <1>3, <1>4 DEF BeginSearch

LEMMA SizeKeepsInv ==
  ASSUME QuantizerInv, ProbeSize
  PROVE  QuantizerInv'
<1>1. /\ search.low \in Int /\ search.high \in Int /\ search.first \in Int
      /\ search.last \in Int /\ search.best \in Int /\ search \in Searches
      /\ search.goal = "size" /\ search.low <= search.high
  BY DEF QuantizerInv, Searches, ProbeSize
<1>2. /\ Middle \in Int /\ search.low <= Middle /\ Middle <= search.high
      /\ search.low < search.high => Middle < search.high
  BY <1>1, MiddleLies DEF Middle
<1>3. SizeInv /\ picture \subseteq Int /\ picture' = picture
  BY DEF QuantizerInv, ProbeSize
<1>4. CASE Middle \in picture \/ (search.low = search.high /\ search.best = None)
  <2>1. search' = [ search EXCEPT !.best = Middle, !.high = Middle - 1 ]
    BY <1>4 DEF ProbeSize, Settle
  <2>a. search' = [ goal |-> "size", first |-> search.first, last |-> search.last,
                    low |-> search.low, high |-> Middle - 1, best |-> Middle ]
    BY <1>1, <2>1 DEF Searches
  <2>2. /\ search' \in Searches
        /\ search'.goal = "size"
        /\ search'.best = Middle /\ search'.high = Middle - 1 /\ search'.low = search.low
        /\ search'.first = search.first /\ search'.last = search.last
    BY <1>1, <1>2, <2>a DEF Searches
  <2>3. Middle \in picture \/ Middle = search.last
    BY <1>1, <1>2, <1>3, <1>4 DEF SizeInv
  <2>4. Middle # None
    BY <1>1, <1>2, <1>3 DEF SizeInv, None
  <2>5. CoarserFits' = CoarserFits
    BY <1>3 DEF CoarserFits
  <2>6. SizeInv'
    BY <1>1, <1>2, <1>3, <2>2, <2>3, <2>4, <2>5 DEF SizeInv
  <2> QED
    BY <1>3, <2>2, <2>6 DEF QuantizerInv, QualityInv, LevelInv
<1>5. CASE ~(Middle \in picture \/ (search.low = search.high /\ search.best = None))
  <2>1. search' = [ search EXCEPT !.low = Middle + 1 ]
    BY <1>5 DEF ProbeSize, Coarser
  <2>2. /\ search' \in Searches /\ search'.goal = "size"
        /\ search'.best = search.best /\ search'.high = search.high
        /\ search'.low = Middle + 1
        /\ search'.first = search.first /\ search'.last = search.last
    BY <1>1, <1>2, <2>1 DEF Searches
  <2>3. search.best = None => Middle < search.high
    BY <1>1, <1>2, <1>5
  <2>4. ASSUME CoarserFits, NEW r \in search.first..Middle
        PROVE  r \notin picture
    <3>1. Coarsest \in Nat /\ 0 <= search.first /\ search.last <= Coarsest
          /\ search.high <= search.last
      BY <1>1, <1>3, QuantizerAssumption DEF SizeInv
    <3>2. r \in 0..Coarsest /\ Middle \in 0..Coarsest
      BY <1>1, <1>2, <3>1
    <3>3. Middle \notin picture
      BY <1>5
    <3> QED
      BY <2>4, <3>2, <3>3 DEF CoarserFits
  <2>5. CoarserFits' = CoarserFits
    BY <1>3 DEF CoarserFits
  <2>6. CoarserFits' => \A r \in search'.first..(search'.low - 1) : r \notin picture'
    BY <1>2, <1>3, <2>2, <2>4, <2>5
  <2>7. /\ 0 <= search'.first /\ search'.last <= Coarsest
        /\ search'.first <= search'.low
        /\ search'.low <= search'.high + 1 /\ search'.high <= search'.last
        /\ search'.best = None => search'.high = search'.last /\ search'.low <= search'.high
        /\ search'.best # None =>
             /\ search'.high = search'.best - 1
             /\ search'.first <= search'.best
             /\ search'.best <= search'.last
             /\ search'.best \in picture' \/ search'.best = search'.last
    BY <1>1, <1>2, <1>3, <2>2, <2>3 DEF SizeInv
  <2>8. SizeInv'
    BY <2>6, <2>7 DEF SizeInv
  <2> QED
    BY <1>3, <2>2, <2>8 DEF QuantizerInv, QualityInv, LevelInv
<1> QED
  BY <1>4, <1>5

LEMMA QualityKeepsInv ==
  ASSUME QuantizerInv, ProbeQuality
  PROVE  QuantizerInv'
<1>1. /\ search \in Searches /\ search.goal = "quality"
      /\ search.low = 0 /\ search.high \in Int /\ search.low <= search.high
      /\ search.best \in {None, 0}
      /\ picture \subseteq Int /\ picture' = picture
  BY DEF QuantizerInv, QualityInv, Searches, ProbeQuality
<1>2. /\ Middle \in Int
      /\ search.low = search.high => Middle = 0
  BY <1>1, MiddleLies DEF Middle
<1>3. search' \in { [ search EXCEPT !.high = Middle - 1 ],
                    [ search EXCEPT !.best = Middle, !.high = Middle - 1 ] }
      /\ (search.low # search.high => search' = [ search EXCEPT !.high = Middle - 1 ])
  BY DEF ProbeQuality, GoodEnough, compute_ssim
<1>4. CASE search' = [ search EXCEPT !.high = Middle - 1 ]
  <2>1. /\ search' \in Searches /\ search'.goal = "quality"
        /\ search'.low = 0 /\ search'.best \in {None, 0}
    BY <1>1, <1>2, <1>4 DEF Searches
  <2> QED
    BY <1>1, <2>1 DEF QuantizerInv, SizeInv, QualityInv, LevelInv
<1>5. CASE search.low = search.high
           /\ search' = [ search EXCEPT !.best = Middle, !.high = Middle - 1 ]
  <2>a. search' = [ goal |-> "quality", first |-> search.first, last |-> search.last,
                    low |-> 0, high |-> Middle - 1, best |-> Middle ]
    BY <1>1, <1>5 DEF Searches
  <2>1. /\ search' \in Searches /\ search'.goal = "quality"
        /\ search'.low = 0 /\ search'.best = 0
    BY <1>1, <1>2, <1>5, <2>a DEF Searches
  <2> QED
    BY <1>1, <2>1 DEF QuantizerInv, SizeInv, QualityInv, LevelInv
<1> QED
  BY <1>3, <1>4, <1>5

LEMMA LevelKeepsInv ==
  ASSUME QuantizerInv, ProbeLevel
  PROVE  QuantizerInv'
<1>1. /\ search.low \in Int /\ search.high \in Int /\ search.first \in Int
      /\ search.last \in Int /\ search.best \in Int /\ search \in Searches
      /\ search.goal = "level" /\ search.low <= search.high
      /\ LevelInv /\ picture \subseteq Int /\ picture' = picture
  BY DEF QuantizerInv, Searches, ProbeLevel
<1>2. CASE search.best = None \/ search.low \in picture
  <2>1. search' = [ search EXCEPT !.best = search.low, !.low = search.low + 1 ]
    BY <1>2 DEF ProbeLevel
  <2>a. search' = [ goal |-> "level", first |-> search.first, last |-> search.last,
                    low |-> search.low + 1, high |-> search.high, best |-> search.low ]
    BY <1>1, <2>1 DEF Searches
  <2>2. /\ search' \in Searches /\ search'.goal = "level"
        /\ search'.best = search.low /\ search'.low = search.low + 1
        /\ search'.high = search.high
        /\ search'.first = search.first /\ search'.last = search.last
    BY <1>1, <2>a DEF Searches
  <2>3. search.high = search.last /\ search.low \in search.first..search.last
    BY <1>1, <1>2 DEF LevelInv, None
  <2>4. \A l \in (search.first + 1)..search.low : l \in picture
    BY <1>1, <1>2, <2>3 DEF LevelInv, None
  <2>b. search.low # None
    BY <1>1, <2>3 DEF LevelInv, None
  <2>c. \A l \in (search'.first + 1)..search'.best : l \in picture'
    BY <1>1, <2>2, <2>4
  <2>5. LevelInv'
    BY <1>1, <2>2, <2>3, <2>b, <2>c DEF LevelInv
  <2> QED
    BY <1>1, <2>2, <2>5 DEF QuantizerInv, SizeInv, QualityInv
<1>3. CASE ~(search.best = None \/ search.low \in picture)
  <2>1. search' = [ search EXCEPT !.high = search.low - 1 ]
    BY <1>3 DEF ProbeLevel
  <2>2. /\ search' \in Searches /\ search'.goal = "level"
        /\ search'.best = search.best /\ search'.low = search.low
        /\ search'.high = search.low - 1
        /\ search'.first = search.first /\ search'.last = search.last
    BY <1>1, <2>1 DEF Searches
  <2>3. LevelInv'
    BY <1>1, <1>3, <2>2 DEF LevelInv
  <2> QED
    BY <1>1, <2>2, <2>3 DEF QuantizerInv, SizeInv, QualityInv
<1> QED
  BY <1>2, <1>3

-----------------------------------------------------------------------------
LEMMA QuantizerInvHolds == SearchSpec => []QuantizerInv
<1>1. SearchInit => QuantizerInv
  BY DEF SearchInit, NoSearch, QuantizerInv, SizeInv, QualityInv, LevelInv, Searches, None
<1>2. QuantizerInv /\ [SearchNext]_search_vars => QuantizerInv'
  <2> SUFFICES ASSUME QuantizerInv, [SearchNext]_search_vars
               PROVE  QuantizerInv'
    OBVIOUS
  <2>1. CASE BeginSearch
    BY <2>1, BeginKeepsQuantizerInv
  <2>2. CASE ProbeSize
    BY <2>2, SizeKeepsInv
  <2>3. CASE ProbeQuality
    BY <2>3, QualityKeepsInv
  <2>4. CASE ProbeLevel
    BY <2>4, LevelKeepsInv
  <2>5. CASE UNCHANGED search_vars
    BY <2>5 DEF search_vars, QuantizerInv, SizeInv, QualityInv, LevelInv, Searches, CoarserFits
  <2> QED
    BY <2>1, <2>2, <2>3, <2>4, <2>5 DEF SearchNext
<1> QED
  BY <1>1, <1>2, PTL DEF SearchSpec

LEMMA QuantizerInvSuffices == QuantizerInv => SearchesEndRight
<1> SUFFICES ASSUME QuantizerInv, SearchOver
             PROVE  SearchesEndRight
  BY DEF SearchesEndRight, FinestThatFits, QualityIsMet, LevelImproves
<1>1. /\ search.low \in Int /\ search.high \in Int /\ search.first \in Int
      /\ search.last \in Int /\ search.best \in Int
      /\ search.low > search.high
  BY DEF QuantizerInv, Searches, SearchOver
<1>2. FinestThatFits
  <2> SUFFICES ASSUME search.goal = "size"
               PROVE  /\ search.best \in search.first..search.last
                      /\ search.best \in picture \/ search.best = search.last
                      /\ CoarserFits =>
                           \A q \in search.first..(search.best - 1) : q \notin picture
    BY DEF FinestThatFits
  <2>1. search.best # None /\ search.low = search.best
    BY <1>1 DEF QuantizerInv, SizeInv
  <2> QED
    BY <1>1, <2>1 DEF QuantizerInv, SizeInv
<1>3. QualityIsMet
  <2>1. Coarsest \in Nat
    BY QuantizerAssumption
  <2> QED
    BY <2>1 DEF QuantizerInv, QualityInv, QualityIsMet, best_y_ac_qi, None
<1>4. LevelImproves
  <2> SUFFICES ASSUME search.goal = "level"
               PROVE  /\ search.best \in search.first..search.last
                      /\ \A l \in (search.first + 1)..search.best : l \in picture
                      /\ search.best < search.last => search.best + 1 \notin picture
    BY DEF LevelImproves
  <2>1. search.best # None
    BY <1>1 DEF QuantizerInv, LevelInv
  <2> QED
    BY <1>1, <2>1 DEF QuantizerInv, LevelInv
<1> QED
  BY <1>2, <1>3, <1>4 DEF SearchesEndRight

(* Every search ends with a quantizer or level of its window: the finest     *)
(* quantizer that fits where coarser ones fit better, the coarsest of the    *)
(* window if none fits, and never the value the search begins with           *)
(* (encoder.cc:459-628).                                                     *)
THEOREM SearchesEndRightly == SearchSpec => []SearchesEndRight
  BY QuantizerInvHolds, QuantizerInvSuffices, PTL

(* How many quantizers or levels a search has still to choose among.         *)
Left == search.high + 1 - search.low

(* Every attempt leaves fewer candidates, so that no search codes the frame  *)
(* more often than its window is wide, and none goes on with nothing to      *)
(* choose from (encoder.cc:484-514, 529-556, 597-626).                        *)
Narrows == [][search.goal # "none" => search.low <= search.high /\ Left' < Left]_search_vars

THEOREM SearchesNarrow == SearchSpec => Narrows
<1>1. QuantizerInv /\ [SearchNext]_search_vars =>
        [search.goal # "none" => search.low <= search.high /\ Left' < Left]_search_vars
  <2> SUFFICES ASSUME QuantizerInv, SearchNext, search.goal # "none"
               PROVE  search.low <= search.high /\ Left' < Left
    OBVIOUS
  <2>1. /\ search.low \in Int /\ search.high \in Int /\ search \in Searches
    BY DEF QuantizerInv, Searches
  <2>2. search.low <= search.high
    BY DEF SearchNext, BeginSearch, NoSearch, ProbeSize, ProbeQuality, ProbeLevel
  <2>3. /\ Middle \in Int /\ search.low <= Middle /\ Middle <= search.high
    BY <2>1, <2>2, MiddleLies DEF Middle
  <2>4. CASE ProbeSize
    BY <2>1, <2>2, <2>3, <2>4 DEF ProbeSize, Settle, Coarser, Left, Searches
  <2>5. CASE ProbeQuality
    <3>1. search'.low = search.low /\ search'.high = Middle - 1
      BY <2>1, <2>5 DEF ProbeQuality, GoodEnough, compute_ssim, Searches
    <3> QED
      BY <2>1, <2>2, <2>3, <3>1 DEF Left
  <2>6. CASE ProbeLevel
    BY <2>1, <2>2, <2>6 DEF ProbeLevel, Left, Searches
  <2>7. ~BeginSearch
    BY DEF BeginSearch, NoSearch
  <2> QED
    BY <2>2, <2>4, <2>5, <2>6, <2>7 DEF SearchNext
<1> QED
  BY <1>1, QuantizerInvHolds, PTL DEF SearchSpec, Narrows

-----------------------------------------------------------------------------
(***************************************************************************)
(* Vectors.                                                                *)
(***************************************************************************)
AnyVector == [ x : Int, y : Int ]
Places == [ column : 0..(Columns - 1), row : 0..(Rows - 1) ]

(* A base points at most Overhang over the border.                           *)
BaseInRange ==
  /\ best_ref.x >= -(mb_place.column * Macroblock) - Overhang
  /\ best_ref.x <= ((Columns - 1) - mb_place.column) * Macroblock + Overhang
  /\ best_ref.y >= -(mb_place.row * Macroblock) - Overhang
  /\ best_ref.y <= ((Rows - 1) - mb_place.row) * Macroblock + Overhang

MotionTypeOK ==
  /\ stage \in { "start", "diamond", "done" }
  /\ mb_place \in Places
  /\ best_ref \in AnyVector /\ newmv \in AnyVector /\ origin \in AnyVector
  /\ step \in PowersOfTwo
  /\ step_size \in PowersOfTwo \cup {1} /\ first_step \in PowersOfTwo \cup {1}

(* Steps are even until they are 1, and then no longer taken; the next first *)
(* step is less than this search began with.                                 *)
VectorInv ==
  /\ MotionTypeOK
  /\ stage = "start" => newmv = Nowhere /\ origin = Nowhere /\ step = FirstStep
  /\ stage # "start" =>
       /\ Even(best_ref) /\ BaseInRange
       /\ first_step < step
  /\ step_size <= step
  /\ Even(origin) /\ ~out_of_bounds(origin) /\ ~out_of_bounds(newmv)

-----------------------------------------------------------------------------
LEMMA ConstantsFit ==
  /\ Columns \in Nat /\ Columns > 0 /\ Rows \in Nat /\ Rows > 0
  /\ Margin \in Nat /\ Farthest \in Nat
  /\ 8 * Margin >= 128 + Farthest + 120 + 24
BY RasterSizeAssumption, SearchAssumption DEF Overhang, Hidden

LEMMA PowersHalve ==
  ASSUME NEW n \in PowersOfTwo
  PROVE  /\ n \in Nat /\ n > 1 /\ n % 2 = 0
         /\ n \div 2 \in PowersOfTwo \cup {1} /\ n \div 2 < n
BY DEF PowersOfTwo

(* Clamping keeps a number within bounds that are in order, and even ones    *)
(* even.                                                                     *)
LEMMA BetweenLies ==
  ASSUME NEW n \in Int, NEW least \in Int, NEW most \in Int, least <= most
  PROVE  /\ Between(n, least, most) \in Int
         /\ least <= Between(n, least, most) /\ Between(n, least, most) <= most
         /\ Between(n, least, most) \in {n, least, most}
BY DEF Between

LEMMA ClampedLies ==
  ASSUME NEW v \in AnyVector, NEW mb \in Places
  PROVE  /\ Clamped(v, mb) \in AnyVector
         /\ Clamped(v, mb).x >= -(mb.column * 128) - 128
         /\ Clamped(v, mb).x <= ((Columns - 1) - mb.column) * 128 + 128
         /\ Clamped(v, mb).y >= -(mb.row * 128) - 128
         /\ Clamped(v, mb).y <= ((Rows - 1) - mb.row) * 128 + 128
         /\ Even(v) => Even(Clamped(v, mb))
<1> DEFINE least_x == -(mb.column * 128) - 128
           most_x == ((Columns - 1) - mb.column) * 128 + 128
           least_y == -(mb.row * 128) - 128
           most_y == ((Rows - 1) - mb.row) * 128 + 128
           cx == Between(v.x, least_x, most_x)
           cy == Between(v.y, least_y, most_y)
<1>1. Clamped(v, mb) = [ x |-> cx, y |-> cy ]
  BY DEF Clamped, Vector, Macroblock, Overhang
<1>2. /\ mb.column \in Int /\ mb.column <= Columns - 1 /\ mb.column >= 0
      /\ mb.row \in Int /\ mb.row <= Rows - 1 /\ mb.row >= 0
      /\ v.x \in Int /\ v.y \in Int
  BY ConstantsFit DEF Places, AnyVector
<1>3. /\ least_x \in Int /\ most_x \in Int /\ least_x <= most_x
      /\ least_x % 2 = 0 /\ most_x % 2 = 0
  BY <1>2, ConstantsFit
<1>4. /\ least_y \in Int /\ most_y \in Int /\ least_y <= most_y
      /\ least_y % 2 = 0 /\ most_y % 2 = 0
  BY <1>2, ConstantsFit
<1> HIDE DEF least_x, most_x, least_y, most_y
<1>5. /\ cx \in Int /\ least_x <= cx /\ cx <= most_x /\ cx \in {v.x, least_x, most_x}
  BY <1>2, <1>3, BetweenLies
<1>6. /\ cy \in Int /\ least_y <= cy /\ cy <= most_y /\ cy \in {v.y, least_y, most_y}
  BY <1>2, <1>4, BetweenLies
<1> HIDE DEF cx, cy
<1>7. Even(v) => cx % 2 = 0 /\ cy % 2 = 0
  BY <1>3, <1>4, <1>5, <1>6 DEF Even
<1>8. /\ Clamped(v, mb) \in AnyVector
      /\ Clamped(v, mb).x = cx /\ Clamped(v, mb).y = cy
  BY <1>1, <1>5, <1>6 DEF AnyVector
<1>9. Even(v) => Even(Clamped(v, mb))
  BY <1>7, <1>8 DEF Even
<1> QED
  BY <1>5, <1>6, <1>8, <1>9 DEF least_x, most_x, least_y, most_y

(* The places of a diamond are its middle and those a step away, in bounds.  *)
LEMMA SitesLie ==
  ASSUME NEW center \in AnyVector, NEW size \in Int, NEW v \in Sites(center, size)
  PROVE  /\ v \in AnyVector /\ ~out_of_bounds(v)
         /\ v.x \in { center.x - size, center.x, center.x + size }
         /\ v.y \in { center.y - size, center.y, center.y + size }
<1>1. ~out_of_bounds(v)
  BY DEF Sites
<1>2. PICK site \in check_sites :
        v = Vector(center.x + size * site.x, center.y + size * site.y)
  BY DEF Sites
<1>3. /\ center.x \in Int /\ center.y \in Int
  BY DEF AnyVector
<1>4. site \in AnyVector /\ site.x \in {-1, 0, 1} /\ site.y \in {-1, 0, 1}
  BY DEF check_sites, Vector, AnyVector
<1>5. /\ size * site.x \in {-size, 0, size} /\ size * site.y \in {-size, 0, size}
  BY <1>4
<1>6. /\ v.x = center.x + size * site.x /\ v.y = center.y + size * site.y
      /\ v = [ x |-> v.x, y |-> v.y ]
  BY <1>2 DEF Vector
<1> QED
  BY <1>1, <1>3, <1>5, <1>6 DEF AnyVector

-----------------------------------------------------------------------------
LEMMA InitEstablishesInv == MotionInit => VectorInv
<1> SUFFICES ASSUME MotionInit
             PROVE  VectorInv
  OBVIOUS
<1>1. MotionTypeOK
  BY ConstantsFit, SearchAssumption
     DEF MotionInit, MotionTypeOK, Places, AnyVector, Nowhere, Vector
<1>2. Even(origin) /\ ~out_of_bounds(origin) /\ ~out_of_bounds(newmv)
  BY ConstantsFit DEF MotionInit, Even, out_of_bounds, Nowhere, Vector
<1>3. step_size <= step
  BY <1>1 DEF MotionInit, MotionTypeOK, PowersOfTwo
<1> QED
  BY <1>1, <1>2, <1>3 DEF MotionInit, VectorInv

LEMMA BeginKeepsVectorInv ==
  ASSUME VectorInv, BeginNewMv
  PROVE  VectorInv'
<1>1. PICK base \in Bases, column \in 0..(Columns - 1), row \in 0..(Rows - 1) :
        /\ mb_place' = [ column |-> column, row |-> row ]
        /\ best_ref' = Clamped(base, [ column |-> column, row |-> row ])
  BY DEF BeginNewMv
<1>2. mb_place' \in Places /\ base \in AnyVector /\ Even(base)
  BY <1>1, SearchAssumption DEF Places, AnyVector, Even
<1>3. best_ref' \in AnyVector /\ Even(best_ref)' /\ BaseInRange'
  <2>1. best_ref' = Clamped(base, mb_place')
    BY <1>1
  <2> QED
    BY <1>2, <2>1, ClampedLies DEF BaseInRange, Macroblock, Overhang, Even
<1>4. /\ first_step' \in PowersOfTwo \cup {1}
      /\ first_step' < step /\ step = FirstStep
  BY SearchAssumption, PowersHalve DEF BeginNewMv, VectorInv
<1> QED
  BY <1>2, <1>3, <1>4 DEF BeginNewMv, VectorInv, MotionTypeOK, Even, out_of_bounds

LEMMA DiamondKeepsInv ==
  ASSUME VectorInv, SearchDiamond
  PROVE  VectorInv'
<1>1. step_size \in PowersOfTwo
  BY DEF VectorInv, MotionTypeOK, SearchDiamond
<1>2. /\ step_size \in Nat /\ step_size % 2 = 0
      /\ step_size \div 2 \in PowersOfTwo \cup {1} /\ step_size \div 2 < step_size
      /\ step_size \div 2 \in Nat
  BY <1>1, PowersHalve DEF PowersOfTwo
<1>3. step \in Nat /\ first_step \in Nat
  BY DEF VectorInv, MotionTypeOK, PowersOfTwo
<1>4. PICK v \in Sites(origin, step_size) :
        /\ first_step' = IF v = origin THEN step_size \div 2 ELSE first_step
        /\ origin' = v
  BY DEF SearchDiamond
<1>5. origin \in AnyVector /\ Even(origin)
  BY DEF VectorInv, MotionTypeOK
<1>6. v \in AnyVector /\ ~out_of_bounds(v) /\ Even(v)
  <2>1. /\ v \in AnyVector /\ ~out_of_bounds(v)
        /\ v.x \in { origin.x - step_size, origin.x, origin.x + step_size }
        /\ v.y \in { origin.y - step_size, origin.y, origin.y + step_size }
    BY <1>2, <1>5, SitesLie
  <2> QED
    BY <1>2, <1>5, <2>1 DEF Even, AnyVector
<1>7. /\ stage = "diamond" /\ stage' = "diamond"
      /\ step_size' = step_size \div 2
      /\ mb_place' = mb_place /\ best_ref' = best_ref /\ newmv' = newmv /\ step' = step
  BY DEF SearchDiamond
<1>8. step_size <= step /\ first_step < step
  BY <1>7 DEF VectorInv
<1>9. /\ first_step' \in PowersOfTwo \cup {1} /\ first_step' < step
  BY <1>2, <1>3, <1>4, <1>8 DEF VectorInv, MotionTypeOK
<1>10. step_size' <= step'
  BY <1>2, <1>3, <1>7, <1>8
<1>11. MotionTypeOK'
  BY <1>2, <1>4, <1>6, <1>7, <1>9 DEF VectorInv, MotionTypeOK
<1>12. Even(origin)' /\ ~out_of_bounds(origin)' /\ ~out_of_bounds(newmv)'
  BY <1>4, <1>6, <1>7 DEF VectorInv, Even, out_of_bounds
<1> QED
  BY <1>7, <1>9, <1>10, <1>11, <1>12 DEF VectorInv, BaseInRange, Even

LEMMA LeaveKeepsInv ==
  ASSUME VectorInv, LeaveLoop
  PROVE  VectorInv'
BY DEF LeaveLoop, VectorInv, MotionTypeOK, BaseInRange, Even, out_of_bounds

LEMMA AgainKeepsInv ==
  ASSUME VectorInv, SearchAgain
  PROVE  VectorInv'
<1>1. first_step \in PowersOfTwo /\ first_step \in Nat
  BY DEF VectorInv, MotionTypeOK, SearchAgain, PowersOfTwo
<1>2. first_step \div 2 \in PowersOfTwo \cup {1} /\ first_step \div 2 < first_step
  BY <1>1, PowersHalve
<1>3. MotionTypeOK'
  BY <1>1, <1>2 DEF SearchAgain, VectorInv, MotionTypeOK
<1>4. step_size' <= step' /\ first_step' < step'
  BY <1>1, <1>2 DEF SearchAgain
<1> QED
  BY <1>3, <1>4 DEF SearchAgain, VectorInv, BaseInRange, Even, out_of_bounds

LEMMA VectorInvHolds == MotionSpec => []VectorInv
<1>1. VectorInv /\ [MotionNext]_motion_vars => VectorInv'
  <2> SUFFICES ASSUME VectorInv, [MotionNext]_motion_vars
               PROVE  VectorInv'
    OBVIOUS
  <2>1. CASE BeginNewMv
    BY <2>1, BeginKeepsVectorInv
  <2>2. CASE SearchDiamond
    BY <2>2, DiamondKeepsInv
  <2>3. CASE LeaveLoop
    BY <2>3, LeaveKeepsInv
  <2>4. CASE SearchAgain
    BY <2>4, AgainKeepsInv
  <2>5. CASE UNCHANGED motion_vars
    BY <2>5 DEF motion_vars, VectorInv, MotionTypeOK, BaseInRange, Even, out_of_bounds
  <2> QED
    BY <2>1, <2>2, <2>3, <2>4, <2>5 DEF MotionNext
<1> QED
  BY <1>1, InitEstablishesInv, PTL DEF MotionSpec

-----------------------------------------------------------------------------
(* A base at most Overhang over the border, and a vector at most Farthest    *)
(* from it, stay in a margin that is as wide as both and what is hidden.     *)
LEMMA NearBaseStays ==
  ASSUME mb_place \in Places, best_ref \in AnyVector, BaseInRange,
         NEW v \in AnyVector, ~out_of_bounds(v)
  PROVE  StaysInMargin(Sum2(v, best_ref))
<1>1. /\ mb_place.column \in Int /\ mb_place.row \in Int
      /\ best_ref.x \in Int /\ best_ref.y \in Int /\ v.x \in Int /\ v.y \in Int
      /\ Columns \in Int /\ Rows \in Int /\ Margin \in Int /\ Farthest \in Int
  BY ConstantsFit DEF Places, AnyVector
<1>2. /\ v.x <= Farthest /\ v.x >= -Farthest /\ v.y <= Farthest /\ v.y >= -Farthest
  BY <1>1 DEF out_of_bounds
<1>3. /\ Sum2(v, best_ref).x = v.x + best_ref.x
      /\ Sum2(v, best_ref).y = v.y + best_ref.y
  BY DEF Sum2, Vector
<1> QED
  BY <1>1, <1>2, <1>3, ConstantsFit
     DEF StaysInMargin, BaseInRange, Macroblock, Overhang, Hidden

LEMMA ClampedStays ==
  ASSUME mb_place \in Places, NEW v \in AnyVector
  PROVE  StaysInMargin(Clamped(v, mb_place))
<1>1. /\ mb_place.column \in Int /\ mb_place.row \in Int
      /\ Columns \in Int /\ Rows \in Int /\ Margin \in Int /\ Farthest \in Int
  BY ConstantsFit DEF Places
<1>2. Clamped(v, mb_place).x \in Int /\ Clamped(v, mb_place).y \in Int
  BY ClampedLies DEF AnyVector
<1> QED
  BY <1>1, <1>2, ClampedLies, ConstantsFit DEF StaysInMargin, Macroblock, Hidden

LEMMA VectorInvSuffices == VectorInv => SearchIsSafe
<1> SUFFICES ASSUME VectorInv, stage # "start"
             PROVE  /\ Even(best_ref) /\ Even(origin)
                    /\ ~out_of_bounds(newmv) /\ ~out_of_bounds(origin)
                    /\ StaysInMargin(Sum2(origin, best_ref))
                    /\ \A v \in Sites(origin, step_size) :
                         StaysInMargin(Clamped(Sum2(v, best_ref), mb_place))
  BY DEF SearchIsSafe
<1>1. mb_place \in Places /\ best_ref \in AnyVector /\ origin \in AnyVector /\ step_size \in Int
  BY DEF VectorInv, MotionTypeOK, PowersOfTwo
<1>2. StaysInMargin(Sum2(origin, best_ref))
  BY <1>1, NearBaseStays DEF VectorInv
<1>3. ASSUME NEW v \in Sites(origin, step_size)
      PROVE  StaysInMargin(Clamped(Sum2(v, best_ref), mb_place))
  <2>1. v \in AnyVector
    BY <1>1, SitesLie
  <2>2. Sum2(v, best_ref) \in AnyVector
    BY <1>1, <2>1 DEF Sum2, Vector, AnyVector
  <2> QED
    BY <1>1, <2>2, ClampedStays
<1> QED
  BY <1>2, <1>3 DEF VectorInv

(* The search for a vector keeps to the tables of costs, the margin of the   *)
(* reference and whole units, for every picture (encode_inter.cc:172-300).   *)
THEOREM MotionSearchIsSafe == MotionSpec => []SearchIsSafe
  BY VectorInvHolds, VectorInvSuffices, PTL

(* Each search of the outer loop begins with a smaller diamond               *)
(* (encode_inter.cc:195-226, 287-298).                                       *)
THEOREM MotionSearchEnds == MotionSpec => SearchEnds
<1>1. VectorInv /\ [MotionNext]_motion_vars => [SearchShrinks]_motion_vars
  <2> SUFFICES ASSUME VectorInv, MotionNext
               PROVE  SearchShrinks
    OBVIOUS
  <2>1. CASE BeginNewMv
    BY <2>1 DEF BeginNewMv, SearchShrinks, VectorInv, MotionTypeOK, PowersOfTwo
  <2>2. CASE SearchDiamond
    <3>1. step_size \in PowersOfTwo
      BY <2>2 DEF SearchDiamond, VectorInv, MotionTypeOK
    <3>2. step_size \div 2 < step_size /\ step_size \div 2 \in Nat /\ step_size \in Nat
      BY <3>1, PowersHalve DEF PowersOfTwo
    <3> QED
      BY <2>2, <3>2 DEF SearchDiamond, SearchShrinks
  <2>3. CASE LeaveLoop
    BY <2>3 DEF LeaveLoop, SearchShrinks, VectorInv, MotionTypeOK, PowersOfTwo
  <2>4. CASE SearchAgain
    BY <2>4 DEF SearchAgain, SearchShrinks, VectorInv
  <2> QED
    BY <2>1, <2>2, <2>3, <2>4 DEF MotionNext
<1> QED
  BY <1>1, VectorInvHolds, PTL DEF MotionSpec, SearchEnds

-----------------------------------------------------------------------------
(***************************************************************************)
(* The modes of a macroblock.                                              *)
(***************************************************************************)
Outside == << "outside" >>
WholeModes == { "TM_PRED", "H_PRED", "V_PRED", "DC_PRED" }
InterModes == { InterTries[m] : m \in 1..Len(InterTries) }
Tries == WholeModes \cup InterModes \cup {"B_PRED"}

Codings ==
  [ stage : {"begin", "luma", "inter", "chroma", "reconstruct", "done"},
    inter : BOOLEAN, realtime : BOOLEAN, two_pass : BOOLEAN, pass : {1, 2},
    every : BOOLEAN, tries : Seq(Tries), subblock : 1..(LastSubblock + 1),
    nearest : Vectors, near : Vectors ]

Bests == [ mode : Tries \cup {"none"}, vector : Vectors ]

IsBuffer(b) == DOMAIN b = {"luma", "chroma"} /\ DOMAIN b.luma = Luma

IsMacroblock(mb) ==
  /\ DOMAIN mb = { "inter", "mode", "vector", "coded", "submodes", "luma",
                   "after_y2", "raw", "uv_mode", "chroma" }
  /\ DOMAIN mb.luma = Luma /\ DOMAIN mb.submodes = Luma
  /\ mb.raw \subseteq Luma /\ mb.inter \in BOOLEAN

OnlyInter(s) == \A m \in 1..Len(s) : s[m] \in InterModes
OnlyLuma(s) ==
  \A m \in 1..Len(s) : s[m] \in WholeModes \/ (m = 1 /\ s[m] = "B_PRED")

CodingTypeOK ==
  /\ coding \in Codings
  /\ best \in Bests
  /\ IsBuffer(buffer) /\ IsBuffer(temp)
  /\ IsMacroblock(frame_mb)
  /\ coding.stage = "luma" => OnlyLuma(coding.tries)
  /\ coding.stage = "inter" => OnlyInter(coding.tries)

TryingSubblocks ==
  coding.stage = "luma" /\ coding.tries # << >> /\ Head(coding.tries) = "B_PRED"

(* rec holds what a decoder restores of a macroblock of subblock modes, and  *)
(* the residues are those of the very predictions it makes on the way.       *)
Restores(mb, rec, i) ==
  /\ mb.luma[i] = Residue(Part(mb.submodes[i], rec[i - 1]))
  /\ rec[i] = Restored(Part(mb.submodes[i], rec[i - 1]), mb.luma[i])

Chained(mb) ==
  \E rec : rec[0] = Outside /\ \A i \in Luma : Restores(mb, rec, i)

(* While subblocks are tried, those before the next form such a chain in the *)
(* buffer; a first coefficient is left as it was in a second pass only.      *)
SubblocksInv ==
  TryingSubblocks =>
    /\ best.mode = "none"
    /\ \A i \in 1..(coding.subblock - 1) :
         /\ frame_mb.luma[i] = Residue(Part(frame_mb.submodes[i], Before(i)))
         /\ buffer.luma[i]
              = Restored(Part(frame_mb.submodes[i], Before(i)), frame_mb.luma[i])
         /\ i \in frame_mb.raw => coding.pass = 2

(* What is kept of the best mode so far: of subblock modes the chain in the  *)
(* macroblock, as the buffer is used for other modes since; of any other the *)
(* prediction in the buffer.                                                 *)
BestInv ==
  coding.stage \in {"luma", "inter"} =>
    /\ best.mode = "none" => coding.stage = "luma" /\ coding.tries # << >>
    /\ best.mode = "B_PRED" =>
         Chained(frame_mb) /\ (frame_mb.raw # {} => coding.pass = 2)
    /\ best.mode \in WholeModes => \A i \in Luma : buffer.luma[i] = Whole(best.mode, 0)
    /\ best.mode \in InterModes =>
         \A i \in Luma : buffer.luma[i] = Whole("inter", best.vector)

(* The residues are of the chosen mode.                                      *)
ChosenInv ==
  coding.stage \in {"chroma", "reconstruct", "done"} =>
    /\ frame_mb.coded <=> frame_mb.mode # "B_PRED"
    /\ frame_mb.raw # {} => frame_mb.mode = "B_PRED" /\ coding.pass = 2
    /\ frame_mb.inter =>
         \A i \in Luma : frame_mb.luma[i] = Residue(Whole("inter", frame_mb.vector))
    /\ ~frame_mb.inter /\ frame_mb.mode = "B_PRED" => Chained(frame_mb)
    /\ ~frame_mb.inter /\ frame_mb.mode # "B_PRED" =>
         \A i \in Luma : frame_mb.luma[i] = Residue(Whole(frame_mb.mode, 0))

ChromaInv ==
  /\ coding.stage = "chroma" /\ ~frame_mb.inter =>
       /\ best.mode = "none" => coding.tries # << >>
       /\ best.mode # "none" => buffer.chroma = Whole(best.mode, 0)
  /\ coding.stage \in {"reconstruct", "done"} =>
       frame_mb.chroma = Residue(decoded_chroma(frame_mb))

CodingInv == SubblocksInv /\ BestInv /\ ChosenInv /\ ChromaInv
-----------------------------------------------------------------------------
(* Induction: a set of naturals has a least member, so what holds of 0 and is *)
(* handed on from each number to the next holds up to any.                   *)
LEMMA NatMin ==
  ASSUME NEW T, T \subseteq Nat, T # {}
  PROVE  \E x \in T : \A y \in T : x <= y
<1>1. PICK x \in T : \A y \in T : ~(<< y, x >> \in OpToRel(<, Nat))
  BY NatLessThanWellFounded, WFMin
<1>2. \A y \in T : ~(y < x)
  BY <1>1 DEF OpToRel
<1> QED BY <1>2

LEMMA UpTo ==
  ASSUME NEW n \in Nat, NEW T, 0 \in T, \A i \in 1..n : i - 1 \in T => i \in T
  PROVE  0..n \subseteq T
<1> SUFFICES ASSUME (0..n) \ T # {} PROVE FALSE
  OBVIOUS
<1>1. PICK x \in (0..n) \ T : \A y \in (0..n) \ T : x <= y
  <2>1. (0..n) \ T \subseteq Nat
    OBVIOUS
  <2> QED BY <2>1, NatMin
<1>2. x \in 1..n
  BY <1>1
<1>3. x - 1 \in T
  BY <1>1, <1>2
<1> QED BY <1>1, <1>2, <1>3

(* What satisfies the recursion of decoded_luma is what it defines.          *)
LEMMA DecodedIs ==
  ASSUME NEW mb, NEW rec,
         rec[0] = Outside,
         \A i \in Luma : rec[i] = Restored(decoded_part(mb, i, rec[i - 1]), mb.luma[i])
  PROVE  \A i \in Luma : decoded_luma(mb)[i] = rec[i]
<1> DEFINE From(f) == [ i \in 0..LastSubblock |->
                          IF i = 0 THEN Outside
                          ELSE Restored(decoded_part(mb, i, f[i - 1]), mb.luma[i]) ]
           restored == CHOOSE f : f = From(f)
<1>1. decoded_luma(mb) = [ i \in Luma |-> restored[i] ]
  BY DEF decoded_luma, Outside
<1>2. restored = From(restored)
  <2> DEFINE f == [ i \in 0..LastSubblock |-> rec[i] ]
  <2>1. \A i \in 0..LastSubblock : f[i] = From(f)[i]
    <3>1. \A i \in 0..LastSubblock : i # 0 => i \in Luma /\ i - 1 \in 0..LastSubblock
      BY MacroblockAssumption DEF Luma
    <3> QED BY <3>1
  <2>2. f = From(f)
    BY <2>1
  <2> QED BY <2>2
<1>3. LastSubblock \in Nat
  BY MacroblockAssumption
<1> DEFINE same == { i \in 0..LastSubblock : restored[i] = rec[i] }
<1> HIDE DEF restored
<1>4. 0 \in same
  BY <1>2, <1>3
<1>5. ASSUME NEW i \in 1..LastSubblock, i - 1 \in same PROVE i \in same
  BY <1>2, <1>3, <1>5 DEF Luma
<1> HIDE DEF same
<1>6. 0..LastSubblock \subseteq same
  BY <1>3, <1>4, <1>5, UpTo
<1>7. \A i \in Luma : restored[i] = rec[i]
  BY <1>3, <1>6 DEF same, Luma
<1> QED BY <1>1, <1>7

-----------------------------------------------------------------------------
LEMMA TriesAre ==
  /\ InterModes = { "ZEROMV", "NEARESTMV", "NEARMV", "NEWMV" }
  /\ InterTries \in Seq(Tries) /\ OnlyInter(InterTries)
  /\ ChromaTries \in Seq(Tries) /\ ChromaTries # << >>
<1>1. InterModes = { "ZEROMV", "NEARESTMV", "NEARMV", "NEWMV" }
  BY DEF InterModes, InterTries
<1>2. InterTries \in Seq(Tries)
  BY <1>1 DEF InterTries, Tries
<1>3. OnlyInter(InterTries)
  BY DEF InterModes, OnlyInter
<1>4. ChromaTries \in Seq(Tries) /\ ChromaTries # << >>
  BY DEF ChromaTries, Tries, WholeModes
<1> QED BY <1>1, <1>2, <1>3, <1>4

(* B_PRED is the first of the luma modes, or is not tried.                   *)
LEMMA LumaTriesAre ==
  ASSUME NEW r \in BOOLEAN
  PROVE  LumaTries(r) \in Seq(Tries) /\ LumaTries(r) # << >> /\ OnlyLuma(LumaTries(r))
<1> DEFINE whole == << "TM_PRED", "H_PRED", "V_PRED", "DC_PRED" >>
           first == IF r THEN << >> ELSE << "B_PRED" >>
<1>1. whole \in Seq(Tries) /\ Len(whole) = 4
  BY DEF Tries, WholeModes
<1>2. \A m \in 1..4 : whole[m] \in WholeModes
  BY DEF WholeModes
<1>3. first \in Seq(Tries) /\ Len(first) \in 0..1 /\ (Len(first) = 1 => first[1] = "B_PRED")
  BY DEF Tries
<1>4. LumaTries(r) = first \o whole
  BY DEF LumaTries
<1> HIDE DEF first, whole
<1> DEFINE tries == first \o whole
<1>5. /\ tries \in Seq(Tries)
      /\ Len(tries) = Len(first) + Len(whole)
      /\ \A m \in 1..(Len(first) + Len(whole)) :
           tries[m] = IF m <= Len(first) THEN first[m] ELSE whole[m - Len(first)]
  <2> HIDE DEF tries
  <2>1. tries = first \o whole
    BY DEF tries
  <2> QED BY ONLY <1>1, <1>3, <2>1, ConcatProperties
<1> HIDE DEF tries
<1>6. OnlyLuma(tries)
  <2>1. ASSUME NEW m \in 1..Len(tries), m <= Len(first) PROVE m = 1 /\ tries[m] = "B_PRED"
    <3>1. m = 1 /\ Len(first) = 1 /\ tries[m] = first[m]
      BY <1>1, <1>3, <1>5, <2>1
    <3> QED BY <1>3, <3>1
  <2>2. ASSUME NEW m \in 1..Len(tries), ~(m <= Len(first)) PROVE tries[m] \in WholeModes
    <3>1. m - Len(first) \in 1..4 /\ tries[m] = whole[m - Len(first)]
      BY <1>1, <1>3, <1>5, <2>2
    <3> QED BY <1>2, <3>1
  <2> QED BY <2>1, <2>2 DEF OnlyLuma
<1>7. tries # << >>
  BY <1>1, <1>3, <1>5
<1> QED BY <1>4, <1>5, <1>6, <1>7 DEF tries

LEMMA TailIs ==
  ASSUME NEW T, NEW s \in Seq(T), s # << >>
  PROVE  /\ Tail(s) \in Seq(T) /\ Head(s) = s[1] /\ Head(s) \in T
         /\ 1 \in 1..Len(s)
         /\ OnlyLuma(s) => /\ \A m \in 1..Len(Tail(s)) : Tail(s)[m] \in WholeModes
                           /\ Head(s) \in WholeModes \cup {"B_PRED"}
                           /\ OnlyLuma(Tail(s))
         /\ OnlyInter(s) => OnlyInter(Tail(s)) /\ Head(s) \in InterModes
<1>1. /\ Tail(s) \in Seq(T) /\ Head(s) = s[1] /\ Head(s) \in T
      /\ 1 \in 1..Len(s)
      /\ \A m \in 1..Len(Tail(s)) : m + 1 \in 1..Len(s) /\ m + 1 # 1 /\ Tail(s)[m] = s[m + 1]
  OBVIOUS
<1> QED BY <1>1 DEF OnlyLuma, OnlyInter

LEMMA TriedIs ==
  ASSUME coding \in Codings, coding.tries # << >>
  PROVE  /\ Tried \in Codings /\ Head(coding.tries) \in Tries
         /\ Tried.stage = coding.stage /\ Tried.pass = coding.pass
         /\ Tried.tries = Tail(coding.tries) /\ Tried.subblock = 1
         /\ OnlyLuma(coding.tries) => OnlyLuma(Tried.tries)
         /\ OnlyInter(coding.tries) => OnlyInter(Tried.tries)
<1>1. Tail(coding.tries) \in Seq(Tries) /\ Head(coding.tries) \in Tries
  <2>1. coding.tries \in Seq(Tries)
    BY DEF Codings
  <2> QED BY <2>1, TailIs
<1>2. 1 \in 1..(LastSubblock + 1)
  BY MacroblockAssumption
<1>3. /\ Tried \in Codings
      /\ Tried.stage = coding.stage /\ Tried.pass = coding.pass
      /\ Tried.tries = Tail(coding.tries) /\ Tried.subblock = 1
  BY <1>1, <1>2 DEF Tried, Codings
<1> QED BY <1>1, <1>3, TailIs DEF Codings

(* The stages, the modes left to try in each, and the shape of the buffers.   *)
LEMMA CodingTyped == MacroblockSpec => []CodingTypeOK
<1> USE MacroblockAssumption
<1>1. MacroblockInit => CodingTypeOK
  BY DEF MacroblockInit, CodingTypeOK, Luma, WholeModes, Tries, Codings, Bests, IsBuffer,
         IsMacroblock
<1>2. ASSUME CodingTypeOK, [MacroblockNext]_macroblock_vars PROVE CodingTypeOK'
  <2> USE <1>2 DEF CodingTypeOK
  <2>2. ASSUME NEW kind \in Codings, BeginAs(kind)
        PROVE CodingTypeOK'
    <3>1. coding' \in Codings /\ OnlyLuma(coding.tries)' /\ coding'.stage = "luma"
      <4> DEFINE tries == LumaTries(kind.inter /\ kind.realtime)
                 pass == IF kind.two_pass /\ kind.pass = 1 THEN 2 ELSE 1
      <4>1. tries \in Seq(Tries) /\ OnlyLuma(tries)
        BY LumaTriesAre DEF Codings
      <4>2. coding' = [ kind EXCEPT !.stage = "luma", !.subblock = 1,
                             !.pass = pass,
                             !.tries = tries ]
        BY <2>2 DEF BeginAs
      <4>3. pass \in {1, 2}
        OBVIOUS
      <4> HIDE DEF tries, pass
      <4>4. coding' \in Codings
        <5>1. 1 \in 1..(LastSubblock + 1)
          OBVIOUS
        <5>2. kind \in Codings
          BY <2>2
        <5> QED BY <4>1, <4>2, <4>3, <5>1, <5>2 DEF Codings
      <4>5. coding'.tries = tries /\ coding'.stage = "luma"
        BY <4>2 DEF Codings
      <4> QED BY <4>1, <4>4, <4>5
    <3>2. best' \in Bests
      BY <2>2 DEF BeginAs, Bests
    <3> QED BY <2>2, <3>1, <3>2 DEF BeginAs
  <2>3. CASE FirstFrame
    <3>1. ASSUME NEW inter \in BOOLEAN, NEW realtime \in BOOLEAN,
                 NEW two_pass \in BOOLEAN, NEW every \in BOOLEAN
          PROVE [ coding EXCEPT !.inter = inter, !.realtime = realtime,
                                  !.two_pass = two_pass, !.every = every ] \in Codings
       BY DEF Codings
    <3> QED BY <2>2, <2>3, <3>1 DEF FirstFrame
  <2>4. CASE BeginMacroblock
    <3>1. ASSUME NEW every \in BOOLEAN
          PROVE [ coding EXCEPT !.every = every ] \in Codings
       BY DEF Codings
    <3> QED BY <2>2, <2>4, <3>1 DEF BeginMacroblock
  <2>5. CASE TrySubblock
    <3>1. coding' \in Codings
      BY <2>5, SMTT(30) DEF TrySubblock, Codings
    <3>2. IsBuffer(buffer') /\ IsBuffer(temp')
      BY <2>5 DEF TrySubblock, IsBuffer
    <3>3. IsMacroblock(frame_mb')
      BY <2>5 DEF TrySubblock, IsMacroblock, Codings, Luma
    <3> QED BY <2>5, <3>1, <3>2, <3>3 DEF TrySubblock
  <2>6. CASE TrySubblocks
    <3>1. best' \in Bests /\ IsBuffer(buffer')
      BY <2>6 DEF TrySubblocks, KeepIfCheaper, IsBuffer, Tries, Bests
    <3> QED BY <2>6, <3>1, TriedIs DEF TrySubblocks
  <2>7. CASE TryWhole
    <3>1. best' \in Bests /\ IsBuffer(buffer') /\ IsBuffer(temp')
      BY <2>7, TriedIs DEF TryWhole, KeepIfCheaper, IsBuffer, Bests
    <3> QED BY <2>7, <3>1, TriedIs DEF TryWhole
  <2>8. CASE BeginInter
    <3>2. coding' \in Codings /\ OnlyInter(coding'.tries) /\ coding'.stage = "inter"
      BY <2>8, TriesAre DEF BeginInter, Codings
    <3>3. IsMacroblock(frame_mb')
      BY <2>8 DEF BeginInter, IsMacroblock
    <3> QED BY <2>8, <3>2, <3>3 DEF BeginInter
  <2>9. CASE TryInter
    <3>0. Head(coding.tries) \in InterModes
      BY <2>9, TailIs DEF TryInter, Codings
    <3>1. VectorsOf(Head(coding.tries)) \subseteq Vectors
      BY <3>0, TriesAre DEF VectorsOf, Codings
    <3>2. best' \in Bests /\ IsBuffer(buffer') /\ IsBuffer(temp')
      BY <2>9, <3>1, TriedIs DEF TryInter, KeepIfCheaper, IsBuffer, Bests
    <3> QED BY <2>9, <3>2, TriedIs DEF TryInter
  <2>10. CASE SkipInter
    <3>1. IsBuffer(temp')
      BY <2>10 DEF SkipInter, IsBuffer
    <3> QED BY <2>10, <3>1, TriedIs DEF SkipInter
  <2>11. CASE ApplyLuma
    <3>2. coding' \in Codings
      BY <2>11, TriesAre DEF ApplyLuma, Codings
    <3>3. IsMacroblock(frame_mb')
      BY <2>11 DEF ApplyLuma, IsMacroblock
    <3>4. best' \in Bests
      BY <2>11 DEF ApplyLuma, Bests
    <3> QED BY <2>11, <3>2, <3>3, <3>4 DEF ApplyLuma
  <2>12. CASE TryChroma
    <3>1. best' \in Bests /\ IsBuffer(buffer') /\ IsBuffer(temp')
      BY <2>12, TriedIs DEF TryChroma, IsBuffer, Bests
    <3> QED BY <2>12, <3>1, TriedIs DEF TryChroma
  <2>13. CASE ApplyChroma
    <3>1. coding' \in Codings
      <4>1. << >> \in Seq(Tries)
        OBVIOUS
      <4> QED BY <2>13, <4>1 DEF ApplyChroma, Codings
    <3>2. IsMacroblock(frame_mb')
      BY <2>13 DEF ApplyChroma, IsMacroblock
    <3>3. IsBuffer(buffer')
      BY <2>13 DEF ApplyChroma, IsBuffer
    <3> QED BY <2>13, <3>1, <3>2, <3>3 DEF ApplyChroma
  <2>14. CASE Reconstruct
    <3>1. coding' \in Codings
      BY <2>14 DEF Reconstruct, Codings
    <3>2. IsBuffer(buffer')
      BY <2>14 DEF Reconstruct, IsBuffer, decoded_luma
    <3> QED BY <2>14, <3>1, <3>2 DEF Reconstruct
  <2>15. CASE UNCHANGED macroblock_vars
    BY <2>15 DEF macroblock_vars
  <2> QED BY <1>2, <2>3, <2>4, <2>5, <2>6, <2>7, <2>8, <2>9, <2>10, <2>11, <2>12, <2>13,
             <2>14, <2>15 DEF MacroblockNext
<1> QED BY <1>1, <1>2, PTL DEF MacroblockSpec

LEMMA ModesDiffer ==
  /\ InterModes = { "ZEROMV", "NEARESTMV", "NEARMV", "NEWMV" }
  /\ "B_PRED" \notin WholeModes /\ "none" \notin WholeModes
  /\ "B_PRED" \notin InterModes /\ "none" \notin InterModes
  /\ WholeModes \cap InterModes = {}
BY TriesAre DEF WholeModes

(* One more subblock is predicted from the one restored before it.           *)
LEMMA StepKeepsSubblocks ==
  ASSUME CodingTypeOK, SubblocksInv, TrySubblock
  PROVE  SubblocksInv'
<1> DEFINE i == coding.subblock
<1>1. /\ i \in Luma /\ i \in Nat /\ LastSubblock \in Nat
      /\ coding'.subblock = i + 1 /\ coding'.pass = coding.pass
      /\ coding' = [ coding EXCEPT !.subblock = @ + 1 ]
  BY MacroblockAssumption DEF CodingTypeOK, Codings, Luma, TrySubblock
<1>2. best' = best /\ TryingSubblocks
  BY DEF TrySubblock, TryingSubblocks
<1>3. PICK m \in 1..Len(SubblockTries), raw \in BOOLEAN :
        LET prediction == Part(SubblockTries[m], Before(i))
        IN /\ raw => SkipsFirst(i)
           /\ frame_mb' = [ frame_mb EXCEPT !.submodes[i] = SubblockTries[m],
                                            !.luma[i] = Residue(prediction),
                                            !.after_y2 = @ \ {i},
                                            !.raw = IF raw THEN @ \cup {i} ELSE @ \ {i} ]
           /\ buffer' = [ buffer EXCEPT !.luma[i] = Restored(prediction, Residue(prediction)) ]
  BY DEF TrySubblock
<1> DEFINE prediction == Part(SubblockTries[m], Before(i))
<1>4. /\ frame_mb'.submodes[i] = SubblockTries[m]
      /\ frame_mb'.luma[i] = Residue(prediction)
      /\ buffer'.luma[i] = Restored(prediction, Residue(prediction))
      /\ i \in frame_mb'.raw => coding.pass = 2
  BY <1>1, <1>3 DEF CodingTypeOK, IsBuffer, IsMacroblock, SkipsFirst
<1>5. ASSUME NEW j \in Luma, j # i
      PROVE  /\ frame_mb'.submodes[j] = frame_mb.submodes[j]
             /\ frame_mb'.luma[j] = frame_mb.luma[j]
             /\ buffer'.luma[j] = buffer.luma[j]
             /\ j \in frame_mb'.raw <=> j \in frame_mb.raw
  BY <1>1, <1>3, <1>5 DEF CodingTypeOK, IsBuffer, IsMacroblock
<1> HIDE DEF i
<1>6. \A j \in 1..i : Before(j)' = Before(j)
  <2>1. ASSUME NEW j \in 1..i, j # 1 PROVE Before(j)' = Before(j)
    <3>1. j - 1 \in Luma /\ j - 1 # i
      BY <1>1, <2>1 DEF Luma
    <3> QED BY <1>5, <2>1, <3>1 DEF Before
  <2>2. Before(1)' = Before(1)
    BY DEF Before
  <2> QED BY <2>1, <2>2
<1>7. ASSUME NEW j \in 1..i
      PROVE  /\ frame_mb'.luma[j] = Residue(Part(frame_mb'.submodes[j], Before(j)'))
             /\ buffer'.luma[j]
                  = Restored(Part(frame_mb'.submodes[j], Before(j)'), frame_mb'.luma[j])
             /\ j \in frame_mb'.raw => coding'.pass = 2
  <2>1. CASE j = i
    BY <1>1, <1>4, <1>6, <2>1
  <2>2. CASE j # i
    <3>1. j \in Luma /\ j \in 1..(i - 1)
      BY <1>1, <2>2 DEF Luma
    <3>2. /\ frame_mb.luma[j] = Residue(Part(frame_mb.submodes[j], Before(j)))
          /\ buffer.luma[j]
              = Restored(Part(frame_mb.submodes[j], Before(j)), frame_mb.luma[j])
          /\ j \in frame_mb.raw => coding.pass = 2
      BY <1>2, <3>1 DEF SubblocksInv, i
    <3> QED BY <1>1, <1>5, <1>6, <2>2, <3>1, <3>2
  <2> QED BY <2>1, <2>2
<1>8. 1..(coding'.subblock - 1) = 1..i
  BY <1>1
<1>9. best.mode = "none"
  BY <1>2 DEF SubblocksInv
<1> QED BY <1>2, <1>7, <1>8, <1>9 DEF SubblocksInv

(* After the last subblock the buffer held what a decoder restores.          *)
LEMMA TriedSubblocksChain ==
  ASSUME CodingTypeOK, SubblocksInv, TryingSubblocks, coding.subblock > LastSubblock
  PROVE  Chained(frame_mb) /\ (frame_mb.raw # {} => coding.pass = 2)
<1>1. coding.subblock - 1 = LastSubblock /\ LastSubblock \in Nat
  BY MacroblockAssumption DEF CodingTypeOK, Codings
<1>2. \A i \in Luma :
        /\ frame_mb.luma[i] = Residue(Part(frame_mb.submodes[i], Before(i)))
        /\ buffer.luma[i]
             = Restored(Part(frame_mb.submodes[i], Before(i)), frame_mb.luma[i])
        /\ i \in frame_mb.raw => coding.pass = 2
  BY <1>1 DEF SubblocksInv, Luma
<1> DEFINE rec == [ i \in 0..LastSubblock |-> IF i = 0 THEN Outside ELSE buffer.luma[i] ]
<1>3. \A i \in Luma : rec[i] = buffer.luma[i] /\ rec[i - 1] = Before(i)
  BY <1>1 DEF Luma, Before, Outside
<1>4. rec[0] = Outside
  BY <1>1
<1> HIDE DEF rec
<1>5. \A i \in Luma : Restores(frame_mb, rec, i)
  BY <1>2, <1>3 DEF Restores
<1>6. frame_mb.raw # {} => coding.pass = 2
  BY <1>2 DEF CodingTypeOK, IsMacroblock
<1> QED BY <1>4, <1>5, <1>6 DEF Chained

(* A decoder's chain is the only one there is.                               *)
LEMMA ChainIsDecoded ==
  ASSUME NEW mb, ~mb.inter, mb.mode = "B_PRED",
         NEW rec, rec[0] = Outside, \A i \in Luma : Restores(mb, rec, i)
  PROVE  \A i \in Luma : decoded_luma(mb)[i] = rec[i]
<1>1. \A i \in Luma : rec[i] = Restored(decoded_part(mb, i, rec[i - 1]), mb.luma[i])
  BY DEF Restores, decoded_part
<1> QED BY <1>1, DecodedIs

LEMMA CodingInvSuffices ==
  ASSUME CodingTypeOK, CodingInv
  PROVE  ResidueIsOfThePrediction
<1> SUFFICES ASSUME coding.stage = "done" PROVE ResidueIsOfThePrediction
  BY DEF ResidueIsOfThePrediction
<1> DEFINE before(i) == IF i = 1 THEN Outside ELSE decoded_luma(frame_mb)[i - 1]
<1>1. /\ frame_mb.coded <=> frame_mb.mode # "B_PRED"
      /\ frame_mb.raw # {} => frame_mb.mode = "B_PRED" /\ coding.pass = 2
      /\ frame_mb.inter =>
           \A i \in Luma : frame_mb.luma[i] = Residue(Whole("inter", frame_mb.vector))
      /\ ~frame_mb.inter /\ frame_mb.mode = "B_PRED" => Chained(frame_mb)
      /\ ~frame_mb.inter /\ frame_mb.mode # "B_PRED" =>
           \A i \in Luma : frame_mb.luma[i] = Residue(Whole(frame_mb.mode, 0))
  BY DEF CodingInv, ChosenInv
<1>2. frame_mb.chroma = Residue(decoded_chroma(frame_mb))
  BY DEF CodingInv, ChromaInv
<1>3. ASSUME NEW i \in Luma
      PROVE  frame_mb.luma[i] = Residue(decoded_part(frame_mb, i, before(i)))
  <2>1. CASE frame_mb.inter
    BY <1>1, <2>1 DEF decoded_part
  <2>2. CASE ~frame_mb.inter /\ frame_mb.mode # "B_PRED"
    BY <1>1, <2>2 DEF decoded_part
  <2>3. CASE ~frame_mb.inter /\ frame_mb.mode = "B_PRED"
    <3>1. PICK rec : rec[0] = Outside /\ \A j \in Luma : Restores(frame_mb, rec, j)
      BY <1>1, <2>3 DEF Chained
    <3>2. \A j \in Luma : decoded_luma(frame_mb)[j] = rec[j]
      BY <2>3, <3>1, ChainIsDecoded
    <3>3. before(i) = rec[i - 1]
      <4>1. CASE i = 1
        BY <3>1, <4>1
      <4>2. CASE i # 1
        <5>1. i - 1 \in Luma
          BY <4>2, MacroblockAssumption DEF Luma
        <5> QED BY <3>2, <4>2, <5>1
      <4> QED BY <4>1, <4>2
    <3>4. frame_mb.luma[i] = Residue(Part(frame_mb.submodes[i], rec[i - 1]))
      BY <3>1 DEF Restores
    <3> QED BY <2>3, <3>3, <3>4 DEF decoded_part
  <2> QED BY <2>1, <2>2, <2>3
<1>4. \A i \in Luma :
        LET b == IF i = 1 THEN << "outside" >> ELSE decoded_luma(frame_mb)[i - 1]
        IN frame_mb.luma[i] = Residue(decoded_part(frame_mb, i, b))
  BY <1>3 DEF Outside
<1> QED BY <1>1, <1>2, <1>4 DEF ResidueIsOfThePrediction

(* B_PRED comes first, or not at all.                                        *)
LEMMA TriedIsNoSubblocks ==
  ASSUME CodingTypeOK, coding.stage = "luma", coding.tries # << >>,
         Tail(coding.tries) # << >>
  PROVE  Head(Tail(coding.tries)) # "B_PRED"
<1>1. coding.tries \in Seq(Tries) /\ OnlyLuma(coding.tries)
  BY DEF CodingTypeOK, Codings
<1>2. /\ Tail(coding.tries) \in Seq(Tries)
      /\ \A m \in 1..Len(Tail(coding.tries)) : Tail(coding.tries)[m] \in WholeModes
  BY <1>1, TailIs
<1>3. Head(Tail(coding.tries)) \in WholeModes
  BY <1>2, TailIs
<1> QED BY <1>3, ModesDiffer

LEMMA CodingKeepsInv ==
  ASSUME CodingTypeOK, CodingTypeOK', CodingInv, [MacroblockNext]_macroblock_vars
  PROVE  CodingInv'
<1> USE DEF CodingInv
<1>1. ASSUME NEW kind \in Codings, BeginAs(kind) PROVE CodingInv'
  <2>1. /\ coding'.stage = "luma" /\ coding'.subblock = 1 /\ coding'.tries # << >>
        /\ best'.mode = "none"
    <3> DEFINE tries == LumaTries(kind.inter /\ kind.realtime)
               pass == IF kind.two_pass /\ kind.pass = 1 THEN 2 ELSE 1
    <3>1. tries # << >>
      BY LumaTriesAre DEF Codings
    <3>2. coding' = [ kind EXCEPT !.stage = "luma", !.subblock = 1, !.pass = pass,
                                  !.tries = tries ]
      BY <1>1 DEF BeginAs
    <3> HIDE DEF tries, pass
    <3>3. coding'.stage = "luma" /\ coding'.subblock = 1 /\ coding'.tries = tries
      BY <3>2 DEF Codings
    <3> QED BY <1>1, <3>1, <3>3 DEF BeginAs
  <2>2. 1..(coding'.subblock - 1) = {}
    BY <2>1
  <2>3. BestInv'
    BY <2>1, ModesDiffer DEF BestInv
  <2> QED BY <2>1, <2>2, <2>3 DEF SubblocksInv, ChosenInv, ChromaInv
<1>2. CASE FirstFrame
  <2>1. \A inter, realtime, two_pass, every \in BOOLEAN :
          [ coding EXCEPT !.inter = inter, !.realtime = realtime,
                          !.two_pass = two_pass, !.every = every ] \in Codings
    BY DEF CodingTypeOK, Codings
  <2> QED BY <1>1, <1>2, <2>1 DEF FirstFrame
<1>3. CASE BeginMacroblock
  <2>1. \A every \in BOOLEAN : [ coding EXCEPT !.every = every ] \in Codings
    BY DEF CodingTypeOK, Codings
  <2> QED BY <1>1, <1>3, <2>1 DEF BeginMacroblock
<1>4. CASE TrySubblock
  <2>1. coding'.stage = "luma" /\ coding'.tries = coding.tries /\ best' = best
    BY <1>4 DEF TrySubblock, CodingTypeOK, Codings
  <2>2. best.mode = "none" /\ coding.tries # << >>
    BY <1>4 DEF TrySubblock, SubblocksInv, TryingSubblocks
  <2>3. BestInv'
    BY <2>1, <2>2, ModesDiffer DEF BestInv
  <2> QED BY <1>4, <2>1, <2>3, StepKeepsSubblocks DEF ChosenInv, ChromaInv
<1>5. CASE TrySubblocks
  <2>1. /\ TryingSubblocks /\ coding.subblock > LastSubblock
        /\ coding'.stage = "luma" /\ coding'.pass = coding.pass
        /\ coding'.tries = Tail(coding.tries) /\ frame_mb' = frame_mb
    BY <1>5, TriedIs DEF TrySubblocks, TryingSubblocks, CodingTypeOK
  <2>2. best'.mode = "B_PRED"
    BY <1>5, <2>1 DEF TrySubblocks, KeepIfCheaper, SubblocksInv
  <2>3. Chained(frame_mb) /\ (frame_mb.raw # {} => coding.pass = 2)
    BY <2>1, TriedSubblocksChain
  <2>4. BestInv'
    BY <2>1, <2>2, <2>3, ModesDiffer DEF BestInv
  <2>5. ~TryingSubblocks'
    BY <2>1, TriedIsNoSubblocks DEF TryingSubblocks
  <2> QED BY <2>1, <2>4, <2>5 DEF SubblocksInv, ChosenInv, ChromaInv
<1>6. CASE TryWhole
  <2> DEFINE mode == Head(coding.tries)
             prediction == [ i \in Luma |-> Whole(mode, 0) ]
  <2>1. /\ mode \in WholeModes
        /\ coding.stage = "luma" /\ coding'.stage = "luma" /\ coding'.pass = coding.pass
        /\ coding'.tries = Tail(coding.tries) /\ frame_mb' = frame_mb
    <3>1. coding.tries \in Seq(Tries) /\ OnlyLuma(coding.tries)
      BY <1>6 DEF TryWhole, CodingTypeOK, Codings
    <3>2. mode \in WholeModes
      BY <1>6, <3>1, TailIs DEF TryWhole
    <3> QED BY <1>6, <3>2, TriedIs DEF TryWhole, CodingTypeOK
  <2>2. ~TryingSubblocks'
    BY <1>6, <2>1, TriedIsNoSubblocks DEF TryWhole, TryingSubblocks
  <2>3. CASE buffer' = [ buffer EXCEPT !.luma = prediction ]
             /\ best' = [ mode |-> mode, vector |-> 0 ]
    <3>1. best'.mode = mode /\ \A i \in Luma : buffer'.luma[i] = Whole(mode, 0)
      BY <2>3 DEF CodingTypeOK, IsBuffer
    <3>2. mode \notin InterModes /\ mode # "none" /\ mode # "B_PRED"
      BY <2>1, ModesDiffer
    <3>3. BestInv'
      BY <2>1, <3>1, <3>2 DEF BestInv
    <3> QED BY <2>1, <2>2, <3>3 DEF SubblocksInv, ChosenInv, ChromaInv
  <2>4. CASE best.mode # "none" /\ best' = best /\ buffer' = buffer
    <3>1. BestInv'
      BY <2>1, <2>4 DEF BestInv
    <3> QED BY <2>1, <2>2, <3>1 DEF SubblocksInv, ChosenInv, ChromaInv
  <2> QED BY <1>6, <2>3, <2>4 DEF TryWhole, KeepIfCheaper
<1>7. CASE BeginInter
  <2>1. /\ coding.stage = "luma" /\ coding.tries = << >> /\ coding'.stage = "inter"
        /\ coding'.pass = coding.pass /\ best' = best /\ buffer' = buffer
    BY <1>7 DEF BeginInter, CodingTypeOK, Codings
  <2>2. /\ frame_mb'.luma = frame_mb.luma /\ frame_mb'.submodes = frame_mb.submodes
        /\ frame_mb'.raw = frame_mb.raw
    BY <1>7 DEF BeginInter, CodingTypeOK, IsMacroblock
  <2>3. Chained(frame_mb) => Chained(frame_mb')
    BY <2>2 DEF Chained, Restores
  <2>4. BestInv'
    BY <2>1, <2>2, <2>3 DEF BestInv
  <2> QED BY <2>1, <2>4 DEF SubblocksInv, TryingSubblocks, ChosenInv, ChromaInv
<1>8. CASE TryInter
  <2> DEFINE mode == Head(coding.tries)
  <2>1. /\ mode \in InterModes
        /\ coding.stage = "inter" /\ coding'.stage = "inter" /\ coding'.pass = coding.pass
        /\ frame_mb' = frame_mb
    <3>1. coding.tries \in Seq(Tries) /\ OnlyInter(coding.tries)
      BY <1>8 DEF TryInter, CodingTypeOK, Codings
    <3>2. mode \in InterModes
      BY <1>8, <3>1, TailIs DEF TryInter
    <3> QED BY <1>8, <3>2, TriedIs DEF TryInter, CodingTypeOK
  <2>2. PICK vector \in VectorsOf(mode) :
          KeepIfCheaper(mode, vector, [ i \in Luma |-> Whole("inter", vector) ])
    BY <1>8 DEF TryInter
  <2>3. CASE buffer' = [ buffer EXCEPT !.luma = [ i \in Luma |-> Whole("inter", vector) ] ]
             /\ best' = [ mode |-> mode, vector |-> vector ]
    <3>1. /\ best'.mode = mode /\ best'.vector = vector
          /\ \A i \in Luma : buffer'.luma[i] = Whole("inter", vector)
      BY <2>3 DEF CodingTypeOK, IsBuffer
    <3>2. mode \notin WholeModes /\ mode # "none" /\ mode # "B_PRED"
      BY <2>1, ModesDiffer
    <3>3. BestInv'
      BY <2>1, <3>1, <3>2 DEF BestInv
    <3> QED BY <2>1, <3>3 DEF SubblocksInv, TryingSubblocks, ChosenInv, ChromaInv
  <2>4. CASE best.mode # "none" /\ best' = best /\ buffer' = buffer
    <3>1. BestInv'
      BY <2>1, <2>4 DEF BestInv
    <3> QED BY <2>1, <3>1 DEF SubblocksInv, TryingSubblocks, ChosenInv, ChromaInv
  <2> QED BY <2>2, <2>3, <2>4 DEF KeepIfCheaper
<1>9. CASE SkipInter
  <2>1. /\ coding.stage = "inter" /\ coding'.stage = "inter" /\ coding'.pass = coding.pass
        /\ frame_mb' = frame_mb /\ best' = best /\ buffer' = buffer
    BY <1>9, TriedIs DEF SkipInter, CodingTypeOK
  <2> QED BY <2>1 DEF SubblocksInv, TryingSubblocks, BestInv, ChosenInv, ChromaInv
<1>10. CASE ApplyLuma
  <2>1. /\ coding.stage \in {"luma", "inter"} /\ coding.tries = << >>
        /\ coding'.stage = "chroma" /\ coding'.pass = coding.pass
        /\ coding'.tries # << >> /\ best'.mode = "none" /\ buffer' = buffer
    BY <1>10, TriesAre DEF ApplyLuma, CodingTypeOK, Codings
  <2>2. best.mode # "none"
    BY <2>1 DEF BestInv
  <2> DEFINE residue == [ i \in Luma |-> Residue(buffer.luma[i]) ]
  <2>3. CASE best.mode = "B_PRED"
    <3>1. frame_mb' = [ frame_mb EXCEPT !.mode = "B_PRED", !.inter = FALSE, !.coded = FALSE ]
      BY <1>10, <2>3 DEF ApplyLuma
    <3>2. /\ frame_mb'.mode = "B_PRED" /\ ~frame_mb'.inter /\ ~frame_mb'.coded
          /\ frame_mb'.raw = frame_mb.raw /\ frame_mb'.luma = frame_mb.luma
          /\ frame_mb'.submodes = frame_mb.submodes
      BY <3>1 DEF CodingTypeOK, IsMacroblock
    <3>3. Chained(frame_mb') /\ (frame_mb.raw # {} => coding.pass = 2)
      BY <2>1, <2>3, <3>2 DEF BestInv, Chained, Restores
    <3>4. ChosenInv'
      BY <2>1, <3>2, <3>3 DEF ChosenInv
    <3> QED BY <2>1, <3>4 DEF SubblocksInv, TryingSubblocks, BestInv, ChromaInv
  <2>4. CASE best.mode \in InterModes
    <3>1. frame_mb' = [ frame_mb EXCEPT !.mode = best.mode, !.inter = TRUE, !.coded = TRUE,
                                        !.luma = residue, !.after_y2 = Luma, !.raw = {},
                                        !.vector = best.vector ]
      BY <1>10, <2>4, ModesDiffer DEF ApplyLuma, InterModes, IsMacroblock, CodingTypeOK
    <3>2. /\ frame_mb'.mode = best.mode /\ frame_mb'.inter /\ frame_mb'.coded
          /\ frame_mb'.raw = {} /\ frame_mb'.luma = residue
          /\ frame_mb'.vector = best.vector
      BY <3>1 DEF CodingTypeOK, IsMacroblock
    <3>3. \A i \in Luma : residue[i] = Residue(Whole("inter", best.vector))
      BY <2>1, <2>4 DEF BestInv
    <3>4. ChosenInv'
      BY <2>1, <2>4, <3>2, <3>3, ModesDiffer DEF ChosenInv
    <3> QED BY <2>1, <3>4 DEF SubblocksInv, TryingSubblocks, BestInv, ChromaInv
  <2>5. CASE best.mode \in WholeModes
    <3>1. frame_mb' = [ frame_mb EXCEPT !.mode = best.mode, !.inter = FALSE, !.coded = TRUE,
                                        !.luma = residue, !.after_y2 = Luma, !.raw = {},
                                        !.submodes = [ i \in Luma |-> "implied" ] ]
      BY <1>10, <2>5, ModesDiffer DEF ApplyLuma, InterModes, IsMacroblock, CodingTypeOK
    <3>2. /\ frame_mb'.mode = best.mode /\ ~frame_mb'.inter /\ frame_mb'.coded
          /\ frame_mb'.raw = {} /\ frame_mb'.luma = residue
      BY <3>1 DEF CodingTypeOK, IsMacroblock
    <3>3. \A i \in Luma : residue[i] = Residue(Whole(best.mode, 0))
      BY <2>1, <2>5 DEF BestInv
    <3>4. ChosenInv'
      BY <2>1, <2>5, <3>2, <3>3, ModesDiffer DEF ChosenInv
    <3> QED BY <2>1, <3>4 DEF SubblocksInv, TryingSubblocks, BestInv, ChromaInv
  <2> QED BY <2>2, <2>3, <2>4, <2>5 DEF CodingTypeOK, Bests, Tries
<1>11. CASE TryChroma
  <2>1. /\ coding.stage = "chroma" /\ coding'.stage = "chroma" /\ coding'.pass = coding.pass
        /\ ~frame_mb.inter /\ frame_mb' = frame_mb
    BY <1>11, TriedIs DEF TryChroma, CodingTypeOK
  <2>2. ChosenInv'
    BY <2>1 DEF ChosenInv
  <2>3. best'.mode # "none" /\ buffer'.chroma = Whole(best'.mode, 0)
    <3>1. Head(coding.tries) # "none"
      BY <1>11, TriedIs, ModesDiffer DEF TryChroma, CodingTypeOK, Tries
    <3> QED BY <1>11, <2>1, <3>1 DEF TryChroma, ChromaInv, CodingTypeOK, IsBuffer
  <2> QED BY <2>1, <2>2, <2>3 DEF SubblocksInv, TryingSubblocks, BestInv, ChromaInv
<1>12. CASE ApplyChroma
  <2>1. /\ coding.stage = "chroma" /\ coding'.stage = "reconstruct"
        /\ coding'.pass = coding.pass
    BY <1>12 DEF ApplyChroma, CodingTypeOK, Codings
  <2>2. /\ frame_mb'.luma = frame_mb.luma /\ frame_mb'.submodes = frame_mb.submodes
        /\ frame_mb'.raw = frame_mb.raw /\ frame_mb'.inter = frame_mb.inter
        /\ frame_mb'.mode = frame_mb.mode /\ frame_mb'.vector = frame_mb.vector
        /\ frame_mb'.coded = frame_mb.coded
    BY <1>12 DEF ApplyChroma, CodingTypeOK, IsMacroblock
  <2>3. Chained(frame_mb) => Chained(frame_mb')
    BY <2>2 DEF Chained, Restores
  <2>4. ChosenInv'
    BY <2>1, <2>2, <2>3 DEF ChosenInv
  <2>5. frame_mb'.chroma = Residue(decoded_chroma(frame_mb'))
    <3>1. CASE frame_mb.inter
      BY <1>12, <2>2, <3>1 DEF ApplyChroma, CodingTypeOK, IsMacroblock, IsBuffer, decoded_chroma
    <3>2. CASE ~frame_mb.inter
      <4>1. best.mode # "none" /\ buffer.chroma = Whole(best.mode, 0)
        BY <1>12, <2>1, <3>2 DEF ApplyChroma, ChromaInv
      <4>2. frame_mb'.uv_mode = best.mode /\ frame_mb'.chroma = Residue(buffer.chroma)
        BY <1>12, <3>2 DEF ApplyChroma, CodingTypeOK, IsMacroblock
      <4> QED BY <2>2, <3>2, <4>1, <4>2 DEF decoded_chroma
    <3> QED BY <3>1, <3>2
  <2> QED BY <2>1, <2>4, <2>5 DEF SubblocksInv, TryingSubblocks, BestInv, ChromaInv
<1>13. CASE Reconstruct
  <2>1. /\ coding.stage = "reconstruct" /\ coding'.stage = "done"
        /\ coding'.pass = coding.pass /\ frame_mb' = frame_mb
    BY <1>13 DEF Reconstruct, CodingTypeOK, Codings
  <2> QED BY <2>1 DEF SubblocksInv, TryingSubblocks, BestInv, ChosenInv, ChromaInv
<1>14. CASE UNCHANGED macroblock_vars
  BY <1>14 DEF macroblock_vars, SubblocksInv, TryingSubblocks, BestInv, ChosenInv, ChromaInv, Before
<1> QED BY <1>2, <1>3, <1>4, <1>5, <1>6, <1>7, <1>8, <1>9, <1>10, <1>11, <1>12, <1>13, <1>14
        DEF MacroblockNext


(* For a macroblock of any number of subblocks and any vectors: the residues *)
(* that are written are those of the predictions a decoder makes, whichever  *)
(* modes were tried in which buffers, in either pass, and whatever earlier   *)
(* macroblocks left there (encode_intra.cc:48-386, encode_inter.cc:231-507). *)
THEOREM ResidueFitsPrediction == MacroblockSpec => []ResidueIsOfThePrediction
<1>1. MacroblockInit => CodingInv
  BY DEF MacroblockInit, CodingInv, SubblocksInv, TryingSubblocks, BestInv, ChosenInv,
         ChromaInv
<1>2. CodingTypeOK /\ CodingTypeOK' /\ CodingInv /\ [MacroblockNext]_macroblock_vars
        => CodingInv'
  BY CodingKeepsInv
<1>3. CodingTypeOK /\ CodingInv => ResidueIsOfThePrediction
  BY CodingInvSuffices
<1> QED BY <1>1, <1>2, <1>3, CodingTyped, PTL DEF MacroblockSpec
===============================================================================
