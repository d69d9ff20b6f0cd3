------------------------------ MODULE Prediction ------------------------------
(***************************************************************************)
(* Where the pixels of a prediction come from (prediction.cc): intra       *)
(* prediction from the part of the picture already reconstructed, inter    *)
(* prediction from a reference picture, through the fast paths and the     *)
(* slow one.  Pixels are named by their place; of an intra predictor only  *)
(* the samples it mixes are kept.                                          *)
(***************************************************************************)
EXTENDS RasterSize

CONSTANTS
  DisplayWidth, DisplayHeight,  (* what of it is shown, in pixels            *)
  Picture                       (* the luma plane of a reference             *)

ASSUME RasterAssumption ==
  /\ DisplayWidth \in (16 * Columns - 15)..(16 * Columns)
  /\ DisplayHeight \in (16 * Rows - 15)..(16 * Rows)

ASSUME PictureAssumption ==
  Picture \in [ (0..(16 * Columns - 1)) \X (0..(16 * Rows - 1)) -> 0..255 ]

VARIABLE place  (* the macroblock, and the luma subblock, to predict next    *)

Finished == [ column |-> 0, row |-> Rows, subblock |-> 0 ]

PredictionInit == place = Finished

BeginRaster ==
  /\ place = Finished
  /\ place' = [ column |-> 0, row |-> 0, subblock |-> 0 ]

NextMacroblock ==
  IF place.column + 1 < Columns
  THEN [ column |-> place.column + 1, row |-> place.row, subblock |-> 0 ]
  ELSE [ column |-> 0, row |-> place.row + 1, subblock |-> 0 ]

(* B_PRED: a subblock is predicted from its neighbours as reconstructed.     *)
ReconstructSubblock ==
  /\ place.row < Rows
  /\ place' = IF place.subblock < 15 THEN [ place EXCEPT !.subblock = @ + 1 ]
                                     ELSE NextMacroblock

(* The other modes, and inter prediction, take the macroblock as a whole.    *)
ReconstructWhole ==
  /\ place.row < Rows
  /\ place.subblock = 0
  /\ place' = NextMacroblock

PredictionNext == BeginRaster \/ ReconstructSubblock \/ ReconstructWhole

PredictionSpec == PredictionInit /\ [][PredictionNext]_place

PlaceTypeOK ==
  place \in [ column : 0..(Columns - 1), row : 0..Rows, subblock : 0..15 ]

-----------------------------------------------------------------------------
(* A sample is a pixel of the plane or one of the two made up outside it.    *)
At(column, row) == << column, row >>
Fixed(value) == << value >>

Left(size, column, row, i) ==
  IF column > 0 THEN At(size * column - 1, size * row + i) ELSE Fixed(129)

Above(size, column, row, i) ==
  IF row > 0 THEN At(size * column + i, size * row - 1) ELSE Fixed(127)

Corner(size, column, row) ==
  IF column > 0 /\ row > 0 THEN At(size * column - 1, size * row - 1)
  ELSE IF row > 0 THEN Fixed(129) ELSE Fixed(127)

(* Seeded fault: every subblock takes the row above it.                      *)
AboveRightPlainly(column, row, i) ==
  IF row = 0 THEN Fixed(127)
  ELSE IF 4 * (column + 1) >= 16 * Columns
  THEN IF row >= 4 THEN At(4 * (column + 1) - 1, 4 * (4 * (row \div 4)) - 1)
                   ELSE Fixed(127)
  ELSE At(4 * (column + 1) + i, 4 * row - 1)

(* The four samples right of those above.  On the right of a macroblock the  *)
(* lower subblocks take the row above the macroblock, the next one not being *)
(* there yet; on the right of the picture, its last pixel.                   *)
AboveRight(column, row, i) ==
  IF row = 0 THEN Fixed(127)
  ELSE IF 4 * (column + 1) >= 16 * Columns
  THEN IF row >= 4 THEN At(4 * (column + 1) - 1, 4 * (4 * (row \div 4)) - 1)
                   ELSE Fixed(127)
  ELSE IF column % 4 = 3 /\ row % 4 # 0
  THEN IF row >= 4 THEN At(4 * (column + 1) + i, 4 * (4 * (row \div 4)) - 1)
                   ELSE Fixed(127)
  ELSE At(4 * (column + 1) + i, 4 * row - 1)

(* The edge of a subblock, from the bottom of the left to the far right.     *)
Edge == 0..12

east(column, row, i) ==
  CASE i <= 3 -> Left(4, column, row, 3 - i)
    [] i = 4 -> Corner(4, column, row)
    [] i \in 5..8 -> Above(4, column, row, i - 5)
    [] i >= 9 -> AboveRight(column, row, i - 9)

-----------------------------------------------------------------------------
Three(i) == {i, i + 1, i + 2}
Two(i) == {i, i + 1}

SubblockModes ==
  { "B_DC_PRED", "B_TM_PRED", "B_VE_PRED", "B_HE_PRED", "B_LD_PRED", "B_RD_PRED",
    "B_VR_PRED", "B_VL_PRED", "B_HD_PRED", "B_HU_PRED" }

(* Which samples of the edge make up pixel (x, y) of the subblock.           *)
vertical_right_predict(x, y) ==
  LET i == x - (y \div 2)
  IN IF i < 0 THEN Three(4 - y)
     ELSE IF y % 2 = 0 THEN Two(4 + i) ELSE Three(3 + i)

vertical_left_predict(x, y) ==
  LET i == 5 + x + (y \div 2)
  IN IF x = 3 /\ y >= 2 THEN Three(7 + y)
     ELSE IF y % 2 = 0 THEN Two(i) ELSE Three(i)

horizontal_down_predict(x, y) ==
  LET j == (3 - y) + (x \div 2)
  IN IF j > 3 THEN Three(2 + x)
     ELSE IF x % 2 = 0 THEN Two(j) ELSE Three(j)

horizontal_up_predict(x, y) ==
  LET k == 3 - (y + (x \div 2))
  IN IF k <= 0 THEN {0}
     ELSE IF x % 2 = 0 \/ k = 1 THEN {k - 1, k} ELSE {k - 2, k - 1, k}

SubblockSources(mode, x, y) ==
  CASE mode = "B_DC_PRED" -> (0..3) \cup (5..8)
    [] mode = "B_TM_PRED" -> {3 - y, 4, 5 + x}
    [] mode = "B_VE_PRED" -> Three(4 + x)
    [] mode = "B_HE_PRED" -> IF y = 3 THEN {0, 1} ELSE Three(2 - y)
    [] mode = "B_LD_PRED" -> IF x + y = 6 THEN {11, 12} ELSE Three(5 + x + y)
    [] mode = "B_RD_PRED" -> Three((3 + x) - y)
    [] mode = "B_VR_PRED" -> vertical_right_predict(x, y)
    [] mode = "B_VL_PRED" -> vertical_left_predict(x, y)
    [] mode = "B_HD_PRED" -> horizontal_down_predict(x, y)
    [] mode = "B_HU_PRED" -> horizontal_up_predict(x, y)

MacroblockModes == { "DC_PRED", "V_PRED", "H_PRED", "TM_PRED" }

dc_predict(size, column, row) ==
  { Left(size, column, row, i) : i \in IF column > 0 THEN 0..(size - 1) ELSE {} }
  \cup { Above(size, column, row, i) : i \in IF row > 0 THEN 0..(size - 1) ELSE {} }

MacroblockSources(size, mode, column, row, x, y) ==
  CASE mode = "DC_PRED" -> dc_predict(size, column, row)
    [] mode = "V_PRED" -> {Above(size, column, row, x)}
    [] mode = "H_PRED" -> {Left(size, column, row, y)}
    [] mode = "TM_PRED" -> {Left(size, column, row, y), Above(size, column, row, x),
                            Corner(size, column, row)}
-----------------------------------------------------------------------------
(* The pixels reconstructed before the subblock at place, in a plane of      *)
(* size by size pixels a macroblock; of one by one, the macroblocks.         *)
MacroblockDone(column, row) ==
  \/ row < place.row
  \/ row = place.row /\ column < place.column

Reconstructed(size, sample) ==
  /\ sample[1] \in 0..(size * Columns - 1)
  /\ sample[2] >= 0
  /\ \/ MacroblockDone(sample[1] \div size, sample[2] \div size)
     \/ /\ size = 16
        /\ sample[1] \div 16 = place.column
        /\ sample[2] \div 16 = place.row
        /\ 4 * ((sample[2] % 16) \div 4) + ((sample[1] % 16) \div 4) < place.subblock

Known(size, sample) ==
  sample \in {Fixed(127), Fixed(129)} \/ Reconstructed(size, sample)

(* Every sample an intra predictor mixes has been reconstructed, for every   *)
(* mode and pixel, whole macroblocks and subblocks, in the corners and along *)
(* the borders of the picture: never a pixel of a later macroblock or        *)
(* subblock, outside the plane or past the edge that predictors() fills in.  *)
(* The encoder's second pass over a frame it holds already, and its trial of *)
(* a mode after another, thus predict what the decoder will                  *)
(* (prediction.cc:100-167, 435-643).                                         *)
PredictsFromThePast ==
  place.row < Rows =>
    /\ \A mode \in SubblockModes, x, y \in 0..3 :
         \A i \in SubblockSources(mode, x, y) :
           /\ i \in Edge
           /\ Known(16, east(4 * place.column + (place.subblock % 4),
                             4 * place.row + (place.subblock \div 4), i))
    /\ place.subblock = 0 =>
         \A size \in {8, 16}, mode \in MacroblockModes : \A x, y \in 0..(size - 1) :
           \A sample \in MacroblockSources(size, mode, place.column, place.row, x, y) :
             Known(size, sample)
-----------------------------------------------------------------------------
Width == 16 * Columns
Height == 16 * Rows

Bounded(n, least, most) == IF n < least THEN least ELSE IF n > most THEN most ELSE n
clamp255(n) == Bounded(n, 0, 255)

(* The plane, its rows one after the other in memory; the plane with its     *)
(* edges repeated without end; and the copy with a margin on all sides,      *)
(* whose rows are those of the displayed picture although it is filled with  *)
(* the whole raster: on the right a margin reaches into the next row's.      *)
Plain(column, row) ==
  LET address == row * Width + column
  IN IF address \in 0..(Width * Height - 1)
     THEN Picture[<< address % Width, address \div Width >>] ELSE 0

EdgeExtended(column, row) ==
  Picture[<< Bounded(column, 0, Width - 1), Bounded(row, 0, Height - 1) >>]

stride == DisplayWidth + 2 * Margin

SafeAt(column, row) ==
  LET address == (Margin + row) * stride + Margin + column
  IN EdgeExtended((address % stride) - Margin, (address \div stride) - Margin)

sixtap_filters ==
  << << 0, 0, 128, 0, 0, 0 >>, << 0, -6, 123, 12, -1, 0 >>, << 2, -11, 108, 36, -8, 1 >>,
     << 0, -9, 93, 50, -6, 0 >>, << 3, -16, 77, 77, -16, 3 >>, << 0, -6, 50, 93, -9, 0 >>,
     << 1, -8, 36, 108, -11, 2 >>, << 0, -1, 12, 123, -6, 0 >> >>

Filtered(fraction, pixels) ==
  LET tap == sixtap_filters[fraction + 1]
  IN clamp255((tap[1] * pixels[1] + tap[2] * pixels[2] + tap[3] * pixels[3]
               + tap[4] * pixels[4] + tap[5] * pixels[5] + tap[6] * pixels[6] + 64) \div 128)

(* The pixels a filter mixes for the one at p: two before it and three       *)
(* behind.                                                                   *)
Across(pixels, p) == [ i \in 1..6 |-> pixels[<< (p[1] + i) - 3, p[2] >>] ]
Down(pixels, p) == [ i \in 1..6 |-> pixels[<< p[1], (p[2] + i) - 3 >>] ]

Block(size) == (0..(size - 1)) \X (0..(size - 1))

(* Horizontally and then vertically, with the intermediate rows kept.        *)
BothPasses(size, mx, my, pixels) ==
  LET intermediate == [ p \in (0..(size - 1)) \X (-2..(size + 2)) |->
                          Filtered(mx, Across(pixels, p)) ]
  IN [ p \in Block(size) |-> Filtered(my, Down(intermediate, p)) ]

Unmoved(size, pixels) == [ p \in Block(size) |-> pixels[p] ]

safe_inter_predict(size, mx, my, pixels) ==
  IF mx = 0 /\ my = 0 THEN Unmoved(size, pixels) ELSE BothPasses(size, mx, my, pixels)

(* With SSE a pass that would change nothing is left out.                    *)
sse_horiz_inter_predict(size, mx, pixels) ==
  [ p \in Block(size) |-> Filtered(mx, Across(pixels, p)) ]

sse_vert_inter_predict(size, my, pixels) ==
  [ p \in Block(size) |-> Filtered(my, Down(pixels, p)) ]

SsePredict(size, mx, my, pixels) ==
  CASE mx = 0 /\ my = 0 -> Unmoved(size, pixels)
    [] mx # 0 /\ my = 0 -> sse_horiz_inter_predict(size, mx, pixels)
    [] mx = 0 /\ my # 0 -> sse_vert_inter_predict(size, my, pixels)
    [] mx # 0 /\ my # 0 -> BothPasses(size, mx, my, pixels)

(* Seeded fault: the row and column the filter needs last are forgotten.     *)
FitsClosely(size, column, row) ==
  /\ column - 2 >= 0 /\ column + size + 2 <= Width
  /\ row - 2 >= 0 /\ row + size + 2 <= Height

Fits(size, column, row) ==
  /\ column - 2 >= 0 /\ column + size + 3 <= Width
  /\ row - 2 >= 0 /\ row + size + 3 <= Height

(* A square block, by its place in blocks of its size, and its vector, of    *)
(* which three bits are the fraction of a pixel.                             *)
InterBlock == [ size : Nat, column : Nat, row : Nat, mv : [ x : Int, y : Int ] ]

(* The pixels around a block that a vector moves it to, as each of the       *)
(* rasters answers for them.                                                 *)
SourceColumn(b) == b.column * b.size + (b.mv.x \div 8)
SourceRow(b) == b.row * b.size + (b.mv.y \div 8)
Reach(b) == (-2..(b.size + 2)) \X (-2..(b.size + 2))

Directly(b) == [ p \in Reach(b) |-> Plain(SourceColumn(b) + p[1], SourceRow(b) + p[2]) ]
Slowly(b) == [ p \in Reach(b) |-> EdgeExtended(SourceColumn(b) + p[1], SourceRow(b) + p[2]) ]
Safely(b) == [ p \in Reach(b) |-> SafeAt(SourceColumn(b) + p[1], SourceRow(b) + p[2]) ]

(* A block's prediction as the decoder makes it, and as the encoder does     *)
(* while it searches.                                                        *)
inter_predict(b) ==
  IF Fits(b.size, SourceColumn(b), SourceRow(b))
  THEN SsePredict(b.size, b.mv.x % 8, b.mv.y % 8, Directly(b))
  ELSE safe_inter_predict(b.size, b.mv.x % 8, b.mv.y % 8, Slowly(b))

SearchPredict(b) == SsePredict(b.size, b.mv.x % 8, b.mv.y % 8, Safely(b))

Ideal(b) == safe_inter_predict(b.size, b.mv.x % 8, b.mv.y % 8, Slowly(b))

(* How far from the raster a SafeRaster answers as it should: on the right   *)
(* and below the margin is short by what is not displayed.                   *)
InMargin(b) ==
  /\ SourceColumn(b) - 2 >= -Margin /\ SourceRow(b) - 2 >= -Margin
  /\ SourceColumn(b) + b.size + 3 <= DisplayWidth + Margin
  /\ SourceRow(b) + b.size + 3 <= DisplayHeight + Margin

AgreesOn(b) ==
  /\ inter_predict(b) = Ideal(b)
  /\ InMargin(b) => SearchPredict(b) = Ideal(b)
=============================================================================
