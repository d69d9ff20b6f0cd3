----------------------------- MODULE PixelProofs -----------------------------
(***************************************************************************)
(* Pixels, for rasters, pictures and samples of every size and value: what *)
(* a prediction reads is there by then, every way of predicting from       *)
(* another frame leads to the same pixels, the loop filter smooths, and    *)
(* what is transformed and quantized comes back near what it was.          *)
(***************************************************************************)
EXTENDS Encoding, SequenceTheorems, TLAPS

(* The place of an address in rows of some width.                            *)
LEMMA DivMod ==
  ASSUME NEW w \in Nat, w > 0, NEW q \in Int, NEW r \in 0..(w - 1)
  PROVE  (q * w + r) \div w = q /\ (q * w + r) % w = r
  BY SMTT(30)

-----------------------------------------------------------------------------
(***************************************************************************)
(* Intra prediction.                                                       *)
(***************************************************************************)
LEMMA SourcesInEdge ==
  ASSUME NEW mode \in SubblockModes, NEW x \in 0..3, NEW y \in 0..3
  PROVE  SubblockSources(mode, x, y) \subseteq Edge
<1> USE DEF SubblockSources, Edge, Three, Two
<1>1. /\ vertical_right_predict(x, y) \subseteq Edge
      /\ vertical_left_predict(x, y) \subseteq Edge
      /\ horizontal_down_predict(x, y) \subseteq Edge
      /\ horizontal_up_predict(x, y) \subseteq Edge
  BY DEF vertical_right_predict, vertical_left_predict,
         horizontal_down_predict, horizontal_up_predict
<1>2. CASE mode \in {"B_VR_PRED", "B_VL_PRED", "B_HD_PRED", "B_HU_PRED"}
  BY <1>1, <1>2
<1>3. CASE mode \in {"B_DC_PRED", "B_TM_PRED", "B_VE_PRED", "B_HE_PRED"}
  BY <1>3
<1>4. CASE mode \in {"B_LD_PRED", "B_RD_PRED"}
  BY <1>4
<1> QED BY <1>2, <1>3, <1>4 DEF SubblockModes

(* A pixel of the macroblock at place that lies in an earlier subblock, and  *)
(* one of an earlier macroblock.                                             *)
LEMMA InEarlierSubblock ==
  ASSUME PlaceTypeOK, NEW dx \in 0..15, NEW dy \in 0..15,
         4 * (dy \div 4) + (dx \div 4) < place.subblock
  PROVE  Known(16, At(16 * place.column + dx, 16 * place.row + dy))
<1> DEFINE C == place.column
           R == place.row
<1>1. C \in 0..(Columns - 1) /\ R \in Nat /\ Columns \in Nat
  BY RasterSizeAssumption DEF PlaceTypeOK
<1>2. /\ (16 * C + dx) \div 16 = C /\ (16 * C + dx) % 16 = dx
      /\ (16 * R + dy) \div 16 = R /\ (16 * R + dy) % 16 = dy
  BY <1>1
<1>3. 16 * C + dx \in 0..(16 * Columns - 1) /\ 16 * R + dy >= 0
  BY <1>1
<1> HIDE DEF C, R
<1> QED BY <1>2, <1>3 DEF C, R, Known, Reconstructed, At

LEMMA InEarlierMacroblock ==
  ASSUME PlaceTypeOK, NEW size \in {8, 16},
         NEW c \in 0..(Columns - 1), NEW r \in Nat, MacroblockDone(c, r),
         NEW dx \in 0..(size - 1), NEW dy \in 0..(size - 1)
  PROVE  Known(size, At(size * c + dx, size * r + dy))
<1>1. Columns \in Nat
  BY RasterSizeAssumption
<1>2. (size * c + dx) \div size = c /\ (size * r + dy) \div size = r
  BY <1>1
<1>3. size * c + dx \in 0..(size * Columns - 1) /\ size * r + dy >= 0
  BY <1>1
<1> QED BY <1>2, <1>3 DEF Known, Reconstructed, At

LEMMA InEarlierLumaMacroblock ==
  ASSUME PlaceTypeOK,
         NEW c \in 0..(Columns - 1), NEW r \in Nat, MacroblockDone(c, r),
         NEW dx \in 0..15, NEW dy \in 0..15
  PROVE  Known(16, At(16 * c + dx, 16 * r + dy))
<1>1. dx \in 0..(16 - 1) /\ dy \in 0..(16 - 1) /\ 16 \in {8, 16}
  OBVIOUS
<1> QED BY ONLY <1>1, PlaceTypeOK, c \in 0..(Columns - 1), r \in Nat, MacroblockDone(c, r), InEarlierMacroblock

LEMMA MadeUp == \A size : Known(size, Fixed(127)) /\ Known(size, Fixed(129))
  BY DEF Known

(* What lies left of, above and right of the subblock to predict.            *)
LEMMA EastKnown ==
  ASSUME PlaceTypeOK, place.row < Rows, NEW i \in Edge
  PROVE  Known(16, east(4 * place.column + (place.subblock % 4),
                        4 * place.row + (place.subblock \div 4), i))
<1> DEFINE C == place.column
           R == place.row
           s == place.subblock % 4
           t == place.subblock \div 4
           column == 4 * C + s
           row == 4 * R + t
<1>1. /\ C \in 0..(Columns - 1) /\ R \in Nat /\ Columns \in Nat
      /\ s \in 0..3 /\ t \in 0..3 /\ place.subblock = 4 * t + s
      /\ place.subblock \in 0..15
  BY RasterSizeAssumption DEF PlaceTypeOK
<1>2. column \in Nat /\ row \in Nat
  BY <1>1
<1> HIDE DEF s, t, C, R
(* The pixel at (dx, dy) from the top left pixel of the macroblock, which    *)
(* may lie in the macroblock left of, above or right above this one.         *)
<1>3. ASSUME NEW dx \in -1..15, NEW dy \in -1..15,
             C > 0 \/ dx >= 0, R > 0 \/ dy >= 0,
             (dx >= 0 /\ dy >= 0) => 4 * (dy \div 4) + (dx \div 4) < place.subblock
      PROVE  Known(16, At(16 * C + dx, 16 * R + dy))
  <2>1. CASE dx >= 0 /\ dy >= 0
    <3>1. dx \in 0..15 /\ dy \in 0..15
      BY <2>1
    <3> QED BY <1>3, <2>1, <3>1, InEarlierSubblock DEF C, R
  <2>2. CASE dx = -1 /\ dy >= 0
    <3>1. PICK c \in 0..(Columns - 1) : c = C - 1
      BY <1>1, <1>3, <2>2
    <3>2. MacroblockDone(c, R) /\ dy \in 0..15 /\ 15 \in 0..15
      BY <1>1, <2>2, <3>1 DEF MacroblockDone, C, R
    <3>3. \A d \in 0..15 : Known(16, At(16 * c + d, 16 * R + dy))
      BY <1>1, <3>2, InEarlierLumaMacroblock
    <3>4. 16 * c + 15 = 16 * C + dx
      BY <1>1, <2>2, <3>1
    <3> QED BY <3>3, <3>4
  <2>3. CASE dx >= 0 /\ dy = -1
    <3>1. PICK r \in Nat : r = R - 1
      BY <1>1, <1>3, <2>3
    <3>2. MacroblockDone(C, r) /\ dx \in 0..15 /\ 15 \in 0..15
      BY <1>1, <2>3, <3>1 DEF MacroblockDone, C, R
    <3>3. \A d \in 0..15 : Known(16, At(16 * C + dx, 16 * r + d))
      BY <1>1, <3>2, InEarlierLumaMacroblock
    <3>4. 16 * r + 15 = 16 * R + dy
      BY <1>1, <2>3, <3>1
    <3> QED BY <3>3, <3>4
  <2>4. CASE dx = -1 /\ dy = -1
    <3>1. /\ C - 1 \in 0..(Columns - 1) /\ R - 1 \in Nat
          /\ MacroblockDone(C - 1, R - 1)
      BY <1>1, <1>3, <2>4 DEF MacroblockDone, C, R
    <3>2. Known(16, At(16 * (C - 1) + 15, 16 * (R - 1) + 15))
      BY <1>1, <3>1, InEarlierLumaMacroblock
    <3>3. 16 * (C - 1) + 15 = 16 * C + dx /\ 16 * (R - 1) + 15 = 16 * R + dy
      BY <1>1, <2>4
    <3> QED BY <3>2, <3>3
  <2> QED BY <2>1, <2>2, <2>3, <2>4
<1>4. ASSUME NEW j \in 0..3 PROVE Known(16, Left(4, column, row, j))
  <2>1. CASE column > 0
    <3>1. /\ 4 * s - 1 \in -1..15 /\ 4 * t + j \in -1..15
          /\ C > 0 \/ 4 * s - 1 >= 0
          /\ 4 * t + j >= 0
          /\ 4 * s - 1 >= 0 =>
               4 * ((4 * t + j) \div 4) + ((4 * s - 1) \div 4) < place.subblock
      BY <1>1, <2>1
    <3>2. Known(16, At(16 * C + (4 * s - 1), 16 * R + (4 * t + j)))
      BY <1>1, <1>3, <3>1
    <3>3. 4 * column - 1 = 16 * C + (4 * s - 1) /\ 4 * row + j = 16 * R + (4 * t + j)
      BY <1>1
    <3> QED BY <2>1, <3>2, <3>3 DEF Left
  <2>2. CASE ~ (column > 0)
    BY <2>2, MadeUp DEF Left
  <2> QED BY <2>1, <2>2
<1>5. ASSUME NEW j \in 0..3 PROVE Known(16, Above(4, column, row, j))
  <2>1. CASE row > 0
    <3>1. /\ 4 * t - 1 \in -1..15 /\ 4 * s + j \in -1..15
          /\ R > 0 \/ 4 * t - 1 >= 0
          /\ 4 * s + j >= 0
          /\ 4 * t - 1 >= 0 =>
               4 * ((4 * t - 1) \div 4) + ((4 * s + j) \div 4) < place.subblock
      BY <1>1, <2>1
    <3>2. Known(16, At(16 * C + (4 * s + j), 16 * R + (4 * t - 1)))
      BY <1>1, <1>3, <3>1
    <3>3. 4 * row - 1 = 16 * R + (4 * t - 1) /\ 4 * column + j = 16 * C + (4 * s + j)
      BY <1>1
    <3> QED BY <2>1, <3>2, <3>3 DEF Above
  <2>2. CASE ~ (row > 0)
    BY <2>2, MadeUp DEF Above
  <2> QED BY <2>1, <2>2
<1>6. Known(16, Corner(4, column, row))
  <2>1. CASE column > 0 /\ row > 0
    <3>1. /\ 4 * t - 1 \in -1..15 /\ 4 * s - 1 \in -1..15
          /\ R > 0 \/ 4 * t - 1 >= 0
          /\ C > 0 \/ 4 * s - 1 >= 0
          /\ 4 * t - 1 >= 0 /\ 4 * s - 1 >= 0 =>
               4 * ((4 * t - 1) \div 4) + ((4 * s - 1) \div 4) < place.subblock
      BY <1>1, <2>1
    <3>2. Known(16, At(16 * C + (4 * s - 1), 16 * R + (4 * t - 1)))
      BY <1>3, <3>1
    <3>3. 4 * row - 1 = 16 * R + (4 * t - 1) /\ 4 * column - 1 = 16 * C + (4 * s - 1)
      BY <1>1
    <3> QED BY <2>1, <3>2, <3>3 DEF Corner
  <2>2. CASE ~ (column > 0 /\ row > 0)
    BY <2>2, MadeUp DEF Corner
  <2> QED BY <2>1, <2>2
<1>7. ASSUME NEW j \in 0..3 PROVE Known(16, AboveRight(column, row, j))
  (* A pixel of the row above the macroblock, also right of it.              *)
  <2>1. ASSUME R > 0, NEW dx \in 0..19, 16 * C + dx < 16 * Columns
        PROVE  Known(16, At(16 * C + dx, 16 * R - 1))
    <3>1. CASE dx <= 15
      <4>1. Known(16, At(16 * C + dx, 16 * R + (-1)))
        BY <1>1, <1>3, <2>1, <3>1
      <4> QED BY <1>1, <4>1
    <3>2. CASE dx > 15
      <4>1. C + 1 \in 0..(Columns - 1) /\ R - 1 \in Nat /\ MacroblockDone(C + 1, R - 1)
        BY <1>1, <2>1, <3>2 DEF MacroblockDone, C, R
      <4>2. dx - 16 \in 0..15
        BY <3>2
      <4>3. Known(16, At(16 * (C + 1) + (dx - 16), 16 * (R - 1) + 15))
        BY <4>1, <4>2, InEarlierLumaMacroblock
      <4>4. 16 * (C + 1) + (dx - 16) = 16 * C + dx /\ 16 * (R - 1) + 15 = 16 * R - 1
        BY <1>1
      <4> QED BY <4>3, <4>4
    <3> QED BY <3>1, <3>2
  <2>2. /\ column % 4 = s /\ row % 4 = t
        /\ row \div 4 = R
        /\ row >= 4 <=> R > 0
    BY <1>1
  <2>3. CASE row = 0
    BY <2>3, MadeUp DEF AboveRight
  <2>4. CASE row # 0 /\ 4 * (column + 1) >= 16 * Columns
    <3>1. CASE row >= 4
      <4>1. /\ 4 * (column + 1) - 1 = 16 * C + (4 * s + 3)
            /\ 4 * s + 3 \in 0..19 /\ 16 * C + (4 * s + 3) < 16 * Columns
            /\ 4 * (4 * (row \div 4)) - 1 = 16 * R - 1
        BY <1>1, <2>2
      <4>2. Known(16, At(4 * (column + 1) - 1, 4 * (4 * (row \div 4)) - 1))
        BY <2>1, <2>2, <3>1, <4>1
      <4> QED BY <2>4, <3>1, <4>2 DEF AboveRight
    <3>2. CASE ~ (row >= 4)
      BY <2>4, <3>2, MadeUp DEF AboveRight
    <3> QED BY <3>1, <3>2
  <2>5. CASE /\ row # 0 /\ ~ (4 * (column + 1) >= 16 * Columns)
             /\ column % 4 = 3 /\ row % 4 # 0
    <3>1. CASE row >= 4
      <4>1. /\ 4 * (column + 1) + j = 16 * C + (16 + j)
            /\ 16 + j \in 0..19 /\ 16 * C + (16 + j) < 16 * Columns
            /\ 4 * (4 * (row \div 4)) - 1 = 16 * R - 1
        BY <1>1, <2>2, <2>5
      <4>2. Known(16, At(4 * (column + 1) + j, 4 * (4 * (row \div 4)) - 1))
        BY <2>1, <2>2, <3>1, <4>1
      <4> QED BY <2>5, <3>1, <4>2 DEF AboveRight
    <3>2. CASE ~ (row >= 4)
      BY <2>5, <3>2, MadeUp DEF AboveRight
    <3> QED BY <3>1, <3>2
  <2>6. CASE /\ row # 0 /\ ~ (4 * (column + 1) >= 16 * Columns)
             /\ ~ (column % 4 = 3 /\ row % 4 # 0)
    <3>1. 4 * (column + 1) + j = 16 * C + (4 * s + 4 + j)
      BY <1>1
    <3>2. CASE t = 0
      <4>1. /\ R > 0 /\ 4 * s + 4 + j \in 0..19 /\ 16 * C + (4 * s + 4 + j) < 16 * Columns
            /\ 4 * row - 1 = 16 * R - 1
        BY <1>1, <2>6, <3>2
      <4> QED BY <2>1, <2>6, <3>1, <4>1 DEF AboveRight
    <3>3. CASE t # 0
      <4>1. /\ 4 * s + 4 + j \in -1..15 /\ 4 * t - 1 \in -1..15
            /\ 4 * s + 4 + j >= 0 /\ 4 * t - 1 >= 0
            /\ 4 * ((4 * t - 1) \div 4) + ((4 * s + 4 + j) \div 4) < place.subblock
            /\ 4 * row - 1 = 16 * R + (4 * t - 1)
        BY <1>1, <2>2, <2>6, <3>3
      <4>2. Known(16, At(16 * C + (4 * s + 4 + j), 16 * R + (4 * t - 1)))
        BY <1>3, <4>1
      <4> QED BY <2>6, <3>1, <4>1, <4>2 DEF AboveRight
    <3> QED BY <3>2, <3>3
  <2> QED BY <2>3, <2>4, <2>5, <2>6
<1>8. Known(16, east(column, row, i))
  <2>1. CASE i \in 0..3
    <3>1. 3 - i \in 0..3
      BY <2>1
    <3> QED BY <1>4, <2>1, <3>1 DEF east
  <2>2. CASE i = 4
    BY <1>6, <2>2 DEF east
  <2>3. CASE i \in 5..8
    <3>1. i - 5 \in 0..3
      BY <2>3
    <3> QED BY <1>5, <2>3, <3>1 DEF east
  <2>4. CASE i \in 9..12
    <3>1. i - 9 \in 0..3
      BY <2>4
    <3> QED BY <1>7, <2>4, <3>1 DEF east
  <2> QED BY <2>1, <2>2, <2>3, <2>4 DEF Edge
<1> QED BY <1>8 DEF C, R, s, t

(* What a predictor of a whole macroblock mixes.                             *)
LEMMA WholeKnown ==
  ASSUME PlaceTypeOK, place.row < Rows, NEW size \in {8, 16},
         NEW mode \in MacroblockModes, NEW x \in 0..(size - 1), NEW y \in 0..(size - 1),
         NEW s \in MacroblockSources(size, mode, place.column, place.row, x, y)
  PROVE  Known(size, s)
<1> DEFINE C == place.column
           R == place.row
<1>1. C \in 0..(Columns - 1) /\ R \in Nat /\ Columns \in Nat
  BY RasterSizeAssumption DEF PlaceTypeOK
<1>2. size - 1 \in 0..(size - 1)
  OBVIOUS
<1>3. ASSUME NEW j \in 0..(size - 1) PROVE Known(size, Left(size, C, R, j))
  <2>1. CASE C > 0
    <3>1. C - 1 \in 0..(Columns - 1) /\ MacroblockDone(C - 1, R)
      BY <1>1, <2>1 DEF MacroblockDone
    <3>2. Known(size, At(size * (C - 1) + (size - 1), size * R + j))
      BY <1>1, <1>2, <3>1, InEarlierMacroblock
    <3>3. size * (C - 1) + (size - 1) = size * C - 1
      BY <1>1
    <3> QED BY <2>1, <3>2, <3>3 DEF Left
  <2>2. CASE ~ (C > 0)
    BY <2>2, MadeUp DEF Left
  <2> QED BY <2>1, <2>2
<1>4. ASSUME NEW j \in 0..(size - 1) PROVE Known(size, Above(size, C, R, j))
  <2>1. CASE R > 0
    <3>1. R - 1 \in Nat /\ MacroblockDone(C, R - 1)
      BY <1>1, <2>1 DEF MacroblockDone
    <3>2. Known(size, At(size * C + j, size * (R - 1) + (size - 1)))
      BY <1>1, <1>2, <3>1, InEarlierMacroblock
    <3>3. size * (R - 1) + (size - 1) = size * R - 1
      BY <1>1
    <3> QED BY <2>1, <3>2, <3>3 DEF Above
  <2>2. CASE ~ (R > 0)
    BY <2>2, MadeUp DEF Above
  <2> QED BY <2>1, <2>2
<1>5. Known(size, Corner(size, C, R))
  <2>1. CASE C > 0 /\ R > 0
    <3>1. /\ C - 1 \in 0..(Columns - 1) /\ R - 1 \in Nat
          /\ MacroblockDone(C - 1, R - 1)
      BY <1>1, <2>1 DEF MacroblockDone
    <3>2. Known(size, At(size * (C - 1) + (size - 1), size * (R - 1) + (size - 1)))
      BY <1>2, <3>1, InEarlierMacroblock
    <3>3. size * (C - 1) + (size - 1) = size * C - 1
          /\ size * (R - 1) + (size - 1) = size * R - 1
      BY <1>1
    <3> QED BY <2>1, <3>2, <3>3 DEF Corner
  <2>2. CASE ~ (C > 0 /\ R > 0)
    BY <2>2, MadeUp DEF Corner
  <2> QED BY <2>1, <2>2
<1> HIDE DEF C, R
<1>6. s \in MacroblockSources(size, mode, C, R, x, y)
  BY DEF C, R
<1>7. CASE mode = "DC_PRED"
  BY <1>3, <1>4, <1>6, <1>7 DEF MacroblockSources, dc_predict
<1>8. CASE mode = "V_PRED"
  BY <1>4, <1>6, <1>8 DEF MacroblockSources
<1>9. CASE mode = "H_PRED"
  BY <1>3, <1>6, <1>9 DEF MacroblockSources
<1>10. CASE mode = "TM_PRED"
  BY <1>3, <1>4, <1>5, <1>6, <1>10 DEF MacroblockSources
<1> QED BY <1>7, <1>8, <1>9, <1>10 DEF MacroblockModes

(* The place of the subblock to be predicted next lies in the raster, or     *)
(* right behind its last row.                                                *)
THEOREM PredictionTyped == PredictionSpec => []PlaceTypeOK
<1>1. PredictionInit => PlaceTypeOK
  BY RasterSizeAssumption DEF PredictionInit, PlaceTypeOK, Finished
<1>2. ASSUME PlaceTypeOK, [PredictionNext]_place PROVE PlaceTypeOK'
  <2>1. CASE BeginRaster
    BY <2>1, RasterSizeAssumption DEF BeginRaster, PlaceTypeOK
  <2>2. place.row < Rows => NextMacroblock \in [ column : 0..(Columns - 1), row : 0..Rows,
                                                 subblock : 0..15 ]
    BY <1>2, RasterSizeAssumption DEF NextMacroblock, PlaceTypeOK
  <2>3. CASE ReconstructSubblock
    BY <1>2, <2>2, <2>3, RasterSizeAssumption DEF ReconstructSubblock, PlaceTypeOK
  <2>4. CASE ReconstructWhole
    BY <2>2, <2>4 DEF ReconstructWhole, PlaceTypeOK
  <2> QED BY <1>2, <2>1, <2>3, <2>4 DEF PredictionNext, PlaceTypeOK
<1> QED BY <1>1, <1>2, PTL DEF PredictionSpec

(* In rasters of any size every mode, at every place, mixes only pixels that *)
(* are reconstructed by then or made up at the borders: above right of a     *)
(* subblock this takes the row above the macroblock, or what stands for it   *)
(* (prediction.cc:56-636, macroblock.cc).                                    *)
THEOREM PredictionIsOfThePast == PredictionSpec => []PredictsFromThePast
<1>1. ASSUME PlaceTypeOK PROVE PredictsFromThePast
  <2> SUFFICES ASSUME place.row < Rows PROVE PredictsFromThePast
    BY DEF PredictsFromThePast
  <2>1. ASSUME NEW mode \in SubblockModes, NEW x \in 0..3, NEW y \in 0..3,
               NEW i \in SubblockSources(mode, x, y)
        PROVE  /\ i \in Edge
               /\ Known(16, east(4 * place.column + (place.subblock % 4),
                                 4 * place.row + (place.subblock \div 4), i))
    <3>1. i \in Edge
      BY SourcesInEdge
    <3> QED BY <1>1, <3>1, EastKnown
  <2>2. ASSUME NEW size \in {8, 16}, NEW mode \in MacroblockModes,
               NEW x \in 0..(size - 1), NEW y \in 0..(size - 1),
               NEW s \in MacroblockSources(size, mode, place.column, place.row, x, y)
        PROVE  Known(size, s)
    BY <1>1, <2>2, WholeKnown
  <2> QED BY <2>1, <2>2 DEF PredictsFromThePast
<1> QED BY <1>1, PredictionTyped, PTL

-----------------------------------------------------------------------------
(***************************************************************************)
(* Prediction from another frame.                                          *)
(***************************************************************************)
(* Pixels around a block of some size.                                       *)
Around(size) == (-2..(size + 2)) \X (-2..(size + 2))

LEMMA FilteredIsByte ==
  ASSUME NEW fraction \in 0..7, NEW p, \A i \in 1..6 : p[i] \in Int
  PROVE  Filtered(fraction, p) \in 0..255
<1> DEFINE tap == sixtap_filters[fraction + 1]
<1>1. \A i \in 1..6 : tap[i] \in Int
  BY DEF sixtap_filters
<1> HIDE DEF tap
<1> DEFINE n == (tap[1] * p[1] + tap[2] * p[2] + tap[3] * p[3]
                 + tap[4] * p[4] + tap[5] * p[5] + tap[6] * p[6] + 64) \div 128
<1>2. n \in Int
  BY <1>1
<1>3. Filtered(fraction, p) = clamp255(n)
  BY DEF Filtered, tap
<1> HIDE DEF n
<1> QED BY <1>2, <1>3 DEF clamp255, Bounded

(* The filter of a whole vector lets the pixel through.                      *)
LEMMA WholeFilter ==
  ASSUME NEW p, \A i \in 1..6 : p[i] \in 0..255
  PROVE  Filtered(0, p) = p[3]
<1>1. sixtap_filters[0 + 1] = << 0, 0, 128, 0, 0, 0 >>
  BY DEF sixtap_filters
<1>2. Filtered(0, p) = clamp255((128 * p[3] + 64) \div 128)
  BY <1>1, SMTT(30) DEF Filtered
<1> QED BY <1>2 DEF clamp255, Bounded

(* Leaving out a pass that changes nothing changes nothing.                  *)
LEMMA SseIsSafe ==
  ASSUME NEW size \in Nat, NEW mx \in 0..7, NEW my \in 0..7,
         NEW pixels \in [Around(size) -> 0..255]
  PROVE  SsePredict(size, mx, my, pixels) = safe_inter_predict(size, mx, my, pixels)
<1> DEFINE tall == (0..(size - 1)) \X (-2..(size + 2))
           middle == [ p \in tall |-> Filtered(mx, Across(pixels, p)) ]
<1>1. ASSUME NEW p \in tall
      PROVE  /\ \A i \in 1..6 : Across(pixels, p)[i] \in 0..255
             /\ Across(pixels, p)[3] = pixels[p]
  <2>1. /\ p = << p[1], p[2] >>
        /\ \A i \in 1..6 : << (p[1] + i) - 3, p[2] >> \in Around(size)
        /\ (p[1] + 3) - 3 = p[1]
    BY DEF Around
  <2>2. \A i \in 1..6 : Across(pixels, p)[i] = pixels[<< (p[1] + i) - 3, p[2] >>]
    BY DEF Across
  <2>3. \A q \in Around(size) : pixels[q] \in 0..255
    OBVIOUS
  <2>4. \A i \in 1..6 : Across(pixels, p)[i] \in 0..255
    BY <2>1, <2>2, <2>3, ZenonT(30)
  <2>5. Across(pixels, p)[3] = pixels[<< (p[1] + 3) - 3, p[2] >>]
    BY <2>2
  <2> QED BY <2>1, <2>4, <2>5, Zenon
<1>2. ASSUME NEW f, \A p \in tall : f[p] \in 0..255, NEW p \in Block(size)
      PROVE  /\ \A i \in 1..6 : Down(f, p)[i] \in 0..255
             /\ Down(f, p)[3] = f[p]
  <2>1. /\ p = << p[1], p[2] >>
        /\ \A i \in 1..6 : << p[1], (p[2] + i) - 3 >> \in tall
        /\ (p[2] + 3) - 3 = p[2]
    BY DEF Block
  <2>2. \A i \in 1..6 : Down(f, p)[i] = f[<< p[1], (p[2] + i) - 3 >>]
    BY DEF Down
  <2>3. \A i \in 1..6 : Down(f, p)[i] \in 0..255
    BY <1>2, <2>1, <2>2, ZenonT(30)
  <2>4. Down(f, p)[3] = f[<< p[1], (p[2] + 3) - 3 >>]
    BY <2>2
  <2> QED BY <2>1, <2>3, <2>4, Zenon
<1>3. ASSUME NEW p \in tall
      PROVE  middle[p] = Filtered(mx, Across(pixels, p)) /\ middle[p] \in 0..255
  <2>1. Filtered(mx, Across(pixels, p)) \in 0..255
    BY <1>1, FilteredIsByte
  <2> QED BY <2>1
<1>4. Block(size) \subseteq tall
  BY DEF Block
<1>5. BothPasses(size, mx, my, pixels)
        = [ p \in Block(size) |-> Filtered(my, Down(middle, p)) ]
  BY DEF BothPasses
<1> HIDE DEF middle, tall
<1>6. CASE mx = 0 /\ my = 0
  BY <1>6 DEF SsePredict, safe_inter_predict
<1>7. CASE mx # 0 /\ my = 0
  <2>1. ASSUME NEW p \in Block(size)
        PROVE  Filtered(my, Down(middle, p)) = Filtered(mx, Across(pixels, p))
    <3>1. Filtered(0, Down(middle, p)) = middle[p]
      BY <1>2, <1>3, WholeFilter
    <3> QED BY <1>3, <1>4, <1>7, <3>1
  <2>2. BothPasses(size, mx, my, pixels) = sse_horiz_inter_predict(size, mx, pixels)
    BY <1>5, <2>1 DEF sse_horiz_inter_predict
  <2> QED BY <1>7, <2>2 DEF SsePredict, safe_inter_predict
<1>8. CASE mx = 0 /\ my # 0
  <2>1. ASSUME NEW p \in tall PROVE middle[p] = pixels[p]
    <3>1. Filtered(0, Across(pixels, p)) = pixels[p]
      BY <1>1, WholeFilter
    <3> QED BY <1>3, <1>8, <3>1
  <2>2. ASSUME NEW p \in Block(size) PROVE Down(middle, p) = Down(pixels, p)
    <3>1. \A i \in 1..6 : << p[1], (p[2] + i) - 3 >> \in tall
      BY DEF Block, tall
    <3> QED BY <2>1, <3>1 DEF Down
  <2>3. BothPasses(size, mx, my, pixels) = sse_vert_inter_predict(size, my, pixels)
    BY <1>5, <2>2 DEF sse_vert_inter_predict
  <2> QED BY <1>8, <2>3 DEF SsePredict, safe_inter_predict
<1>9. CASE mx # 0 /\ my # 0
  BY <1>9 DEF SsePredict, safe_inter_predict
<1> QED BY <1>6, <1>7, <1>8, <1>9

LEMMA EdgeIsByte ==
  ASSUME NEW c \in Int, NEW r \in Int
  PROVE  EdgeExtended(c, r) \in 0..255
<1>1. Columns \in Nat \ {0} /\ Rows \in Nat \ {0}
  BY RasterSizeAssumption
<1>2. /\ Bounded(c, 0, Width - 1) \in 0..(16 * Columns - 1)
      /\ Bounded(r, 0, Height - 1) \in 0..(16 * Rows - 1)
  BY <1>1 DEF Bounded, Width, Height
<1> QED BY <1>2, PictureAssumption DEF EdgeExtended

(* Inside the plane memory holds the plane.                                  *)
LEMMA PlainIsEdge ==
  ASSUME NEW c \in 0..(Width - 1), NEW r \in 0..(Height - 1)
  PROVE  Plain(c, r) = EdgeExtended(c, r)
<1>1. Width \in Nat /\ Height \in Nat /\ Width > 0 /\ Height > 0
  BY RasterSizeAssumption DEF Width, Height
<1>2. (r * Width + c) % Width = c /\ (r * Width + c) \div Width = r
  BY <1>1, DivMod
<1>3. r * Width + c \in 0..(Width * Height - 1)
  <2>1. r * Width + c >= 0
    BY <1>1
  <2>2. r * Width + c <= (Height - 1) * Width + (Width - 1)
    BY <1>1
  <2>3. (Height - 1) * Width + (Width - 1) = Width * Height - 1
    BY <1>1
  <2>4. r * Width + c \in Int /\ Width * Height \in Int
    BY <1>1
  <2> QED BY <2>1, <2>2, <2>3, <2>4
<1>4. Bounded(c, 0, Width - 1) = c /\ Bounded(r, 0, Height - 1) = r
  BY <1>1 DEF Bounded
<1> QED BY <1>2, <1>3, <1>4 DEF Plain, EdgeExtended

(* The copy answers as the picture extended without end does as long as a    *)
(* column stays in its margins, on any row.                                  *)
LEMMA SafeIsEdge ==
  ASSUME NEW c \in (-Margin)..(DisplayWidth + Margin - 1), NEW r \in Int
  PROVE  SafeAt(c, r) = EdgeExtended(c, r)
<1>1. Margin \in Nat /\ DisplayWidth \in Nat /\ DisplayWidth > 0
  BY RasterSizeAssumption, RasterAssumption
<1>2. stride \in Nat /\ stride > 0 /\ Margin + c \in 0..(stride - 1)
  BY <1>1 DEF stride
<1>3. Margin + r \in Int
  BY <1>1
<1> DEFINE q == Margin + r
           m == Margin + c
<1> HIDE DEF q, m
<1>4. (q * stride + m) % stride = m /\ (q * stride + m) \div stride = q
  BY <1>2, <1>3, DivMod DEF q, m
<1>5. (Margin + r) * stride + Margin + c = q * stride + m
  BY <1>1, <1>2, <1>3 DEF q, m
<1>6. m - Margin = c /\ q - Margin = r
  BY <1>1 DEF q, m
<1> QED BY <1>4, <1>5, <1>6 DEF SafeAt

(* The decoder's prediction and the search's agree with the ideal one.       *)
LEMMA BlockAgrees ==
  ASSUME NEW b \in InterBlock
  PROVE  AgreesOn(b)
<1> DEFINE c == SourceColumn(b)
           r == SourceRow(b)
           mx == b.mv.x % 8
           my == b.mv.y % 8
<1>1. /\ b.size \in Nat /\ c \in Int /\ r \in Int
      /\ mx \in 0..7 /\ my \in 0..7
  <2>1. b.size \in Nat /\ b.column \in Nat /\ b.row \in Nat
        /\ b.mv.x \in Int /\ b.mv.y \in Int
    BY DEF InterBlock
  <2>2. b.column * b.size \in Int /\ b.row * b.size \in Int
    BY <2>1
  <2>3. /\ b.mv.x \div 8 \in Int /\ b.mv.y \div 8 \in Int
        /\ b.mv.x % 8 \in 0..7 /\ b.mv.y % 8 \in 0..7
    BY <2>1
  <2> QED BY <2>1, <2>2, <2>3 DEF SourceColumn, SourceRow
<1> HIDE DEF c, r, mx, my
<1>2. Reach(b) = Around(b.size)
  BY DEF Reach, Around
<1>3. \A p \in Reach(b) : c + p[1] \in Int /\ r + p[2] \in Int
  BY <1>1 DEF Reach
<1>4. Slowly(b) = [ p \in Reach(b) |-> EdgeExtended(c + p[1], r + p[2]) ]
  BY DEF Slowly, c, r
<1>5. Slowly(b) \in [Around(b.size) -> 0..255]
  <2>1. \A p \in Reach(b) : EdgeExtended(c + p[1], r + p[2]) \in 0..255
    BY <1>3, EdgeIsByte
  <2> QED BY <1>2, <1>4, <2>1
<1>6. SsePredict(b.size, mx, my, Slowly(b)) = safe_inter_predict(b.size, mx, my, Slowly(b))
  BY <1>1, <1>5, SseIsSafe
<1>7. Ideal(b) = safe_inter_predict(b.size, mx, my, Slowly(b))
  BY DEF Ideal, mx, my
<1>8. inter_predict(b) = Ideal(b)
  <2>1. CASE Fits(b.size, c, r)
    <3>1. \A p \in Reach(b) : /\ c + p[1] \in 0..(Width - 1)
                              /\ r + p[2] \in 0..(Height - 1)
      <4>1. Width \in Int /\ Height \in Int
        BY RasterSizeAssumption DEF Width, Height
      <4> QED BY <1>1, <2>1, <4>1 DEF Reach, Fits
    <3>2. Directly(b) = Slowly(b)
      BY <1>4, <3>1, PlainIsEdge DEF Directly, c, r
    <3> QED BY <1>6, <1>7, <2>1, <3>2 DEF inter_predict, c, r, mx, my
  <2>2. CASE ~ Fits(b.size, c, r)
    BY <1>7, <2>2 DEF inter_predict, c, r, mx, my
  <2> QED BY <2>1, <2>2
<1>9. ASSUME InMargin(b) PROVE SearchPredict(b) = Ideal(b)
  <2>1. \A p \in Reach(b) : c + p[1] \in (-Margin)..(DisplayWidth + Margin - 1)
    <3>1. Margin \in Int /\ DisplayWidth \in Int
      BY RasterSizeAssumption, RasterAssumption
    <3> QED BY <1>1, <1>9, <3>1 DEF Reach, InMargin, c
  <2>2. Safely(b) = Slowly(b)
    BY <1>3, <1>4, <2>1, SafeIsEdge DEF Safely, c, r
  <2> QED BY <1>6, <1>7, <2>2 DEF SearchPredict, mx, my
<1> QED BY <1>8, <1>9 DEF AgreesOn
Lines == [1..8 -> 0..255]

-----------------------------------------------------------------------------
(***************************************************************************)
(* The loop filter.                                                        *)
(***************************************************************************)
(* What Plus does to a pixel: it adds, and stays within a byte.              *)
LEMMA PlusIs ==
  ASSUME NEW p \in 0..255, NEW n \in Int
  PROVE  Plus(p, n) = IF p + n < 0 THEN 0 ELSE IF p + n > 255 THEN 255 ELSE p + n
  BY DEF Plus, vp8_signed_char_clamp

LEMMA PlusType ==
  ASSUME NEW p \in 0..255, NEW n \in Int
  PROVE  Plus(p, n) \in 0..255
<1>1. Plus(p, n) = IF p + n < 0 THEN 0 ELSE IF p + n > 255 THEN 255 ELSE p + n
  BY PlusIs
<1> QED BY <1>1

LEMMA PlusBounded ==
  ASSUME NEW p \in 0..255, NEW n \in Int, -27 <= n, n <= 27
  PROVE  Plus(p, n) \in 0..255 /\ Distance(Plus(p, n), p) <= 27
<1>1. Plus(p, n) = IF p + n < 0 THEN 0 ELSE IF p + n > 255 THEN 255 ELSE p + n
  BY PlusIs
<1> QED BY <1>1 DEF Distance

(* Cutting off at the ends of a byte brings pixels no further apart.         *)
LEMMA PlusApart ==
  ASSUME NEW p \in 0..255, NEW q \in 0..255, NEW m \in Int, NEW n \in Int
  PROVE  /\ Distance(Plus(p, m), Plus(q, n)) <= Distance(p + m, q + n)
         /\ Distance(Plus(p, m), q) <= Distance(p + m, q)
         /\ Distance(p, Plus(q, n)) <= Distance(p, q + n)
<1>1. Plus(p, m) = IF p + m < 0 THEN 0 ELSE IF p + m > 255 THEN 255 ELSE p + m
  BY PlusIs
<1>2. Plus(q, n) = IF q + n < 0 THEN 0 ELSE IF q + n > 255 THEN 255 ELSE q + n
  BY PlusIs
<1> QED BY <1>1, <1>2 DEF Distance

LEMMA DistanceFacts ==
  ASSUME NEW a \in Int, NEW b \in Int, NEW m \in Int, NEW n \in Int
  PROVE  /\ Distance(a, b) \in Nat
         /\ Distance(a + m, b + n) <= Distance(a, b) + Distance(m, n)
         /\ Distance(a + m, b) <= Distance(a, b) + Distance(m, 0)
         /\ Distance(a, b + n) <= Distance(a, b) + Distance(n, 0)
  BY DEF Distance

LEMMA DistanceType == \A a, b \in Int : Distance(a, b) \in Int
  BY DEF Distance

LEMMA ClampIs ==
  ASSUME NEW t \in Int
  PROVE  vp8_signed_char_clamp(t) \in -128..127
  BY DEF vp8_signed_char_clamp

(* The step across an edge, in the pixels next to it.                        *)
LEMMA StepType ==
  ASSUME NEW l \in Lines, NEW outer \in BOOLEAN
  PROVE  Step3(l, outer) \in -128..127
<1>1. l[3] - l[6] \in Int /\ 3 * (l[5] - l[4]) \in Int
  <2>1. \A i \in 1..8 : l[i] \in Int
    BY DEF Lines
  <2> QED BY <2>1
<1>2. (IF outer THEN vp8_signed_char_clamp(l[3] - l[6]) ELSE 0) + 3 * (l[5] - l[4]) \in Int
  BY <1>1, ClampIs
<1> QED BY <1>2, ClampIs DEF Step3

LEMMA InnerTapsAre ==
  ASSUME NEW l \in Lines, NEW v \in -128..127
  PROVE  /\ InnerTaps(l, v) \in Lines
         /\ \A i \in {1, 2, 3, 6, 7, 8} : InnerTaps(l, v)[i] = l[i]
         /\ InnerTaps(l, v)[4] = Plus(l[4], vp8_signed_char_clamp(v + 3) \div 8)
         /\ InnerTaps(l, v)[5] = Plus(l[5], -(vp8_signed_char_clamp(v + 4) \div 8))
         /\ \A i \in {4, 5} : Distance(InnerTaps(l, v)[i], l[i]) <= 27
<1> DEFINE f == vp8_signed_char_clamp(v + 3) \div 8
           F == vp8_signed_char_clamp(v + 4) \div 8
<1>1. f \in -16..15 /\ F \in -16..15
  BY DEF vp8_signed_char_clamp
<1>2. InnerTaps(l, v) = [ l EXCEPT ![4] = Plus(@, f), ![5] = Plus(@, -F) ]
  BY DEF InnerTaps
<1> HIDE DEF f, F
<1>3. -27 <= f /\ f <= 27 /\ -27 <= -F /\ -F <= 27 /\ -F \in Int /\ f \in Int
  BY <1>1
<1>4. l[4] \in 0..255 /\ l[5] \in 0..255
  BY DEF Lines
<1>5. Plus(l[4], f) \in 0..255 /\ Distance(Plus(l[4], f), l[4]) <= 27
  BY <1>3, <1>4, PlusBounded
<1>6. Plus(l[5], -F) \in 0..255 /\ Distance(Plus(l[5], -F), l[5]) <= 27
  BY <1>3, <1>4, PlusBounded
<1>7. /\ InnerTaps(l, v) \in Lines
      /\ \A i \in {1, 2, 3, 6, 7, 8} : InnerTaps(l, v)[i] = l[i]
      /\ InnerTaps(l, v)[4] = Plus(l[4], f)
      /\ InnerTaps(l, v)[5] = Plus(l[5], -F)
  <2>1. InnerTaps(l, v) \in Lines
    <3> DEFINE a == Plus(l[4], f)
               c == Plus(l[5], -F)
    <3>1. a \in 0..255 /\ c \in 0..255
      BY <1>5, <1>6
    <3>2. InnerTaps(l, v) = [ l EXCEPT ![4] = a, ![5] = c ]
      BY <1>2
    <3> HIDE DEF a, c
    <3> QED BY <3>1, <3>2 DEF Lines
  <2>2. DOMAIN l = 1..8
    BY DEF Lines
  <2>3. /\ \A i \in {1, 2, 3, 6, 7, 8} : InnerTaps(l, v)[i] = l[i]
        /\ InnerTaps(l, v)[4] = Plus(l[4], f)
        /\ InnerTaps(l, v)[5] = Plus(l[5], -F)
    BY <1>2, <2>2, SMTT(30)
  <2> QED BY <2>1, <2>3
<1> QED BY <1>5, <1>6, <1>7 DEF f, F

Share(v, ninths) == vp8_signed_char_clamp((63 + v * 9 * ninths) \div 128)

LEMMA Shares ==
  ASSUME NEW v \in -128..127
  PROVE  /\ \A k \in 1..3 : Share(v, k) \in -27..27
         /\ \/ (0 <= Share(v, 1) /\ Share(v, 1) <= Share(v, 2) /\ Share(v, 2) <= Share(v, 3))
            \/ (Share(v, 3) <= Share(v, 2) /\ Share(v, 2) <= Share(v, 1) /\ Share(v, 1) <= 0)
  BY DEF Share, vp8_signed_char_clamp

(* The arithmetic of an edge between macroblocks: d is the step across it,   *)
(* u and w are the small ones towards it on either side.                     *)
LEMMA MacroblockStep ==
  ASSUME NEW d \in -255..255, NEW u \in -3..3, NEW w \in -3..3
  PROVE  LET v == vp8_signed_char_clamp(vp8_signed_char_clamp((u + w) - d) + 3 * d)
             a == Share(v, 2)
             b == Share(v, 3)
         IN /\ Distance(d, 2 * b) <= Distance(d, 0) + 2
            /\ Distance(d, 2 * b) + Distance(u + a, b) + Distance(w + a, b)
                 + 2 * Distance(a, 0)
                 <= Distance(d, 0) + Distance(u, 0) + Distance(w, 0) + 4
<1> DEFINE t == 2 * d + (u + w)
           v == vp8_signed_char_clamp(t)
           a == Share(v, 2)
           b == Share(v, 3)
           Goal == /\ Distance(d, 2 * b) <= Distance(d, 0) + 2
                   /\ Distance(d, 2 * b) + Distance(u + a, b) + Distance(w + a, b)
                        + 2 * Distance(a, 0)
                        <= Distance(d, 0) + Distance(u, 0) + Distance(w, 0) + 4
<1>1. vp8_signed_char_clamp(vp8_signed_char_clamp((u + w) - d) + 3 * d) = v
  BY DEF vp8_signed_char_clamp
<1>2. /\ v \in -128..127
      /\ a = (63 + 18 * v) \div 128 /\ b = (63 + 27 * v) \div 128
  BY DEF Share, vp8_signed_char_clamp
<1>3. t \in Int /\ v = IF t < -128 THEN -128 ELSE IF t > 127 THEN 127 ELSE t
  BY DEF vp8_signed_char_clamp
<1>4. /\ a \in -27..27 /\ b \in -27..27
      /\ v >= 0 => 0 <= a /\ a <= b
      /\ v < 0 => b <= a /\ a <= 0
  <2> HIDE DEF v, a, b
  <2>1. CASE v >= 0
    BY <1>2, <2>1
  <2>2. CASE v < 0
    BY <1>2, <2>2
  <2> QED BY <1>2, <2>1, <2>2
<1> HIDE DEF v, a, b
<1>0. (0 <= a /\ a <= b) \/ (b <= a /\ a <= 0)
  BY <1>2, <1>4
<1>5. ASSUME 0 <= b /\ 2 * b <= d PROVE Goal
  <2>1. 0 <= a /\ a <= b
    BY <1>0, <1>4, <1>5
  <2> QED BY <1>4, <1>5, <2>1 DEF Distance
<1>6. ASSUME b <= 0 /\ d <= 2 * b PROVE Goal
  <2>1. b <= a /\ a <= 0
    BY <1>0, <1>4, <1>6
  <2> QED BY <1>4, <1>6, <2>1 DEF Distance
<1>7. ASSUME b = 0 PROVE Goal
  <2>1. a = 0
    BY <1>0, <1>4, <1>7
  <2> QED BY <1>7, <2>1 DEF Distance
<1>8. ASSUME b > 0 /\ d < 2 * b PROVE Goal
  <2>1. d \in -1..22 /\ v = t
    BY <1>2, <1>3, <1>8
  <2>2. a = (63 + 18 * (2 * d + (u + w))) \div 128
    BY <1>2, <2>1
  <2>3. b = (63 + 27 * (2 * d + (u + w))) \div 128
    BY <1>2, <2>1
  <2> QED BY <1>4, <1>8, <2>1, <2>2, <2>3, SMTT(60) DEF Distance
<1>9. ASSUME b < 0 /\ 2 * b < d PROVE Goal
  <2>1. d \in -22..1 /\ v = t
    BY <1>2, <1>3, <1>9
  <2>2. a = (63 + 18 * (2 * d + (u + w))) \div 128
    BY <1>2, <2>1
  <2>3. b = (63 + 27 * (2 * d + (u + w))) \div 128
    BY <1>2, <2>1
  <2> QED BY <1>4, <1>9, <2>1, <2>2, <2>3, SMTT(60) DEF Distance
<1>10. b \in Int
  BY <1>4
<1>11. Goal
  BY <1>5, <1>6, <1>7, <1>8, <1>9, <1>10
<1> QED BY <1>1, <1>11 DEF a, b

(* And of one between subblocks.                                             *)
LEMMA SubblockStep ==
  ASSUME NEW d \in -255..255
  PROVE  LET v == vp8_signed_char_clamp(3 * d)
             f == vp8_signed_char_clamp(v + 3) \div 8
             F == vp8_signed_char_clamp(v + 4) \div 8
             o == (F + 1) \div 2
         IN /\ Distance(d, f + F) <= Distance(d, 0)
            /\ Distance(d, f + F) + Distance(f, o) + Distance(F, o) + 2 * Distance(o, 0)
                 <= Distance(d, 0)
  BY DEF vp8_signed_char_clamp, Distance

-----------------------------------------------------------------------------
LEMMA MovedApart ==
  ASSUME NEW p \in 0..255, NEW q \in 0..255, NEW m \in Int, NEW n \in Int
  PROVE  /\ Distance(Plus(p, m), Plus(q, n)) <= Distance(p, q) + Distance(m, n)
         /\ Distance(Plus(p, m), q) <= Distance(p, q) + Distance(m, 0)
         /\ Distance(p, Plus(q, n)) <= Distance(p, q) + Distance(n, 0)
<1>1. /\ Plus(p, m) = IF p + m < 0 THEN 0 ELSE IF p + m > 255 THEN 255 ELSE p + m
      /\ Plus(q, n) = IF q + n < 0 THEN 0 ELSE IF q + n > 255 THEN 255 ELSE q + n
  BY PlusIs
<1>2. Plus(p, m) \in 0..255 /\ Plus(q, n) \in 0..255
  BY <1>1
<1>3. Distance(Plus(p, m), Plus(q, n)) <= Distance(p, q) + Distance(m, n)
  BY <1>1 DEF Distance
<1>4. Distance(Plus(p, m), q) <= Distance(p, q) + Distance(m, 0)
  BY <1>1 DEF Distance
<1>5. Distance(p, Plus(q, n)) <= Distance(p, q) + Distance(n, 0)
  BY <1>1 DEF Distance
<1> QED BY <1>3, <1>4, <1>5

(* Bytes moved by no more than 27, the outermost not at all.                 *)
MovesLittle(l, f) ==
  /\ f \in Lines /\ f[1] = l[1] /\ f[8] = l[8]
  /\ \A i \in 1..8 : Distance(f[i], l[i]) <= 27

Smooths(l, f, grace) ==
  /\ Distance(f[4], f[5]) <= Distance(l[4], l[5]) + grace
  /\ Variation(f) <= Variation(l) + 2 * grace

LEMMA VariationType ==
  ASSUME NEW l \in Lines
  PROVE  Variation(l) \in Int
<1>1. /\ l[1] \in Int /\ l[2] \in Int /\ l[3] \in Int /\ l[4] \in Int
      /\ l[5] \in Int /\ l[6] \in Int /\ l[7] \in Int /\ l[8] \in Int
  BY DEF Lines
<1>2. /\ Distance(l[1], l[2]) \in Int /\ Distance(l[2], l[3]) \in Int
      /\ Distance(l[3], l[4]) \in Int /\ Distance(l[4], l[5]) \in Int
      /\ Distance(l[5], l[6]) \in Int /\ Distance(l[6], l[7]) \in Int
      /\ Distance(l[7], l[8]) \in Int
  BY <1>1, DistanceType, Zenon
<1> QED BY <1>2 DEF Variation

LEMMA InnerTapsMoveLittle ==
  ASSUME NEW l \in Lines, NEW v \in -128..127
  PROVE  MovesLittle(l, InnerTaps(l, v))
<1> DEFINE f == InnerTaps(l, v)
<1>1. /\ f \in Lines
      /\ \A i \in {1, 2, 3, 6, 7, 8} : f[i] = l[i]
      /\ \A i \in {4, 5} : Distance(f[i], l[i]) <= 27
  BY InnerTapsAre
<1> HIDE DEF f
<1>2. \A i \in {1, 2, 3, 6, 7, 8} : Distance(f[i], l[i]) <= 27
  <2>1. \A i \in 1..8 : l[i] \in Int
    BY DEF Lines
  <2> QED BY <1>1, <2>1 DEF Distance
<1>3. MovesLittle(l, f)
  BY <1>1, <1>2 DEF MovesLittle
<1> QED BY <1>3 DEF f

(* Three pixels moved on either side of the edge: the line grows rougher by  *)
(* no more than the differences of the moves, and nearer the edge as if      *)
(* nothing was cut off.                                                      *)
Moved(l, m2, m3, m4, n5, n6, n7) ==
  [ l EXCEPT ![2] = Plus(@, m2), ![3] = Plus(@, m3), ![4] = Plus(@, m4),
             ![5] = Plus(@, n5), ![6] = Plus(@, n6), ![7] = Plus(@, n7) ]

LEMMA MovedLine ==
  ASSUME NEW l \in Lines,
         NEW m2 \in -27..27, NEW m3 \in -27..27, NEW m4 \in -27..27,
         NEW n5 \in -27..27, NEW n6 \in -27..27, NEW n7 \in -27..27,
         NEW f, f = Moved(l, m2, m3, m4, n5, n6, n7)
  PROVE  /\ MovesLittle(l, f)
         /\ Distance(f[4], f[5]) <= Distance(l[4] + m4, l[5] + n5)
         /\ Variation(f) <= Distance(l[1], l[2]) + Distance(l[2], l[3])
              + Distance(l[3] + m3, l[4] + m4) + Distance(l[4] + m4, l[5] + n5)
              + Distance(l[5] + n5, l[6] + n6) + Distance(l[6], l[7]) + Distance(l[7], l[8])
              + Distance(m2, 0) + Distance(m2, m3) + Distance(n6, n7) + Distance(n7, 0)
<1> DEFINE p1 == l[1]
           p2 == l[2]
           p3 == l[3]
           p4 == l[4]
           p5 == l[5]
           p6 == l[6]
           p7 == l[7]
           p8 == l[8]
<1>1. /\ p1 \in 0..255 /\ p2 \in 0..255 /\ p3 \in 0..255 /\ p4 \in 0..255
      /\ p5 \in 0..255 /\ p6 \in 0..255 /\ p7 \in 0..255 /\ p8 \in 0..255
  BY DEF Lines
<1>2. /\ m2 \in Int /\ m3 \in Int /\ m4 \in Int /\ n5 \in Int /\ n6 \in Int /\ n7 \in Int
  OBVIOUS
<1>3. f = [ i \in 1..8 |-> f[i] ]
  BY DEF Lines, Moved
<1>4. /\ f[1] = p1 /\ f[8] = p8
      /\ f[2] = Plus(p2, m2) /\ f[3] = Plus(p3, m3) /\ f[4] = Plus(p4, m4)
      /\ f[5] = Plus(p5, n5) /\ f[6] = Plus(p6, n6) /\ f[7] = Plus(p7, n7)
  BY DEF Lines, Moved
<1>5. ASSUME NEW p \in 0..255, NEW m \in -27..27
      PROVE  Plus(p, m) \in 0..255 /\ Distance(Plus(p, m), p) <= 27
  <2>1. -27 <= m /\ m <= 27 /\ m \in Int
    OBVIOUS
  <2> QED BY <2>1, PlusBounded
<1> HIDE DEF p1, p2, p3, p4, p5, p6, p7, p8
<1>6. /\ f[1] \in 0..255 /\ f[8] \in 0..255
      /\ Distance(f[1], p1) <= 27 /\ Distance(f[8], p8) <= 27
  BY <1>1, <1>4 DEF Distance
<1>7. /\ f[2] \in 0..255 /\ Distance(f[2], p2) <= 27
      /\ f[3] \in 0..255 /\ Distance(f[3], p3) <= 27
      /\ f[4] \in 0..255 /\ Distance(f[4], p4) <= 27
  <2>1. Plus(p2, m2) \in 0..255 /\ Distance(Plus(p2, m2), p2) <= 27
    BY <1>1, <1>5, Zenon
  <2>2. Plus(p3, m3) \in 0..255 /\ Distance(Plus(p3, m3), p3) <= 27
    BY <1>1, <1>5, Zenon
  <2>3. Plus(p4, m4) \in 0..255 /\ Distance(Plus(p4, m4), p4) <= 27
    BY <1>1, <1>5, Zenon
  <2> QED BY <1>4, <2>1, <2>2, <2>3, Zenon
<1>8. /\ f[5] \in 0..255 /\ Distance(f[5], p5) <= 27
      /\ f[6] \in 0..255 /\ Distance(f[6], p6) <= 27
      /\ f[7] \in 0..255 /\ Distance(f[7], p7) <= 27
  <2>1. Plus(p5, n5) \in 0..255 /\ Distance(Plus(p5, n5), p5) <= 27
    BY <1>1, <1>5, Zenon
  <2>2. Plus(p6, n6) \in 0..255 /\ Distance(Plus(p6, n6), p6) <= 27
    BY <1>1, <1>5, Zenon
  <2>3. Plus(p7, n7) \in 0..255 /\ Distance(Plus(p7, n7), p7) <= 27
    BY <1>1, <1>5, Zenon
  <2> QED BY <1>4, <2>1, <2>2, <2>3, Zenon
<1>9. MovesLittle(l, f)
  <2> DEFINE Fine(i) == f[i] \in 0..255 /\ Distance(f[i], l[i]) <= 27
  <2>1. /\ Fine(1) /\ Fine(2) /\ Fine(3) /\ Fine(4)
        /\ Fine(5) /\ Fine(6) /\ Fine(7) /\ Fine(8)
    BY <1>6, <1>7, <1>8, Zenon DEF p1, p2, p3, p4, p5, p6, p7, p8
  <2> HIDE DEF Fine
  <2>2. \A i \in 1..8 : Fine(i)
    BY <2>1
  <2>3. f \in Lines
    BY <1>3, <2>2 DEF Lines, Fine
  <2> QED BY <1>4, <2>2, <2>3 DEF MovesLittle, Fine, p1, p8
<1> DEFINE near == Distance(p4 + m4, p5 + n5)
           before == Distance(p3 + m3, p4 + m4)
           after == Distance(p5 + n5, p6 + n6)
<1>10. Distance(f[1], f[2]) <= Distance(p1, p2) + Distance(m2, 0)
  BY <1>1, <1>2, <1>4, MovedApart, ZenonT(30)
<1>11. Distance(f[2], f[3]) <= Distance(p2, p3) + Distance(m2, m3)
  BY <1>1, <1>2, <1>4, MovedApart
<1>12. Distance(f[3], f[4]) <= before
  BY <1>1, <1>2, <1>4, PlusApart
<1>13. Distance(f[4], f[5]) <= near
  BY <1>1, <1>2, <1>4, PlusApart
<1>14. Distance(f[5], f[6]) <= after
  BY <1>1, <1>2, <1>4, PlusApart
<1>15. Distance(f[6], f[7]) <= Distance(p6, p7) + Distance(n6, n7)
  BY <1>1, <1>2, <1>4, MovedApart
<1>16. Distance(f[7], f[8]) <= Distance(p7, p8) + Distance(n7, 0)
  BY <1>1, <1>2, <1>4, MovedApart
<1>17. /\ Distance(f[1], f[2]) \in Int /\ Distance(f[2], f[3]) \in Int
       /\ Distance(f[3], f[4]) \in Int /\ Distance(f[4], f[5]) \in Int
       /\ Distance(f[5], f[6]) \in Int /\ Distance(f[6], f[7]) \in Int
       /\ Distance(f[7], f[8]) \in Int
  <2>1. /\ f[1] \in Int /\ f[2] \in Int /\ f[3] \in Int /\ f[4] \in Int
        /\ f[5] \in Int /\ f[6] \in Int /\ f[7] \in Int /\ f[8] \in Int
    <3>1. \A n \in 0..255 : n \in Int
      OBVIOUS
    <3> QED BY <1>6, <1>7, <1>8, <3>1, ZenonT(30)
  <2> QED BY <2>1, DistanceType
<1>18. near \in Int /\ before \in Int /\ after \in Int
  <2>1. p3 + m3 \in Int /\ p4 + m4 \in Int /\ p5 + n5 \in Int /\ p6 + n6 \in Int
    BY <1>1
  <2> QED BY <2>1, DistanceType
<1>19. /\ Distance(p1, p2) \in Int /\ Distance(p2, p3) \in Int /\ Distance(p6, p7) \in Int
       /\ Distance(p7, p8) \in Int /\ Distance(m2, 0) \in Int /\ Distance(m2, m3) \in Int
       /\ Distance(n6, n7) \in Int /\ Distance(n7, 0) \in Int
  <2>1. /\ p1 \in Int /\ p2 \in Int /\ p3 \in Int /\ p6 \in Int /\ p7 \in Int
        /\ p8 \in Int /\ 0 \in Int
    BY <1>1
  <2> QED BY <1>2, <2>1, DistanceType
<1> DEFINE e1 == Distance(f[1], f[2])
           e2 == Distance(f[2], f[3])
           e3 == Distance(f[3], f[4])
           e4 == Distance(f[4], f[5])
           e5 == Distance(f[5], f[6])
           e6 == Distance(f[6], f[7])
           e7 == Distance(f[7], f[8])
<1> HIDE DEF near, before, after, e1, e2, e3, e4, e5, e6, e7
<1>20. Variation(f) <= Distance(p1, p2) + Distance(p2, p3) + before + near + after
              + Distance(p6, p7) + Distance(p7, p8)
              + Distance(m2, 0) + Distance(m2, m3) + Distance(n6, n7) + Distance(n7, 0)
  <2>1. /\ e1 \in Int /\ e2 \in Int /\ e3 \in Int /\ e4 \in Int /\ e5 \in Int
        /\ e6 \in Int /\ e7 \in Int
        /\ e1 <= Distance(p1, p2) + Distance(m2, 0) /\ e2 <= Distance(p2, p3) + Distance(m2, m3)
        /\ e3 <= before /\ e4 <= near /\ e5 <= after
        /\ e6 <= Distance(p6, p7) + Distance(n6, n7) /\ e7 <= Distance(p7, p8) + Distance(n7, 0)
    BY <1>10, <1>11, <1>12, <1>13, <1>14, <1>15, <1>16, <1>17, Zenon
    DEF e1, e2, e3, e4, e5, e6, e7
  <2>2. Variation(f) = e1 + e2 + e3 + e4 + e5 + e6 + e7
    BY Zenon DEF Variation, e1, e2, e3, e4, e5, e6, e7
  <2> QED BY <1>18, <1>19, <2>1, <2>2
<1> QED BY <1>9, <1>13, <1>20 DEF near, before, after, p1, p2, p3, p4, p5, p6, p7, p8

(* The strong filter, at the edge of a macroblock.                           *)
LEMMA MacroblockFilter ==
  ASSUME NEW l \in Lines, NEW hev \in BOOLEAN,
         ~ hev => Distance(l[3], l[4]) <= 3 /\ Distance(l[6], l[5]) <= 3
  PROVE  LET f == vp8_mbfilter(hev, l)
         IN /\ MovesLittle(l, f)
            /\ hev => \A i \in {1, 2, 3, 6, 7, 8} : f[i] = l[i]
            /\ ~ hev => Smooths(l, f, 2)
<1> DEFINE v == Step3(l, TRUE)
           g == vp8_mbfilter(hev, l)
<1>1. v \in -128..127
  BY StepType
<1>2. CASE hev
  <2>1. g = InnerTaps(l, v)
    BY <1>2 DEF vp8_mbfilter
  <2>2. MovesLittle(l, InnerTaps(l, v))
    BY <1>1, InnerTapsMoveLittle
  <2>3. \A i \in {1, 2, 3, 6, 7, 8} : InnerTaps(l, v)[i] = l[i]
    BY <1>1, InnerTapsAre
  <2> QED BY <1>2, <2>1, <2>2, <2>3
<1>3. CASE ~ hev
  <2> DEFINE s == Share(v, 1)
             a == Share(v, 2)
             b == Share(v, 3)
             p3 == l[3]
             p4 == l[4]
             p5 == l[5]
             p6 == l[6]
             d == p5 - p4
             u == p3 - p4
             w == p5 - p6
  <2>1. g = Moved(l, s, a, b, -b, -a, -s)
    BY <1>3 DEF vp8_mbfilter, Moved, Share
  <2>2. s \in -27..27 /\ a \in -27..27 /\ b \in -27..27
    <3>1. \A k \in 1..3 : Share(v, k) \in -27..27
      BY <1>1, Shares
    <3>2. 1 \in 1..3 /\ 2 \in 1..3 /\ 3 \in 1..3
      OBVIOUS
    <3> QED BY <3>1, <3>2, Zenon
  <2>3. (0 <= s /\ s <= a /\ a <= b) \/ (b <= a /\ a <= s /\ s <= 0)
    BY <1>1, Shares
  <2>4. p3 \in 0..255 /\ p4 \in 0..255 /\ p5 \in 0..255 /\ p6 \in 0..255
    BY DEF Lines
  <2>5. v = vp8_signed_char_clamp(vp8_signed_char_clamp((u + w) - d) + 3 * d)
    <3>1. p3 - p6 = (u + w) - d
      <4> HIDE DEF p3, p4, p5, p6
      <4> QED BY <2>4
    <3> QED BY <3>1 DEF Step3
  <2> HIDE DEF v, s, a, b, p3, p4, p5, p6, g
  <2>6. -b \in -27..27 /\ -a \in -27..27 /\ -s \in -27..27
    BY <2>2
  <2>7. /\ MovesLittle(l, g)
        /\ Distance(g[4], g[5]) <= Distance(p4 + b, p5 + (-b))
        /\ Variation(g) <= Distance(l[1], l[2]) + Distance(l[2], p3)
              + Distance(p3 + a, p4 + b) + Distance(p4 + b, p5 + (-b))
              + Distance(p5 + (-b), p6 + (-a)) + Distance(p6, l[7]) + Distance(l[7], l[8])
              + Distance(s, 0) + Distance(s, a) + Distance(-a, -s) + Distance(-s, 0)
    BY <2>1, <2>2, <2>6, MovedLine DEF p3, p4, p5, p6
  <2>8. d \in -255..255 /\ u \in -3..3 /\ w \in -3..3
    <3>1. Distance(p3, p4) <= 3 /\ Distance(p6, p5) <= 3
      BY <1>3 DEF p3, p4, p5, p6
    <3> QED BY <2>4, <3>1 DEF Distance
  <2>9. /\ Distance(d, 2 * b) <= Distance(d, 0) + 2
        /\ Distance(d, 2 * b) + Distance(u + a, b) + Distance(w + a, b) + 2 * Distance(a, 0)
             <= Distance(d, 0) + Distance(u, 0) + Distance(w, 0) + 4
    <3> HIDE DEF d, u, w
    <3> QED BY <2>5, <2>8, MacroblockStep DEF a, b
  <2>10. /\ Distance(p4 + b, p5 + (-b)) = Distance(d, 2 * b)
         /\ Distance(p3 + a, p4 + b) = Distance(u + a, b)
         /\ Distance(p5 + (-b), p6 + (-a)) = Distance(w + a, b)
         /\ Distance(s, 0) + Distance(s, a) = Distance(a, 0)
         /\ Distance(-a, -s) + Distance(-s, 0) = Distance(a, 0)
    BY <2>2, <2>3, <2>4 DEF Distance
  <2>11. /\ Distance(p4, p5) = Distance(d, 0) /\ Distance(p3, p4) = Distance(u, 0)
         /\ Distance(p5, p6) = Distance(w, 0)
    BY <2>4 DEF Distance
  <2> DEFINE outer == Distance(l[1], l[2]) + Distance(l[2], p3) + Distance(p6, l[7])
                      + Distance(l[7], l[8])
  <2>12. /\ Distance(p3, p4) \in Int /\ Distance(p4, p5) \in Int
         /\ Distance(p5, p6) \in Int
         /\ Distance(l[1], l[2]) \in Int /\ Distance(l[2], p3) \in Int
         /\ Distance(p6, l[7]) \in Int /\ Distance(l[7], l[8]) \in Int
    <3>1. /\ l[1] \in Int /\ l[2] \in Int /\ l[7] \in Int /\ l[8] \in Int
          /\ p3 \in Int /\ p4 \in Int /\ p5 \in Int /\ p6 \in Int
      BY <2>4 DEF Lines
    <3> QED BY <3>1, DistanceType, Zenon
  <2>13. /\ Distance(d, 2 * b) \in Int /\ Distance(u + a, b) \in Int
         /\ Distance(w + a, b) \in Int /\ Distance(a, 0) \in Int
         /\ Distance(d, 0) \in Int /\ Distance(u, 0) \in Int /\ Distance(w, 0) \in Int
         /\ Distance(s, 0) \in Int /\ Distance(s, a) \in Int
         /\ Distance(-a, -s) \in Int /\ Distance(-s, 0) \in Int
    <3>1. /\ d \in Int /\ 2 * b \in Int /\ u + a \in Int /\ w + a \in Int /\ b \in Int
          /\ a \in Int /\ s \in Int /\ u \in Int /\ w \in Int /\ -a \in Int /\ -s \in Int
          /\ 0 \in Int
      BY <2>2, <2>8
    <3> HIDE DEF d, u, w
    <3> QED BY <3>1, DistanceType, Zenon
  <2>18. outer \in Int
    BY <2>12
  <2>14. Variation(l) = outer + Distance(p3, p4) + Distance(p4, p5) + Distance(p5, p6)
    BY <2>12 DEF Variation, p3, p4, p5, p6
  <2>15. Variation(g) <= outer + Distance(d, 2 * b) + Distance(u + a, b) + Distance(w + a, b)
                         + 2 * Distance(a, 0)
    BY <2>7, <2>10, <2>12, <2>13
  <2> HIDE DEF outer, d, u, w
  <2>16. Variation(g) <= Variation(l) + 4
    <3>1. Variation(g) \in Int
      BY <2>7, VariationType DEF MovesLittle
    <3> QED BY <2>9, <2>11, <2>12, <2>13, <2>14, <2>15, <2>18, <3>1
  <2>17. Smooths(l, g, 2)
    <3>1. Distance(g[4], g[5]) <= Distance(p4, p5) + 2
      <4>1. g[4] \in Int /\ g[5] \in Int
        BY <2>7 DEF MovesLittle, Lines
      <4>2. Distance(g[4], g[5]) \in Int
        BY <4>1, DistanceType, Zenon
      <4> QED BY <2>7, <2>9, <2>10, <2>11, <2>13, <4>2
    <3> QED BY <2>16, <3>1 DEF Smooths, p4, p5
  <2> QED BY <1>3, <2>7, <2>17 DEF g
<1> QED BY <1>2, <1>3

(* The weaker one, inside a macroblock.                                      *)
LEMMA SubblockFilter ==
  ASSUME NEW l \in Lines, NEW hev \in BOOLEAN
  PROVE  LET f == vp8_filter(hev, l)
         IN /\ MovesLittle(l, f)
            /\ hev => \A i \in {1, 2, 3, 6, 7, 8} : f[i] = l[i]
            /\ ~ hev => Smooths(l, f, 0)
<1> DEFINE v == Step3(l, hev)
           g == vp8_filter(hev, l)
<1>1. v \in -128..127
  BY StepType
<1>2. CASE hev
  <2>1. g = InnerTaps(l, v)
    BY <1>2 DEF vp8_filter
  <2>2. MovesLittle(l, InnerTaps(l, v))
    BY <1>1, InnerTapsMoveLittle
  <2>3. \A i \in {1, 2, 3, 6, 7, 8} : InnerTaps(l, v)[i] = l[i]
    BY <1>1, InnerTapsAre
  <2> QED BY <1>2, <2>1, <2>2, <2>3
<1>3. CASE ~ hev
  <2> DEFINE b == vp8_signed_char_clamp(v + 3) \div 8
             c == vp8_signed_char_clamp(v + 4) \div 8
             o == (c + 1) \div 2
             p3 == l[3]
             p4 == l[4]
             p5 == l[5]
             p6 == l[6]
             d == p5 - p4
             u == p3 - p4
             w == p5 - p6
  <2>1. p3 \in 0..255 /\ p4 \in 0..255 /\ p5 \in 0..255 /\ p6 \in 0..255
    BY DEF Lines
  <2>2. b \in -27..27 /\ c \in -27..27 /\ o \in -27..27
    <3> HIDE DEF v
    <3> QED BY <1>1 DEF vp8_signed_char_clamp
  <2>3. v = vp8_signed_char_clamp(3 * d)
    <3>1. 0 + 3 * d = 3 * d
      <4> HIDE DEF p3, p4, p5, p6
      <4> QED BY <2>1
    <3> QED BY <1>3, <3>1 DEF Step3
  <2>4. g = Moved(l, 0, o, b, -c, -o, 0)
    <3>1. g = [ InnerTaps(l, v) EXCEPT ![3] = Plus(@, o), ![6] = Plus(@, -o) ]
      BY <1>3 DEF vp8_filter
    <3>2. InnerTaps(l, v) = [ l EXCEPT ![4] = Plus(@, b), ![5] = Plus(@, -c) ]
      BY DEF InnerTaps
    <3> HIDE DEF v, b, c, o, g
    <3>3. Plus(l[2], 0) = l[2] /\ Plus(l[7], 0) = l[7]
      <4>1. l[2] \in 0..255 /\ l[7] \in 0..255
        BY DEF Lines
      <4>2. \A p \in 0..255 : Plus(p, 0) = p
        BY PlusIs
      <4> QED BY <4>1, <4>2, Zenon
    <3> DEFINE h == InnerTaps(l, v)
               m == Moved(l, 0, o, b, -c, -o, 0)
    <3>4. /\ h[3] = l[3] /\ h[6] = l[6]
          /\ h = [ l EXCEPT ![4] = Plus(l[4], b), ![5] = Plus(l[5], -c) ]
      BY <3>2 DEF Lines
    <3>5. g = [ h EXCEPT ![3] = Plus(l[3], o), ![6] = Plus(l[6], -o) ]
      BY <3>1, <3>4
    <3>6. m = [ l EXCEPT ![2] = l[2], ![3] = Plus(l[3], o), ![4] = Plus(l[4], b),
                         ![5] = Plus(l[5], -c), ![6] = Plus(l[6], -o), ![7] = l[7] ]
      BY <3>3 DEF Moved, Lines
    <3> HIDE DEF h, m
    <3>7. /\ g = [ i \in 1..8 |-> g[i] ] /\ m = [ i \in 1..8 |-> m[i] ]
      BY <3>4, <3>5, <3>6 DEF Lines
    <3>8. \A i \in 1..8 : g[i] = m[i]
      BY <3>4, <3>5, <3>6 DEF Lines
    <3>9. g = m
      BY <3>7, <3>8
    <3> QED BY <3>9 DEF m
  <2>5. 0 \in -27..27 /\ -c \in -27..27 /\ -o \in -27..27
    <3> HIDE DEF c, o
    <3> QED BY <2>2
  <2> HIDE DEF v, b, c, o, p3, p4, p5, p6, g
  <2>6. /\ MovesLittle(l, g)
        /\ Distance(g[4], g[5]) <= Distance(p4 + b, p5 + (-c))
        /\ Variation(g) <= Distance(l[1], l[2]) + Distance(l[2], p3)
              + Distance(p3 + o, p4 + b) + Distance(p4 + b, p5 + (-c))
              + Distance(p5 + (-c), p6 + (-o)) + Distance(p6, l[7]) + Distance(l[7], l[8])
              + Distance(0, 0) + Distance(0, o) + Distance(-o, 0) + Distance(0, 0)
    BY <2>2, <2>4, <2>5, MovedLine, ZenonT(30) DEF p3, p4, p5, p6
  <2>7. d \in -255..255
    BY <2>1
  <2>8. /\ Distance(d, b + c) <= Distance(d, 0)
        /\ Distance(d, b + c) + Distance(b, o) + Distance(c, o) + 2 * Distance(o, 0)
             <= Distance(d, 0)
    <3> HIDE DEF d
    <3> QED BY <2>3, <2>7, SubblockStep DEF b, c, o
  <2>9. /\ Distance(p4 + b, p5 + (-c)) = Distance(d, b + c)
        /\ Distance(p3 + o, p4 + b) <= Distance(u, 0) + Distance(b, o)
        /\ Distance(p5 + (-c), p6 + (-o)) <= Distance(w, 0) + Distance(c, o)
        /\ Distance(0, 0) = 0
        /\ Distance(0, o) = Distance(o, 0) /\ Distance(-o, 0) = Distance(o, 0)
    BY <2>1, <2>2 DEF Distance
  <2>10. /\ Distance(p4, p5) = Distance(d, 0) /\ Distance(p3, p4) = Distance(u, 0)
         /\ Distance(p5, p6) = Distance(w, 0)
    BY <2>1 DEF Distance
  <2> DEFINE outer == Distance(l[1], l[2]) + Distance(l[2], p3) + Distance(p6, l[7])
                      + Distance(l[7], l[8])
  <2>11. /\ Distance(p3, p4) \in Int /\ Distance(p4, p5) \in Int
         /\ Distance(p5, p6) \in Int
         /\ Distance(l[1], l[2]) \in Int /\ Distance(l[2], p3) \in Int
         /\ Distance(p6, l[7]) \in Int /\ Distance(l[7], l[8]) \in Int
    <3>1. /\ l[1] \in Int /\ l[2] \in Int /\ l[7] \in Int /\ l[8] \in Int
          /\ p3 \in Int /\ p4 \in Int /\ p5 \in Int /\ p6 \in Int
      BY <2>1 DEF Lines
    <3> QED BY <3>1, DistanceType, Zenon
  <2>12. /\ Distance(d, b + c) \in Int /\ Distance(b, o) \in Int /\ Distance(c, o) \in Int
         /\ Distance(d, 0) \in Int /\ Distance(u, 0) \in Int /\ Distance(w, 0) \in Int
         /\ Distance(o, 0) \in Int
         /\ Distance(p3 + o, p4 + b) \in Int /\ Distance(p5 + (-c), p6 + (-o)) \in Int
    <3>1. /\ d \in Int /\ b + c \in Int /\ b \in Int /\ c \in Int /\ o \in Int
          /\ u \in Int /\ w \in Int /\ 0 \in Int
          /\ p3 + o \in Int /\ p4 + b \in Int /\ p5 + (-c) \in Int /\ p6 + (-o) \in Int
      BY <2>1, <2>2
    <3> HIDE DEF d, u, w
    <3> QED BY <3>1, DistanceType, Zenon
  <2>13. outer \in Int
    BY <2>11
  <2>14. Variation(l) = outer + Distance(p3, p4) + Distance(p4, p5) + Distance(p5, p6)
    BY <2>11 DEF Variation, p3, p4, p5, p6
  <2>15. /\ Variation(g) \in Int /\ Distance(g[4], g[5]) \in Int
    <3>1. g[4] \in Int /\ g[5] \in Int
      BY <2>6 DEF MovesLittle, Lines
    <3>2. Distance(g[4], g[5]) \in Int
      BY <3>1, DistanceType, Zenon
    <3> QED BY <2>6, <3>2, VariationType DEF MovesLittle
  <2>16. Variation(g) <= outer + Distance(p3 + o, p4 + b) + Distance(d, b + c)
                         + Distance(p5 + (-c), p6 + (-o)) + 2 * Distance(o, 0)
    BY <2>6, <2>9, <2>11, <2>12, <2>15
  <2> HIDE DEF outer, d, u, w
  <2>17. Variation(g) <= Variation(l)
    BY <2>8, <2>9, <2>10, <2>11, <2>12, <2>13, <2>14, <2>15, <2>16
  <2>18. Distance(g[4], g[5]) <= Distance(p4, p5)
    BY <2>6, <2>8, <2>9, <2>10, <2>12, <2>15
  <2>19. Smooths(l, g, 0)
    <3>1. Variation(l) \in Int /\ Distance(p4, p5) \in Int
      BY <2>11, VariationType
    <3> QED BY <2>17, <2>18, <3>1 DEF Smooths, p4, p5
  <2> QED BY <1>3, <2>6, <2>19 DEF g
<1> QED BY <1>2, <1>3

(* Every limit of a macroblock that is filtered fits its byte.               *)
LEMMA LimitsFit ==
  ASSUME NEW frame, NEW mb, Filters(frame, mb),
         frame.sharpness \in 0..7, filter_level(frame, mb) \in Int
  PROVE  LET limits == Limits(frame, mb)
         IN /\ limits.macroblock \in 3..255 /\ limits.interior \in 1..63
            /\ limits.hev \in 0..3
<1> DEFINE level == clamp63(filter_level(frame, mb))
           sharpness == frame.sharpness
           interior == interior_limit(level, sharpness)
<1>1. level \in 1..63
  BY DEF Filters, clamp63
<1> HIDE DEF level
<1>2. interior \in 1..63
  BY <1>1 DEF interior_limit
<1>3. hev_threshold(level, frame.key) \in 0..3
  BY <1>1 DEF hev_threshold
<1> HIDE DEF interior, sharpness
<1>4. (level + 2) * 2 + interior \in 3..255
  BY <1>1, <1>2
<1> QED BY <1>2, <1>3, <1>4 DEF Limits, level, interior, sharpness

LEMMA LineSmoothed ==
  ASSUME NEW frame, NEW mb, Filters(frame, mb),
         frame.sharpness \in 0..7, filter_level(frame, mb) \in Int,
         NEW offset, NEW l \in Lines
  PROVE  SmoothsLine(frame, mb, offset, l)
<1> DEFINE limits == Limits(frame, mb)
           hev == vp8_hevmask(limits.hev, l)
           f == FilteredLine(limits, offset, l)
           masked == vp8_filter_mask(limits.interior,
                                     IF offset = 0 THEN limits.macroblock
                                                   ELSE limits.subblock, l)
           grace == IF offset = 0 THEN 2 ELSE 0
<1>1. /\ limits.macroblock \in 3..255 /\ limits.interior \in 1..63
      /\ limits.hev \in 0..3
  BY LimitsFit
<1> HIDE DEF limits
<1>2. \A i \in 1..8 : l[i] \in Int
  BY DEF Lines
<1>3. hev \in BOOLEAN
  BY DEF vp8_hevmask
<1>4. ~ hev => Distance(l[3], l[4]) <= 3 /\ Distance(l[6], l[5]) <= 3
  <2>1. Distance(l[3], l[4]) \in Int /\ Distance(l[6], l[5]) \in Int
    <3>1. l[3] \in Int /\ l[4] \in Int /\ l[5] \in Int /\ l[6] \in Int
      BY <1>2
    <3> QED BY <3>1, DistanceType, Zenon
  <2> QED BY <1>1, <2>1 DEF vp8_hevmask
<1> HIDE DEF hev
<1>5. /\ MovesLittle(l, f)
      /\ ~ masked => f = l
      /\ hev => \A i \in {1, 2, 3, 6, 7, 8} : f[i] = l[i]
      /\ ~ hev => Smooths(l, f, grace)
  <2>1. CASE ~ masked
    <3>1. f = l
      BY <2>1 DEF FilteredLine, filter_mb, filter_sb
    <3>2. MovesLittle(l, l)
      BY <1>2 DEF MovesLittle, Distance
    <3>3. Distance(l[4], l[5]) \in Int /\ Variation(l) \in Int
      <4>1. l[4] \in Int /\ l[5] \in Int
        BY <1>2
      <4> QED BY <4>1, DistanceType, VariationType, Zenon
    <3>4. Smooths(l, l, grace)
      BY <3>3 DEF Smooths
    <3> QED BY <2>1, <3>1, <3>2, <3>4
  <2>2. CASE masked /\ offset = 0
    <3>1. f = vp8_mbfilter(hev, l) /\ grace = 2
      BY <2>2 DEF FilteredLine, filter_mb, hev
    <3> QED BY <1>3, <1>4, <2>2, <3>1, MacroblockFilter
  <2>3. CASE masked /\ offset # 0
    <3>1. f = vp8_filter(hev, l) /\ grace = 0
      BY <2>3 DEF FilteredLine, filter_sb, hev
    <3> QED BY <1>3, <2>3, <3>1, SubblockFilter
  <2> QED BY <2>1, <2>2, <2>3
<1>6. \A i \in 1..8 : f[i] \in 0..255
  BY <1>5 DEF MovesLittle, Lines
<1> HIDE DEF f, masked, grace
<1>7. /\ \A i \in 1..8 : f[i] \in 0..255 /\ Distance(f[i], l[i]) <= 27
      /\ f[1] = l[1] /\ f[8] = l[8]
  BY <1>5, <1>6 DEF MovesLittle
<1> QED BY <1>1, <1>5, <1>7, Zenon
        DEF SmoothsLine, Smooths, limits, f, masked, grace, hev


-----------------------------------------------------------------------------
(* A residue on its way: what each transform makes of a line of four,        *)
(* against its exact value. Bounds are stated of scaled numbers, so that     *)
(* they stay whole.                                                          *)
(* Floor of a quotient.                                                      *)
IsFloor(q, n, d) == q \in Int /\ d * q <= n /\ n < d * q + d

LEMMA Floor65536 ==
  ASSUME NEW n \in Int
  PROVE  IsFloor(n \div 65536, n, 65536)
BY SMT DEF IsFloor

LEMMA Floor4096 ==
  ASSUME NEW n \in Int
  PROVE  IsFloor(n \div 4096, n, 4096)
BY SMT DEF IsFloor

LEMMA Floor16 ==
  ASSUME NEW n \in Int
  PROVE  IsFloor(n \div 16, n, 16)
BY SMT DEF IsFloor

LEMMA Floor8 ==
  ASSUME NEW n \in Int
  PROVE  IsFloor(n \div 8, n, 8)
BY SMT DEF IsFloor

LEMMA ModIs ==
  ASSUME NEW n \in Int, 0 <= n, n < 65536
  PROVE  n % 65536 = n
BY SMT

(* A whole number no farther than so much from 0, or from another.           *)
Small(n, bound) == n \in Int /\ -bound <= n /\ n <= bound

LEMMA Fits16 ==
  ASSUME NEW n, Small(n, 32767)
  PROVE  Int16(n) = n
<1>1. n + 32768 \in Int /\ 0 <= n + 32768 /\ n + 32768 < 65536
  BY SMT DEF Small
<1>2. (n + 32768) % 65536 = n + 32768
  BY <1>1, ModIs, SMT
<1> QED BY <1>2, SMT DEF Int16, Small

Within(n, m, bound) == n - m <= bound /\ m - n <= bound

(* A column of coefficients: 16 times their sums, or rotations in 65536ths,  *)
(* but for the rounding.                                                     *)
DctColumn(y1, y2, y3, y4, c) ==
  /\ Small(c[1], 2040) /\ Small(c[2], 2040) /\ Small(c[3], 2040) /\ Small(c[4], 2040)
  /\ Within(16 * c[1], y1 + y2 + y3 + y4, 8)
  /\ Within(16 * c[3], y1 - y2 - y3 + y4, 8)
  /\ Within(65536 * c[2], (y2 - y3) * 2217 + (y1 - y4) * 5352, 78000)
  /\ Within(65536 * c[4], (y1 - y4) * 2217 - (y2 - y3) * 5352, 51000)

LEMMA DctColumnIs ==
  ASSUME NEW y1, NEW y2, NEW y3, NEW y4,
         Small(y1, 8160), Small(y2, 8160), Small(y3, 8160), Small(y4, 8160)
  PROVE  DctColumn(y1, y2, y3, y4, dct_column(<< y1, y2, y3, y4 >>))
<1> DEFINE m1 == (y1 + y4) + (y2 + y3) + 7
           m2 == (y2 - y3) * 2217 + (y1 - y4) * 5352 + 12000
           m3 == ((y1 + y4) - (y2 + y3)) + 7
           m4 == (y1 - y4) * 2217 - (y2 - y3) * 5352 + 51000
           n1 == m1 \div 16
           n2 == (m2 \div 65536) + (IF (y1 - y4) # 0 THEN 1 ELSE 0)
           n3 == m3 \div 16
           n4 == m4 \div 65536
           c == dct_column(<< y1, y2, y3, y4 >>)
<1>1. c = << Int16(n1), Int16(n2), Int16(n3), Int16(n4) >>
  BY SMT DEF dct_column
<1>2. m1 \in Int /\ m2 \in Int /\ m3 \in Int /\ m4 \in Int
  BY SMT DEF Small
<1> HIDE DEF m1, m2, m3, m4
<1>3. IsFloor(n1, m1, 16)
  BY <1>2, Floor16, SMT
<1>4. IsFloor(n3, m3, 16)
  BY <1>2, Floor16, SMT
<1>5. IsFloor(n4, m4, 65536)
  BY <1>2, Floor65536, SMT
<1>6. n2 \in Int /\ 65536 * n2 <= m2 + 65536 /\ m2 < 65536 * n2 + 65536
  <2> DEFINE q == m2 \div 65536
  <2>1. IsFloor(q, m2, 65536)
    BY <1>2, Floor65536, SMT
  <2>2. n2 = q \/ n2 = q + 1
    BY <2>1, SMT DEF IsFloor
  <2> HIDE DEF q, n2
  <2> QED BY <1>2, <2>1, <2>2, SMT DEF IsFloor
<1> HIDE DEF n1, n2, n3, n4, c
<1>7. Small(n1, 2040) /\ Within(16 * n1, y1 + y2 + y3 + y4, 8)
  BY <1>3, SMT DEF IsFloor, m1, Small, Within
<1>8. Small(n2, 2040)
      /\ Within(65536 * n2, (y2 - y3) * 2217 + (y1 - y4) * 5352, 78000)
  BY <1>6, SMT DEF m2, Small, Within
<1>9. Small(n3, 2040) /\ Within(16 * n3, y1 - y2 - y3 + y4, 8)
  BY <1>4, SMT DEF IsFloor, m3, Small, Within
<1>10. Small(n4, 2040)
       /\ Within(65536 * n4, (y1 - y4) * 2217 - (y2 - y3) * 5352, 51000)
  BY <1>5, SMT DEF IsFloor, m4, Small, Within
<1>11. Small(n1, 32767) /\ Small(n2, 32767) /\ Small(n3, 32767) /\ Small(n4, 32767)
  BY <1>7, <1>8, <1>9, <1>10, SMT DEF Small
<1>12. Int16(n1) = n1 /\ Int16(n2) = n2 /\ Int16(n3) = n3 /\ Int16(n4) = n4
  BY <1>11, Fits16, SMT
<1>13. c[1] = n1 /\ c[2] = n2 /\ c[3] = n3 /\ c[4] = n4
  BY <1>1, <1>12, SMT
<1>14. DctColumn(y1, y2, y3, y4, c)
  BY <1>7, <1>8, <1>9, <1>10, <1>13, SMT DEF DctColumn
<1> QED BY <1>14 DEF c

(* A line of the inverse transform, in 65536ths, but for the rounding of its *)
(* four products.                                                            *)
Undct(w1, w2, w3, w4, z) ==
  /\ z[1] \in Int /\ z[2] \in Int /\ z[3] \in Int /\ z[4] \in Int
  /\ Within(65536 * z[1], 65536 * (w1 + w3) + (w2 * 85627 + w4 * 35468), 131072)
  /\ Within(65536 * z[2], 65536 * (w1 - w3) + (w2 * 35468 - w4 * 85627), 65536)
  /\ Within(65536 * z[3], 65536 * (w1 - w3) - (w2 * 35468 - w4 * 85627), 65536)
  /\ Within(65536 * z[4], 65536 * (w1 + w3) - (w2 * 85627 + w4 * 35468), 131072)

LEMMA UndctIs ==
  ASSUME NEW w1 \in Int, NEW w2 \in Int, NEW w3 \in Int, NEW w4 \in Int
  PROVE  Undct(w1, w2, w3, w4, undct_line(<< w1, w2, w3, w4 >>))
<1> DEFINE a == (w2 * 35468) \div 65536
           b == (w4 * 20091) \div 65536
           c == (w2 * 20091) \div 65536
           d == (w4 * 35468) \div 65536
           z == undct_line(<< w1, w2, w3, w4 >>)
<1>1. /\ w2 * 35468 \in Int /\ w4 * 20091 \in Int
      /\ w2 * 20091 \in Int /\ w4 * 35468 \in Int
  BY SMT
<1>2. /\ IsFloor(a, w2 * 35468, 65536) /\ IsFloor(b, w4 * 20091, 65536)
      /\ IsFloor(c, w2 * 20091, 65536) /\ IsFloor(d, w4 * 35468, 65536)
  BY <1>1, Floor65536, SMT
<1>3. z = << (w1 + w3) + ((c + w2) + d), (w1 - w3) + (a - (b + w4)),
             (w1 - w3) - (a - (b + w4)), (w1 + w3) - ((c + w2) + d) >>
  BY SMT DEF undct_line, MUL_20091, MUL_35468
<1> HIDE DEF a, b, c, d, z
<1>4. /\ z[1] = (w1 + w3) + ((c + w2) + d) /\ z[2] = (w1 - w3) + (a - (b + w4))
      /\ z[3] = (w1 - w3) - (a - (b + w4)) /\ z[4] = (w1 + w3) - ((c + w2) + d)
  BY <1>3, SMT
<1>5. z[1] \in Int /\ z[2] \in Int /\ z[3] \in Int /\ z[4] \in Int
  BY <1>2, <1>4, SMT DEF IsFloor
<1>6. Within(65536 * z[1], 65536 * (w1 + w3) + (w2 * 85627 + w4 * 35468), 131072)
  BY <1>2, <1>4, SMT DEF IsFloor, Within
<1>7. Within(65536 * z[2], 65536 * (w1 - w3) + (w2 * 35468 - w4 * 85627), 65536)
  BY <1>2, <1>4, SMT DEF IsFloor, Within
<1>8. Within(65536 * z[3], 65536 * (w1 - w3) - (w2 * 35468 - w4 * 85627), 65536)
  BY <1>2, <1>4, SMT DEF IsFloor, Within
<1>9. Within(65536 * z[4], 65536 * (w1 + w3) - (w2 * 85627 + w4 * 35468), 131072)
  BY <1>2, <1>4, SMT DEF IsFloor, Within
<1>10. Undct(w1, w2, w3, w4, z)
  BY <1>5, <1>6, <1>7, <1>8, <1>9, SMT DEF Undct
<1> QED BY <1>10 DEF z
Blocks == [ 1..16 -> Int ]
IsQuad(a) == a \in Seq(Int) /\ Len(a) = 4
QuadAt(s, k, a) == s[k + 1] = a[1] /\ s[k + 2] = a[2] /\ s[k + 3] = a[3] /\ s[k + 4] = a[4]
(* Four more numbers at the end of a sequence.                               *)
LEMMA Longer ==
  ASSUME NEW s \in Seq(Int), NEW b, IsQuad(b)
  PROVE  /\ s \o b \in Seq(Int) /\ Len(s \o b) = Len(s) + 4
         /\ \A i \in 1..Len(s) : (s \o b)[i] = s[i]
         /\ QuadAt(s \o b, Len(s), b)
<1>1. b \in Seq(Int) /\ Len(b) = 4
  BY DEF IsQuad
<1> DEFINE t == s \o b
<1>2. /\ t \in Seq(Int) /\ Len(t) = Len(s) + Len(b)
      /\ \A i \in 1 .. Len(s) + Len(b) : t[i] = IF i <= Len(s) THEN s[i] ELSE b[i - Len(s)]
  BY <1>1, ConcatProperties, Zenon
<1> HIDE DEF t
<1>3. Len(s) \in Nat
  BY LenProperties
<1>4. \A i \in 1..Len(s) : t[i] = s[i]
  BY <1>1, <1>2, <1>3, SMT
<1>5. QuadAt(t, Len(s), b)
  <2> DEFINE n == Len(s)
  <2>1. n \in Nat /\ \A i \in 1 .. n + 4 : t[i] = IF i <= n THEN s[i] ELSE b[i - n]
    BY <1>1, <1>2, <1>3
  <2> HIDE DEF n
  <2>2. \A j \in 1..4 : t[n + j] = b[j]
    <3> SUFFICES ASSUME NEW j \in 1..4 PROVE t[n + j] = b[j]
      OBVIOUS
    <3>1. n + j \in 1..(n + 4) /\ ~(n + j <= n) /\ (n + j) - n = j
      BY <2>1, SMT
    <3> QED BY <2>1, <3>1
  <2> QED BY <2>2, SMT DEF QuadAt, n
<1>6. t \in Seq(Int) /\ Len(t) = Len(s) + 4
  BY <1>1, <1>2
<1> QED BY <1>4, <1>5, <1>6 DEF t

InRows(s, a, b, c, d) ==
  s \in Blocks /\ QuadAt(s, 0, a) /\ QuadAt(s, 4, b) /\ QuadAt(s, 8, c) /\ QuadAt(s, 12, d)

LEMMA Joined ==
  ASSUME NEW a, NEW b, NEW c, NEW d, IsQuad(a), IsQuad(b), IsQuad(c), IsQuad(d)
  PROVE  InRows(a \o b \o c \o d, a, b, c, d)
<1> DEFINE t == a \o b
           u == t \o c
           s == u \o d
<1>0. a \in Seq(Int) /\ Len(a) = 4
  BY DEF IsQuad
<1>1. t \in Seq(Int) /\ Len(t) = 8 /\ (\A i \in 1..4 : t[i] = a[i]) /\ QuadAt(t, 4, b)
  <2>1. /\ t \in Seq(Int) /\ Len(t) = Len(a) + 4
        /\ \A i \in 1..Len(a) : t[i] = a[i]
        /\ QuadAt(t, Len(a), b)
    BY <1>0, Longer, Zenon
  <2> HIDE DEF t
  <2> QED BY <1>0, <2>1, SMT
<1> HIDE DEF t
<1>2. u \in Seq(Int) /\ Len(u) = 12 /\ (\A i \in 1..8 : u[i] = t[i]) /\ QuadAt(u, 8, c)
  <2>1. /\ u \in Seq(Int) /\ Len(u) = Len(t) + 4
        /\ \A i \in 1..Len(t) : u[i] = t[i]
        /\ QuadAt(u, Len(t), c)
    BY <1>1, Longer, Zenon
  <2> HIDE DEF u
  <2> QED BY <1>1, <2>1, SMT
<1> HIDE DEF u
<1>4. s \in Seq(Int) /\ Len(s) = 16 /\ (\A i \in 1..12 : s[i] = u[i]) /\ QuadAt(s, 12, d)
  <2>1. /\ s \in Seq(Int) /\ Len(s) = Len(u) + 4
        /\ \A i \in 1..Len(u) : s[i] = u[i]
        /\ QuadAt(s, Len(u), d)
    BY <1>2, Longer, Zenon
  <2>2. Len(u) = 12
    BY <1>2
  <2> HIDE DEF s
  <2> QED BY <2>1, <2>2, SMT
<1> HIDE DEF s
<1>5. QuadAt(s, 0, a)
  BY <1>1, <1>2, <1>4, SMT DEF QuadAt
<1>7. QuadAt(s, 4, b)
  <2>1. s[5] = u[5] /\ s[6] = u[6] /\ s[7] = u[7] /\ s[8] = u[8]
    BY <1>4, SMT
  <2>2. u[5] = t[5] /\ u[6] = t[6] /\ u[7] = t[7] /\ u[8] = t[8]
    BY <1>2, SMT
  <2> QED BY <1>1, <2>1, <2>2, SMT DEF QuadAt
<1>8. QuadAt(s, 8, c)
  <2>1. s[9] = u[9] /\ s[10] = u[10] /\ s[11] = u[11] /\ s[12] = u[12]
    BY <1>4, SMT
  <2> QED BY <1>2, <2>1, SMT DEF QuadAt
<1>6. s \in Blocks
  <2>1. s \in [ 1..Len(s) -> Int ]
    BY <1>4, LenProperties, Zenon
  <2>2. Len(s) = 16
    BY <1>4
  <2> QED BY <2>1, <2>2, Zenon DEF Blocks
<1> QED BY <1>4, <1>5, <1>6, <1>7, <1>8 DEF InRows, s, u, t

LEMMA SubIs ==
  ASSUME NEW v \in Blocks, NEW k \in 0..12
  PROVE  SubSeq(v, k + 1, k + 4) = << v[k + 1], v[k + 2], v[k + 3], v[k + 4] >>
<1> DEFINE s == SubSeq(v, k + 1, k + 4)
<1>1. k + 1 \in Int /\ k + 4 \in Int /\ \A i \in (k + 1)..(k + 4) : v[i] \in Int
  BY SMT DEF Blocks
<1>2. /\ s \in Seq(Int)
      /\ Len(s) = (IF k + 1 <= k + 4 THEN (k + 4) - (k + 1) + 1 ELSE 0)
      /\ \A i \in 1 .. (k + 4) - (k + 1) + 1 : s[i] = v[(k + 1) + i - 1]
  BY <1>1, SubSeqProperties, SMT
<1> HIDE DEF s
<1>3. Len(s) = 4 /\ s[1] = v[k + 1] /\ s[2] = v[k + 2] /\ s[3] = v[k + 3] /\ s[4] = v[k + 4]
  <2>1. k \in Int
    BY SMT
  <2>2. /\ (k + 4) - (k + 1) + 1 = 4 /\ k + 1 <= k + 4
        /\ (k + 1) + 1 - 1 = k + 1 /\ (k + 1) + 2 - 1 = k + 2
        /\ (k + 1) + 3 - 1 = k + 3 /\ (k + 1) + 4 - 1 = k + 4
    BY ONLY <2>1, SMT
  <2>3. Len(s) = 4 /\ \A i \in 1..4 : s[i] = v[(k + 1) + i - 1]
    BY <1>2, <2>2
  <2>4. 1 \in 1..4 /\ 2 \in 1..4 /\ 3 \in 1..4 /\ 4 \in 1..4
    BY SMT
  <2> QED BY ONLY <2>2, <2>3, <2>4, Zenon
<1>4. s = << s[1], s[2], s[3], s[4] >>
  BY <1>2, <1>3, SMT
<1> QED BY <1>3, <1>4 DEF s

(* A row of coefficients, as DctColumn, in 8ths and 4096ths.                 *)
DctRow(x1, x2, x3, x4, y) ==
  /\ Small(y[1], 8160) /\ Small(y[2], 8160) /\ Small(y[3], 8160) /\ Small(y[4], 8160)
  /\ y[1] = 8 * (x1 + x2 + x3 + x4)
  /\ y[3] = 8 * (x1 - x2 - x3 + x4)
  /\ Within(4096 * y[2], 8 * ((x2 - x3) * 2217 + (x1 - x4) * 5352), 14500)
  /\ Within(4096 * y[4], 8 * ((x1 - x4) * 2217 - (x2 - x3) * 5352), 7500)

LEMMA DctRowIs ==
  ASSUME NEW x1, NEW x2, NEW x3, NEW x4,
         Small(x1, 255), Small(x2, 255), Small(x3, 255), Small(x4, 255)
  PROVE  DctRow(x1, x2, x3, x4, dct_row(<< x1, x2, x3, x4 >>))
<1> DEFINE m2 == ((x2 - x3) * 8) * 2217 + ((x1 - x4) * 8) * 5352 + 14500
           m4 == ((x1 - x4) * 8) * 2217 - ((x2 - x3) * 8) * 5352 + 7500
           n1 == (x1 + x4) * 8 + (x2 + x3) * 8
           n2 == m2 \div 4096
           n3 == (x1 + x4) * 8 - (x2 + x3) * 8
           n4 == m4 \div 4096
           y == dct_row(<< x1, x2, x3, x4 >>)
<1>1. y = << Int16(n1), Int16(n2), Int16(n3), Int16(n4) >>
  BY SMT DEF dct_row
<1>2. m2 \in Int /\ m4 \in Int
  BY SMT DEF Small
<1>3. Small(n1, 8160) /\ Small(n3, 8160)
      /\ n1 = 8 * (x1 + x2 + x3 + x4) /\ n3 = 8 * (x1 - x2 - x3 + x4)
  BY SMT DEF Small
<1> HIDE DEF m2, m4
<1>4. IsFloor(n2, m2, 4096)
  BY <1>2, Floor4096, SMT
<1>5. IsFloor(n4, m4, 4096)
  BY <1>2, Floor4096, SMT
<1> HIDE DEF n1, n2, n3, n4, y
<1>6. Small(n2, 8160)
      /\ Within(4096 * n2, 8 * ((x2 - x3) * 2217 + (x1 - x4) * 5352), 14500)
  BY <1>4, SMT DEF IsFloor, m2, Small, Within
<1>7. Small(n4, 8160)
      /\ Within(4096 * n4, 8 * ((x1 - x4) * 2217 - (x2 - x3) * 5352), 7500)
  BY <1>5, SMT DEF IsFloor, m4, Small, Within
<1>8. Small(n1, 32767) /\ Small(n2, 32767) /\ Small(n3, 32767) /\ Small(n4, 32767)
  BY <1>3, <1>6, <1>7, SMT DEF Small
<1>9. Int16(n1) = n1 /\ Int16(n2) = n2 /\ Int16(n3) = n3 /\ Int16(n4) = n4
  BY <1>8, Fits16, SMT
<1>10. y[1] = n1 /\ y[2] = n2 /\ y[3] = n3 /\ y[4] = n4
  BY <1>1, <1>9, SMT
<1>11. DctRow(x1, x2, x3, x4, y)
  BY <1>3, <1>6, <1>7, <1>10, SMT DEF DctRow
<1> QED BY <1>11 DEF y

(* The levels of a line, with an error of D, of E in the first.              *)
Levels(w1, w2, w3, w4, c, E, D) ==
  /\ w1 \in Int /\ w2 \in Int /\ w3 \in Int /\ w4 \in Int
  /\ Within(w1, c[1], E) /\ Within(w2, c[2], D) /\ Within(w3, c[3], D) /\ Within(w4, c[4], D)

(* A line near a column of the first pass's numbers, in 20ths.               *)
Returned(y1, y2, y3, y4, z, bound) ==
  /\ Within(20 * z[1], 5 * y1, bound) /\ Within(20 * z[2], 5 * y2, bound)
  /\ Within(20 * z[3], 5 * y3, bound) /\ Within(20 * z[4], 5 * y4, bound)

LEMMA ColumnReturns ==
  ASSUME NEW y1, NEW y2, NEW y3, NEW y4, NEW c, NEW w1, NEW w2, NEW w3, NEW w4, NEW z,
         Small(y1, 8160), Small(y2, 8160), Small(y3, 8160), Small(y4, 8160),
         DctColumn(y1, y2, y3, y4, c), NEW E \in Nat, NEW D \in Nat,
         Levels(w1, w2, w3, w4, c, E, D), Undct(w1, w2, w3, w4, z)
  PROVE  Returned(y1, y2, y3, y4, z, 20 * E + 57 * D + 104)
<1> USE DEF Small, DctColumn, Levels, Undct, Within
<1>1. Within(20 * z[1], 5 * y1, 20 * E + 57 * D + 104)
  BY SMTT(30)
<1>2. Within(20 * z[2], 5 * y2, 20 * E + 57 * D + 104)
  BY SMTT(30)
<1>3. Within(20 * z[3], 5 * y3, 20 * E + 57 * D + 104)
  BY SMTT(30)
<1>4. Within(20 * z[4], 5 * y4, 20 * E + 57 * D + 104)
  BY SMTT(30)
<1> QED BY <1>1, <1>2, <1>3, <1>4, SMT DEF Returned

-----------------------------------------------------------------------------
(* Blocks, their lines, and a pass of a transform over all four lines.       *)
Spread(g) == << g[1], g[2], g[3], g[4], g[5], g[6], g[7], g[8],
                g[9], g[10], g[11], g[12], g[13], g[14], g[15], g[16] >>

LEMMA SpreadIs ==
  ASSUME NEW S, NEW g \in [ 1..16 -> S ]
  PROVE  Spread(g) = g
BY SMT DEF Spread

(* The offsets of a block's four lines, and the line at one.                 *)
Starts == { 0, 4, 8, 12 }
Line(v, k) == << v[k + 1], v[k + 2], v[k + 3], v[k + 4] >>

LEMMA LinesAre ==
  ASSUME NEW v \in Blocks
  PROVE  /\ SubSeq(v, 1, 4) = Line(v, 0) /\ SubSeq(v, 5, 8) = Line(v, 4)
         /\ SubSeq(v, 9, 12) = Line(v, 8) /\ SubSeq(v, 13, 16) = Line(v, 12)
<1>1. \A k \in 0..12 : SubSeq(v, k + 1, k + 4) = Line(v, k)
  BY SubIs, Zenon DEF Line
<1>2. /\ SubSeq(v, 0 + 1, 0 + 4) = Line(v, 0) /\ SubSeq(v, 4 + 1, 4 + 4) = Line(v, 4)
      /\ SubSeq(v, 8 + 1, 8 + 4) = Line(v, 8) /\ SubSeq(v, 12 + 1, 12 + 4) = Line(v, 12)
  BY <1>1, SMT
<1>3. /\ 0 + 1 = 1 /\ 0 + 4 = 4 /\ 4 + 1 = 5 /\ 4 + 4 = 8
      /\ 8 + 1 = 9 /\ 8 + 4 = 12 /\ 12 + 1 = 13 /\ 12 + 4 = 16
  BY SMT
<1> QED BY <1>2, <1>3, SMT

LEMMA LineOf ==
  ASSUME NEW s, NEW k, NEW a, IsQuad(a), QuadAt(s, k, a)
  PROVE  Line(s, k) = a
<1>1. a = << a[1], a[2], a[3], a[4] >>
  BY SMT DEF IsQuad
<1> QED BY <1>1, SMT DEF QuadAt, Line

Lined(s, a, b, c, d) ==
  s \in Blocks /\ Line(s, 0) = a /\ Line(s, 4) = b /\ Line(s, 8) = c /\ Line(s, 12) = d

LEMMA JoinedLines ==
  ASSUME NEW a, NEW b, NEW c, NEW d, IsQuad(a), IsQuad(b), IsQuad(c), IsQuad(d)
  PROVE  Lined(a \o b \o c \o d, a, b, c, d)
<1> DEFINE s == a \o b \o c \o d
<1>1. InRows(s, a, b, c, d)
  BY Joined, Zenon
<1> HIDE DEF s
<1>2. Line(s, 0) = a
  BY <1>1, LineOf, Zenon DEF InRows
<1>3. Line(s, 4) = b
  BY <1>1, LineOf, Zenon DEF InRows
<1>4. Line(s, 8) = c
  BY <1>1, LineOf, Zenon DEF InRows
<1>5. Line(s, 12) = d
  BY <1>1, LineOf, Zenon DEF InRows
<1>6. Lined(s, a, b, c, d)
  BY <1>1, <1>2, <1>3, <1>4, <1>5, Zenon DEF InRows, Lined
<1> QED BY <1>6 DEF s

LEMMA LineAt ==
  ASSUME NEW v, NEW k \in Starts
  PROVE  /\ Line(v, k)[1] = v[k + 1] /\ Line(v, k)[2] = v[k + 2]
         /\ Line(v, k)[3] = v[k + 3] /\ Line(v, k)[4] = v[k + 4]
BY SMT DEF Line

LEMMA Everywhere ==
  ASSUME NEW i \in 1..16
  PROVE  \E k \in Starts : i \in { k + 1, k + 2, k + 3, k + 4 }
BY SMT DEF Starts

LEMMA Int16Type == \A n \in Int : Int16(n) \in Int
BY SMT DEF Int16

LEMMA QuadIs ==
  ASSUME NEW a \in Int, NEW b \in Int, NEW c \in Int, NEW d \in Int
  PROVE  IsQuad(<< a, b, c, d >>)
BY SMT DEF IsQuad

(* What the inverse transforms do to a column, then to a row.                *)
KeptUndct(l) == LET out == undct_line(l)
                IN << Int16(out[1]), Int16(out[2]), Int16(out[3]), Int16(out[4]) >>
RoundedUndct(l) == LET out == undct_line(l)
                   IN << (out[1] + 4) \div 8, (out[2] + 4) \div 8,
                         (out[3] + 4) \div 8, (out[4] + 4) \div 8 >>
KeptUnwalsh(l) == LET out == unwalsh_line(l)
                  IN << Int16(out[1]), Int16(out[2]), Int16(out[3]), Int16(out[4]) >>
RoundedUnwalsh(l) == LET out == unwalsh_line(l)
                     IN << Int16((out[1] + 3) \div 8), Int16((out[2] + 3) \div 8),
                           Int16((out[3] + 3) \div 8), Int16((out[4] + 3) \div 8) >>

(* Each takes every line for a line of whole numbers.                        *)
LEMMA Int16Quad ==
  ASSUME NEW a \in Int, NEW b \in Int, NEW c \in Int, NEW d \in Int
  PROVE  IsQuad(<< Int16(a), Int16(b), Int16(c), Int16(d) >>)
<1>1. Int16(a) \in Int /\ Int16(b) \in Int /\ Int16(c) \in Int /\ Int16(d) \in Int
  BY Int16Type, Zenon
<1> QED BY <1>1, QuadIs, Zenon

LEMMA DctRowQuad ==
  ASSUME NEW l1 \in Int, NEW l2 \in Int, NEW l3 \in Int, NEW l4 \in Int
  PROVE  IsQuad(dct_row(<< l1, l2, l3, l4 >>))
<1> DEFINE m2 == ((l2 - l3) * 8) * 2217 + ((l1 - l4) * 8) * 5352 + 14500
           m4 == ((l1 - l4) * 8) * 2217 - ((l2 - l3) * 8) * 5352 + 7500
           n1 == (l1 + l4) * 8 + (l2 + l3) * 8
           n2 == m2 \div 4096
           n3 == (l1 + l4) * 8 - (l2 + l3) * 8
           n4 == m4 \div 4096
<1>1. dct_row(<< l1, l2, l3, l4 >>) = << Int16(n1), Int16(n2), Int16(n3), Int16(n4) >>
  BY SMT DEF dct_row
<1>2. m2 \in Int /\ m4 \in Int /\ n1 \in Int /\ n3 \in Int
  BY SMT
<1> HIDE DEF m2, m4
<1>3. n2 \in Int /\ n4 \in Int
  BY <1>2, SMT
<1> HIDE DEF n1, n2, n3, n4
<1>4. IsQuad(<< Int16(n1), Int16(n2), Int16(n3), Int16(n4) >>)
  BY <1>2, <1>3, Int16Quad, Zenon
<1> QED BY <1>1, <1>4, Zenon

LEMMA DctColumnQuad ==
  ASSUME NEW l1 \in Int, NEW l2 \in Int, NEW l3 \in Int, NEW l4 \in Int
  PROVE  IsQuad(dct_column(<< l1, l2, l3, l4 >>))
<1> DEFINE m1 == (l1 + l4) + (l2 + l3) + 7
           m2 == (l2 - l3) * 2217 + (l1 - l4) * 5352 + 12000
           m3 == ((l1 + l4) - (l2 + l3)) + 7
           m4 == (l1 - l4) * 2217 - (l2 - l3) * 5352 + 51000
           q == m2 \div 65536
           n1 == m1 \div 16
           n2 == q + (IF (l1 - l4) # 0 THEN 1 ELSE 0)
           n3 == m3 \div 16
           n4 == m4 \div 65536
<1>1. dct_column(<< l1, l2, l3, l4 >>) = << Int16(n1), Int16(n2), Int16(n3), Int16(n4) >>
  BY SMT DEF dct_column
<1>2. m1 \in Int /\ m2 \in Int /\ m3 \in Int /\ m4 \in Int
  BY SMT
<1> HIDE DEF m1, m2, m3, m4
<1>3. n1 \in Int /\ q \in Int /\ n3 \in Int /\ n4 \in Int
  BY <1>2, SMT
<1> HIDE DEF q
<1>4. n2 \in Int
  BY <1>3, SMT
<1> HIDE DEF n1, n2, n3, n4
<1>5. IsQuad(<< Int16(n1), Int16(n2), Int16(n3), Int16(n4) >>)
  BY <1>3, <1>4, Int16Quad, Zenon
<1> QED BY <1>1, <1>5, Zenon

LEMMA UndctType ==
  ASSUME NEW l1 \in Int, NEW l2 \in Int, NEW l3 \in Int, NEW l4 \in Int, NEW out,
         out = undct_line(<< l1, l2, l3, l4 >>)
  PROVE  out[1] \in Int /\ out[2] \in Int /\ out[3] \in Int /\ out[4] \in Int
<1>1. Undct(l1, l2, l3, l4, out)
  BY UndctIs, SMT
<1> QED BY <1>1, SMT DEF Undct

LEMMA KeptUndctQuad ==
  ASSUME NEW l1 \in Int, NEW l2 \in Int, NEW l3 \in Int, NEW l4 \in Int
  PROVE  IsQuad(KeptUndct(<< l1, l2, l3, l4 >>))
<1> DEFINE out == undct_line(<< l1, l2, l3, l4 >>)
<1>1. out[1] \in Int /\ out[2] \in Int /\ out[3] \in Int /\ out[4] \in Int
  <2>1. out = undct_line(<< l1, l2, l3, l4 >>)
    OBVIOUS
  <2> HIDE DEF out
  <2> QED BY <2>1, UndctType, SMT
<1> HIDE DEF out
<1>2. IsQuad(<< Int16(out[1]), Int16(out[2]), Int16(out[3]), Int16(out[4]) >>)
  BY <1>1, Int16Quad, Zenon
<1> QED BY <1>2 DEF KeptUndct, out

LEMMA RoundedUndctQuad ==
  ASSUME NEW l1 \in Int, NEW l2 \in Int, NEW l3 \in Int, NEW l4 \in Int
  PROVE  IsQuad(RoundedUndct(<< l1, l2, l3, l4 >>))
<1> DEFINE out == undct_line(<< l1, l2, l3, l4 >>)
<1>1. out[1] \in Int /\ out[2] \in Int /\ out[3] \in Int /\ out[4] \in Int
  <2>1. out = undct_line(<< l1, l2, l3, l4 >>)
    OBVIOUS
  <2> HIDE DEF out
  <2> QED BY <2>1, UndctType, SMT
<1> HIDE DEF out
<1>2. /\ out[1] + 4 \in Int /\ out[2] + 4 \in Int
      /\ out[3] + 4 \in Int /\ out[4] + 4 \in Int
  BY <1>1, SMT
<1>3. /\ (out[1] + 4) \div 8 \in Int /\ (out[2] + 4) \div 8 \in Int
      /\ (out[3] + 4) \div 8 \in Int /\ (out[4] + 4) \div 8 \in Int
  BY <1>2, SMT
<1>4. IsQuad(<< (out[1] + 4) \div 8, (out[2] + 4) \div 8,
                (out[3] + 4) \div 8, (out[4] + 4) \div 8 >>)
  BY <1>3, QuadIs, Zenon
<1> QED BY <1>4 DEF RoundedUndct, out

LEMMA WalshRowQuad ==
  ASSUME NEW l1 \in Int, NEW l2 \in Int, NEW l3 \in Int, NEW l4 \in Int
  PROVE  IsQuad(walsh_row(<< l1, l2, l3, l4 >>))
<1> DEFINE n1 == (l1 + l3) * 4 + (l2 + l4) * 4 + (IF (l1 + l3) * 4 # 0 THEN 1 ELSE 0)
           n2 == (l1 - l3) * 4 + (l2 - l4) * 4
           n3 == (l1 - l3) * 4 - (l2 - l4) * 4
           n4 == (l1 + l3) * 4 - (l2 + l4) * 4
<1>1. walsh_row(<< l1, l2, l3, l4 >>) = << Int16(n1), Int16(n2), Int16(n3), Int16(n4) >>
  BY SMT DEF walsh_row
<1>2. n1 \in Int /\ n2 \in Int /\ n3 \in Int /\ n4 \in Int
  BY SMT
<1> HIDE DEF n1, n2, n3, n4
<1>3. IsQuad(<< Int16(n1), Int16(n2), Int16(n3), Int16(n4) >>)
  BY <1>2, Int16Quad, Zenon
<1> QED BY <1>1, <1>3, Zenon

Eighth(n) == ((IF n < 0 THEN n + 1 ELSE n) + 3) \div 8

LEMMA EighthIs ==
  ASSUME NEW n \in Int
  PROVE  Eighth(n) \in Int /\ Within(8 * Eighth(n), n, 4)
<1> DEFINE m == (IF n < 0 THEN n + 1 ELSE n) + 3
<1>1. m \in Int /\ n + 3 <= m /\ m <= n + 4 /\ (n >= 0 => m = n + 3) /\ (n < 0 => m = n + 4)
  BY SMT
<1> HIDE DEF m
<1>2. IsFloor(m \div 8, m, 8)
  BY <1>1, Floor8, Zenon
<1>3. (m \div 8) \in Int /\ Within(8 * (m \div 8), n, 4)
  BY <1>1, <1>2, SMT DEF IsFloor, Within
<1> QED BY <1>3 DEF Eighth, m

LEMMA WalshColumnQuad ==
  ASSUME NEW l1 \in Int, NEW l2 \in Int, NEW l3 \in Int, NEW l4 \in Int
  PROVE  IsQuad(walsh_column(<< l1, l2, l3, l4 >>))
<1> DEFINE n1 == Eighth((l1 + l3) + (l2 + l4))
           n2 == Eighth((l1 - l3) + (l2 - l4))
           n3 == Eighth((l1 - l3) - (l2 - l4))
           n4 == Eighth((l1 + l3) - (l2 + l4))
<1>1. walsh_column(<< l1, l2, l3, l4 >>) = << Int16(n1), Int16(n2), Int16(n3), Int16(n4) >>
  BY SMT DEF walsh_column, Eighth
<1>2. /\ (l1 + l3) + (l2 + l4) \in Int /\ (l1 - l3) + (l2 - l4) \in Int
      /\ (l1 - l3) - (l2 - l4) \in Int /\ (l1 + l3) - (l2 + l4) \in Int
  BY SMT
<1>3. n1 \in Int /\ n2 \in Int /\ n3 \in Int /\ n4 \in Int
  BY <1>2, EighthIs, Zenon
<1> HIDE DEF n1, n2, n3, n4
<1>4. IsQuad(<< Int16(n1), Int16(n2), Int16(n3), Int16(n4) >>)
  BY <1>3, Int16Quad, Zenon
<1> QED BY <1>1, <1>4, Zenon

LEMMA UnwalshIs ==
  ASSUME NEW l1 \in Int, NEW l2 \in Int, NEW l3 \in Int, NEW l4 \in Int, NEW out,
         out = unwalsh_line(<< l1, l2, l3, l4 >>)
  PROVE  /\ out[1] = l1 + l2 + l3 + l4 /\ out[2] = l1 + l2 - l3 - l4
         /\ out[3] = l1 - l2 - l3 + l4 /\ out[4] = l1 - l2 + l3 - l4
BY SMT DEF unwalsh_line

LEMMA KeptUnwalshQuad ==
  ASSUME NEW l1 \in Int, NEW l2 \in Int, NEW l3 \in Int, NEW l4 \in Int
  PROVE  IsQuad(KeptUnwalsh(<< l1, l2, l3, l4 >>))
<1> DEFINE out == unwalsh_line(<< l1, l2, l3, l4 >>)
<1>1. out[1] \in Int /\ out[2] \in Int /\ out[3] \in Int /\ out[4] \in Int
  <2>1. /\ out[1] = l1 + l2 + l3 + l4 /\ out[2] = l1 + l2 - l3 - l4
        /\ out[3] = l1 - l2 - l3 + l4 /\ out[4] = l1 - l2 + l3 - l4
    <3>1. out = unwalsh_line(<< l1, l2, l3, l4 >>)
      OBVIOUS
    <3> HIDE DEF out
    <3> QED BY <3>1, UnwalshIs, SMT
  <2> HIDE DEF out
  <2> QED BY <2>1, SMT
<1> HIDE DEF out
<1>2. IsQuad(<< Int16(out[1]), Int16(out[2]), Int16(out[3]), Int16(out[4]) >>)
  BY <1>1, Int16Quad, Zenon
<1> QED BY <1>2 DEF KeptUnwalsh, out

LEMMA RoundedUnwalshQuad ==
  ASSUME NEW l1 \in Int, NEW l2 \in Int, NEW l3 \in Int, NEW l4 \in Int
  PROVE  IsQuad(RoundedUnwalsh(<< l1, l2, l3, l4 >>))
<1> DEFINE out == unwalsh_line(<< l1, l2, l3, l4 >>)
<1>1. /\ out[1] + 3 \in Int /\ out[2] + 3 \in Int
      /\ out[3] + 3 \in Int /\ out[4] + 3 \in Int
  <2>1. /\ out[1] = l1 + l2 + l3 + l4 /\ out[2] = l1 + l2 - l3 - l4
        /\ out[3] = l1 - l2 - l3 + l4 /\ out[4] = l1 - l2 + l3 - l4
    <3>1. out = unwalsh_line(<< l1, l2, l3, l4 >>)
      OBVIOUS
    <3> HIDE DEF out
    <3> QED BY <3>1, UnwalshIs, SMT
  <2> HIDE DEF out
  <2> QED BY <2>1, SMT
<1> HIDE DEF out
<1>2. /\ (out[1] + 3) \div 8 \in Int /\ (out[2] + 3) \div 8 \in Int
      /\ (out[3] + 3) \div 8 \in Int /\ (out[4] + 3) \div 8 \in Int
  BY <1>1, SMT
<1>3. IsQuad(<< Int16((out[1] + 3) \div 8), Int16((out[2] + 3) \div 8),
                Int16((out[3] + 3) \div 8), Int16((out[4] + 3) \div 8) >>)
  BY <1>2, Int16Quad, Zenon
<1> QED BY <1>3 DEF RoundedUnwalsh, out

LEMMA LineType ==
  ASSUME NEW v \in Blocks, NEW k \in Starts
  PROVE  v[k + 1] \in Int /\ v[k + 2] \in Int /\ v[k + 3] \in Int /\ v[k + 4] \in Int
BY SMT DEF Starts, Blocks

(* A pass of a transform over all lines.                                     *)
AllDctRow(v) == Each(v, dct_row)
AllDctColumn(v) == Each(v, dct_column)
AllKeptUndct(v) == Each(v, KeptUndct)
AllRoundedUndct(v) == Each(v, RoundedUndct)
AllWalshRow(v) == Each(v, walsh_row)
AllWalshColumn(v) == Each(v, walsh_column)
AllKeptUnwalsh(v) == Each(v, KeptUnwalsh)
AllRoundedUnwalsh(v) == Each(v, RoundedUnwalsh)

LEMMA EachDctRow ==
  ASSUME NEW v \in Blocks
  PROVE  /\ AllDctRow(v) \in Blocks
         /\ \A k \in Starts : Line(AllDctRow(v), k) = dct_row(Line(v, k))
<1> DEFINE q(k) == dct_row(Line(v, k))
<1>1. IsQuad(q(0)) /\ IsQuad(q(4)) /\ IsQuad(q(8)) /\ IsQuad(q(12))
  BY LineType, DctRowQuad, Zenon DEF Line, Starts
<1>2. AllDctRow(v) = q(0) \o q(4) \o q(8) \o q(12)
  BY LinesAre, Zenon DEF Each, AllDctRow
<1>3. Lined(AllDctRow(v), q(0), q(4), q(8), q(12))
  BY <1>1, <1>2, JoinedLines, Zenon
<1> HIDE DEF q
<1>4. \A k \in Starts : Line(AllDctRow(v), k) = q(k)
  BY <1>3, Zenon DEF Lined, Starts
<1> QED BY <1>3, <1>4 DEF Lined, q

LEMMA EachDctColumn ==
  ASSUME NEW v \in Blocks
  PROVE  /\ AllDctColumn(v) \in Blocks
         /\ \A k \in Starts : Line(AllDctColumn(v), k) = dct_column(Line(v, k))
<1> DEFINE q(k) == dct_column(Line(v, k))
<1>1. IsQuad(q(0)) /\ IsQuad(q(4)) /\ IsQuad(q(8)) /\ IsQuad(q(12))
  BY LineType, DctColumnQuad, Zenon DEF Line, Starts
<1>2. AllDctColumn(v) = q(0) \o q(4) \o q(8) \o q(12)
  BY LinesAre, Zenon DEF Each, AllDctColumn
<1>3. Lined(AllDctColumn(v), q(0), q(4), q(8), q(12))
  BY <1>1, <1>2, JoinedLines, Zenon
<1> HIDE DEF q
<1>4. \A k \in Starts : Line(AllDctColumn(v), k) = q(k)
  BY <1>3, Zenon DEF Lined, Starts
<1> QED BY <1>3, <1>4 DEF Lined, q

LEMMA EachKeptUndct ==
  ASSUME NEW v \in Blocks
  PROVE  /\ AllKeptUndct(v) \in Blocks
         /\ \A k \in Starts : Line(AllKeptUndct(v), k) = KeptUndct(Line(v, k))
<1> DEFINE q(k) == KeptUndct(Line(v, k))
<1>1. IsQuad(q(0)) /\ IsQuad(q(4)) /\ IsQuad(q(8)) /\ IsQuad(q(12))
  BY LineType, KeptUndctQuad, Zenon DEF Line, Starts
<1>2. AllKeptUndct(v) = q(0) \o q(4) \o q(8) \o q(12)
  BY LinesAre, Zenon DEF Each, AllKeptUndct
<1>3. Lined(AllKeptUndct(v), q(0), q(4), q(8), q(12))
  BY <1>1, <1>2, JoinedLines, Zenon
<1> HIDE DEF q
<1>4. \A k \in Starts : Line(AllKeptUndct(v), k) = q(k)
  BY <1>3, Zenon DEF Lined, Starts
<1> QED BY <1>3, <1>4 DEF Lined, q

LEMMA EachRoundedUndct ==
  ASSUME NEW v \in Blocks
  PROVE  /\ AllRoundedUndct(v) \in Blocks
         /\ \A k \in Starts : Line(AllRoundedUndct(v), k) = RoundedUndct(Line(v, k))
<1> DEFINE q(k) == RoundedUndct(Line(v, k))
<1>1. IsQuad(q(0)) /\ IsQuad(q(4)) /\ IsQuad(q(8)) /\ IsQuad(q(12))
  BY LineType, RoundedUndctQuad, Zenon DEF Line, Starts
<1>2. AllRoundedUndct(v) = q(0) \o q(4) \o q(8) \o q(12)
  BY LinesAre, Zenon DEF Each, AllRoundedUndct
<1>3. Lined(AllRoundedUndct(v), q(0), q(4), q(8), q(12))
  BY <1>1, <1>2, JoinedLines, Zenon
<1> HIDE DEF q
<1>4. \A k \in Starts : Line(AllRoundedUndct(v), k) = q(k)
  BY <1>3, Zenon DEF Lined, Starts
<1> QED BY <1>3, <1>4 DEF Lined, q

LEMMA EachWalshRow ==
  ASSUME NEW v \in Blocks
  PROVE  /\ AllWalshRow(v) \in Blocks
         /\ \A k \in Starts : Line(AllWalshRow(v), k) = walsh_row(Line(v, k))
<1> DEFINE q(k) == walsh_row(Line(v, k))
<1>1. IsQuad(q(0)) /\ IsQuad(q(4)) /\ IsQuad(q(8)) /\ IsQuad(q(12))
  BY LineType, WalshRowQuad, Zenon DEF Line, Starts
<1>2. AllWalshRow(v) = q(0) \o q(4) \o q(8) \o q(12)
  BY LinesAre, Zenon DEF Each, AllWalshRow
<1>3. Lined(AllWalshRow(v), q(0), q(4), q(8), q(12))
  BY <1>1, <1>2, JoinedLines, Zenon
<1> HIDE DEF q
<1>4. \A k \in Starts : Line(AllWalshRow(v), k) = q(k)
  BY <1>3, Zenon DEF Lined, Starts
<1> QED BY <1>3, <1>4 DEF Lined, q

LEMMA EachWalshColumn ==
  ASSUME NEW v \in Blocks
  PROVE  /\ AllWalshColumn(v) \in Blocks
         /\ \A k \in Starts : Line(AllWalshColumn(v), k) = walsh_column(Line(v, k))
<1> DEFINE q(k) == walsh_column(Line(v, k))
<1>1. IsQuad(q(0)) /\ IsQuad(q(4)) /\ IsQuad(q(8)) /\ IsQuad(q(12))
  BY LineType, WalshColumnQuad, Zenon DEF Line, Starts
<1>2. AllWalshColumn(v) = q(0) \o q(4) \o q(8) \o q(12)
  BY LinesAre, Zenon DEF Each, AllWalshColumn
<1>3. Lined(AllWalshColumn(v), q(0), q(4), q(8), q(12))
  BY <1>1, <1>2, JoinedLines, Zenon
<1> HIDE DEF q
<1>4. \A k \in Starts : Line(AllWalshColumn(v), k) = q(k)
  BY <1>3, Zenon DEF Lined, Starts
<1> QED BY <1>3, <1>4 DEF Lined, q

LEMMA EachKeptUnwalsh ==
  ASSUME NEW v \in Blocks
  PROVE  /\ AllKeptUnwalsh(v) \in Blocks
         /\ \A k \in Starts : Line(AllKeptUnwalsh(v), k) = KeptUnwalsh(Line(v, k))
<1> DEFINE q(k) == KeptUnwalsh(Line(v, k))
<1>1. IsQuad(q(0)) /\ IsQuad(q(4)) /\ IsQuad(q(8)) /\ IsQuad(q(12))
  BY LineType, KeptUnwalshQuad, Zenon DEF Line, Starts
<1>2. AllKeptUnwalsh(v) = q(0) \o q(4) \o q(8) \o q(12)
  BY LinesAre, Zenon DEF Each, AllKeptUnwalsh
<1>3. Lined(AllKeptUnwalsh(v), q(0), q(4), q(8), q(12))
  BY <1>1, <1>2, JoinedLines, Zenon
<1> HIDE DEF q
<1>4. \A k \in Starts : Line(AllKeptUnwalsh(v), k) = q(k)
  BY <1>3, Zenon DEF Lined, Starts
<1> QED BY <1>3, <1>4 DEF Lined, q

LEMMA EachRoundedUnwalsh ==
  ASSUME NEW v \in Blocks
  PROVE  /\ AllRoundedUnwalsh(v) \in Blocks
         /\ \A k \in Starts : Line(AllRoundedUnwalsh(v), k) = RoundedUnwalsh(Line(v, k))
<1> DEFINE q(k) == RoundedUnwalsh(Line(v, k))
<1>1. IsQuad(q(0)) /\ IsQuad(q(4)) /\ IsQuad(q(8)) /\ IsQuad(q(12))
  BY LineType, RoundedUnwalshQuad, Zenon DEF Line, Starts
<1>2. AllRoundedUnwalsh(v) = q(0) \o q(4) \o q(8) \o q(12)
  BY LinesAre, Zenon DEF Each, AllRoundedUnwalsh
<1>3. Lined(AllRoundedUnwalsh(v), q(0), q(4), q(8), q(12))
  BY <1>1, <1>2, JoinedLines, Zenon
<1> HIDE DEF q
<1>4. \A k \in Starts : Line(AllRoundedUnwalsh(v), k) = q(k)
  BY <1>3, Zenon DEF Lined, Starts
<1> QED BY <1>3, <1>4 DEF Lined, q

-----------------------------------------------------------------------------
(* The inverse transform of a line: how far it is from the line that was     *)
(* transformed, when its coefficients are off by so much.                    *)
(* A row of pixels' differences, of which the transform's first pass comes   *)
(* back with an error of E in the first, of D in the others.                 *)
Lately(z1, z2, z3, z4, y, E, D) ==
  /\ z1 \in Int /\ z2 \in Int /\ z3 \in Int /\ z4 \in Int
  /\ Within(20 * z1, 5 * y[1], E) /\ Within(20 * z2, 5 * y[2], D)
  /\ Within(20 * z3, 5 * y[3], D) /\ Within(20 * z4, 5 * y[4], D)

RowBack(x1, x2, x3, x4, r, bound) ==
  /\ r[1] \in Int /\ r[2] \in Int /\ r[3] \in Int /\ r[4] \in Int
  /\ Within(3200 * r[1], 3200 * x1, bound) /\ Within(3200 * r[2], 3200 * x2, bound)
  /\ Within(3200 * r[3], 3200 * x3, bound) /\ Within(3200 * r[4], 3200 * x4, bound)

LEMMA Halved ==
  ASSUME NEW n \in Int
  PROVE  (n + 4) \div 8 \in Int /\ Within(8 * ((n + 4) \div 8), n, 4)
<1>1. IsFloor((n + 4) \div 8, n + 4, 8)
  BY Floor8, SMT
<1> DEFINE q == (n + 4) \div 8
<1> HIDE DEF q
<1>2. q \in Int /\ Within(8 * q, n, 4)
  BY <1>1, SMT DEF IsFloor, Within, q
<1> QED BY <1>2 DEF q

LEMMA RowReturns ==
  ASSUME NEW x1, NEW x2, NEW x3, NEW x4, NEW y, NEW z1, NEW z2, NEW z3, NEW z4,
         Small(x1, 255), Small(x2, 255), Small(x3, 255), Small(x4, 255),
         DctRow(x1, x2, x3, x4, y), NEW E \in Nat, NEW D \in Nat,
         Lately(z1, z2, z3, z4, y, E, D)
  PROVE  RowBack(x1, x2, x3, x4, RoundedUndct(<< z1, z2, z3, z4 >>), 20 * E + 57 * D + 3040)
<1> DEFINE out == undct_line(<< z1, z2, z3, z4 >>)
           r == RoundedUndct(<< z1, z2, z3, z4 >>)
           r1 == (out[1] + 4) \div 8
           r2 == (out[2] + 4) \div 8
           r3 == (out[3] + 4) \div 8
           r4 == (out[4] + 4) \div 8
           bound == 20 * E + 57 * D + 3040
<1>1. r = << r1, r2, r3, r4 >>
  BY DEF RoundedUndct
<1>2. Undct(z1, z2, z3, z4, out)
  BY UndctIs, SMT DEF Lately
<1> HIDE DEF out
<1>3. out[1] \in Int /\ out[2] \in Int /\ out[3] \in Int /\ out[4] \in Int
  BY <1>2, SMT DEF Undct
<1>4. /\ r1 \in Int /\ Within(8 * r1, out[1], 4) /\ r2 \in Int /\ Within(8 * r2, out[2], 4)
      /\ r3 \in Int /\ Within(8 * r3, out[3], 4) /\ r4 \in Int /\ Within(8 * r4, out[4], 4)
  BY <1>3, Halved, SMT
<1> HIDE DEF r, r1, r2, r3, r4
<1>5. Within(3200 * r1, 3200 * x1, bound)
  BY <1>2, <1>4, SMTT(30) DEF Small, DctRow, Lately, Undct, Within
<1>6. Within(3200 * r2, 3200 * x2, bound)
  BY <1>2, <1>4, SMTT(30) DEF Small, DctRow, Lately, Undct, Within
<1>7. Within(3200 * r3, 3200 * x3, bound)
  BY <1>2, <1>4, SMTT(30) DEF Small, DctRow, Lately, Undct, Within
<1>8. Within(3200 * r4, 3200 * x4, bound)
  BY <1>2, <1>4, SMTT(30) DEF Small, DctRow, Lately, Undct, Within
<1>9. r[1] = r1 /\ r[2] = r2 /\ r[3] = r3 /\ r[4] = r4
  BY <1>1, SMT
<1> HIDE DEF bound
<1>10. RowBack(x1, x2, x3, x4, r, bound)
  BY <1>4, <1>5, <1>6, <1>7, <1>8, <1>9, SMT DEF RowBack
<1> QED BY <1>10 DEF r, bound

(* A column comes back in 16 bits.                                           *)
FirstErrors == 0..10000
OtherErrors == 0..600
ColumnOf(y1, y2, y3, y4) ==
  Small(y1, 8160) /\ Small(y2, 8160) /\ Small(y3, 8160) /\ Small(y4, 8160)
(* The error of a column after the inverse, in 20ths, for those of its       *)
(* coefficients: E of the first, D of the others.                            *)
ColumnError(E, D) == 20 * E + 57 * D + 104

LEMMA ColumnKept ==
  ASSUME NEW y1, NEW y2, NEW y3, NEW y4, NEW c, NEW w1, NEW w2, NEW w3, NEW w4,
         ColumnOf(y1, y2, y3, y4),
         DctColumn(y1, y2, y3, y4, c), NEW E \in FirstErrors, NEW D \in OtherErrors,
         Levels(w1, w2, w3, w4, c, E, D)
  PROVE  Returned(y1, y2, y3, y4, KeptUndct(<< w1, w2, w3, w4 >>), ColumnError(E, D))
<1> DEFINE z == undct_line(<< w1, w2, w3, w4 >>)
           k == KeptUndct(<< w1, w2, w3, w4 >>)
           bound == 20 * E + 57 * D + 104
<1>1. k = << Int16(z[1]), Int16(z[2]), Int16(z[3]), Int16(z[4]) >>
  BY DEF KeptUndct
<1>2. Undct(w1, w2, w3, w4, z)
  BY UndctIs, SMT DEF Levels
<1> HIDE DEF z
<1>3. E \in Nat /\ D \in Nat /\ E <= 10000 /\ D <= 600
  BY SMT DEF FirstErrors, OtherErrors
<1>4. Returned(y1, y2, y3, y4, z, bound)
  BY <1>2, <1>3, ColumnReturns, SMT DEF ColumnOf
<1>5. bound \in Nat /\ bound <= 250000
  <2> HIDE DEF k
  <2>1. 20 * E \in Nat /\ 20 * E <= 200000 /\ 57 * D \in Nat /\ 57 * D <= 34200
    BY <1>3, SMT
  <2> QED BY <2>1, SMT
<1>6. z[1] \in Int /\ z[2] \in Int /\ z[3] \in Int /\ z[4] \in Int
  BY <1>2, SMT DEF Undct
<1> HIDE DEF bound, k
<1>7. Small(z[1], 32767) /\ Small(z[2], 32767) /\ Small(z[3], 32767) /\ Small(z[4], 32767)
  BY <1>4, <1>5, <1>6, SMT DEF Returned, Within, Small, ColumnOf
<1>8. Int16(z[1]) = z[1] /\ Int16(z[2]) = z[2] /\ Int16(z[3]) = z[3] /\ Int16(z[4]) = z[4]
  BY <1>7, Fits16, SMT
<1>9. k[1] = z[1] /\ k[2] = z[2] /\ k[3] = z[3] /\ k[4] = z[4]
  BY <1>1, <1>8, SMT
<1>10. Returned(y1, y2, y3, y4, k, bound)
  BY <1>4, <1>9, SMT DEF Returned
<1> QED BY <1>10 DEF k, bound, ColumnError

-----------------------------------------------------------------------------
(* Columns, in all four of a block, and rows.                                *)
(* Where a number comes from when a block is transposed.                     *)
Turn == << 1, 5, 9, 13, 2, 6, 10, 14, 3, 7, 11, 15, 4, 8, 12, 16 >>

LEMMA TurnIs ==
  ASSUME NEW i \in 1..16
  PROVE  /\ Turn[i] \in 1..16 /\ Turn[Turn[i]] = i
         /\ i = 1 <=> Turn[i] = 1
         /\ Turn[i] <= 4 <=> i \in { 1, 5, 9, 13 }
BY SMTT(30) DEF Turn

LEMMA Turned ==
  ASSUME NEW v \in Blocks
  PROVE  /\ Transposed(v) \in Blocks
         /\ \A i \in 1..16 : Transposed(v)[i] = v[Turn[i]]
<1> DEFINE t == Transposed(v)
<1>1. t \in Blocks
  BY SMTT(30) DEF Transposed, Blocks
<1>2. \A i \in 1..16 : t[i] = v[Turn[i]]
  BY SMTT(30) DEF Transposed, Blocks, Turn
<1> QED BY <1>1, <1>2

LEMMA StartAt ==
  ASSUME NEW k \in Starts
  PROVE  /\ k + 1 \in 1..16 /\ k + 2 \in 1..16 /\ k + 3 \in 1..16 /\ k + 4 \in 1..16
         /\ k + 1 \in { 1, 5, 9, 13 }
         /\ k + 2 \notin { 1, 5, 9, 13 } /\ k + 3 \notin { 1, 5, 9, 13 }
         /\ k + 4 \notin { 1, 5, 9, 13 }
         /\ k = 0 \/ k >= 4
BY SMT DEF Starts

(* All numbers of a block are small.                                         *)
AllSmall(v, bound) == v \in Blocks /\ \A i \in 1..16 : Small(v[i], bound)

LEMMA TurnedSmall ==
  ASSUME NEW v, NEW bound, AllSmall(v, bound)
  PROVE  AllSmall(Transposed(v), bound)
<1>1. v \in Blocks
  BY DEF AllSmall
<1>2. \A i \in 1..16 : Transposed(v)[i] = v[Turn[i]] /\ Turn[i] \in 1..16
  BY <1>1, Turned, TurnIs, Zenon
<1> QED BY <1>1, <1>2, Turned, Zenon DEF AllSmall

DctRowsAre(x, y) ==
  \A k \in Starts : DctRow(x[k + 1], x[k + 2], x[k + 3], x[k + 4], Line(y, k))

LEMMA DctRows ==
  ASSUME NEW x, AllSmall(x, 255)
  PROVE  DctRowsAre(x, AllDctRow(x)) /\ AllSmall(AllDctRow(x), 8160)
<1> DEFINE y == AllDctRow(x)
<1>1. y \in Blocks /\ \A k \in Starts : Line(y, k) = dct_row(Line(x, k))
  BY EachDctRow, SMT DEF AllSmall
<1> HIDE DEF y
<1>2. ASSUME NEW k \in Starts
      PROVE  DctRow(x[k + 1], x[k + 2], x[k + 3], x[k + 4], Line(y, k))
  <2>1. /\ Small(x[k + 1], 255) /\ Small(x[k + 2], 255)
        /\ Small(x[k + 3], 255) /\ Small(x[k + 4], 255)
    BY StartAt, SMT DEF AllSmall
  <2>2. DctRow(x[k + 1], x[k + 2], x[k + 3], x[k + 4], dct_row(Line(x, k)))
    BY <2>1, DctRowIs, SMT DEF Line
  <2> QED BY <1>1, <2>2, SMT
<1>3. ASSUME NEW i \in 1..16 PROVE Small(y[i], 8160)
  <2>1. PICK k \in Starts : i \in { k + 1, k + 2, k + 3, k + 4 }
    BY Everywhere, SMT
  <2>2. DctRow(x[k + 1], x[k + 2], x[k + 3], x[k + 4], Line(y, k))
    BY <1>2
  <2> QED BY <2>1, <2>2, LineAt, SMT DEF DctRow
<1>4. DctRowsAre(x, y) /\ AllSmall(y, 8160)
  BY <1>1, <1>2, <1>3, SMT DEF DctRowsAre, AllSmall
<1> QED BY <1>4 DEF y

DctColumnsAre(y, c) ==
  \A k \in Starts : DctColumn(y[k + 1], y[k + 2], y[k + 3], y[k + 4], Line(c, k))

LEMMA DctColumns ==
  ASSUME NEW y, AllSmall(y, 8160)
  PROVE  DctColumnsAre(y, AllDctColumn(y)) /\ AllSmall(AllDctColumn(y), 2040)
<1> DEFINE c == AllDctColumn(y)
<1>1. c \in Blocks /\ \A k \in Starts : Line(c, k) = dct_column(Line(y, k))
  BY EachDctColumn, SMT DEF AllSmall
<1> HIDE DEF c
<1>2. ASSUME NEW k \in Starts
      PROVE  DctColumn(y[k + 1], y[k + 2], y[k + 3], y[k + 4], Line(c, k))
  <2>1. /\ Small(y[k + 1], 8160) /\ Small(y[k + 2], 8160)
        /\ Small(y[k + 3], 8160) /\ Small(y[k + 4], 8160)
    BY StartAt, SMT DEF AllSmall
  <2>2. DctColumn(y[k + 1], y[k + 2], y[k + 3], y[k + 4], dct_column(Line(y, k)))
    BY <2>1, DctColumnIs, SMT DEF Line
  <2> QED BY <1>1, <2>2, SMT
<1>3. ASSUME NEW i \in 1..16 PROVE Small(c[i], 2040)
  <2>1. PICK k \in Starts : i \in { k + 1, k + 2, k + 3, k + 4 }
    BY Everywhere, SMT
  <2>2. DctColumn(y[k + 1], y[k + 2], y[k + 3], y[k + 4], Line(c, k))
    BY <1>2
  <2> QED BY <2>1, <2>2, LineAt, SMT DEF DctColumn
<1>4. DctColumnsAre(y, c) /\ AllSmall(c, 2040)
  BY <1>1, <1>2, <1>3, SMT DEF DctColumnsAre, AllSmall
<1> QED BY <1>4 DEF c

(* Coefficients with an error of D, of E in the first.                       *)
Near16(w, v, E, D) ==
  /\ w \in Blocks
  /\ \A i \in 1..16 : Within(w[i], v[i], IF i = 1 THEN E ELSE D)

ColumnBound(k, E, D) == ColumnError(IF k = 0 THEN E ELSE D, D)

LEMMA ColumnsReturn ==
  ASSUME NEW y, AllSmall(y, 8160), NEW c, DctColumnsAre(y, c), NEW E \in FirstErrors,
         NEW D \in OtherErrors, NEW w, Near16(w, c, E, D)
  PROVE  /\ AllKeptUndct(w) \in Blocks
         /\ \A k \in Starts : Returned(y[k + 1], y[k + 2], y[k + 3], y[k + 4],
                                       Line(AllKeptUndct(w), k), ColumnBound(k, E, D))
<1> DEFINE kept == AllKeptUndct(w)
<1>1. kept \in Blocks /\ \A k \in Starts : Line(kept, k) = KeptUndct(Line(w, k))
  BY EachKeptUndct, SMT DEF Near16
<1> HIDE DEF kept
<1>2. ASSUME NEW k \in Starts
      PROVE  Returned(y[k + 1], y[k + 2], y[k + 3], y[k + 4], Line(kept, k), ColumnBound(k, E, D))
  <2> DEFINE first == IF k = 0 THEN E ELSE D
             c0 == Line(c, k)
  <2>1. ColumnOf(y[k + 1], y[k + 2], y[k + 3], y[k + 4])
    BY StartAt, SMT DEF AllSmall, ColumnOf
  <2>2. DctColumn(y[k + 1], y[k + 2], y[k + 3], y[k + 4], c0)
    BY SMT DEF DctColumnsAre
  <2>3. first \in FirstErrors
    BY SMT DEF FirstErrors, OtherErrors
  <2>4. /\ w[k + 1] \in Int /\ w[k + 2] \in Int /\ w[k + 3] \in Int /\ w[k + 4] \in Int
    BY LineType, SMT DEF Near16
  <2>5. /\ Within(w[k + 1], c[k + 1], first) /\ Within(w[k + 2], c[k + 2], D)
        /\ Within(w[k + 3], c[k + 3], D) /\ Within(w[k + 4], c[k + 4], D)
    BY StartAt, SMT DEF Near16, Starts
  <2>6. c0[1] = c[k + 1] /\ c0[2] = c[k + 2] /\ c0[3] = c[k + 3] /\ c0[4] = c[k + 4]
    BY LineAt, SMT
  <2> HIDE DEF first, c0
  <2>7. Levels(w[k + 1], w[k + 2], w[k + 3], w[k + 4], c0, first, D)
    BY <2>4, <2>5, <2>6, SMT DEF Levels
  <2>8. Returned(y[k + 1], y[k + 2], y[k + 3], y[k + 4],
                 KeptUndct(<< w[k + 1], w[k + 2], w[k + 3], w[k + 4] >>),
                 ColumnError(first, D))
    <3>1. D \in OtherErrors
      OBVIOUS
    <3> QED BY ONLY <2>1, <2>2, <2>3, <2>7, <3>1, ColumnKept, Zenon
  <2>9. ColumnBound(k, E, D) = ColumnError(first, D)
    BY DEF ColumnBound, first
  <2> QED BY <1>1, <2>8, <2>9, SMT DEF Line
<1>3. \A k \in Starts : Returned(y[k + 1], y[k + 2], y[k + 3], y[k + 4], Line(kept, k),
                                 ColumnBound(k, E, D))
  BY <1>2
<1> QED BY <1>1, <1>3 DEF kept

-----------------------------------------------------------------------------
(* From the rows back to the differences of pixels.                          *)
(* The error of a row after the inverse, in 3200ths.                         *)
RowError(E, D) == 20 * E + 57 * D + 3040
RowOf(x1, x2, x3, x4) == Small(x1, 255) /\ Small(x2, 255) /\ Small(x3, 255) /\ Small(x4, 255)

LEMMA RowIsBack ==
  ASSUME NEW x1, NEW x2, NEW x3, NEW x4, NEW y, NEW z1, NEW z2, NEW z3, NEW z4,
         RowOf(x1, x2, x3, x4), DctRow(x1, x2, x3, x4, y), NEW E \in Nat, NEW D \in Nat,
         Lately(z1, z2, z3, z4, y, E, D)
  PROVE  RowBack(x1, x2, x3, x4, RoundedUndct(<< z1, z2, z3, z4 >>), RowError(E, D))
<1>1. RowBack(x1, x2, x3, x4, RoundedUndct(<< z1, z2, z3, z4 >>), 20 * E + 57 * D + 3040)
  BY RowReturns, SMT DEF RowOf
<1> QED BY <1>1 DEF RowError

(* What is left of the rows, with an error of D, of E in each row's first.   *)
RowsWithin(z, y, E, D) ==
  /\ z \in Blocks
  /\ \A i \in 1..16 : Within(20 * z[i], 5 * y[i], IF i \in { 1, 5, 9, 13 } THEN E ELSE D)

BackWithin(r, x, bound) ==
  /\ r \in Blocks
  /\ \A i \in 1..16 : Within(3200 * r[i], 3200 * x[i], bound)

LEMMA RowsReturn ==
  ASSUME NEW x, AllSmall(x, 255), NEW y, DctRowsAre(x, y), NEW E \in Nat, NEW D \in Nat,
         NEW z, RowsWithin(z, y, E, D)
  PROVE  BackWithin(AllRoundedUndct(z), x, RowError(E, D))
<1> DEFINE r == AllRoundedUndct(z)
<1>1. r \in Blocks /\ \A k \in Starts : Line(r, k) = RoundedUndct(Line(z, k))
  BY EachRoundedUndct, SMT DEF RowsWithin
<1> HIDE DEF r
<1>2. ASSUME NEW k \in Starts
      PROVE  RowBack(x[k + 1], x[k + 2], x[k + 3], x[k + 4], Line(r, k), RowError(E, D))
  <2> DEFINE y0 == Line(y, k)
  <2>1. RowOf(x[k + 1], x[k + 2], x[k + 3], x[k + 4])
    BY StartAt, SMT DEF AllSmall, RowOf
  <2>2. DctRow(x[k + 1], x[k + 2], x[k + 3], x[k + 4], y0)
    BY SMT DEF DctRowsAre
  <2>3. /\ z[k + 1] \in Int /\ z[k + 2] \in Int /\ z[k + 3] \in Int /\ z[k + 4] \in Int
    BY LineType, SMT DEF RowsWithin
  <2>4. /\ Within(20 * z[k + 1], 5 * y[k + 1], E) /\ Within(20 * z[k + 2], 5 * y[k + 2], D)
        /\ Within(20 * z[k + 3], 5 * y[k + 3], D) /\ Within(20 * z[k + 4], 5 * y[k + 4], D)
    BY StartAt, SMT DEF RowsWithin
  <2>5. y0[1] = y[k + 1] /\ y0[2] = y[k + 2] /\ y0[3] = y[k + 3] /\ y0[4] = y[k + 4]
    BY LineAt, SMT
  <2> HIDE DEF y0
  <2>6. Lately(z[k + 1], z[k + 2], z[k + 3], z[k + 4], y0, E, D)
    BY <2>3, <2>4, <2>5, SMT DEF Lately
  <2>7. RowBack(x[k + 1], x[k + 2], x[k + 3], x[k + 4],
                RoundedUndct(<< z[k + 1], z[k + 2], z[k + 3], z[k + 4] >>), RowError(E, D))
    <3>1. E \in Nat /\ D \in Nat
      OBVIOUS
    <3> QED BY ONLY <2>1, <2>2, <2>6, <3>1, RowIsBack, Zenon
  <2> QED BY <1>1, <2>7, SMT DEF Line
<1>3. ASSUME NEW i \in 1..16 PROVE Within(3200 * r[i], 3200 * x[i], RowError(E, D))
  <2>1. PICK k \in Starts : i \in { k + 1, k + 2, k + 3, k + 4 }
    BY Everywhere, SMT
  <2>2. RowBack(x[k + 1], x[k + 2], x[k + 3], x[k + 4], Line(r, k), RowError(E, D))
    BY <1>2
  <2> QED BY <2>1, <2>2, LineAt, SMT DEF RowBack
<1>4. BackWithin(r, x, RowError(E, D))
  BY <1>1, <1>3, SMT DEF BackWithin
<1> QED BY <1>4 DEF r

Differences(o, p) == [ i \in 1..16 |-> o[i] - p[i] ]

LEMMA PixelsApart ==
  ASSUME NEW a \in 0..255, NEW b \in 0..255
  PROVE  Small(a - b, 255)
BY SMT DEF Small

LEMMA DifferencesSmall ==
  ASSUME NEW o \in Squares, NEW p \in Squares
  PROVE  AllSmall(Differences(o, p), 255)
<1> DEFINE d(i) == o[i] - p[i]
<1>1. ASSUME NEW i \in 1..16 PROVE d(i) \in Int /\ Small(d(i), 255)
  <2>1. o[i] \in 0..255 /\ p[i] \in 0..255
    BY SMT DEF Squares
  <2>2. Small(d(i), 255)
    BY <2>1, PixelsApart, Zenon
  <2> HIDE DEF d
  <2> QED BY <2>2, Zenon DEF Small
<1>2. Differences(o, p) = [ i \in 1..16 |-> d(i) ]
  BY DEF Differences
<1> HIDE DEF d
<1>3. Differences(o, p) \in Blocks
  BY <1>1, <1>2, Zenon DEF Blocks
<1>4. \A i \in 1..16 : Differences(o, p)[i] = d(i)
  BY <1>2, Zenon
<1> QED BY <1>1, <1>3, <1>4, SMT DEF AllSmall

LEMMA SubtractIs ==
  ASSUME NEW o, NEW p
  PROVE  subtract_dct(o, p)
           = Transposed(AllDctColumn(Transposed(AllDctRow(Differences(o, p)))))
BY DEF subtract_dct, EachColumn, AllDctColumn, AllDctRow, Differences

LEMMA AddIs ==
  ASSUME NEW w, NEW p
  PROVE  idct_add(w, p)
           = [ i \in 1..16 |->
                 Pixel(p[i] + AllRoundedUndct(Transposed(AllKeptUndct(Transposed(w))))[i]) ]
BY DEF idct_add, EachColumn, AllRoundedUndct, AllKeptUndct, RoundedUndct, KeptUndct

LEMMA CoefficientsSmall ==
  ASSUME NEW o \in Squares, NEW p \in Squares
  PROVE  AllSmall(subtract_dct(o, p), 2040)
BY DifferencesSmall, DctRows, TurnedSmall, DctColumns, SubtractIs, SMT

LEMMA Near16Turned ==
  ASSUME NEW w, NEW v \in Blocks, NEW E, NEW D, Near16(w, Transposed(v), E, D)
  PROVE  Near16(Transposed(w), v, E, D)
<1>1. w \in Blocks /\ \A i \in 1..16 : Within(w[i], Transposed(v)[i], IF i = 1 THEN E ELSE D)
  BY DEF Near16
<1>2. Transposed(w) \in Blocks
  BY <1>1, Turned, Zenon
<1>3. ASSUME NEW i \in 1..16 PROVE Within(Transposed(w)[i], v[i], IF i = 1 THEN E ELSE D)
  <2>1. Turn[i] \in 1..16 /\ Turn[Turn[i]] = i /\ (i = 1 <=> Turn[i] = 1)
    BY TurnIs, Zenon
  <2>2. Within(w[Turn[i]], Transposed(v)[Turn[i]], IF Turn[i] = 1 THEN E ELSE D)
    BY <1>1, <2>1, Zenon
  <2>3. Transposed(v)[Turn[i]] = v[Turn[Turn[i]]] /\ Transposed(w)[i] = w[Turn[i]]
    BY <1>1, <2>1, Turned, Zenon
  <2> QED BY <2>1, <2>2, <2>3, SMT
<1> QED BY <1>2, <1>3 DEF Near16

LEMMA ColumnErrorType ==
  ASSUME NEW E \in FirstErrors, NEW D \in OtherErrors
  PROVE  /\ D \in FirstErrors
         /\ ColumnError(E, D) \in Nat
         /\ ColumnError(E, D) = 20 * E + 57 * D + 104
<1>1. E \in Nat /\ D \in Nat /\ D \in 0..10000
  BY SMT DEF FirstErrors, OtherErrors
<1> QED BY <1>1, SMT DEF ColumnError, FirstErrors

LEMMA KeptWithin ==
  ASSUME NEW y, AllSmall(y, 8160), NEW c, DctColumnsAre(y, c), NEW E \in FirstErrors,
         NEW D \in OtherErrors, NEW w, Near16(w, c, E, D)
  PROVE  /\ AllKeptUndct(w) \in Blocks
         /\ \A i \in 1..16 : Within(20 * AllKeptUndct(w)[i], 5 * y[i],
                                    IF i <= 4 THEN ColumnError(E, D) ELSE ColumnError(D, D))
<1> DEFINE kept == AllKeptUndct(w)
<1>1. /\ kept \in Blocks
      /\ \A k \in Starts : Returned(y[k + 1], y[k + 2], y[k + 3], y[k + 4],
                                    Line(kept, k), ColumnBound(k, E, D))
  BY ColumnsReturn, SMT
<1> HIDE DEF kept
<1>2. ASSUME NEW i \in 1..16
      PROVE  Within(20 * kept[i], 5 * y[i],
                    IF i <= 4 THEN ColumnError(E, D) ELSE ColumnError(D, D))
  <2> DEFINE bound == IF i <= 4 THEN ColumnError(E, D) ELSE ColumnError(D, D)
  <2>1. PICK k \in Starts : i \in { k + 1, k + 2, k + 3, k + 4 }
    BY Everywhere, SMT
  <2>2. k = 0 <=> i <= 4
    BY <2>1, SMT DEF Starts
  <2>3. bound = ColumnBound(k, E, D)
    <3>1. CASE k = 0
      BY <2>2, <3>1 DEF ColumnBound
    <3>2. CASE k # 0
      BY <2>2, <3>2 DEF ColumnBound
    <3> QED BY <3>1, <3>2
  <2> HIDE DEF bound
  <2>4. Returned(y[k + 1], y[k + 2], y[k + 3], y[k + 4], Line(kept, k), bound)
    BY <1>1, <2>3
  <2>5. Within(20 * kept[i], 5 * y[i], bound)
    BY <2>1, <2>4, LineAt, SMT DEF Returned
  <2> QED BY <2>5 DEF bound
<1> QED BY <1>1, <1>2 DEF kept

LEMMA RowsWithinTurned ==
  ASSUME NEW y, y \in Blocks, NEW kept \in Blocks, NEW E, NEW D,
         \A i \in 1..16 : Within(20 * kept[i], 5 * Transposed(y)[i], IF i <= 4 THEN E ELSE D)
  PROVE  RowsWithin(Transposed(kept), y, E, D)
<1>1. Transposed(kept) \in Blocks
  BY Turned, Zenon
<1>2. ASSUME NEW i \in 1..16
      PROVE  Within(20 * Transposed(kept)[i], 5 * y[i], IF i \in { 1, 5, 9, 13 } THEN E ELSE D)
  <2>1. Turn[i] \in 1..16 /\ Turn[Turn[i]] = i /\ (Turn[i] <= 4 <=> i \in { 1, 5, 9, 13 })
    BY TurnIs, Zenon
  <2>2. Within(20 * kept[Turn[i]], 5 * Transposed(y)[Turn[i]], IF Turn[i] <= 4 THEN E ELSE D)
    BY <2>1
  <2>3. Transposed(y)[Turn[i]] = y[Turn[Turn[i]]] /\ Transposed(kept)[i] = kept[Turn[i]]
    BY <2>1, Turned, Zenon
  <2>4. CASE Turn[i] <= 4
    BY <2>1, <2>2, <2>3, <2>4
  <2>5. CASE ~(Turn[i] <= 4)
    BY <2>1, <2>2, <2>3, <2>5
  <2> QED BY <2>4, <2>5
<1> QED BY <1>1, <1>2 DEF RowsWithin

(* A pixel near the original's, and a residue near the difference, in        *)
(* 3200ths.                                                                  *)
NearPixel(q, o, bound) == q \in 0..255 /\ Within(3200 * q, 3200 * o, bound)
NearDifference(r, o, p, bound) == r \in Int /\ Within(3200 * r, 3200 * (o - p), bound)

LEMMA PixelIsNear ==
  ASSUME NEW o \in 0..255, NEW p \in 0..255, NEW r, NEW bound \in Nat,
         NearDifference(r, o, p, bound)
  PROVE  NearPixel(Pixel(p + r), o, bound)
BY SMT DEF Pixel, Within, NearPixel, NearDifference

(* The error of a pixel, in 3200ths, for those of the coefficients.          *)
RestoredError(E, D) == 400 * E + 5529 * D + 11048

LEMMA Restores ==
  ASSUME NEW o \in Squares, NEW p \in Squares, NEW E \in FirstErrors, NEW D \in OtherErrors,
         NEW w, Near16(w, subtract_dct(o, p), E, D)
  PROVE  \A i \in 1..16 : NearPixel(idct_add(w, p)[i], o[i], RestoredError(E, D))
<1> DEFINE x == Differences(o, p)
           y == AllDctRow(x)
           c == AllDctColumn(Transposed(y))
           kept == AllKeptUndct(Transposed(w))
           r == AllRoundedUndct(Transposed(kept))
           e == ColumnError(E, D)
           d == ColumnError(D, D)
<1>1. AllSmall(x, 255)
  BY DifferencesSmall, Zenon
<1>2. \A i \in 1..16 : x[i] = o[i] - p[i]
  BY DEF Differences
<1> HIDE DEF x
<1>3. DctRowsAre(x, y) /\ AllSmall(y, 8160)
  BY <1>1, DctRows, SMT
<1>4. subtract_dct(o, p) = Transposed(c)
  BY SubtractIs DEF x
<1> HIDE DEF y
<1>5. AllSmall(Transposed(y), 8160)
  BY <1>3, TurnedSmall, SMT
<1>6. DctColumnsAre(Transposed(y), c) /\ c \in Blocks
  BY <1>5, DctColumns, SMT DEF AllSmall
<1> HIDE DEF c
<1>7. Near16(Transposed(w), c, E, D)
  BY <1>4, <1>6, Near16Turned, SMT
<1>8. /\ kept \in Blocks
      /\ \A i \in 1..16 : Within(20 * kept[i], 5 * Transposed(y)[i], IF i <= 4 THEN e ELSE d)
  BY <1>5, <1>6, <1>7, KeptWithin, SMT
<1>9. idct_add(w, p) = [ i \in 1..16 |-> Pixel(p[i] + r[i]) ]
  BY AddIs
<1> HIDE DEF kept, e, d
<1>10. RowsWithin(Transposed(kept), y, e, d)
  BY <1>3, <1>8, RowsWithinTurned, SMT DEF AllSmall
<1>11. D \in FirstErrors /\ e \in Nat /\ e = 20 * E + 57 * D + 104
  BY ColumnErrorType, SMT DEF e
<1>12. d \in Nat /\ d = 20 * D + 57 * D + 104
  BY <1>11, ColumnErrorType, SMT DEF d
<1>13. BackWithin(r, x, RowError(e, d))
  BY <1>1, <1>3, <1>10, <1>11, <1>12, RowsReturn, SMT
<1> HIDE DEF r
<1>14. RowError(e, d) \in Nat /\ RowError(e, d) = RestoredError(E, D)
  <2>1. E \in Nat /\ D \in Nat
    BY SMT DEF FirstErrors, OtherErrors
  <2> QED BY <1>11, <1>12, <2>1, SMT DEF RowError, RestoredError
<1>15. ASSUME NEW i \in 1..16
       PROVE  NearPixel(Pixel(p[i] + r[i]), o[i], RestoredError(E, D))
  <2>1. o[i] \in 0..255 /\ p[i] \in 0..255
    BY SMT DEF Squares
  <2>2. NearDifference(r[i], o[i], p[i], RestoredError(E, D))
    BY <1>2, <1>13, <1>14, SMT DEF BackWithin, Blocks, NearDifference
  <2>3. RestoredError(E, D) \in Nat
    BY <1>14, SMT
  <2> QED BY ONLY <2>1, <2>2, <2>3, PixelIsNear, Zenon
<1>16. \A i \in 1..16 : idct_add(w, p)[i] = Pixel(p[i] + r[i])
  BY <1>9, Zenon
<1> QED BY <1>15, <1>16, Zenon

-----------------------------------------------------------------------------
(* Quantizer and dequantizer.                                                *)
LEMMA Quotient ==
  ASSUME NEW n \in Nat, NEW d \in Nat \ {0}
  PROVE  n \div d \in Nat /\ (n \div d) * d <= n /\ n < (n \div d) * d + d
BY SMTT(30)

(* A level that stands for v, in a step of f, with an error of less than     *)
(* `steps' of them, nearer to zero than v.                                   *)
StandsFor(level, v, f, steps) ==
  /\ level \in Int
  /\ Magnitude(level * f) <= Magnitude(v)
  /\ Within(level * f, v, steps * f - 1)

LEMMA TruncatedIs ==
  ASSUME NEW v \in Int, NEW f \in Nat \ {0}
  PROVE  /\ StandsFor(Truncated(v, f), v, f, 1)
         /\ Truncated(v, f) > 0 => v > 0
         /\ Truncated(v, f) < 0 => v < 0
<1>1. CASE v < 0
  <2> DEFINE q == (-v) \div f
  <2>1. q \in Nat /\ q * f <= -v /\ -v < q * f + f
    BY <1>1, Quotient, SMT
  <2>2. Truncated(v, f) = -q
    BY <1>1 DEF Truncated
  <2> HIDE DEF q
  <2>3. (-q) * f = -(q * f) /\ q * f \in Nat
    BY <2>1, SMT
  <2> QED BY <1>1, <2>1, <2>2, <2>3, SMT DEF StandsFor, Magnitude, Within
<1>2. CASE v >= 0
  <2> DEFINE q == v \div f
  <2>1. q \in Nat /\ q * f <= v /\ v < q * f + f
    BY <1>2, Quotient, SMT
  <2>2. Truncated(v, f) = q
    BY <1>2, SMT DEF Truncated
  <2> HIDE DEF q
  <2>3. q * f \in Nat
    BY <2>1, SMT
  <2>4. q > 0 => v > 0
    BY <2>1, SMT
  <2> QED BY <1>2, <2>1, <2>2, <2>3, <2>4, SMT DEF StandsFor, Magnitude, Within
<1> QED BY <1>1, <1>2, SMT

LEMMA LooserIs ==
  ASSUME NEW v \in Int, NEW f \in Nat \ {0}, NEW level, StandsFor(level, v, f, 1)
  PROVE  StandsFor(level, v, f, 2)
BY SMT DEF StandsFor, Within, Magnitude

LEMMA LoweredIs ==
  ASSUME NEW v \in Int, NEW f \in Nat \ {0}, NEW level, StandsFor(level, v, f, 1), level # 0,
         level > 0 => v > 0, level < 0 => v < 0
  PROVE  StandsFor(IF level < 0 THEN level + 1 ELSE level - 1, v, f, 2)
<1>0. level \in Int /\ level * f \in Int
  BY SMT DEF StandsFor
<1>1. CASE level < 0
  <2>1. (level + 1) * f = level * f + f /\ level * f <= -f
    BY <1>0, <1>1, SMT
  <2> QED BY <1>0, <1>1, <2>1, SMT DEF StandsFor, Within, Magnitude
<1>2. CASE ~(level < 0)
  <2>1. (level - 1) * f = level * f - f /\ level * f >= f
    BY <1>0, <1>2, SMT
  <2> QED BY <1>0, <1>2, <2>1, SMT DEF StandsFor, Within, Magnitude
<1> QED BY <1>1, <1>2

LEMMA StandsForZero ==
  ASSUME NEW f \in Nat \ {0}, NEW steps \in {1, 2}
  PROVE  StandsFor(0, 0, f, steps)
BY SMT DEF StandsFor, Within, Magnitude

(* Factors, and levels that stand for all coefficients of a block.           *)
IsFactors(f) == f[1] \in Nat \ {0} /\ f[2] \in Nat \ {0}

LEMMA FactorType ==
  ASSUME NEW f, IsFactors(f), NEW i \in 1..16
  PROVE  Factor(f, i) \in Nat \ {0}
BY SMT DEF IsFactors, Factor

StandFor(levels, v, f, steps) ==
  levels \in Blocks /\ \A i \in 1..16 : StandsFor(levels[i], v[i], Factor(f, i), steps)

LEMMA QuantizeIs ==
  ASSUME NEW v \in Blocks, NEW f, IsFactors(f)
  PROVE  StandFor(quantize(v, f), v, f, 1)
<1> DEFINE g == [ i \in 1..16 |-> Truncated(v[i], Factor(f, i)) ]
<1>1. quantize(v, f) = Spread(g)
  BY SMT DEF quantize, Sixteen, Spread
<1>2. ASSUME NEW i \in 1..16
      PROVE  /\ Truncated(v[i], Factor(f, i)) \in Int
             /\ StandsFor(Truncated(v[i], Factor(f, i)), v[i], Factor(f, i), 1)
  <2>1. v[i] \in Int
    BY DEF Blocks
  <2> QED BY <2>1, FactorType, TruncatedIs, Zenon DEF StandsFor
<1>3. g \in [ 1..16 -> Int ]
  BY <1>2, Zenon
<1>4. quantize(v, f) = g
  BY <1>1, <1>3, SpreadIs
<1>5. \A i \in 1..16 : g[i] = Truncated(v[i], Factor(f, i))
  OBVIOUS
<1> HIDE DEF g
<1> QED BY <1>2, <1>3, <1>4, <1>5, Zenon DEF StandFor, Blocks

TrellisLevel(v, f, first, lowered, i) ==
  LET level == Truncated(v[i], Factor(f, i))
  IN IF i < first THEN v[i]
     ELSE IF i \notin lowered \/ level = 0 THEN level
     ELSE IF level < 0 THEN level + 1 ELSE level - 1

LEMMA TrellisLevelIs ==
  ASSUME NEW v \in Blocks, NEW f, IsFactors(f), NEW first \in {1, 2}, NEW lowered,
         first = 2 => v[1] = 0, NEW i \in 1..16
  PROVE  StandsFor(TrellisLevel(v, f, first, lowered, i), v[i], Factor(f, i), 2)
<1> DEFINE level == Truncated(v[i], Factor(f, i))
<1>1. v[i] \in Int /\ Factor(f, i) \in Nat \ {0}
  BY FactorType DEF Blocks
<1>2. /\ StandsFor(level, v[i], Factor(f, i), 1)
      /\ level > 0 => v[i] > 0
      /\ level < 0 => v[i] < 0
  BY <1>1, TruncatedIs, Zenon
<1> HIDE DEF level
<1>3. CASE i < first
  <2>1. i = 1 /\ first = 2
    BY <1>3, SMT
  <2>2. v[i] = 0 /\ TrellisLevel(v, f, first, lowered, i) = v[i]
    BY <1>3, <2>1 DEF TrellisLevel
  <2> QED BY <1>1, <2>2, StandsForZero
<1>4. CASE ~(i < first) /\ (i \notin lowered \/ level = 0)
  <2>1. TrellisLevel(v, f, first, lowered, i) = level
    BY <1>4 DEF TrellisLevel, level
  <2> QED BY <1>1, <1>2, <2>1, LooserIs
<1>5. CASE ~(i < first) /\ ~(i \notin lowered \/ level = 0)
  <2>1. TrellisLevel(v, f, first, lowered, i) = IF level < 0 THEN level + 1 ELSE level - 1
    BY <1>5 DEF TrellisLevel, level
  <2>2. level # 0
    BY <1>5
  <2> QED BY <1>1, <1>2, <2>1, <2>2, LoweredIs
<1> QED BY <1>3, <1>4, <1>5

LEMMA TrellisIs ==
  ASSUME NEW v \in Blocks, NEW f, IsFactors(f), NEW first \in {1, 2}, NEW lowered,
         first = 2 => v[1] = 0
  PROVE  StandFor(trellis_quantize(v, f, first, lowered), v, f, 2)
<1> DEFINE levels == trellis_quantize(v, f, first, lowered)
           g == [ i \in 1..16 |-> TrellisLevel(v, f, first, lowered, i) ]
<1>1. CASE \A i \in first..16 : v[i] = 0
  <2>1. levels = [ i \in 1..16 |-> 0 ]
    BY <1>1 DEF trellis_quantize
  <2>2. \A i \in 1..16 : v[i] = 0
    BY <1>1, SMT
  <2> HIDE DEF levels
  <2>3. levels \in Blocks /\ \A i \in 1..16 : levels[i] = 0
    BY <2>1, SMT DEF Blocks
  <2>4. \A i \in 1..16 : StandsFor(0, 0, Factor(f, i), 2)
    BY FactorType, StandsForZero
  <2>5. StandFor(levels, v, f, 2)
    BY <2>2, <2>3, <2>4, Zenon DEF StandFor
  <2> QED BY <2>5 DEF levels
<1>2. CASE ~(\A i \in first..16 : v[i] = 0)
  <2>1. levels = Spread(g)
    BY <1>2, SMT DEF trellis_quantize, Sixteen, Spread, TrellisLevel
  <2>2. \A i \in 1..16 : StandsFor(TrellisLevel(v, f, first, lowered, i), v[i], Factor(f, i), 2)
    BY TrellisLevelIs
  <2>3. g \in [ 1..16 -> Int ] /\ \A i \in 1..16 : g[i] = TrellisLevel(v, f, first, lowered, i)
    BY <2>2, Zenon DEF StandsFor
  <2> HIDE DEF g
  <2>4. levels = g
    BY <2>1, <2>3, SpreadIs
  <2> QED BY <2>2, <2>3, <2>4, Zenon DEF StandFor, Blocks
<1> QED BY <1>1, <1>2

LEMMA DequantizeIs ==
  ASSUME NEW v, AllSmall(v, 32767), NEW f, IsFactors(f), NEW steps \in {1, 2},
         NEW levels, StandFor(levels, v, f, steps)
  PROVE  Near16(dequantize(levels, f), v, steps * f[1] - 1, steps * f[2] - 1)
<1> DEFINE g == [ i \in 1..16 |-> Int16(levels[i] * Factor(f, i)) ]
<1>1. dequantize(levels, f) = Spread(g)
  BY SMT DEF dequantize, Sixteen, Spread
<1>2. ASSUME NEW i \in 1..16
      PROVE  /\ Int16(levels[i] * Factor(f, i)) \in Int
             /\ Within(Int16(levels[i] * Factor(f, i)), v[i], steps * Factor(f, i) - 1)
  <2> DEFINE level == levels[i]
             vi == v[i]
             fi == Factor(f, i)
             n == level * fi
  <2>1. Small(vi, 32767)
    BY DEF AllSmall
  <2>2. StandsFor(level, vi, fi, steps)
    BY DEF StandFor
  <2>3. fi \in Nat \ {0}
    BY FactorType
  <2> HIDE DEF vi, fi, level
  <2>4. n \in Int /\ Magnitude(n) <= Magnitude(vi) /\ Within(n, vi, steps * fi - 1)
    BY <2>2, <2>3, SMT DEF StandsFor
  <2> HIDE DEF n
  <2>5. Small(n, 32767)
    BY <2>1, <2>4, SMT DEF Small, Magnitude
  <2>6. Int16(n) = n
    BY <2>5, Fits16, SMT
  <2> QED BY <2>4, <2>6 DEF n, level, vi, fi
<1>3. g \in [ 1..16 -> Int ] /\ \A i \in 1..16 : g[i] = Int16(levels[i] * Factor(f, i))
  BY ONLY <1>2, Zenon
<1> HIDE DEF g
<1>4. dequantize(levels, f) = g
  BY <1>1, <1>3, SpreadIs
<1>5. ASSUME NEW i \in 1..16
      PROVE  Within(g[i], v[i], IF i = 1 THEN steps * f[1] - 1 ELSE steps * f[2] - 1)
  <2>1. CASE i = 1
    BY <1>2, <1>3, <2>1 DEF Factor
  <2>2. CASE i # 1
    BY <1>2, <1>3, <2>2 DEF Factor
  <2> QED BY <2>1, <2>2
<1> QED BY <1>3, <1>4, <1>5 DEF Near16, Blocks

-----------------------------------------------------------------------------
(* The tables of the quantizer.                                              *)
(* The tables' rows and what is in them.                                     *)
TableRows == 1..128
DcFactors == 4..157
AcFactors == 4..284

LEMMA DcTable == \A i \in TableRows : dc_qlookup[i] \in DcFactors
<1>1. \A i \in 1..128 : dc_qlookup[i] \in Int
  BY SMTT(60) DEF dc_qlookup
<1>2. \A i \in 1..128 : dc_qlookup[i] >= 4
  BY SMTT(60) DEF dc_qlookup
<1>3. \A i \in 1..128 : dc_qlookup[i] <= 157
  BY SMTT(60) DEF dc_qlookup
<1> SUFFICES ASSUME NEW i \in 1..128 PROVE dc_qlookup[i] \in 4..157
  BY DEF TableRows, DcFactors
<1> DEFINE n == dc_qlookup[i]
<1>4. n \in Int /\ n >= 4 /\ n <= 157
  BY <1>1, <1>2, <1>3
<1> HIDE DEF n
<1>5. n \in 4..157
  BY <1>4, SMT
<1> QED BY <1>5 DEF n

LEMMA SeqJoined ==
  ASSUME NEW S, NEW a \in Seq(S), NEW b \in Seq(S)
  PROVE  a \o b \in Seq(S) /\ Len(a \o b) = Len(a) + Len(b)
BY ConcatProperties, Zenon

LEMMA Fine == [ i \in 1..55 |-> i + 3 ] \in Seq(4..284) /\ Len([ i \in 1..55 |-> i + 3 ]) = 55
BY SMT
LEMMA Middling ==
  [ i \in 1..29 |-> 58 + 2 * i ] \in Seq(4..284) /\ Len([ i \in 1..29 |-> 58 + 2 * i ]) = 29
BY SMT
LEMMA Coarse ==
  [ i \in 1..19 |-> 116 + 3 * i ] \in Seq(4..284) /\ Len([ i \in 1..19 |-> 116 + 3 * i ]) = 19
BY SMT

LEMMA AcTable == \A i \in TableRows : ac_qlookup[i] \in AcFactors
<1> DEFINE a == [ i \in 1..55 |-> i + 3 ]
           b == [ i \in 1..29 |-> 58 + 2 * i ]
           c == [ i \in 1..19 |-> 116 + 3 * i ]
           d == << 177, 181, 185, 189, 193, 197, 201, 205, 209, 213, 217, 221, 225, 229, 234,
                   239, 245, 249, 254, 259, 264, 269, 274, 279, 284 >>
           S == 4..284
<1>1. d \in Seq(S) /\ Len(d) = 25
  BY SMTT(60)
<1>2. ac_qlookup = a \o b \o c \o d
  BY DEF ac_qlookup
<1>3. a \in Seq(S) /\ Len(a) = 55 /\ b \in Seq(S) /\ Len(b) = 29 /\ c \in Seq(S) /\ Len(c) = 19
  BY Fine, Middling, Coarse
<1> HIDE DEF a, b, c, d, S
<1>4. /\ a \o b \in Seq(S) /\ Len(a \o b) = Len(a) + Len(b)
      /\ a \o b \o c \in Seq(S) /\ Len(a \o b \o c) = Len(a) + Len(b) + Len(c)
      /\ ac_qlookup \in Seq(S) /\ Len(ac_qlookup) = Len(a) + Len(b) + Len(c) + Len(d)
  <2>1. a \o b \in Seq(S) /\ Len(a \o b) = Len(a) + Len(b)
    BY <1>3, SeqJoined, Zenon
  <2> DEFINE ab == a \o b
  <2>2. ab \o c \in Seq(S) /\ Len(ab \o c) = Len(ab) + Len(c)
    BY <1>3, <2>1, SeqJoined, Zenon
  <2> DEFINE abc == ab \o c
  <2>3. abc \o d \in Seq(S) /\ Len(abc \o d) = Len(abc) + Len(d)
    BY <1>1, <2>2, SeqJoined, Zenon
  <2> QED BY <1>2, <2>1, <2>2, <2>3, Zenon
<1>6. Len(ac_qlookup) = 128
  BY <1>1, <1>3, <1>4, SMT
<1>7. \A i \in 1..Len(ac_qlookup) : ac_qlookup[i] \in S
  BY <1>4, ElementOfSeq, Zenon
<1> QED BY <1>6, <1>7 DEF S, TableRows, AcFactors

LEMMA ClampedIs ==
  ASSUME NEW q \in Int
  PROVE  clamp_q(q) + 1 \in TableRows
BY SMT DEF clamp_q, TableRows

LEMMA Y2FactorIs ==
  ASSUME NEW n \in 4..284
  PROVE  (IF (n * 155) \div 100 < 8 THEN 8 ELSE (n * 155) \div 100) \in 8..440
<1> DEFINE q == (n * 155) \div 100
<1>1. q \in Int /\ 100 * q <= n * 155 /\ n * 155 < 100 * q + 100
  BY SMT
<1> HIDE DEF q
<1>2. (IF q < 8 THEN 8 ELSE q) \in 8..440
  BY <1>1, SMT
<1> QED BY <1>2 DEF q

QuantizerOK(q) ==
  /\ q.Y[1] \in 4..157 /\ q.Y[2] \in 4..284
  /\ q.Y2[1] \in 8..314 /\ q.Y2[2] \in 8..440
  /\ q.UV[1] \in 4..132 /\ q.UV[2] \in 4..284

LEMMA QuantizerIs ==
  ASSUME NEW indices \in QuantizerIndices
  PROVE  QuantizerOK(Quantizer(indices))
<1> DEFINE Dc(delta) == dc_qlookup[clamp_q(indices.y_ac_qi + delta) + 1]
           Ac(delta) == ac_qlookup[clamp_q(indices.y_ac_qi + delta) + 1]
           y2 == IF (Ac(indices.y2_ac) * 155) \div 100 < 8 THEN 8
                 ELSE (Ac(indices.y2_ac) * 155) \div 100
           uv == IF Dc(indices.uv_dc) > 132 THEN 132 ELSE Dc(indices.uv_dc)
           q == Quantizer(indices)
<1>1. /\ q.Y[1] = Dc(indices.y_dc) /\ q.Y[2] = Ac(0)
      /\ q.Y2[1] = 2 * Dc(indices.y2_dc) /\ q.Y2[2] = y2
      /\ q.UV[1] = uv /\ q.UV[2] = Ac(indices.uv_ac)
  BY DEF Quantizer
<1>2. ASSUME NEW delta \in Int PROVE Dc(delta) \in DcFactors /\ Ac(delta) \in AcFactors
  <2>1. indices.y_ac_qi + delta \in Int
    BY SMT DEF QuantizerIndices
  <2>2. clamp_q(indices.y_ac_qi + delta) + 1 \in TableRows
    BY <2>1, ClampedIs, Zenon
  <2> QED BY <2>2, DcTable, AcTable, Zenon
<1>3. /\ indices.y_dc \in Int /\ indices.y2_dc \in Int /\ indices.y2_ac \in Int
      /\ indices.uv_dc \in Int /\ indices.uv_ac \in Int /\ 0 \in Int
  BY SMT DEF QuantizerIndices
<1>4. y2 \in 8..440
  <2>1. Ac(indices.y2_ac) \in 4..284
    BY <1>2, <1>3 DEF AcFactors
  <2> QED BY <2>1, Y2FactorIs, Zenon
<1> HIDE DEF Dc, Ac, y2, q
<1>5. /\ Dc(indices.y_dc) \in 4..157 /\ Ac(0) \in 4..284 /\ Dc(indices.y2_dc) \in 4..157
      /\ Dc(indices.uv_dc) \in 4..157 /\ Ac(indices.uv_ac) \in 4..284
  <2>1. /\ Dc(indices.y_dc) \in DcFactors /\ Ac(0) \in AcFactors
        /\ Dc(indices.y2_dc) \in DcFactors /\ Dc(indices.uv_dc) \in DcFactors
        /\ Ac(indices.uv_ac) \in AcFactors
    BY ONLY <1>2, <1>3, Zenon
  <2> QED BY ONLY <2>1 DEF DcFactors, AcFactors
<1>6. uv \in 4..132 /\ 2 * Dc(indices.y2_dc) \in 8..314
  BY <1>5, SMT
<1> HIDE DEF uv
<1>7. QuantizerOK(q)
  BY <1>1, <1>4, <1>5, <1>6 DEF QuantizerOK
<1> QED BY <1>7 DEF q

-----------------------------------------------------------------------------
(* A block on its own.                                                       *)
(* The tolerance of Near, and an error, in 3200ths, that is within it:       *)
(* differences of pixels are whole.                                          *)
Step(f) == IF f[1] > f[2] THEN f[1] ELSE f[2]
Tolerance(f, pass) == IF pass = 1 THEN 2 * Step(f) + 2 ELSE 4 * Step(f) + 2

Suffices(bound, tolerance) ==
  bound \in Nat /\ tolerance \in Nat /\ bound <= 3200 * tolerance + 3199

LEMMA ToleranceIs ==
  ASSUME NEW f, f[1] \in 4..157, f[2] \in 4..284, NEW pass \in {1, 2}
  PROVE  /\ pass * f[1] - 1 \in FirstErrors /\ pass * f[2] - 1 \in OtherErrors
         /\ Suffices(RestoredError(pass * f[1] - 1, pass * f[2] - 1), Tolerance(f, pass))
<1> DEFINE a == f[1]
           b == f[2]
<1>1. a \in Nat /\ 4 <= a /\ a <= 157 /\ b \in Nat /\ 4 <= b /\ b <= 284
  BY SMT
<1> HIDE DEF a, b
<1>2. CASE pass = 1
  <2>1. RestoredError(pass * a - 1, pass * b - 1) = 400 * (a - 1) + 5529 * (b - 1) + 11048
    BY <1>1, <1>2, SMT DEF RestoredError
  <2>2. Tolerance(f, pass) = IF a > b THEN 2 * a + 2 ELSE 2 * b + 2
    BY <1>1, <1>2, SMT DEF Tolerance, Step, a, b
  <2>3. pass * a - 1 = a - 1 /\ pass * b - 1 = b - 1
    BY <1>1, <1>2, SMT
  <2>4. a - 1 \in FirstErrors /\ b - 1 \in OtherErrors
    BY <1>1, SMT DEF FirstErrors, OtherErrors
  <2>5. Suffices(RestoredError(pass * a - 1, pass * b - 1), Tolerance(f, pass))
    BY <1>1, <2>1, <2>2, SMT DEF Suffices
  <2> QED BY <2>3, <2>4, <2>5 DEF a, b
<1>3. CASE pass = 2
  <2>1. RestoredError(pass * a - 1, pass * b - 1)
          = 400 * (2 * a - 1) + 5529 * (2 * b - 1) + 11048
    BY <1>1, <1>3, SMT DEF RestoredError
  <2>2. Tolerance(f, pass) = IF a > b THEN 4 * a + 2 ELSE 4 * b + 2
    BY <1>1, <1>3, SMT DEF Tolerance, Step, a, b
  <2>3. pass * a - 1 = 2 * a - 1 /\ pass * b - 1 = 2 * b - 1
    BY <1>1, <1>3, SMT
  <2>4. 2 * a - 1 \in FirstErrors /\ 2 * b - 1 \in OtherErrors
    BY <1>1, SMT DEF FirstErrors, OtherErrors
  <2>5. Suffices(RestoredError(pass * a - 1, pass * b - 1), Tolerance(f, pass))
    BY <1>1, <2>1, <2>2, SMT DEF Suffices
  <2> QED BY <2>3, <2>4, <2>5 DEF a, b
<1> QED BY <1>2, <1>3

LEMMA NearEnough ==
  ASSUME NEW q, NEW o \in 0..255, NEW bound, NEW tolerance, NearPixel(q, o, bound),
         Suffices(bound, tolerance)
  PROVE  Magnitude(q - o) <= tolerance
BY SMT DEF NearPixel, Within, Magnitude, Suffices

LEMMA SpelledIs ==
  ASSUME NEW level, NEW v, Small(v, 2040), NEW f \in Nat \ {0}, NEW steps \in {1, 2},
         StandsFor(level, v, f, steps)
  PROVE  level \in -2048..2047
<1>1. level \in Int /\ Magnitude(level * f) <= Magnitude(v) /\ v \in Int /\ -2040 <= v /\ v <= 2040
  BY SMT DEF StandsFor, Small
<1>2. level * f \in Int /\ level * f <= 2040 /\ -2040 <= level * f
  BY <1>1, SMT DEF Magnitude
<1>3. CASE level >= 0
  <2>1. level <= level * f
    BY <1>1, <1>3, SMT
  <2> QED BY <1>1, <1>2, <1>3, <2>1, SMT
<1>4. CASE level < 0
  <2>1. level * f <= level
    BY <1>1, <1>4, SMT
  <2> QED BY <1>1, <1>2, <1>4, <2>1, SMT
<1> QED BY <1>1, <1>3, <1>4, SMT

LEMMA StandIsSpelled ==
  ASSUME NEW v, AllSmall(v, 2040), NEW f, IsFactors(f), NEW steps \in {1, 2}, NEW levels,
         StandFor(levels, v, f, steps)
  PROVE  Spellable(levels)
<1>1. ASSUME NEW i \in 1..16 PROVE levels[i] \in -2048..2047
  <2>1. Small(v[i], 2040) /\ StandsFor(levels[i], v[i], Factor(f, i), steps)
    BY DEF AllSmall, StandFor
  <2>2. Factor(f, i) \in Nat \ {0}
    BY FactorType
  <2> QED BY <2>1, <2>2, SpelledIs, SMT
<1> QED BY ONLY <1>1 DEF Spellable

LEMMA Wider == ASSUME NEW v, AllSmall(v, 2040) PROVE AllSmall(v, 32767)
BY SMT DEF AllSmall, Small

LEMMA BlockRestored ==
  ASSUME NEW r \in ResidueBlock
  PROVE  BlockIsRestored(r)
<1> DEFINE f == Quantizer(r.indices)[r.plane]
           o == r.original
           p == r.prediction
           v == subtract_dct(o, p)
           levels == BlockLevels(r)
           w == dequantize(levels, f)
           pass == r.pass
<1>1. /\ o \in Squares /\ p \in Squares /\ pass \in {1, 2} /\ r.indices \in QuantizerIndices
      /\ r.plane \in {"Y", "UV"}
  BY DEF ResidueBlock
<1>2. f[1] \in 4..157 /\ f[2] \in 4..284
  <2>1. QuantizerOK(Quantizer(r.indices))
    BY <1>1, QuantizerIs
  <2>2. CASE r.plane = "Y"
    <3>1. f = Quantizer(r.indices).Y
      BY <2>2
    <3> QED BY <2>1, <3>1 DEF QuantizerOK
  <2>3. CASE r.plane = "UV"
    <3>1. f = Quantizer(r.indices).UV
      BY <2>3
    <3>2. f[1] \in 4..132 /\ f[2] \in 4..284
      BY <2>1, <3>1 DEF QuantizerOK
    <3> HIDE DEF f
    <3> QED BY <3>2, SMT
  <2> QED BY <1>1, <2>2, <2>3
<1>3. AllSmall(v, 2040)
  BY <1>1, CoefficientsSmall, SMT
<1>4. levels = IF pass = 1 THEN quantize(v, f) ELSE trellis_quantize(v, f, 1, r.lowered)
  BY DEF BlockLevels
<1>5. RestoredBlock(r, levels) = idct_add(w, p)
  BY DEF RestoredBlock
<1> HIDE DEF f, v, o, p, pass, levels
<1>6. IsFactors(f)
  BY <1>2, SMT DEF IsFactors
<1>7. StandFor(levels, v, f, pass)
  <2>1. v \in Blocks
    BY <1>3 DEF AllSmall
  <2>2. CASE pass = 1
    BY <1>4, <1>6, <2>1, <2>2, QuantizeIs
  <2>3. CASE pass = 2
    <3>1. levels = trellis_quantize(v, f, 1, r.lowered)
      BY <1>4, <2>3, SMT
    <3>2. 1 \in {1, 2} /\ (1 = 2 => v[1] = 0)
      BY SMT
    <3> QED BY <1>6, <2>1, <2>3, <3>1, <3>2, TrellisIs
  <2> QED BY <1>1, <2>2, <2>3
<1>8. Spellable(levels)
  BY <1>1, <1>3, <1>6, <1>7, StandIsSpelled, SMT
<1>9. Near16(w, v, pass * f[1] - 1, pass * f[2] - 1)
  BY <1>1, <1>3, <1>6, <1>7, Wider, DequantizeIs, SMT
<1> DEFINE E == pass * f[1] - 1
           D == pass * f[2] - 1
<1>10. /\ E \in FirstErrors /\ D \in OtherErrors
       /\ Suffices(RestoredError(E, D), Tolerance(f, pass))
  BY <1>1, <1>2, ToleranceIs, SMT
<1> HIDE DEF E, D, w
<1>12. \A i \in 1..16 : NearPixel(idct_add(w, p)[i], o[i], RestoredError(E, D))
  BY <1>1, <1>9, <1>10, Restores, SMT DEF v, E, D
<1>13. \A i \in 1..16 : Magnitude(idct_add(w, p)[i] - o[i]) <= Tolerance(f, pass)
  <2> TAKE i \in 1..16
  <2>1. o[i] \in 0..255
    BY <1>1, SMT DEF Squares
  <2>2. NearPixel(idct_add(w, p)[i], o[i], RestoredError(E, D))
    BY <1>12
  <2> QED BY ONLY <1>10, <2>1, <2>2, NearEnough, Zenon
<1>14. Near(RestoredBlock(r, levels), o, f, pass)
  BY <1>5, <1>13 DEF Near, Tolerance, Step
<1> QED BY <1>8, <1>14 DEF BlockIsRestored, levels, f, o, pass

-----------------------------------------------------------------------------
(* The transform of the first coefficients of a macroblock, and its inverse. *)
WalshRowIn(l1, l2, l3, l4) ==
  Small(l1, 2040) /\ Small(l2, 2040) /\ Small(l3, 2040) /\ Small(l4, 2040)

(* A row, and a column, of first coefficients, transformed.                  *)
WalshRow(l1, l2, l3, l4, y) ==
  /\ Small(y[1], 32641) /\ Small(y[2], 32641) /\ Small(y[3], 32641) /\ Small(y[4], 32641)
  /\ Within(y[1], 4 * (l1 + l2 + l3 + l4), 1)
  /\ y[2] = 4 * (l1 + l2 - l3 - l4)
  /\ y[3] = 4 * (l1 - l2 - l3 + l4)
  /\ y[4] = 4 * (l1 - l2 + l3 - l4)

LEMMA WalshRowIs ==
  ASSUME NEW l1, NEW l2, NEW l3, NEW l4, WalshRowIn(l1, l2, l3, l4)
  PROVE  WalshRow(l1, l2, l3, l4, walsh_row(<< l1, l2, l3, l4 >>))
<1> DEFINE n1 == (l1 + l3) * 4 + (l2 + l4) * 4 + (IF (l1 + l3) * 4 # 0 THEN 1 ELSE 0)
           n2 == (l1 - l3) * 4 + (l2 - l4) * 4
           n3 == (l1 - l3) * 4 - (l2 - l4) * 4
           n4 == (l1 + l3) * 4 - (l2 + l4) * 4
           y == walsh_row(<< l1, l2, l3, l4 >>)
<1>1. y = << Int16(n1), Int16(n2), Int16(n3), Int16(n4) >>
  BY SMT DEF walsh_row
<1>2. /\ Small(n1, 32641) /\ Small(n2, 32641) /\ Small(n3, 32641) /\ Small(n4, 32641)
      /\ Within(n1, 4 * (l1 + l2 + l3 + l4), 1)
      /\ n2 = 4 * (l1 + l2 - l3 - l4)
      /\ n3 = 4 * (l1 - l2 - l3 + l4)
      /\ n4 = 4 * (l1 - l2 + l3 - l4)
  BY SMT DEF WalshRowIn, Small, Within
<1> HIDE DEF n1, n2, n3, n4, y
<1>3. Small(n1, 32767) /\ Small(n2, 32767) /\ Small(n3, 32767) /\ Small(n4, 32767)
  BY <1>2, SMT DEF Small
<1>4. Int16(n1) = n1 /\ Int16(n2) = n2 /\ Int16(n3) = n3 /\ Int16(n4) = n4
  BY <1>3, Fits16, SMT
<1>5. y[1] = n1 /\ y[2] = n2 /\ y[3] = n3 /\ y[4] = n4
  BY <1>1, <1>4, SMT
<1>6. WalshRow(l1, l2, l3, l4, y)
  BY <1>2, <1>5, SMT DEF WalshRow
<1> QED BY <1>6 DEF y

WalshColumnIn(y1, y2, y3, y4) ==
  Small(y1, 32641) /\ Small(y2, 32641) /\ Small(y3, 32641) /\ Small(y4, 32641)

WalshColumn(y1, y2, y3, y4, c) ==
  /\ Small(c[1], 16321) /\ Small(c[2], 16321) /\ Small(c[3], 16321) /\ Small(c[4], 16321)
  /\ Within(8 * c[1], y1 + y2 + y3 + y4, 4) /\ Within(8 * c[2], y1 + y2 - y3 - y4, 4)
  /\ Within(8 * c[3], y1 - y2 - y3 + y4, 4) /\ Within(8 * c[4], y1 - y2 + y3 - y4, 4)

LEMMA EighthSmall ==
  ASSUME NEW n \in Int, NEW m, m = n, Small(n, 130564)
  PROVE  /\ Small(Eighth(n), 16321) /\ Within(8 * Eighth(n), m, 4)
         /\ Int16(Eighth(n)) = Eighth(n)
<1> DEFINE q == Eighth(n)
<1>1. q \in Int /\ Within(8 * q, n, 4)
  BY EighthIs, SMT
<1> HIDE DEF q
<1>2. Small(q, 16321) /\ Small(q, 32767)
  BY <1>1, SMT DEF Small, Within
<1>3. Int16(q) = q
  BY <1>2, Fits16, SMT
<1> QED BY <1>1, <1>2, <1>3 DEF q

LEMMA WalshColumnIs ==
  ASSUME NEW y1, NEW y2, NEW y3, NEW y4, WalshColumnIn(y1, y2, y3, y4)
  PROVE  WalshColumn(y1, y2, y3, y4, walsh_column(<< y1, y2, y3, y4 >>))
<1> DEFINE m1 == (y1 + y3) + (y2 + y4)
           m2 == (y1 - y3) + (y2 - y4)
           m3 == (y1 - y3) - (y2 - y4)
           m4 == (y1 + y3) - (y2 + y4)
           c == walsh_column(<< y1, y2, y3, y4 >>)
<1>1. c = << Int16(Eighth(m1)), Int16(Eighth(m2)), Int16(Eighth(m3)), Int16(Eighth(m4)) >>
  BY SMT DEF walsh_column, Eighth
<1>2. /\ m1 \in Int /\ Small(m1, 130564) /\ m1 = y1 + y2 + y3 + y4
      /\ m2 \in Int /\ Small(m2, 130564) /\ m2 = y1 + y2 - y3 - y4
      /\ m3 \in Int /\ Small(m3, 130564) /\ m3 = y1 - y2 - y3 + y4
      /\ m4 \in Int /\ Small(m4, 130564) /\ m4 = y1 - y2 + y3 - y4
  BY SMT DEF WalshColumnIn, Small
<1> HIDE DEF m1, m2, m3, m4, c
<1>3. c[1] = Int16(Eighth(m1)) /\ c[2] = Int16(Eighth(m2))
      /\ c[3] = Int16(Eighth(m3)) /\ c[4] = Int16(Eighth(m4))
  BY <1>1, SMT
<1>4. Small(c[1], 16321) /\ Within(8 * c[1], y1 + y2 + y3 + y4, 4)
  BY <1>2, <1>3, EighthSmall, SMT
<1>5. Small(c[2], 16321) /\ Within(8 * c[2], y1 + y2 - y3 - y4, 4)
  BY <1>2, <1>3, EighthSmall, SMT
<1>6. Small(c[3], 16321) /\ Within(8 * c[3], y1 - y2 - y3 + y4, 4)
  BY <1>2, <1>3, EighthSmall, SMT
<1>7. Small(c[4], 16321) /\ Within(8 * c[4], y1 - y2 + y3 - y4, 4)
  BY <1>2, <1>3, EighthSmall, SMT
<1>8. WalshColumn(y1, y2, y3, y4, c)
  BY <1>4, <1>5, <1>6, <1>7 DEF WalshColumn
<1> QED BY <1>8 DEF c

Y2Errors == 0..1000
UnwalshedError(E, D) == 4 + 2 * E + 6 * D

(* A line near a column's numbers, in halves; then a row near its numbers.   *)
Doubled(y1, y2, y3, y4, z, bound) ==
  /\ Within(2 * z[1], y1, bound) /\ Within(2 * z[2], y2, bound)
  /\ Within(2 * z[3], y3, bound) /\ Within(2 * z[4], y4, bound)

LEMMA WalshColumnReturns ==
  ASSUME NEW y1, NEW y2, NEW y3, NEW y4, NEW c, NEW w1, NEW w2, NEW w3, NEW w4,
         WalshColumnIn(y1, y2, y3, y4), WalshColumn(y1, y2, y3, y4, c),
         NEW E \in Y2Errors, NEW D \in Y2Errors, Levels(w1, w2, w3, w4, c, E, D)
  PROVE  Doubled(y1, y2, y3, y4, KeptUnwalsh(<< w1, w2, w3, w4 >>), UnwalshedError(E, D))
<1> DEFINE z == unwalsh_line(<< w1, w2, w3, w4 >>)
           k == KeptUnwalsh(<< w1, w2, w3, w4 >>)
           bound == UnwalshedError(E, D)
<1>1. k = << Int16(z[1]), Int16(z[2]), Int16(z[3]), Int16(z[4]) >>
  BY DEF KeptUnwalsh
<1>2. w1 \in Int /\ w2 \in Int /\ w3 \in Int /\ w4 \in Int
  BY DEF Levels
<1>3. z = unwalsh_line(<< w1, w2, w3, w4 >>)
  OBVIOUS
<1> HIDE DEF z
<1>4. /\ z[1] = w1 + w2 + w3 + w4 /\ z[2] = w1 + w2 - w3 - w4
      /\ z[3] = w1 - w2 - w3 + w4 /\ z[4] = w1 - w2 + w3 - w4
  BY <1>2, <1>3, UnwalshIs, SMT
<1>5. E \in Nat /\ D \in Nat /\ E <= 1000 /\ D <= 1000
  BY SMT DEF Y2Errors
<1>6. bound \in Nat /\ bound <= 8004 /\ bound = 4 + 2 * E + 6 * D
  BY <1>5, SMT DEF UnwalshedError
<1> HIDE DEF bound, k
<1>7. Within(2 * z[1], y1, bound)
  BY <1>2, <1>4, <1>5, <1>6, SMT DEF Levels, WalshColumn, WalshColumnIn, Small, Within
<1>8. Within(2 * z[2], y2, bound)
  BY <1>2, <1>4, <1>5, <1>6, SMT DEF Levels, WalshColumn, WalshColumnIn, Small, Within
<1>9. Within(2 * z[3], y3, bound)
  BY <1>2, <1>4, <1>5, <1>6, SMT DEF Levels, WalshColumn, WalshColumnIn, Small, Within
<1>10. Within(2 * z[4], y4, bound)
  BY <1>2, <1>4, <1>5, <1>6, SMT DEF Levels, WalshColumn, WalshColumnIn, Small, Within
<1>11. Small(z[1], 32767) /\ Small(z[2], 32767) /\ Small(z[3], 32767) /\ Small(z[4], 32767)
  BY <1>2, <1>4, <1>6, <1>7, <1>8, <1>9, <1>10, SMT DEF WalshColumnIn, Small, Within
<1>12. Int16(z[1]) = z[1] /\ Int16(z[2]) = z[2] /\ Int16(z[3]) = z[3] /\ Int16(z[4]) = z[4]
  BY <1>11, Fits16, SMT
<1>13. k[1] = z[1] /\ k[2] = z[2] /\ k[3] = z[3] /\ k[4] = z[4]
  BY <1>1, <1>12, SMT
<1>14. Doubled(y1, y2, y3, y4, k, bound)
  BY <1>7, <1>8, <1>9, <1>10, <1>13 DEF Doubled
<1> QED BY <1>14 DEF k, bound

Half(z1, z2, z3, z4, y, E, D) ==
  /\ z1 \in Int /\ z2 \in Int /\ z3 \in Int /\ z4 \in Int
  /\ Within(2 * z1, y[1], E) /\ Within(2 * z2, y[2], D)
  /\ Within(2 * z3, y[3], D) /\ Within(2 * z4, y[4], D)

FirstsError(E, D) == E + 3 * D + 9
HalfErrors == 0..10000

FirstsBack(l1, l2, l3, l4, r, bound) ==
  /\ Within(16 * r[1], 16 * l1, bound) /\ Within(16 * r[2], 16 * l2, bound)
  /\ Within(16 * r[3], 16 * l3, bound) /\ Within(16 * r[4], 16 * l4, bound)

LEMMA ThreeMore ==
  ASSUME NEW n \in Int
  PROVE  (n + 3) \div 8 \in Int /\ Within(8 * ((n + 3) \div 8), n, 4)
<1>1. IsFloor((n + 3) \div 8, n + 3, 8)
  BY Floor8, SMT
<1> DEFINE q == (n + 3) \div 8
<1> HIDE DEF q
<1>2. q \in Int /\ Within(8 * q, n, 4)
  BY <1>1, SMT DEF IsFloor, Within, q
<1> QED BY <1>2 DEF q

LEMMA FirstFits ==
  ASSUME NEW r \in Int, NEW l, Small(l, 2040), NEW bound \in Nat, bound <= 40009,
         Within(16 * r, 16 * l, bound)
  PROVE  Int16(r) = r
<1>1. Small(r, 32767)
  BY SMT DEF Small, Within
<1> QED BY <1>1, Fits16, SMT

LEMMA FirstsErrorIs ==
  ASSUME NEW E \in HalfErrors, NEW D \in HalfErrors
  PROVE  /\ FirstsError(E, D) \in Nat /\ FirstsError(E, D) <= 40009
         /\ FirstsError(E, D) = E + 3 * D + 9
<1>1. E \in Nat /\ D \in Nat /\ E <= 10000 /\ D <= 10000
  BY SMT DEF HalfErrors
<1> QED BY <1>1, SMT DEF FirstsError

LEMMA WalshRowReturns ==
  ASSUME NEW l1, NEW l2, NEW l3, NEW l4, NEW y, NEW z1, NEW z2, NEW z3, NEW z4,
         WalshRowIn(l1, l2, l3, l4), WalshRow(l1, l2, l3, l4, y),
         NEW E \in HalfErrors, NEW D \in HalfErrors, Half(z1, z2, z3, z4, y, E, D)
  PROVE  FirstsBack(l1, l2, l3, l4, RoundedUnwalsh(<< z1, z2, z3, z4 >>), FirstsError(E, D))
<1> DEFINE out == unwalsh_line(<< z1, z2, z3, z4 >>)
           r == RoundedUnwalsh(<< z1, z2, z3, z4 >>)
           r1 == (out[1] + 3) \div 8
           r2 == (out[2] + 3) \div 8
           r3 == (out[3] + 3) \div 8
           r4 == (out[4] + 3) \div 8
           bound == FirstsError(E, D)
<1>1. r = << Int16(r1), Int16(r2), Int16(r3), Int16(r4) >>
  BY DEF RoundedUnwalsh
<1>2. z1 \in Int /\ z2 \in Int /\ z3 \in Int /\ z4 \in Int
  BY DEF Half
<1>3. out = unwalsh_line(<< z1, z2, z3, z4 >>)
  OBVIOUS
<1> HIDE DEF out
<1>4. /\ out[1] = z1 + z2 + z3 + z4 /\ out[2] = z1 + z2 - z3 - z4
      /\ out[3] = z1 - z2 - z3 + z4 /\ out[4] = z1 - z2 + z3 - z4
  BY <1>2, <1>3, UnwalshIs, SMT
<1>5. out[1] \in Int /\ out[2] \in Int /\ out[3] \in Int /\ out[4] \in Int
  BY <1>2, <1>4, SMT
<1>6. /\ r1 \in Int /\ Within(8 * r1, out[1], 4) /\ r2 \in Int /\ Within(8 * r2, out[2], 4)
      /\ r3 \in Int /\ Within(8 * r3, out[3], 4) /\ r4 \in Int /\ Within(8 * r4, out[4], 4)
  BY <1>5, ThreeMore, SMT
<1>7. bound \in Nat /\ bound <= 40009 /\ bound = E + 3 * D + 9
  BY FirstsErrorIs, SMT
<1>8. E \in Nat /\ D \in Nat
  BY SMT DEF HalfErrors
<1> HIDE DEF r, r1, r2, r3, r4, bound
<1>9. Within(16 * r1, 16 * l1, bound)
  BY <1>2, <1>4, <1>6, <1>7, <1>8, SMT DEF Half, WalshRow, WalshRowIn, Small, Within
<1>10. Within(16 * r2, 16 * l2, bound)
  BY <1>2, <1>4, <1>6, <1>7, <1>8, SMT DEF Half, WalshRow, WalshRowIn, Small, Within
<1>11. Within(16 * r3, 16 * l3, bound)
  BY <1>2, <1>4, <1>6, <1>7, <1>8, SMT DEF Half, WalshRow, WalshRowIn, Small, Within
<1>12. Within(16 * r4, 16 * l4, bound)
  BY <1>2, <1>4, <1>6, <1>7, <1>8, SMT DEF Half, WalshRow, WalshRowIn, Small, Within
<1>13. Int16(r1) = r1 /\ Int16(r2) = r2 /\ Int16(r3) = r3 /\ Int16(r4) = r4
  BY <1>6, <1>7, <1>9, <1>10, <1>11, <1>12, FirstFits, SMT DEF WalshRowIn
<1>14. r[1] = r1 /\ r[2] = r2 /\ r[3] = r3 /\ r[4] = r4
  BY <1>1, <1>13, SMT
<1>15. FirstsBack(l1, l2, l3, l4, r, bound)
  BY <1>9, <1>10, <1>11, <1>12, <1>14 DEF FirstsBack
<1> QED BY <1>15 DEF r, bound

LEMMA WalshRows ==
  ASSUME NEW x, AllSmall(x, 2040)
  PROVE  /\ AllSmall(AllWalshRow(x), 32641)
         /\ \A k \in Starts : WalshRow(x[k + 1], x[k + 2], x[k + 3], x[k + 4],
                                       Line(AllWalshRow(x), k))
<1> DEFINE y == AllWalshRow(x)
<1>1. y \in Blocks /\ \A k \in Starts : Line(y, k) = walsh_row(Line(x, k))
  BY EachWalshRow, SMT DEF AllSmall
<1> HIDE DEF y
<1>2. ASSUME NEW k \in Starts
      PROVE  WalshRow(x[k + 1], x[k + 2], x[k + 3], x[k + 4], Line(y, k))
  <2>1. WalshRowIn(x[k + 1], x[k + 2], x[k + 3], x[k + 4])
    BY StartAt, SMT DEF AllSmall, WalshRowIn
  <2>2. WalshRow(x[k + 1], x[k + 2], x[k + 3], x[k + 4], walsh_row(Line(x, k)))
    BY <2>1, WalshRowIs, SMT DEF Line
  <2> QED BY <1>1, <2>2, SMT
<1>3. ASSUME NEW i \in 1..16 PROVE Small(y[i], 32641)
  <2>1. PICK k \in Starts : i \in { k + 1, k + 2, k + 3, k + 4 }
    BY Everywhere, SMT
  <2>2. WalshRow(x[k + 1], x[k + 2], x[k + 3], x[k + 4], Line(y, k))
    BY <1>2
  <2> QED BY <2>1, <2>2, LineAt, SMT DEF WalshRow
<1>4. AllSmall(y, 32641)
  BY <1>1, <1>3, SMT DEF AllSmall
<1> QED BY <1>2, <1>4 DEF y

LEMMA WalshColumns ==
  ASSUME NEW y, AllSmall(y, 32641)
  PROVE  /\ AllSmall(AllWalshColumn(y), 16321)
         /\ \A k \in Starts : WalshColumn(y[k + 1], y[k + 2], y[k + 3], y[k + 4],
                                          Line(AllWalshColumn(y), k))
<1> DEFINE c == AllWalshColumn(y)
<1>1. c \in Blocks /\ \A k \in Starts : Line(c, k) = walsh_column(Line(y, k))
  BY EachWalshColumn, SMT DEF AllSmall
<1> HIDE DEF c
<1>2. ASSUME NEW k \in Starts
      PROVE  WalshColumn(y[k + 1], y[k + 2], y[k + 3], y[k + 4], Line(c, k))
  <2>1. WalshColumnIn(y[k + 1], y[k + 2], y[k + 3], y[k + 4])
    BY StartAt, SMT DEF AllSmall, WalshColumnIn
  <2>2. WalshColumn(y[k + 1], y[k + 2], y[k + 3], y[k + 4], walsh_column(Line(y, k)))
    BY <2>1, WalshColumnIs, SMT DEF Line
  <2> QED BY <1>1, <2>2, SMT
<1>3. ASSUME NEW i \in 1..16 PROVE Small(c[i], 16321)
  <2>1. PICK k \in Starts : i \in { k + 1, k + 2, k + 3, k + 4 }
    BY Everywhere, SMT
  <2>2. WalshColumn(y[k + 1], y[k + 2], y[k + 3], y[k + 4], Line(c, k))
    BY <1>2
  <2> QED BY <2>1, <2>2, LineAt, SMT DEF WalshColumn
<1>4. AllSmall(c, 16321)
  BY <1>1, <1>3, SMT DEF AllSmall
<1> QED BY <1>2, <1>4 DEF c

(* What is left of the rows of first coefficients, doubled.                  *)
LEMMA UnwalshedWithin ==
  ASSUME NEW y, AllSmall(y, 32641), NEW c,
         \A k \in Starts : WalshColumn(y[k + 1], y[k + 2], y[k + 3], y[k + 4], Line(c, k)),
         NEW E \in Y2Errors, NEW D \in Y2Errors, NEW w, Near16(w, c, E, D)
  PROVE  /\ AllKeptUnwalsh(w) \in Blocks
         /\ \A i \in 1..16 : Within(2 * AllKeptUnwalsh(w)[i], y[i],
                                    IF i <= 4 THEN UnwalshedError(E, D) ELSE UnwalshedError(D, D))
<1> DEFINE kept == AllKeptUnwalsh(w)
<1>1. kept \in Blocks /\ \A k \in Starts : Line(kept, k) = KeptUnwalsh(Line(w, k))
  BY EachKeptUnwalsh, SMT DEF Near16
<1> HIDE DEF kept
<1>2. ASSUME NEW k \in Starts
      PROVE  Doubled(y[k + 1], y[k + 2], y[k + 3], y[k + 4], Line(kept, k),
                     UnwalshedError(IF k = 0 THEN E ELSE D, D))
  <2> DEFINE first == IF k = 0 THEN E ELSE D
             c0 == Line(c, k)
  <2>1. WalshColumnIn(y[k + 1], y[k + 2], y[k + 3], y[k + 4])
    BY StartAt, SMT DEF AllSmall, WalshColumnIn
  <2>2. WalshColumn(y[k + 1], y[k + 2], y[k + 3], y[k + 4], c0)
    OBVIOUS
  <2>3. first \in Y2Errors /\ D \in Y2Errors
    OBVIOUS
  <2>4. /\ w[k + 1] \in Int /\ w[k + 2] \in Int /\ w[k + 3] \in Int /\ w[k + 4] \in Int
    BY LineType, SMT DEF Near16
  <2>5. /\ Within(w[k + 1], c[k + 1], first) /\ Within(w[k + 2], c[k + 2], D)
        /\ Within(w[k + 3], c[k + 3], D) /\ Within(w[k + 4], c[k + 4], D)
    BY StartAt, SMT DEF Near16, Starts
  <2>6. c0[1] = c[k + 1] /\ c0[2] = c[k + 2] /\ c0[3] = c[k + 3] /\ c0[4] = c[k + 4]
    BY LineAt, SMT
  <2> HIDE DEF first, c0
  <2>7. Levels(w[k + 1], w[k + 2], w[k + 3], w[k + 4], c0, first, D)
    BY <2>4, <2>5, <2>6, SMT DEF Levels
  <2>8. Doubled(y[k + 1], y[k + 2], y[k + 3], y[k + 4],
                KeptUnwalsh(<< w[k + 1], w[k + 2], w[k + 3], w[k + 4] >>),
                UnwalshedError(first, D))
    BY ONLY <2>1, <2>2, <2>3, <2>7, WalshColumnReturns, Zenon
  <2>9. Line(kept, k) = KeptUnwalsh(<< w[k + 1], w[k + 2], w[k + 3], w[k + 4] >>)
    BY <1>1 DEF Line
  <2> QED BY <2>8, <2>9 DEF first
<1>3. ASSUME NEW i \in 1..16
      PROVE  Within(2 * kept[i], y[i],
                    IF i <= 4 THEN UnwalshedError(E, D) ELSE UnwalshedError(D, D))
  <2> DEFINE bound == IF i <= 4 THEN UnwalshedError(E, D) ELSE UnwalshedError(D, D)
  <2>1. PICK k \in Starts : i \in { k + 1, k + 2, k + 3, k + 4 }
    BY Everywhere, SMT
  <2>2. k = 0 <=> i <= 4
    BY <2>1, SMT DEF Starts
  <2>3. bound = UnwalshedError(IF k = 0 THEN E ELSE D, D)
    <3>1. CASE k = 0
      BY <2>2, <3>1
    <3>2. CASE k # 0
      BY <2>2, <3>2
    <3> QED BY <3>1, <3>2
  <2> HIDE DEF bound
  <2>4. Doubled(y[k + 1], y[k + 2], y[k + 3], y[k + 4], Line(kept, k), bound)
    BY <1>2, <2>3
  <2>5. Within(2 * kept[i], y[i], bound)
    BY <2>1, <2>4, LineAt, SMT DEF Doubled
  <2> QED BY <2>5 DEF bound
<1> QED BY <1>1, <1>3 DEF kept

HalvesWithin(z, y, E, D) ==
  /\ z \in Blocks
  /\ \A i \in 1..16 : Within(2 * z[i], y[i], IF i \in { 1, 5, 9, 13 } THEN E ELSE D)

LEMMA HalvesTurned ==
  ASSUME NEW y, y \in Blocks, NEW kept \in Blocks, NEW E, NEW D,
         \A i \in 1..16 : Within(2 * kept[i], Transposed(y)[i], IF i <= 4 THEN E ELSE D)
  PROVE  HalvesWithin(Transposed(kept), y, E, D)
<1>1. Transposed(kept) \in Blocks
  BY Turned, Zenon
<1>2. ASSUME NEW i \in 1..16
      PROVE  Within(2 * Transposed(kept)[i], y[i], IF i \in { 1, 5, 9, 13 } THEN E ELSE D)
  <2>1. Turn[i] \in 1..16 /\ Turn[Turn[i]] = i /\ (Turn[i] <= 4 <=> i \in { 1, 5, 9, 13 })
    BY TurnIs, Zenon
  <2>2. Within(2 * kept[Turn[i]], Transposed(y)[Turn[i]], IF Turn[i] <= 4 THEN E ELSE D)
    BY <2>1
  <2>3. Transposed(y)[Turn[i]] = y[Turn[Turn[i]]] /\ Transposed(kept)[i] = kept[Turn[i]]
    BY <2>1, Turned, Zenon
  <2>4. CASE Turn[i] <= 4
    BY <2>1, <2>2, <2>3, <2>4
  <2>5. CASE ~(Turn[i] <= 4)
    BY <2>1, <2>2, <2>3, <2>5
  <2> QED BY <2>4, <2>5
<1> QED BY <1>1, <1>2 DEF HalvesWithin

LEMMA FirstsReturn ==
  ASSUME NEW x, AllSmall(x, 2040), NEW y,
         \A k \in Starts : WalshRow(x[k + 1], x[k + 2], x[k + 3], x[k + 4], Line(y, k)),
         NEW E \in HalfErrors, NEW D \in HalfErrors, NEW z, HalvesWithin(z, y, E, D)
  PROVE  /\ AllRoundedUnwalsh(z) \in Blocks
         /\ \A i \in 1..16 : Within(16 * AllRoundedUnwalsh(z)[i], 16 * x[i], FirstsError(E, D))
<1> DEFINE r == AllRoundedUnwalsh(z)
<1>1. r \in Blocks /\ \A k \in Starts : Line(r, k) = RoundedUnwalsh(Line(z, k))
  BY EachRoundedUnwalsh, SMT DEF HalvesWithin
<1> HIDE DEF r
<1>2. ASSUME NEW k \in Starts
      PROVE  FirstsBack(x[k + 1], x[k + 2], x[k + 3], x[k + 4], Line(r, k), FirstsError(E, D))
  <2> DEFINE y0 == Line(y, k)
  <2>1. WalshRowIn(x[k + 1], x[k + 2], x[k + 3], x[k + 4])
    BY StartAt, SMT DEF AllSmall, WalshRowIn
  <2>2. WalshRow(x[k + 1], x[k + 2], x[k + 3], x[k + 4], y0)
    OBVIOUS
  <2>3. /\ z[k + 1] \in Int /\ z[k + 2] \in Int /\ z[k + 3] \in Int /\ z[k + 4] \in Int
    BY LineType, SMT DEF HalvesWithin
  <2>4. /\ Within(2 * z[k + 1], y[k + 1], E) /\ Within(2 * z[k + 2], y[k + 2], D)
        /\ Within(2 * z[k + 3], y[k + 3], D) /\ Within(2 * z[k + 4], y[k + 4], D)
    BY StartAt, SMT DEF HalvesWithin
  <2>5. y0[1] = y[k + 1] /\ y0[2] = y[k + 2] /\ y0[3] = y[k + 3] /\ y0[4] = y[k + 4]
    BY LineAt, SMT
  <2> HIDE DEF y0
  <2>6. Half(z[k + 1], z[k + 2], z[k + 3], z[k + 4], y0, E, D)
    BY <2>3, <2>4, <2>5, SMT DEF Half
  <2>7. FirstsBack(x[k + 1], x[k + 2], x[k + 3], x[k + 4],
                   RoundedUnwalsh(<< z[k + 1], z[k + 2], z[k + 3], z[k + 4] >>),
                   FirstsError(E, D))
    <3>1. E \in HalfErrors /\ D \in HalfErrors
      OBVIOUS
    <3> QED BY ONLY <2>1, <2>2, <2>6, <3>1, WalshRowReturns, Zenon
  <2> QED BY <1>1, <2>7, SMT DEF Line
<1>3. ASSUME NEW i \in 1..16 PROVE Within(16 * r[i], 16 * x[i], FirstsError(E, D))
  <2>1. PICK k \in Starts : i \in { k + 1, k + 2, k + 3, k + 4 }
    BY Everywhere, SMT
  <2>2. FirstsBack(x[k + 1], x[k + 2], x[k + 3], x[k + 4], Line(r, k), FirstsError(E, D))
    BY <1>2
  <2> QED BY <2>1, <2>2, LineAt, SMT DEF FirstsBack
<1> QED BY <1>1, <1>3 DEF r

LEMMA WhtIs ==
  ASSUME NEW x
  PROVE  wht(x) = Transposed(AllWalshColumn(Transposed(AllWalshRow(x))))
BY DEF wht, EachColumn, AllWalshColumn, AllWalshRow

LEMMA IwhtIs ==
  ASSUME NEW w
  PROVE  iwht(w) = AllRoundedUnwalsh(Transposed(AllKeptUnwalsh(Transposed(w))))
BY DEF iwht, EachColumn, AllRoundedUnwalsh, AllKeptUnwalsh, RoundedUnwalsh, KeptUnwalsh

LEMMA WhtSmall ==
  ASSUME NEW x, AllSmall(x, 2040)
  PROVE  AllSmall(wht(x), 16321)
BY WalshRows, TurnedSmall, WalshColumns, WhtIs, SMT

(* The error of a first coefficient that went by way of Y2, in 16ths.        *)
Y2Error(E, D) == 25 + 2 * E + 30 * D

LEMMA UnwalshedErrorIs ==
  ASSUME NEW E \in Y2Errors, NEW D \in Y2Errors
  PROVE  UnwalshedError(E, D) \in HalfErrors /\ UnwalshedError(E, D) = 4 + 2 * E + 6 * D
<1>1. E \in Nat /\ D \in Nat /\ E <= 1000 /\ D <= 1000
  BY SMT DEF Y2Errors
<1>2. UnwalshedError(E, D) = 4 + 2 * E + 6 * D
  BY DEF UnwalshedError
<1>3. 4 + 2 * E + 6 * D \in 0..10000
  BY ONLY <1>1, SMT
<1> QED BY <1>2, <1>3 DEF HalfErrors

LEMMA WhtReturns ==
  ASSUME NEW x, AllSmall(x, 2040), NEW E \in Y2Errors, NEW D \in Y2Errors,
         NEW w, Near16(w, wht(x), E, D)
  PROVE  /\ iwht(w) \in Blocks
         /\ \A i \in 1..16 : Within(16 * iwht(w)[i], 16 * x[i], Y2Error(E, D))
<1> DEFINE y == AllWalshRow(x)
           c == AllWalshColumn(Transposed(y))
           kept == AllKeptUnwalsh(Transposed(w))
           e == UnwalshedError(E, D)
           d == UnwalshedError(D, D)
<1>1. /\ AllSmall(y, 32641)
      /\ \A k \in Starts : WalshRow(x[k + 1], x[k + 2], x[k + 3], x[k + 4], Line(y, k))
  BY WalshRows, SMT
<1>2. wht(x) = Transposed(c)
  BY WhtIs
<1> HIDE DEF y
<1>3. AllSmall(Transposed(y), 32641)
  BY <1>1, TurnedSmall, SMT
<1> DEFINE yt == Transposed(y)
<1>4. /\ \A k \in Starts : WalshColumn(yt[k + 1], yt[k + 2], yt[k + 3], yt[k + 4], Line(c, k))
      /\ c \in Blocks
  BY <1>3, WalshColumns, SMT DEF AllSmall
<1> HIDE DEF c
<1>5. Near16(Transposed(w), c, E, D)
  BY <1>2, <1>4, Near16Turned, SMT
<1>6. /\ kept \in Blocks
      /\ \A i \in 1..16 : Within(2 * kept[i], yt[i], IF i <= 4 THEN e ELSE d)
  BY <1>3, <1>4, <1>5, UnwalshedWithin, SMT
<1>7. iwht(w) = AllRoundedUnwalsh(Transposed(kept))
  BY IwhtIs
<1>8. /\ e \in HalfErrors /\ e = 4 + 2 * E + 6 * D
      /\ d \in HalfErrors /\ d = 4 + 2 * D + 6 * D
  BY UnwalshedErrorIs
<1>9. FirstsError(e, d) = Y2Error(E, D)
  <2>1. E \in Nat /\ D \in Nat
    BY SMT DEF Y2Errors
  <2> HIDE DEF e, d
  <2> QED BY <1>8, <2>1, SMT DEF FirstsError, Y2Error
<1> HIDE DEF kept, e, d
<1>10. HalvesWithin(Transposed(kept), y, e, d)
  BY <1>1, <1>6, HalvesTurned, SMT DEF AllSmall
<1> QED BY <1>1, <1>7, <1>8, <1>9, <1>10, FirstsReturn, SMT

-----------------------------------------------------------------------------
(* Small Y2 blocks, and a block whose first coefficient goes by way of Y2.   *)
(* A block of Y2 that check_reset_y2 drops is small.                         *)
Zeros == [ i \in 1..16 |-> 0 ]

LEMMA ZerosAre == Zeros \in Blocks /\ \A i \in 1..16 : Zeros[i] = 0
BY SMT DEF Zeros, Blocks

LEMMA MagnitudeType == \A n \in Int : Magnitude(n) \in Nat
BY SMT DEF Magnitude

LEMMA SmallestIs ==
  ASSUME NEW n \in Int, Magnitude(n) <= 34
  PROVE  Small(n, 34)
BY SMT DEF Magnitude, Small

LEMMA ResetIs ==
  ASSUME NEW v \in Blocks, NEW f
  PROVE  \/ check_reset_y2(v, f) = v
         \/ check_reset_y2(v, f) = Zeros /\ AllSmall(v, 34)
<1> DEFINE m(i) == Magnitude(v[i])
           sum == (m(1) + m(2) + m(3) + m(4)) + (m(5) + m(6) + m(7) + m(8))
                  + (m(9) + m(10) + m(11) + m(12)) + (m(13) + m(14) + m(15) + m(16))
<1>1. check_reset_y2(v, f)
        = IF (f[1] >= 35 /\ f[2] >= 35) \/ sum >= 35 THEN v ELSE Zeros
  BY SMT DEF check_reset_y2, Zeros
<1>2. \A i \in 1..16 : v[i] \in Int /\ m(i) \in Nat
  BY MagnitudeType DEF Blocks
<1>3. CASE sum >= 35 \/ (f[1] >= 35 /\ f[2] >= 35)
  BY <1>1, <1>3
<1>4. CASE ~(sum >= 35 \/ (f[1] >= 35 /\ f[2] >= 35))
  <2>1. check_reset_y2(v, f) = Zeros
    BY <1>1, <1>4
  <2>2. /\ m(1) \in Nat /\ m(2) \in Nat /\ m(3) \in Nat /\ m(4) \in Nat
        /\ m(5) \in Nat /\ m(6) \in Nat /\ m(7) \in Nat /\ m(8) \in Nat
        /\ m(9) \in Nat /\ m(10) \in Nat /\ m(11) \in Nat /\ m(12) \in Nat
        /\ m(13) \in Nat /\ m(14) \in Nat /\ m(15) \in Nat /\ m(16) \in Nat
    BY <1>2, SMT
  <2> HIDE DEF m
  <2>3. /\ m(1) <= 34 /\ m(2) <= 34 /\ m(3) <= 34 /\ m(4) <= 34
        /\ m(5) <= 34 /\ m(6) <= 34 /\ m(7) <= 34 /\ m(8) <= 34
        /\ m(9) <= 34 /\ m(10) <= 34 /\ m(11) <= 34 /\ m(12) <= 34
        /\ m(13) <= 34 /\ m(14) <= 34 /\ m(15) <= 34 /\ m(16) <= 34
    BY <1>4, <2>2, SMT
  <2>4. \A i \in 1..16 : m(i) <= 34
    BY <2>3, SMT
  <2>5. \A i \in 1..16 : Small(v[i], 34)
    BY <1>2, <2>4, SmallestIs, SMT DEF m
  <2> QED BY <2>1, <2>5 DEF AllSmall
<1> QED BY <1>3, <1>4

LEMMA WithFirstIs ==
  ASSUME NEW v \in Blocks, NEW n \in Int
  PROVE  /\ WithFirst(v, n) \in Blocks
         /\ WithFirst(v, n)[1] = n
         /\ \A i \in 2..16 : WithFirst(v, n)[i] = v[i]
<1>1. v \in Seq(Int) /\ Len(v) = 16 /\ v # << >>
  <2> DEFINE s == Spread(v)
  <2>1. \A i \in 1..16 : v[i] \in Int
    BY DEF Blocks
  <2>2. s \in Seq(Int) /\ Len(s) = 16
    BY <2>1, SMT DEF Spread
  <2>3. s = v
    BY SpreadIs DEF Blocks
  <2> HIDE DEF s
  <2>4. v # << >>
    <3>1. Len(<< >>) = 0
      BY EmptySeq, Zenon
    <3>2. 16 # 0
      BY SMT
    <3> QED BY <2>2, <2>3, <3>1, <3>2, Zenon
  <2> QED BY <2>2, <2>3, <2>4
<1> DEFINE t == Tail(v)
           s == << n >>
           u == s \o t
<1>2. t \in Seq(Int) /\ Len(t) = Len(v) - 1 /\ \A i \in 1..Len(t) : t[i] = v[i + 1]
  BY <1>1, HeadTailProperties, Zenon
<1>3. s \in Seq(Int) /\ Len(s) = 1 /\ s[1] = n
  BY SMT
<1> HIDE DEF s, t
<1>4. s \in Seq(Int) /\ t \in Seq(Int)
  BY <1>2, <1>3
<1>7. /\ u \in Seq(Int) /\ Len(u) = Len(s) + Len(t)
      /\ \A i \in 1 .. Len(s) + Len(t) : u[i] = IF i <= Len(s) THEN s[i] ELSE t[i - Len(s)]
  BY ONLY <1>4, ConcatProperties, Zenon
<1> HIDE DEF u
<1>8. Len(t) = 15 /\ Len(u) = 16
  BY <1>1, <1>2, <1>3, <1>7, SMT
<1>5. u[1] = n /\ \A i \in 2..16 : u[i] = v[i]
  <2>0. \A i \in 1..16 : u[i] = IF i <= 1 THEN s[i] ELSE t[i - 1]
    BY <1>3, <1>7, <1>8, SMT
  <2>1. u[1] = n
    BY <1>3, <2>0, SMT
  <2>2. ASSUME NEW i \in 2..16 PROVE u[i] = v[i]
    <3>1. i \in 1..16 /\ ~(i <= 1) /\ i - 1 \in 1..15 /\ (i - 1) + 1 = i
      BY SMT
    <3>2. u[i] = t[i - 1]
      BY <2>0, <3>1
    <3>3. t[i - 1] = v[(i - 1) + 1]
      BY <1>2, <1>8, <3>1
    <3> QED BY <3>1, <3>2, <3>3
  <2> QED BY <2>1, <2>2
<1>6. u \in Blocks
  <2>2. u \in [ 1..Len(u) -> Int ]
    BY <1>7, LenProperties, Zenon
  <2> QED BY <1>8, <2>2, Zenon DEF Blocks
<1> QED BY <1>5, <1>6 DEF WithFirst, u, s, t

LEMMA ZeroWord == Int16(0) = 0
BY SMT DEF Int16

LEMMA DequantizeZeros ==
  ASSUME NEW f, IsFactors(f), NEW levels \in Blocks, \A i \in 1..16 : levels[i] = 0
  PROVE  dequantize(levels, f) \in Blocks /\ \A i \in 1..16 : dequantize(levels, f)[i] = 0
<1> DEFINE g == [ i \in 1..16 |-> Int16(levels[i] * Factor(f, i)) ]
<1>1. dequantize(levels, f) = Spread(g)
  BY SMT DEF dequantize, Sixteen, Spread
<1>2. \A i \in 1..16 : levels[i] * Factor(f, i) = 0
  BY FactorType, SMT
<1>3. \A i \in 1..16 : Int16(levels[i] * Factor(f, i)) = 0
  BY <1>2, ZeroWord
<1>4. g \in [ 1..16 -> Int ] /\ \A i \in 1..16 : g[i] = 0
  BY <1>3, SMT
<1> HIDE DEF g
<1>5. dequantize(levels, f) = g
  BY <1>1, <1>4, SpreadIs
<1> QED BY <1>4, <1>5 DEF Blocks

LEMMA SpelledY2Is ==
  ASSUME NEW level, NEW v, Small(v, 16321), NEW f \in Nat, f >= 8, NEW steps \in {1, 2},
         StandsFor(level, v, f, steps)
  PROVE  level \in -2048..2047
<1>1. level \in Int /\ Magnitude(level * f) <= Magnitude(v) /\ v \in Int
      /\ -16321 <= v /\ v <= 16321
  BY SMT DEF StandsFor, Small
<1>2. level * f \in Int /\ level * f <= 16321 /\ -16321 <= level * f
  BY <1>1, SMT DEF Magnitude
<1>3. CASE level >= 0
  <2>1. 8 * level <= level * f
    BY <1>1, <1>3, SMT
  <2> QED BY <1>1, <1>2, <1>3, <2>1, SMT
<1>4. CASE level < 0
  <2>1. level * f <= 8 * level
    BY <1>1, <1>4, SMT
  <2> QED BY <1>1, <1>2, <1>4, <2>1, SMT
<1> QED BY <1>1, <1>3, <1>4, SMT

LEMMA StandIsSpelledY2 ==
  ASSUME NEW v, AllSmall(v, 16321), NEW f, IsFactors(f), f[1] >= 8, f[2] >= 8,
         NEW steps \in {1, 2}, NEW levels, StandFor(levels, v, f, steps)
  PROVE  Spellable(levels)
<1>1. ASSUME NEW i \in 1..16 PROVE levels[i] \in -2048..2047
  <2>1. Small(v[i], 16321) /\ StandsFor(levels[i], v[i], Factor(f, i), steps)
    BY DEF AllSmall, StandFor
  <2>2. Factor(f, i) \in Nat /\ Factor(f, i) >= 8
    BY SMT DEF IsFactors, Factor
  <2> QED BY <2>1, <2>2, SpelledY2Is, SMT
<1> QED BY ONLY <1>1 DEF Spellable

-----------------------------------------------------------------------------
(* A macroblock with Y2.                                                     *)

(* The second transform of a macroblock, there and back.                     *)
FirstsOf(t) == [ b \in 1..16 |-> t[b][1] ]

SecondLevels(f, pass, lowered, v) ==
  IF pass = 1 THEN quantize(v, f) ELSE trellis_quantize(check_reset_y2(v, f), f, 1, lowered)

Y2Factors(f) == f[1] \in 8..314 /\ f[2] \in 8..440

(* The errors of Y2: of the factors, or of a block that was dropped.         *)
Y2Errs(E, D, f, pass) ==
  /\ E \in Y2Errors /\ D \in Y2Errors
  /\ \/ E = pass * f[1] - 1 /\ D = pass * f[2] - 1
     \/ pass = 2 /\ E = 34 /\ D = 34

LEMMA FactorErrors ==
  ASSUME NEW f, Y2Factors(f), NEW pass \in {1, 2}
  PROVE  /\ pass * f[1] - 1 \in Y2Errors /\ pass * f[2] - 1 \in Y2Errors
         /\ IsFactors(f) /\ f[1] >= 8 /\ f[2] >= 8
<1>1. f[1] \in Nat /\ 8 <= f[1] /\ f[1] <= 314 /\ f[2] \in Nat /\ 8 <= f[2] /\ f[2] <= 440
  BY SMT DEF Y2Factors
<1>2. CASE pass = 1
  BY <1>1, <1>2, SMT DEF Y2Errors, IsFactors
<1>3. CASE pass = 2
  BY <1>1, <1>3, SMT DEF Y2Errors, IsFactors
<1> QED BY <1>2, <1>3

LEMMA Y2ErrorsAre == \A n \in Y2Errors : n \in Int /\ n \in Nat
BY SMT DEF Y2Errors

LEMMA FirstErrorsAre == \A n \in FirstErrors : n \in Nat
BY SMT DEF FirstErrors

LEMMA WiderY2 == ASSUME NEW v, AllSmall(v, 16321) PROVE AllSmall(v, 32767)
BY SMT DEF AllSmall, Small

LEMMA ZerosSmall == AllSmall(Zeros, 16321)
BY ZerosAre, SMT DEF AllSmall, Small

LEMMA ZeroLevel ==
  ASSUME NEW level, NEW f \in Nat \ {0}, NEW steps, StandsFor(level, 0, f, steps)
  PROVE  level = 0
<1>1. level \in Int /\ level * f = 0
  BY SMT DEF StandsFor, Magnitude
<1> QED BY <1>1, SMT

LEMMA DroppedIs ==
  ASSUME NEW v, AllSmall(v, 34), NEW f, IsFactors(f), NEW levels, StandFor(levels, Zeros, f, 2)
  PROVE  Near16(dequantize(levels, f), v, 34, 34)
<1>1. levels \in Blocks
  BY DEF StandFor
<1>2. ASSUME NEW i \in 1..16 PROVE levels[i] = 0
  <2>1. StandsFor(levels[i], 0, Factor(f, i), 2)
    BY ZerosAre, Zenon DEF StandFor
  <2> QED BY <2>1, FactorType, ZeroLevel, Zenon
<1> DEFINE w == dequantize(levels, f)
<1>3. w \in Blocks /\ \A i \in 1..16 : w[i] = 0
  BY <1>1, <1>2, DequantizeZeros
<1> HIDE DEF w
<1>4. ASSUME NEW i \in 1..16 PROVE Within(w[i], v[i], IF i = 1 THEN 34 ELSE 34)
  <2>1. Small(v[i], 34)
    BY DEF AllSmall
  <2> QED BY <1>3, <2>1, SMT DEF Small, Within
<1>5. Near16(w, v, 34, 34)
  BY <1>3, <1>4 DEF Near16
<1> QED BY <1>5 DEF w

LEMMA SecondIs ==
  ASSUME NEW v, AllSmall(v, 16321), NEW f, Y2Factors(f), NEW pass \in {1, 2}, NEW lowered,
         NEW levels, levels = SecondLevels(f, pass, lowered, v)
  PROVE  /\ Spellable(levels)
         /\ \E E, D \in Int : Y2Errs(E, D, f, pass) /\ Near16(dequantize(levels, f), v, E, D)
<1>1. /\ pass * f[1] - 1 \in Y2Errors /\ pass * f[2] - 1 \in Y2Errors
      /\ IsFactors(f) /\ f[1] >= 8 /\ f[2] >= 8
  BY FactorErrors
<1>2. v \in Blocks
  BY DEF AllSmall
<1>3. ASSUME StandFor(levels, v, f, pass)
      PROVE  /\ Spellable(levels)
             /\ \E E, D \in Int : Y2Errs(E, D, f, pass) /\ Near16(dequantize(levels, f), v, E, D)
  <2> DEFINE E == pass * f[1] - 1
             D == pass * f[2] - 1
  <2>1. Spellable(levels)
    BY <1>1, <1>3, StandIsSpelledY2, SMT
  <2>2. Near16(dequantize(levels, f), v, E, D)
    BY <1>1, <1>3, WiderY2, DequantizeIs, SMT
  <2>3. Y2Errs(E, D, f, pass)
    BY <1>1 DEF Y2Errs
  <2>4. E \in Int /\ D \in Int
    <3>1. E \in Y2Errors /\ D \in Y2Errors
      BY <1>1
    <3> HIDE DEF E, D
    <3> QED BY ONLY <3>1, Y2ErrorsAre
  <2> QED BY <2>1, <2>2, <2>3, <2>4
<1>4. CASE pass = 1
  <2>1. levels = quantize(v, f)
    BY <1>4 DEF SecondLevels
  <2>2. StandFor(levels, v, f, pass)
    BY <1>1, <1>2, <1>4, <2>1, QuantizeIs
  <2> QED BY <1>3, <2>2
<1>5. CASE pass = 2
  <2> DEFINE u == check_reset_y2(v, f)
  <2>1. levels = trellis_quantize(u, f, 1, lowered)
    BY <1>5, SMT DEF SecondLevels
  <2>2. u = v \/ (u = Zeros /\ AllSmall(v, 34))
    BY <1>2, ResetIs
  <2> HIDE DEF u
  <2>3. u \in Blocks
    BY <1>2, <2>2, ZerosAre
  <2>4. 1 \in {1, 2} /\ (1 = 2 => u[1] = 0)
    BY SMT
  <2>5. StandFor(levels, u, f, 2)
    BY <1>1, <2>1, <2>3, <2>4, TrellisIs
  <2>6. CASE u = v
    BY <1>3, <1>5, <2>5, <2>6
  <2>7. CASE u = Zeros /\ AllSmall(v, 34)
    <3>1. Spellable(levels)
      BY <1>1, <2>5, <2>7, ZerosSmall, StandIsSpelledY2, SMT
    <3>2. Near16(dequantize(levels, f), v, 34, 34)
      BY <1>1, <2>5, <2>7, DroppedIs, SMT
    <3>3. Y2Errs(34, 34, f, pass)
      BY <1>5, SMT DEF Y2Errs, Y2Errors
    <3>4. 34 \in Int
      BY SMT
    <3> QED BY <3>1, <3>2, <3>3, <3>4
  <2> QED BY <2>2, <2>6, <2>7
<1> QED BY <1>4, <1>5

BothFactors(y, y2) == << y[1] + (y2[1] \div 2), y[2] + (y2[2] \div 2) >>

(* How far the first coefficient ends from what it was.                      *)
FirstError(E, D) == Y2Error(E, D) \div 16

LEMMA FirstErrorIs ==
  ASSUME NEW E \in Y2Errors, NEW D \in Y2Errors
  PROVE  /\ FirstError(E, D) \in FirstErrors
         /\ 16 * FirstError(E, D) <= 25 + 2 * E + 30 * D
         /\ 25 + 2 * E + 30 * D < 16 * FirstError(E, D) + 16
<1> DEFINE n == 25 + 2 * E + 30 * D
           q == n \div 16
<1>1. E \in Nat /\ D \in Nat /\ E <= 1000 /\ D <= 1000
  BY SMT DEF Y2Errors
<1>2. n \in Nat /\ n <= 32025
  BY <1>1, SMT
<1> HIDE DEF n
<1>3. IsFloor(q, n, 16)
  BY <1>2, Floor16, SMT
<1> HIDE DEF q
<1>4. q \in FirstErrors /\ 16 * q <= n /\ n < 16 * q + 16
  BY <1>2, <1>3, SMT DEF IsFloor, FirstErrors
<1>5. FirstError(E, D) = q
  BY Zenon DEF q, n, FirstError, Y2Error
<1>6. n = 25 + 2 * E + 30 * D
  BY Zenon DEF n
<1> HIDE DEF FirstError
<1> QED BY ONLY <1>4, <1>5, <1>6, Zenon

LEMMA WholeTolerance ==
  ASSUME NEW y, y[1] \in 4..157, y[2] \in 4..284, NEW y2, Y2Factors(y2), NEW pass \in {1, 2},
         NEW E, NEW D, Y2Errs(E, D, y2, pass)
  PROVE  /\ pass * y[2] - 1 \in OtherErrors
         /\ Suffices(RestoredError(FirstError(E, D), pass * y[2] - 1),
                     Tolerance(BothFactors(y, y2), pass))
<1> DEFINE a == y[1]
           b == y[2]
           c == y2[1]
           d == y2[2]
           hc == c \div 2
           hd == d \div 2
           first == FirstError(E, D)
           tol == Tolerance(BothFactors(y, y2), pass)
<1>1. /\ a \in Nat /\ 4 <= a /\ b \in Nat /\ 4 <= b /\ b <= 284
      /\ c \in Nat /\ 8 <= c /\ c <= 314 /\ d \in Nat /\ 8 <= d /\ d <= 440
  BY SMT DEF Y2Factors
<1>2. /\ E \in Nat /\ D \in Nat
      /\ \/ E = pass * c - 1 /\ D = pass * d - 1
         \/ pass = 2 /\ E = 34 /\ D = 34
  BY SMT DEF Y2Errs, Y2Errors
<1>3. first \in Nat /\ 16 * first <= 25 + 2 * E + 30 * D
  <2>1. E \in Y2Errors /\ D \in Y2Errors
    BY DEF Y2Errs
  <2> QED BY <2>1, FirstErrorIs, FirstErrorsAre, Zenon
<1>4. tol = IF pass = 1 THEN 2 * Step(<< a + hc, b + hd >>) + 2
                        ELSE 4 * Step(<< a + hc, b + hd >>) + 2
  BY DEF Tolerance, BothFactors
<1> DEFINE coarse == Step(<< a + hc, b + hd >>)
<1>5. hc \in Nat /\ hd \in Nat /\ 2 * hd >= d - 1
  BY <1>1, SMT
<1>6. coarse \in Nat /\ coarse >= b + hd
  <2> HIDE DEF a, b, hc, hd
  <2> QED BY <1>1, <1>5, SMT DEF Step
<1> HIDE DEF a, b, c, d, hc, hd, first, tol, coarse
<1>7. CASE pass = 1
  <2>1. E = c - 1 /\ D = d - 1 /\ tol = 2 * coarse + 2 /\ pass * b - 1 = b - 1
    BY <1>1, <1>2, <1>4, <1>7, SMT DEF coarse
  <2>2. b - 1 \in OtherErrors
    BY <1>1, SMT DEF OtherErrors
  <2>3. RestoredError(first, b - 1) = 400 * first + 5529 * (b - 1) + 11048
    BY DEF RestoredError
  <2>4. 400 * first + 5529 * (b - 1) + 11048 <= 3200 * tol + 3199
    BY <1>1, <1>3, <1>5, <1>6, <2>1, SMT
  <2>5. Suffices(RestoredError(first, b - 1), tol)
    BY <1>1, <1>3, <1>6, <2>1, <2>3, <2>4, SMT DEF Suffices
  <2> QED BY <2>1, <2>2, <2>5 DEF b, first, tol
<1>8. CASE pass = 2
  <2>1. tol = 4 * coarse + 2 /\ pass * b - 1 = 2 * b - 1
    BY <1>1, <1>4, <1>8, SMT DEF coarse
  <2>2. 2 * b - 1 \in OtherErrors
    BY <1>1, SMT DEF OtherErrors
  <2>3. RestoredError(first, 2 * b - 1) = 400 * first + 5529 * (2 * b - 1) + 11048
    BY DEF RestoredError
  <2>4. 400 * first + 5529 * (2 * b - 1) + 11048 <= 3200 * tol + 3199
    <3>1. CASE E = pass * c - 1 /\ D = pass * d - 1
      <4>1. E = 2 * c - 1 /\ D = 2 * d - 1
        BY <1>1, <1>8, <3>1, SMT
      <4> QED BY <1>1, <1>3, <1>5, <1>6, <2>1, <4>1, SMT
    <3>2. CASE E = 34 /\ D = 34
      BY <1>1, <1>3, <1>5, <1>6, <2>1, <3>2, SMT
    <3> QED BY <1>2, <3>1, <3>2
  <2>5. Suffices(RestoredError(first, 2 * b - 1), tol)
    BY <1>1, <1>3, <1>6, <2>1, <2>3, <2>4, SMT DEF Suffices
  <2> QED BY <2>1, <2>2, <2>5 DEF b, first, tol
<1> QED BY <1>7, <1>8

LEMMA SpreadAt == ASSUME NEW g, NEW b \in 1..16 PROVE Spread(g)[b] = g[b]
BY SMT DEF Spread

LEMMA TransformedAre ==
  ASSUME NEW r \in ResidueWhole, NEW b \in 1..16
  PROVE  /\ Transformed(r)[b] = subtract_dct(r.original[b], r.prediction[b])
         /\ AllSmall(Transformed(r)[b], 2040)
         /\ r.original[b] \in Squares /\ r.prediction[b] \in Squares
<1> DEFINE g == [ c \in 1..16 |-> subtract_dct(r.original[c], r.prediction[c]) ]
<1>1. Transformed(r) = Spread(g)
  BY SMT DEF Transformed, Sixteen, Spread
<1>2. g[b] = subtract_dct(r.original[b], r.prediction[b])
  OBVIOUS
<1> HIDE DEF g
<1>3. r.original[b] \in Squares /\ r.prediction[b] \in Squares
  BY DEF ResidueWhole
<1>4. AllSmall(subtract_dct(r.original[b], r.prediction[b]), 2040)
  BY <1>3, CoefficientsSmall, SMT
<1>5. Transformed(r)[b] = g[b]
  BY <1>1, SpreadAt, Zenon
<1> QED BY <1>2, <1>3, <1>4, <1>5

AllTransformed(t) == \A b \in 1..16 : AllSmall(t[b], 2040)

LEMMA FirstsSmall ==
  ASSUME NEW t, AllTransformed(t)
  PROVE  AllSmall(FirstsOf(t), 2040) /\ \A b \in 1..16 : FirstsOf(t)[b] = t[b][1]
<1> DEFINE g == FirstsOf(t)
<1>1. \A b \in 1..16 : g[b] = t[b][1]
  BY DEF FirstsOf
<1>2. \A b \in 1..16 : Small(t[b][1], 2040)
  <2> TAKE b \in 1..16
  <2>1. AllSmall(t[b], 2040)
    BY DEF AllTransformed
  <2>2. 1 \in 1..16
    BY SMT
  <2> QED BY <2>1, <2>2 DEF AllSmall
<1>3. g \in Blocks
  BY <1>2, SMT DEF FirstsOf, Blocks, Small
<1> HIDE DEF g
<1>4. AllSmall(g, 2040)
  BY ONLY <1>1, <1>2, <1>3, SMT DEF AllSmall
<1> QED BY <1>1, <1>4 DEF g

LEMMA FirstCleared ==
  ASSUME NEW v, AllSmall(v, 2040)
  PROVE  AllSmall(WithFirst(v, 0), 2040)
<1>1. v \in Blocks /\ 0 \in Int
  BY SMT DEF AllSmall
<1> DEFINE u == WithFirst(v, 0)
<1>2. u \in Blocks /\ u[1] = 0 /\ \A i \in 2..16 : u[i] = v[i]
  BY ONLY <1>1, WithFirstIs, Zenon
<1> HIDE DEF u
<1>3. AllSmall(u, 2040)
  BY <1>2, SMT DEF AllSmall, Small
<1> QED BY <1>3 DEF u

LEMMA LumaStands ==
  ASSUME NEW r, r.pass \in {1, 2}, NEW t, AllTransformed(t), NEW f, f = Quantizer(r.indices).Y,
         IsFactors(f), NEW b \in 1..16
  PROVE  /\ StandFor(LumaLevels(r, t)[b], WithFirst(t[b], 0), f, r.pass)
         /\ AllSmall(WithFirst(t[b], 0), 2040)
<1> DEFINE v(c) == WithFirst(t[c], 0)
           Coded(c) == IF r.pass = 1 THEN quantize(v(c), f)
                       ELSE trellis_quantize(v(c), f, 2, r.lowered)
           g == [ c \in 1..16 |-> Coded(c) ]
           u == v(b)
<1>1. LumaLevels(r, t) = Spread(g)
  BY SMT DEF LumaLevels, Sixteen, Spread
<1>2. g[b] = IF r.pass = 1 THEN quantize(u, f) ELSE trellis_quantize(u, f, 2, r.lowered)
  OBVIOUS
<1> HIDE DEF g
<1>3. LumaLevels(r, t)[b] = g[b]
  BY <1>1, SpreadAt, Zenon
<1>4. AllSmall(t[b], 2040)
  BY DEF AllTransformed
<1>5. AllSmall(u, 2040)
  BY <1>4, FirstCleared, SMT
<1>6. u[1] = 0
  <2>1. t[b] \in Blocks /\ 0 \in Int
    BY <1>4, SMT DEF AllSmall
  <2> QED BY <2>1, WithFirstIs, Zenon
<1> HIDE DEF u
<1>7. u \in Blocks
  BY <1>5 DEF AllSmall
<1>8. StandFor(g[b], u, f, r.pass)
  <2>1. CASE r.pass = 1
    BY <1>2, <1>7, <2>1, QuantizeIs
  <2>2. CASE r.pass = 2
    <3>1. g[b] = trellis_quantize(u, f, 2, r.lowered)
      BY <1>2, <2>2, SMT
    <3>2. 2 \in {1, 2} /\ (2 = 2 => u[1] = 0)
      BY <1>6, SMT
    <3> QED BY <1>7, <2>2, <3>1, <3>2, TrellisIs
  <2> QED BY <2>1, <2>2
<1> QED BY <1>3, <1>5, <1>8 DEF u

LEMMA Y2LevelsAre ==
  ASSUME NEW r, NEW t
  PROVE  Y2Levels(r, t) = SecondLevels(Quantizer(r.indices).Y2, r.pass, r.lowered,
                                       wht(FirstsOf(t)))
<1>1. Sixteen(LAMBDA b : t[b][1]) = Spread(FirstsOf(t))
  BY SMT DEF Sixteen, Spread, FirstsOf
<1> QED BY <1>1, SMT DEF Y2Levels, SecondLevels, Sixteen, Spread, FirstsOf

LEMMA NearFirst ==
  ASSUME NEW E \in Y2Errors, NEW D \in Y2Errors, NEW n \in Int, NEW m \in Int,
         Within(16 * n, 16 * m, Y2Error(E, D))
  PROVE  Within(n, m, FirstError(E, D))
<1> DEFINE q == FirstError(E, D)
           a == Y2Error(E, D)
<1>1. q \in Nat /\ a < 16 * q + 16 /\ a \in Int
  <2>1. q \in FirstErrors /\ 25 + 2 * E + 30 * D < 16 * q + 16
    BY FirstErrorIs, Zenon
  <2>2. q \in Nat
    BY <2>1, FirstErrorsAre, Zenon
  <2>3. E \in Int /\ D \in Int
    BY Y2ErrorsAre, Zenon
  <2> HIDE DEF q
  <2> QED BY <2>1, <2>2, <2>3, SMT DEF Y2Error
<1>2. Within(16 * n, 16 * m, a)
  OBVIOUS
<1> HIDE DEF q, a
<1>3. Within(n, m, q)
  BY <1>1, <1>2, SMT DEF Within
<1> QED BY <1>3 DEF q

LEMMA Patched ==
  ASSUME NEW v, v \in Blocks, NEW w, NEW E, NEW D, NEW C, Near16(w, WithFirst(v, 0), C, D),
         NEW n \in Int, Within(n, v[1], E)
  PROVE  Near16(WithFirst(w, n), v, E, D)
<1> DEFINE u == WithFirst(v, 0)
           z == WithFirst(w, n)
<1>1. \A i \in 2..16 : u[i] = v[i]
  <2>1. 0 \in Int
    BY SMT
  <2> QED BY <2>1, WithFirstIs, Zenon
<1>2. w \in Blocks /\ \A i \in 1..16 : Within(w[i], u[i], IF i = 1 THEN C ELSE D)
  BY DEF Near16
<1>3. z \in Blocks /\ z[1] = n /\ \A i \in 2..16 : z[i] = w[i]
  BY <1>2, WithFirstIs, Zenon
<1> HIDE DEF u, z
<1>4. ASSUME NEW i \in 1..16 PROVE Within(z[i], v[i], IF i = 1 THEN E ELSE D)
  <2>1. CASE i = 1
    BY <1>3, <2>1
  <2>2. CASE i # 1
    <3>1. i \in 2..16
      BY <2>2, SMT
    <3>2. Within(w[i], u[i], D)
      BY <1>2, <2>2
    <3>3. z[i] = w[i] /\ u[i] = v[i]
      BY <1>1, <1>3, <3>1
    <3> QED BY <2>2, <3>2, <3>3
  <2> QED BY <2>1, <2>2
<1>5. Near16(z, v, E, D)
  BY ONLY <1>3, <1>4 DEF Near16
<1> QED BY <1>5 DEF z

(* A block of luma, with its first coefficient by way of Y2.                 *)
LEMMA LumaBack ==
  ASSUME NEW v, AllSmall(v, 2040), NEW y, y[1] \in 4..157, y[2] \in 4..284,
         NEW y2, Y2Factors(y2), NEW pass \in {1, 2}, NEW E, NEW D, Y2Errs(E, D, y2, pass),
         NEW levels, StandFor(levels, WithFirst(v, 0), y, pass),
         AllSmall(WithFirst(v, 0), 2040),
         NEW n \in Int, Within(16 * n, 16 * v[1], Y2Error(E, D))
  PROVE  /\ Spellable(levels)
         /\ Near16(WithFirst(dequantize(levels, y), n), v, FirstError(E, D), pass * y[2] - 1)
<1> DEFINE u == WithFirst(v, 0)
<1>1. IsFactors(y)
  BY SMT DEF IsFactors
<1>2. AllSmall(u, 32767)
  BY Wider, SMT
<1>3. Spellable(levels)
  BY <1>1, StandIsSpelled, SMT
<1>4. Near16(dequantize(levels, y), u, pass * y[1] - 1, pass * y[2] - 1)
  BY <1>1, <1>2, DequantizeIs, SMT
<1>5. v \in Blocks /\ v[1] \in Int
  <2>1. v \in Blocks
    BY DEF AllSmall
  <2>2. 1 \in 1..16
    BY SMT
  <2> QED BY <2>1, <2>2 DEF Blocks
<1>6. E \in Y2Errors /\ D \in Y2Errors
  BY DEF Y2Errs
<1>7. Within(n, v[1], FirstError(E, D))
  <2>1. n \in Int /\ Within(16 * n, 16 * v[1], Y2Error(E, D))
    OBVIOUS
  <2> QED BY ONLY <1>5, <1>6, <2>1, NearFirst, Zenon
<1>8. Near16(WithFirst(dequantize(levels, y), n), v, FirstError(E, D), pass * y[2] - 1)
  BY <1>4, <1>5, <1>7, Patched
<1> QED BY <1>3, <1>8

LEMMA MacroblockRestored ==
  ASSUME NEW r \in ResidueWhole
  PROVE  MacroblockIsRestored(r)
<1> DEFINE q == Quantizer(r.indices)
           y == q.Y
           y2 == q.Y2
           pass == r.pass
           t == Transformed(r)
           luma == LumaLevels(r, t)
           x == FirstsOf(t)
           second == Y2Levels(r, t)
           first == iwht(dequantize(second, y2))
           w(b) == WithFirst(dequantize(luma[b], y), first[b])
           Coded(b) == idct_add(w(b), r.prediction[b])
           g == [ b \in 1..16 |-> Coded(b) ]
           restored == apply_walsh(r, luma, second)
<1>1. pass \in {1, 2} /\ r.indices \in QuantizerIndices
  BY DEF ResidueWhole
<1>2. QuantizerOK(q)
  BY <1>1, QuantizerIs
<1>3. y[1] \in 4..157 /\ y[2] \in 4..284 /\ Y2Factors(y2)
  BY <1>2 DEF QuantizerOK, Y2Factors
<1>4. \A b \in 1..16 : /\ t[b] = subtract_dct(r.original[b], r.prediction[b])
                       /\ AllSmall(t[b], 2040)
                       /\ r.original[b] \in Squares /\ r.prediction[b] \in Squares
  BY TransformedAre
<1>5. AllTransformed(t)
  BY <1>4 DEF AllTransformed
<1>6. restored = Spread(g)
  BY SMT DEF apply_walsh, Sixteen, Spread
<1>7. \A b \in 1..16 : g[b] = idct_add(w(b), r.prediction[b])
  OBVIOUS
<1>8. second = SecondLevels(y2, pass, r.lowered, wht(x))
  BY Y2LevelsAre
<1>9. MacroblockIsRestored(r)
        <=> /\ Spellable(second) /\ \A b \in 1..16 : Spellable(luma[b])
            /\ \A b \in 1..16 : Near(restored[b], r.original[b], BothFactors(y, y2), pass)
  BY DEF MacroblockIsRestored, BothFactors
<1>10. \A b \in 1..16 : StandFor(luma[b], WithFirst(t[b], 0), y, pass)
                        /\ AllSmall(WithFirst(t[b], 0), 2040)
  <2>1. IsFactors(y)
    <3> HIDE DEF y
    <3> QED BY <1>3, SMT DEF IsFactors
  <2>2. TAKE b \in 1..16
  <2> QED BY <1>1, <1>5, <2>1, LumaStands, SMT
<1> HIDE DEF q, y, y2, t, luma, x, second, g, restored, pass
<1>11. AllSmall(x, 2040) /\ \A b \in 1..16 : x[b] = t[b][1]
  BY <1>5, FirstsSmall, SMT DEF x
<1>12. AllSmall(wht(x), 16321)
  BY <1>11, WhtSmall, SMT
<1>13. /\ Spellable(second)
       /\ \E E, D \in Int : Y2Errs(E, D, y2, pass) /\ Near16(dequantize(second, y2), wht(x), E, D)
  BY <1>1, <1>3, <1>8, <1>12, SecondIs, SMT
<1>14. PICK E \in Int, D \in Int :
         Y2Errs(E, D, y2, pass) /\ Near16(dequantize(second, y2), wht(x), E, D)
  BY <1>13
<1>15. /\ first \in Blocks
       /\ \A b \in 1..16 : Within(16 * first[b], 16 * x[b], Y2Error(E, D))
  <2>1. E \in Y2Errors /\ D \in Y2Errors
    BY <1>14 DEF Y2Errs
  <2> QED BY <1>11, <1>14, <2>1, WhtReturns, SMT
<1> DEFINE A == FirstError(E, D)
           B == pass * y[2] - 1
           tolerance == Tolerance(BothFactors(y, y2), pass)
<1>16. B \in OtherErrors /\ Suffices(RestoredError(A, B), tolerance)
  BY <1>1, <1>3, <1>14, WholeTolerance, SMT
<1>17. A \in FirstErrors
  BY <1>14, FirstErrorIs DEF Y2Errs
<1> HIDE DEF first
<1>18. ASSUME NEW b \in 1..16
       PROVE  Spellable(luma[b]) /\ Near16(w(b), t[b], A, B)
  <2>1. first[b] \in Int
    BY <1>15 DEF Blocks
  <2>2. Within(16 * first[b], 16 * t[b][1], Y2Error(E, D))
    <3>1. x[b] = t[b][1]
      BY <1>11
    <3>2. Within(16 * first[b], 16 * x[b], Y2Error(E, D))
      BY <1>15
    <3> QED BY ONLY <3>1, <3>2, Zenon
  <2>3. AllSmall(t[b], 2040) /\ StandFor(luma[b], WithFirst(t[b], 0), y, pass)
        /\ AllSmall(WithFirst(t[b], 0), 2040)
    BY <1>4, <1>10
  <2> QED BY ONLY <1>1, <1>3, <1>14, <2>1, <2>2, <2>3, LumaBack, SMT
<1> HIDE DEF w, A, B, tolerance
<1>19. ASSUME NEW b \in 1..16
       PROVE  Near(restored[b], r.original[b], BothFactors(y, y2), pass)
  <2> DEFINE o == r.original[b]
             p == r.prediction[b]
  <2>1. o \in Squares /\ p \in Squares
    BY <1>4
  <2>2. restored[b] = idct_add(w(b), p)
    BY <1>6, <1>7, SpreadAt, Zenon
  <2>3. Near16(w(b), subtract_dct(o, p), A, B)
    BY <1>4, <1>18
  <2> HIDE DEF o, p
  <2>4. \A i \in 1..16 : NearPixel(idct_add(w(b), p)[i], o[i], RestoredError(A, B))
    BY <1>16, <1>17, <2>1, <2>3, Restores
  <2>5. \A i \in 1..16 : Magnitude(restored[b][i] - o[i]) <= tolerance
    <3> TAKE i \in 1..16
    <3>1. o[i] \in 0..255
      BY <2>1, SMT DEF Squares
    <3>2. NearPixel(restored[b][i], o[i], RestoredError(A, B))
      BY <2>2, <2>4
    <3> QED BY ONLY <1>16, <3>1, <3>2, NearEnough, Zenon
  <2>6. Near(restored[b], o, BothFactors(y, y2), pass)
    BY <2>5 DEF Near, Tolerance, Step, tolerance
  <2> QED BY <2>6 DEF o
<1> QED BY <1>9, <1>13, <1>18, <1>19

-----------------------------------------------------------------------------
SampleTypeOK == sample \in Samples \cup {NoSample}

(* A sample is one of those the constants name.                              *)
LEMMA SampleTyped == Spec => []SampleTypeOK
<1>1. Init => SampleTypeOK
  BY DEF Init, SampleTypeOK
<1>2. SampleTypeOK /\ [Next]_vars => SampleTypeOK'
  BY DEF SampleTypeOK, Next, SearchQuantizer, CodeMacroblock, SearchMotion,
         Predict, TakeSample, vars, Samples
<1> QED BY <1>1, <1>2, PTL DEF Spec

(* Whatever a frame's levels, adjustments and sharpness, and whatever the    *)
(* eight pixels across an edge: the filter leaves bytes, moves none by more  *)
(* than 27, and where there is no high variance neither the step at the edge *)
(* nor the ups and downs across it grow, but for rounding                    *)
(* (loopfilter.cc:36-160, loopfilter_filters.hh:50-185).                     *)
THEOREM FilterAlwaysSmooths == Spec => []FilterSmooths
<1>1. ASSUME SampleTypeOK, sample.part = "edge" PROVE LineIsSmoothed(sample.edge)
  <2>1. sample.edge \in EdgeLines
    BY <1>1 DEF SampleTypeOK, Samples, NoSample
  <2> DEFINE e == sample.edge
  <2>2. /\ e.line \in Lines /\ e.frame.sharpness \in 0..7
        /\ filter_level(e.frame, e.mb) \in Int
    BY <2>1, SampleAssumption DEF Lines
  <2> HIDE DEF e
  <2>3. Filters(e.frame, e.mb) => \A offset : SmoothsLine(e.frame, e.mb, offset, e.line)
    BY <2>2, LineSmoothed
  <2>4. LineIsSmoothed(e)
    BY <2>3, Zenon DEF LineIsSmoothed
  <2> QED BY <2>4 DEF e
<1>2. SampleTypeOK => FilterSmooths
  BY <1>1 DEF FilterSmooths
<1> QED BY <1>2, SampleTyped, PTL

(* For every picture, raster, block and vector within the margin: the fast   *)
(* path of the decoder, its slow one, its SSE one and the encoder's copy     *)
(* with a margin all answer what the plain six-tap filter makes of the       *)
(* picture extended without end (prediction.cc:645-971,                      *)
(* safe_raster.cc:33-112).                                                   *)
THEOREM PathsAlwaysAgree == Spec => []PathsAgree
<1>1. ASSUME SampleTypeOK, sample.part = "inter" PROVE AgreesOn(sample.block)
  <2>1. sample.block \in InterBlock
    BY <1>1, SampleAssumption DEF SampleTypeOK, Samples, NoSample
  <2> QED BY <2>1, BlockAgrees
<1>2. SampleTypeOK => PathsAgree
  BY <1>1 DEF PathsAgree
<1> QED BY <1>2, SampleTyped, PTL

(* Whatever the pixels, the prediction, the indices, the pass and the levels *)
(* the second pass lowers: every level of a block, or of a macroblock with   *)
(* its Y2, can be spelled in tokens, and each pixel ends within a few of the *)
(* quantizer's steps of the original (encoder.cc:196-411, quantization.cc,   *)
(* dct.cc, transform.cc).                                                    *)
THEOREM ResidueAlwaysRestored == Spec => []ResidueIsRestored
<1>1. ASSUME SampleTypeOK, sample.part = "block" PROVE BlockIsRestored(sample.block)
  <2>1. sample.block \in ResidueBlock
    BY <1>1, SampleAssumption DEF SampleTypeOK, Samples, NoSample
  <2> QED BY <2>1, BlockRestored
<1>2. ASSUME SampleTypeOK, sample.part = "macroblock"
      PROVE  MacroblockIsRestored(sample.macroblock)
  <2>1. sample.macroblock \in ResidueWhole
    BY <1>2, SampleAssumption DEF SampleTypeOK, Samples, NoSample
  <2> QED BY <2>1, MacroblockRestored
<1>3. SampleTypeOK => ResidueIsRestored
  BY <1>1, <1>2 DEF ResidueIsRestored
<1> QED BY <1>3, SampleTyped, PTL
===============================================================================
