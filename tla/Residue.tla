------------------------------- MODULE Residue -------------------------------
(***************************************************************************)
(* The way of a residue through the encoder and back (dct.cc, transform.cc,*)
(* quantization.cc, encoder.cc): transform, quantization, and what the     *)
(* decoder makes of the levels.  The portable code; the assembly does the  *)
(* same.  Blocks are sequences of 16 numbers, row after row, macroblocks   *)
(* sequences of 16 blocks.                                                 *)
(***************************************************************************)
EXTENDS Integers, Sequences

Int16(n) == ((n + 32768) % 65536) - 32768
Pixel(n) == IF n < 0 THEN 0 ELSE IF n > 255 THEN 255 ELSE n
Magnitude(n) == IF n < 0 THEN -n ELSE n
Truncated(n, divisor) == IF n < 0 THEN -((-n) \div divisor) ELSE n \div divisor

Transposed(v) ==
  << v[1], v[5], v[9], v[13], v[2], v[6], v[10], v[14],
     v[3], v[7], v[11], v[15], v[4], v[8], v[12], v[16] >>

Each(v, Line(_)) ==
  Line(SubSeq(v, 1, 4)) \o Line(SubSeq(v, 5, 8))
  \o Line(SubSeq(v, 9, 12)) \o Line(SubSeq(v, 13, 16))

EachColumn(v, Line(_)) == Transposed(Each(Transposed(v), Line))

-----------------------------------------------------------------------------
dct_row(l) ==
  LET a1 == (l[1] + l[4]) * 8   b1 == (l[2] + l[3]) * 8
      c1 == (l[2] - l[3]) * 8   d1 == (l[1] - l[4]) * 8
  IN << Int16(a1 + b1), Int16((c1 * 2217 + d1 * 5352 + 14500) \div 4096),
        Int16(a1 - b1), Int16((d1 * 2217 - c1 * 5352 + 7500) \div 4096) >>

dct_column(l) ==
  LET a1 == l[1] + l[4]   b1 == l[2] + l[3]
      c1 == l[2] - l[3]   d1 == l[1] - l[4]
  IN << Int16((a1 + b1 + 7) \div 16),
        Int16(((c1 * 2217 + d1 * 5352 + 12000) \div 65536) + (IF d1 # 0 THEN 1 ELSE 0)),
        Int16(((a1 - b1) + 7) \div 16),
        Int16((d1 * 2217 - c1 * 5352 + 51000) \div 65536) >>

subtract_dct(block, prediction) ==
  EachColumn(Each([ i \in 1..16 |-> block[i] - prediction[i] ], dct_row), dct_column)

walsh_row(l) ==
  LET a1 == (l[1] + l[3]) * 4   d1 == (l[2] + l[4]) * 4
      c1 == (l[2] - l[4]) * 4   b1 == (l[1] - l[3]) * 4
  IN << Int16(a1 + d1 + (IF a1 # 0 THEN 1 ELSE 0)), Int16(b1 + c1), Int16(b1 - c1),
        Int16(a1 - d1) >>

walsh_column(l) ==
  LET a1 == l[1] + l[3]   d1 == l[2] + l[4]   c1 == l[2] - l[4]   b1 == l[1] - l[3]
      Rounded(n) == Int16(((IF n < 0 THEN n + 1 ELSE n) + 3) \div 8)
  IN << Rounded(a1 + d1), Rounded(b1 + c1), Rounded(b1 - c1), Rounded(a1 - d1) >>

wht(input) == EachColumn(Each(input, walsh_row), walsh_column)

unwalsh_line(l) ==
  LET a1 == l[1] + l[4]   b1 == l[2] + l[3]   c1 == l[2] - l[3]   d1 == l[1] - l[4]
  IN << a1 + b1, c1 + d1, a1 - b1, d1 - c1 >>

iwht(v) ==
  LET Kept(l) == LET out == unwalsh_line(l)
                 IN << Int16(out[1]), Int16(out[2]), Int16(out[3]), Int16(out[4]) >>
      Rounded(l) == LET out == unwalsh_line(l)
                    IN << Int16((out[1] + 3) \div 8), Int16((out[2] + 3) \div 8),
                          Int16((out[3] + 3) \div 8), Int16((out[4] + 3) \div 8) >>
  IN Each(EachColumn(v, Kept), Rounded)

MUL_20091(n) == ((n * 20091) \div 65536) + n
MUL_35468(n) == (n * 35468) \div 65536

undct_line(l) ==
  LET t0 == l[1] + l[3]
      t1 == l[1] - l[3]
      t2 == MUL_35468(l[2]) - MUL_20091(l[4])
      t3 == MUL_20091(l[2]) + MUL_35468(l[4])
  IN << t0 + t3, t1 + t2, t1 - t2, t0 - t3 >>

idct_add(v, output) ==
  LET Kept(l) == LET out == undct_line(l)
                 IN << Int16(out[1]), Int16(out[2]), Int16(out[3]), Int16(out[4]) >>
      Rounded(l) == LET out == undct_line(l)
                    IN << (out[1] + 4) \div 8, (out[2] + 4) \div 8,
                          (out[3] + 4) \div 8, (out[4] + 4) \div 8 >>
      residue == Each(EachColumn(v, Kept), Rounded)
  IN [ i \in 1..16 |-> Pixel(output[i] + residue[i]) ]

-----------------------------------------------------------------------------
dc_qlookup ==
  << 4, 5, 6, 7, 8, 9, 10, 10, 11, 12, 13, 14, 15, 16, 17, 17, 18, 19, 20, 20, 21, 21, 22,
     22, 23, 23, 24, 25, 25, 26, 27, 28, 29, 30, 31, 32, 33, 34, 35, 36, 37, 37, 38, 39, 40,
     41, 42, 43, 44, 45, 46, 46, 47, 48, 49, 50, 51, 52, 53, 54, 55, 56, 57, 58, 59, 60, 61,
     62, 63, 64, 65, 66, 67, 68, 69, 70, 71, 72, 73, 74, 75, 76, 76, 77, 78, 79, 80, 81, 82,
     83, 84, 85, 86, 87, 88, 89, 91, 93, 95, 96, 98, 100, 101, 102, 104, 106, 108, 110, 112,
     114, 116, 118, 122, 124, 126, 128, 130, 132, 134, 136, 138, 140, 143, 145, 148, 151,
     154, 157 >>

ac_qlookup ==
  [ i \in 1..55 |-> i + 3 ] \o [ i \in 1..29 |-> 58 + 2 * i ] \o [ i \in 1..19 |-> 116 + 3 * i ]
  \o << 177, 181, 185, 189, 193, 197, 201, 205, 209, 213, 217, 221, 225, 229, 234, 239, 245,
        249, 254, 259, 264, 269, 274, 279, 284 >>

clamp_q(q) == IF q < 0 THEN 0 ELSE IF q > 127 THEN 127 ELSE q

(* Seeded fault: the alternating factor of Y2 has no least value.            *)
QuantizerAsIs(indices) ==
  LET Dc(delta) == dc_qlookup[clamp_q(indices.y_ac_qi + delta) + 1]
      Ac(delta) == ac_qlookup[clamp_q(indices.y_ac_qi + delta) + 1]
      uv == Dc(indices.uv_dc)
  IN [ Y |-> << Dc(indices.y_dc), Ac(0) >>,
       Y2 |-> << 2 * Dc(indices.y2_dc), (Ac(indices.y2_ac) * 155) \div 100 >>,
       UV |-> << IF uv > 132 THEN 132 ELSE uv, Ac(indices.uv_ac) >> ]

(* The factors of a block's first coefficient and of the others.             *)
Quantizer(indices) ==
  LET Dc(delta) == dc_qlookup[clamp_q(indices.y_ac_qi + delta) + 1]
      Ac(delta) == ac_qlookup[clamp_q(indices.y_ac_qi + delta) + 1]
      y2_ac == (Ac(indices.y2_ac) * 155) \div 100
      uv_dc == Dc(indices.uv_dc)
  IN [ Y |-> << Dc(indices.y_dc), Ac(0) >>,
       Y2 |-> << 2 * Dc(indices.y2_dc), IF y2_ac < 8 THEN 8 ELSE y2_ac >>,
       UV |-> << IF uv_dc > 132 THEN 132 ELSE uv_dc, Ac(indices.uv_ac) >> ]

(* A segment's index is kept in a byte: below 0 it comes out at the coarse   *)
(* end of the tables.                                                        *)
segment_index(y_ac_qi, segment) ==
  (segment.quantizer + (IF segment.absolute THEN 0 ELSE y_ac_qi)) % 256

Factor(factors, i) == factors[IF i = 1 THEN 1 ELSE 2]

Sixteen(Level(_)) ==
  << Level(1), Level(2), Level(3), Level(4), Level(5), Level(6), Level(7), Level(8),
     Level(9), Level(10), Level(11), Level(12), Level(13), Level(14), Level(15), Level(16) >>

quantize(v, factors) ==
  LET Level(i) == Truncated(v[i], Factor(factors, i)) IN Sixteen(Level)

dequantize(v, factors) ==
  LET Value(i) == Int16(v[i] * Factor(factors, i)) IN Sixteen(Value)

(* The second pass may bring any level one nearer to zero, as its estimate   *)
(* of the bits will have it; a block of luma after Y2 has no first level.    *)
trellis_quantize(v, factors, first, lowered) ==
  LET Level(i) ==
        LET level == Truncated(v[i], Factor(factors, i))
        IN IF i < first THEN v[i]
           ELSE IF i \notin lowered \/ level = 0 THEN level
           ELSE IF level < 0 THEN level + 1 ELSE level - 1
  IN IF \A i \in first..16 : v[i] = 0 THEN [ i \in 1..16 |-> 0 ] ELSE Sixteen(Level)

(* A Y2 block with next to nothing in it is dropped in the second pass.      *)
check_reset_y2(v, factors) ==
  LET Sum(k) == Magnitude(v[k]) + Magnitude(v[k + 1]) + Magnitude(v[k + 2]) + Magnitude(v[k + 3])
  IN IF \/ factors[1] >= 35 /\ factors[2] >= 35
        \/ Sum(1) + Sum(5) + Sum(9) + Sum(13) >= 35
     THEN v
     ELSE [ i \in 1..16 |-> 0 ]

-----------------------------------------------------------------------------
(* What a block, or a macroblock with Y2, may be: bytes, whatever indices,   *)
(* either pass, and the levels the second one would lower.                   *)
Squares == [ 1..16 -> 0..255 ]

QuantizerIndices ==
  [ y_ac_qi : Int, y_dc : Int, y2_dc : Int, y2_ac : Int, uv_dc : Int, uv_ac : Int ]

ResidueBlock ==
  [ plane : {"Y", "UV"}, original : Squares, prediction : Squares,
    indices : QuantizerIndices, pass : {1, 2}, lowered : SUBSET (1..16) ]

ResidueWhole ==
  [ original : [ 1..16 -> Squares ], prediction : [ 1..16 -> Squares ],
    indices : QuantizerIndices, pass : {1, 2}, lowered : SUBSET (1..16) ]

(* A block on its own: chroma, or luma of a macroblock of subblock modes.    *)
BlockLevels(r) ==
  LET factors == Quantizer(r.indices)[r.plane]
      v == subtract_dct(r.original, r.prediction)
  IN IF r.pass = 1 THEN quantize(v, factors) ELSE trellis_quantize(v, factors, 1, r.lowered)

RestoredBlock(r, levels) ==
  idct_add(dequantize(levels, Quantizer(r.indices)[r.plane]), r.prediction)

(* The luma of a macroblock with Y2: apply_intra_prediction, apply_walsh.    *)
Transformed(r) ==
  LET Block(b) == subtract_dct(r.original[b], r.prediction[b]) IN Sixteen(Block)

WithFirst(v, value) == << value >> \o Tail(v)

LumaLevels(r, transformed) ==
  LET factors == Quantizer(r.indices).Y
      Block(b) == LET v == WithFirst(transformed[b], 0)
                  IN IF r.pass = 1 THEN quantize(v, factors)
                     ELSE trellis_quantize(v, factors, 2, r.lowered)
  IN Sixteen(Block)

Y2Levels(r, transformed) ==
  LET factors == Quantizer(r.indices).Y2
      First(b) == transformed[b][1]
      v == wht(Sixteen(First))
  IN IF r.pass = 1 THEN quantize(v, factors)
     ELSE trellis_quantize(check_reset_y2(v, factors), factors, 1, r.lowered)

apply_walsh(r, luma, y2) ==
  LET quantizer == Quantizer(r.indices)
      first == iwht(dequantize(y2, quantizer.Y2))
      Block(b) == idct_add(WithFirst(dequantize(luma[b], quantizer.Y), first[b]),
                           r.prediction[b])
  IN Sixteen(Block)

(* As many as the tables of costs, and of tokens, can hold.                  *)
Spellable(levels) == \A i \in 1..16 : levels[i] \in -2048..2047

(* How far a pixel may end from the original's: a few of the steps of the    *)
(* coarsest factor, twice as many after the second pass.                     *)
Near(restored, original, factors, pass) ==
  LET step == IF factors[1] > factors[2] THEN factors[1] ELSE factors[2]
  IN \A i \in 1..16 :
       Magnitude(restored[i] - original[i]) <= IF pass = 1 THEN 2 * step + 2 ELSE 4 * step + 2

BlockIsRestored(r) ==
  LET levels == BlockLevels(r)
  IN /\ Spellable(levels)
     /\ Near(RestoredBlock(r, levels), r.original, Quantizer(r.indices)[r.plane], r.pass)

MacroblockIsRestored(r) ==
  LET transformed == Transformed(r)
      luma == LumaLevels(r, transformed)
      y2 == Y2Levels(r, transformed)
      restored == apply_walsh(r, luma, y2)
      quantizer == Quantizer(r.indices)
      coarsest == << quantizer.Y[1] + (quantizer.Y2[1] \div 2),
                     quantizer.Y[2] + (quantizer.Y2[2] \div 2) >>
  IN /\ Spellable(y2) /\ \A b \in 1..16 : Spellable(luma[b])
     /\ \A b \in 1..16 : Near(restored[b], r.original[b], coarsest, r.pass)
=============================================================================
