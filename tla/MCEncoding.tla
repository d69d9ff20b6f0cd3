----------------------------- MODULE MCEncoding -----------------------------
(***************************************************************************)
(* A raster of two by two macroblocks that is not shown whole, small       *)
(* diamonds, short windows of quantizers, and blocks at the limits of      *)
(* pixels, quantizers and levels.                                          *)
(***************************************************************************)
EXTENDS Encoding, TLC

MCLasts == {-1, 0, 3, 7, 15}

(* A target that ever more quantizers meet, a quality, and pictures for      *)
(* which neither grows with the quantizer.                                   *)
MCPictures ==
  { 0..most : most \in -1..15 } \cup { least..15 : least \in 0..15 }
  \cup { {3, 5, 9}, {1, 2, 3, 8}, {4, 6, 7, 15} }

MCBases == { Vector(x, y) : x \in {-400, 0, 6, 400}, y \in {-400, 2, 400} }

MCPicture ==
  [ p \in (0..31) \X (0..31) |-> (37 * p[1] + 91 * p[2] + p[1] * p[2]) % 256 ]

MCInterBlocks ==
  [ size : {4}, column : {0, 3, 7}, row : {0, 6, 7},
    mv : [ x : {-300, -44, -12, -3, 0, 1, 4, 7, 19, 40, 290}, y : {-17, 0, 8, 29} ] ]
  \cup [ size : {16}, column : {0, 1}, row : {1},
         mv : [ x : {-300, -3, 0, 40}, y : {-17, 29} ] ]

-----------------------------------------------------------------------------
Pattern(k, b) ==
  [ i \in 1..16 |->
      CASE k = 0 -> 0
        [] k = 1 -> 255
        [] k = 2 -> (i * 73 + b * 31 + i * i * b) % 256
        [] k = 3 -> 255 * (((i + ((i - 1) \div 4)) + b) % 2)
        [] k = 4 -> 255 * (((i - 1) \div 2) % 2)
        [] k = 5 -> 120 + ((i * (b + 3)) % 9)
        [] k = 6 -> 255 * (b % 2)
        [] k = 7 -> 255 * ((b + 1) % 2) ]

SixteenPatterns(k) == [ b \in 1..16 |-> Pattern(k, b) ]

Indices(q, delta) ==
  [ y_ac_qi |-> q, y_dc |-> delta, y2_dc |-> delta, y2_ac |-> delta,
    uv_dc |-> 0 - delta, uv_ac |-> delta ]

(* Frames' quantizers, and segments' below, within and above the tables.     *)
MCIndices(deltas) ==
  { Indices(q, d) : q \in {0, 5, 40, 127}, d \in deltas }
  \cup { Indices(segment_index(40, [ quantizer |-> n, absolute |-> FALSE ]), d) :
           n \in {-50, 120}, d \in deltas }

MCResidueBlocks ==
  [ plane : {"Y", "UV"}, original : { Pattern(k, 1) : k \in 0..5 },
    prediction : { Pattern(k, 2) : k \in 1..4 }, indices : MCIndices({0, -15, 15}),
    pass : {1}, lowered : {{}} ]
  \cup [ plane : {"Y", "UV"}, original : { Pattern(k, 1) : k \in 0..3 },
         prediction : { Pattern(k, 2) : k \in {2, 3, 5} }, indices : MCIndices({0, 15}),
         pass : {2}, lowered : { {}, 1..16, {1, 3, 5, 8, 16} } ]

MCResidueWholes ==
  [ original : { SixteenPatterns(k) : k \in {2, 5, 6} },
    prediction : { SixteenPatterns(k) : k \in {2, 4, 7} }, indices : MCIndices({0, -15}),
    pass : {1, 2}, lowered : {1..16} ]

-----------------------------------------------------------------------------
EdgeFrames ==
  { [ level |-> level, sharpness |-> sharpness, key |-> key, absolute |-> absolute,
      segments |-> segments, adjustments |-> adjustments ] :
      level \in {1, 14, 40, 63}, sharpness \in {0, 3, 7}, key \in BOOLEAN,
      absolute \in BOOLEAN, segments \in { << >>, << -63, 63 >> },
      adjustments \in { << >>, [ reference |-> [ current |-> 2, last |-> 0 ],
                                 mode |-> << 4, -2, 2, 63 >> ] } }

EdgeMacroblocks ==
  { [ segment |-> s, reference |-> "current", mode |-> "B_PRED", column |-> 1, row |-> 1,
      coded |-> FALSE, has_nonzero |-> FALSE ] : s \in 1..2 }
  \cup { [ segment |-> 2, reference |-> "last", mode |-> "SPLITMV", column |-> 1, row |-> 0,
           coded |-> TRUE, has_nonzero |-> FALSE ] }

ByteOf(n) == IF n < 0 THEN 0 ELSE IF n > 255 THEN 255 ELSE n

Line(base, a, b, jump, c) ==
  << ByteOf(base + a - b), ByteOf(base), ByteOf(base + a), ByteOf(base + a + b),
     ByteOf(base + a + b + jump), ByteOf(base + b + jump + c), ByteOf(base + jump + c),
     ByteOf(base + jump - c) >>

MCEdgeLines ==
  [ frame : EdgeFrames, mb : EdgeMacroblocks,
    line : { Line(base, a, b, jump, c) :
               base \in {3, 128, 250}, a \in {-1, 2}, b \in {1, 20},
               jump \in {0, -2, 5, 17, -60}, c \in {0, 3} } ]
=============================================================================
