----------------------------- MODULE MCBitstream -----------------------------
(***************************************************************************)
(* Six bits for the coder; frames of two by two macroblocks with two by    *)
(* two blocks; symbols, blocks and headers at their limits.                *)
(***************************************************************************)
EXTENDS Bitstream

MCProbabilities == {1, 17, 226}

MCHeaders ==
  { [ key |-> FALSE, update_map |-> TRUE, prob_skip |-> TRUE, partitions |-> 2,
      biased |-> {"golden"} ],
    [ key |-> TRUE, update_map |-> FALSE, prob_skip |-> TRUE, partitions |-> 2,
      biased |-> {} ] }

Choice(reference, mode, mv, sub, scheme, nonzero) ==
  [ reference |-> reference, mode |-> mode, uv_mode |-> 2, mv |-> mv, sub |-> sub,
    scheme |-> scheme, nonzero |-> nonzero, segment |-> 2 ]

MCDecisions ==
  { Choice("current", 1, Zero, << >>, 0, {"U"}),
    Choice("current", B_PRED, Zero, << 3, 9, 5 >>, 0, {"Y"}),
    Choice("last", NEARESTMV, Zero, << >>, 0, {}),
    Choice("last", NEARMV, Zero, << >>, 0, {"Y2"}),
    Choice("altref", ZEROMV, Zero, << >>, 0, {"Y2", "U"}),
    Choice("golden", NEWMV, MotionVector(-300, 6), << >>, 0, {"V"}),
    Choice("last", NEWMV, MotionVector(24, -6), << >>, 0, {"Y2", "Y"}),
    Choice("last", SPLITMV, MotionVector(24, -6), << NEW4X4, LEFT4X4, ABOVE4X4 >>, 3, {"Y"}),
    Choice("golden", SPLITMV, MotionVector(2, 2), << ABOVE4X4, NEW4X4 >>, 1, {}) }

-----------------------------------------------------------------------------
MCSymbols ==
  [ kind : {"tree"}, tree : Trees ]
  \cup [ kind : {"component"},
         number : { 2 * n : n \in (-20..20) \cup {100, 511, 512, 1023, -1016, -1023} } ]
  \cup [ kind : {"signed"}, width : {4, 7}, number : -15..15 ]
  \cup [ kind : {"probability"}, number : 1..255 ]

MCValues == {0, 1, -1, 2, 3, -4, 5, 6, 7, 10, 11, 18, -19, 34, 35, 66, 67, -700, 2114}

MCBlocks ==
  LET Coefficients(a, b, c, d) ==
        [ i \in 0..(BlockLength - 1) |->
            CASE i = 0 -> a [] i = 1 -> b [] i = 2 -> c [] i = BlockLength - 1 -> d
              [] OTHER -> 0 ]
  IN { Block(type, context, Coefficients(a, b, c, d)) :
         type \in {"Y_after_Y2", "Y2", "UV"}, context \in {0, 2}, a \in {0, 3}, b \in MCValues,
         c \in {0, 1, -19}, d \in {0, 1} }

MCVectors == { Zero, MotionVector(-2, 0), MotionVector(2, 0), MotionVector(2, 4) }
MCNeighbours ==
  [ inter : BOOLEAN, split : BOOLEAN, flipped : BOOLEAN, mv : MCVectors ]
MCNeighbourhoods ==
  { << above, left, above_left >> : above \in MCNeighbours, left \in MCNeighbours,
    above_left \in { n \in MCNeighbours : ~n.split } }

-----------------------------------------------------------------------------
One(name, number) == name :> << number >>

Segmentation(map, data, mode) ==
  One("update_segmentation", 1) @@ One("update_mb_segmentation_map", map)
  @@ One("segment_feature_data", data)
  @@ (IF data = 1
      THEN One("segment_feature_mode", mode)
           @@ ("quantizer_update" :> << << -5 >>, << >>, << 127 >>, << 0 >> >>)
           @@ ("loop_filter_update" :> << << >>, << -63 >>, << 1 >>, << >> >>)
      ELSE << >>)
  @@ (IF map = 1 THEN "mb_segmentation_map" :> << << 255 >>, << >>, << 0 >> >> ELSE << >>)

NoSegmentation == One("update_segmentation", 0)

Filter(deltas, update) ==
  One("filter_type", 0) @@ One("loop_filter_level", 37) @@ One("sharpness_level", 5)
  @@ One("mode_lf_adjustments", deltas)
  @@ (IF deltas = 1 THEN One("mode_ref_lf_delta_update", update) ELSE << >>)
  @@ (IF deltas = 1 /\ update = 1
      THEN ("ref_update" :> << << 2 >>, << >>, << -2 >>, << -2 >> >>)
           @@ ("mode_update" :> << << 4 >>, << >>, << -2 >>, << 63 >> >>)
      ELSE << >>)
  @@ One("log2_number_of_dct_partitions", 3)

Quantizers ==
  One("y_ac_qi", 127) @@ ("y_dc" :> << << -15 >> >>) @@ ("y2_dc" :> << << >> >>)
  @@ ("y2_ac" :> << << 3 >> >>) @@ ("uv_dc" :> << << >> >>) @@ ("uv_ac" :> << << 0 >> >>)

Common(skip) ==
  ("token_prob_update" :> << << >>, << 200 >> >>) @@ ("prob_skip_false" :> << skip >>)
  @@ One("refresh_entropy_probs", 1)

Inter(golden, alternate, y, chroma) ==
  One("refresh_golden_frame", golden) @@ One("refresh_alternate_frame", alternate)
  @@ (IF golden = 0 THEN One("copy_buffer_to_golden", 2) ELSE << >>)
  @@ (IF alternate = 0 THEN One("copy_buffer_to_alternate", 1) ELSE << >>)
  @@ One("sign_bias_golden", 0) @@ One("sign_bias_alternate", 1) @@ One("refresh_last", 0)
  @@ One("prob_inter", 12) @@ One("prob_references_last", 255)
  @@ One("prob_references_golden", 0) @@ One("intra_16x16_prob_flag", y)
  @@ (IF y = 1 THEN "intra_16x16_prob" :> << 1, 2, 3, 4 >> ELSE << >>)
  @@ One("intra_chroma_prob_flag", chroma)
  @@ (IF chroma = 1 THEN "intra_chroma_prob" :> << 9, 8, 7 >> ELSE << >>)
  @@ ("mv_prob_update" :> << << 127 >>, << >> >>)

MCFrameHeaders ==
  { [ key |-> TRUE,
      header |-> One("color_space", 0) @@ One("clamping_type", 0) @@ segmentation
                 @@ filter @@ Quantizers @@ Common(skip) ] :
      segmentation \in { NoSegmentation }
                       \cup { Segmentation(a, b, c) : a \in 0..1, b \in 0..1, c \in 0..1 },
      filter \in { Filter(d, u) : d \in 0..1, u \in 0..1 },
      skip \in { << >>, << 7 >> } }
  \cup { [ key |-> FALSE,
           header |-> segmentation @@ filter @@ Quantizers @@ Common(<< >>) @@ inter ] :
           segmentation \in { NoSegmentation, Segmentation(1, 1, 0) },
           filter \in { Filter(0, 0), Filter(1, 1) },
           inter \in { Inter(g, a, y, c) : g \in 0..1, a \in 0..1, y \in 0..1, c \in 0..1 } }

-----------------------------------------------------------------------------
Some(length, first) == [ i \in 1..length |-> (first + 7 * i) % 256 ]

MCLayouts ==
  { [ key |-> key, show |-> key, width |-> 301, height |-> 16383,
      first_partition |-> Some(length, 11), dct_partitions |-> parts,
      cuts |-> (0..24) \cup { length + d : d \in 0..20 } ] :
      key \in BOOLEAN, length \in {0, 1, 5, 8, 2040, 2050},
      parts \in { << Some(4, 1) >>, << Some(3, 9), Some(2, 5) >>,
                 << Some(1, 2), << >>, Some(300, 7), Some(1, 1) >> } }

MCSavedStates ==
  { [ state |-> [ width |-> 17, height |-> 9, probabilities |-> << 1, 128, 255 >>,
                  segmentation |-> s, filter_adjustments |-> f ],
      references |-> [ last |-> Some(768, 1), golden |-> Some(768, 2),
                       alternative |-> Some(768, last) ] ] :
      s \in { << >> } \cup { << [ absolute |-> a, width |-> 2, height |-> 1,
                                 quantizer |-> << -127, 3, 0, 127 >>,
                                 filter |-> << 63, -63, 0, -1 >>, map |-> << 3, 0 >> ] >> :
                               a \in BOOLEAN },
      f \in { << >>, << [ reference |-> << 2, 0, -2, -2 >>,
                         mode |-> << 4, -63, 63, 0 >> ] >> },
      last \in {1, 3} }
=============================================================================
