-------------------------------- MODULE Costs --------------------------------
(***************************************************************************)
(* What the encoder takes a choice to cost (costs.cc, and encoder.cc's     *)
(* trellis).  A cost is the sum of a price per bit and probability; it is  *)
(* kept here as the sequence of the bits it is the sum of, each with the   *)
(* table and the entry its price is taken from.                            *)
(***************************************************************************)
EXTENDS TokenCoding, FrameCoding

(* compute_cost: the bits to each leaf, from the node at an index down.      *)
compute_cost(tree, from) ==
  LET Entries(i) == {i, i + 1}
      below[i \in { j \in DOMAIN tree : j % 2 = 0 }] ==
        UNION { IF tree[e] <= 0
                THEN { << -tree[e], << Step(e) >> >> }
                ELSE { << leaf[1], << Step(e) >> \o leaf[2] >> : leaf \in below[tree[e]] } :
                e \in Entries(i) }
  IN [ value \in { leaf[1] : leaf \in below[from] } |->
         (CHOOSE leaf \in below[from] : leaf[1] = value)[2] ]

-----------------------------------------------------------------------------
(* tree_cost walks down along the bits of a number.                          *)
tree_cost(tree, number, width) ==
  LET index[n \in 0..width] ==
        IF n = 0 THEN 0 ELSE tree[index[n - 1] + BitOf(number, width - n)]
  IN [ n \in 1..width |-> Step(index[n - 1] + BitOf(number, width - n)) ]

mv_component_cost(num) ==
  LET x == Magnitude(num \div 2)
      short == [ n \in 1..3 |-> LET step == tree_cost(small_mv_tree, x, 3)[n]
                                IN Coded(step.bit, SHORT + step.probability) ]
      Long(i) == Coded(BitOf(x, i) = 1, BITS + i)
  IN IF x < 8 THEN << Coded(FALSE, IS_SHORT) >> \o short
     ELSE << Coded(TRUE, IS_SHORT) >> \o << Long(0), Long(1), Long(2) >>
          \o [ k \in 1..(LONG_MV_WIDTH - 4) |-> Long(LONG_MV_WIDTH - k) ]
          \o (IF x >= 16 THEN << Long(3) >> ELSE << >>)

(* fill_mv_component_costs: one table for each sign.                         *)
mv_component_costs(negative, magnitude) ==
  mv_component_cost(magnitude)
  \o (IF magnitude = 0 THEN << >> ELSE << Coded(negative, SIGN) >>)

ComponentCost(number) == mv_component_costs(number < 0, Magnitude(number))

motion_vector_cost(mv) ==
  Named(ComponentCost(mv.y), << "mv_y" >>) \o Named(ComponentCost(mv.x), << "mv_x" >>)

-----------------------------------------------------------------------------
(* Modes.  The tables filled when an encoder is made are those of key frames *)
(* and the defaults; fill_mv_ref_costs puts other modes into the same table. *)
IntraBModes == 0..9

Prices(tree, table) ==
  LET paths == compute_cost(tree, 0)
  IN [ value \in DOMAIN paths |-> Named(paths[value], table) ]

fill_mode_costs ==
  [ bmode_costs |-> [ above \in IntraBModes |-> [ left \in IntraBModes |->
                        Prices(b_mode_tree, << "kf_b_mode", above, left >>) ] ],
    mbmode_costs |-> << Prices(kf_y_mode_tree, << "kf_y_mode" >>),
                        Prices(y_mode_tree, << "default_y_mode" >>) >>,
    intra_uv_mode_costs |-> << Prices(uv_mode_tree, << "kf_uv_mode" >>),
                               Prices(uv_mode_tree, << "default_uv_mode" >>) >> ]

fill_mv_ref_costs(table) ==
  [ fill_mode_costs EXCEPT !.mbmode_costs[2] = Prices(mv_ref_tree, table) @@ @ ]

(* The tables once the search for a macroblock has come to inter modes, with *)
(* the last frame as the reference; the next one starts with them.           *)
CostsAfter(h, mbs, m) ==
  IF h.key \/ m = 0 THEN fill_mode_costs
  ELSE fill_mv_ref_costs(<< "mv_ref", mode_contexts(Census(mbs, m, Flipped(h, "last"))) >>)

(* Chroma is taken from the key frame's table in inter frames too, where     *)
(* chroma_mb_intra_predict is not told of them.                              *)
IntraRate(h, mbs, m) ==
  LET mb == mbs[m]
      costs == CostsAfter(h, mbs, m - 1)
      order == Raster(Positions, Side)
      Sub(p) == costs.bmode_costs[AboveBlock(mbs, m, mb, p).mode]
                                 [LeftBlock(mbs, m, mb, p).mode][mb.Y[p].mode]
  IN costs.mbmode_costs[IF h.key THEN 1 ELSE 2][mb.mode]
     \o (IF mb.mode = B_PRED THEN FlattenSeq([ k \in DOMAIN order |-> Sub(order[k]) ])
                             ELSE << >>)
     \o costs.intra_uv_mode_costs[1][mb.uv_mode]

InterRate(h, mbs, m) ==
  LET mb == mbs[m]
  IN CostsAfter(h, mbs, m).mbmode_costs[2][mb.mode]
     \o (IF mb.mode = NEWMV
         THEN motion_vector_cost(Minus(mb.Y[LastBlock].mv, BestOf(mbs, m, mb))) ELSE << >>)

-----------------------------------------------------------------------------
ZERO_TOKEN == 0
DCT_EOB_TOKEN == 11

vp8_coef_tree ==
  ArrayOf(<< -DCT_EOB_TOKEN, 2, -ZERO_TOKEN, 4, -1, 6, 8, 12, -2, 10, -3, -4, 14, 16,
             -5, -6, 18, 20, -7, -8, -9, -10 >>)

token_for_coeff(v) ==
  IF v <= 4 THEN v ELSE IF v <= 6 THEN 5 ELSE IF v <= 10 THEN 6 ELSE IF v <= 18 THEN 7
  ELSE IF v <= 34 THEN 8 ELSE IF v <= 66 THEN 9 ELSE 10

(* fill_token_costs: context 0 means a zero before, but at the first place.  *)
FirstNode(type, band, context) ==
  IF context = 0 /\ band > (IF type = "Y_after_Y2" THEN 1 ELSE 0) THEN 2 ELSE 0

token_costs(type, band, context, token) ==
  LET path == compute_cost(vp8_coef_tree, FirstNode(type, band, context))[token]
  IN [ k \in DOMAIN path |->
         Coded(path[k].bit, << band, context, path[k].probability >>) ]

(* coeff_base_cost looks a coefficient up in a table taken from libvpx.  The *)
(* table is not modelled: which entry is looked up is all that is known.     *)
DctValues == -2048..2047
coeff_base_cost(coefficient) == << Coded(TRUE, << "dct_value_cost", coefficient >>) >>

prev_token_class(token) ==
  IF token \in {ZERO_TOKEN, DCT_EOB_TOKEN} THEN 0 ELSE IF token = 1 THEN 1 ELSE 2

(* A node of the trellis: the levels from a place on up to the end, the      *)
(* token of the first, and the rate of all but that token.                   *)
Sentinel == [ levels |-> << >>, token |-> DCT_EOB_TOKEN, rate |-> << >> ]

Band(index) == coefficient_to_band[index + 1]

(* Seeded fault: the band of the token before it.                            *)
NextRateHere(type, index, token, next) ==
  IF index < BlockLength - 1
  THEN token_costs(type, Band(index), prev_token_class(token), next.token)
  ELSE << >>

(* What a token adds to the rate of the one before it.                       *)
NextRate(type, index, token, next) ==
  IF index < BlockLength - 1
  THEN token_costs(type, Band(index + 1), prev_token_class(token), next.token)
  ELSE << >>

(* Before an end of block a zero becomes the end.                            *)
TrellisNode(type, index, level, next) ==
  LET token == token_for_coeff(Magnitude(level))
  IN IF level = 0 /\ next.token = DCT_EOB_TOKEN THEN Sentinel
     ELSE [ levels |-> << level >> \o next.levels, token |-> token,
            rate |-> coeff_base_cost(level) \o NextRate(type, index, token, next) \o next.rate ]

(* A level, or the next one nearer to zero.                                  *)
Candidates(level) ==
  { level, IF level > 0 THEN level - 1 ELSE IF level < 0 THEN level + 1 ELSE 0 }

(* The nodes of a place, whichever of the next ones is the cheapest.         *)
trellis(block, coded_length) ==
  LET nodes[index \in FirstIndex(block.type)..coded_length] ==
        IF index = coded_length THEN { Sentinel }
        ELSE { TrellisNode(block.type, index, level, next) :
                 level \in Candidates(block.coefficients[index]), next \in nodes[index + 1] }
  IN nodes[FirstIndex(block.type)]

trellis_rate(block, node) ==
  token_costs(block.type, Band(FirstIndex(block.type)), block.context, node.token)
  \o node.rate

-----------------------------------------------------------------------------
(* Whichever way through the trellis is taken, its rate is of the branches   *)
(* that the tokens of the block it ends with take, in the order they are     *)
(* written, and of each of its levels.  A coefficient may be other than zero *)
(* and its level zero, so the trellis may be longer than the levels.         *)
RatesMatch(block) ==
  LET first == FirstIndex(block.type)
      Chosen(node) == [ block EXCEPT !.coefficients =
                          [ i \in Places |-> IF i - first + 1 \in DOMAIN node.levels
                                             THEN node.levels[i - first + 1] ELSE 0 ] ]
      LookedUp(rate) == SelectSeq(rate, LAMBDA price : Len(price.probability) = 2)
      Matches(rate, node) ==
        /\ BranchesOf(rate) = BranchesOf(serialize_tokens(Chosen(node)))
        /\ LookedUp(rate) = FlattenSeq([ k \in DOMAIN node.levels |->
                                           coeff_base_cost(node.levels[k]) ])
  IN \A coded_length \in {CodedLength(block), BlockLength} :
       coded_length > 0 /\ (\A i \in Places : block.coefficients[i] \in DctValues) =>
         \A node \in trellis(block, coded_length) : Matches(trellis_rate(block, node), node)

ComponentPaysItsBits(symbol) ==
  symbol.kind = "component" /\ Magnitude(symbol.number) <= 1023 =>
    ComponentCost(symbol.number) = EncodeComponent(symbol.number)

(* What the search for a macroblock may end with.                            *)
Searched(mb) == mb.mode # SPLITMV /\ mb.reference \in {"current", "last"}

BitsOf(bits) == [ k \in DOMAIN bits |-> bits[k].bit ]

(* A mode costs the bits that spell it, from the table and in the context    *)
(* they are written with: in key frames, and for macroblocks predicted from  *)
(* the last frame, even though one table holds both kinds.  Intra modes in   *)
(* inter frames have other tables (see IntraRate) and only the same bits.    *)
ModesPayTheirBits ==
  LET m == Len(macroblocks)
      mb == macroblocks[m]
  IN m > 0 /\ (\A k \in 1..m : Searched(macroblocks[k])) =>
       IF mb.inter THEN InterRate(header, macroblocks, m) = EncodeInter(macroblocks, m, mb)
       ELSE IF header.key
       THEN IntraRate(header, macroblocks, m) = EncodeIntra(header, macroblocks, m, mb)
       ELSE BitsOf(IntraRate(header, macroblocks, m))
              = BitsOf(EncodeIntra(header, macroblocks, m, mb))
=============================================================================
