----------------------------- MODULE FrameCoding -----------------------------
(***************************************************************************)
(* The macroblocks of a frame as bits.  The modes and vectors of all       *)
(* macroblocks go to the first partition, their coefficients to the DCT    *)
(* partitions, row by row in turn.  Writer and reader both look at the     *)
(* neighbours for the probabilities and candidates they code with, each at *)
(* its own copy of the frame, so a difference between the copies would     *)
(* make all that follows unreadable.  The reader may conceal the end of a  *)
(* first partition that is only there in part.                             *)
(*                                                                         *)
(* A macroblock has Side x Side Y blocks.  The tokens of a block, which    *)
(* TokenCoding spells out, stand as one bit here: whether there are        *)
(* coefficients other than zero.                                           *)
(***************************************************************************)
EXTENDS SymbolCoding, MotionVectors, Bags

CONSTANTS
  Side,      (* Y blocks along the side of a macroblock, 4 in the code       *)
  Headers,   (* frame headers, what the macroblocks need of them             *)
  Decisions, (* what an encoder may decide on for a macroblock               *)
  MostDamaged  (* bound on the macroblocks of the partitions damaged         *)

ASSUME SideAssumption == Side \in Nat /\ Side >= 2 /\ Side % 2 = 0

VARIABLES
  header,       (* [ key, update_map, prob_skip, partitions: Nat,            *)
                (*   biased: the references with a sign bias ]               *)
  macroblocks,  (* in raster order, as far as they are decided               *)
  token_branch_counts  (* a bag of the flags counted so far                  *)

frame_vars == << header, macroblocks, token_branch_counts >>

-----------------------------------------------------------------------------
DC_PRED == 0
B_PRED == 4
NEARESTMV == 5
NEARMV == 6
ZEROMV == 7
NEWMV == 8
SPLITMV == 9

B_DC_PRED == 0
LEFT4X4 == 10
ABOVE4X4 == 11
ZERO4X4 == 12
NEW4X4 == 13

implied_subblock_mode(mode) == << 0, 2, 3, 1 >>[mode + 1]

Positions == (0..(Side - 1)) \X (0..(Side - 1))
Chroma == (0..(Side \div 2 - 1)) \X (0..(Side \div 2 - 1))
LastBlock == << Side - 1, Side - 1 >>

Raster(positions, side) == [ k \in 1..(side * side) |-> << (k - 1) % side, (k - 1) \div side >> ]

BlockAt(plane, position) == << plane, position[1], position[2] >>

(* The blocks in the order of their tokens.                                  *)
BlockOrder ==
  LET In(plane, side) == [ k \in 1..(side * side) |->
                             BlockAt(plane, Raster(Positions, side)[k]) ]
  IN << BlockAt("Y2", << 0, 0 >>) >> \o In("Y", Side) \o In("U", Side \div 2)
     \o In("V", Side \div 2)

(* mv_partitions: halves, halves, quarters, and every block by itself.       *)
PartOf(scheme, position) ==
  LET right == (2 * position[1]) \div Side
      low == (2 * position[2]) \div Side
  IN CASE scheme = 0 -> low
       [] scheme = 1 -> right
       [] scheme = 2 -> 2 * low + right
       [] scheme = 3 -> Side * position[2] + position[1]

FirstOf(scheme) ==
  LET order == Raster(Positions, Side)
  IN SelectSeq(order, LAMBDA p : \A q \in Positions :
                 PartOf(scheme, q) = PartOf(scheme, p)
                   => p[2] < q[2] \/ (p[2] = q[2] /\ p[1] <= q[1]))

-----------------------------------------------------------------------------
(* Where a macroblock stands, and what TwoD::Context shows it of the rest.   *)
Column(m) == (m - 1) % Width
Row(m) == (m - 1) \div Width

EmptyMacroblock ==
  [ segment |-> << >>, skip |-> << >>, inter |-> FALSE, reference |-> "current",
    flipped |-> FALSE, mode |-> DC_PRED, uv_mode |-> DC_PRED, scheme |-> << >>,
    coded |-> TRUE,
    Y |-> [ p \in Positions |-> [ mode |-> B_DC_PRED, mv |-> Zero ] ],
    UV |-> [ p \in Chroma |-> Zero ],
    nonzero |-> [ b \in Range(BlockOrder) |-> FALSE ] ]

Flipped(h, reference) == reference \in h.biased

Seen(mbs, inside, m) ==
  IF ~inside THEN Outside
  ELSE [ inter |-> mbs[m].inter, split |-> mbs[m].mode = SPLITMV,
         flipped |-> mbs[m].flipped, mv |-> mbs[m].Y[LastBlock].mv ]

Census(mbs, m, flipped) ==
  motion_vector_census(Seen(mbs, Row(m) > 0, m - Width), Seen(mbs, Column(m) > 0, m - 1),
                       Seen(mbs, Row(m) > 0 /\ Column(m) > 0, m - Width - 1), flipped)

BestOf(mbs, m, mb) == Clamp(best(Census(mbs, m, mb.flipped)), Column(m), Row(m))

OutsideBlock == [ mode |-> B_DC_PRED, mv |-> Zero ]

(* The Y blocks left of and above one, in this macroblock or the next.       *)
LeftBlock(mbs, m, mb, p) ==
  IF p[1] > 0 THEN mb.Y[<< p[1] - 1, p[2] >>]
  ELSE IF Column(m) > 0 THEN mbs[m - 1].Y[<< Side - 1, p[2] >>]
  ELSE OutsideBlock

AboveBlock(mbs, m, mb, p) ==
  IF p[2] > 0 THEN mb.Y[<< p[1], p[2] - 1 >>]
  ELSE IF Row(m) > 0 THEN mbs[m - Width].Y[<< p[1], Side - 1 >>]
  ELSE OutsideBlock

-----------------------------------------------------------------------------
(* Trees whose probabilities come from a table by some index.                *)
Named(bits, table) ==
  [ k \in DOMAIN bits |-> Coded(bits[k].bit, << table, bits[k].probability >>) ]

(* No symbol has more bits than the longest component of a vector.           *)
LongestSymbol == 3 + LONG_MV_WIDTH

Unnamed(bits, table) ==
  [ k \in 1..Min({ Len(bits), LongestSymbol }) |->
      Coded(bits[k].bit, IF bits[k].probability[1] = table THEN bits[k].probability[2]
                                                           ELSE -1) ]

(* A reader of SymbolCoding's, for bits of that table.                       *)
ReadUsing(Read(_), table, bits) ==
  LET Whole(count, result) ==
        Result(result.value, SubSeq(bits, count - Len(result.rest) + 1, Len(bits)),
               result.agreed)
  IN Whole(Min({ Len(bits), LongestSymbol }), Read(Unnamed(bits, table)))

EncodeNamed(tree, value, table) == Named(EncodeTree(tree, value), table)

(* A reader is a record of what it reads into and what it reads from.        *)
Reader(mb, bits) == [ mb |-> mb, bits |-> bits, agreed |-> TRUE ]

After(r, result) ==
  [ r EXCEPT !.bits = result.rest, !.agreed = @ /\ result.agreed ]

ReadNamed(tree, table, r) ==
  ReadUsing(LAMBDA bits : ReadTree(tree, bits), table, r.bits)

EncodeFlag(bit, table) == << Coded(bit, << table, 0 >>) >>
ReadFlag(table, r) ==
  Result(Head(r.bits).bit, Tail(r.bits), Head(r.bits).probability = << table, 0 >>)

EncodeVector(mv) == Named(EncodeComponent(mv.y), << "mv_y" >>)
                    \o Named(EncodeComponent(mv.x), << "mv_x" >>)

ReadVector(r) ==
  LET Both(y, x) == Result(MotionVector(x.value, y.value), x.rest, y.agreed /\ x.agreed)
      ReadX(y) == Both(y, ReadUsing(read_component, << "mv_x" >>, y.rest))
  IN ReadX(ReadUsing(read_component, << "mv_y" >>, r.bits))

-----------------------------------------------------------------------------
(* The tables of a macroblock's modes.                                       *)
BModeTable(h, mbs, m, mb, p) ==
  IF h.key THEN << "kf_b_mode", AboveBlock(mbs, m, mb, p).mode,
                   LeftBlock(mbs, m, mb, p).mode >>
           ELSE << "b_mode" >>

MvRefTable(mbs, m, mb) == << "mv_ref", mode_contexts(Census(mbs, m, mb.flipped)) >>

SubmvTable(mbs, m, mb, p) ==
  << "submv_ref", submv_ref_index(LeftBlock(mbs, m, mb, p).mv,
                                  AboveBlock(mbs, m, mb, p).mv) >>

YModeTree(h) == IF h.key THEN kf_y_mode_tree ELSE y_mode_tree
YModeTable(h) == IF h.key THEN << "kf_y_mode" >> ELSE << "y_mode" >>
UVModeTable(h) == IF h.key THEN << "kf_uv_mode" >> ELSE << "uv_mode" >>

-----------------------------------------------------------------------------
(* The writer: Macroblock::serialize and encode_prediction_modes.            *)
EncodeReference(mb) ==
  EncodeFlag(mb.inter, << "inter" >>)
  \o (IF mb.inter THEN EncodeFlag(mb.reference # "last", << "ref_last" >>) ELSE << >>)
  \o (IF mb.inter /\ mb.reference # "last"
      THEN EncodeFlag(mb.reference = "altref", << "ref_golden" >>) ELSE << >>)

EncodeIntra(h, mbs, m, mb) ==
  LET order == Raster(Positions, Side)
  IN EncodeNamed(YModeTree(h), mb.mode, YModeTable(h))
     \o (IF mb.mode = B_PRED
         THEN FlattenSeq([ k \in DOMAIN order |->
                             EncodeNamed(b_mode_tree, mb.Y[order[k]].mode,
                                         BModeTable(h, mbs, m, mb, order[k])) ])
         ELSE << >>)
     \o EncodeNamed(uv_mode_tree, mb.uv_mode, UVModeTable(h))

EncodeSplit(mbs, m, mb) ==
  LET firsts == FirstOf(mb.scheme[1])
      Sub(p) == EncodeNamed(submv_ref_tree, mb.Y[p].mode, SubmvTable(mbs, m, mb, p))
                \o (IF mb.Y[p].mode = NEW4X4
                    THEN EncodeVector(Minus(mb.Y[p].mv, BestOf(mbs, m, mb)))
                    ELSE << >>)
  IN EncodeNamed(split_mv_tree, mb.scheme[1], << "split_mv" >>)
     \o FlattenSeq([ k \in DOMAIN firsts |-> Sub(firsts[k]) ])

EncodeInter(mbs, m, mb) ==
  EncodeNamed(mv_ref_tree, mb.mode, MvRefTable(mbs, m, mb))
  \o (IF mb.mode = NEWMV
      THEN EncodeVector(Minus(mb.Y[LastBlock].mv, BestOf(mbs, m, mb)))
      ELSE IF mb.mode = SPLITMV THEN EncodeSplit(mbs, m, mb)
      ELSE << >>)

EncodeMacroblock(h, mbs, m) ==
  LET mb == mbs[m]
  IN (IF mb.segment # << >>
      THEN EncodeNamed(segment_id_tree, mb.segment[1], << "segment" >>) ELSE << >>)
     \o (IF mb.skip # << >> THEN EncodeFlag(mb.skip[1], << "skip" >>) ELSE << >>)
     \o (IF h.key THEN << >> ELSE EncodeReference(mb))
     \o (IF mb.inter THEN EncodeInter(mbs, m, mb) ELSE EncodeIntra(h, mbs, m, mb))

-----------------------------------------------------------------------------
(* The reader: the constructor of a Macroblock.  A reader is valid while     *)
(* more than `missing' bits are left, what follows being made up.            *)
Valid(r, missing) == Len(r.bits) >= missing

ReadSegment(h, r, valid) ==
  IF ~h.update_map THEN r
  ELSE IF ~valid THEN [ r EXCEPT !.mb.segment = << 0 >> ]
  ELSE LET id == ReadNamed(segment_id_tree, << "segment" >>, r)
       IN [ After(r, id) EXCEPT !.mb.segment = << id.value >> ]

ReadSkip(h, r, valid) ==
  IF ~h.prob_skip THEN r
  ELSE IF ~valid THEN [ r EXCEPT !.mb.skip = << FALSE >> ]
  ELSE LET skip == ReadFlag(<< "skip" >>, r)
       IN [ After(r, skip) EXCEPT !.mb.skip = << skip.value >> ]

(* decode_reference: one flag at a time, as far as the ones before lead.     *)
Referring(h, r, reference) ==
  [ r EXCEPT !.mb.inter = reference # "current", !.mb.reference = reference,
             !.mb.flipped = Flipped(h, reference) ]

ReadSecond(h, r) ==
  LET sel2 == ReadFlag(<< "ref_golden" >>, r)
  IN Referring(h, After(r, sel2), IF sel2.value THEN "altref" ELSE "golden")

ReadFirst(h, r) ==
  LET sel1 == ReadFlag(<< "ref_last" >>, r)
  IN IF sel1.value THEN ReadSecond(h, After(r, sel1))
                   ELSE Referring(h, After(r, sel1), "last")

(* Seeded fault: made-up bits are taken for a reference.                     *)
ReadReferenceAnyway(h, r, valid) ==
  IF h.key THEN r
  ELSE LET inter == ReadFlag(<< "inter" >>, r)
       IN IF inter.value THEN ReadFirst(h, After(r, inter))
                         ELSE Referring(h, After(r, inter), "current")

ReadReference(h, r, valid) ==
  IF h.key THEN r
  ELSE IF ~valid THEN [ r EXCEPT !.mb.inter = TRUE, !.mb.reference = "last" ]
  ELSE LET inter == ReadFlag(<< "inter" >>, r)
       IN IF inter.value THEN ReadFirst(h, After(r, inter))
                         ELSE Referring(h, After(r, inter), "current")

ReadIntra(h, mbs, m, r) ==
  LET ReadBlock(acc, p) ==
        LET b == ReadNamed(b_mode_tree, BModeTable(h, mbs, m, acc.mb, p), acc)
        IN [ After(acc, b) EXCEPT !.mb.Y[p].mode = b.value ]
      Begin(y) == [ After(r, y) EXCEPT !.mb.mode = y.value, !.mb.coded = y.value # B_PRED ]
      End(blocks, uv) == [ After(blocks, uv) EXCEPT !.mb.uv_mode = uv.value ]
      ReadChroma(blocks) == End(blocks, ReadNamed(uv_mode_tree, UVModeTable(h), blocks))
      ReadBlocks(begun) ==
        IF begun.mb.mode = B_PRED
        THEN FoldLeft(ReadBlock, begun, Raster(Positions, Side))
        ELSE [ begun EXCEPT !.mb.Y = [ p \in Positions |->
                 [ @[p] EXCEPT !.mode = implied_subblock_mode(begun.mb.mode) ] ] ]
  IN ReadChroma(ReadBlocks(Begin(ReadNamed(YModeTree(h), YModeTable(h), r))))

(* read_subblock_inter_prediction, and the copies to the rest of the part.   *)
ReadSub(mbs, m, acc, p) ==
  LET Fill(r, mode, mv) ==
        [ r EXCEPT !.mb.Y = [ q \in Positions |->
            IF PartOf(r.mb.scheme[1], q) = PartOf(r.mb.scheme[1], p)
            THEN [ mode |-> mode, mv |-> mv ] ELSE @[q] ] ]
      New(r, new) == Fill(After(r, new), NEW4X4, Plus(new.value, BestOf(mbs, m, r.mb)))
      Go(r, mode) ==
        CASE mode = LEFT4X4 -> Fill(r, mode, LeftBlock(mbs, m, r.mb, p).mv)
          [] mode = ABOVE4X4 -> Fill(r, mode, AboveBlock(mbs, m, r.mb, p).mv)
          [] mode = ZERO4X4 -> Fill(r, mode, Zero)
          [] mode = NEW4X4 -> New(r, ReadVector(r))
      Begin(mode) == Go(After(acc, mode), mode.value)
  IN Begin(ReadNamed(submv_ref_tree, SubmvTable(mbs, m, acc.mb, p), acc))

ReadSplit(mbs, m, r) ==
  LET Begin(scheme) == [ After(r, scheme) EXCEPT !.mb.scheme = << scheme.value >> ]
      ReadParts(begun) == FoldLeft(LAMBDA acc, p : ReadSub(mbs, m, acc, p), begun,
                                   FirstOf(begun.mb.scheme[1]))
  IN ReadParts(Begin(ReadNamed(split_mv_tree, << "split_mv" >>, r)))

WithVector(r, mv) ==
  [ r EXCEPT !.mb.Y = [ p \in Positions |-> [ @[p] EXCEPT !.mv = mv ] ] ]

WithChroma(mb) ==
  LET At(p, dx, dy) == mb.Y[<< 2 * p[1] + dx, 2 * p[2] + dy >>].mv
  IN [ mb EXCEPT !.UV = [ p \in Chroma |-> luma_to_chroma(At(p, 0, 0), At(p, 1, 0),
                                                          At(p, 0, 1), At(p, 1, 1)) ] ]

(* The vector a mode gives, where it is one for all blocks.                  *)
VectorOf(mbs, m, mb, mode, new) ==
  LET census == Census(mbs, m, mb.flipped)
  IN CASE mode = NEARESTMV -> Clamp(nearest(census), Column(m), Row(m))
       [] mode = NEARMV -> Clamp(near(census), Column(m), Row(m))
       [] mode = ZEROMV -> Zero
       [] mode = NEWMV -> Plus(new, BestOf(mbs, m, mb))

(* Seeded fault: the base of a new vector is not clamped by the reader.      *)
ReadNewUnclamped(mbs, m, r) ==
  LET Move(new) == WithVector(After(r, new),
                             Plus(new.value, best(Census(mbs, m, r.mb.flipped))))
  IN Move(ReadVector(r))

ReadNew(mbs, m, r) ==
  LET Move(new) == WithVector(After(r, new), VectorOf(mbs, m, r.mb, NEWMV, new.value))
  IN Move(ReadVector(r))

ReadInter(mbs, m, r) ==
  LET Begin(mode) == [ After(r, mode) EXCEPT !.mb.mode = mode.value,
                                             !.mb.coded = mode.value # SPLITMV ]
      Go(begun) ==
        CASE begun.mb.mode = NEWMV -> ReadNew(mbs, m, begun)
          [] begun.mb.mode = SPLITMV -> ReadSplit(mbs, m, begun)
          [] OTHER -> WithVector(begun, VectorOf(mbs, m, r.mb, begun.mb.mode, Zero))
      End(read) == [ read EXCEPT !.mb = WithChroma(read.mb) ]
  IN End(Go(Begin(ReadNamed(mv_ref_tree, MvRefTable(mbs, m, r.mb), r))))

(* A macroblock of an inter frame whose modes are lost keeps its place.      *)
Concealed(r) == [ r EXCEPT !.mb.inter = TRUE, !.mb.mode = ZEROMV ]

ReadModes(h, mbs, m, r, valid) ==
  IF ~h.key /\ ~valid THEN Concealed(r)
  ELSE IF r.mb.inter THEN ReadInter(mbs, m, r)
  ELSE ReadIntra(h, mbs, m, r)

ReadMacroblock(h, mbs, m, bits, missing) ==
  LET Modes(r) == ReadModes(h, mbs, m, r, Valid(r, missing))
      Reference(r) == Modes(ReadReference(h, r, Valid(r, missing)))
      Skip(r) == Reference(ReadSkip(h, r, Valid(r, missing)))
      Segment(r) == Skip(ReadSegment(h, r, Valid(r, missing)))
  IN Segment(Reader(EmptyMacroblock, bits))

(* parse_macroblock_headers, of count macroblocks; what is made up stays.    *)
ReadHeaders(h, count, bits, missing) ==
  LET Join(acc, r) == [ mbs |-> Append(acc.mbs, r.mb), bits |-> r.bits,
                       whole |-> Append(acc.whole, Valid(r, missing)),
                       agreed |-> acc.agreed /\ r.agreed ]
  IN FoldLeft(LAMBDA acc, m : Join(acc, ReadMacroblock(h, acc.mbs, m, acc.bits, missing)),
              [ mbs |-> << >>, bits |-> bits, whole |-> << >>, agreed |-> TRUE ],
              [ m \in 1..count |-> m ])

-----------------------------------------------------------------------------
(* Tokens.  The context of a block is how many of the blocks left and above  *)
(* have coefficients; a Y2 block looks past macroblocks without one.         *)
relink_y2_blocks(mbs, candidates) ==
  { q \in candidates : mbs[q].coded /\ \A o \in candidates : mbs[o].coded => o <= q }

Plane(b) == IF b[1] = "Y" THEN Side ELSE Side \div 2

NeighboursOf(mbs, m, b) ==
  IF b[1] = "Y2"
  THEN { << q, b >> : q \in relink_y2_blocks(mbs, { k \in 1..(m - 1) : Row(k) = Row(m) })
                            \cup relink_y2_blocks(mbs, { k \in 1..(m - 1) :
                                                           Column(k) = Column(m) }) }
  ELSE (IF b[2] > 0 THEN { << m, << b[1], b[2] - 1, b[3] >> >> }
        ELSE IF Column(m) > 0 THEN { << m - 1, << b[1], Plane(b) - 1, b[3] >> >> } ELSE {})
       \cup (IF b[3] > 0 THEN { << m, << b[1], b[2], b[3] - 1 >> >> }
             ELSE IF Row(m) > 0 THEN { << m - Width, << b[1], b[2], Plane(b) - 1 >> >> }
             ELSE {})

TokenTable(mbs, m, b) ==
  LET type == IF b[1] = "Y2" THEN "Y2"
              ELSE IF b[1] # "Y" THEN "UV"
              ELSE IF mbs[m].coded THEN "Y_after_Y2" ELSE "Y_without_Y2"
  IN << type, Cardinality({ n \in NeighboursOf(mbs, m, b) : mbs[n[1]].nonzero[n[2]] }) >>

CodedBlocks(mb) ==
  IF mb.skip = << TRUE >> THEN << >>
  ELSE SelectSeq(BlockOrder, LAMBDA b : b[1] # "Y2" \/ mb.coded)

FlagsOf(mbs, m, blocks) ==
  FlattenSeq([ k \in DOMAIN blocks |->
                 EncodeFlag(mbs[m].nonzero[blocks[k]], TokenTable(mbs, m, blocks[k])) ])

TokensOf(mbs, m) == FlagsOf(mbs, m, CodedBlocks(mbs[m]))

PartitionOf(h, m) == 1 + (Row(m) % h.partitions)

(* Frame::serialize_tokens                                                   *)
frame_serialize_tokens(h, mbs) ==
  [ p \in 1..h.partitions |->
      FlattenSeq([ m \in DOMAIN mbs |-> IF PartitionOf(h, m) = p THEN TokensOf(mbs, m)
                                                                ELSE << >> ]) ]

(* Frame::parse_tokens                                                       *)
frame_parse_tokens(h, mbs, partitions) ==
  LET Put(acc, m, b, flag) ==
        [ mbs |-> [ acc.mbs EXCEPT ![m].nonzero[b] = flag.value ],
          partitions |-> [ acc.partitions EXCEPT ![PartitionOf(h, m)] = flag.rest ],
          agreed |-> acc.agreed /\ flag.agreed ]
      ReadToken(acc, mb) ==
        Put(acc, mb[1], mb[2], ReadFlag(TokenTable(acc.mbs, mb[1], mb[2]),
                                        [ bits |-> acc.partitions[PartitionOf(h, mb[1])] ]))
      BlocksOf(m) == LET blocks == CodedBlocks(mbs[m])
                     IN [ k \in DOMAIN blocks |-> << m, blocks[k] >> ]
      order == FlattenSeq([ m \in DOMAIN mbs |-> BlocksOf(m) ])
  IN FoldLeft(ReadToken, [ mbs |-> mbs, partitions |-> partitions, agreed |-> TRUE ], order)

(* Macroblock::accumulate_token_branches passes over Y2, and passes over     *)
(* nothing else: not the blocks of a macroblock that is going to be skipped. *)
CountedBlocks == SelectSeq(BlockOrder, LAMBDA b : b[1] # "Y2")
accumulate_macroblock(mbs, m) == ToBag(FlagsOf(mbs, m, CountedBlocks))

(* Frame::serialize_first_partition, without the frame header.               *)
serialize_first_partition(h, mbs) ==
  FlattenSeq([ m \in DOMAIN mbs |-> EncodeMacroblock(h, mbs, m) ])

-----------------------------------------------------------------------------
calculate_has_nonzero(h, mb) ==
  IF h.prob_skip THEN << \A b \in DOMAIN mb.nonzero : ~mb.nonzero[b] >> ELSE << >>

SubVector(mbs, m, mb, p, mode, mv) ==
  CASE mode = LEFT4X4 -> LeftBlock(mbs, m, mb, p).mv
    [] mode = ABOVE4X4 -> AboveBlock(mbs, m, mb, p).mv
    [] mode = ZERO4X4 -> Zero
    [] mode = NEW4X4 -> mv

(* The sub-blocks of a split macroblock take turns with the choice's modes.  *)
SplitVectors(mbs, m, mb, choice) ==
  LET firsts == FirstOf(choice.scheme)
      Decide(acc, k) ==
        LET p == firsts[k]
            mode == choice.sub[1 + ((k - 1) % Len(choice.sub))]
            mv == SubVector(mbs, m, acc, p, mode, choice.mv)
        IN [ acc EXCEPT !.Y = [ q \in Positions |->
                                  IF PartOf(choice.scheme, q) = PartOf(choice.scheme, p)
                                  THEN [ mode |-> mode, mv |-> mv ] ELSE @[q] ] ]
  IN FoldLeftDomain(Decide, [ mb EXCEPT !.scheme = << choice.scheme >> ], firsts)

Decided(h, mbs, m, choice) ==
  LET order == Raster(Positions, Side)
      inter == choice.reference # "current"
      coded == choice.mode \notin { B_PRED, SPLITMV }
      plain == [ EmptyMacroblock EXCEPT
                   !.segment = IF h.update_map THEN << choice.segment >> ELSE << >>,
                   !.inter = inter, !.reference = choice.reference,
                   !.flipped = Flipped(h, choice.reference), !.mode = choice.mode,
                   !.uv_mode = IF inter THEN DC_PRED ELSE choice.uv_mode, !.coded = coded,
                   !.nonzero = [ b \in DOMAIN @ |-> b[1] \in choice.nonzero
                                                    /\ (b[1] = "Y2" => coded) ] ]
      base == IF choice.mode = NEWMV THEN choice.mv
              ELSE VectorOf(mbs, m, plain, choice.mode, Zero)
      moved == IF choice.mode = SPLITMV THEN SplitVectors(mbs, m, plain, choice)
               ELSE WithVector([ mb |-> plain ], base).mb
      still == [ plain EXCEPT !.Y = [ p \in Positions |->
                   [ mode |-> IF choice.mode = B_PRED
                              THEN choice.sub[1 + ((p[1] + p[2]) % Len(choice.sub))]
                              ELSE implied_subblock_mode(choice.mode),
                     mv |-> Zero ] ] ]
      mb == IF inter THEN WithChroma(moved) ELSE still
  IN [ mb EXCEPT !.skip = calculate_has_nonzero(h, mb) ]

Suits(h, choice) == h.key => choice.reference = "current"

FrameInit ==
  /\ header \in Headers
  /\ macroblocks = << >>
  /\ token_branch_counts = EmptyBag

(* An encoder decides on one macroblock after the other, and counts its      *)
(* tokens at once.                                                           *)
DecideMacroblock ==
  /\ Len(macroblocks) < Width * Height
  /\ \E choice \in Decisions :
       /\ Suits(header, choice)
       /\ macroblocks' = Append(macroblocks, Decided(header, macroblocks,
                                                     Len(macroblocks) + 1, choice))
  /\ token_branch_counts' =
       token_branch_counts (+) accumulate_macroblock(macroblocks', Len(macroblocks'))
  /\ UNCHANGED header

-----------------------------------------------------------------------------
(* Bits the reader makes up beyond the end: two of any value, then FALSE.    *)
Padding == 24 * Side * Side * Width * Height
MadeUp(two) == [ k \in 1..Padding |-> Coded(k \in DOMAIN two /\ two[k], << << "none" >>, 0 >>) ]

Complete == Len(macroblocks) = Width * Height

(* A frame written and read is the frame: modes, vectors, segments, skipping *)
(* and which blocks have coefficients, whichever partition they come from.   *)
FrameReadsBack ==
  LET Back(read, tokens) ==
        /\ read.agreed
        /\ Len(read.bits) = Padding
        /\ tokens.agreed
        /\ tokens.mbs = macroblocks
        /\ \A p \in 1..header.partitions : tokens.partitions[p] = << >>
      WithTokens(read) ==
        Back(read, frame_parse_tokens(header, read.mbs,
                                      frame_serialize_tokens(header, macroblocks)))
      bits == serialize_first_partition(header, macroblocks)
  IN WithTokens(ReadHeaders(header, Len(macroblocks), bits \o MadeUp(<< >>), Padding))

(* The flags counted while macroblocks were decided, each in the context it  *)
(* was seen in then, are those written when the frame is complete, but for   *)
(* two: a Y2 block is written and never counted, and each block of a skipped *)
(* macroblock is counted, as empty, and never written.                       *)
FrameCountsMatch ==
  LET skipped == { m \in DOMAIN macroblocks : macroblocks[m].skip = << TRUE >> }
      OfSkipped(m) == IF m \in skipped
                      THEN [ k \in DOMAIN CountedBlocks |->
                               Coded(FALSE, << TokenTable(macroblocks, m, CountedBlocks[k]), 0 >>) ]
                      ELSE << >>
      written == SelectSeq(FlattenSeq(frame_serialize_tokens(header, macroblocks)),
                           LAMBDA flag : flag.probability[1][1] # "Y2")
      ends == FlattenSeq([ m \in DOMAIN macroblocks |-> OfSkipped(m) ])
  IN token_branch_counts = ToBag(written \o ends)

(* When a first partition ends early, every macroblock that was read before  *)
(* the end is as it was written, and every macroblock of an inter frame that *)
(* begins after it stays in its place on the last frame.                     *)
DamageIsConfined ==
  LET Same(read, m) == read.mbs[m] = [ macroblocks[m] EXCEPT
                                         !.nonzero = EmptyMacroblock.nonzero ]
      Still(read, m) == /\ read.mbs[m].inter
                        /\ read.mbs[m].reference = "last"
                        /\ read.mbs[m].mode = ZEROMV
                        /\ read.mbs[m].Y[LastBlock].mv = Zero
      Confined(read) == \A m \in 1..Len(macroblocks) :
                          /\ read.whole[m] => Same(read, m)
                          /\ ~header.key /\ m > 1 /\ ~read.whole[m - 1] => Still(read, m)
      Cut(bits) ==
        \A cut \in 0..Len(bits), two \in BOOLEAN \X BOOLEAN :
          Confined(ReadHeaders(header, Len(macroblocks),
                               SubSeq(bits, 1, cut) \o MadeUp(two), Padding))
  IN Len(macroblocks) <= MostDamaged
       => Cut(serialize_first_partition(header, macroblocks))
=============================================================================
