---------------------------- MODULE TokenCoding ----------------------------
(***************************************************************************)
(* The coefficients of a block as tokens.  The writer counts the tokens    *)
(* first and spells each value out by cases; the reader is an unfolded     *)
(* tree with a loop of its own; a third copy of the cases counts the       *)
(* branches taken, from which the encoder chooses its probabilities.       *)
(***************************************************************************)
EXTENDS SymbolCoding, Bags

CONSTANT BlockLength  (* coefficients of a block, 16 in the code             *)

coefficient_to_band == << 0, 1, 2, 3, 6, 4, 5, 6, 6, 6, 6, 6, 6, 6, 6, 7 >>

(* Coefficients are in zigzag order throughout, at places from 0.            *)
Places == 0..(BlockLength - 1)
Block(type, context, coefficients) ==
  [ type |-> type, context |-> context, coefficients |-> coefficients ]

FirstIndex(type) == IF type = "Y_after_Y2" THEN 1 ELSE 0

(* token_decoder_1 to token_decoder_5                                        *)
TokenDecoder ==
  << [ base |-> 7, probs |-> << 165, 145 >> ],
     [ base |-> 11, probs |-> << 173, 148, 140 >> ],
     [ base |-> 19, probs |-> << 176, 155, 140, 135 >> ],
     [ base |-> 35, probs |-> << 180, 157, 141, 134, 130 >> ],
     [ base |-> 67, probs |-> << 254, 254, 243, 230, 196, 177, 153, 140, 133, 130,
                                129 >> ] >>

upper_limit(k) == TokenDecoder[k].base + 2^Len(TokenDecoder[k].probs)

MaxValue == upper_limit(5) - 1

-----------------------------------------------------------------------------
(* The branches taken for a value other than zero after node 1.              *)
CategoryPath ==
  << << << 3, TRUE >>, << 6, FALSE >>, << 7, TRUE >> >>,
     << << 3, TRUE >>, << 6, TRUE >>, << 8, FALSE >>, << 9, FALSE >> >>,
     << << 3, TRUE >>, << 6, TRUE >>, << 8, FALSE >>, << 9, TRUE >> >>,
     << << 3, TRUE >>, << 6, TRUE >>, << 8, TRUE >>, << 10, FALSE >> >>,
     << << 3, TRUE >>, << 6, TRUE >>, << 8, TRUE >>, << 10, TRUE >> >> >>

CategoryOf(v) == CHOOSE k \in 1..5 : v \in TokenDecoder[k].base..(upper_limit(k) - 1)

PathOf(v) ==
  CASE v = 1 -> << << 2, FALSE >> >>
    [] v = 2 -> << << 2, TRUE >>, << 3, FALSE >>, << 4, FALSE >> >>
    [] v = 3 -> << << 2, TRUE >>, << 3, FALSE >>, << 4, TRUE >>, << 5, FALSE >> >>
    [] v = 4 -> << << 2, TRUE >>, << 3, FALSE >>, << 4, TRUE >>, << 5, TRUE >> >>
    [] v \in 5..6 -> << << 2, TRUE >>, << 3, TRUE >>, << 6, FALSE >>, << 7, FALSE >> >>
    [] v >= 7 -> << << 2, TRUE >> >> \o CategoryPath[CategoryOf(v)]

(* A probability is that of a node for a band and context, or fixed.         *)
Fixed(number) == << number >>

Adaptive(index, context, branch) ==
  Coded(branch[2], << coefficient_to_band[index + 1], context, branch[1] >>)

ExtraBits(v) ==
  IF v < 5 THEN << >>
  ELSE IF v < 7 THEN << Coded(v = 6, Fixed(159)) >>
  ELSE LET decoder == TokenDecoder[CategoryOf(v)]
           width == Len(decoder.probs)
       IN [ i \in 1..width |->
              Coded(BitOf(v - decoder.base, width - i) = 1, Fixed(decoder.probs[i])) ]

ContextAfter(v) == IF v = 0 THEN 0 ELSE IF v = 1 THEN 1 ELSE 2

CodedLength(block) ==
  LET nonzero == { i \in Places : i >= FirstIndex(block.type)
                                  /\ block.coefficients[i] # 0 }
  IN IF nonzero = {} THEN 0 ELSE Max(nonzero) + 1

(* The first token comes in the context the neighbours leave; an end of      *)
(* block cannot follow a zero and is not asked for there.                    *)
ContextAt(block, index) ==
  IF index = FirstIndex(block.type) THEN block.context
  ELSE ContextAfter(Magnitude(block.coefficients[index - 1]))

AfterZero(block, index) ==
  index > FirstIndex(block.type) /\ block.coefficients[index - 1] = 0

Branches(block, index) ==
  LET v == Magnitude(block.coefficients[index])
  IN (IF AfterZero(block, index) THEN << >> ELSE << << 0, TRUE >> >>)
     \o << << 1, v # 0 >> >> \o (IF v = 0 THEN << >> ELSE PathOf(v))

EncodeToken(block, index) ==
  LET c == block.coefficients[index]
      branches == Branches(block, index)
  IN [ k \in DOMAIN branches |-> Adaptive(index, ContextAt(block, index), branches[k]) ]
     \o ExtraBits(Magnitude(c))
     \o (IF c = 0 THEN << >> ELSE << Coded(c < 0, Fixed(Half)) >>)

Start(block) == Max({ CodedLength(block), FirstIndex(block.type) })

(* Block::serialize_tokens                                                   *)
serialize_tokens(block) ==
  LET first == FirstIndex(block.type)
      tokens == [ k \in 1..(Start(block) - first) |-> EncodeToken(block, first + k - 1) ]
      end == IF CodedLength(block) < BlockLength
             THEN << Adaptive(Start(block), ContextAt(block, Start(block)),
                              << 0, FALSE >>) >>
             ELSE << >>
  IN FlattenSeq(tokens) \o end

-----------------------------------------------------------------------------
(* parse_tokens: the tree as the reader walks it from node 2.  Minus a       *)
(* number leads to that leaf: a value, with extra bits to read.              *)
NextNode ==
  << << >>, << -1, 3 >>, << 4, 6 >>, << -2, 5 >>, << -3, -4 >>, << 7, 8 >>, << -5, -6 >>,
     << 9, 10 >>, << -7, -8 >>, << -9, -10 >> >>

Leaf ==
  [ i \in 1..4 |-> [ base |-> i, probs |-> << >> ] ]
  \o << [ base |-> 5, probs |-> << 159 >> ] >> \o TokenDecoder

(* One token of the reader, in a state of its loop.                          *)
ParseToken(state, index) ==
  LET Name(node) == << coefficient_to_band[index + 1], state.context, node >>
      Agrees(k, node) == state.bits[k].probability = Name(node)
      ended == ~state.last_was_zero /\ ~state.bits[1].bit
      first == IF state.last_was_zero THEN 1 ELSE 2
      node[k \in Nat] == IF k = first THEN 1
                         ELSE IF k = first + 1 THEN 2
                         ELSE NextNode[node[k - 1]][IF state.bits[k - 1].bit THEN 2 ELSE 1]
      last == CHOOSE k \in (first + 2)..Len(state.bits) :
                node[k] < 0 /\ \A j \in (first + 1)..(k - 1) : node[j] > 0
      leaf == Leaf[-node[last]]
      width == Len(leaf.probs)
      extra == SubSeq(state.bits, last, last + width - 1)
      value == leaf.base
               + SumSet({ IF extra[i].bit THEN 2^(width - i) ELSE 0 : i \in 1..width })
      sign == state.bits[last + width]
      walked == IF ended \/ ~state.bits[first].bit THEN first ELSE last - 1
      agreed == /\ state.agreed
                /\ ~state.last_was_zero => Agrees(1, 0)
                /\ ~ended => \A k \in first..walked : Agrees(k, node[k])
      rest(n) == SubSeq(state.bits, n, Len(state.bits))
  IN IF ended
     THEN [ state EXCEPT !.ended = TRUE, !.bits = rest(2), !.agreed = agreed ]
     ELSE IF ~state.bits[first].bit
     THEN [ state EXCEPT !.last_was_zero = TRUE, !.context = 0, !.bits = rest(first + 1),
                         !.agreed = agreed ]
     ELSE [ state EXCEPT !.last_was_zero = FALSE,
                         !.context = IF node[last] = -1 THEN 1 ELSE 2,
                         !.bits = rest(last + width + 1),
                         !.coefficients[index] = IF sign.bit THEN -value ELSE value,
                         !.has_nonzero = TRUE,
                         !.agreed = /\ agreed
                                    /\ \A i \in 1..width : extra[i].probability = Fixed(leaf.probs[i])
                                    /\ sign.probability = Fixed(Half) ]

parse_tokens(type, context, bits) ==
  FoldLeft(LAMBDA state, index : IF state.ended THEN state ELSE ParseToken(state, index),
           [ bits |-> bits, ended |-> FALSE, last_was_zero |-> FALSE, context |-> context,
             coefficients |-> [ i \in Places |-> 0 ], has_nonzero |-> FALSE,
             agreed |-> TRUE ],
           [ k \in 1..(BlockLength - FirstIndex(type)) |-> FirstIndex(type) + k - 1 ])

-----------------------------------------------------------------------------
(* Seeded fault: node 7 is counted for category 1 only.                      *)
CountedShort(v) ==
  { << 1, v > 0 >> }
  \cup (IF v >= 1 THEN { << 2, v > 1 >> } ELSE {})
  \cup (IF v >= 2 THEN { << 3, v > 4 >> } ELSE {})
  \cup (IF v \in 2..4 THEN { << 4, v > 2 >> } ELSE {})
  \cup (IF v \in 3..4 THEN { << 5, v = 4 >> } ELSE {})
  \cup (IF v >= 5 THEN { << 6, v >= upper_limit(1) >> } ELSE {})
  \cup (IF v \in 5..6 THEN { << 7, FALSE >> } ELSE {})
  \cup (IF v >= upper_limit(1) THEN { << 8, v >= upper_limit(3) >> } ELSE {})
  \cup (IF v \in upper_limit(1)..(upper_limit(3) - 1)
        THEN { << 9, v >= upper_limit(2) >> } ELSE {})
  \cup (IF v >= upper_limit(3) THEN { << 10, v >= upper_limit(4) >> } ELSE {})

(* The nodes a value is counted at, and the way it goes there.               *)
Counted(v) ==
  { << 1, v > 0 >> }
  \cup (IF v >= 1 THEN { << 2, v > 1 >> } ELSE {})
  \cup (IF v >= 2 THEN { << 3, v > 4 >> } ELSE {})
  \cup (IF v \in 2..4 THEN { << 4, v > 2 >> } ELSE {})
  \cup (IF v \in 3..4 THEN { << 5, v = 4 >> } ELSE {})
  \cup (IF v >= 5 THEN { << 6, v >= upper_limit(1) >> } ELSE {})
  \cup (IF v \in 5..(upper_limit(1) - 1)
        THEN { << 7, v >= TokenDecoder[1].base >> } ELSE {})
  \cup (IF v >= upper_limit(1) THEN { << 8, v >= upper_limit(3) >> } ELSE {})
  \cup (IF v \in upper_limit(1)..(upper_limit(3) - 1)
        THEN { << 9, v >= upper_limit(2) >> } ELSE {})
  \cup (IF v >= upper_limit(3) THEN { << 10, v >= upper_limit(4) >> } ELSE {})

(* accumulate_token_branches of one block, which is never a Y2 block: how    *)
(* often each node went each way.                                            *)
accumulate_token_branches(block) ==
  LET At(index, branches) ==
        SetToBag({ Adaptive(index, ContextAt(block, index), branch) : branch \in branches })
      Token(index) == Counted(Magnitude(block.coefficients[index]))
                      \cup (IF AfterZero(block, index) THEN {} ELSE { << 0, TRUE >> })
      first == FirstIndex(block.type)
      end == IF CodedLength(block) < BlockLength THEN { << 0, FALSE >> } ELSE {}
  IN FoldLeft(LAMBDA counts, index : counts (+) At(index, Token(index)),
              At(Start(block), end),
              [ k \in 1..(Start(block) - first) |-> first + k - 1 ])

(* The branches among the bits of a block, of probabilities that adapt.      *)
BranchesOf(bits) == SelectSeq(bits, LAMBDA coded : Len(coded.probability) = 3)

(* The branches counted in a block are those its tokens take.                *)
CountsMatchBits(block) ==
  accumulate_token_branches(block) = ToBag(BranchesOf(serialize_tokens(block)))

(* What serialize_tokens writes, parse_tokens reads: every value, every      *)
(* context, and has_nonzero, on which the neighbours' contexts depend.       *)
TokensReadBack(block) ==
  LET tail == << Coded(TRUE, << >>) >>
      read == parse_tokens(block.type, block.context, serialize_tokens(block) \o tail)
      kept == [ i \in Places |-> IF i >= FirstIndex(block.type)
                                 THEN block.coefficients[i] ELSE 0 ]
  IN /\ read.agreed
     /\ read.bits = tail
     /\ read.coefficients = kept
     /\ read.has_nonzero <=> \E i \in Places : kept[i] # 0
=============================================================================
