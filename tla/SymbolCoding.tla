---------------------------- MODULE SymbolCoding ----------------------------
(***************************************************************************)
(* How modes, numbers and motion vectors become bits for the BoolEncoder,  *)
(* and how the decoder gets them back.  A coded bit carries the name of    *)
(* the probability it is coded with; a reader that would ask for it with   *)
(* another probability does not get it.                                    *)
(***************************************************************************)
EXTENDS Integers, Sequences, SequencesExt, FiniteSetsExt

Coded(bit, probability) == [ bit |-> bit, probability |-> probability ]

Half == 128

-----------------------------------------------------------------------------
(* A tree is an array of pairs, one per node.  An entry above zero is the    *)
(* place of another pair; any other entry is a leaf, and minus its value.    *)
ArrayOf(entries) == [ i \in 0..(Len(entries) - 1) |-> entries[i + 1] ]

kf_y_mode_tree == ArrayOf(<< -4, 2, 4, 6, 0, -1, -2, -3 >>)
y_mode_tree == ArrayOf(<< 0, 2, 4, 6, -1, -2, -3, -4 >>)
uv_mode_tree == ArrayOf(<< 0, 2, -1, 4, -2, -3 >>)
b_mode_tree == ArrayOf(<< 0, 2, -1, 4, -2, 6, 8, 12, -3, 10, -5, -6, -4, 14, -7, 16,
                          -8, -9 >>)
small_mv_tree == ArrayOf(<< 2, 8, 4, 6, 0, -1, -2, -3, 10, 12, -4, -5, -6, -7 >>)
mv_ref_tree == ArrayOf(<< -7, 2, -5, 4, -6, 6, -8, -9 >>)
submv_ref_tree == ArrayOf(<< -10, 2, -11, 4, -12, -13 >>)
split_mv_tree == ArrayOf(<< -3, 2, -2, 4, 0, -1 >>)
segment_id_tree == ArrayOf(<< 2, 4, 0, -1, -2, -3 >>)

Trees == { kf_y_mode_tree, y_mode_tree, uv_mode_tree, b_mode_tree, small_mv_tree,
           mv_ref_tree, submv_ref_tree, split_mv_tree, segment_id_tree }

Values(tree) == { -tree[i] : i \in { j \in DOMAIN tree : tree[j] <= 0 } }

Step(i) == Coded(i % 2 = 1, i \div 2)

(* encode() reverses the tree and climbs from the leaf to the root.          *)
EncodeTree(tree, value) ==
  LET PlaceOf(entry) == Max({ i \in DOMAIN tree : tree[i] = entry })
      path[i \in DOMAIN tree] ==
        IF i <= 1 THEN << Step(i) >>
                  ELSE Append(path[PlaceOf(i - (i % 2))], Step(i))
  IN path[PlaceOf(-value)]

(* A reader's result: the value, what is left of the bits, and whether all   *)
(* bits were asked for with the probability they were coded with.            *)
Result(value, rest, agreed) == [ value |-> value, rest |-> rest, agreed |-> agreed ]

(* BoolDecoder::tree walks down from the root.                               *)
ReadTree(tree, bits) ==
  LET node[k \in 0..Len(bits)] ==
        IF k = 0 THEN 0
        ELSE tree[node[k - 1] + IF bits[k].bit THEN 1 ELSE 0]
      length == CHOOSE k \in 1..Len(bits) :
                  node[k] <= 0 /\ \A j \in 1..(k - 1) : node[j] > 0
  IN Result(-node[length], SubSeq(bits, length + 1, Len(bits)),
            \A k \in 1..length : bits[k].probability = node[k - 1] \div 2)

-----------------------------------------------------------------------------
BitOf(n, i) == (n \div 2^i) % 2

(* Unsigned<width>, most significant bit first.                              *)
EncodeUnsigned(n, width) ==
  [ k \in 1..width |-> Coded(BitOf(n, width - k) = 1, Half) ]

ReadUnsigned(bits, width) ==
  LET Weight(k) == IF bits[k].bit THEN 2^(width - k) ELSE 0
  IN Result(SumSet({ Weight(k) : k \in 1..width }),
            SubSeq(bits, width + 1, Len(bits)),
            \A k \in 1..width : bits[k].probability = Half)

Magnitude(n) == IF n < 0 THEN -n ELSE n

(* Signed<width>: the sign comes last, for zero too.                         *)
EncodeSigned(n, width) ==
  Append(EncodeUnsigned(Magnitude(n), width), Coded(n < 0, Half))

ReadSigned(bits, width) ==
  LET WithSignBit(number) ==
        Result(IF Head(number.rest).bit THEN -number.value ELSE number.value,
               Tail(number.rest), number.agreed)
  IN WithSignBit(ReadUnsigned(bits, width))

-----------------------------------------------------------------------------
(* The places of the probabilities of a motion vector's component.           *)
IS_SHORT == 0
SIGN == 1
SHORT == 2
BITS == SHORT + 8 - 1
LONG_MV_WIDTH == 10

LongBits == << 0, 1, 2 >> \o [ k \in 1..(LONG_MV_WIDTH - 4) |-> LONG_MV_WIDTH - k ]

(* num >> 1: components count quarters of a pixel, an odd one is rounded     *)
(* down.  Bit 3 of a long component goes without saying when none above is   *)
(* set.                                                                      *)
EncodeComponent(num) ==
  LET half == num \div 2
      x == Magnitude(half)
      small == [ k \in DOMAIN EncodeTree(small_mv_tree, x) |->
                   LET step == EncodeTree(small_mv_tree, x)[k]
                   IN Coded(step.bit, SHORT + step.probability) ]
      long == [ k \in DOMAIN LongBits |->
                  Coded(BitOf(x, LongBits[k]) = 1, BITS + LongBits[k]) ]
      last == IF x >= 16 THEN << Coded(BitOf(x, 3) = 1, BITS + 3) >> ELSE << >>
      sign == IF x # 0 THEN << Coded(half < 0, SIGN) >> ELSE << >>
  IN IF x < 8 THEN << Coded(FALSE, IS_SHORT) >> \o small \o sign
              ELSE << Coded(TRUE, IS_SHORT) >> \o long \o last \o sign

(* What bit 3 adds, and how many bits it took.                               *)
ThirdBit(high, next) ==
  IF high < 16 THEN << 8, 0 >> ELSE << IF next.bit THEN 8 ELSE 0, 1 >>

WithSign(number) ==
  IF number.value = 0 THEN number
  ELSE Result(IF Head(number.rest).bit THEN -2 * number.value ELSE 2 * number.value,
              Tail(number.rest), number.agreed /\ Head(number.rest).probability = SIGN)

ReadShort(body) ==
  LET Placed(tree) == Result(tree.value,
                             SubSeq(body, Len(body) - Len(tree.rest) + 1, Len(body)),
                             tree.agreed)
  IN Placed(ReadTree(small_mv_tree,
                     [ k \in DOMAIN body |->
                         Coded(body[k].bit, body[k].probability - SHORT) ]))

ReadLong(body) ==
  LET WithThird(high, rest, third) ==
        Result(high + third[1], SubSeq(rest, third[2] + 1, Len(rest)),
               /\ \A k \in DOMAIN LongBits : body[k].probability = BITS + LongBits[k]
               /\ third[2] = 1 => Head(rest).probability = BITS + 3)
      After(high, rest) == WithThird(high, rest, ThirdBit(high, Head(rest)))
  IN After(SumSet({ IF body[k].bit THEN 2^LongBits[k] ELSE 0 : k \in DOMAIN LongBits }),
           SubSeq(body, Len(LongBits) + 1, Len(body)))

read_component(bits) ==
  WithSign(IF bits[1].bit THEN ReadLong(Tail(bits)) ELSE ReadShort(Tail(bits)))

-----------------------------------------------------------------------------
(* read_half_prob and write_prob: seven bits for a probability of motion     *)
(* vectors; zero stands for one.                                             *)
read_half_prob(half) == IF half = 0 THEN 1 ELSE 2 * half
write_prob(prob) == prob \div 2
is_settable_value(prob) == prob = read_half_prob(write_prob(prob))

-----------------------------------------------------------------------------
(* Whatever follows it, a symbol is read back as it was written, and leaves  *)
(* exactly what follows.                                                     *)
SymbolReadsBack(symbol, tail) ==
  CASE symbol.kind = "tree" ->
         \A v \in Values(symbol.tree) :
           ReadTree(symbol.tree, EncodeTree(symbol.tree, v) \o tail) = Result(v, tail, TRUE)
    [] symbol.kind = "component" ->
         read_component(EncodeComponent(symbol.number) \o tail)
           = Result(symbol.number, tail, TRUE)
    [] symbol.kind = "signed" ->
         ReadSigned(EncodeSigned(symbol.number, symbol.width) \o tail, symbol.width)
           = Result(symbol.number, tail, TRUE)
    [] symbol.kind = "probability" ->
         is_settable_value(symbol.number) =>
           LET half == ReadUnsigned(EncodeUnsigned(write_prob(symbol.number), 7) \o tail, 7)
           IN read_half_prob(half.value) = symbol.number /\ half.rest = tail
=============================================================================
