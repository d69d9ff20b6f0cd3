------------------------------ MODULE BoolCoder ------------------------------
(***************************************************************************)
(* The arithmetic coder under every VP8 partition.  BoolEncoder narrows an *)
(* interval with each bit it is given and lets octets go as soon as their  *)
(* value is settled but for a carry, which then runs back through octets   *)
(* already written.  BoolDecoder follows with 16 bits of look-ahead, takes *)
(* missing octets for zeros, and remembers that it had to when the chunk   *)
(* is known to be only a part of the partition.                            *)
(***************************************************************************)
EXTENDS Integers, Sequences, SequencesExt

CONSTANTS
  Delay,          (* bits kept back before an octet is written, 24 in code   *)
  Probabilities,  (* probabilities of FALSE, out of 256                      *)
  MaxBits         (* bound on the bits put                                   *)

ASSUME CoderAssumption ==
  /\ Delay \in 8..24
  /\ Probabilities \subseteq 1..255
  /\ MaxBits \in Nat

VARIABLES encoder, put

coder_vars == << encoder, put >>

-----------------------------------------------------------------------------
(* vp8_norm: how far a range is shifted to be at least 128 again.            *)
Norm(range) == CHOOSE shift \in 0..7 : range * 2^shift \in 128..255

Split(range, probability) == 1 + ((range - 1) * probability) \div 256

BoolEncoder == [ output |-> << >>, range |-> 255, bottom |-> 0, bit_count |-> -Delay ]

(* Seeded fault: the carry stops at the last octet.                          *)
add_one_to_last(output) ==
  [ output EXCEPT ![Len(output)] = (@ + 1) % 256 ]

(* A carry turns the run of 255s at the end into zeros.                      *)
add_one_to_output(output) ==
  LET last == SelectLastInSeq(output, LAMBDA octet : octet # 255)
  IN [ i \in DOMAIN output |->
         IF i < last THEN output[i] ELSE IF i = last THEN output[i] + 1 ELSE 0 ]

(* An octet leaves the buffer of Delay + 8 bits, with its carry.             *)
Emit(e, shift) ==
  LET offset == -e.bit_count
      carry == (e.bottom \div 2^(Delay + 8 - offset)) % 2 = 1
      octet == (e.bottom \div 2^(Delay - offset)) % 256
      rest == (e.bottom * 2^offset) % 2^Delay
      count == e.bit_count + shift
  IN [ output |-> Append(IF carry THEN add_one_to_output(e.output) ELSE e.output, octet),
       range |-> e.range * 2^shift,
       bottom |-> rest * 2^count,
       bit_count |-> count - 8 ]

Put(e, value, probability) ==
  LET split == Split(e.range, probability)
      narrowed == IF value
                  THEN [ e EXCEPT !.bottom = @ + split, !.range = @ - split ]
                  ELSE [ e EXCEPT !.range = split ]
      shift == Norm(narrowed.range)
  IN IF e.bit_count + shift >= 0
     THEN Emit(narrowed, shift)
     ELSE [ narrowed EXCEPT !.range = @ * 2^shift, !.bottom = @ * 2^shift,
                            !.bit_count = @ + shift ]

(* The 32 bits of flush() push everything that matters out of the buffer.    *)
Finish(e) ==
  LET flushed[i \in 0..32] == IF i = 0 THEN e ELSE Put(flushed[i - 1], FALSE, 128)
  IN flushed[32].output

-----------------------------------------------------------------------------
(* Seeded fault: octets that are missing are never noticed.    *)
LoadForgiving(d) ==
  IF d.chunk # << >>
  THEN [ d EXCEPT !.value = @ + Head(d.chunk), !.chunk = Tail(@) ]
  ELSE d

load_octet(d) ==
  IF d.chunk # << >>
  THEN [ d EXCEPT !.value = @ + Head(d.chunk), !.chunk = Tail(@) ]
  ELSE [ d EXCEPT !.valid = @ /\ d.complete_chunk ]

BoolDecoder(chunk, complete_chunk) ==
  LET first == load_octet([ chunk |-> chunk, range |-> 255, value |-> 0,
                            bit_count |-> 0, valid |-> TRUE,
                            complete_chunk |-> complete_chunk ])
  IN load_octet([ first EXCEPT !.value = @ * 256 ])

(* The loop that doubles range and value, with the octet it may load.        *)
Renormalised(d) ==
  LET shift == Norm(d.range)
      before == 8 - d.bit_count
      doubled == [ d EXCEPT !.range = @ * 2^shift ]
  IN IF shift < before
     THEN [ doubled EXCEPT !.value = @ * 2^shift, !.bit_count = @ + shift ]
     ELSE LET loaded == load_octet([ doubled EXCEPT !.value = @ * 2^before ])
          IN [ loaded EXCEPT !.value = @ * 2^(shift - before), !.bit_count = shift - before ]

Bit(d, probability) == d.value >= Split(d.range, probability) * 256

Get(d, probability) ==
  LET split == Split(d.range, probability)
  IN Renormalised(IF Bit(d, probability)
                  THEN [ d EXCEPT !.range = @ - split, !.value = @ - split * 256 ]
                  ELSE [ d EXCEPT !.range = split ])

(* The decoder before each of the bits, and after the last.                  *)
Decoders(chunk, complete_chunk, bits) ==
  LET upto[i \in 0..Len(bits)] ==
        IF i = 0 THEN << BoolDecoder(chunk, complete_chunk) >>
        ELSE LET before == upto[i - 1]
             IN Append(before, Get(before[i], bits[i].probability))
  IN upto[Len(bits)]

-----------------------------------------------------------------------------
CoderInit ==
  /\ encoder = BoolEncoder
  /\ put = << >>

PutBit ==
  /\ Len(put) < MaxBits
  /\ \E value \in BOOLEAN, probability \in Probabilities :
       /\ encoder' = Put(encoder, value, probability)
       /\ put' = Append(put, [ value |-> value, probability |-> probability ])

CoderSpec == CoderInit /\ [][PutBit]_coder_vars

-----------------------------------------------------------------------------
(* What a BoolEncoder has been given is what a BoolDecoder that asks with    *)
(* the same probabilities gets, whatever carries run through the output.     *)
DecodesWhatWasEncoded ==
  LET decoder == Decoders(Finish(encoder), TRUE, put)
  IN \A i \in DOMAIN put :
       Bit(decoder[i], put[i].probability) = put[i].value

(* From a part of a partition every bit is right up to the first that is     *)
(* asked of a decoder no longer valid(): what error concealment relies on.   *)
RightWhileValid ==
  LET octets == Finish(encoder)
  IN \A length \in 0..Len(octets) :
       LET decoder == Decoders(SubSeq(octets, 1, length), FALSE, put)
       IN \A i \in DOMAIN put :
            decoder[i].valid =>
              Bit(decoder[i], put[i].probability) = put[i].value
=============================================================================
