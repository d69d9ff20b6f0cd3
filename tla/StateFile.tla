------------------------------ MODULE StateFile ------------------------------
(***************************************************************************)
(* A decoder's state in a file, as the ExCamera tools hand it from one     *)
(* chunk's encoder to the next (enc_state_serializer.hh, decoder.cc,       *)
(* probability_tables.cc): octets, with tags and lengths before the parts. *)
(***************************************************************************)
EXTENDS Integers, Sequences, SequencesExt

(* EncoderSerDesTag                                                          *)
PROB_TABLE == 0
FILT_ADJ == 1
SEGM_ABS == 2
SEGM_REL == 3
DECODER_STATE == 4
OPT_EMPTY == 5
OPT_FULL == 6
REFERENCES == 7
REF_LAST == 8
DECODER == 11

put(n, size) == [ i \in 1..size |-> (n \div 256^(i - 1)) % 256 ]

(* A part behind its tag and its length.                                     *)
Tagged(tag, content) == << tag >> \o put(Len(content), 4) \o content

Signed8(numbers) == [ i \in DOMAIN numbers |-> numbers[i] % 256 ]

SegmentationOctets(s) ==
  Tagged(IF s.absolute THEN SEGM_ABS ELSE SEGM_REL,
         put(s.width, 2) \o put(s.height, 2) \o Signed8(s.quantizer) \o Signed8(s.filter)
         \o s.map)

OptionalOctets(part, octets) ==
  IF part = << >> THEN << OPT_EMPTY >> ELSE << OPT_FULL >> \o octets

FilterOctets(f) == Tagged(FILT_ADJ, Signed8(f.reference) \o Signed8(f.mode))

StateOctets(state) ==
  Tagged(DECODER_STATE,
         put(state.width, 2) \o put(state.height, 2)
         \o Tagged(PROB_TABLE, state.probabilities)
         \o OptionalOctets(state.segmentation,
                           SegmentationOctets(state.segmentation[1]))
         \o OptionalOctets(state.filter_adjustments,
                           FilterOctets(state.filter_adjustments[1])))

(* Only the last frame is kept: the others are not cared for.                *)
ReferencesOctets(state, references) ==
  Tagged(REFERENCES, put(state.width, 2) \o put(state.height, 2)
                     \o Tagged(REF_LAST, references.last))

serialize(decoder) ==
  Tagged(DECODER, StateOctets(decoder.state)
                  \o ReferencesOctets(decoder.state, decoder.references))

-----------------------------------------------------------------------------
(* get, from what is left of the file.                                       *)
get(octets, size) ==
  FoldLeft(LAMBDA n, i : n + octets[i] * 256^(i - 1), 0, [ i \in 1..size |-> i ])

get_int8(octet) == IF octet >= 128 THEN octet - 256 ELSE octet

Rest(octets, read) == SubSeq(octets, read + 1, Len(octets))

Numbers(octets, from, count) == [ i \in 1..count |-> get_int8(octets[from + i]) ]

RasterSize(width, height) ==
  LET w == 16 * ((width + 15) \div 16)
      h == 16 * ((height + 15) \div 16)
  IN w * h + 2 * (w \div 2) * (h \div 2)

(* An optional part: what it is, and how many octets it took.  "checked"     *)
(* gathers the assertions on tags and lengths.                               *)
GetSegmentation(octets) ==
  LET width == get(Rest(octets, 6), 2)
      height == get(Rest(octets, 8), 2)
      area == width * height
  IN IF octets[1] # OPT_FULL THEN [ part |-> << >>, took |-> 1, checked |-> TRUE ]
     ELSE [ part |-> << [ absolute |-> octets[2] = SEGM_ABS, width |-> width,
                          height |-> height, quantizer |-> Numbers(octets, 10, 4),
                          filter |-> Numbers(octets, 14, 4),
                          map |-> SubSeq(octets, 19, 18 + area) ] >>,
            took |-> 18 + area,
            checked |-> /\ octets[2] \in {SEGM_ABS, SEGM_REL}
                        /\ get(Rest(octets, 2), 4) = 12 + area ]

GetFilterAdjustments(octets) ==
  IF octets[1] # OPT_FULL THEN [ part |-> << >>, took |-> 1, checked |-> TRUE ]
  ELSE [ part |-> << [ reference |-> Numbers(octets, 6, 4), mode |-> Numbers(octets, 10, 4) ] >>,
         took |-> 14,
         checked |-> octets[2] = FILT_ADJ /\ get(Rest(octets, 2), 4) = 8 ]

(* References( last ): the three references are one frame.                   *)
GetReferences(octets) ==
  LET size == RasterSize(get(Rest(octets, 5), 2), get(Rest(octets, 7), 2))
      last == SubSeq(octets, 15, 14 + size)
  IN [ references |-> [ last |-> last, golden |-> last, alternative |-> last ],
       checked |-> /\ octets[1] = REFERENCES /\ get(Rest(octets, 1), 4) <= Len(octets) - 5
                   /\ octets[10] = REF_LAST /\ get(Rest(octets, 10), 4) = size ]

deserialize(octets, table) ==
  LET tables == Rest(octets, 14)
      segmentation == GetSegmentation(Rest(tables, 5 + table))
      filter == GetFilterAdjustments(Rest(tables, 5 + table + segmentation.took))
      references == GetReferences(Rest(tables, 5 + table + segmentation.took + filter.took))
  IN [ decoder |->
         [ state |-> [ width |-> get(Rest(octets, 10), 2), height |-> get(Rest(octets, 12), 2),
                       probabilities |-> SubSeq(tables, 6, 5 + table),
                       segmentation |-> segmentation.part,
                       filter_adjustments |-> filter.part ],
           references |-> references.references ],
       checked |-> /\ octets[1] = DECODER /\ get(Rest(octets, 1), 4) = Len(octets) - 5
                   /\ octets[6] = DECODER_STATE
                   /\ get(Rest(octets, 6), 4) <= Len(octets) - 10
                   /\ tables[1] = PROB_TABLE /\ get(Rest(tables, 1), 4) = table
                   /\ segmentation.checked /\ filter.checked /\ references.checked ]

-----------------------------------------------------------------------------
(* What is loaded is what was saved, but for the references that were left   *)
(* out: they become the last frame.  All the lengths and tags check.         *)
StateReadsBack(decoder) ==
  LET read == deserialize(serialize(decoder), Len(decoder.state.probabilities))
      last == decoder.references.last
  IN /\ read.checked
     /\ read.decoder = [ decoder EXCEPT !.references.golden = last,
                                        !.references.alternative = last ]
=============================================================================
