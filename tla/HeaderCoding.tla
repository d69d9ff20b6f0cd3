---------------------------- MODULE HeaderCoding ----------------------------
(***************************************************************************)
(* Frame headers as bits.  The reader takes the fields in the order in     *)
(* which the header structures declare them and decides from what it has   *)
(* read whether an optional field comes next; the writer lists the fields  *)
(* again and writes an optional one when it holds something.  The two      *)
(* lists are translated from the two pieces of code.                       *)
(*                                                                         *)
(* A header is a function from the names of the fields present to their    *)
(* values, nested structures flattened.  The value of a field is a         *)
(* sequence, of one element where the field is not an array; the elements  *)
(* of a Flagged field are sequences of at most one number.  The 1056       *)
(* updates of coefficient probabilities and the 38 of motion vectors stand *)
(* as two each.                                                            *)
(***************************************************************************)
EXTENDS SymbolCoding, TLC

Field(name, count, width) ==
  [ name |-> name, count |-> count, width |-> width, signed |-> FALSE, flagged |-> FALSE ]
Flag(name) == Field(name, 1, 1)
Flagged(name, count, width) == [ Field(name, count, width) EXCEPT !.flagged = TRUE ]
FlaggedSigned(name, count, width) ==
  [ Flagged(name, count, width) EXCEPT !.signed = TRUE ]

-----------------------------------------------------------------------------
EncodeNumber(field, number) ==
  IF field.signed THEN EncodeSigned(number, field.width)
                  ELSE EncodeUnsigned(number, field.width)

EncodeElement(field, element) ==
  IF ~field.flagged THEN EncodeNumber(field, element)
  ELSE IF element = << >> THEN << Coded(FALSE, Half) >>
  ELSE << Coded(TRUE, Half) >> \o EncodeNumber(field, element[1])

EncodeField(field, value) ==
  FlattenSeq([ i \in 1..field.count |-> EncodeElement(field, value[i]) ])

ReadNumber(field, bits) ==
  IF field.signed THEN ReadSigned(bits, field.width) ELSE ReadUnsigned(bits, field.width)

ReadElement(field, bits) ==
  IF ~field.flagged THEN ReadNumber(field, bits)
  ELSE IF ~Head(bits).bit THEN Result(<< >>, Tail(bits), TRUE)
  ELSE LET number == ReadNumber(field, Tail(bits))
       IN Result(<< number.value >>, number.rest, number.agreed)

ReadField(field, bits) ==
  FoldLeftDomain(LAMBDA acc, i :
                   LET element == ReadElement(field, acc.rest)
                   IN Result(Append(acc.value, element.value), element.rest,
                             acc.agreed /\ element.agreed),
                 Result(<< >>, bits, TRUE), [ i \in 1..field.count |-> i ])

-----------------------------------------------------------------------------
(* The writer: encode() of the header structures.                            *)
WriteSegmentation ==
  << Flag("update_segmentation"), Flag("update_mb_segmentation_map"),
     Flag("segment_feature_data"), Flag("segment_feature_mode"),
     FlaggedSigned("quantizer_update", 4, 7), FlaggedSigned("loop_filter_update", 4, 6),
     Flagged("mb_segmentation_map", 3, 8) >>

WriteFilter ==
  << Flag("filter_type"), Field("loop_filter_level", 1, 6), Field("sharpness_level", 1, 3),
     Flag("mode_lf_adjustments"), Flag("mode_ref_lf_delta_update"),
     FlaggedSigned("ref_update", 4, 6), FlaggedSigned("mode_update", 4, 6),
     Field("log2_number_of_dct_partitions", 1, 2) >>

WriteQuantIndices ==
  << Field("y_ac_qi", 1, 7), FlaggedSigned("y_dc", 1, 4), FlaggedSigned("y2_dc", 1, 4),
     FlaggedSigned("y2_ac", 1, 4), FlaggedSigned("uv_dc", 1, 4),
     FlaggedSigned("uv_ac", 1, 4) >>

WriteKeyFrameHeader ==
  << Flag("color_space"), Flag("clamping_type") >> \o WriteSegmentation \o WriteFilter
  \o WriteQuantIndices
  \o << Flag("refresh_entropy_probs"), Flagged("token_prob_update", 2, 8),
        Flagged("prob_skip_false", 1, 8) >>

(* Seeded fault: refresh_last is written before refresh_entropy_probs.       *)
WriteInterSwapped ==
  WriteSegmentation \o WriteFilter \o WriteQuantIndices
  \o << Flag("refresh_golden_frame"), Flag("refresh_alternate_frame"),
        Field("copy_buffer_to_golden", 1, 2), Field("copy_buffer_to_alternate", 1, 2),
        Flag("sign_bias_golden"), Flag("sign_bias_alternate"), Flag("refresh_last"),
        Flag("refresh_entropy_probs"), Flagged("token_prob_update", 2, 8),
        Flagged("prob_skip_false", 1, 8), Field("prob_inter", 1, 8),
        Field("prob_references_last", 1, 8), Field("prob_references_golden", 1, 8),
        Flag("intra_16x16_prob_flag"), Field("intra_16x16_prob", 4, 8),
        Flag("intra_chroma_prob_flag"), Field("intra_chroma_prob", 3, 8),
        Flagged("mv_prob_update", 2, 7) >>

WriteInterFrameHeader ==
  WriteSegmentation \o WriteFilter \o WriteQuantIndices
  \o << Flag("refresh_golden_frame"), Flag("refresh_alternate_frame"),
        Field("copy_buffer_to_golden", 1, 2), Field("copy_buffer_to_alternate", 1, 2),
        Flag("sign_bias_golden"), Flag("sign_bias_alternate"),
        Flag("refresh_entropy_probs"), Flag("refresh_last"),
        Flagged("token_prob_update", 2, 8), Flagged("prob_skip_false", 1, 8),
        Field("prob_inter", 1, 8), Field("prob_references_last", 1, 8),
        Field("prob_references_golden", 1, 8), Flag("intra_16x16_prob_flag"),
        Field("intra_16x16_prob", 4, 8), Flag("intra_chroma_prob_flag"),
        Field("intra_chroma_prob", 3, 8), Flagged("mv_prob_update", 2, 7) >>

WriteHeader(key, header) ==
  LET present == SelectSeq(IF key THEN WriteKeyFrameHeader ELSE WriteInterFrameHeader,
                           LAMBDA field : field.name \in DOMAIN header)
  IN FlattenSeq([ k \in DOMAIN present |->
                    EncodeField(present[k], header[present[k].name]) ])

-----------------------------------------------------------------------------
(* The reader: the members of the structures, in order of declaration, each  *)
(* with the flag it depends on.                                              *)
Always(field) == [ field |-> field, flag |-> "none", set |-> TRUE ]
If(flag, field) == [ field |-> field, flag |-> flag, set |-> TRUE ]
Unless(flag, field) == [ field |-> field, flag |-> flag, set |-> FALSE ]

UpdateSegmentation ==
  << Always(Flag("update_segmentation")),
     If("update_segmentation", Flag("update_mb_segmentation_map")),
     If("update_segmentation", Flag("segment_feature_data")),
     If("segment_feature_data", Flag("segment_feature_mode")),
     If("segment_feature_data", FlaggedSigned("quantizer_update", 4, 7)),
     If("segment_feature_data", FlaggedSigned("loop_filter_update", 4, 6)),
     If("update_mb_segmentation_map", Flagged("mb_segmentation_map", 3, 8)) >>

FilterFields ==
  << Always(Flag("filter_type")), Always(Field("loop_filter_level", 1, 6)),
     Always(Field("sharpness_level", 1, 3)), Always(Flag("mode_lf_adjustments")),
     If("mode_lf_adjustments", Flag("mode_ref_lf_delta_update")),
     If("mode_ref_lf_delta_update", FlaggedSigned("ref_update", 4, 6)),
     If("mode_ref_lf_delta_update", FlaggedSigned("mode_update", 4, 6)),
     Always(Field("log2_number_of_dct_partitions", 1, 2)) >>

QuantIndices ==
  << Always(Field("y_ac_qi", 1, 7)), Always(FlaggedSigned("y_dc", 1, 4)),
     Always(FlaggedSigned("y2_dc", 1, 4)), Always(FlaggedSigned("y2_ac", 1, 4)),
     Always(FlaggedSigned("uv_dc", 1, 4)), Always(FlaggedSigned("uv_ac", 1, 4)) >>

KeyFrameHeader ==
  << Always(Flag("color_space")), Always(Flag("clamping_type")) >>
  \o UpdateSegmentation \o FilterFields \o QuantIndices
  \o << Always(Flag("refresh_entropy_probs")), Always(Flagged("token_prob_update", 2, 8)),
        Always(Flagged("prob_skip_false", 1, 8)) >>

InterFrameHeader ==
  UpdateSegmentation \o FilterFields \o QuantIndices
  \o << Always(Flag("refresh_golden_frame")), Always(Flag("refresh_alternate_frame")),
        Unless("refresh_golden_frame", Field("copy_buffer_to_golden", 1, 2)),
        Unless("refresh_alternate_frame", Field("copy_buffer_to_alternate", 1, 2)),
        Always(Flag("sign_bias_golden")), Always(Flag("sign_bias_alternate")),
        Always(Flag("refresh_entropy_probs")), Always(Flag("refresh_last")),
        Always(Flagged("token_prob_update", 2, 8)),
        Always(Flagged("prob_skip_false", 1, 8)), Always(Field("prob_inter", 1, 8)),
        Always(Field("prob_references_last", 1, 8)),
        Always(Field("prob_references_golden", 1, 8)),
        Always(Flag("intra_16x16_prob_flag")),
        If("intra_16x16_prob_flag", Field("intra_16x16_prob", 4, 8)),
        Always(Flag("intra_chroma_prob_flag")),
        If("intra_chroma_prob_flag", Field("intra_chroma_prob", 3, 8)),
        Always(Flagged("mv_prob_update", 2, 7)) >>

IsSet(header, flag) == flag \in DOMAIN header /\ header[flag] = << 1 >>

Present(member, header) ==
  \/ member.flag = "none"
  \/ member.set <=> IsSet(header, member.flag)

ReadHeader(key, bits) ==
  FoldLeft(LAMBDA acc, member :
             IF ~Present(member, acc.value) THEN acc
             ELSE LET field == ReadField(member.field, acc.rest)
                  IN Result(acc.value @@ (member.field.name :> field.value), field.rest,
                            acc.agreed /\ field.agreed),
           Result(<< >>, bits, TRUE), IF key THEN KeyFrameHeader ELSE InterFrameHeader)

(* What the constructors of the headers refuse.                              *)
Unsupported(header) ==
  \E flag \in { "color_space", "clamping_type", "filter_type" } : IsSet(header, flag)

-----------------------------------------------------------------------------
(* A header whose optional fields are the ones its flags announce is read    *)
(* back field by field, and the macroblocks begin where it ends.             *)
HeaderReadsBack(key, header) ==
  LET tail == << Coded(TRUE, Half), Coded(FALSE, Half) >>
      read == ReadHeader(key, WriteHeader(key, header) \o tail)
  IN /\ read.rest = tail
     /\ read.value = header
     /\ read.agreed
=============================================================================
