------------------------------ MODULE Bitstream ------------------------------
(***************************************************************************)
(* The parts of a VP8 frame's coding side by side: the coder's bits, the   *)
(* macroblocks of a frame one after the other, and the symbols, blocks,    *)
(* headers and neighbourhoods that are coded in one piece (a sample); and  *)
(* the file the frames are appended to and read from.  A behaviour         *)
(* exercises one of the parts.                                             *)
(***************************************************************************)
EXTENDS BoolCoder, HeaderCoding, Costs, IvfFile

CONSTANTS
  Symbols,         (* see SymbolReadsBack                                    *)
  Blocks,          (* see TokenCoding                                        *)
  FrameHeaders,    (* [ key: BOOLEAN, header: the fields present ]           *)
  Neighbourhoods,  (* what Scorer sees above, left and above left            *)
  Layouts,         (* frames in parts, see FrameLayout                       *)
  SavedStates      (* states to save, see StateFile                          *)

ASSUME NeighbourhoodAssumption ==
  Neighbourhoods \subseteq Neighbours \X Neighbours \X Neighbours

Layout == INSTANCE FrameLayout
File == INSTANCE StateFile

VARIABLE sample

coding_vars == << encoder, put, frame_vars >>
vars == << coding_vars, sample, ivf_vars >>

NoSample == [ part |-> "none" ]

Samples ==
  { [ part |-> "symbol", symbol |-> s ] : s \in Symbols }
  \cup { [ part |-> "block", block |-> b ] : b \in Blocks }
  \cup { [ part |-> "header", header |-> h ] : h \in FrameHeaders }
  \cup { [ part |-> "census", neighbours |-> n ] : n \in Neighbourhoods }
  \cup { [ part |-> "frame", frame |-> f ] : f \in Layouts }
  \cup { [ part |-> "state", decoder |-> d ] : d \in SavedStates }

Init ==
  /\ CoderInit
  /\ FrameInit
  /\ IvfInit
  /\ sample = NoSample

Idle == sample = NoSample /\ IvfInit
NoFrame == macroblocks = << >> /\ header = CHOOSE h \in Headers : TRUE

CodeBit ==
  /\ Idle
  /\ NoFrame
  /\ PutBit
  /\ UNCHANGED << frame_vars, sample, ivf_vars >>

CodeMacroblock ==
  /\ Idle
  /\ put = << >>
  /\ DecideMacroblock
  /\ UNCHANGED << encoder, put, sample, ivf_vars >>

CodeSample ==
  /\ Idle
  /\ put = << >>
  /\ NoFrame
  /\ sample' \in Samples
  /\ UNCHANGED << coding_vars, ivf_vars >>

WriteAndReadFile ==
  /\ sample = NoSample
  /\ put = << >>
  /\ NoFrame
  /\ IvfNext
  /\ UNCHANGED << coding_vars, sample >>

Next == CodeBit \/ CodeMacroblock \/ CodeSample \/ WriteAndReadFile

Spec == Init /\ [][Next]_vars

-----------------------------------------------------------------------------
(* Trees, numbers, vectors, headers and the tokens of a block: whatever      *)
(* follows it, each is read back as it was written, asking for every bit     *)
(* with the probability it was written with, and leaves exactly what follows *)
(* (serializer.cc against tree.cc, tokens.cc, frame_header.hh).  So are the  *)
(* partitions of a frame, and of a frame cut short nothing but what is there *)
(* (serializer.cc:741-799, uncompressed_chunk.cc), and a decoder's state     *)
(* saved to a file, but for the references left out (decoder.cc:48-81).      *)
WrittenIsRead ==
  CASE sample.part = "symbol" ->
         \A bit \in BOOLEAN : SymbolReadsBack(sample.symbol, << Coded(bit, -1) >>)
    [] sample.part = "block" -> TokensReadBack(sample.block)
    [] sample.part = "header" -> HeaderReadsBack(sample.header.key, sample.header.header)
    [] sample.part = "frame" -> Layout!LayoutReadsBack(sample.frame)
    [] sample.part = "state" -> File!StateReadsBack(sample.decoder)
    [] OTHER -> TRUE

(* The branches the encoder counts, from which it derives the probabilities  *)
(* of Y, U and V tokens it writes (optimize_probability_tables), are those   *)
(* its tokens take: at every node within a block (serializer.cc:455-579),    *)
(* and over the frame, where blocks are counted as soon as they are decided  *)
(* and written at the end.  Only Y2 blocks, which are not counted, and       *)
(* skipped macroblocks, which are, make a difference; see FrameCountsMatch   *)
(* (serializer.cc:428-443, 581-587).                                         *)
CountsMatch ==
  /\ sample.part = "block" /\ sample.block.type # "Y2" => CountsMatchBits(sample.block)
  /\ FrameCountsMatch

(* What the encoder adds up for a choice is of the bits that spell it: of a  *)
(* block the trellis may choose, the very branches of its tokens and each    *)
(* coefficient once (encoder.cc:273-382); of a vector and of the modes of a  *)
(* macroblock, bit by bit, each from the table it is written with but for    *)
(* intra modes in inter frames; see RatesMatch, ModesPayTheirBits            *)
(* (costs.cc:53-220).                                                        *)
RatesMatchBits ==
  /\ sample.part = "block" => RatesMatch(sample.block)
  /\ sample.part = "symbol" => ComponentPaysItsBits(sample.symbol)
  /\ ModesPayTheirBits

(* The candidates for a macroblock's vector are the neighbours', ranked by   *)
(* how many have them, in the macroblock's own direction of time; see        *)
(* CensusIsFair.                                                             *)
CandidatesAreFair ==
  sample.part = "census" =>
    LET n == sample.neighbours
    IN CensusIsFair(n[1], n[2], n[3], FALSE)
=============================================================================
