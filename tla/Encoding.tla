------------------------------ MODULE Encoding ------------------------------
(***************************************************************************)
(* The parts of the encoder, and of a decoder's reconstruction, side by    *)
(* side: the search for a quantizer, the coding of a macroblock, the       *)
(* search for a vector, the prediction of one block after another, and     *)
(* single blocks and lines of pixels on their way (a sample).  A behaviour *)
(* exercises one of the parts.                                             *)
(***************************************************************************)
EXTENDS QuantizerSearch, MacroblockSearch, MotionSearch, Prediction, LoopFilter,
        Residue

CONSTANTS
  InterBlocks,   (* see InterBlock                                           *)
  ResidueBlocks, (* see ResidueBlock                                         *)
  ResidueWholes, (* see ResidueWhole                                         *)
  EdgeLines      (* [ frame, mb, line ], see LoopFilter                      *)

ASSUME SampleAssumption ==
  /\ InterBlocks \subseteq InterBlock
  /\ ResidueBlocks \subseteq ResidueBlock
  /\ ResidueWholes \subseteq ResidueWhole
  /\ \A e \in EdgeLines : /\ e.line \in [ 1..8 -> 0..255 ]
                          /\ e.frame.sharpness \in 0..7
                          /\ filter_level(e.frame, e.mb) \in Int

VARIABLE sample

search_and_coding == << search_vars, macroblock_vars >>
vars == << search_and_coding, motion_vars, place, sample >>

NoSample == [ part |-> "none" ]

Samples ==
  { [ part |-> "inter", block |-> b ] : b \in InterBlocks }
  \cup { [ part |-> "block", block |-> b ] : b \in ResidueBlocks }
  \cup { [ part |-> "macroblock", macroblock |-> m ] : m \in ResidueWholes }
  \cup { [ part |-> "edge", edge |-> e ] : e \in EdgeLines }

Init ==
  /\ SearchInit
  /\ MacroblockInit
  /\ MotionInit
  /\ PredictionInit
  /\ sample = NoSample

(* No part has begun; the rest of the state is that of Init.                 *)
Idle ==
  /\ search = NoSearch
  /\ coding.stage = "begin"
  /\ stage = "start"
  /\ PredictionInit
  /\ sample = NoSample

SearchQuantizer ==
  /\ Idle \/ search # NoSearch
  /\ SearchNext
  /\ UNCHANGED << macroblock_vars, motion_vars, place, sample >>

CodeMacroblock ==
  /\ Idle \/ coding.stage # "begin"
  /\ MacroblockNext
  /\ UNCHANGED << search_vars, motion_vars, place, sample >>

SearchMotion ==
  /\ Idle \/ stage # "start"
  /\ MotionNext
  /\ UNCHANGED << search_and_coding, place, sample >>

Predict ==
  /\ search = NoSearch /\ coding.stage = "begin" /\ stage = "start" /\ sample = NoSample
  /\ PredictionNext
  /\ UNCHANGED << search_and_coding, motion_vars, sample >>

TakeSample ==
  /\ Idle
  /\ sample' \in Samples
  /\ UNCHANGED << search_and_coding, motion_vars, place >>

Next == SearchQuantizer \/ CodeMacroblock \/ SearchMotion \/ Predict \/ TakeSample

Spec == Init /\ [][Next]_vars

-----------------------------------------------------------------------------
(* The decoder's prediction of a block, which takes a fast path where the    *)
(* filter's reach lies in the plane, the slow one elsewhere, and with SSE    *)
(* leaves out what changes nothing, and the encoder's, which reads a copy    *)
(* with a margin, agree with the plain filter over the picture extended      *)
(* without end, for every vector within the margin: the copy's rows are those*)
(* of the displayed picture, and what is read past one is the next row's     *)
(* margin (prediction.cc:645-971, safe_raster.cc:33-112).                    *)
PathsAgree == sample.part = "inter" => AgreesOn(sample.block)

(* What is transformed, quantized and transformed back is near what it was,  *)
(* in either pass, at the ends of the tables of quantizers and past them for *)
(* a segment, and every level can be spelled in tokens and has a cost        *)
(* (encoder.cc:196-411, quantization.cc, dct.cc, transform.cc).              *)
ResidueIsRestored ==
  CASE sample.part = "block" -> BlockIsRestored(sample.block)
    [] sample.part = "macroblock" -> MacroblockIsRestored(sample.macroblock)
    [] OTHER -> TRUE

(* The loop filter smooths what it filters and stays within bytes; see       *)
(* SmoothsLine (loopfilter.cc, loopfilter_filters.hh).                       *)
FilterSmooths == sample.part = "edge" => LineIsSmoothed(sample.edge)
=============================================================================
