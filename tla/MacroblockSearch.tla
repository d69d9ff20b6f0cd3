-------------------------- MODULE MacroblockSearch --------------------------
(***************************************************************************)
(* How the encoder codes one macroblock (encode_intra.cc, encode_inter.cc):*)
(* it tries the modes, keeps the cheapest one's prediction in the buffer   *)
(* of the reconstructed picture, takes the residue from there, and at last *)
(* reconstructs as a decoder will.  Which mode is cheapest depends on the  *)
(* pictures: any may be.  The buffers hold names for their pixels.         *)
(***************************************************************************)
EXTENDS Naturals, Sequences

CONSTANTS
  LastSubblock,   (* luma subblocks, coded in order; 16 in the code          *)
  Vectors         (* what the census and the search for vectors may answer   *)

ASSUME MacroblockAssumption == LastSubblock \in Nat \ {0} /\ 0 \in Vectors

VARIABLES
  coding,         (* stage, kind of frame, pass, modes still to be tried,    *)
                  (* census                                                  *)
  best,           (* best_pred                                               *)
  buffer,         (* the macroblock of the reconstructed raster              *)
  temp,           (* and of the raster to try modes in                       *)
  frame_mb        (* what is to be written                                   *)

macroblock_vars == << coding, best, buffer, temp, frame_mb >>

Luma == 1..LastSubblock
SubblockTries == << "B_DC_PRED", "B_TM_PRED" >>
ChromaTries == << "DC_PRED", "V_PRED", "H_PRED", "TM_PRED" >>
InterTries == << "ZEROMV", "NEARESTMV", "NEARMV", "NEWMV" >>

(* Seeded fault: the modes are tried in the order of their numbers.          *)
AscendingTries(realtime) ==
  << "DC_PRED", "V_PRED", "H_PRED", "TM_PRED" >>
  \o (IF realtime THEN << >> ELSE << "B_PRED" >>)

(* B_PRED first, as it reconstructs in the buffer; not for interframes in    *)
(* realtime.                                                                 *)
LumaTries(realtime) ==
  (IF realtime THEN << >> ELSE << "B_PRED" >>)
  \o << "TM_PRED", "H_PRED", "V_PRED", "DC_PRED" >>

(* Names of pixels.                                                          *)
Stale == << "stale" >>
Whole(mode, vector) == << "whole", mode, vector >>
Part(mode, before) == << "part", mode, before >>
Residue(prediction) == << "residue of", prediction >>
Restored(prediction, residue) == << "restored", prediction, residue >>

MacroblockInit ==
  /\ coding = [ stage |-> "begin", inter |-> FALSE, realtime |-> FALSE, two_pass |-> FALSE,
                pass |-> 2, every |-> FALSE, tries |-> << >>, subblock |-> 1,
                nearest |-> 0, near |-> 0 ]
  /\ best = [ mode |-> "none", vector |-> 0 ]
  /\ buffer = [ luma |-> [ i \in Luma |-> Stale ], chroma |-> Stale ]
  /\ temp = [ luma |-> [ i \in Luma |-> Stale ], chroma |-> Stale ]
  /\ frame_mb = [ inter |-> FALSE, mode |-> "DC_PRED", vector |-> 0, coded |-> FALSE,
                  submodes |-> [ i \in Luma |-> "B_DC_PRED" ],
                  luma |-> [ i \in Luma |-> Stale ], after_y2 |-> {}, raw |-> {},
                  uv_mode |-> "DC_PRED", chroma |-> Stale ]

BeginAs(kind) ==
  /\ coding' = [ kind EXCEPT !.stage = "luma", !.subblock = 1,
                             !.pass = IF kind.two_pass /\ @ = 1 THEN 2 ELSE 1,
                             !.tries = LumaTries(kind.inter /\ kind.realtime) ]
  /\ best' = [ mode |-> "none", vector |-> 0 ]
  /\ UNCHANGED << buffer, temp, frame_mb >>

(* The first frame of its kind; only key frames may have a second pass.      *)
FirstFrame ==
  /\ coding.stage = "begin"
  /\ \E inter, realtime, two_pass, every \in BOOLEAN :
       /\ inter => ~two_pass
       /\ BeginAs([ coding EXCEPT !.inter = inter, !.realtime = realtime,
                                  !.two_pass = two_pass, !.every = every ])

(* The same macroblock in the second pass, or in the next frame: all buffers *)
(* hold what they held.                                                      *)
BeginMacroblock ==
  /\ coding.stage = "done"
  /\ \E every \in BOOLEAN : BeginAs([ coding EXCEPT !.every = every ])

Tried == [ coding EXCEPT !.tries = Tail(@), !.subblock = 1 ]

(* What a try leaves if it is the cheapest so far; the first always is.      *)
KeepIfCheaper(mode, vector, prediction) ==
  \/ /\ buffer' = [ buffer EXCEPT !.luma = prediction ]
     /\ best' = [ mode |-> mode, vector |-> vector ]
  \/ /\ best.mode # "none"
     /\ UNCHANGED best
     /\ buffer' = buffer

Before(i) == IF i = 1 THEN << "outside" >> ELSE buffer.luma[i - 1]

(* The second pass leaves out the first coefficient of blocks after Y2, what *)
(* the first pass may have made of this one: it stays as the transform left  *)
(* it, unless all the others are 0.                                          *)
SkipsFirst(i) == coding.pass = 2 /\ i \in frame_mb.after_y2

(* B_PRED, one subblock: the cheapest of its modes is predicted, its residue *)
(* taken, and the subblock restored for the next.  The last subblock mode    *)
(* tried is left in the temporary raster.                                    *)
TrySubblock ==
  /\ coding.stage = "luma" /\ coding.tries # << >> /\ Head(coding.tries) = "B_PRED"
  /\ coding.subblock <= LastSubblock
  /\ \E m \in 1..Len(SubblockTries), raw \in BOOLEAN :
       LET i == coding.subblock
           prediction == Part(SubblockTries[m], Before(i))
       IN /\ raw => SkipsFirst(i)
          /\ frame_mb' = [ frame_mb EXCEPT !.submodes[i] = SubblockTries[m],
                                           !.luma[i] = Residue(prediction),
                                           !.after_y2 = @ \ {i},
                                           !.raw = IF raw THEN @ \cup {i} ELSE @ \ {i} ]
          /\ buffer' = [ buffer EXCEPT !.luma[i] = Restored(prediction, Residue(prediction)) ]
          /\ temp' = [ temp EXCEPT
                         !.luma[i] = Part(SubblockTries[Len(SubblockTries)], Before(i)) ]
  /\ coding' = [ coding EXCEPT !.subblock = @ + 1 ]
  /\ UNCHANGED best

TrySubblocks ==
  /\ coding.stage = "luma" /\ coding.tries # << >> /\ Head(coding.tries) = "B_PRED"
  /\ coding.subblock > LastSubblock
  /\ KeepIfCheaper("B_PRED", 0, temp.luma)
  /\ coding' = Tried
  /\ UNCHANGED << temp, frame_mb >>

TryWhole ==
  /\ coding.stage = "luma" /\ coding.tries # << >> /\ Head(coding.tries) # "B_PRED"
  /\ LET prediction == [ i \in Luma |-> Whole(Head(coding.tries), 0) ]
     IN /\ temp' = [ temp EXCEPT !.luma = prediction ]
        /\ KeepIfCheaper(Head(coding.tries), 0, prediction)
  /\ coding' = Tried
  /\ UNCHANGED frame_mb

BeginInter ==
  /\ coding.stage = "luma" /\ coding.tries = << >> /\ coding.inter
  /\ \E nearest, near \in Vectors :
       coding' = [ coding EXCEPT !.stage = "inter", !.tries = InterTries,
                                 !.nearest = nearest, !.near = near ]
  /\ frame_mb' = [ frame_mb EXCEPT !.inter = TRUE ]
  /\ UNCHANGED << best, buffer, temp >>

(* The vectors a mode may stand for; ZEROMV stands for the empty one, the    *)
(* others are left out when they would, and in realtime most searches are.   *)
SearchesFor(mode) == mode = "NEWMV" /\ (coding.realtime => coding.every)

VectorsOf(mode) ==
  CASE mode = "ZEROMV" -> {0}
    [] mode = "NEARESTMV" -> {coding.nearest} \ {0}
    [] mode = "NEARMV" -> {coding.near} \ {0}
    [] mode = "NEWMV" -> IF SearchesFor(mode) THEN Vectors \ {0} ELSE {}

TryInter ==
  /\ coding.stage = "inter" /\ coding.tries # << >>
  /\ \E vector \in VectorsOf(Head(coding.tries)) :
       LET prediction == [ i \in Luma |-> Whole("inter", vector) ]
       IN /\ temp' = [ temp EXCEPT !.luma = prediction ]
          /\ KeepIfCheaper(Head(coding.tries), vector, prediction)
  /\ coding' = Tried
  /\ UNCHANGED frame_mb

(* No vector: a search that comes back to the empty one has used the         *)
(* temporary raster.                                                         *)
SkipInter ==
  /\ coding.stage = "inter" /\ coding.tries # << >>
  /\ IF SearchesFor(Head(coding.tries))
     THEN \E vector \in Vectors :
            temp' = [ temp EXCEPT !.luma = [ i \in Luma |-> Whole("inter", vector) ] ]
     ELSE VectorsOf(Head(coding.tries)) = {} /\ UNCHANGED temp
  /\ coding' = Tried
  /\ UNCHANGED << best, buffer, frame_mb >>

(* luma_mb_apply_intra_prediction, luma_mb_apply_inter_prediction.           *)
ApplyLuma ==
  /\ coding.stage \in {"luma", "inter"} /\ coding.tries = << >>
  /\ coding.stage = "luma" => ~coding.inter
  /\ LET residue == [ i \in Luma |-> Residue(buffer.luma[i]) ]
         chosen == [ frame_mb EXCEPT !.mode = best.mode, !.inter = FALSE ]
         whole == [ chosen EXCEPT !.coded = TRUE, !.luma = residue,
                                  !.after_y2 = Luma, !.raw = {} ]
     IN frame_mb' =
          IF best.mode = "B_PRED" THEN [ chosen EXCEPT !.coded = FALSE ]
          ELSE IF best.mode \in { InterTries[m] : m \in 1..Len(InterTries) }
          THEN [ whole EXCEPT !.inter = TRUE, !.vector = best.vector ]
          ELSE [ whole EXCEPT !.submodes = [ i \in Luma |-> "implied" ] ]
  /\ coding' = [ coding EXCEPT !.stage = "chroma", !.tries = ChromaTries ]
  /\ best' = [ mode |-> "none", vector |-> 0 ]
  /\ UNCHANGED << buffer, temp >>

(* Of intra predicted chroma the least distorted is kept.                    *)
TryChroma ==
  /\ coding.stage = "chroma" /\ coding.tries # << >> /\ ~frame_mb.inter
  /\ LET prediction == Whole(Head(coding.tries), 0)
     IN /\ temp' = [ temp EXCEPT !.chroma = prediction ]
        /\ \/ /\ buffer' = [ buffer EXCEPT !.chroma = prediction ]
              /\ best' = [ mode |-> Head(coding.tries), vector |-> 0 ]
           \/ /\ best.mode # "none"
              /\ UNCHANGED << buffer, best >>
  /\ coding' = Tried
  /\ UNCHANGED frame_mb

ApplyChroma ==
  /\ coding.stage = "chroma"
  /\ \/ /\ frame_mb.inter
        /\ buffer' = [ buffer EXCEPT !.chroma = Whole("inter", frame_mb.vector) ]
        /\ frame_mb' = [ frame_mb EXCEPT !.chroma = Residue(buffer'.chroma) ]
     \/ /\ ~frame_mb.inter /\ coding.tries = << >>
        /\ frame_mb' = [ frame_mb EXCEPT !.uv_mode = best.mode,
                                         !.chroma = Residue(buffer.chroma) ]
        /\ UNCHANGED buffer
  /\ coding' = [ coding EXCEPT !.stage = "reconstruct", !.tries = << >> ]
  /\ UNCHANGED << best, temp >>

-----------------------------------------------------------------------------
(* What a decoder makes of the macroblock: predictions, and pictures.        *)
decoded_part(mb, i, before) ==
  IF mb.inter THEN Whole("inter", mb.vector)
  ELSE IF mb.mode = "B_PRED" THEN Part(mb.submodes[i], before)
  ELSE Whole(mb.mode, 0)

decoded_luma(mb) ==
  LET restored[i \in 0..LastSubblock] ==
        IF i = 0 THEN << "outside" >>
        ELSE Restored(decoded_part(mb, i, restored[i - 1]), mb.luma[i])
  IN [ i \in Luma |-> restored[i] ]

decoded_chroma(mb) ==
  IF mb.inter THEN Whole("inter", mb.vector) ELSE Whole(mb.uv_mode, 0)

(* reconstruct_intra, reconstruct_inter.                                     *)
Reconstruct ==
  /\ coding.stage = "reconstruct"
  /\ buffer' = [ luma |-> decoded_luma(frame_mb),
                 chroma |-> Restored(decoded_chroma(frame_mb), frame_mb.chroma) ]
  /\ coding' = [ coding EXCEPT !.stage = "done" ]
  /\ UNCHANGED << best, temp, frame_mb >>

MacroblockNext ==
  \/ FirstFrame \/ BeginMacroblock \/ TrySubblock \/ TrySubblocks \/ TryWhole
  \/ BeginInter \/ TryInter \/ SkipInter \/ ApplyLuma
  \/ TryChroma \/ ApplyChroma \/ Reconstruct

MacroblockSpec == MacroblockInit /\ [][MacroblockNext]_macroblock_vars

-----------------------------------------------------------------------------
(* The residues of a finished macroblock are those of the very predictions a *)
(* decoder makes for its modes and vectors, subblock after subblock, although*)
(* modes are tried in shared buffers that hold the reconstruction of one, the*)
(* prediction of another and what earlier macroblocks, passes and frames left*)
(* there; a macroblock that has a Y2 block is not one of subblock modes; and *)
(* all its coefficients are quantized, but for the first ones of subblock    *)
(* modes chosen in a second pass only (encode_intra.cc:48-386,               *)
(* encode_inter.cc:231-507).                                                 *)
ResidueIsOfThePrediction ==
  coding.stage = "done" =>
    /\ \A i \in Luma :
         LET before == IF i = 1 THEN << "outside" >> ELSE decoded_luma(frame_mb)[i - 1]
         IN frame_mb.luma[i] = Residue(decoded_part(frame_mb, i, before))
    /\ frame_mb.chroma = Residue(decoded_chroma(frame_mb))
    /\ frame_mb.coded <=> frame_mb.mode # "B_PRED"
    /\ frame_mb.raw # {} => frame_mb.mode = "B_PRED" /\ coding.pass = 2
=============================================================================
