------------------------------ MODULE LoopFilter ------------------------------
(***************************************************************************)
(* The filter that smooths the edges between blocks (loopfilter.cc,        *)
(* loopfilter_filters.hh): how strong it is for a macroblock, which edges  *)
(* it takes in which order, and what it does to the eight pixels across    *)
(* one, p3 p2 p1 p0 and q0 q1 q2 q3.  The portable code.                   *)
(***************************************************************************)
EXTENDS Integers, Sequences

Distance(a, b) == IF a < b THEN b - a ELSE a - b
vp8_signed_char_clamp(t) == IF t < -128 THEN -128 ELSE IF t > 127 THEN 127 ELSE t
clamp63(level) == IF level < 0 THEN 0 ELSE IF level > 63 THEN 63 ELSE level

(* The level of a macroblock: the frame's, or its segment's, adjusted for    *)
(* its reference and mode.                                                   *)
segment_filter_level(frame, mb) ==
  IF frame.segments = << >> THEN frame.level
  ELSE frame.segments[mb.segment] + (IF frame.absolute THEN 0 ELSE frame.level)

mode_adjustment(modes, mb) ==
  CASE mb.reference = "current" -> IF mb.mode = "B_PRED" THEN modes[1] ELSE 0
    [] mb.reference # "current" /\ mb.mode = "ZEROMV" -> modes[2]
    [] mb.reference # "current" /\ mb.mode = "SPLITMV" -> modes[4]
    [] OTHER -> modes[3]

filter_level(frame, mb) ==
  segment_filter_level(frame, mb)
  + (IF frame.adjustments = << >> THEN 0
     ELSE frame.adjustments.reference[mb.reference]
          + mode_adjustment(frame.adjustments.mode, mb))

(* Neither a frame of level 0 nor a macroblock of one below 1 is filtered.   *)
Filters(frame, mb) == frame.level # 0 /\ filter_level(frame, mb) > 0

interior_limit(level, sharpness) ==
  LET shifted == IF sharpness = 0 THEN level
                 ELSE IF sharpness > 4 THEN level \div 4 ELSE level \div 2
      limited == IF sharpness # 0 /\ shifted > 9 - sharpness THEN 9 - sharpness ELSE shifted
  IN IF limited < 1 THEN 1 ELSE limited

hev_threshold(level, key) ==
  (IF level >= 15 THEN 1 ELSE 0) + (IF level >= 40 THEN 1 ELSE 0)
  + (IF level >= 20 /\ ~key THEN 1 ELSE 0)

Limits(frame, mb) ==
  LET level == clamp63(filter_level(frame, mb))
      interior == interior_limit(level, frame.sharpness)
  IN [ interior |-> interior,
       macroblock |-> (level + 2) * 2 + interior,
       subblock |-> level * 2 + interior,
       hev |-> hev_threshold(level, frame.key) ]

(* The edges of a macroblock in the order they are filtered: the left one,   *)
(* the vertical ones inside, the top one, the horizontal ones inside; the    *)
(* inner ones are left alone where there is no residue.                      *)
Edges(size, mb) ==
  LET Inner(direction) ==
        IF mb.coded /\ ~mb.has_nonzero THEN << >>
        ELSE IF size = 16
        THEN << << direction, 4 >>, << direction, 8 >>, << direction, 12 >> >>
        ELSE << << direction, 4 >> >>
  IN (IF mb.column > 0 THEN << << "vertical", 0 >> >> ELSE << >>)
     \o Inner("vertical")
     \o (IF mb.row > 0 THEN << << "horizontal", 0 >> >> ELSE << >>)
     \o Inner("horizontal")

-----------------------------------------------------------------------------
vp8_filter_mask(limit, blimit, l) ==
  /\ \A i \in {1, 2, 3, 5, 6, 7} : Distance(l[i], l[i + 1]) <= limit
  /\ Distance(l[4], l[5]) * 2 + (Distance(l[3], l[6]) \div 2) <= blimit

vp8_hevmask(thresh, l) == Distance(l[3], l[4]) > thresh \/ Distance(l[6], l[5]) > thresh

(* Seeded fault: a pixel is let past the end of its byte.                    *)
Wrapping(pixel, n) == (pixel + n) % 256

(* Pixels count from -128 while they are filtered.                           *)
Plus(pixel, n) == vp8_signed_char_clamp((pixel - 128) + n) + 128

Step3(l, outer) ==
  vp8_signed_char_clamp((IF outer THEN vp8_signed_char_clamp(l[3] - l[6]) ELSE 0)
                        + 3 * (l[5] - l[4]))

(* The pixels next to the edge; one side is rounded up, the other down.      *)
InnerTaps(l, value) ==
  [ l EXCEPT ![4] = Plus(@, vp8_signed_char_clamp(value + 3) \div 8),
             ![5] = Plus(@, -(vp8_signed_char_clamp(value + 4) \div 8)) ]

vp8_filter(hev, l) ==
  LET value == Step3(l, hev)
      outer == ((vp8_signed_char_clamp(value + 4) \div 8) + 1) \div 2
      inner == InnerTaps(l, value)
  IN IF hev THEN inner
     ELSE [ inner EXCEPT ![3] = Plus(@, outer), ![6] = Plus(@, -outer) ]

vp8_mbfilter(hev, l) ==
  LET value == Step3(l, TRUE)
      Share(ninths) == vp8_signed_char_clamp((63 + value * 9 * ninths) \div 128)
  IN IF hev THEN InnerTaps(l, value)
     ELSE [ l EXCEPT ![2] = Plus(@, Share(1)), ![3] = Plus(@, Share(2)),
                     ![4] = Plus(@, Share(3)), ![5] = Plus(@, -Share(3)),
                     ![6] = Plus(@, -Share(2)), ![7] = Plus(@, -Share(1)) ]

(* The line of pixels across an edge of a macroblock, or of a subblock, and   *)
(* of whichever begins at an offset.                                         *)
filter_mb(limits, line) ==
  IF vp8_filter_mask(limits.interior, limits.macroblock, line)
  THEN vp8_mbfilter(vp8_hevmask(limits.hev, line), line) ELSE line

filter_sb(limits, line) ==
  IF vp8_filter_mask(limits.interior, limits.subblock, line)
  THEN vp8_filter(vp8_hevmask(limits.hev, line), line) ELSE line

FilteredLine(limits, offset, line) ==
  IF offset = 0 THEN filter_mb(limits, line) ELSE filter_sb(limits, line)

-----------------------------------------------------------------------------
Variation(l) ==
  Distance(l[1], l[2]) + Distance(l[2], l[3]) + Distance(l[3], l[4]) + Distance(l[4], l[5])
  + Distance(l[5], l[6]) + Distance(l[6], l[7]) + Distance(l[7], l[8])

(* Filtering an edge leaves bytes, moves no pixel by more than 27, and where *)
(* there is no high variance it makes the picture smoother: neither the step *)
(* at the edge nor the ups and downs across it grow, but for what rounding   *)
(* does at the edge of a macroblock.  What it leaves alone is a line with a  *)
(* step no coarser block could have caused, and one without residue.  Every  *)
(* limit fits the byte it is kept in, whatever segment, reference and mode   *)
(* add to the level (loopfilter.cc:36-160, loopfilter_filters.hh:50-185).    *)
SmoothsLine(frame, mb, offset, line) ==
  LET limits == Limits(frame, mb)
      filtered == FilteredLine(limits, offset, line)
      masked == vp8_filter_mask(limits.interior,
                                IF offset = 0 THEN limits.macroblock ELSE limits.subblock,
                                line)
      grace == IF offset = 0 THEN 2 ELSE 0
  IN /\ limits.macroblock \in 3..255 /\ limits.interior \in 1..63
     /\ \A i \in 1..8 : filtered[i] \in 0..255 /\ Distance(filtered[i], line[i]) <= 27
     /\ filtered[1] = line[1] /\ filtered[8] = line[8]
     /\ ~masked => filtered = line
     /\ vp8_hevmask(limits.hev, line) =>
          \A i \in {1, 2, 3, 6, 7, 8} : filtered[i] = line[i]
     /\ ~vp8_hevmask(limits.hev, line) =>
          /\ Distance(filtered[4], filtered[5]) <= Distance(line[4], line[5]) + grace
          /\ Variation(filtered) <= Variation(line) + 2 * grace

LineIsSmoothed(r) ==
  Filters(r.frame, r.mb) =>
    \A size \in {8, 16} : LET edges == Edges(size, r.mb)
                          IN \A e \in 1..Len(edges) :
                               SmoothsLine(r.frame, r.mb, edges[e][2], r.line)
=============================================================================
