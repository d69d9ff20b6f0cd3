--------------------------- MODULE QuantizerSearch ---------------------------
(***************************************************************************)
(* The searches that wrap the coding of one frame (encoder.cc): for the    *)
(* finest quantizer whose estimated size stays within a target, for the    *)
(* coarsest whose picture is still good enough, and for the level of the   *)
(* loop filter.  Each attempt codes the frame; all the searches learn of   *)
(* an attempt is whether it did.                                           *)
(***************************************************************************)
EXTENDS Integers

CONSTANTS
  Finest,      (* the finest quantizer tried for a target size, 4 in code    *)
  Coarsest,    (* the coarsest quantizer, 127 in code                        *)
  Radius,      (* how far a realtime encoder strays from its last frame's    *)
  MaxLevel,    (* the strongest loop filter, 63 in code                      *)
  Lasts,       (* quantizers or levels of the previous frame to start from   *)
  Pictures     (* sets of the quantizers or levels that do                   *)

None == -1

ASSUME QuantizerAssumption ==
  /\ Finest \in Nat /\ Coarsest \in Nat /\ Radius \in Nat /\ MaxLevel \in Nat
  /\ Finest <= Coarsest /\ Finest <= Radius
  /\ Lasts \subseteq (0..Coarsest) \cup {None}
  /\ \A picture \in Pictures : picture \subseteq Nat

VARIABLES
  picture,     (* the quantizers or levels that do for this frame            *)
  search       (* what the loop holds, and the window it began with          *)

search_vars == << picture, search >>

NoSearch == [ goal |-> "none", first |-> 0, last |-> 0, low |-> 0, high |-> 0,
              best |-> None ]

Started(goal, first, last, best) ==
  [ goal |-> goal, first |-> first, last |-> last, low |-> first, high |-> last,
    best |-> best ]

(* The window around the quantizer of the last frame, if there was one.      *)
SizeWindow(last) ==
  Started("size",
          IF last # None /\ last - Radius >= Finest THEN last - Radius ELSE Finest,
          IF last # None /\ last + Radius < Coarsest THEN last + Radius ELSE Coarsest,
          None)

LevelWindow(level) ==
  Started("level",
          IF level > 0 THEN level - 1 ELSE 0,
          IF level # None /\ level + 1 < MaxLevel THEN level + 1 ELSE MaxLevel,
          None)

SearchInit ==
  /\ picture = {}
  /\ search = NoSearch

BeginSearch ==
  /\ search = NoSearch
  /\ picture' \in Pictures
  /\ \/ \E last \in Lasts : search' = SizeWindow(last)
     \/ search' = Started("quality", 0, Coarsest, None)
     \/ \E level \in Lasts : level <= MaxLevel /\ search' = LevelWindow(level)

Middle == (search.low + search.high) \div 2

(* Seeded fault: an attempt that fits ends the search.                       *)
SettleAtOnce(s, q) == [ s EXCEPT !.best = q, !.high = s.low - 1 ]

Settle(s, q) == [ s EXCEPT !.best = q, !.high = q - 1 ]
Coarser(s, q) == [ s EXCEPT !.low = q + 1 ]

(* encode_with_target_size: the last quantizer left is taken unseen when     *)
(* nothing fitted.                                                           *)
ProbeSize ==
  /\ search.goal = "size"
  /\ search.low <= search.high
  /\ search' = IF \/ Middle \in picture
                  \/ search.low = search.high /\ search.best = None
               THEN Settle(search, Middle)
               ELSE Coarser(search, Middle)
  /\ UNCHANGED picture

(* What encode_raster answers for the quality is 0 unless it is told to      *)
(* measure, by its fourth argument; the search gives it three.               *)
compute_ssim == FALSE
GoodEnough(q) == compute_ssim /\ q \in picture

(* encode_with_quantizer_search, for a least quality above 0: the last       *)
(* quantizer left is taken when nothing was good enough.                     *)
ProbeQuality ==
  /\ search.goal = "quality"
  /\ search.low <= search.high
  /\ LET found == \/ GoodEnough(Middle)
                  \/ search.low = search.high /\ search.best = None
         kept == IF found THEN [ search EXCEPT !.best = Middle ] ELSE search
     IN search' = IF search.low < search.high /\ GoodEnough(Middle)
                  THEN [ kept EXCEPT !.low = Middle + 1 ]
                  ELSE [ kept EXCEPT !.high = Middle - 1 ]
  /\ UNCHANGED picture

(* apply_best_loopfilter_settings: upwards while the picture improves.       *)
ProbeLevel ==
  /\ search.goal = "level"
  /\ search.low <= search.high
  /\ search' = IF search.best = None \/ search.low \in picture
               THEN [ search EXCEPT !.best = search.low, !.low = @ + 1 ]
               ELSE [ search EXCEPT !.high = search.low - 1 ]
  /\ UNCHANGED picture

SearchNext == BeginSearch \/ ProbeSize \/ ProbeQuality \/ ProbeLevel

SearchSpec == SearchInit /\ [][SearchNext]_search_vars

-----------------------------------------------------------------------------
SearchOver == search.goal # "none" /\ search.low > search.high

(* Coarser quantizers make smaller frames; finer ones better pictures.       *)
CoarserFits == \A q, r \in 0..Coarsest : q \in picture /\ q < r => r \in picture
FinerPleases == \A q, r \in 0..Coarsest : r \in picture /\ q < r => q \in picture

(* A search for a size ends, with a quantizer of its window: one that fits   *)
(* if any it tried did, and where coarser quantizers fit better the finest   *)
(* that fits, or the coarsest of the window if none does.  The 255 that      *)
(* best_y_qi begins with, past the end of the quantizer tables, never comes  *)
(* out (encoder.cc:575-628).                                                 *)
FinestThatFits ==
  SearchOver /\ search.goal = "size" =>
    /\ search.best \in search.first..search.last
    /\ search.best \in picture \/ search.best = search.last
    /\ CoarserFits => \A q \in search.first..(search.best - 1) : q \notin picture

(* What best_y_ac_qi holds after a search for a quality.                     *)
best_y_ac_qi == IF search.best = None THEN 0 ELSE search.best

(* A search for a quality ends with a quantizer that is good enough, or with *)
(* 0, the best there is, although it steps past its candidates on both sides *)
(* (encoder.cc:519-557).                                                     *)
QualityIsMet ==
  SearchOver /\ search.goal = "quality" =>
    /\ best_y_ac_qi \in 0..Coarsest
    /\ best_y_ac_qi \in picture \/ best_y_ac_qi = 0

(* A search for a quality ends with the coarsest quantizer good enough, where*)
(* finer ones are better: "SSIM for the output" (xc-enc.cc:59).              *)
CoarsestThatPleases ==
  SearchOver /\ search.goal = "quality" /\ FinerPleases =>
    \A q \in (best_y_ac_qi + 1)..Coarsest : q \notin picture

(* The level is within one of the last frame's, and each level from the      *)
(* first to it was better than the one before (encoder.cc:459-517).          *)
LevelImproves ==
  SearchOver /\ search.goal = "level" =>
    /\ search.best \in search.first..search.last
    /\ \A l \in (search.first + 1)..search.best : l \in picture
    /\ search.best < search.last => search.best + 1 \notin picture

(* The searches that wrap the coding of a frame end, and with what they look *)
(* for (encoder.cc:459-628).                                                 *)
SearchesEndRight == FinestThatFits /\ QualityIsMet /\ LevelImproves
=============================================================================
