----------------------------- MODULE MCSalsify -----------------------------
(***************************************************************************)
(* Small calls for TLC.  State 0 is the initial one; frame n encodes to    *)
(* state n + 1, or comes back to one of two states in the calls with       *)
(* repeated hashes; damaged decodings end in state 99.                     *)
(***************************************************************************)
EXTENDS Salsify

MCHash == 0 .. MaxFrames \cup {99}
MCCorrupt == {99}
NoFrame == {}

DistinctTargets == [ n \in FrameNos |-> {n + 1} ]
(* A new state each time, or one of the states before: 1, 2, 1, 2, ...       *)
ComingBack == [ n \in FrameNos |-> {n + 1, IF n % 2 = 1 THEN 2 ELSE 1} ]

OneOrTwoFragments == [ n \in FrameNos |-> {1, 2} ]
TwoInPieces == [ n \in FrameNos |-> IF n \in {1, 2} THEN {1, 2} ELSE {1} ]
TwoFragments == [ n \in FrameNos |-> {2} ]
=============================================================================
