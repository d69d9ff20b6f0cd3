--------------------------- MODULE SalsifyStates ---------------------------
(***************************************************************************)
(* Codec states as both ends of a Salsify call name them: by the 32-bit    *)
(* hash of the decoder (Decoder::minihash, Encoder::minihash), which is    *)
(* taken to tell states apart.                                             *)
(***************************************************************************)
EXTENDS Integers, SequencesExt

CONSTANTS
  Hash,            (* the hashes of decoder states                         *)
  InitialState,    (* hash of the state before any frame: its encoder has  *)
                   (* no reference and produces a key frame                *)
  None             (* an Optional that is not initialized                  *)

ASSUME HashAssumption ==
  /\ InitialState \in Hash
  /\ None \notin Hash

Optional(S) == S \cup {None}

(* The last of the states a receiver has reached exactly.                    *)
Newest(complete) ==
  IF complete = << >> THEN InitialState ELSE Last(complete)
=============================================================================
