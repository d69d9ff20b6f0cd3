------------------------------ MODULE Vp8State ------------------------------
(***************************************************************************)
(* The state a VP8 decoder carries from one frame to the next, and what a  *)
(* frame does to it.  Alfalfa passes this state explicitly: a decoder is a *)
(* value, a frame maps it to another one.                                  *)
(*                                                                         *)
(* Data is abstract.  One cell stands for the coefficient probabilities    *)
(* and one for the intra-mode probabilities, which only interframes        *)
(* update; those of motion vectors are kept and read in the same way.  A   *)
(* picture is the term that made it: the body of its frame, the            *)
(* segmentation and filter adjustments in force, and the pictures it was   *)
(* predicted from.  Two pictures are equal when they were made the same    *)
(* way.                                                                    *)
(***************************************************************************)
CONSTANTS
  Prob,         (* probabilities of a cell                                  *)
  DefaultProb,  (* the value every key frame starts from                    *)
  Delta,        (* adjustments of the loop filter, or of the segments       *)
  Zero,         (* no adjustment                                            *)
  Off,          (* the feature is not enabled: an empty Optional            *)
  Keep,         (* nothing to update: an empty Flagged field                *)
  Body,         (* what the macroblocks of a frame hold                     *)
  Garbled,      (* macroblocks read with other probabilities                *)
  Blank         (* the body of the picture no frame made                    *)

ASSUME ValuesAssumption ==
  /\ DefaultProb \in Prob
  /\ Zero \in Delta
  /\ Keep \notin Prob \cup Delta
  /\ Off \notin Delta
  /\ Off # Keep
  /\ Blank # Garbled

Reference == { "last", "golden", "alternative" }
CopySource == { "absent", "none", "last", "other" }
Tables == [ coeff : Prob, mode : Prob ]

(* The fields of both frame headers that reach the state; "uses" is the set  *)
(* of references the macroblocks predict from.                               *)
Header ==
  [ key : BOOLEAN, refresh_entropy_probs : BOOLEAN,
    coeff : Prob \cup { Keep }, mode : Prob \cup { Keep },
    lf : Delta \cup { Off, Keep }, segmentation : Delta \cup { Off, Keep },
    refresh_last : BOOLEAN, refresh_golden : BOOLEAN,
    refresh_alternate : BOOLEAN,
    copy_golden : CopySource, copy_alternate : CopySource,
    uses : SUBSET Reference ]

DecoderState ==
  [ tables : Tables, segmentation : Delta \cup { Off },
    filter_adjustments : Delta \cup { Off } ]

-----------------------------------------------------------------------------
Updated(old, new) == IF new = Keep THEN old ELSE new

(* An Optional part of the state: cleared, made with defaults, or updated.   *)
Applied(old, new) ==
  CASE new = Off -> Off
    [] new = Keep /\ old = Off -> Zero
    [] OTHER -> Updated(old, new)

DefaultTables == [ coeff |-> DefaultProb, mode |-> DefaultProb ]

InitialState ==
  [ tables |-> DefaultTables, segmentation |-> Off, filter_adjustments |-> Off ]

(* A key frame starts from nothing but its own header.                       *)
KeyState(header) ==
  [ tables |-> DefaultTables,
    segmentation |-> Applied(Off, header.segmentation),
    filter_adjustments |-> Applied(Off, header.lf) ]

FrameTables(tables, header) ==
  [ coeff |-> Updated(tables.coeff, header.coeff),
    mode |-> IF header.key THEN tables.mode ELSE Updated(tables.mode, header.mode) ]

(* The tables the decoder reads the macroblocks with.                        *)
ReadTables(state, header) ==
  FrameTables(IF header.key THEN DefaultTables ELSE state.tables, header)

PersistentTables(tables, header) ==
  IF header.refresh_entropy_probs THEN FrameTables(tables, header) ELSE tables

ParseAndApply(state, header) ==
  IF header.key
  THEN [ KeyState(header) EXCEPT !.tables = PersistentTables(@, header) ]
  ELSE [ tables |-> PersistentTables(state.tables, header),
         segmentation |-> Applied(state.segmentation, header.segmentation),
         filter_adjustments |-> Applied(state.filter_adjustments, header.lf) ]

-----------------------------------------------------------------------------
AllReferences(picture) == [ r \in Reference |-> picture ]

Reconstruct(body, header, state, references) ==
  [ body |-> body, segmentation |-> state.segmentation,
    filter_adjustments |-> state.filter_adjustments,
    from |-> [ r \in IF header.key THEN {} ELSE header.uses |-> references[r] ] ]

(* The alternate reference is copied first: a golden reference copied from   *)
(* it takes its new value.                                                   *)
CopyTo(header, picture, references) ==
  LET alternative == CASE header.copy_alternate = "last" -> references["last"]
                       [] header.copy_alternate = "other" -> references["golden"]
                       [] OTHER -> references["alternative"]
      golden == CASE header.copy_golden = "last" -> references["last"]
                  [] header.copy_golden = "other" -> alternative
                  [] OTHER -> references["golden"]
      kept == [ r \in Reference |->
                  CASE r = "last" -> references["last"]
                    [] r = "golden" -> golden
                    [] r = "alternative" -> alternative ]
      refreshed == { r \in Reference :
                       \/ r = "last" /\ header.refresh_last
                       \/ r = "golden" /\ header.refresh_golden
                       \/ r = "alternative" /\ header.refresh_alternate }
  IN IF header.key
     THEN AllReferences(picture)
     ELSE [ r \in Reference |-> IF r \in refreshed THEN picture ELSE kept[r] ]

-----------------------------------------------------------------------------
BlankPicture ==
  [ body |-> Blank, segmentation |-> Off, filter_adjustments |-> Off,
    from |-> << >> ]

InitialDecoder ==
  [ state |-> InitialState, references |-> AllReferences(BlankPicture) ]

(* Pictures have no type of their own: they nest without a bound.            *)
IsDecoder(d) ==
  /\ d = [ state |-> d.state, references |-> d.references ]
  /\ d.state \in DecoderState
  /\ d.references = [ r \in Reference |-> d.references[r] ]

(* The copy fields are in the bitstream exactly when the reference they copy *)
(* to is not refreshed; a header that says otherwise shifts all that follows.*)
IsReadable(header) ==
  \/ header.key
  \/ /\ header.refresh_golden <=> header.copy_golden = "absent"
     /\ header.refresh_alternate <=> header.copy_alternate = "absent"

(* A chunk is a frame as written: its header, its macroblocks, and the       *)
(* tables they were written with.                                            *)
Chunk(header, body, tables) ==
  [ header |-> header, body |-> body, tables |-> FrameTables(tables, header) ]

BodyRead(state, chunk) ==
  IF IsReadable(chunk.header) /\ chunk.tables = ReadTables(state, chunk.header)
  THEN chunk.body
  ELSE Garbled

DecodeFrame(decoder, header, body) ==
  LET state == ParseAndApply(decoder.state, header)
      picture == Reconstruct(body, header, state, decoder.references)
  IN [ state |-> state,
       references |-> CopyTo(header, picture, decoder.references) ]

DecodeChunk(decoder, chunk) ==
  DecodeFrame(decoder, chunk.header, BodyRead(decoder.state, chunk))

(* A state file keeps one reference of three.                                *)
Serialize(decoder) ==
  [ state |-> decoder.state, last |-> decoder.references["last"] ]

Deserialize(file) ==
  [ state |-> file.state, references |-> AllReferences(file.last) ]
=============================================================================
