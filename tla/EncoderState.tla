---------------------------- MODULE EncoderState ----------------------------
(***************************************************************************)
(* The encoder's own copy of the decoder's state.  The encoder never reads *)
(* back what it wrote: it applies each frame to its copy by code of its    *)
(* own, and the video is right as long as the two codes agree.             *)
(***************************************************************************)
EXTENDS Vp8State

(* An encoder that goes on from a decoder holds what the decoder held.  The  *)
(* safe references, which motion search alone reads, are copies of the       *)
(* references and are left out.                                              *)
EncoderFrom(decoder) ==
  [ state |-> decoder.state, references |-> decoder.references ]

UpdateKeepingFilters(state, header) ==
  IF header.key
  THEN [ KeyState(header) EXCEPT !.tables = PersistentTables(@, header) ]
  ELSE [ state EXCEPT
           !.tables = PersistentTables(@, header),
           !.filter_adjustments = IF header.lf = Off THEN @ ELSE Applied(@, header.lf) ]

(* What the encoder does to its copy: an interframe leaves segmentation.     *)
UpdateDecoderState(state, header) ==
  IF header.key
  THEN [ KeyState(header) EXCEPT !.tables = PersistentTables(@, header) ]
  ELSE [ state EXCEPT
           !.tables = PersistentTables(@, header),
           !.filter_adjustments = Applied(@, header.lf) ]

(* The encoder after a frame.                                                *)
AfterFrame(encoder, header, body) ==
  LET state == UpdateDecoderState(encoder.state, header)
      picture == Reconstruct(body, header, state, encoder.references)
  IN [ state |-> state,
       references |-> CopyTo(header, picture, encoder.references) ]

(* The frame as written, with the tables the encoder holds by then.          *)
Written(encoder, header, body) ==
  Chunk(header, body, UpdateDecoderState(encoder.state, header).tables)

(* The filter search leaves the adjustments of its last attempt behind.      *)
FilterTried(encoder) == [ encoder EXCEPT !.state.filter_adjustments = Zero ]
=============================================================================
