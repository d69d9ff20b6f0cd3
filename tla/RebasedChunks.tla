--------------------------- MODULE RebasedChunks ---------------------------
(***************************************************************************)
(* A video encoded in chunks by many workers, as ExCamera does.  Each      *)
(* chunk was first encoded alone and starts with a key frame.  The first   *)
(* is only closed (xc-terminate-chunk); every other one is encoded again   *)
(* (xc-enc --reencode) from the state file its predecessor left, its key   *)
(* frame becoming an interframe.  A player decodes the chunks in a row.    *)
(*                                                                         *)
(* Every tool is a function of its files, so the order in which workers    *)
(* run does not matter and each frame is played as soon as it is written.  *)
(***************************************************************************)
EXTENDS EncoderState, Naturals

CONSTANTS
  SourceHeaders,  (* headers of the frames of the chunks encoded alone      *)
  MaxFrames       (* bound of the model: frames of the video                *)

ASSUME ChunksAssumption ==
  /\ SourceHeaders \subseteq { h \in Header : IsReadable(h) }
  /\ MaxFrames \in Nat
  /\ 1 .. MaxFrames \subseteq Body
  /\ Garbled \notin 1 .. MaxFrames

VARIABLES
  phase,      (* "idle" between chunks, or the tool that runs               *)
  writer,     (* the encoder inside the tool                                *)
  state_file, (* what the last chunk left                                   *)
  in_chunk,   (* frames of this chunk so far                                *)
  frames,     (* frames of the video so far                                 *)
  player      (* the decoder that plays all chunks                          *)

vars == << phase, writer, state_file, in_chunk, frames, player >>

Init ==
  /\ phase = "idle"
  /\ writer = EncoderFrom(InitialDecoder)
  /\ state_file = Serialize(InitialDecoder)
  /\ in_chunk = 0
  /\ frames = 0
  /\ player = InitialDecoder

-----------------------------------------------------------------------------
StartTool(tool, decoder) ==
  /\ phase = "idle"
  /\ phase' = tool
  /\ writer' = EncoderFrom(decoder)
  /\ in_chunk' = 0
  /\ UNCHANGED << state_file, frames, player >>

StartTerminate == frames = 0 /\ StartTool("terminate", InitialDecoder)

StartReencode == frames > 0 /\ StartTool("reencode", Deserialize(state_file))

(* Writes a frame; the last one of a chunk also leaves the state file.       *)
Append(encoder, chunk, last) ==
  /\ writer' = encoder
  /\ player' = DecodeChunk(player, chunk)
  /\ frames' = frames + 1
  /\ in_chunk' = in_chunk + 1
  /\ IF last
     THEN /\ phase' = "idle"
          /\ state_file' = Serialize(encoder)
     ELSE UNCHANGED << phase, state_file >>

RefreshAllStillCopying(header) ==
  [ header EXCEPT !.refresh_last = TRUE, !.refresh_golden = TRUE,
                  !.refresh_alternate = TRUE ]

RefreshAll(header) ==
  [ header EXCEPT !.refresh_last = TRUE, !.refresh_golden = TRUE,
                  !.refresh_alternate = TRUE,
                  !.copy_golden = "absent", !.copy_alternate = "absent" ]

EndedAsItWas(header, last) == header

Ended(header, last) == IF last /\ ~ header.key THEN RefreshAll(header) ELSE header

(* The tool holds a decoder: it parses the frame, which moves its state,     *)
(* writes it again with the tables of that state, and only then decodes it.  *)
TerminateFrame(header, last) ==
  LET body == frames + 1
      ended == Ended(header, last)
      state == ParseAndApply(writer.state, header)
      decoded == DecodeFrame(writer, ended, body)
  IN /\ phase = "terminate"
     /\ in_chunk = 0 => header.key
     /\ Append(EncoderFrom(decoded), Chunk(ended, body, state.tables), last)

(* Option 1: the chunk's key frame, searched anew against the last picture.  *)
InterHeader(header, coeff, uses) ==
  RefreshAll([ header EXCEPT !.key = FALSE, !.refresh_entropy_probs = TRUE,
                             !.coeff = coeff, !.mode = DefaultProb,
                             !.lf = Zero, !.uses = uses ])

ReencodeAsInterframe(header, coeff, uses, last) ==
  LET new == InterHeader(header, coeff, uses)
      encoder == FilterTried(writer)
      body == frames + 1
  IN /\ header.key
     /\ in_chunk = 0
     /\ header.segmentation = Off   (* otherwise Unsupported is thrown *)
     /\ Append(AfterFrame(encoder, new, body), Written(encoder, new, body), last)

(* Option 3: a later key frame is kept as it is.                             *)
PreserveKeyFrame(header, last) ==
  LET body == frames + 1
  IN /\ header.key
     /\ in_chunk > 0
     /\ Append(AfterFrame(writer, header, body), Written(writer, header, body), last)

(* Options 2 and 4: an interframe keeps its modes and gets new residues, with*)
(* probabilities counted anew; those of modes and vectors are not copied.    *)
UpdateResidues(header, coeff, last) ==
  LET new == Ended([ header EXCEPT !.coeff = coeff, !.mode = Keep ], last)
      body == frames + 1
  IN /\ ~ header.key
     /\ Append(AfterFrame(writer, new, body), Written(writer, new, body), last)

ReencodeFrame(header, last) ==
  /\ phase = "reencode"
  /\ \/ \E coeff \in Prob \cup { Keep }, uses \in SUBSET { "last" } :
          ReencodeAsInterframe(header, coeff, uses, last)
     \/ PreserveKeyFrame(header, last)
     \/ \E coeff \in Prob \cup { Keep } : UpdateResidues(header, coeff, last)

Next ==
  \/ StartTerminate
  \/ StartReencode
  \/ /\ frames < MaxFrames
     /\ \E header \in SourceHeaders, last \in BOOLEAN :
          TerminateFrame(header, last) \/ ReencodeFrame(header, last)

Spec == Init /\ [][Next]_vars

-----------------------------------------------------------------------------
TypeOK ==
  /\ phase \in { "idle", "terminate", "reencode" }
  /\ in_chunk \in Nat
  /\ frames \in Nat
  /\ IsDecoder(writer)
  /\ IsDecoder(player)
  /\ state_file.state \in DecoderState

(* The encoder that goes on from a state file and the player that decoded    *)
(* everything before it hold the same state and the same three references,   *)
(* after every frame: what update_decoder_state and write_frame do to the    *)
(* encoder is what parse_and_apply and copy_to do to the decoder.            *)
InStep == writer = player

(* Between two chunks the file stands for the whole state of the player,     *)
(* although References::serialize writes one reference of three.             *)
FileHoldsState == phase = "idle" => Deserialize(state_file) = player

(* No frame is ever read with tables other than those it was written with,   *)
(* or with copy fields the decoder does not expect.                          *)
NothingGarbled == \A r \in Reference : player.references[r].body # Garbled
=============================================================================
