-------------------------- MODULE SalsifyReceiver --------------------------
(***************************************************************************)
(* The receiver of the Salsify video call (salsify/salsify-receiver.cc):   *)
(* it reassembles frames from datagrams, decodes them in order, and keeps  *)
(* the decoders of the states it has reached exactly, so that the sender   *)
(* may come back to one of them.                                           *)
(*                                                                         *)
(* The decoder is its state's hash.  A frame decoded in the state it was   *)
(* encoded from ends in its target; a key frame does so in every state.    *)
(* Any other decoding, or that of a truncated frame, ends in a member of   *)
(* Corrupt.                                                                *)
(***************************************************************************)
EXTENDS SalsifyStates

CONSTANTS
  Asserts,          (* the build keeps assertions; the default one has     *)
                    (* NDEBUG                                              *)
  Corrupt,          (* states a damaged decoding can end in                *)
  TailIsPadding     (* frames whose last datagram holds only bytes the     *)
                    (* decoder can do without: BoolEncoder pads its output *)
                    (* and BoolDecoder reads zeros past the end            *)

ASSUME CorruptAssumption ==
  Asserts \in BOOLEAN /\ Corrupt \in SUBSET Hash /\ Corrupt # {}

VARIABLES
  receiver_up,        (* no assertion or exception has ended the process   *)
  next_frame_no,
  fragmented_frames,  (* frame number -> the frame as far as received      *)
  current_state,      (* hash of the player's decoder                      *)
  complete_states,    (* states reached exactly, oldest first              *)
  decoders,           (* keys of the map from hash to decoder              *)
  last_saved          (* number of the frame that reached the last of      *)
                      (* complete_states, -1 if none.  Auxiliary: no       *)
                      (* action depends on it                              *)

receiverVars == << receiver_up, next_frame_no, fragmented_frames,
                   current_state, complete_states, decoders, last_saved >>

Fragmented == [ source_state : Hash, target_state : Hash, count : Nat \ {0},
                got : SUBSET Nat ]

ReceiverTypeOK ==
  /\ receiver_up \in BOOLEAN
  /\ next_frame_no \in Nat
  /\ DOMAIN fragmented_frames \in SUBSET Nat
  /\ \A n \in DOMAIN fragmented_frames : fragmented_frames[n] \in Fragmented
  /\ current_state \in Hash
  /\ complete_states \in Seq(Hash)
  /\ decoders \in SUBSET Hash
  /\ last_saved \in Nat \cup {-1}

ReceiverInit ==
  /\ receiver_up = TRUE
  /\ next_frame_no = 0
  /\ fragmented_frames = << >>
  /\ current_state = InitialState
  /\ complete_states = << >>
  /\ decoders = {InitialState}
  /\ last_saved = -1

-----------------------------------------------------------------------------
(* Reassembly: FragmentedFrame of net/packet.cc.                             *)

Complete(f) == f.got = 0 .. f.count - 1

(* sanity_check throws when a datagram contradicts the frame it belongs to.  *)
Consistent(f, packet) ==
  /\ packet.source_state = f.source_state
  /\ packet.target_state = f.target_state
  /\ packet.count = f.count

(* The frame a datagram starts, or adds to; a duplicate adds nothing.        *)
WithPacket(packet) ==
  IF packet.frame_no \in DOMAIN fragmented_frames
  THEN [ fragmented_frames[packet.frame_no] EXCEPT
           !.got = @ \cup {packet.fragment_no} ]
  ELSE [ source_state |-> packet.source_state,
         target_state |-> packet.target_state,
         count |-> packet.count, got |-> {packet.fragment_no} ]

-----------------------------------------------------------------------------
(* Decoding.                                                                 *)

IsKeyFrame(f) == f.source_state = InitialState

(* States the decoder can be in after the whole of frame f.                  *)
AfterFrame(f, state) ==
  IF IsKeyFrame(f) \/ state = f.source_state THEN {f.target_state} ELSE Corrupt

(* partial_frame is the frame up to its first missing datagram: what is left *)
(* of frame n is not decoded at all when that is the first one, and decodes  *)
(* like the whole when only padding is missing.                              *)
AfterPartial(n, state) ==
  LET f == fragmented_frames[n]
  IN  IF 0 \notin f.got THEN {state}
      ELSE IF n \in TailIsPadding /\ f.got = 0 .. f.count - 2
           THEN AfterFrame(f, state)
      ELSE Corrupt

(* Seeded fault: the loop over abandoned frames ends one too early.          *)
AbandonedBarOne(n) ==
  { i \in DOMAIN fragmented_frames : next_frame_no <= i /\ i < n - 1 }

(* Frames given up because a datagram of frame n has come.  At most one is   *)
(* stored when a datagram arrives, see OnlyNextFrameStored.                  *)
Abandoned(n) ==
  { i \in DOMAIN fragmented_frames : next_frame_no <= i /\ i < n }

AfterAbandoned(n) ==
  IF Abandoned(n) = {} THEN {current_state}
  ELSE UNION { AfterPartial(i, current_state) : i \in Abandoned(n) }

-----------------------------------------------------------------------------
(* The handler of an incoming datagram.  A datagram of a frame before        *)
(* next_frame_no is dropped without an acknowledgment.                       *)

Stored(keep) == [ n \in DOMAIN fragmented_frames \cap keep |->
                    fragmented_frames[n] ]

(* The process ends before anything is acknowledged.                         *)
Die ==
  /\ receiver_up' = FALSE
  /\ UNCHANGED << next_frame_no, fragmented_frames, current_state,
                  complete_states, decoders, last_saved >>

(* The frame is still incomplete.                                            *)
StorePacket(packet, f, state) ==
  /\ ~ Complete(f)
  /\ next_frame_no' = packet.frame_no
  /\ fragmented_frames' =
       [ n \in (DOMAIN fragmented_frames \ Abandoned(packet.frame_no))
                 \cup {packet.frame_no} |->
           IF n = packet.frame_no THEN f ELSE fragmented_frames[n] ]
  /\ current_state' = state
  /\ UNCHANGED << receiver_up, complete_states, decoders, last_saved >>

(* Seeded fault: a stored decoder is never loaded.                           *)
NeverLoaded(f, state) == state

(* The decoder of the source is loaded if the player is in another state.    *)
Loaded(f, state) ==
  IF f.source_state \in decoders THEN f.source_state ELSE state

(* "sender won't refer to any decoder older than this": the states before    *)
(* the source are forgotten.                                                 *)
Trims(f, state) ==
  Loaded(f, state) = f.source_state /\ ~ IsKeyFrame(f)

FirstComplete(h, k) ==
  /\ k \in 1 .. Len(complete_states) + 1
  /\ \A i \in 1 .. k - 1 : complete_states[i] # h
  /\ k <= Len(complete_states) => complete_states[k] = h

(* Seeded fault: the states before the source are erased last.               *)
DecodeThenErase(f, n, state, k) ==
  LET older == { complete_states[i] : i \in 1 .. k - 1 }
      kept  == SubSeq(complete_states, k, Len(complete_states))
  IN \E result \in AfterFrame(f, Loaded(f, state)) :
       /\ current_state' = result
       /\ IF result = f.target_state /\ result # InitialState
          THEN /\ decoders' = (decoders \cup {result}) \ older
               /\ complete_states' = Append(kept, result)
               /\ last_saved' = n
          ELSE /\ decoders' = decoders \ older
               /\ complete_states' = kept
               /\ UNCHANGED last_saved

(* Seeded fault: the source itself is dropped from complete_states.          *)
DecodeDroppingSource(f, n, state, k) ==
  LET kept == SubSeq(complete_states, k + 1, Len(complete_states))
      older == { complete_states[i] : i \in 1 .. k - 1 }
  IN \E result \in AfterFrame(f, Loaded(f, state)) :
       /\ current_state' = result
       /\ IF result = f.target_state /\ result # InitialState
          THEN /\ decoders' = (decoders \ older) \cup {result}
               /\ complete_states' = Append(kept, result)
               /\ last_saved' = n
          ELSE /\ decoders' = decoders \ older
               /\ complete_states' = kept
               /\ UNCHANGED last_saved

(* The frame is decoded and, when it ended in its target, the state saved.   *)
Decode(f, n, state, k) ==
  LET older == { complete_states[i] : i \in 1 .. k - 1 }
      kept  == SubSeq(complete_states, k, Len(complete_states))
  IN \E result \in AfterFrame(f, Loaded(f, state)) :
       /\ current_state' = result
       /\ IF result = f.target_state /\ result # InitialState
          THEN /\ decoders' = (decoders \ older) \cup {result}
               /\ complete_states' = Append(kept, result)
               /\ last_saved' = n
          ELSE /\ decoders' = decoders \ older
               /\ complete_states' = kept
               /\ UNCHANGED last_saved

ApplyFrame(packet, f, state) ==
  /\ Complete(f)
  /\ \/ /\ Trims(f, state)
        /\ \E k \in 1 .. Len(complete_states) + 1 :
             /\ FirstComplete(f.source_state, k)
             /\ Asserts => k <= Len(complete_states)
             /\ Decode(f, packet.frame_no, state, k)
     \/ /\ ~ Trims(f, state)
        /\ Decode(f, packet.frame_no, state, 1)
  /\ next_frame_no' = packet.frame_no + 1
  /\ fragmented_frames' =
       Stored(DOMAIN fragmented_frames
                \ (Abandoned(packet.frame_no) \cup {packet.frame_no}))
  /\ UNCHANGED receiver_up

(* assert( it != complete_states.end() )                                     *)
TrimAsserts(f, state) ==
  /\ Asserts
  /\ Complete(f)
  /\ Trims(f, state)
  /\ f.source_state \notin ToSet(complete_states)

HandlePacket(packet) ==
  /\ receiver_up
  /\ packet.frame_no >= next_frame_no
  /\ LET f == WithPacket(packet)
     IN IF ~ Consistent(f, packet) THEN Die
        ELSE \E state \in AfterAbandoned(packet.frame_no) :
               \/ StorePacket(packet, f, state)
               \/ ApplyFrame(packet, f, state)
               \/ TrimAsserts(f, state) /\ Die
=============================================================================
