--------------------------- MODULE SalsifySender ---------------------------
(***************************************************************************)
(* The sender of the Salsify video call (salsify/salsify-sender.cc): one   *)
(* poller thread runs the handlers below to completion, one at a time.     *)
(*                                                                         *)
(* A codec state is identified by its 32-bit hash, and so is the encoder   *)
(* that starts from that state.  The sender keeps an encoder for every     *)
(* state it may need to start from, guesses from the acknowledgments which *)
(* state the receiver's decoder is in, and encodes the next frame from     *)
(* that one.  The picture, the quantizers and the sizes are abstracted: an *)
(* encoding of frame n takes some state to a member of Targets[n] and      *)
(* fills a member of FragmentCounts[n] datagrams.                          *)
(***************************************************************************)
EXTENDS SalsifyStates

CONSTANTS
  MaxFrames,       (* bound of the model: frames sent in a call            *)
  Targets,         (* frame number -> states an encoding can end in        *)
  FragmentCounts,  (* frame number -> numbers of datagrams it can need     *)
  MaxSkipped       (* MAX_SKIPPED, most frames skipped in a row            *)

FrameNos == 0 .. MaxFrames - 1

(* apply_best_loopfilter_settings gives every encoded frame loop-filter      *)
(* adjustments and the initial state has none, so no frame encodes back to   *)
(* the initial state.                                                        *)
ASSUME EncodingAssumption ==
  /\ MaxFrames \in Nat
  /\ MaxSkipped \in Nat
  /\ Targets \in [FrameNos -> SUBSET (Hash \ {InitialState})]
  /\ FragmentCounts \in [FrameNos -> SUBSET (Nat \ {0})]

VARIABLES
  sender_up,           (* the process has not died of an exception         *)
  frame_no,            (* number of the next frame to send                 *)
  cumulative_fpf,      (* datagrams sent up to each frame, frame 0 first   *)
  last_acked,          (* greatest acknowledged datagram, or NotAcked      *)
  acked_state,         (* receiver_last_acked_state                        *)
  assumed_state,       (* receiver_assumed_state                           *)
  receiver_complete,   (* receiver_complete_states of the last ack used    *)
  encoders,            (* keys of the map from hash to encoder             *)
  encoder_states,      (* the same hashes in the order they were produced  *)
  conservative,        (* now < conservative_until                         *)
  encode_job,          (* state being encoded from, None between jobs      *)
  skipped_count

senderVars == << sender_up, frame_no, cumulative_fpf, last_acked, acked_state,
                 assumed_state, receiver_complete, encoders, encoder_states,
                 conservative, encode_job, skipped_count >>

NotAcked == -1

SenderTypeOK ==
  /\ sender_up \in BOOLEAN
  /\ frame_no \in 0 .. MaxFrames
  /\ cumulative_fpf \in Seq(Nat)
  /\ last_acked \in Nat \cup {NotAcked}
  /\ acked_state \in Optional(Hash)
  /\ assumed_state \in Optional(Hash)
  /\ receiver_complete \in Seq(Hash)
  /\ encoders \in SUBSET Hash
  /\ encoder_states \in Seq(Hash)
  /\ conservative \in BOOLEAN
  /\ encode_job \in Optional(Hash)
  /\ skipped_count \in 0 .. MaxSkipped

SenderInit ==
  /\ sender_up = TRUE
  /\ frame_no = 0
  /\ cumulative_fpf = << >>
  /\ last_acked = NotAcked
  /\ acked_state = None
  /\ assumed_state = None
  /\ receiver_complete = << >>
  /\ encoders = {InitialState}
  /\ encoder_states = << >>
  /\ conservative = FALSE
  /\ encode_job = None
  /\ skipped_count = 0

-----------------------------------------------------------------------------
(* A frame has come from the camera.                                         *)

(* Position in encoder_states of the oldest state the cleanup keeps: the     *)
(* first that is the acknowledged or the assumed state.                      *)
(* Seeded fault: the acknowledged state is not spared.                       *)
KeptIfAssumed(i) == encoder_states[i] = assumed_state

Kept(i) == encoder_states[i] \in {acked_state, assumed_state}

OldestKept(k) ==
  /\ k \in 1 .. Len(encoder_states) + 1
  /\ \A i \in 1 .. k - 1 : ~ Kept(i)
  /\ k <= Len(encoder_states) => Kept(k)

(* Seeded fault: no look further down the deque for the same hash.           *)
DropAllBefore(k) ==
  /\ encoder_states' = SubSeq(encoder_states, k, Len(encoder_states))
  /\ encoders' = encoders \ { encoder_states[i] : i \in 1 .. k - 1 }

(* The loop erases a hash from the map when it does not find it further down *)
(* the deque, so a hash leaves the map unless it is in the part that stays.  *)
DropBefore(k) ==
  /\ encoder_states' = SubSeq(encoder_states, k, Len(encoder_states))
  /\ encoders' = encoders \ ({ encoder_states[i] : i \in 1 .. k - 1 }
                                \ ToSet(encoder_states'))

CleanUp ==
  IF acked_state \in encoders \ {InitialState}
  THEN \E k \in 1 .. Len(encoder_states) + 1 : OldestKept(k) /\ DropBefore(k)
  ELSE UNCHANGED << encoder_states, encoders >>

(* A state the receiver has said it keeps.                                   *)
KnownState == Newest(receiver_complete)

(* Seeded fault: an unknown acknowledged state is not noticed.               *)
SelectedWithoutAcks(stored) ==
  IF conservative THEN KnownState
  ELSE IF assumed_state = None THEN InitialState ELSE assumed_state

(* The state to encode from, chosen after the cleanup.                       *)
SelectedSource(stored) ==
  IF conservative THEN KnownState
  ELSE IF acked_state = None
       THEN IF assumed_state = None THEN InitialState ELSE assumed_state
  ELSE IF acked_state \notin stored THEN KnownState
  ELSE assumed_state

(* An acknowledged state the sender has no encoder for starts the            *)
(* conservative window.                                                      *)
EntersConservative(stored) ==
  acked_state # None /\ acked_state \notin stored

(* The handler of encode_start_pipe.  encoders.at throws, and ends the       *)
(* process, when the selected state has no encoder.                          *)
StartEncode ==
  /\ sender_up
  /\ encode_job = None
  /\ frame_no < MaxFrames
  /\ CleanUp
  /\ conservative' = (conservative \/ EntersConservative(encoders'))
  /\ LET source == SelectedSource(encoders')
     IN  \/ /\ source \in encoders'
            /\ encode_job' = source
            /\ UNCHANGED sender_up
         \/ /\ source \notin encoders'
            /\ sender_up' = FALSE
            /\ UNCHANGED encode_job
  /\ UNCHANGED << frame_no, cumulative_fpf, last_acked, acked_state,
                  assumed_state, receiver_complete, skipped_count >>

(* system_clock reaches conservative_until, five seconds after it was set.   *)
ConservativeExpires ==
  /\ sender_up
  /\ conservative
  /\ conservative' = FALSE
  /\ UNCHANGED << sender_up, frame_no, cumulative_fpf, last_acked, acked_state,
                  assumed_state, receiver_complete, encoders, encoder_states,
                  encode_job, skipped_count >>

-----------------------------------------------------------------------------
(* The encoding thread has finished: the handler of encode_end_pipe.         *)

(* Seeded fault: frames are skipped without limit.                           *)
SkipAnyFrame ==
  /\ sender_up
  /\ encode_job # None
  /\ last_acked # NotAcked
  /\ skipped_count' = skipped_count + 1
  /\ encode_job' = None
  /\ UNCHANGED << sender_up, frame_no, cumulative_fpf, last_acked, acked_state,
                  assumed_state, receiver_complete, encoders, encoder_states,
                  conservative >>

(* No output fits the capacity that the acknowledgments report.  Before the  *)
(* first one the capacity is unlimited.                                      *)
SkipFrame ==
  /\ sender_up
  /\ encode_job # None
  /\ last_acked # NotAcked
  /\ skipped_count < MaxSkipped
  /\ skipped_count' = skipped_count + 1
  /\ encode_job' = None
  /\ UNCHANGED << sender_up, frame_no, cumulative_fpf, last_acked, acked_state,
                  assumed_state, receiver_complete, encoders, encoder_states,
                  conservative >>

(* Datagrams sent in the frames before frame n.                              *)
SentBefore(n) == IF n = 0 THEN 0 ELSE cumulative_fpf[n]

(* An output that ends in state target is sent in count datagrams.           *)
SendFrame(target, count) ==
  /\ sender_up
  /\ encode_job # None
  /\ cumulative_fpf' = Append(cumulative_fpf, SentBefore(frame_no) + count)
  /\ assumed_state' = target
  /\ encoders' = encoders \cup {target}
  /\ encoder_states' = Append(encoder_states, target)
  /\ skipped_count' = 0
  /\ frame_no' = frame_no + 1
  /\ encode_job' = None
  /\ UNCHANGED << sender_up, last_acked, acked_state, receiver_complete,
                  conservative >>

-----------------------------------------------------------------------------
(* An acknowledgment has arrived.                                            *)

(* ack_seq_no: the position of the acknowledged datagram in the call.        *)
AckSeqNo(ack) == SentBefore(ack.frame_no) + ack.fragment_no

(* Seeded fault: every acknowledgment is used.                               *)
NeverStale(ack) == FALSE

IsStale(ack) == last_acked # NotAcked /\ AckSeqNo(ack) < last_acked

(* A stale acknowledgment changes nothing.                                   *)
HandleAck(ack) ==
  /\ sender_up
  /\ ~ IsStale(ack)
  /\ last_acked' = AckSeqNo(ack)
  /\ acked_state' = ack.current_state
  /\ receiver_complete' = ack.complete_states
  /\ UNCHANGED << sender_up, frame_no, cumulative_fpf, assumed_state, encoders,
                  encoder_states, conservative, encode_job, skipped_count >>
=============================================================================
