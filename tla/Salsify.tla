------------------------------ MODULE Salsify ------------------------------
(***************************************************************************)
(* A Salsify call: the sender and the receiver joined by two UDP paths.    *)
(*                                                                         *)
(* Everything put on a path is kept, and any kept datagram may be          *)
(* delivered at any later time: a datagram never delivered is lost, one    *)
(* delivered twice is duplicated, and DataFifo and AckFifo say whether a   *)
(* path may also reorder.  The pacer between the sender and its socket     *)
(* only delays datagrams and is part of the data path.                     *)
(***************************************************************************)
EXTENDS SalsifySender, SalsifyReceiver

CONSTANTS
  DataFifo, AckFifo,  (* the path delivers in order (it may still lose)    *)
  MaxAcks             (* bound of the model: acknowledgments sent          *)

ASSUME PathAssumption ==
  DataFifo \in BOOLEAN /\ AckFifo \in BOOLEAN /\ MaxAcks \in Nat

VARIABLES
  wire,         (* frames sent, by number from 1: headers of their packets *)
  acks,         (* acknowledgments in the order the receiver sent them     *)
  data_cursor,  (* position of the last datagram a FIFO data path delivered *)
  ack_cursor    (* the same for the path of the acknowledgments            *)

pathVars == << wire, acks, data_cursor, ack_cursor >>
vars == << senderVars, receiverVars, pathVars >>

FrameHeader == [ source_state : Hash, target_state : Hash, count : Nat \ {0} ]

(* "saved" is the receiver's auxiliary last_saved; the sender ignores it.    *)
AckPacket == [ frame_no : FrameNos, fragment_no : Nat, current_state : Hash,
               complete_states : Seq(Hash), saved : Nat \cup {-1} ]

(* One entry per frame sent, and only frames sent are acknowledged.          *)
Numbered ==
  /\ Len(wire) = frame_no
  /\ Len(cumulative_fpf) = frame_no
  /\ \A i \in 1 .. Len(acks) : acks[i].frame_no < frame_no

TypeOK ==
  /\ SenderTypeOK
  /\ ReceiverTypeOK
  /\ wire \in Seq(FrameHeader)
  /\ acks \in Seq(AckPacket)
  /\ data_cursor \in Nat
  /\ ack_cursor \in Nat
  /\ Numbered

Init ==
  /\ SenderInit
  /\ ReceiverInit
  /\ wire = << >>
  /\ acks = << >>
  /\ data_cursor = 0
  /\ ack_cursor = 0

-----------------------------------------------------------------------------
StartEncodeStep == StartEncode /\ UNCHANGED << receiverVars, pathVars >>

ConservativeExpiresStep ==
  ConservativeExpires /\ UNCHANGED << receiverVars, pathVars >>

SkipFrameStep == SkipFrame /\ UNCHANGED << receiverVars, pathVars >>

SendFrameStep ==
  /\ frame_no \in FrameNos
  /\ \E target \in Targets[frame_no], count \in FragmentCounts[frame_no] :
       /\ SendFrame(target, count)
       /\ wire' = Append(wire, [ source_state |-> encode_job,
                                 target_state |-> target, count |-> count ])
  /\ UNCHANGED << receiverVars, acks, data_cursor, ack_cursor >>

Packet(n, k) ==
  [ frame_no |-> n, fragment_no |-> k, count |-> wire[n + 1].count,
    source_state |-> wire[n + 1].source_state,
    target_state |-> wire[n + 1].target_state ]

(* Place of datagram k of frame n among all datagrams sent, from 1.          *)
Place(n, k) == SentBefore(n) + k + 1

(* The receiver handles a datagram and acknowledges it with its new state.   *)
DeliverPacket(n, k) ==
  /\ Len(acks) < MaxAcks
  /\ DataFifo => Place(n, k) > data_cursor
  /\ data_cursor' = IF DataFifo THEN Place(n, k) ELSE data_cursor
  /\ HandlePacket(Packet(n, k))
  /\ acks' = IF receiver_up'
             THEN Append(acks, [ frame_no |-> n, fragment_no |-> k,
                                 current_state |-> current_state',
                                 complete_states |-> complete_states',
                                 saved |-> last_saved' ])
             ELSE acks
  /\ UNCHANGED << senderVars, wire, ack_cursor >>

DeliverPacketStep ==
  \E n \in 0 .. Len(wire) - 1 :
    \E k \in 0 .. wire[n + 1].count - 1 : DeliverPacket(n, k)

DeliverAck(i) ==
  /\ AckFifo => i > ack_cursor
  /\ ack_cursor' = IF AckFifo THEN i ELSE ack_cursor
  /\ HandleAck(acks[i])
  /\ UNCHANGED << receiverVars, wire, acks, data_cursor >>

DeliverAckStep == \E i \in DOMAIN acks : DeliverAck(i)

Next ==
  \/ StartEncodeStep
  \/ ConservativeExpiresStep
  \/ SkipFrameStep
  \/ SendFrameStep
  \/ DeliverPacketStep
  \/ DeliverAckStep

Spec == Init /\ [][Next]_vars

-----------------------------------------------------------------------------
(* The sender process never ends in an exception: the state selected in the  *)
(* handler of encode_start_pipe always has an encoder (encoders.at).         *)
SenderNeverThrows == sender_up

(* The receiver process never ends: no datagram contradicts the frame it     *)
(* belongs to, and when the player is in a frame's source state, which is    *)
(* not the initial one, that state is among complete_states                  *)
(* (assert in the handler of incoming datagrams).                            *)
ReceiverNeverAborts == receiver_up

(* The map of encoders and the deque that orders it stay in step through     *)
(* cleanups that meet the same hash twice: exactly the initial state and the *)
(* states of the deque have an encoder, the assumed state among them.        *)
EncodersMatchStates ==
  /\ encoders = {InitialState} \cup ToSet(encoder_states)
  /\ frame_no > 0 => assumed_state \in ToSet(encoder_states)

(* The newest state the receiver reports as complete is one it can load,     *)
(* also when the same hash was reached more than once and erased in between. *)
NewestCompleteIsStored ==
  complete_states # << >> => Last(complete_states) \in decoders

(* Out-of-order arrival never piles up frames: between two datagrams only    *)
(* the frame being waited for is stored.                                     *)
OnlyNextFrameStored ==
  DOMAIN fragmented_frames \subseteq {next_frame_no}

-----------------------------------------------------------------------------
(* Why the sender never throws and the receiver never aborts.  The parts     *)
(* below are inductive together when one of the two paths keeps the order    *)
(* (AckFifo or DataFifo), no truncated frame decodes exactly (TailIsPadding  *)
(* is empty) and damage never yields the hash of a state of the call.        *)

NoCollision ==
  /\ InitialState \notin Corrupt
  /\ \A n \in FrameNos : Targets[n] \cap Corrupt = {}

(* What is stored of a frame agrees with the datagrams still to come.        *)
FragmentsMatch ==
  \A n \in DOMAIN fragmented_frames :
    /\ n < frame_no
    /\ fragmented_frames[n].source_state = wire[n + 1].source_state
    /\ fragmented_frames[n].target_state = wire[n + 1].target_state
    /\ fragmented_frames[n].count = wire[n + 1].count

(* This much holds whatever the paths and a damaged decoder do.  It is where *)
(* the proofs begin; the runs check its two parts that say something alone.  *)
StorageInv ==
  /\ \A n \in 1 .. Len(wire) : wire[n].target_state # InitialState
  /\ FragmentsMatch
  /\ OnlyNextFrameStored
  /\ NewestCompleteIsStored

(* A frame leads from a state of the call to another one.                    *)
WireInv ==
  \A n \in 1 .. Len(wire) :
    /\ wire[n].source_state \notin Corrupt
    /\ wire[n].target_state \notin Corrupt

(* Number of frames whose encoders were cleaned up: the deque holds the      *)
(* targets of all frames after them.                                         *)
Dropped == frame_no - Len(encoder_states)

EncodersInv ==
  /\ Len(encoder_states) <= frame_no
  /\ \A i \in 1 .. Len(encoder_states) :
       encoder_states[i] = wire[Dropped + i].target_state
  /\ encoders = {InitialState} \cup ToSet(encoder_states)
  /\ frame_no = 0 => assumed_state = None
  /\ frame_no > 0 => encoder_states # << >>
                      /\ assumed_state = Last(encoder_states)
  /\ encode_job # None => encode_job \in encoders

(* The last of a report of complete states is the target of frame saved.     *)
ReportOf(complete, saved) ==
  /\ saved \in -1 .. frame_no - 1
  /\ complete = << >> <=> saved = -1
  /\ complete # << >> => Last(complete) = wire[saved + 1].target_state

(* The receiver can load only complete states, and unless it is damaged it   *)
(* is in the newest of them.                                                 *)
DecodersInv ==
  /\ decoders \subseteq {InitialState} \cup ToSet(complete_states)
  /\ current_state \in Corrupt \cup {Newest(complete_states)}
  /\ ReportOf(complete_states, last_saved)
  /\ last_saved < next_frame_no

(* What one acknowledgment says held when it was sent.                       *)
AckInv(ack) ==
  /\ ack.current_state \in Corrupt \cup {Newest(ack.complete_states)}
  /\ ReportOf(ack.complete_states, ack.saved)
  /\ ack.saved <= last_saved

AcksInv ==
  /\ ack_cursor <= Len(acks)
  /\ \A i \in 1 .. Len(acks) : AckInv(acks[i])
  /\ \A i, j \in 1 .. Len(acks) : i <= j => acks[i].saved <= acks[j].saved

(* Datagrams in order are acknowledged in order of their place in the call.  *)
PlacesInv ==
  DataFifo =>
    /\ \A i \in 1 .. Len(acks) : AckSeqNo(acks[i]) < data_cursor
    /\ \A i, j \in 1 .. Len(acks) :
         i < j => AckSeqNo(acks[i]) < AckSeqNo(acks[j])

(* The sender's view of the receiver is one of the acknowledgments delivered *)
(* so far, the one a FIFO path delivered last or the one of the last place,  *)
(* and no encoder of the state it reports as newest, nor of a later one, has *)
(* been cleaned up.                                                          *)
ViewOf(i) ==
  /\ acked_state = acks[i].current_state
  /\ receiver_complete = acks[i].complete_states
  /\ AckFifo => i <= ack_cursor
  /\ DataFifo => last_acked = AckSeqNo(acks[i])
  /\ Dropped = 0 \/ Dropped <= acks[i].saved

ViewInv ==
  \/ acked_state = None /\ receiver_complete = << >> /\ Dropped = 0
  \/ \E i \in 1 .. Len(acks) : ViewOf(i)

(* Every part of the safety argument above, and both processes still run.    *)
CallInv ==
  /\ sender_up
  /\ receiver_up
  /\ WireInv
  /\ EncodersInv
  /\ DecodersInv
  /\ AcksInv
  /\ PlacesInv
  /\ ViewInv

-----------------------------------------------------------------------------
(* Frame that reached state h last.                                          *)
NewestFrame(h) ==
  CHOOSE n \in 1 .. Len(wire) :
    /\ wire[n].target_state = h
    /\ \A later \in n + 1 .. Len(wire) : wire[later].target_state # h

(* What the sender knows the receiver to keep never goes back to an older    *)
(* state, although acknowledgments may come late, twice or out of order.     *)
KnowledgeNeverRegresses ==
  [][receiver_complete # << >> =>
       /\ receiver_complete' # << >>
       /\ NewestFrame(Last(receiver_complete'))
            >= NewestFrame(Last(receiver_complete))]_receiver_complete

(* The call implements what it promises its viewer: see ExactPlayback.       *)
Playback == INSTANCE ExactPlayback WITH
  sent <- [ n \in DOMAIN wire |-> [ source |-> wire[n].source_state,
                                    target |-> wire[n].target_state ] ],
  next <- next_frame_no, picture <- current_state, kept <- decoders,
  Damaged <- Corrupt

ShowsWhatItPromises == Playback!Spec
=============================================================================
