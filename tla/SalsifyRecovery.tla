-------------------------- MODULE SalsifyRecovery --------------------------
(***************************************************************************)
(* A call whose network turns good: before frame StableFrom datagrams and  *)
(* acknowledgments may be lost and late, from that frame on every datagram *)
(* arrives and the sender has the acknowledgments of one frame before it   *)
(* takes the next one from the camera (a round trip shorter than the frame *)
(* interval).  Both paths deliver in order.                                *)
(***************************************************************************)
EXTENDS Salsify

CONSTANT StableFrom

ASSUME StableAssumption ==
  StableFrom \in FrameNos /\ DataFifo = TRUE /\ AckFifo = TRUE

AcksHandled == \A i \in ack_cursor + 1 .. Len(acks) : IsStale(acks[i])

FramesHandled == frame_no > StableFrom => next_frame_no = frame_no

StableStart ==
  /\ frame_no >= StableFrom => AcksHandled /\ FramesHandled
  /\ StartEncodeStep

(* Datagrams of a stable frame are all delivered.                            *)
StableDeliver ==
  \E n \in 0 .. Len(wire) - 1, k \in 0 .. MaxAcks :
    /\ k < wire[n + 1].count
    /\ n >= StableFrom /\ k > 0 => /\ n \in DOMAIN fragmented_frames
                                   /\ k - 1 \in fragmented_frames[n].got
    /\ DeliverPacket(n, k)

RecoveryNext ==
  \/ StableStart
  \/ ConservativeExpiresStep
  \/ SkipFrameStep
  \/ SendFrameStep
  \/ StableDeliver
  \/ DeliverAckStep

(* The pollers of both processes serve whatever is ready, encoding jobs end, *)
(* and the stable network delivers.                                          *)
RecoverySpec ==
  /\ Init
  /\ [][RecoveryNext]_vars
  /\ WF_vars(StableStart)
  /\ WF_vars(SendFrameStep)
  /\ WF_vars(StableDeliver)
  /\ WF_vars(DeliverAckStep)

(* Whatever the bad network did to the decoder, the receiver ends in exactly *)
(* the state the sender encoded its last frame to: two frames on a good      *)
(* network repair the picture, through the conservative window if need be.   *)
PictureRecovers ==
  <>[](/\ next_frame_no = MaxFrames
       /\ current_state = wire[MaxFrames].target_state)
=============================================================================
