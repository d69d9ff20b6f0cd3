--------------------------- MODULE SalsifyProofs ---------------------------
(***************************************************************************)
(* Proofs about a Salsify call of any length, with any states, fragment    *)
(* counts and bounds.                                                      *)
(***************************************************************************)
EXTENDS Salsify, SequenceTheorems, TLAPS

(* The part of a sequence that a cleanup keeps.                              *)
LEMMA Suffix ==
  ASSUME NEW S, NEW s \in Seq(S), NEW k \in 1 .. Len(s) + 1
  PROVE  LET rest == SubSeq(s, k, Len(s))
         IN  /\ rest \in Seq(S)
             /\ Len(rest) = Len(s) - k + 1
             /\ \A i \in 1 .. Len(rest) : rest[i] = s[k - 1 + i]
  OBVIOUS

LEMMA Elements ==
  ASSUME NEW S, NEW s \in Seq(S)
  PROVE  ToSet(s) = { s[i] : i \in 1 .. Len(s) }
  BY DEF ToSet

LEMMA SuffixSet ==
  ASSUME NEW S, NEW s \in Seq(S), NEW k \in 1 .. Len(s) + 1
  PROVE  ToSet(SubSeq(s, k, Len(s))) = { s[j] : j \in k .. Len(s) }
<1> DEFINE rest == SubSeq(s, k, Len(s))
<1>1. /\ rest \in Seq(S)
      /\ Len(rest) = Len(s) - k + 1
      /\ \A i \in 1 .. Len(rest) : rest[i] = s[k - 1 + i]
  BY Suffix
<1>2. ToSet(rest) = { rest[i] : i \in 1 .. Len(rest) }
  BY <1>1, Elements, ZenonT(30)
<1> HIDE DEF rest
<1>3. \A j \in k .. Len(s) : /\ j - k + 1 \in 1 .. Len(rest)
                             /\ rest[j - k + 1] = s[j]
  BY <1>1
<1>4. \A i \in 1 .. Len(rest) : /\ k - 1 + i \in k .. Len(s)
                                /\ rest[i] = s[k - 1 + i]
  BY <1>1
<1>5. ToSet(rest) = { s[j] : j \in k .. Len(s) }
  <2>1. ToSet(rest) \subseteq { s[j] : j \in k .. Len(s) }
    BY <1>2, <1>4
  <2>2. ASSUME NEW j \in k .. Len(s) PROVE s[j] \in ToSet(rest)
    BY <1>2, <1>3
  <2> QED BY <2>1, <2>2
<1> QED BY <1>5 DEF rest

LEMMA AppendSet ==
  ASSUME NEW S, NEW s \in Seq(S), NEW e \in S
  PROVE  ToSet(Append(s, e)) = ToSet(s) \cup {e}
<1> DEFINE t == Append(s, e)
<1>1. /\ t \in Seq(S)
      /\ Len(t) = Len(s) + 1
      /\ t[Len(s) + 1] = e
      /\ \A i \in 1 .. Len(s) : t[i] = s[i]
  OBVIOUS
<1>2. ToSet(t) = { t[i] : i \in 1 .. Len(t) }
  BY <1>1, Elements
<1>3. ToSet(s) = { s[i] : i \in 1 .. Len(s) }
  BY Elements
<1> HIDE DEF t
<1>4. ASSUME NEW i \in 1 .. Len(t) PROVE t[i] \in ToSet(s) \cup {e}
  <2>1. i = Len(s) + 1 \/ i \in 1 .. Len(s)
    BY <1>1
  <2> QED BY <1>1, <1>3, <2>1
<1>5. ASSUME NEW i \in 1 .. Len(s) PROVE s[i] \in ToSet(t)
  BY <1>1, <1>2
<1>6. e \in ToSet(t)
  BY <1>1, <1>2
<1>7. ToSet(t) = ToSet(s) \cup {e}
  BY <1>2, <1>3, <1>4, <1>5, <1>6
<1> QED BY <1>7 DEF t

(* The newest of a sequence of states is a state.                            *)
LEMMA NewestType ==
  ASSUME NEW s \in Seq(Hash)
  PROVE  Newest(s) \in Hash
  BY HashAssumption DEF Newest, Last

-----------------------------------------------------------------------------
(* Type correctness, one lemma per action that changes more than a flag.     *)

LEMMA StartEncodeType ==
  ASSUME TypeOK, StartEncodeStep
  PROVE  TypeOK'
<1> USE DEF TypeOK, StartEncodeStep, StartEncode, receiverVars, pathVars
<1>1. encoders' \in SUBSET Hash /\ encoder_states' \in Seq(Hash)
  <2>1. CASE UNCHANGED << encoder_states, encoders >>
    BY <2>1 DEF SenderTypeOK
  <2>2. ASSUME NEW k \in 1 .. Len(encoder_states) + 1, DropBefore(k)
        PROVE  encoders' \in SUBSET Hash /\ encoder_states' \in Seq(Hash)
    BY <2>2, Suffix DEF SenderTypeOK, DropBefore
  <2> QED BY <2>1, <2>2 DEF CleanUp
<1>2. encode_job' \in Optional(Hash) /\ sender_up' \in BOOLEAN
  BY <1>1 DEF SenderTypeOK, Optional
<1>3. conservative' \in BOOLEAN
  BY DEF SenderTypeOK, EntersConservative
<1>4. SenderTypeOK'
  BY <1>1, <1>2, <1>3 DEF SenderTypeOK
<1> QED BY <1>4 DEF ReceiverTypeOK, Numbered

LEMMA SentBeforeType ==
  ASSUME TypeOK, NEW n \in 0 .. frame_no
  PROVE  SentBefore(n) \in Nat
<1>1. /\ cumulative_fpf \in Seq(Nat)
      /\ Len(cumulative_fpf) = frame_no
      /\ frame_no \in Nat
  BY DEF TypeOK, SenderTypeOK, Numbered
<1> QED BY <1>1 DEF SentBefore

LEMMA SendFrameType ==
  ASSUME TypeOK, SendFrameStep
  PROVE  TypeOK'
<1>1. PICK target \in Targets[frame_no], count \in FragmentCounts[frame_no] :
        /\ SendFrame(target, count)
        /\ wire' = Append(wire, [ source_state |-> encode_job,
                                  target_state |-> target, count |-> count ])
  BY DEF SendFrameStep
<1>2. /\ target \in Hash \ {InitialState}
      /\ count \in Nat \ {0}
      /\ frame_no \in 0 .. MaxFrames - 1
  BY EncodingAssumption DEF SendFrameStep, FrameNos
<1>3. SentBefore(frame_no) \in Nat
  BY SentBeforeType DEF TypeOK, SenderTypeOK
<1>4. SenderTypeOK'
  BY <1>1, <1>2, <1>3, EncodingAssumption
  DEF TypeOK, SenderTypeOK, SendFrame, Optional
<1>5. wire' \in Seq(FrameHeader)
  BY <1>1, <1>2
  DEF TypeOK, SenderTypeOK, SendFrame, FrameHeader, Optional
<1>6. Numbered'
  <2>1. Len(wire') = frame_no'
    BY <1>1 DEF TypeOK, Numbered, SendFrame
  <2>2. Len(cumulative_fpf') = frame_no'
    BY <1>1 DEF TypeOK, SenderTypeOK, Numbered, SendFrame
  <2>3. \A i \in 1 .. Len(acks') : acks'[i].frame_no < frame_no'
    <3>1. acks' = acks /\ frame_no' = frame_no + 1
      BY <1>1 DEF SendFrameStep, SendFrame
    <3>2. \A i \in 1 .. Len(acks) : acks[i].frame_no \in Int
      <4>1. \A i \in 1 .. Len(acks) : acks[i] \in AckPacket
        BY DEF TypeOK
      <4> QED BY <4>1 DEF AckPacket, FrameNos
    <3> QED BY <1>2, <3>1, <3>2 DEF TypeOK, Numbered
  <2> QED BY <2>1, <2>2, <2>3 DEF Numbered
<1>7. ReceiverTypeOK'
  BY DEF TypeOK, SendFrameStep, ReceiverTypeOK, receiverVars
<1> QED
  BY <1>4, <1>5, <1>6, <1>7 DEF TypeOK, SendFrameStep

(* The frame a datagram is stored in.                                        *)
LEMMA PacketType ==
  ASSUME TypeOK, NEW n \in 0 .. Len(wire) - 1,
         NEW k \in 0 .. wire[n + 1].count - 1
  PROVE  /\ n \in FrameNos /\ n < frame_no
         /\ k \in Nat
         /\ Packet(n, k).frame_no = n
         /\ WithPacket(Packet(n, k)) \in Fragmented
<1>1. /\ n \in FrameNos /\ n < frame_no
      /\ k \in Nat
      /\ wire[n + 1] \in FrameHeader
      /\ Packet(n, k).frame_no = n
  <2>1. /\ n \in 0 .. frame_no - 1
        /\ frame_no \in 0 .. MaxFrames
        /\ wire[n + 1] \in FrameHeader
    BY DEF TypeOK, SenderTypeOK, Numbered
  <2>2. wire[n + 1].count \in Nat
    BY <2>1 DEF FrameHeader
  <2> QED BY <2>1, <2>2, EncodingAssumption DEF FrameNos, Packet
<1>2. WithPacket(Packet(n, k)) \in Fragmented
  BY <1>1
  DEF TypeOK, ReceiverTypeOK, WithPacket, Packet, Fragmented, FrameHeader
<1> QED BY <1>1, <1>2

LEMMA AfterFrameType ==
  ASSUME NEW f \in Fragmented, NEW state \in Hash
  PROVE  AfterFrame(f, state) \subseteq Hash
  BY CorruptAssumption DEF AfterFrame, Fragmented

LEMMA AfterAbandonedType ==
  ASSUME ReceiverTypeOK, NEW n \in Nat
  PROVE  AfterAbandoned(n) \subseteq Hash
<1>1. ASSUME NEW i \in Abandoned(n)
      PROVE  AfterPartial(i, current_state) \subseteq Hash
  BY <1>1, AfterFrameType, CorruptAssumption
  DEF AfterPartial, Abandoned, ReceiverTypeOK
<1> QED BY <1>1 DEF AfterAbandoned, ReceiverTypeOK

(* Handling datagram k of frame n keeps the receiver's state well formed.    *)
LEMMA HandlePacketType ==
  ASSUME TypeOK, NEW n \in 0 .. Len(wire) - 1,
         NEW k \in 0 .. wire[n + 1].count - 1, HandlePacket(Packet(n, k))
  PROVE  ReceiverTypeOK'
<1> DEFINE p == Packet(n, k)
           f == WithPacket(p)
<1>1. n \in Nat /\ p.frame_no = n /\ f \in Fragmented
  BY PacketType DEF FrameNos
<1>2. ReceiverTypeOK
  BY DEF TypeOK
<1> HIDE DEF p, f
<1>3. CASE Die
  BY <1>2, <1>3 DEF Die, ReceiverTypeOK
<1>4. ASSUME NEW state \in AfterAbandoned(n), StorePacket(p, f, state)
      PROVE  ReceiverTypeOK'
  <2>1. state \in Hash
    BY <1>1, <1>2, AfterAbandonedType
  <2>2. /\ DOMAIN fragmented_frames' \in SUBSET Nat
        /\ \A i \in DOMAIN fragmented_frames' :
             fragmented_frames'[i] \in Fragmented
    BY <1>1, <1>2, <1>4 DEF StorePacket, ReceiverTypeOK
  <2> QED BY <1>1, <1>2, <1>4, <2>1, <2>2 DEF StorePacket, ReceiverTypeOK
<1>5. ASSUME NEW state \in AfterAbandoned(n), ApplyFrame(p, f, state)
      PROVE  ReceiverTypeOK'
  <2>1. state \in Hash /\ Loaded(f, state) \in Hash
    BY <1>1, <1>2, AfterAbandonedType DEF Loaded, Fragmented
  <2>2. PICK j \in 1 .. Len(complete_states) + 1 : Decode(f, n, state, j)
    BY <1>1, <1>2, <1>5 DEF ApplyFrame, ReceiverTypeOK
  <2>3. /\ current_state' \in Hash
        /\ decoders' \in SUBSET Hash
        /\ complete_states' \in Seq(Hash)
        /\ last_saved' \in Nat \cup {-1}
    <3> DEFINE kept == SubSeq(complete_states, j, Len(complete_states))
    <3>1. kept \in Seq(Hash)
      BY <1>2, Suffix DEF ReceiverTypeOK
    <3>2. PICK result \in AfterFrame(f, Loaded(f, state)) :
            /\ current_state' = result
            /\ decoders' \subseteq decoders \cup {result}
            /\ complete_states' \in {kept, Append(kept, result)}
            /\ last_saved' \in {last_saved, n}
      BY <2>2 DEF Decode
    <3>3. result \in Hash
      BY <1>1, <2>1, <3>2, AfterFrameType
    <3> HIDE DEF kept
    <3>4. complete_states' \in Seq(Hash)
      BY <3>1, <3>2, <3>3, SMTT(30)
    <3>5. decoders' \in SUBSET Hash
      BY <1>2, <3>2, <3>3 DEF ReceiverTypeOK
    <3> QED BY <1>1, <1>2, <3>2, <3>3, <3>4, <3>5 DEF ReceiverTypeOK
  <2>4. /\ DOMAIN fragmented_frames' \in SUBSET Nat
        /\ \A i \in DOMAIN fragmented_frames' :
             fragmented_frames'[i] \in Fragmented
    BY <1>2, <1>5 DEF ApplyFrame, Stored, ReceiverTypeOK
  <2>5. next_frame_no' \in Nat /\ receiver_up' \in BOOLEAN
    BY <1>1, <1>2, <1>5 DEF ApplyFrame, ReceiverTypeOK
  <2> QED BY <2>3, <2>4, <2>5 DEF ReceiverTypeOK
<1> QED BY <1>1, <1>3, <1>4, <1>5 DEF HandlePacket, p, f

LEMMA DeliverPacketType ==
  ASSUME TypeOK, DeliverPacketStep
  PROVE  TypeOK'
<1>0. PICK n \in 0 .. Len(wire) - 1 :
        \E k \in 0 .. wire[n + 1].count - 1 : DeliverPacket(n, k)
  BY DEF DeliverPacketStep
<1>1. PICK k \in 0 .. wire[n + 1].count - 1 : DeliverPacket(n, k)
  BY <1>0
<1>2. ReceiverTypeOK'
  BY <1>1, HandlePacketType DEF DeliverPacket
<1>3. SenderTypeOK' /\ wire' = wire /\ frame_no' = frame_no
      /\ cumulative_fpf' = cumulative_fpf /\ ack_cursor' = ack_cursor
  BY <1>1 DEF DeliverPacket, TypeOK, SenderTypeOK, senderVars
<1>4. n \in FrameNos /\ n < frame_no /\ k \in Nat
  BY PacketType
<1>5. data_cursor' \in Nat
  <2>1. SentBefore(n) \in Nat
    BY <1>4, SentBeforeType DEF FrameNos, TypeOK, SenderTypeOK
  <2> QED BY <1>1, <1>4, <2>1 DEF DeliverPacket, Place, TypeOK
<1>6. /\ acks' \in Seq(AckPacket)
      /\ \A i \in 1 .. Len(acks') : acks'[i].frame_no < frame_no
  <2> DEFINE ack == [ frame_no |-> n, fragment_no |-> k,
                      current_state |-> current_state',
                      complete_states |-> complete_states',
                      saved |-> last_saved' ]
  <2>1. ack \in AckPacket /\ ack.frame_no < frame_no
    BY <1>2, <1>4 DEF ReceiverTypeOK, AckPacket
  <2>2. acks' = acks \/ acks' = Append(acks, ack)
    BY <1>1 DEF DeliverPacket
  <2> HIDE DEF ack
  <2>3. acks \in Seq(AckPacket)
        /\ \A i \in 1 .. Len(acks) : acks[i].frame_no < frame_no
    BY DEF TypeOK, Numbered
  <2> QED BY <2>1, <2>2, <2>3, SMTT(30)
<1> QED BY <1>2, <1>3, <1>5, <1>6 DEF TypeOK, Numbered

LEMMA DeliverAckType ==
  ASSUME TypeOK, DeliverAckStep
  PROVE  TypeOK'
<1>1. PICK i \in DOMAIN acks : DeliverAck(i)
  BY DEF DeliverAckStep
<1>2. i \in 1 .. Len(acks) /\ acks[i] \in AckPacket
      /\ acks[i].frame_no < frame_no
  BY DEF TypeOK, Numbered
<1>3. AckSeqNo(acks[i]) \in Nat
  <2>1. acks[i].frame_no \in 0 .. frame_no /\ acks[i].fragment_no \in Nat
    BY <1>2 DEF AckPacket, FrameNos, TypeOK, SenderTypeOK
  <2> QED BY <2>1, SentBeforeType DEF AckSeqNo
<1>4. SenderTypeOK'
  BY <1>1, <1>2, <1>3
  DEF DeliverAck, HandleAck, TypeOK, SenderTypeOK, AckPacket, Optional
<1>5. ReceiverTypeOK'
  BY <1>1 DEF DeliverAck, receiverVars, TypeOK, ReceiverTypeOK
<1> QED
  BY <1>1, <1>2, <1>4, <1>5 DEF DeliverAck, HandleAck, TypeOK, Numbered

LEMMA SameType ==
  ASSUME TypeOK, ConservativeExpiresStep \/ SkipFrameStep \/ UNCHANGED vars
  PROVE  TypeOK'
<1>1. SenderTypeOK'
  <2>1. CASE ConservativeExpiresStep
    BY <2>1 DEF TypeOK, SenderTypeOK, ConservativeExpiresStep,
                ConservativeExpires
  <2>2. CASE SkipFrameStep
    BY <2>2, EncodingAssumption
    DEF TypeOK, SenderTypeOK, SkipFrameStep, SkipFrame, Optional
  <2>3. CASE UNCHANGED vars
    BY <2>3 DEF TypeOK, SenderTypeOK, vars, senderVars
  <2> QED BY <2>1, <2>2, <2>3
<1>2. ReceiverTypeOK'
  BY DEF TypeOK, ReceiverTypeOK, ConservativeExpiresStep, SkipFrameStep, vars,
         receiverVars
<1> QED
  BY <1>1, <1>2
  DEF TypeOK, Numbered, ConservativeExpiresStep, ConservativeExpires,
      SkipFrameStep, SkipFrame, vars, senderVars, pathVars

(* Every variable of both processes and of the paths keeps to its type, and  *)
(* the number of frames agrees between them, in a call of any size.          *)
THEOREM TypeCorrect == Spec => []TypeOK
<1>1. ASSUME Init PROVE TypeOK
  <2>0. /\ 0 \in 0 .. MaxFrames /\ 0 \in 0 .. MaxSkipped
        /\ {InitialState} \in SUBSET Hash
    BY HashAssumption, EncodingAssumption
  <2>1. SenderTypeOK
    <3>1. sender_up \in BOOLEAN /\ conservative \in BOOLEAN
      BY <1>1 DEF Init, SenderInit
    <3>2. /\ cumulative_fpf \in Seq(Nat)
          /\ receiver_complete \in Seq(Hash)
          /\ encoder_states \in Seq(Hash)
      BY <1>1 DEF Init, SenderInit
    <3>3. /\ frame_no \in 0 .. MaxFrames
          /\ skipped_count \in 0 .. MaxSkipped
          /\ encoders \in SUBSET Hash
      BY <1>1, <2>0 DEF Init, SenderInit
    <3>4. /\ last_acked \in Nat \cup {NotAcked}
          /\ acked_state \in Optional(Hash)
          /\ assumed_state \in Optional(Hash)
          /\ encode_job \in Optional(Hash)
      BY <1>1 DEF Init, SenderInit, Optional
    <3> QED BY <3>1, <3>2, <3>3, <3>4 DEF SenderTypeOK
  <2>2. ReceiverTypeOK
    BY <1>1, HashAssumption DEF Init, ReceiverInit, ReceiverTypeOK
  <2>3. Numbered
    BY <1>1 DEF Init, SenderInit, Numbered
  <2> QED BY <1>1, <2>1, <2>2, <2>3 DEF Init, TypeOK
<1>2. TypeOK /\ [Next]_vars => TypeOK'
  BY StartEncodeType, SendFrameType, DeliverPacketType, DeliverAckType,
     SameType
  DEF Next
<1> QED BY <1>1, <1>2, PTL DEF Spec

-----------------------------------------------------------------------------
(* Storage: what the receiver keeps, whatever the paths do.                  *)

(* A datagram never contradicts the frame it belongs to.                     *)
LEMMA PacketFits ==
  ASSUME TypeOK, FragmentsMatch, NEW n \in 0 .. Len(wire) - 1,
         NEW k \in 0 .. wire[n + 1].count - 1
  PROVE  LET f == WithPacket(Packet(n, k))
         IN  /\ f.source_state = wire[n + 1].source_state
             /\ f.target_state = wire[n + 1].target_state
             /\ f.count = wire[n + 1].count
             /\ Consistent(f, Packet(n, k))
<1>1. Packet(n, k).frame_no = n
  BY DEF Packet
<1>2. CASE n \in DOMAIN fragmented_frames
  <2> DEFINE f == fragmented_frames[n]
  <2>1. f \in Fragmented
    BY <1>2 DEF TypeOK, ReceiverTypeOK
  <2>2. /\ f.source_state = wire[n + 1].source_state
        /\ f.target_state = wire[n + 1].target_state
        /\ f.count = wire[n + 1].count
    BY <1>2 DEF FragmentsMatch
  <2>3. WithPacket(Packet(n, k)) = [ f EXCEPT !.got = @ \cup {k} ]
    BY <1>1, <1>2 DEF WithPacket, Packet
  <2> HIDE DEF f
  <2>4. /\ WithPacket(Packet(n, k)).source_state = f.source_state
        /\ WithPacket(Packet(n, k)).target_state = f.target_state
        /\ WithPacket(Packet(n, k)).count = f.count
    BY <2>1, <2>3 DEF Fragmented
  <2> QED BY <2>2, <2>4 DEF Consistent, Packet
<1>3. CASE n \notin DOMAIN fragmented_frames
  BY <1>1, <1>3 DEF WithPacket, Packet, Consistent
<1> QED BY <1>2, <1>3

(* The ways a datagram is handled: it is dropped with the process by the     *)
(* assertion, stored, or completes its frame.                                *)
LEMMA PacketCases ==
  ASSUME TypeOK, FragmentsMatch, NEW n \in 0 .. Len(wire) - 1,
         NEW k \in 0 .. wire[n + 1].count - 1, HandlePacket(Packet(n, k))
  PROVE  LET f == WithPacket(Packet(n, k))
         IN  /\ receiver_up /\ n >= next_frame_no
             /\ \E state \in AfterAbandoned(n) :
                  \/ StorePacket(Packet(n, k), f, state)
                  \/ ApplyFrame(Packet(n, k), f, state)
                  \/ TrimAsserts(f, state) /\ Die
  BY PacketFits, PacketType DEF HandlePacket

LEMMA StorageDelivered ==
  ASSUME TypeOK, StorageInv, DeliverPacketStep
  PROVE  StorageInv'
<1>0. PICK n \in 0 .. Len(wire) - 1 :
        \E k \in 0 .. wire[n + 1].count - 1 : DeliverPacket(n, k)
  BY DEF DeliverPacketStep
<1>1. PICK k \in 0 .. wire[n + 1].count - 1 : DeliverPacket(n, k)
  BY <1>0
<1> DEFINE p == Packet(n, k)
           f == WithPacket(p)
<1>2. /\ wire' = wire /\ frame_no' = frame_no
      /\ n \in Nat /\ n < frame_no /\ p.frame_no = n
      /\ next_frame_no \in Nat
  BY <1>1, PacketType
  DEF DeliverPacket, senderVars, FrameNos, TypeOK, ReceiverTypeOK
<1>3. /\ f.source_state = wire[n + 1].source_state
      /\ f.target_state = wire[n + 1].target_state
      /\ f.count = wire[n + 1].count
      /\ f.target_state # InitialState
  <2>1. wire[n + 1].target_state # InitialState
    BY DEF StorageInv, TypeOK
  <2> QED BY <2>1, PacketFits DEF StorageInv
<1>4. /\ n >= next_frame_no
      /\ \E state \in AfterAbandoned(n) :
           \/ StorePacket(p, f, state)
           \/ ApplyFrame(p, f, state)
           \/ TrimAsserts(f, state) /\ Die
  BY <1>1, PacketCases DEF DeliverPacket, StorageInv
<1> HIDE DEF p, f
<1>5. CASE Die
  BY <1>2, <1>5 DEF Die, StorageInv, FragmentsMatch, OnlyNextFrameStored,
                    NewestCompleteIsStored
<1>6. ASSUME NEW state, StorePacket(p, f, state) PROVE StorageInv'
  <2>1. FragmentsMatch'
    BY <1>2, <1>3, <1>6 DEF StorePacket, StorageInv, FragmentsMatch
  <2>2. OnlyNextFrameStored'
    BY <1>2, <1>4, <1>6
    DEF StorePacket, StorageInv, OnlyNextFrameStored, Abandoned
  <2>3. NewestCompleteIsStored'
    BY <1>6 DEF StorePacket, StorageInv, NewestCompleteIsStored
  <2> QED BY <1>2, <2>1, <2>2, <2>3 DEF StorageInv
<1>7. ASSUME NEW state, ApplyFrame(p, f, state) PROVE StorageInv'
  <2>1. FragmentsMatch'
    BY <1>2, <1>7 DEF ApplyFrame, Stored, StorageInv, FragmentsMatch
  <2>2. OnlyNextFrameStored'
    BY <1>2, <1>4, <1>7
    DEF ApplyFrame, Stored, StorageInv, OnlyNextFrameStored, Abandoned
  <2>3. NewestCompleteIsStored'
    <3>1. PICK j \in 1 .. Len(complete_states) + 1 :
            /\ Decode(f, n, state, j)
            /\ Trims(f, state) \/ j = 1
      BY <1>2, <1>7 DEF ApplyFrame, TypeOK, ReceiverTypeOK
    <3> DEFINE kept == SubSeq(complete_states, j, Len(complete_states))
               older == { complete_states[i] : i \in 1 .. j - 1 }
    <3>2. PICK result \in AfterFrame(f, Loaded(f, state)) :
            IF result = f.target_state /\ result # InitialState
            THEN /\ decoders' = (decoders \ older) \cup {result}
                 /\ complete_states' = Append(kept, result)
            ELSE /\ decoders' = decoders \ older
                 /\ complete_states' = kept
      BY <3>1 DEF Decode
    <3>3. kept \in Seq(Hash)
      BY Suffix DEF TypeOK, ReceiverTypeOK
    <3>4. CASE result = f.target_state
      <4>1. complete_states' = Append(kept, result) /\ result \in decoders'
        BY <1>3, <3>2, <3>4
      <4>2. Last(complete_states') = result
        BY <3>3, <4>1 DEF Last
      <4> QED BY <4>1, <4>2 DEF NewestCompleteIsStored
    <3>5. CASE result # f.target_state
      <4>1. j = 1
        BY <3>1, <3>2, <3>5 DEF Trims, AfterFrame
      <4>2. older = {} /\ kept = complete_states
        BY <4>1 DEF TypeOK, ReceiverTypeOK
      <4>3. decoders' = decoders /\ complete_states' = complete_states
        BY <3>2, <3>5, <4>2
      <4> QED BY <4>3 DEF StorageInv, NewestCompleteIsStored
    <3> QED BY <3>4, <3>5
  <2> QED BY <1>2, <2>1, <2>2, <2>3 DEF StorageInv
<1> QED BY <1>4, <1>5, <1>6, <1>7

(* Of the steps that handle no datagram only SendFrameStep touches a         *)
(* variable of StorageInv: it adds a frame.                                  *)
LEMMA StorageUntouched ==
  ASSUME TypeOK, StorageInv, Next \/ UNCHANGED vars, ~ DeliverPacketStep
  PROVE  StorageInv'
<1>1. UNCHANGED receiverVars
  BY DEF Next, vars, StartEncodeStep, ConservativeExpiresStep, SkipFrameStep,
         SendFrameStep, DeliverAckStep, DeliverAck
<1>2. CASE UNCHANGED << wire, frame_no >>
  BY <1>1, <1>2 DEF StorageInv, FragmentsMatch, OnlyNextFrameStored,
                    NewestCompleteIsStored, receiverVars
<1>3. CASE SendFrameStep
  <2>1. PICK target \in Targets[frame_no], count \in FragmentCounts[frame_no] :
          /\ SendFrame(target, count)
          /\ wire' = Append(wire, [ source_state |-> encode_job,
                                    target_state |-> target,
                                    count |-> count ])
    BY <1>3 DEF SendFrameStep
  <2>2. target # InitialState
    BY <1>3, EncodingAssumption DEF SendFrameStep
  <2>3. /\ wire \in Seq(FrameHeader) /\ Len(wire) = frame_no
        /\ frame_no \in Nat /\ frame_no' = frame_no + 1
    BY <2>1 DEF TypeOK, SenderTypeOK, Numbered, SendFrame
  <2>4. /\ Len(wire') = Len(wire) + 1
        /\ \A n \in 1 .. Len(wire) : wire'[n] = wire[n]
        /\ wire'[Len(wire) + 1].target_state = target
    BY <2>1, <2>3
  <2>5. FragmentsMatch'
    <3>1. \A n \in DOMAIN fragmented_frames :
            /\ n \in Nat /\ n < frame_no /\ wire'[n + 1] = wire[n + 1]
      BY <2>3, <2>4 DEF StorageInv, FragmentsMatch, TypeOK, ReceiverTypeOK
    <3> QED BY <1>1, <2>3, <3>1 DEF StorageInv, FragmentsMatch, receiverVars
  <2> QED
    BY <1>1, <2>2, <2>3, <2>4, <2>5
    DEF StorageInv, OnlyNextFrameStored, NewestCompleteIsStored, receiverVars
<1> QED
  BY <1>2, <1>3
  DEF Next, vars, senderVars, pathVars, StartEncodeStep, StartEncode,
      ConservativeExpiresStep, ConservativeExpires, SkipFrameStep, SkipFrame,
      DeliverAckStep, DeliverAck, HandleAck

(* Whatever is lost, repeated or reordered, the receiver never piles up      *)
(* incomplete frames, what it has of one agrees with the rest, and the       *)
(* newest state it reports is one whose decoder it still has.                *)
THEOREM StorageCorrect == Spec => []StorageInv
<1>1. Init => StorageInv
  BY DEF Init, SenderInit, ReceiverInit, StorageInv, FragmentsMatch,
         OnlyNextFrameStored, NewestCompleteIsStored
<1>2. TypeOK /\ StorageInv /\ [Next]_vars => StorageInv'
  BY StorageDelivered, StorageUntouched
<1> QED BY <1>1, <1>2, TypeCorrect, PTL DEF Spec

-----------------------------------------------------------------------------
(* Safety of a call in which one of the paths keeps the order.               *)

(* The assumptions of the safety argument about the paths and the codec.     *)
SafeCall == (AckFifo \/ DataFifo) /\ TailIsPadding = {} /\ NoCollision

Inv == TypeOK /\ StorageInv /\ CallInv

(* An acknowledgment keeps its place among all datagrams of the call.        *)
LEMMA AckSeqNoType ==
  ASSUME TypeOK, NEW i \in 1 .. Len(acks)
  PROVE  AckSeqNo(acks[i]) \in Nat
<1>1. acks[i] \in AckPacket /\ acks[i].frame_no < frame_no
  BY DEF TypeOK, Numbered
<1>2. acks[i].frame_no \in 0 .. frame_no /\ acks[i].fragment_no \in Nat
  BY <1>1, SMTT(30) DEF AckPacket, FrameNos, TypeOK, SenderTypeOK
<1> QED BY <1>2, SentBeforeType DEF AckSeqNo

LEMMA SentBeforeStays ==
  ASSUME TypeOK, SendFrameStep, NEW n \in 0 .. frame_no
  PROVE  SentBefore(n)' = SentBefore(n)
<1>1. /\ cumulative_fpf \in Seq(Nat)
      /\ Len(cumulative_fpf) = frame_no
      /\ frame_no \in Nat
  BY DEF TypeOK, SenderTypeOK, Numbered
<1>2. PICK count \in FragmentCounts[frame_no] :
        cumulative_fpf' = Append(cumulative_fpf, SentBefore(frame_no) + count)
  BY DEF SendFrameStep, SendFrame
<1>3. n # 0 => cumulative_fpf'[n] = cumulative_fpf[n]
  BY <1>1, <1>2
<1> QED BY <1>3 DEF SentBefore

(* Position of frame n's target in the deque of states.                      *)
LEMMA InDeque ==
  ASSUME Inv, NEW n \in Nat, Dropped <= n, n < frame_no
  PROVE  /\ n + 1 - Dropped \in 1 .. Len(encoder_states)
         /\ encoder_states[n + 1 - Dropped] = wire[n + 1].target_state
  BY DEF Inv, CallInv, EncodersInv, Dropped, TypeOK, SenderTypeOK

(* An acknowledged state with an encoder is the newest the report names.     *)
LEMMA AckedIsNewest ==
  ASSUME Inv, SafeCall, acked_state \in encoders \ {InitialState}
  PROVE  /\ receiver_complete # << >>
         /\ Last(receiver_complete) = acked_state
<1>1. acked_state \in ToSet(encoder_states) /\ acked_state # None
  BY HashAssumption
  DEF Inv, CallInv, EncodersInv, TypeOK, SenderTypeOK
<1>2. PICK j \in 1 .. Len(encoder_states) : acked_state = encoder_states[j]
  BY <1>1 DEF ToSet, Inv, TypeOK, SenderTypeOK
<1>3. acked_state \notin Corrupt
  <2>1. Dropped + j \in 1 .. Len(wire)
    BY <1>2
    DEF Inv, CallInv, EncodersInv, Dropped, TypeOK, SenderTypeOK, Numbered
  <2> QED BY <1>2, <2>1 DEF Inv, CallInv, EncodersInv, WireInv
<1>4. PICK i \in 1 .. Len(acks) : ViewOf(i)
  BY <1>1 DEF Inv, CallInv, ViewInv
<1>5. AckInv(acks[i])
  BY DEF Inv, CallInv, AcksInv, TypeOK
<1>6. acked_state = Newest(receiver_complete)
  BY <1>3, <1>4, <1>5 DEF AckInv, ViewOf
<1> QED BY <1>6 DEF Newest

(* The newest state the sender knows of comes from a frame whose encoder is  *)
(* not cleaned up.                                                           *)
LEMMA KnownFrame ==
  ASSUME Inv, receiver_complete # << >>
  PROVE  \E n \in Nat : /\ Dropped <= n /\ n < frame_no
                        /\ Last(receiver_complete) = wire[n + 1].target_state
<1>1. PICK i \in 1 .. Len(acks) : ViewOf(i)
  BY DEF Inv, CallInv, ViewInv
<1>2. AckInv(acks[i])
  BY DEF Inv, CallInv, AcksInv, TypeOK
<1>3. /\ acks[i].saved \in Nat /\ acks[i].saved < frame_no
      /\ Last(receiver_complete) = wire[acks[i].saved + 1].target_state
  BY <1>1, <1>2 DEF AckInv, ReportOf, ViewOf, Inv, TypeOK, SenderTypeOK
<1> QED BY <1>1, <1>3 DEF ViewOf

(* The cleanup keeps the encoders of the newest known and the assumed state. *)
LEMMA CleanUpKeeps ==
  ASSUME Inv, SafeCall, CleanUp,
         UNCHANGED << frame_no, wire, acks, ack_cursor, acked_state,
                      last_acked, cumulative_fpf, receiver_complete,
                      assumed_state >>
  PROVE  /\ KnownState \in encoders'
         /\ encoders' = {InitialState} \cup ToSet(encoder_states')
         /\ encoders' \subseteq encoders
         /\ Len(encoder_states') <= frame_no
         /\ \A i \in 1 .. Len(encoder_states') :
              encoder_states'[i] = wire[Dropped' + i].target_state
         /\ frame_no > 0 => /\ encoder_states' # << >>
                            /\ assumed_state = Last(encoder_states')
         /\ ViewInv'
<1> USE DEF Inv
<1>1. encoders = {InitialState} \cup ToSet(encoder_states)
  BY DEF CallInv, EncodersInv
<1>2. encoder_states \in Seq(Hash) /\ frame_no \in Nat
  BY DEF TypeOK, SenderTypeOK
<1>3. receiver_complete # << >> => KnownState = Last(receiver_complete)
  BY DEF KnownState, Newest
<1>4. receiver_complete = << >> => KnownState = InitialState
  BY DEF KnownState, Newest
<1>5. CASE UNCHANGED << encoder_states, encoders >>
  <2>1. KnownState \in encoders
    <3>1. CASE receiver_complete # << >>
      <4>1. PICK n \in Nat :
              /\ Dropped <= n /\ n < frame_no
              /\ Last(receiver_complete) = wire[n + 1].target_state
        BY <3>1, KnownFrame
      <4>2. Last(receiver_complete) \in ToSet(encoder_states)
        BY <4>1, InDeque, <1>2 DEF ToSet
      <4> QED BY <1>1, <1>3, <3>1, <4>2
    <3> QED BY <1>1, <1>4, <3>1
  <2>2. ViewInv'
    BY <1>5 DEF CallInv, ViewInv, ViewOf, Dropped, AckSeqNo, SentBefore
  <2> QED BY <1>5, <2>1, <2>2 DEF CallInv, EncodersInv, Dropped
<1>6. ASSUME acked_state \in encoders \ {InitialState},
             NEW k \in 1 .. Len(encoder_states) + 1,
             OldestKept(k), DropBefore(k)
      PROVE  /\ KnownState \in encoders'
             /\ encoders' = {InitialState} \cup ToSet(encoder_states')
             /\ encoders' \subseteq encoders
             /\ Len(encoder_states') <= frame_no
             /\ \A i \in 1 .. Len(encoder_states') :
                  encoder_states'[i] = wire[Dropped' + i].target_state
             /\ frame_no > 0 => /\ encoder_states' # << >>
                                /\ assumed_state = Last(encoder_states')
             /\ ViewInv'
  <2>1. /\ encoder_states' = SubSeq(encoder_states, k, Len(encoder_states))
        /\ encoder_states' \in Seq(Hash)
        /\ Len(encoder_states') = Len(encoder_states) - k + 1
        /\ \A i \in 1 .. Len(encoder_states') :
             encoder_states'[i] = encoder_states[k - 1 + i]
    BY <1>2, <1>6, Suffix DEF DropBefore
  <2>2. Dropped' = Dropped + k - 1
    BY <1>2, <2>1 DEF Dropped
  <2>3. PICK n \in Nat :
          /\ Dropped <= n /\ n < frame_no
          /\ acked_state = wire[n + 1].target_state
    BY <1>6, AckedIsNewest, KnownFrame
  <2>4. PICK i \in 1 .. Len(acks) : ViewOf(i)
    BY <1>6, HashAssumption DEF CallInv, ViewInv, TypeOK, SenderTypeOK
  <2>5. /\ acks[i].saved \in Nat /\ acks[i].saved < frame_no
        /\ Dropped <= acks[i].saved
        /\ acked_state = wire[acks[i].saved + 1].target_state
    <3>1. AckInv(acks[i])
      BY DEF CallInv, AcksInv, TypeOK
    <3>2. Last(acks[i].complete_states) = acked_state
          /\ acks[i].complete_states # << >>
      BY <1>6, <2>4, AckedIsNewest DEF ViewOf
    <3>3. /\ acks[i].saved \in Nat /\ acks[i].saved < frame_no
          /\ acked_state = wire[acks[i].saved + 1].target_state
      BY <3>1, <3>2, <1>2 DEF AckInv, ReportOf
    <3> QED BY <2>4, <3>3 DEF ViewOf
  <2> DEFINE q == acks[i].saved + 1 - Dropped
  <2>6. /\ q \in 1 .. Len(encoder_states)
        /\ encoder_states[q] = acked_state
    BY <2>5, InDeque
  <2>7. k <= q
    BY <1>6, <2>6 DEF OldestKept, Kept
  <2>8. Dropped' <= acks[i].saved
    <3>1. Dropped \in Int
      BY <1>2 DEF Dropped
    <3> QED BY <2>2, <2>5, <2>7, <3>1
  <2>9. ViewInv'
    BY <2>4, <2>8 DEF ViewInv, ViewOf, AckSeqNo, SentBefore
  <2>10. \A j \in 1 .. Len(encoder_states') :
           encoder_states'[j] = wire[Dropped' + j].target_state
    <3>1. ASSUME NEW j \in 1 .. Len(encoder_states')
          PROVE  encoder_states'[j] = wire[Dropped' + j].target_state
      <4>1. k - 1 + j \in 1 .. Len(encoder_states)
        BY <1>2, <2>1
      <4>2. encoder_states[k - 1 + j] = wire[Dropped + (k - 1 + j)].target_state
        BY <4>1 DEF CallInv, EncodersInv
      <4>3. Dropped + (k - 1 + j) = Dropped' + j
        BY <1>2, <2>2 DEF Dropped
      <4> QED BY <2>1, <4>2, <4>3
    <3> QED BY <3>1
  <2>11. InitialState \notin { encoder_states[j] : j \in 1 .. k - 1 }
    <3>1. ASSUME NEW j \in 1 .. k - 1
          PROVE  encoder_states[j] # InitialState
      <4>1. j \in 1 .. Len(encoder_states) /\ Dropped + j \in 1 .. Len(wire)
        BY <1>2 DEF Dropped, CallInv, EncodersInv, TypeOK, Numbered
      <4> QED BY <4>1 DEF CallInv, EncodersInv, StorageInv
    <3> QED BY <3>1
  <2>12. /\ ToSet(encoder_states') = { encoder_states[j] :
                                        j \in k .. Len(encoder_states) }
         /\ ToSet(encoder_states) = { encoder_states[j] :
                                        j \in 1 .. Len(encoder_states) }
    <3>1. ToSet(SubSeq(encoder_states, k, Len(encoder_states)))
            = { encoder_states[j] : j \in k .. Len(encoder_states) }
      BY <1>2, SuffixSet
    <3>2. ToSet(encoder_states) = { encoder_states[j] :
                                       j \in 1 .. Len(encoder_states) }
      BY <1>2, Elements
    <3>3. encoder_states' = SubSeq(encoder_states, k, Len(encoder_states))
      BY <2>1
    <3> QED BY <3>1, <3>2, <3>3
  <2>13. /\ encoders' = {InitialState} \cup ToSet(encoder_states')
         /\ encoders' \subseteq encoders
    <3>1. encoders' = encoders \ ({ encoder_states[j] : j \in 1 .. k - 1 }
                                    \ ToSet(encoder_states'))
      BY <1>6 DEF DropBefore
    <3>2. \A j \in 1 .. Len(encoder_states) :
            j \in 1 .. k - 1 \/ j \in k .. Len(encoder_states)
      BY <1>2
    <3>3. k .. Len(encoder_states) \subseteq 1 .. Len(encoder_states)
      BY <1>2
    <3> QED BY <1>1, <2>11, <2>12, <3>1, <3>2, <3>3
  <2>14. acked_state \in encoders'
    BY <1>2, <2>6, <2>7, <2>12, <2>13
  <2>15. KnownState \in encoders'
    BY <1>3, <1>6, <2>14, AckedIsNewest
  <2>16. frame_no > 0 => /\ encoder_states' # << >>
                         /\ assumed_state = Last(encoder_states')
    <3>1. Len(encoder_states') > 0
      BY <1>2, <2>1, <2>6, <2>7
    <3>2. Last(encoder_states') = encoder_states'[Len(encoder_states')]
      BY <2>1 DEF Last
    <3>3. Last(encoder_states) = encoder_states[Len(encoder_states)]
      BY <1>2, <2>6 DEF Last
    <3>4. frame_no > 0 => assumed_state = Last(encoder_states)
      BY DEF CallInv, EncodersInv
    <3>5. k - 1 + Len(encoder_states') = Len(encoder_states)
      BY <1>2, <2>1
    <3>6. encoder_states'[Len(encoder_states')]
            = encoder_states[Len(encoder_states)]
      BY <2>1, <3>1, <3>5
    <3> QED BY <3>1, <3>2, <3>3, <3>4, <3>6
  <2>17. Len(encoder_states') <= frame_no
    BY <1>2, <2>1 DEF CallInv, EncodersInv
  <2> QED BY <2>9, <2>10, <2>13, <2>15, <2>16, <2>17
<1> QED BY <1>5, <1>6 DEF CleanUp

(* encoders.at finds the selected state.                                     *)
LEMMA StartEncodeSafe ==
  ASSUME Inv, SafeCall, StartEncodeStep
  PROVE  CallInv'
<1> USE DEF Inv
<1>1. /\ CleanUp
      /\ UNCHANGED << frame_no, wire, acks, ack_cursor, acked_state,
                      last_acked, cumulative_fpf, receiver_complete,
                      assumed_state, data_cursor >>
      /\ UNCHANGED receiverVars
  BY DEF StartEncodeStep, StartEncode, pathVars
<1>2. /\ KnownState \in encoders'
      /\ encoders' = {InitialState} \cup ToSet(encoder_states')
      /\ Len(encoder_states') <= frame_no
      /\ \A i \in 1 .. Len(encoder_states') :
           encoder_states'[i] = wire[Dropped' + i].target_state
      /\ frame_no > 0 => /\ encoder_states' # << >>
                         /\ assumed_state = Last(encoder_states')
      /\ ViewInv'
  BY <1>1, CleanUpKeeps
<1>3. encoder_states' \in Seq(Hash)
  BY StartEncodeType DEF TypeOK, SenderTypeOK
<1>4. frame_no > 0 => assumed_state \in encoders'
  <2>1. ASSUME frame_no > 0 PROVE assumed_state \in ToSet(encoder_states')
    BY <1>2, <1>3, <2>1, Elements DEF Last
  <2> QED BY <1>2, <2>1
<1>5. acked_state # None => frame_no > 0
  <2>1. ASSUME acked_state # None PROVE frame_no > 0
    <3>1. PICK i \in 1 .. Len(acks) : ViewOf(i)
      BY <2>1 DEF CallInv, ViewInv
    <3>2. acks[i].frame_no < frame_no /\ acks[i] \in AckPacket
      BY DEF CallInv, AcksInv, TypeOK, Numbered
    <3> QED BY <3>2, SMTT(30) DEF AckPacket, FrameNos, TypeOK, SenderTypeOK
  <2> QED BY <2>1
<1>6. frame_no = 0 => assumed_state = None
  BY DEF CallInv, EncodersInv
<1>7. frame_no > 0 => assumed_state # None
  <2>1. encoder_states # << >> => Last(encoder_states) \in Hash
    BY DEF Last, TypeOK, SenderTypeOK
  <2> QED BY <2>1, HashAssumption DEF CallInv, EncodersInv
<1>8. SelectedSource(encoders') \in encoders'
  BY <1>2, <1>4, <1>5, <1>6, <1>7 DEF SelectedSource, TypeOK, SenderTypeOK
<1>9. sender_up' /\ encode_job' \in encoders'
  BY <1>8 DEF StartEncodeStep, StartEncode
<1>10. EncodersInv'
  BY <1>1, <1>2, <1>6, <1>9 DEF EncodersInv, Dropped
<1> QED
  BY <1>1, <1>2, <1>9, <1>10
  DEF CallInv, WireInv, DecodersInv, ReportOf, AcksInv, AckInv, PlacesInv,
      AckSeqNo, SentBefore, receiverVars

(* A frame sent leaves all that was known of the earlier ones.               *)
LEMMA SendFrameSafe ==
  ASSUME Inv, SafeCall, SendFrameStep
  PROVE  CallInv'
<1> USE DEF Inv
<1>1. PICK target \in Targets[frame_no], count \in FragmentCounts[frame_no] :
        /\ SendFrame(target, count)
        /\ wire' = Append(wire, [ source_state |-> encode_job,
                                  target_state |-> target,
                                  count |-> count ])
  BY DEF SendFrameStep
<1>2. /\ wire \in Seq(FrameHeader) /\ Len(wire) = frame_no
      /\ frame_no \in Nat /\ frame_no' = frame_no + 1
      /\ encoder_states \in Seq(Hash)
      /\ encoder_states' = Append(encoder_states, target)
      /\ target \in Hash
  BY <1>1, EncodingAssumption
  DEF TypeOK, SenderTypeOK, Numbered, SendFrame, SendFrameStep
<1>3. /\ Len(wire') = frame_no'
      /\ \A n \in 1 .. Len(wire) : wire'[n] = wire[n]
      /\ wire'[Len(wire) + 1].source_state = encode_job
      /\ wire'[Len(wire) + 1].target_state = target
  BY <1>1, <1>2
<1>4. UNCHANGED << receiverVars, acks, ack_cursor, acked_state,
                   last_acked, data_cursor, receiver_complete, sender_up >>
  BY <1>1 DEF SendFrameStep, SendFrame
<1>5. target \notin Corrupt
  BY DEF SafeCall, NoCollision, SendFrameStep
<1>6. encode_job \notin Corrupt
  <2>1. encode_job \in encoders
    BY <1>1 DEF SendFrame, CallInv, EncodersInv
  <2>2. CASE encode_job = InitialState
    BY <2>2 DEF SafeCall, NoCollision
  <2>3. CASE encode_job \in ToSet(encoder_states)
    <3>1. PICK j \in 1 .. Len(encoder_states) : encode_job = encoder_states[j]
      BY <1>2, <2>3, Elements
    <3>2. /\ encoder_states[j] = wire[Dropped + j].target_state
          /\ Dropped + j \in 1 .. Len(wire)
      BY <1>2 DEF CallInv, EncodersInv, Dropped
    <3> QED BY <3>1, <3>2 DEF CallInv, WireInv
  <2> QED BY <2>1, <2>2, <2>3 DEF CallInv, EncodersInv
<1>7. WireInv'
  BY <1>2, <1>3, <1>5, <1>6 DEF CallInv, WireInv
<1>8. /\ Dropped' = Dropped
      /\ encoder_states' # << >>
      /\ Last(encoder_states') = target
      /\ ToSet(encoder_states') = ToSet(encoder_states) \cup {target}
  <2>1. /\ Len(encoder_states') = Len(encoder_states) + 1
        /\ encoder_states' \in Seq(Hash)
        /\ encoder_states'[Len(encoder_states) + 1] = target
        /\ \A i \in 1 .. Len(encoder_states) :
             encoder_states'[i] = encoder_states[i]
    BY <1>2
  <2>2. Dropped' = Dropped
    BY <1>2, <2>1 DEF Dropped
  <2>3. Last(encoder_states') = target /\ encoder_states' # << >>
    BY <1>2, <2>1 DEF Last
  <2> QED BY <1>2, <2>2, <2>3, AppendSet
<1>9. \A i \in 1 .. Len(encoder_states') :
        encoder_states'[i] = wire'[Dropped' + i].target_state
  <2>1. ASSUME NEW i \in 1 .. Len(encoder_states)
        PROVE  encoder_states'[i] = wire'[Dropped' + i].target_state
    <3>1. encoder_states'[i] = encoder_states[i]
      BY <1>2
    <3>2. Dropped + i \in 1 .. Len(wire)
      BY <1>2 DEF CallInv, EncodersInv, Dropped
    <3> QED BY <1>3, <1>8, <3>1, <3>2 DEF CallInv, EncodersInv
  <2>2. encoder_states'[Len(encoder_states) + 1]
          = wire'[Dropped' + (Len(encoder_states) + 1)].target_state
    <3>1. Dropped' + (Len(encoder_states) + 1) = Len(wire) + 1
      BY <1>2, <1>8 DEF Dropped
    <3> QED BY <1>2, <1>3, <3>1
  <2>3. Len(encoder_states') = Len(encoder_states) + 1
    BY <1>2
  <2> QED BY <1>2, <2>1, <2>2, <2>3
<1>10. EncodersInv'
  <2>1. encoders' = encoders \cup {target} /\ assumed_state' = target
        /\ encode_job' = None
    BY <1>1 DEF SendFrame
  <2>2. Len(encoder_states') <= frame_no'
    BY <1>2 DEF CallInv, EncodersInv
  <2> QED BY <1>2, <1>8, <1>9, <2>1, <2>2 DEF CallInv, EncodersInv
<1>11. \A n \in 0 .. frame_no - 1 : wire'[n + 1] = wire[n + 1]
  BY <1>2, <1>3
<1>12. DecodersInv'
  BY <1>2, <1>4, <1>11
  DEF CallInv, DecodersInv, ReportOf, receiverVars, TypeOK, ReceiverTypeOK
<1>13. AcksInv'
  <2>1. ASSUME NEW i \in 1 .. Len(acks) PROVE AckInv(acks[i])'
    <3>1. AckInv(acks[i]) /\ acks[i] \in AckPacket
      BY DEF CallInv, AcksInv, TypeOK
    <3> QED BY <1>2, <1>4, <1>11, <3>1, SMTT(30)
            DEF AckInv, ReportOf, AckPacket, receiverVars
  <2> QED BY <1>4, <2>1 DEF CallInv, AcksInv
<1>14. \A i \in 1 .. Len(acks) : AckSeqNo(acks[i])' = AckSeqNo(acks[i])
  <2>1. ASSUME NEW i \in 1 .. Len(acks)
        PROVE  AckSeqNo(acks[i])' = AckSeqNo(acks[i])
    <3>1. acks[i] \in AckPacket /\ acks[i].frame_no < frame_no
      BY DEF TypeOK, Numbered
    <3>2. acks[i].frame_no \in 0 .. frame_no
      BY <1>2, <3>1 DEF AckPacket, FrameNos
    <3> QED BY <1>4, <3>2, SentBeforeStays DEF AckSeqNo
  <2> QED BY <2>1
<1>15. ViewInv'
  BY <1>4, <1>8, <1>14 DEF CallInv, ViewInv, ViewOf
<1>16. PlacesInv'
  BY <1>4, <1>14 DEF CallInv, PlacesInv
<1> QED
  BY <1>4, <1>7, <1>10, <1>12, <1>13, <1>15, <1>16 DEF CallInv, receiverVars

(* The sender takes no acknowledgment older than the one it used last.       *)
LEMMA AcksInOrder ==
  ASSUME Inv, SafeCall, NEW i \in 1 .. Len(acks), DeliverAck(i),
         NEW j \in 1 .. Len(acks), ViewOf(j)
  PROVE  j <= i /\ acks[j].saved <= acks[i].saved
<1> USE DEF Inv
<1>1. ASSUME AckFifo PROVE j <= i
  <2>1. i > ack_cursor /\ j <= ack_cursor /\ ack_cursor \in Nat
    BY <1>1 DEF DeliverAck, ViewOf, TypeOK
  <2> QED BY <2>1
<1>2. ASSUME DataFifo PROVE j <= i
  <2>1. AckSeqNo(acks[i]) >= AckSeqNo(acks[j])
    <3>1. last_acked = AckSeqNo(acks[j]) /\ AckSeqNo(acks[j]) \in Nat
      BY <1>2, AckSeqNoType DEF ViewOf
    <3>2. ~ IsStale(acks[i])
      BY DEF DeliverAck, HandleAck
    <3> QED BY <3>1, <3>2, AckSeqNoType DEF IsStale, NotAcked
  <2>2. i < j => AckSeqNo(acks[i]) < AckSeqNo(acks[j])
    BY <1>2 DEF CallInv, PlacesInv
  <2>3. AckSeqNo(acks[i]) \in Nat /\ AckSeqNo(acks[j]) \in Nat
    BY AckSeqNoType
  <2> QED BY <2>1, <2>2, <2>3
<1>3. j <= i
  BY <1>1, <1>2 DEF SafeCall
<1> QED BY <1>3 DEF CallInv, AcksInv

(* An acknowledgment only moves the sender's view forward.                   *)
LEMMA DeliverAckSafe ==
  ASSUME Inv, SafeCall, DeliverAckStep
  PROVE  CallInv'
<1> USE DEF Inv
<1>1. PICK i \in 1 .. Len(acks) : DeliverAck(i)
  BY DEF DeliverAckStep, TypeOK
<1>2. /\ AckFifo => i > ack_cursor
      /\ ack_cursor' = IF AckFifo THEN i ELSE ack_cursor
      /\ last_acked' = AckSeqNo(acks[i])
      /\ acked_state' = acks[i].current_state
      /\ receiver_complete' = acks[i].complete_states
      /\ UNCHANGED << sender_up, frame_no, assumed_state, encoders,
                      encoder_states, encode_job, cumulative_fpf, wire, acks,
                      data_cursor >>
      /\ UNCHANGED receiverVars
  BY <1>1 DEF DeliverAck, HandleAck
<1>3. Dropped = 0 \/ Dropped <= acks[i].saved
  <2>1. CASE Dropped # 0
    <3>1. PICK j \in 1 .. Len(acks) : ViewOf(j)
      BY <2>1 DEF CallInv, ViewInv
    <3>2. acks[j].saved <= acks[i].saved
      BY <1>1, <3>1, AcksInOrder
    <3>3. /\ acks[i].saved \in Int /\ acks[j].saved \in Int
          /\ Dropped \in Int
      <4>1. acks[i] \in AckPacket /\ acks[j] \in AckPacket
        BY DEF TypeOK
      <4>2. acks[i].saved \in Nat \cup {-1} /\ acks[j].saved \in Nat \cup {-1}
        BY <4>1 DEF AckPacket
      <4>3. frame_no \in Nat /\ encoder_states \in Seq(Hash)
        BY DEF TypeOK, SenderTypeOK
      <4> QED BY <4>2, <4>3 DEF Dropped
    <3> QED BY <2>1, <3>1, <3>2, <3>3 DEF ViewOf
  <2> QED BY <2>1
<1>4. \A j \in 1 .. Len(acks) : AckSeqNo(acks[j])' = AckSeqNo(acks[j])
  BY <1>2 DEF AckSeqNo, SentBefore
<1>5. ViewInv'
  <2>1. ViewOf(i)'
    BY <1>2, <1>3, <1>4 DEF ViewOf, Dropped
  <2> QED BY <1>2, <2>1 DEF ViewInv
<1>6. AcksInv'
  <2>1. ack_cursor' <= Len(acks)
    BY <1>2 DEF CallInv, AcksInv, TypeOK
  <2> QED BY <1>2, <2>1 DEF CallInv, AcksInv, AckInv, ReportOf, receiverVars
<1>7. PlacesInv'
  BY <1>2, <1>4 DEF CallInv, PlacesInv
<1> QED
  BY <1>2, <1>5, <1>6, <1>7
  DEF CallInv, WireInv, EncodersInv, Dropped, DecodersInv, ReportOf,
      receiverVars

LEMMA OthersSafe ==
  ASSUME Inv, ConservativeExpiresStep \/ SkipFrameStep \/ UNCHANGED vars
  PROVE  CallInv'
<1>1. /\ UNCHANGED << sender_up, frame_no, assumed_state, encoders,
                      encoder_states, acked_state, last_acked, cumulative_fpf,
                      receiver_complete >>
      /\ UNCHANGED << receiverVars, pathVars >>
      /\ encode_job' \in {encode_job, None}
  BY DEF ConservativeExpiresStep, ConservativeExpires, SkipFrameStep,
         SkipFrame, vars, senderVars
<1>2. EncodersInv'
  BY <1>1 DEF Inv, CallInv, EncodersInv, Dropped, pathVars
<1> QED
  BY <1>1, <1>2
  DEF Inv, CallInv, WireInv, DecodersInv, ReportOf, AcksInv, AckInv, ViewInv,
      ViewOf, PlacesInv, AckSeqNo, SentBefore, Dropped, receiverVars, pathVars

(* Decoding frame n, whole, in order: the player ends in the newest complete *)
(* state or is damaged, and no decoder outlives its place among them.        *)
LEMMA DecodeSafe ==
  ASSUME Inv, SafeCall, NEW n \in 0 .. Len(wire) - 1, n >= next_frame_no,
         NEW f, f.source_state = wire[n + 1].source_state,
         f.target_state = wire[n + 1].target_state,
         NEW state \in Corrupt \cup {current_state},
         NEW k \in 1 .. Len(complete_states) + 1,
         Decode(f, n, state, k),
         \/ Trims(f, state) /\ k <= Len(complete_states)
         \/ ~ Trims(f, state) /\ k = 1
  PROVE  /\ decoders' \subseteq {InitialState} \cup ToSet(complete_states')
         /\ current_state' \in Corrupt \cup {Newest(complete_states')}
         /\ \/ /\ complete_states' # << >>
               /\ Last(complete_states') = f.target_state
               /\ last_saved' = n
            \/ UNCHANGED << complete_states, last_saved >>
<1> USE DEF Inv
<1> DEFINE kept == SubSeq(complete_states, k, Len(complete_states))
           older == { complete_states[i] : i \in 1 .. k - 1 }
<1>1. complete_states \in Seq(Hash) /\ n + 1 \in 1 .. Len(wire)
  BY DEF TypeOK, ReceiverTypeOK
<1>2. f.target_state \in Hash /\ f.target_state # InitialState
  <2>1. wire[n + 1] \in FrameHeader
    BY <1>1 DEF TypeOK
  <2> QED BY <1>1, <2>1 DEF StorageInv, FrameHeader
<1>3. PICK result \in AfterFrame(f, Loaded(f, state)) :
        /\ current_state' = result
        /\ IF result = f.target_state /\ result # InitialState
           THEN /\ decoders' = (decoders \ older) \cup {result}
                /\ complete_states' = Append(kept, result)
                /\ last_saved' = n
           ELSE /\ decoders' = decoders \ older
                /\ complete_states' = kept
                /\ UNCHANGED last_saved
  BY DEF Decode
<1>4. kept \in Seq(Hash) /\ ToSet(kept) = { complete_states[i] :
                                             i \in k .. Len(complete_states) }
  BY <1>1, Suffix, SuffixSet
<1>5. decoders \ older \subseteq {InitialState} \cup ToSet(kept)
  <2>1. ToSet(complete_states) = { complete_states[i] :
                                     i \in 1 .. Len(complete_states) }
    BY <1>1, Elements
  <2>2. \A i \in 1 .. Len(complete_states) :
          i \in 1 .. k - 1 \/ i \in k .. Len(complete_states)
    OBVIOUS
  <2> QED BY <1>4, <2>1, <2>2 DEF CallInv, DecodersInv
<1>6. CASE result = f.target_state
  <2>1. /\ decoders' = (decoders \ older) \cup {result}
        /\ complete_states' = Append(kept, result)
        /\ last_saved' = n
    BY <1>2, <1>3, <1>6
  <2> HIDE DEF kept, older
  <2>2. ToSet(complete_states') = ToSet(kept) \cup {result}
    BY <1>2, <1>4, <1>6, <2>1, AppendSet
  <2>3. complete_states' # << >> /\ Last(complete_states') = result
    BY <1>4, <2>1 DEF Last
  <2> QED BY <1>3, <1>5, <1>6, <2>1, <2>2, <2>3 DEF Newest
<1>7. CASE result # f.target_state
  <2>1. result \in Corrupt /\ ~ Trims(f, state)
    BY <1>3, <1>7 DEF AfterFrame, Trims
  <2>2. kept = complete_states /\ older = {}
    BY <1>1, <2>1
  <2>3. /\ complete_states' = complete_states /\ decoders' = decoders
        /\ last_saved' = last_saved
    BY <1>3, <1>7, <2>2
  <2> QED BY <1>3, <2>1, <2>3 DEF CallInv, DecodersInv
<1> QED BY <1>6, <1>7

(* The state after giving frames up is damaged or still the newest.          *)
LEMMA AbandonedState ==
  ASSUME Inv, SafeCall, NEW n, NEW state \in AfterAbandoned(n)
  PROVE  state \in Corrupt \cup {current_state}
<1>1. ASSUME NEW i \in Abandoned(n)
      PROVE  AfterPartial(i, current_state) \subseteq Corrupt \cup {current_state}
  BY DEF AfterPartial, SafeCall
<1> QED BY <1>1 DEF AfterAbandoned

(* A state the player is in, and a frame starts from, is a complete one.     *)
LEMMA SourceIsComplete ==
  ASSUME Inv, SafeCall, NEW n \in 0 .. Len(wire) - 1,
         NEW f, f.source_state = wire[n + 1].source_state,
         NEW state \in Corrupt \cup {current_state}, Trims(f, state)
  PROVE  f.source_state \in ToSet(complete_states)
<1> USE DEF Inv
<1>1. f.source_state # InitialState /\ f.source_state \notin Corrupt
  BY DEF Trims, IsKeyFrame, CallInv, WireInv, TypeOK
<1>2. CASE f.source_state \in decoders
  BY <1>1, <1>2 DEF CallInv, DecodersInv
<1>3. CASE f.source_state \notin decoders
  <2>1. f.source_state = Newest(complete_states)
    BY <1>1, <1>3 DEF Trims, Loaded, CallInv, DecodersInv
  <2>2. complete_states # << >> /\ f.source_state = Last(complete_states)
    BY <1>1, <2>1 DEF Newest
  <2>3. complete_states \in Seq(Hash)
    BY DEF TypeOK, ReceiverTypeOK
  <2> QED BY <2>2, <2>3, Elements DEF Last
<1> QED BY <1>2, <1>3

(* What handling a datagram does to the states the receiver keeps.           *)
LEMMA HandlePacketSafe ==
  ASSUME Inv, SafeCall, NEW n \in 0 .. Len(wire) - 1,
         NEW k \in 0 .. wire[n + 1].count - 1, HandlePacket(Packet(n, k))
  PROVE  /\ receiver_up'
         /\ decoders' \subseteq {InitialState} \cup ToSet(complete_states')
         /\ current_state' \in Corrupt \cup {Newest(complete_states')}
         /\ n >= next_frame_no
         /\ next_frame_no' >= n
         /\ \/ /\ complete_states' # << >>
               /\ Last(complete_states') = wire[n + 1].target_state
               /\ last_saved' = n
               /\ next_frame_no' = n + 1
            \/ UNCHANGED << complete_states, last_saved >>
<1> USE DEF Inv
<1> DEFINE p == Packet(n, k)
           f == WithPacket(p)
<1>1. /\ f.source_state = wire[n + 1].source_state
      /\ f.target_state = wire[n + 1].target_state
      /\ p.frame_no = n
      /\ n \in Nat
  BY PacketFits, PacketType DEF StorageInv, FrameNos
<1>2. /\ receiver_up /\ n >= next_frame_no
      /\ \E state \in AfterAbandoned(n) :
           \/ StorePacket(p, f, state)
           \/ ApplyFrame(p, f, state)
           \/ TrimAsserts(f, state) /\ Die
  BY PacketCases DEF StorageInv
<1> HIDE DEF p, f
<1>3. PICK state \in AfterAbandoned(n) :
           \/ StorePacket(p, f, state)
           \/ ApplyFrame(p, f, state)
           \/ TrimAsserts(f, state) /\ Die
  BY <1>2
<1>4. state \in Corrupt \cup {current_state}
  BY AbandonedState
<1>5. ~ TrimAsserts(f, state)
  BY <1>1, <1>4, SourceIsComplete DEF TrimAsserts
<1>6. CASE StorePacket(p, f, state)
  BY <1>1, <1>2, <1>4, <1>6 DEF StorePacket, CallInv, DecodersInv
<1>7. CASE ApplyFrame(p, f, state)
  <2>1. PICK j \in 1 .. Len(complete_states) + 1 :
          /\ Decode(f, n, state, j)
          /\ \/ Trims(f, state) /\ FirstComplete(f.source_state, j)
             \/ ~ Trims(f, state) /\ j = 1
    BY <1>1, <1>7, SMTT(30) DEF ApplyFrame, TypeOK, ReceiverTypeOK
  <2>2. Trims(f, state) => j <= Len(complete_states)
    <3>1. ASSUME Trims(f, state) PROVE j <= Len(complete_states)
      <4>1. f.source_state \in ToSet(complete_states)
        BY <1>1, <1>4, <3>1, SourceIsComplete
      <4>2. complete_states \in Seq(Hash)
        BY DEF TypeOK, ReceiverTypeOK
      <4>3. PICK i \in 1 .. Len(complete_states) :
              f.source_state = complete_states[i]
        BY <4>1, <4>2, Elements
      <4> QED BY <2>1, <3>1, <4>2, <4>3 DEF FirstComplete
    <3> QED BY <3>1
  <2>3. /\ decoders' \subseteq {InitialState} \cup ToSet(complete_states')
        /\ current_state' \in Corrupt \cup {Newest(complete_states')}
        /\ \/ /\ complete_states' # << >>
              /\ Last(complete_states') = f.target_state
              /\ last_saved' = n
           \/ UNCHANGED << complete_states, last_saved >>
    BY <1>1, <1>2, <1>4, <2>1, <2>2, DecodeSafe
  <2> QED BY <1>1, <1>2, <1>7, <2>3 DEF ApplyFrame
<1> QED BY <1>3, <1>5, <1>6, <1>7

(* Each acknowledgment reports states at least as new as the ones before.    *)
LEMMA DeliverPacketSafe ==
  ASSUME Inv, SafeCall, DeliverPacketStep
  PROVE  CallInv'
<1> USE DEF Inv
<1>0. PICK n \in 0 .. Len(wire) - 1 :
        \E k \in 0 .. wire[n + 1].count - 1 : DeliverPacket(n, k)
  BY DEF DeliverPacketStep
<1>1. PICK k \in 0 .. wire[n + 1].count - 1 : DeliverPacket(n, k)
  BY <1>0
<1>2. /\ receiver_up'
      /\ decoders' \subseteq {InitialState} \cup ToSet(complete_states')
      /\ current_state' \in Corrupt \cup {Newest(complete_states')}
      /\ n >= next_frame_no
      /\ next_frame_no' >= n
      /\ \/ /\ complete_states' # << >>
            /\ Last(complete_states') = wire[n + 1].target_state
            /\ last_saved' = n
            /\ next_frame_no' = n + 1
         \/ UNCHANGED << complete_states, last_saved >>
  BY <1>1, HandlePacketSafe DEF DeliverPacket
<1>3. /\ UNCHANGED senderVars /\ wire' = wire /\ ack_cursor' = ack_cursor
      /\ acks' = Append(acks, [ frame_no |-> n, fragment_no |-> k,
                                current_state |-> current_state',
                                complete_states |-> complete_states',
                                saved |-> last_saved' ])
      /\ DataFifo => /\ Place(n, k) > data_cursor
                     /\ data_cursor' = Place(n, k)
  BY <1>1, <1>2 DEF DeliverPacket
<1>4. /\ n \in Nat /\ n < frame_no /\ Len(wire) = frame_no
      /\ frame_no \in Nat /\ next_frame_no \in Nat
      /\ last_saved \in Nat \cup {-1} /\ last_saved < next_frame_no
      /\ acks \in Seq(AckPacket)
  BY DEF CallInv, DecodersInv, TypeOK, SenderTypeOK, ReceiverTypeOK, Numbered
<1>5. next_frame_no' \in Nat
  BY DeliverPacketType DEF TypeOK, ReceiverTypeOK
<1>6. /\ last_saved' \in -1 .. frame_no - 1
      /\ last_saved' < next_frame_no'
      /\ last_saved <= last_saved'
  BY <1>2, <1>4, <1>5
<1>7. /\ complete_states' = << >> <=> last_saved' = -1
      /\ complete_states' # << >> =>
           Last(complete_states') = wire[last_saved' + 1].target_state
  <2>1. CASE UNCHANGED << complete_states, last_saved >>
    BY <2>1 DEF CallInv, DecodersInv, ReportOf
  <2>2. CASE ~ UNCHANGED << complete_states, last_saved >>
    BY <1>2, <1>4, <2>2
  <2> QED BY <2>1, <2>2
<1>8. DecodersInv'
  BY <1>2, <1>3, <1>6, <1>7 DEF DecodersInv, ReportOf, senderVars
<1> DEFINE ack == [ frame_no |-> n, fragment_no |-> k,
                    current_state |-> current_state',
                    complete_states |-> complete_states',
                    saved |-> last_saved' ]
<1>9. /\ Len(acks') = Len(acks) + 1
      /\ acks'[Len(acks) + 1] = ack
      /\ \A i \in 1 .. Len(acks) : acks'[i] = acks[i]
  BY <1>3, <1>4
<1>10. \A i \in 1 .. Len(acks) : acks[i].saved \in Int
                                 /\ acks[i].saved <= last_saved'
  <2>1. ASSUME NEW i \in 1 .. Len(acks)
        PROVE  acks[i].saved \in Int /\ acks[i].saved <= last_saved'
    <3>1. AckInv(acks[i]) /\ acks[i] \in AckPacket
      BY <1>4 DEF CallInv, AcksInv
    <3>2. acks[i].saved \in Int /\ acks[i].saved <= last_saved
      BY <3>1 DEF AckInv, AckPacket
    <3> QED BY <1>4, <1>6, <3>2
  <2> QED BY <2>1
<1>11. ASSUME NEW i \in 1 .. Len(acks') PROVE AckInv(acks[i])'
  <2>1. CASE i = Len(acks) + 1
    <3>1. /\ ack.current_state = current_state'
          /\ ack.complete_states = complete_states'
          /\ ack.saved = last_saved'
      OBVIOUS
    <3> HIDE DEF ack
    <3> QED BY <1>2, <1>3, <1>6, <1>7, <1>9, <2>1, <3>1
            DEF AckInv, ReportOf, senderVars
  <2>2. CASE i \in 1 .. Len(acks)
    <3>1. AckInv(acks[i]) /\ acks'[i] = acks[i]
      BY <1>9, <2>2 DEF CallInv, AcksInv
    <3>2. acks[i].saved <= last_saved'
      BY <1>10, <2>2
    <3> QED BY <1>3, <3>1, <3>2 DEF AckInv, ReportOf, senderVars
  <2> QED BY <1>4, <1>9, <2>1, <2>2
<1>12. AcksInv'
  <2>1. ack_cursor' <= Len(acks')
    BY <1>3, <1>4, <1>9 DEF CallInv, AcksInv, TypeOK
  <2>2. ASSUME NEW i \in 1 .. Len(acks'), NEW j \in 1 .. Len(acks'), i <= j
        PROVE  acks'[i].saved <= acks'[j].saved
    <3>1. CASE j = Len(acks) + 1
      <4>1. acks'[j].saved = last_saved'
        BY <1>9, <3>1
      <4>2. i = j \/ i \in 1 .. Len(acks)
        BY <1>4, <1>9, <2>2, <3>1
      <4> QED BY <1>6, <1>9, <1>10, <4>1, <4>2
    <3>2. CASE j \in 1 .. Len(acks)
      <4>1. i \in 1 .. Len(acks)
        BY <1>4, <2>2, <3>2
      <4> QED BY <1>9, <2>2, <3>2, <4>1 DEF CallInv, AcksInv
    <3> QED BY <1>4, <1>9, <3>1, <3>2
  <2> QED BY <1>11, <2>1, <2>2 DEF AcksInv
<1>13. ViewInv' /\ PlacesInv'
  <2>1. \A i \in 1 .. Len(acks) : AckSeqNo(acks[i])' = AckSeqNo(acks[i])
    BY <1>3, <1>9 DEF AckSeqNo, SentBefore, senderVars
  <2>2. \A i \in 1 .. Len(acks) : i \in 1 .. Len(acks')
    BY <1>4, <1>9
  <2>3. ViewInv'
    <3>1. ASSUME NEW i \in 1 .. Len(acks), ViewOf(i) PROVE ViewOf(i)'
      <4>1. acks'[i] = acks[i] /\ AckSeqNo(acks[i])' = AckSeqNo(acks[i])
        BY <1>9, <2>1
      <4> QED BY <1>3, <3>1, <4>1 DEF ViewOf, Dropped, senderVars
    <3> QED BY <1>3, <2>2, <3>1 DEF CallInv, ViewInv, Dropped, senderVars
  <2>4. ASSUME NEW i \in 1 .. Len(acks'), i = Len(acks) + 1
        PROVE  AckSeqNo(acks[i])' = Place(n, k) - 1
    <3>1. acks'[i].frame_no = n /\ acks'[i].fragment_no = k
      BY <1>9, <2>4
    <3>2. SentBefore(n) \in Nat /\ SentBefore(n)' = SentBefore(n)
      BY <1>3, <1>4, SentBeforeType DEF SentBefore, senderVars
    <3>3. k \in Int
      OBVIOUS
    <3>4. Place(n, k) - 1 = SentBefore(n) + k
      BY <3>2, <3>3 DEF Place
    <3> QED BY <3>1, <3>2, <3>4 DEF AckSeqNo
  <2>5. ASSUME DataFifo PROVE PlacesInv'
    <3>1. /\ Place(n, k) > data_cursor /\ data_cursor' = Place(n, k)
          /\ Place(n, k) \in Int /\ data_cursor \in Int
      <4>1. SentBefore(n) \in Nat
        BY <1>4, SentBeforeType
      <4> QED BY <1>3, <2>5, <4>1 DEF Place, TypeOK
    <3>2. \A i \in 1 .. Len(acks) : /\ AckSeqNo(acks[i]) \in Nat
                                    /\ AckSeqNo(acks[i]) < data_cursor
      BY <2>5, AckSeqNoType DEF CallInv, PlacesInv
    <3>3. \A i \in 1 .. Len(acks') : i \in 1 .. Len(acks) \/ i = Len(acks) + 1
      BY <1>4, <1>9
    <3>4. ASSUME NEW i \in 1 .. Len(acks') PROVE AckSeqNo(acks[i])' < data_cursor'
      <4>1. CASE i \in 1 .. Len(acks)
        <5>1. AckSeqNo(acks[i])' = AckSeqNo(acks[i])
          BY <2>1, <4>1
        <5> QED BY <3>1, <3>2, <4>1, <5>1
      <4>2. CASE i = Len(acks) + 1
        <5>1. AckSeqNo(acks[i])' = Place(n, k) - 1
          BY <2>4, <4>2
        <5> QED BY <3>1, <5>1
      <4> QED BY <3>3, <4>1, <4>2
    <3>5. ASSUME NEW i \in 1 .. Len(acks'), NEW j \in 1 .. Len(acks'), i < j
          PROVE  AckSeqNo(acks[i])' < AckSeqNo(acks[j])'
      <4>1. i \in 1 .. Len(acks)
        BY <1>4, <1>9, <3>5
      <4>2. AckSeqNo(acks[i])' = AckSeqNo(acks[i])
        BY <2>1, <4>1
      <4>3. CASE j \in 1 .. Len(acks)
        <5>1. AckSeqNo(acks[j])' = AckSeqNo(acks[j])
          BY <2>1, <4>3
        <5> QED BY <2>5, <3>5, <4>1, <4>2, <4>3, <5>1 DEF CallInv, PlacesInv
      <4>4. CASE j = Len(acks) + 1
        <5>1. AckSeqNo(acks[j])' = Place(n, k) - 1
          BY <2>4, <4>4
        <5> QED BY <3>1, <3>2, <4>1, <4>2, <5>1
      <4> QED BY <3>3, <4>3, <4>4
    <3> QED BY <3>4, <3>5 DEF PlacesInv
  <2>6. ~ DataFifo => PlacesInv'
    BY DEF PlacesInv
  <2> QED BY <2>3, <2>5, <2>6
<1>14. EncodersInv' /\ WireInv' /\ sender_up'
  BY <1>3 DEF CallInv, EncodersInv, WireInv, Dropped, senderVars
<1> QED BY <1>2, <1>8, <1>12, <1>13, <1>14 DEF CallInv

LEMMA CallInvInit ==
  ASSUME Init, SafeCall
  PROVE  CallInv
<1>1. /\ sender_up /\ receiver_up
      /\ frame_no = 0 /\ wire = << >> /\ acks = << >> /\ ack_cursor = 0
      /\ encoders = {InitialState} /\ encoder_states = << >>
      /\ acked_state = None /\ assumed_state = None /\ encode_job = None
      /\ receiver_complete = << >>
  BY DEF Init, SenderInit, ReceiverInit
<1>2. /\ current_state = InitialState /\ complete_states = << >>
      /\ decoders = {InitialState} /\ last_saved = -1 /\ next_frame_no = 0
  BY DEF Init, ReceiverInit
<1>3. Dropped = 0
  <2>1. Len(encoder_states) = 0
    BY <1>1
  <2>2. frame_no = 0
    BY <1>1
  <2> QED BY <2>1, <2>2 DEF Dropped
<1>4. WireInv /\ EncodersInv
  BY <1>1, <1>3 DEF WireInv, EncodersInv, ToSet
<1>5. DecodersInv
  BY <1>1, <1>2 DEF DecodersInv, ReportOf, Newest
<1>6. AcksInv
  BY <1>1 DEF AcksInv
<1>7. ViewInv /\ PlacesInv
  BY <1>1, <1>3 DEF ViewInv, PlacesInv
<1> QED BY <1>1, <1>4, <1>5, <1>6, <1>7 DEF CallInv

(* The parts of CallInv are an invariant of every call in which the          *)
(* datagrams or the acknowledgments arrive in order, if no truncated frame   *)
(* decodes exactly and no damaged state has the hash of a state of the call. *)
THEOREM CallCorrect ==
  ASSUME SafeCall
  PROVE  Spec => []CallInv
<1>1. Init => CallInv
  BY CallInvInit
<1>2. TypeOK /\ StorageInv /\ CallInv /\ [Next]_vars => CallInv'
  BY StartEncodeSafe, SendFrameSafe, DeliverPacketSafe, DeliverAckSafe,
     OthersSafe
  DEF Next, Inv
<1> QED BY <1>1, <1>2, TypeCorrect, StorageCorrect, PTL DEF Spec

(* In such a call encoders.at always finds the selected encoder: the sender  *)
(* never ends in an exception.                                               *)
THEOREM SenderRuns ==
  ASSUME SafeCall
  PROVE  Spec => []SenderNeverThrows
<1>1. CallInv => SenderNeverThrows
  BY DEF CallInv, SenderNeverThrows
<1> QED BY <1>1, CallCorrect, PTL

(* In such a call the receiver's assertion holds and no datagram contradicts *)
(* the frame it belongs to.                                                  *)
THEOREM ReceiverRuns ==
  ASSUME SafeCall
  PROVE  Spec => []ReceiverNeverAborts
<1>1. CallInv => ReceiverNeverAborts
  BY DEF CallInv, ReceiverNeverAborts
<1> QED BY <1>1, CallCorrect, PTL

(* In such a call the map of encoders holds exactly the initial state and    *)
(* the states of the deque, also when a hash occurs twice.                   *)
THEOREM EncodersMatch ==
  ASSUME SafeCall
  PROVE  Spec => []EncodersMatchStates
<1>1. TypeOK /\ CallInv => EncodersMatchStates
  <2>1. ASSUME TypeOK, encoder_states # << >>
        PROVE  Last(encoder_states) \in ToSet(encoder_states)
    BY <2>1, Elements DEF TypeOK, SenderTypeOK, Last
  <2> QED BY <2>1 DEF CallInv, EncodersInv, EncodersMatchStates
<1> QED BY <1>1, CallCorrect, TypeCorrect, PTL

(* Between two datagrams the receiver stores only the frame it waits for.    *)
THEOREM OneFrameStored == Spec => []OnlyNextFrameStored
<1>1. StorageInv => OnlyNextFrameStored
  BY DEF StorageInv
<1> QED BY <1>1, StorageCorrect, PTL

(* The newest complete state can be loaded.                                  *)
THEOREM NewestStored == Spec => []NewestCompleteIsStored
<1>1. StorageInv => NewestCompleteIsStored
  BY DEF StorageInv
<1> QED BY <1>1, StorageCorrect, PTL
-----------------------------------------------------------------------------
(***************************************************************************)
(* What the sender knows only moves forward.                               *)
(***************************************************************************)

(* Frames end in states of their own; a hash that comes back would make two  *)
(* frames the newest of one state.                                           *)
NoStateTwice ==
  \A m, n \in FrameNos : m # n => Targets[m] \cap Targets[n] = {}

TargetsOnWire ==
  \A n \in 1 .. Len(wire) : wire[n].target_state \in Targets[n - 1]

LEMMA TargetsKnown == Spec => []TargetsOnWire
<1>1. Init => TargetsOnWire
  BY DEF Init, TargetsOnWire
<1>2. ASSUME TypeOK, TargetsOnWire, [Next]_vars PROVE TargetsOnWire'
  <2>1. CASE SendFrameStep
    <3>1. PICK target \in Targets[frame_no], count \in FragmentCounts[frame_no] :
            wire' = Append(wire, [ source_state |-> encode_job,
                                   target_state |-> target, count |-> count ])
      BY <2>1 DEF SendFrameStep
    <3> DEFINE header == [ source_state |-> encode_job,
                           target_state |-> target, count |-> count ]
    <3>2. /\ Len(wire') = Len(wire) + 1
          /\ wire'[Len(wire) + 1] = header
          /\ \A i \in 1 .. Len(wire) : wire'[i] = wire[i]
      BY <3>1 DEF TypeOK
    <3>3. Len(wire) = frame_no /\ Len(wire) \in Nat
      BY <1>2 DEF TypeOK, Numbered
    <3>4. ASSUME NEW n \in 1 .. Len(wire') PROVE wire'[n].target_state \in Targets[n - 1]
      <4>1. CASE n = Len(wire) + 1
        BY <3>2, <3>3, <4>1
      <4>2. CASE n \in 1 .. Len(wire)
        BY <1>2, <3>2, <4>2 DEF TargetsOnWire
      <4> QED BY <3>2, <3>3, <4>1, <4>2
    <3> QED BY <3>4 DEF TargetsOnWire
  <2>2. CASE ~ SendFrameStep
    <3>1. UNCHANGED wire
      BY <1>2, <2>2 DEF Next, StartEncodeStep, ConservativeExpiresStep,
                        SkipFrameStep, DeliverPacketStep, DeliverPacket,
                        DeliverAckStep, DeliverAck, pathVars, vars
    <3> QED BY <1>2, <3>1 DEF TargetsOnWire
  <2> QED BY <2>1, <2>2
<1> QED BY <1>1, <1>2, TypeCorrect, PTL DEF Spec

(* With distinct states every state on the wire has exactly one frame.       *)
LEMMA NewestFrameOf ==
  ASSUME TypeOK, TargetsOnWire, NoStateTwice, NEW n \in 1 .. Len(wire)
  PROVE  NewestFrame(wire[n].target_state) = n
<1>1. Len(wire) = frame_no /\ frame_no \in 0 .. MaxFrames /\ Len(wire) \in Nat
  BY DEF TypeOK, Numbered, SenderTypeOK
<1>2. ASSUME NEW m \in 1 .. Len(wire), m # n
      PROVE  wire[m].target_state # wire[n].target_state
  <2>1. m - 1 \in FrameNos /\ n - 1 \in FrameNos /\ m - 1 # n - 1
    BY <1>1, <1>2, EncodingAssumption DEF FrameNos
  <2>2. /\ wire[m].target_state \in Targets[m - 1]
        /\ wire[n].target_state \in Targets[n - 1]
    BY DEF TargetsOnWire
  <2> QED BY <2>1, <2>2 DEF NoStateTwice
<1>3. \A later \in n + 1 .. Len(wire) : later \in 1 .. Len(wire) /\ later # n
  BY <1>1
<1> QED BY <1>2, <1>3 DEF NewestFrame

LEMMA KnowledgeStep ==
  ASSUME Inv, SafeCall, NoStateTwice, TargetsOnWire, Next,
         receiver_complete # << >>, receiver_complete' # receiver_complete
  PROVE  /\ receiver_complete' # << >>
         /\ NewestFrame(Last(receiver_complete'))
              >= NewestFrame(Last(receiver_complete))
<1> USE DEF Inv
<1>1. DeliverAckStep
  BY DEF Next, StartEncodeStep, StartEncode, ConservativeExpiresStep,
         ConservativeExpires, SkipFrameStep, SkipFrame, SendFrameStep,
         SendFrame, DeliverPacketStep, DeliverPacket, senderVars
<1>2. PICK i \in 1 .. Len(acks) : DeliverAck(i)
  BY <1>1 DEF DeliverAckStep, TypeOK
<1>3. receiver_complete' = acks[i].complete_states
  BY <1>2 DEF DeliverAck, HandleAck
<1>4. PICK j \in 1 .. Len(acks) : ViewOf(j)
  BY DEF CallInv, ViewInv
<1>5. acks[j].saved <= acks[i].saved
  BY <1>2, <1>4, AcksInOrder
<1>6. /\ ReportOf(acks[i].complete_states, acks[i].saved)
      /\ ReportOf(acks[j].complete_states, acks[j].saved)
  BY DEF CallInv, AcksInv, AckInv
<1>7. receiver_complete = acks[j].complete_states
  BY <1>4 DEF ViewOf
<1> DEFINE new == acks[i].saved
           old == acks[j].saved
<1>8. frame_no \in Nat /\ Len(wire) = frame_no
  BY DEF TypeOK, SenderTypeOK, Numbered
<1>9. new \in -1 .. frame_no - 1 /\ old \in -1 .. frame_no - 1
  BY <1>6 DEF ReportOf
<1>10. old # -1
  BY <1>6, <1>7 DEF ReportOf
<1>11. new # -1 /\ new >= old /\ new + 1 \in 1 .. Len(wire)
       /\ old + 1 \in 1 .. Len(wire)
  BY <1>5, <1>8, <1>9, <1>10
<1>12. receiver_complete' # << >>
  BY <1>3, <1>6, <1>11 DEF ReportOf
<1>13. /\ Last(receiver_complete') = wire[new + 1].target_state
       /\ Last(receiver_complete) = wire[old + 1].target_state
  BY <1>3, <1>6, <1>7, <1>12 DEF ReportOf
<1>14. wire' = wire
  BY <1>2 DEF DeliverAck
<1>15. /\ NewestFrame(wire[new + 1].target_state) = new + 1
       /\ NewestFrame(wire[old + 1].target_state) = old + 1
  BY <1>11, NewestFrameOf
<1> QED BY <1>9, <1>11, <1>12, <1>13, <1>15

(* When one of the paths keeps the order and no two frames end in the same   *)
(* state, the sender never falls back to an older state: the newest state it *)
(* knows the receiver to keep belongs to a frame at least as late as before, *)
(* whichever datagrams and acknowledgments are lost or come twice            *)
(* (the comparison of ack_seq_no in the handler of acknowledgments).         *)
THEOREM KnowledgeAdvances ==
  ASSUME SafeCall, NoStateTwice
  PROVE  Spec => KnowledgeNeverRegresses
<1>1. /\ TypeOK /\ StorageInv /\ CallInv /\ TargetsOnWire /\ [Next]_vars
      => [receiver_complete # << >> =>
            /\ receiver_complete' # << >>
            /\ NewestFrame(Last(receiver_complete'))
                 >= NewestFrame(Last(receiver_complete))]_receiver_complete
  BY KnowledgeStep DEF Inv, vars, senderVars
<1> QED BY <1>1, CallCorrect, TypeCorrect, StorageCorrect, TargetsKnown, PTL
        DEF Spec, KnowledgeNeverRegresses

-----------------------------------------------------------------------------
(* The call implements ExactPlayback.                                        *)

(* The decoder of the initial state is always there, and that state is never *)
(* among those a source can trim.                                            *)
InitialKept ==
  InitialState \in decoders /\ InitialState \notin ToSet(complete_states)

(* The history of frames as ExactPlayback sees it.                           *)
shown == [ n \in DOMAIN wire |-> [ source |-> wire[n].source_state,
                                   target |-> wire[n].target_state ] ]

LEMMA ShownFacts ==
  ASSUME TypeOK
  PROVE  /\ DOMAIN shown = 1 .. Len(wire) /\ Len(shown) = Len(wire)
         /\ shown \in Seq([ source : Hash, target : Hash ])
         /\ \A n \in 1 .. Len(wire) :
              /\ shown[n].source = wire[n].source_state
              /\ shown[n].target = wire[n].target_state
<1>1. wire \in Seq(FrameHeader) /\ DOMAIN wire = 1 .. Len(wire)
  BY DEF TypeOK
<1>2. ASSUME NEW n \in 1 .. Len(wire)
      PROVE  /\ wire[n].source_state \in Hash
             /\ wire[n].target_state \in Hash
  <2>1. wire[n] \in FrameHeader
    BY <1>1
  <2> QED BY <2>1 DEF FrameHeader
<1>3. shown \in [ 1 .. Len(wire) -> [ source : Hash, target : Hash ] ]
  BY <1>1, <1>2 DEF shown
<1>4. shown \in Seq([ source : Hash, target : Hash ]) /\ Len(shown) = Len(wire)
  <2> DEFINE X == [ source : Hash, target : Hash ]
  <2> HIDE DEF X
  <2>1. Len(wire) \in Nat
    BY <1>1
  <2>2. shown \in [ 1 .. Len(wire) -> X ]
    BY <1>3 DEF X
  <2>3. shown \in Seq(X)
    BY <2>1, <2>2, SeqDef
  <2>4. Len(shown) = Len(wire)
    BY <2>1, <2>2, <2>3, LenProperties
  <2> QED BY <2>3, <2>4 DEF X
<1> QED BY <1>1, <1>3, <1>4 DEF shown

LEMMA InitialKeptInit == Init => InitialKept
  BY DEF Init, ReceiverInit, InitialKept, ToSet

(* What decoding frame n does: exact if its source is kept, damaged if not.  *)
LEMMA DecodeShows ==
  ASSUME Inv, SafeCall, InitialKept, NEW n \in 0 .. Len(wire) - 1,
         NEW f, f.source_state = wire[n + 1].source_state,
         f.target_state = wire[n + 1].target_state,
         NEW state \in Corrupt \cup {current_state},
         NEW k \in 1 .. Len(complete_states) + 1,
         Decode(f, n, state, k),
         ~ Trims(f, state) => k = 1
  PROVE  /\ InitialKept'
         /\ \/ /\ f.source_state \in decoders
               /\ current_state' = f.target_state
               /\ f.target_state \in decoders'
               /\ decoders' \subseteq decoders \cup {f.target_state}
            \/ /\ f.source_state \notin decoders
               /\ current_state' \in Corrupt
               /\ UNCHANGED decoders
<1> USE DEF Inv
<1> DEFINE kept == SubSeq(complete_states, k, Len(complete_states))
           older == { complete_states[i] : i \in 1 .. k - 1 }
<1>1. /\ complete_states \in Seq(Hash) /\ n + 1 \in 1 .. Len(wire)
      /\ wire[n + 1] \in FrameHeader
  BY DEF TypeOK, ReceiverTypeOK
<1>2. /\ f.target_state \in Hash /\ f.target_state # InitialState
      /\ f.target_state \notin Corrupt /\ f.source_state \notin Corrupt
  BY <1>1 DEF StorageInv, FrameHeader, CallInv, WireInv
<1>3. PICK result \in AfterFrame(f, Loaded(f, state)) :
        /\ current_state' = result
        /\ IF result = f.target_state /\ result # InitialState
           THEN /\ decoders' = (decoders \ older) \cup {result}
                /\ complete_states' = Append(kept, result)
           ELSE /\ decoders' = decoders \ older
                /\ complete_states' = kept
  BY DEF Decode
<1>4. /\ kept \in Seq(Hash)
      /\ ToSet(kept) = { complete_states[i] : i \in k .. Len(complete_states) }
  BY <1>1, Suffix, SuffixSet
<1>5. ToSet(complete_states) = { complete_states[i] :
                                   i \in 1 .. Len(complete_states) }
  BY <1>1, Elements
<1>6. InitialState \notin older /\ InitialState \notin ToSet(kept)
  BY <1>4, <1>5 DEF InitialKept
<1>7. InitialKept'
  <2> HIDE DEF kept, older
  <2>1. CASE result = f.target_state
    <3>1. /\ decoders' = (decoders \ older) \cup {result}
          /\ complete_states' = Append(kept, result)
      BY <1>2, <1>3, <2>1
    <3>2. ToSet(complete_states') = ToSet(kept) \cup {result}
      BY <1>2, <1>4, <2>1, <3>1, AppendSet
    <3> QED BY <1>2, <1>6, <2>1, <3>1, <3>2 DEF InitialKept
  <2>2. CASE result # f.target_state
    BY <1>3, <1>6, <2>2 DEF InitialKept
  <2> QED BY <2>1, <2>2
<1>8. CASE f.source_state \in decoders
  <2>1. result = f.target_state
    BY <1>3, <1>8 DEF Loaded, AfterFrame
  <2> HIDE DEF kept, older
  <2>2. decoders' = (decoders \ older) \cup {result}
    BY <1>2, <1>3, <2>1
  <2> QED BY <1>3, <1>8, <1>7, <2>1, <2>2
<1>9. CASE f.source_state \notin decoders
  <2>1. f.source_state # InitialState
    BY <1>9 DEF InitialKept
  <2>2. state # f.source_state
    <3>1. f.source_state # current_state
      BY <1>2, <1>9, <2>1
      DEF CallInv, DecodersInv, StorageInv, NewestCompleteIsStored, Newest
    <3> QED BY <1>2, <3>1
  <2>3. result \in Corrupt /\ ~ Trims(f, state)
    BY <1>3, <1>9, <2>1, <2>2 DEF Loaded, AfterFrame, IsKeyFrame, Trims
  <2>4. older = {}
    BY <2>3
  <2>5. decoders' = decoders
    BY <1>2, <1>3, <2>3, <2>4
  <2> QED BY <1>3, <1>7, <1>9, <2>3, <2>5
<1> QED BY <1>8, <1>9

(* A datagram shows its frame, gives frames up, or only adds to a frame.     *)
LEMMA DeliverPacketShows ==
  ASSUME Inv, SafeCall, InitialKept, DeliverPacketStep
  PROVE  /\ InitialKept'
         /\ \/ Playback!Show
            \/ Playback!Abandon
            \/ UNCHANGED << wire, next_frame_no, current_state, decoders >>
<1> USE DEF Inv
<1>0. PICK n \in 0 .. Len(wire) - 1 :
        \E k \in 0 .. wire[n + 1].count - 1 : DeliverPacket(n, k)
  BY DEF DeliverPacketStep
<1>1. PICK k \in 0 .. wire[n + 1].count - 1 : DeliverPacket(n, k)
  BY <1>0
<1> DEFINE p == Packet(n, k)
           f == WithPacket(p)
<1>2. /\ f.source_state = wire[n + 1].source_state
      /\ f.target_state = wire[n + 1].target_state
      /\ p.frame_no = n
  BY PacketFits, PacketType DEF StorageInv
<1>3. /\ n >= next_frame_no /\ wire' = wire
      /\ \E state \in AfterAbandoned(n) :
           \/ StorePacket(p, f, state)
           \/ ApplyFrame(p, f, state)
           \/ TrimAsserts(f, state) /\ Die
  BY <1>1, PacketCases DEF StorageInv, DeliverPacket
<1>4. /\ Len(wire) \in Nat /\ next_frame_no \in Nat
      /\ n \in 0 .. Len(wire) - 1 /\ n + 1 \in 1 .. Len(wire)
  BY DEF TypeOK, ReceiverTypeOK
<1>5. /\ Len(shown) = Len(wire)
      /\ shown[n + 1].source = f.source_state
      /\ shown[n + 1].target = f.target_state
  BY <1>2, <1>4, ShownFacts
<1>6. shown' = shown
  BY <1>3 DEF shown
<1> HIDE DEF p, f
<1>7. PICK state \in AfterAbandoned(n) :
           \/ StorePacket(p, f, state)
           \/ ApplyFrame(p, f, state)
           \/ TrimAsserts(f, state) /\ Die
  BY <1>3
<1>8. state \in Corrupt \cup {current_state}
  BY AbandonedState
<1>9. ~ TrimAsserts(f, state)
  BY <1>2, <1>8, SourceIsComplete DEF TrimAsserts
<1>10. CASE StorePacket(p, f, state)
  <2>1. /\ next_frame_no' = n /\ current_state' = state
        /\ UNCHANGED << decoders, complete_states >>
    BY <1>2, <1>10 DEF StorePacket
  <2>2. CASE n = next_frame_no
    <3>1. Abandoned(n) = {}
      BY <1>4, <2>2 DEF Abandoned, TypeOK, ReceiverTypeOK
    <3>2. state = current_state
      BY <1>7, <3>1 DEF AfterAbandoned
    <3> QED BY <1>3, <2>1, <2>2, <3>2 DEF InitialKept
  <2>3. CASE n # next_frame_no
    <3>1. n \in next_frame_no + 1 .. Len(shown) - 1
      BY <1>3, <1>4, <1>5, <2>3
    <3>2. Playback!Abandon
      BY <1>6, <1>8, <2>1, <3>1 DEF Playback!Abandon, shown
    <3> QED BY <2>1, <3>2 DEF InitialKept
  <2> QED BY <2>2, <2>3
<1>11. CASE ApplyFrame(p, f, state)
  <2>1. PICK j \in 1 .. Len(complete_states) + 1 :
          Decode(f, n, state, j) /\ (~ Trims(f, state) => j = 1)
    BY <1>2, <1>11 DEF ApplyFrame, TypeOK, ReceiverTypeOK
  <2>2. /\ InitialKept'
        /\ \/ /\ f.source_state \in decoders
              /\ current_state' = f.target_state
              /\ f.target_state \in decoders'
              /\ decoders' \subseteq decoders \cup {f.target_state}
           \/ /\ f.source_state \notin decoders
              /\ current_state' \in Corrupt
              /\ UNCHANGED decoders
    BY <1>2, <1>8, <2>1, DecodeShows
  <2>3. next_frame_no' = n + 1
    BY <1>2, <1>11 DEF ApplyFrame
  <2>4. n \in next_frame_no .. Len(shown) - 1
    BY <1>3, <1>4, <1>5
  <2>5. Playback!ShowExactly(n) \/ Playback!ShowDamaged(n)
    BY <1>5, <2>2 DEF Playback!ShowExactly, Playback!ShowDamaged, shown
  <2>6. Playback!Show
    BY <1>6, <2>3, <2>4, <2>5 DEF Playback!Show, shown
  <2> QED BY <2>2, <2>6
<1> QED BY <1>7, <1>9, <1>10, <1>11

(* A frame sent starts from the initial state or an earlier frame's target.  *)
LEMMA SendFrameEncodes ==
  ASSUME Inv, SendFrameStep
  PROVE  Playback!Encode
<1> USE DEF Inv
<1>1. PICK target \in Targets[frame_no], count \in FragmentCounts[frame_no] :
        /\ SendFrame(target, count)
        /\ wire' = Append(wire, [ source_state |-> encode_job,
                                  target_state |-> target,
                                  count |-> count ])
  BY DEF SendFrameStep
<1> DEFINE X == [ source : Hash, target : Hash ]
           last == [ source |-> encode_job, target |-> target ]
<1>2. /\ wire \in Seq(FrameHeader) /\ Len(wire) = frame_no
      /\ frame_no \in Nat /\ encoder_states \in Seq(Hash)
      /\ target \in Hash /\ encode_job \in Hash
      /\ encode_job \in encoders /\ count \in Nat \ {0}
  BY <1>1, EncodingAssumption
  DEF TypeOK, SenderTypeOK, Numbered, SendFrame, SendFrameStep, CallInv,
      EncodersInv
<1>3. /\ Len(wire') = Len(wire) + 1
      /\ DOMAIN wire' = 1 .. Len(wire) + 1
      /\ \A n \in 1 .. Len(wire) : wire'[n] = wire[n]
      /\ wire'[Len(wire) + 1].source_state = encode_job
      /\ wire'[Len(wire) + 1].target_state = target
  BY <1>1, <1>2
<1>4. last \in X
  BY <1>2
<1>5. shown \in Seq(X) /\ Len(shown) = Len(wire) /\ DOMAIN shown = 1 .. Len(wire)
  BY ShownFacts
<1>6. shown' = Append(shown, last)
  <2> HIDE DEF X, last
  <2> DEFINE longer == Append(shown, last)
  <2>1. /\ longer \in Seq(X) /\ Len(longer) = Len(wire) + 1
        /\ \A n \in 1 .. Len(wire) : longer[n] = shown[n]
        /\ longer[Len(wire) + 1] = last
    BY <1>4, <1>5, AppendProperties
  <2>2. longer = [ n \in 1 .. Len(wire) + 1 |-> longer[n] ]
    <3> HIDE DEF longer
    <3>1. longer \in [ 1 .. Len(wire) + 1 -> X ]
      BY <2>1, LenProperties
    <3> QED BY <3>1
  <2> HIDE DEF longer
  <2>3. shown' = [ n \in 1 .. Len(wire) + 1 |->
                     [ source |-> wire'[n].source_state,
                       target |-> wire'[n].target_state ] ]
    BY <1>3 DEF shown
  <2>4. ASSUME NEW n \in 1 .. Len(wire) + 1
        PROVE  longer[n] = [ source |-> wire'[n].source_state,
                             target |-> wire'[n].target_state ]
    <3>1. CASE n = Len(wire) + 1
      BY <1>3, <2>1, <3>1 DEF last
    <3>2. CASE n # Len(wire) + 1
      <4>1. n \in 1 .. Len(wire) /\ n \in DOMAIN wire
        BY <1>2, <3>2
      <4> QED BY <1>3, <2>1, <4>1 DEF shown
    <3> QED BY <3>1, <3>2
  <2>5. shown' = longer
    BY <2>2, <2>3, <2>4
  <2> QED BY <2>5 DEF longer
<1>7. encode_job \in {InitialState} \cup { shown[i].target : i \in DOMAIN shown }
  <2>1. CASE encode_job = InitialState
    BY <2>1
  <2>2. CASE encode_job # InitialState
    <3>1. PICK i \in 1 .. Len(encoder_states) : encode_job = encoder_states[i]
      BY <1>2, <2>2, Elements DEF CallInv, EncodersInv
    <3>2. /\ encode_job = wire[Dropped + i].target_state
          /\ Dropped + i \in 1 .. Len(wire)
      BY <1>2, <3>1 DEF CallInv, EncodersInv, Dropped
    <3>3. encode_job = shown[Dropped + i].target
      BY <3>2, ShownFacts
    <3> QED BY <1>5, <3>2, <3>3
  <2> QED BY <2>1, <2>2
<1>8. UNCHANGED << next_frame_no, current_state, decoders >>
  BY DEF SendFrameStep, receiverVars
<1> HIDE DEF last
<1>9. \E s \in {InitialState} \cup { shown[i].target : i \in DOMAIN shown },
         t \in Hash : shown' = Append(shown, [ source |-> s, target |-> t ])
  BY <1>2, <1>6, <1>7 DEF last
<1> QED BY <1>8, <1>9 DEF Playback!Encode, Playback!Reachable, shown

LEMMA PlaybackInit == Init => Playback!Init
<1> SUFFICES ASSUME Init PROVE Playback!Init
  OBVIOUS
<1>1. shown = << >>
  BY DEF Init, shown
<1> QED BY <1>1 DEF Init, ReceiverInit, Playback!Init, shown

LEMMA PlaybackStep ==
  ASSUME Inv, SafeCall, InitialKept, [Next]_vars
  PROVE  /\ InitialKept'
         /\ [Playback!Next]_<< shown, next_frame_no, current_state, decoders >>
<1>1. CASE DeliverPacketStep
  <2>1. UNCHANGED wire => shown' = shown
    BY DEF shown
  <2> QED BY <1>1, <2>1, DeliverPacketShows DEF Playback!Next
<1>2. CASE SendFrameStep
  BY <1>2, SendFrameEncodes
  DEF Playback!Next, SendFrameStep, receiverVars, InitialKept
<1>3. CASE StartEncodeStep \/ ConservativeExpiresStep \/ SkipFrameStep
           \/ DeliverAckStep \/ UNCHANGED vars
  <2>1. UNCHANGED << wire, receiverVars >>
    BY <1>3 DEF StartEncodeStep, ConservativeExpiresStep, SkipFrameStep,
                DeliverAckStep, DeliverAck, vars, pathVars
  <2> QED BY <2>1 DEF receiverVars, shown, InitialKept
<1> QED BY <1>1, <1>2, <1>3 DEF Next

(* In such a call the viewer gets what ExactPlayback promises: each frame at *)
(* most once and in order, exactly whenever the state it was encoded from is *)
(* kept, and no state is kept that was not reached exactly; the handlers of  *)
(* encode_start_pipe, encode_end_pipe and of datagrams implement it.         *)
THEOREM CallShowsWhatItPromises ==
  ASSUME SafeCall
  PROVE  Spec => ShowsWhatItPromises
<1>1. Init => Playback!Init /\ InitialKept
  BY PlaybackInit, InitialKeptInit
<1>2. TypeOK /\ StorageInv /\ CallInv /\ InitialKept /\ [Next]_vars
      => InitialKept' /\ [Playback!Next]_(Playback!stateVars)
  BY PlaybackStep DEF Inv, Playback!stateVars, shown
<1> QED BY <1>1, <1>2, TypeCorrect, StorageCorrect, CallCorrect, PTL
        DEF Spec, ShowsWhatItPromises, Playback!Spec
=============================================================================
