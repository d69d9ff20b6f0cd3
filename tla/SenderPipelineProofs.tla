------------------------ MODULE SenderPipelineProofs ------------------------
(***************************************************************************)
(* The pacing of the sender for calls of any length, encodings of any      *)
(* size and any delays reported.                                           *)
(***************************************************************************)
EXTENDS SenderPipeline, TLAPS

(* The values of avg_delay and last_acked come with the same acknowledgment, *)
(* the end handler finds every encoding finished and, where frames may be    *)
(* skipped, the job for bad quality last.                                    *)
Measured == avg_delay # Unknown => last_acked \in Nat
OutputsReady ==
  end_pipe > 0 => \A i \in DOMAIN encode_outputs : encode_outputs[i] # Running

JobNames ==
  operation_mode # "conventional" /\ encode_jobs # << >>
    => Last(encode_jobs) = "fail-small"
RoomLeft == threads + end_pipe > 0 => frame_no < MaxFrames

Inv ==
  /\ TypeOK /\ OneFrameAtATime /\ PacedEvenly /\ Measured /\ OutputsReady
  /\ JobNames /\ RoomLeft

-----------------------------------------------------------------------------
(* No encoding is empty.                                                     *)
LEMMA SizesPositive == \A size \in Sizes : size \in Nat /\ size > 0
<1>1. Sizes \subseteq Nat \ {0}
  BY PipelineAssumption, Zenon
<1> QED
  BY <1>1

(* Rounding up to whole datagrams does not leave a limit of whole ones.      *)
LEMMA FragmentsFit ==
  ASSUME NEW size \in Nat, NEW left \in Nat, size <= Payload * left
  PROVE  Fragments(size) \in Nat /\ Fragments(size) <= left
<1> DEFINE c == (size + Payload - 1) \div Payload
<1>1. Payload \in Nat \ {0}
  BY PipelineAssumption
<1>2. c \in Int /\ Payload * c <= size + Payload - 1
      /\ size + Payload - 1 < Payload * (c + 1)
  BY <1>1
<1> HIDE DEF c
<1>3. Payload * c < Payload * (left + 1)
  BY <1>1, <1>2
<1>4. c < left + 1
  BY <1>1, <1>2, <1>3
<1>5. 0 < Payload * (c + 1)
  BY <1>1, <1>2
<1>6. 0 < c + 1
  BY <1>1, <1>2, <1>5
<1> QED
  BY <1>2, <1>4, <1>6 DEF c, Fragments

LEMMA FragmentsNat ==
  ASSUME NEW size \in Nat
  PROVE  Fragments(size) \in Nat
<1>1. Payload \in Nat \ {0}
  BY PipelineAssumption
<1>2. size <= Payload * size
  BY <1>1
<1> QED
  BY <1>2, FragmentsFit

LEMMA GapInLimits ==
  ASSUME TypeOK
  PROVE  inter_send_delay \in MinGap .. MaxGap
<1>1. avg_delay \in Nat \cup {Unknown}
  BY PipelineAssumption DEF TypeOK
<1>2. avg_delay # Unknown => avg_delay \div 5 \in Nat
  BY <1>1
<1> QED
  BY <1>1, <1>2, PacerAssumption DEF inter_send_delay, Unknown

(* Products with a gap are monotone.                                         *)
LEMMA Gaps ==
  ASSUME NEW k \in Nat, NEW gap \in MinGap .. MaxGap
  PROVE  /\ k * MinGap <= k * gap /\ k * gap <= k * MaxGap
         /\ k * gap \in Nat /\ k * MinGap \in Nat /\ k * MaxGap \in Nat
BY PacerAssumption

-----------------------------------------------------------------------------
(* The pacer.                                                                *)
LEMMA PushedPaced ==
  ASSUME queue_ \in Seq(Int), PacedEvenly,
         NEW count \in Nat, NEW gap \in MinGap .. MaxGap,
         queue_' = Pushed(count, gap)
  PROVE  queue_' \in Seq(Int) /\ PacedEvenly'
<1> DEFINE n == Len(queue_)
           new == [ k \in 1 .. count |-> IF queue_ = << >> THEN (k - 1) * gap
                                         ELSE Last(queue_) + k * gap ]
<1>1. /\ MinGap \in Nat /\ MaxGap \in Nat /\ gap \in Nat
      /\ Millisecond \in Nat \ {0} /\ n \in Nat
  BY PacerAssumption
<1>2. queue_ # << >> => n > 0 /\ Last(queue_) = queue_[n] /\ queue_[n] \in Int
  BY DEF Last
<1>3. queue_ = << >> => n = 0
  OBVIOUS
<1>4. \A k \in 1 .. count : new[k] \in Int
  BY <1>1, <1>2
<1>5. new \in Seq(Int) /\ Len(new) = count
  BY <1>4
<1>6. /\ queue_' = queue_ \o new /\ queue_' \in Seq(Int)
      /\ Len(queue_') = n + count
      /\ \A i \in 1 .. n : queue_'[i] = queue_[i]
      /\ \A i \in n + 1 .. n + count : queue_'[i] = new[i - n]
  BY <1>5 DEF Pushed
<1> HIDE DEF new
<1>7. ASSUME NEW i \in n + 1 .. n + count
      PROVE  /\ queue_ = << >> => queue_'[i] = (i - n - 1) * gap
             /\ queue_ # << >> => queue_'[i] = queue_[n] + (i - n) * gap
  BY <1>1, <1>2, <1>6 DEF new
<1>8. ASSUME NEW i \in 1 .. n + count, NEW j \in 1 .. n + count, i < j
      PROVE  queue_'[j] - queue_'[i] \in (j - i) * MinGap .. (j - i) * MaxGap
  <2>1. CASE j <= n
    <3>1. i \in 1 .. n /\ j \in 1 .. n
      BY <1>1, <1>8, <2>1
    <3> QED
      BY <3>1, <1>6, <1>8 DEF PacedEvenly
  <2>2. CASE i > n
    <3>1. queue_'[j] - queue_'[i] = (j - i) * gap
      <4>1. i \in n + 1 .. n + count /\ j \in n + 1 .. n + count
        BY <1>1, <1>8, <2>2
      <4>2. CASE queue_ = << >>
        BY <4>1, <4>2, <1>1, <1>7
      <4>3. CASE queue_ # << >>
        BY <4>1, <4>3, <1>1, <1>2, <1>7
      <4> QED
        BY <4>2, <4>3
    <3>2. j - i \in Nat
      BY <1>1, <1>8
    <3>3. /\ (j - i) * MinGap <= (j - i) * gap /\ (j - i) * gap <= (j - i) * MaxGap
          /\ (j - i) * gap \in Nat
      BY <3>2, Gaps
    <3>4. (j - i) * MinGap \in Nat /\ (j - i) * MaxGap \in Nat
      BY <3>2, Gaps
    <3> QED
      BY <3>1, <3>3, <3>4
  <2>3. CASE i <= n /\ j > n
    <3>1. i \in 1 .. n /\ j \in n + 1 .. n + count /\ queue_ # << >>
      BY <1>1, <1>3, <1>8, <2>3
    <3>2. queue_'[j] = queue_[n] + (j - n) * gap /\ queue_'[i] = queue_[i]
      BY <3>1, <1>6, <1>7
    <3>3. /\ (j - n) * MinGap <= (j - n) * gap
          /\ (j - n) * gap <= (j - n) * MaxGap
          /\ (j - n) * gap \in Nat
      <4>1. j - n \in Nat
        BY <3>1, <1>1
      <4> QED
        BY <4>1, Gaps
    <3>4. /\ queue_[n] \in Int /\ queue_[i] \in Int
          /\ (n - i) * MinGap <= queue_[n] - queue_[i]
          /\ queue_[n] - queue_[i] <= (n - i) * MaxGap
      <4>1. CASE i = n
        BY <3>1, <4>1, <1>1, <1>2
      <4>2. CASE i < n
        <5>1. n \in 1 .. n /\ queue_[i] \in Int
          BY <3>1, <1>1, <1>2
        <5>2. queue_[n] - queue_[i] \in (n - i) * MinGap .. (n - i) * MaxGap
          BY <3>1, <4>2, <5>1 DEF PacedEvenly
        <5> QED
          BY <3>1, <5>1, <5>2, <1>1, <1>2
      <4> QED
        BY <3>1, <4>1, <4>2, <1>1
    <3>5. /\ (n - i) * MinGap + (j - n) * MinGap = (j - i) * MinGap
          /\ (n - i) * MaxGap + (j - n) * MaxGap = (j - i) * MaxGap
      BY <3>1, <1>1
    <3>6. /\ (n - i) * MinGap \in Int /\ (n - i) * MaxGap \in Int
          /\ (j - n) * MinGap \in Int /\ (j - n) * MaxGap \in Int
          /\ (j - i) * MinGap \in Int /\ (j - i) * MaxGap \in Int
      BY <3>1, <1>1
    <3> DEFINE d == queue_[n] - queue_[i]   g == (j - n) * gap
               lo1 == (n - i) * MinGap      hi1 == (n - i) * MaxGap
               lo2 == (j - n) * MinGap      hi2 == (j - n) * MaxGap
    <3>7. /\ d \in Int /\ g \in Int /\ lo1 \in Int /\ lo2 \in Int
          /\ hi1 \in Int /\ hi2 \in Int
          /\ lo1 <= d /\ d <= hi1 /\ lo2 <= g /\ g <= hi2
      <4>1. d \in Int
        BY <3>4
      <4>2. g \in Int
        BY <3>3
      <4>3. lo1 \in Int /\ lo2 \in Int /\ hi1 \in Int /\ hi2 \in Int
        BY <3>6
      <4>4. lo1 <= d /\ d <= hi1
        BY <3>4
      <4>5. lo2 <= g /\ g <= hi2
        BY <3>3
      <4> QED
        BY <4>1, <4>2, <4>3, <4>4, <4>5
    <3>8. queue_'[j] - queue_'[i] = d + g
      BY <3>2, <3>3, <3>4
    <3>9. (j - i) * MinGap = lo1 + lo2 /\ (j - i) * MaxGap = hi1 + hi2
      BY <3>5
    <3> HIDE DEF d, g, lo1, lo2, hi1, hi2
    <3>10. d + g \in lo1 + lo2 .. hi1 + hi2
      BY <3>7
    <3> QED
      BY <3>8, <3>9, <3>10
  <2> QED
    BY <1>1, <1>8, <2>1, <2>2, <2>3
<1>9. ASSUME NEW i \in 1 .. n + count
      PROVE  queue_'[i] <= Millisecond - 1 + i * MaxGap
  <2>1. CASE i <= n
    <3>1. i \in 1 .. n
      BY <1>1, <2>1
    <3> QED
      BY <3>1, <1>6 DEF PacedEvenly
  <2>2. CASE i > n
    <3>1. i \in n + 1 .. n + count /\ i - n \in Nat /\ i - n - 1 \in Nat
      BY <1>1, <2>2
    <3>2. CASE queue_ = << >>
      <4>1. queue_'[i] = (i - 1) * gap /\ i - 1 \in Nat
        BY <3>1, <3>2, <1>1, <1>3, <1>7
      <4>2. (i - 1) * gap <= (i - 1) * MaxGap
        BY <4>1, Gaps
      <4>3. (i - 1) * MaxGap <= i * MaxGap
        BY <4>1, <1>1
      <4> QED
        BY <4>1, <4>2, <4>3, <1>1
    <3>3. CASE queue_ # << >>
      <4>1. queue_'[i] = queue_[n] + (i - n) * gap
        BY <3>1, <3>3, <1>7
      <4>2. (i - n) * gap <= (i - n) * MaxGap /\ (i - n) * gap \in Nat
        BY <3>1, Gaps
      <4>3. queue_[n] <= Millisecond - 1 + n * MaxGap /\ queue_[n] \in Int
        BY <3>3, <1>1, <1>2 DEF PacedEvenly
      <4>4. n * MaxGap + (i - n) * MaxGap = i * MaxGap
        BY <1>1
      <4> QED
        BY <4>1, <4>2, <4>3, <4>4, <1>1
    <3> QED
      BY <3>2, <3>3
  <2> QED
    BY <1>1, <2>1, <2>2
<1> QED
  BY <1>6, <1>8, <1>9 DEF PacedEvenly

LEMMA DuePaced ==
  ASSUME queue_ \in Seq(Int), PacedEvenly, SendDue
  PROVE  queue_' \in Seq(Int) /\ PacedEvenly'
<1> DEFINE n == Len(queue_)
<1>1. PICK k \in 1 .. n :
        /\ \A i \in 1 .. k : IsDue(queue_[i])
        /\ queue_' = SubSeq(queue_, k + 1, n)
  BY DEF SendDue
<1>2. /\ queue_' \in Seq(Int) /\ Len(queue_') = n - k /\ n \in Nat
      /\ \A i \in 1 .. n - k : queue_'[i] = queue_[k + i]
  BY <1>1
<1>3. queue_[k] <= Millisecond - 1 /\ queue_[k] \in Int
  BY <1>1, PacerAssumption DEF IsDue
<1>4. ASSUME NEW i \in 1 .. n - k, NEW j \in 1 .. n - k, i < j
      PROVE  queue_'[j] - queue_'[i] \in (j - i) * MinGap .. (j - i) * MaxGap
  <2>1. /\ k + i \in 1 .. n /\ k + j \in 1 .. n /\ k + i < k + j
        /\ (k + j) - (k + i) = j - i
    BY <1>1, <1>2, <1>4
  <2>2. queue_[k + j] - queue_[k + i]
          \in ((k + j) - (k + i)) * MinGap .. ((k + j) - (k + i)) * MaxGap
    BY <2>1 DEF PacedEvenly
  <2> QED
    BY <2>1, <2>2, <1>2
<1>5. ASSUME NEW i \in 1 .. n - k
      PROVE  queue_'[i] <= Millisecond - 1 + i * MaxGap
  <2>1. /\ k + i \in 1 .. n /\ k < k + i /\ (k + i) - k = i
        /\ queue_[k + i] \in Int
    BY <1>1, <1>2, <1>5
  <2>2. queue_[k + i] - queue_[k] \in ((k + i) - k) * MinGap .. ((k + i) - k) * MaxGap
    BY <1>1, <2>1 DEF PacedEvenly
  <2>3. queue_[k + i] - queue_[k] <= i * MaxGap /\ i * MaxGap \in Int
    BY <2>1, <2>2, <1>2, PacerAssumption
  <2>4. queue_[k + i] <= queue_[k] + i * MaxGap
    BY <2>1, <2>3, <1>3
  <2>5. queue_'[i] = queue_[k + i]
    BY <1>2
  <2> QED
    BY <2>1, <2>3, <2>4, <2>5, <1>3, PacerAssumption
<1> QED
  BY <1>2, <1>4, <1>5 DEF PacedEvenly

LEMMA TickPaced ==
  ASSUME queue_ \in Seq(Int), PacedEvenly, Tick
  PROVE  queue_' \in Seq(Int) /\ PacedEvenly'
<1>0. /\ Len(queue_) \in Nat /\ DOMAIN queue_ = 1 .. Len(queue_)
      /\ \A i \in 1 .. Len(queue_) : queue_[i] \in Int
  OBVIOUS
<1>1. /\ queue_' \in Seq(Int) /\ Len(queue_') = Len(queue_)
      /\ \A i \in 1 .. Len(queue_) : queue_'[i] = queue_[i] - 1 /\ queue_[i] \in Int
  <2>1. queue_' = [ i \in 1 .. Len(queue_) |-> queue_[i] - 1 ]
    BY <1>0 DEF Tick
  <2>2. queue_' \in [ 1 .. Len(queue_) -> Int ]
    BY <1>0, <2>1
  <2>3. queue_' \in Seq(Int) /\ Len(queue_') = Len(queue_)
    BY <1>0, <2>2
  <2> QED
    BY <1>0, <2>1, <2>3
<1>2. ASSUME NEW i \in 1 .. Len(queue_), NEW j \in 1 .. Len(queue_), i < j
      PROVE  queue_'[j] - queue_'[i] \in (j - i) * MinGap .. (j - i) * MaxGap
  <2>1. queue_'[j] - queue_'[i] = queue_[j] - queue_[i]
    BY <1>1
  <2> QED
    BY <2>1, <1>2 DEF PacedEvenly
<1>3. ASSUME NEW i \in 1 .. Len(queue_)
      PROVE  queue_'[i] <= Millisecond - 1 + i * MaxGap
  <2>1. queue_[i] <= Millisecond - 1 + i * MaxGap /\ i * MaxGap \in Int
    BY PacerAssumption DEF PacedEvenly
  <2> QED
    BY <2>1, <1>1, PacerAssumption
<1> QED
  BY <1>1, <1>2, <1>3 DEF PacedEvenly
-----------------------------------------------------------------------------
(* The threads' turns, the counters and the acknowledgments.                 *)
LEMMA LastSentNat ==
  ASSUME TypeOK
  PROVE  LastSent \in Nat
BY DEF TypeOK, LastSent, Last

LEMMA InitInv == Init => Inv
BY PacerAssumption, PipelineAssumption
   DEF Init, PacerInit, Inv, TypeOK, OneFrameAtATime, PacedEvenly, Measured,
       OutputsReady, JobNames, RoomLeft, OperationMode, Unknown

LEMMA StartEncodeInv ==
  ASSUME Inv, StartEncode
  PROVE  Inv'
<1> USE DEF Inv
<1>1. /\ up /\ start_pipe = 1 /\ threads = 0 /\ end_pipe = 0 /\ encode_jobs = << >>
      /\ start_pipe' = 0
  BY DEF StartEncode, TypeOK, OneFrameAtATime
<1>2. CASE UpdateQuality
  <2> JobNames' /\ RoomLeft'
    BY <1>1, <1>2 DEF StartEncode, UpdateQuality, JobNames, RoomLeft, frameVars
  <2>1. TypeOK'
    BY <1>1, <1>2 DEF StartEncode, UpdateQuality, TypeOK, frameVars, ackVars
  <2>2. OneFrameAtATime'
    BY <1>1, <1>2 DEF UpdateQuality, OneFrameAtATime
  <2>3. PacedEvenly' /\ Measured' /\ OutputsReady'
    BY <1>1, <1>2 DEF StartEncode, UpdateQuality, PacedEvenly, Measured,
                      OutputsReady, ackVars
  <2> QED
    BY <2>1, <2>2, <2>3
<1>3. CASE StartJobs
  <2>1. /\ encode_jobs' \in Seq({"improve", "fail-small", "frame"})
        /\ encode_jobs' # << >>
        /\ operation_mode # "conventional" => encode_jobs'[Len(encode_jobs')] = "fail-small"
    <3>1. CASE operation_mode = "conventional"
      <4>1. encode_jobs' = << "frame" >>
        BY <1>3, <3>1 DEF StartJobs
      <4> QED
        BY <3>1, <4>1
    <3>2. CASE operation_mode # "conventional"
      <4>1. encode_jobs' = << "improve", "fail-small" >>
        BY <1>3, <3>2 DEF StartJobs
      <4> QED
        BY <3>2, <4>1
    <3> QED
      BY <3>1, <3>2
  <2>2. encode_outputs' \in Seq(Sizes \cup {Running})
    <3>0. /\ DOMAIN encode_jobs' = 1 .. Len(encode_jobs')
          /\ Len(encode_jobs') \in Nat
      BY <2>1
    <3>1. encode_outputs' = [ i \in DOMAIN encode_jobs' |-> Running ]
      BY <1>3, Zenon DEF StartJobs
    <3>2. encode_outputs' \in [ 1 .. Len(encode_jobs') -> Sizes \cup {Running} ]
      BY <3>0, <3>1
    <3> QED
      BY <3>0, <3>2
  <2> JobNames' /\ RoomLeft'
    BY <1>1, <1>3, <2>1 DEF StartEncode, JobNames, RoomLeft, Last, frameVars
  <2>3. TypeOK'
    BY <1>1, <1>3, <2>1, <2>2 DEF StartEncode, StartJobs, TypeOK, frameVars, ackVars
  <2>4. OneFrameAtATime'
    BY <1>1, <1>3, <2>1 DEF StartJobs, OneFrameAtATime
  <2>5. PacedEvenly' /\ Measured' /\ OutputsReady'
    BY <1>1, <1>3 DEF StartEncode, StartJobs, PacedEvenly, Measured,
                      OutputsReady, ackVars
  <2> QED
    BY <2>3, <2>4, <2>5
<1> QED
  BY <1>1, <1>2, <1>3 DEF StartEncode

LEMMA FinishJobInv ==
  ASSUME Inv, FinishJob
  PROVE  Inv'
<1> USE DEF Inv
<1>1. threads = 1 /\ end_pipe = 0 /\ up
  BY DEF FinishJob, TypeOK, OneFrameAtATime
<1>2. encode_outputs' \in Seq(Sizes \cup {Running})
  BY DEF FinishJob, TypeOK
<1>3. TypeOK'
  BY <1>2 DEF FinishJob, TypeOK, frameVars, ackVars
<1>4. OneFrameAtATime' /\ PacedEvenly' /\ Measured' /\ OutputsReady'
  BY <1>1 DEF FinishJob, OneFrameAtATime, PacedEvenly, Measured, OutputsReady,
              ackVars
<1> JobNames' /\ RoomLeft'
  BY DEF FinishJob, JobNames, RoomLeft, frameVars
<1> QED
  BY <1>3, <1>4

LEMMA ReportEndInv ==
  ASSUME Inv, ReportEnd
  PROVE  Inv'
<1> USE DEF Inv
<1>1. TypeOK'
  BY DEF ReportEnd, TypeOK, frameVars, ackVars
<1>2. OneFrameAtATime'
  BY DEF ReportEnd, OneFrameAtATime, TypeOK
<1> JobNames' /\ RoomLeft'
  BY DEF ReportEnd, JobNames, RoomLeft, TypeOK, frameVars
<1>3. PacedEvenly' /\ Measured' /\ OutputsReady'
  BY DEF ReportEnd, PacedEvenly, Measured, OutputsReady, ackVars
<1> QED
  BY <1>1, <1>2, <1>3

LEMMA EncodeEndInv ==
  ASSUME Inv, EncodeEnd
  PROVE  Inv'
<1> USE DEF Inv
<1>1. /\ end_pipe = 1 /\ start_pipe = 0 /\ threads = 0 /\ up /\ up'
      /\ end_pipe' = 0 /\ start_pipe' = 1 /\ threads' = 0 /\ encode_jobs' = << >>
  BY DEF EncodeEnd, AskForNext, TypeOK, OneFrameAtATime
<1>2. OneFrameAtATime' /\ OutputsReady' /\ Measured' /\ JobNames' /\ RoomLeft'
  BY <1>1 DEF EncodeEnd, OneFrameAtATime, OutputsReady, Measured, JobNames,
              RoomLeft, ackVars
<1>3. CASE SendFrame
  <2>1. PICK i \in DOMAIN encode_outputs :
          LET count == Fragments(encode_outputs[i])
          IN  /\ queue_' = Pushed(count, inter_send_delay)
              /\ cumulative_fpf' = Append(cumulative_fpf, LastSent + count)
              /\ skipped_count' = 0
              /\ frame_no' = frame_no + 1
    BY <1>3 DEF SendFrame
  <2> DEFINE count == Fragments(encode_outputs[i])
  <2>2. encode_outputs[i] \in Nat
    <3>1. encode_outputs[i] \in Sizes \cup {Running}
      BY DEF TypeOK
    <3> QED
      BY <3>1, SizesPositive DEF Running
  <2>3. count \in Nat
    BY <2>2, FragmentsNat
  <2> HIDE DEF count
  <2>4. queue_' \in Seq(Int) /\ PacedEvenly'
    <3>1. queue_' = Pushed(count, inter_send_delay)
      BY <2>1 DEF count
    <3>2. queue_ \in Seq(Int)
      BY DEF TypeOK
    <3> QED
      BY <2>3, <3>1, <3>2, GapInLimits, PushedPaced
  <2>5. cumulative_fpf' \in Seq(Nat) /\ Len(cumulative_fpf') = frame_no'
    BY <2>1, <2>3, LastSentNat DEF TypeOK, count
  <2>6. frame_no' \in 0 .. MaxFrames /\ skipped_count' \in 0 .. MaxSkipped
    BY <1>1, <2>1, PipelineAssumption DEF TypeOK, RoomLeft
  <2>7. TypeOK'
    BY <1>1, <2>4, <2>5, <2>6 DEF EncodeEnd, TypeOK, ackVars
  <2> QED
    BY <1>2, <2>4, <2>7
<1>4. CASE SkipFrame
  <2>1. skipped_count < MaxSkipped
    BY <1>1, <1>4 DEF SkipFrame, MaySkip, JobNames, OneFrameAtATime
  <2>3. skipped_count' \in 0 .. MaxSkipped
    BY <1>4, <2>1, PipelineAssumption DEF SkipFrame, TypeOK
  <2>4. TypeOK'
    BY <1>1, <1>4, <2>3 DEF EncodeEnd, SkipFrame, TypeOK, ackVars
  <2>2. PacedEvenly'
    BY <1>4 DEF SkipFrame, PacedEvenly
  <2> QED
    BY <1>2, <2>2, <2>4
<1> QED
  BY <1>3, <1>4 DEF EncodeEnd

LEMMA HandleAckInv ==
  ASSUME Inv, HandleAck
  PROVE  Inv'
<1> USE DEF Inv
<1>1. last_acked' \in Nat /\ avg_delay' \in Delays
  BY DEF HandleAck
<1>2. TypeOK'
  BY <1>1 DEF HandleAck, TypeOK, pipeVars, frameVars
<1>3. /\ OneFrameAtATime' /\ PacedEvenly' /\ Measured' /\ OutputsReady'
      /\ JobNames' /\ RoomLeft'
  BY <1>1 DEF HandleAck, OneFrameAtATime, PacedEvenly, Measured, OutputsReady,
              JobNames, RoomLeft, pipeVars, frameVars
<1> QED
  BY <1>2, <1>3

(* Steps that only move the queue.                                           *)
LEMMA QueueInv ==
  ASSUME Inv, queue_' \in Seq(Int), PacedEvenly',
         UNCHANGED << operation_mode, up, pipeVars, frameVars, ackVars >>
  PROVE  Inv'
<1> USE DEF Inv, pipeVars, frameVars, ackVars
<1>1. TypeOK'
  BY DEF TypeOK
<1>2. OneFrameAtATime' /\ Measured' /\ OutputsReady' /\ JobNames' /\ RoomLeft'
  BY DEF OneFrameAtATime, Measured, OutputsReady, JobNames, RoomLeft
<1> QED
  BY <1>1, <1>2

LEMMA NextInv == Inv /\ [Next]_vars => Inv'
<1> SUFFICES ASSUME Inv, [Next]_vars PROVE Inv'
  OBVIOUS
<1>0. queue_ \in Seq(Int) /\ PacedEvenly
  BY DEF Inv, TypeOK
<1>1. CASE StartEncode
  BY <1>1, StartEncodeInv
<1>2. CASE FinishJob
  BY <1>2, FinishJobInv
<1>3. CASE ReportEnd
  BY <1>3, ReportEndInv
<1>4. CASE EncodeEnd
  BY <1>4, EncodeEndInv
<1>5. CASE HandleAck
  BY <1>5, HandleAckInv
<1>6. CASE SendDatagrams
  BY <1>0, <1>6, DuePaced, QueueInv DEF SendDatagrams
<1>7. CASE ClockTick
  BY <1>0, <1>7, TickPaced, QueueInv DEF ClockTick
<1>8. CASE UNCHANGED vars
  BY <1>0, <1>8, QueueInv DEF vars, PacedEvenly
<1> QED
  BY <1>1, <1>2, <1>3, <1>4, <1>5, <1>6, <1>7, <1>8 DEF Next

(* The parts above hold together throughout the call.                        *)
THEOREM SpecInv == Spec => []Inv
BY InitInv, NextInv, PTL DEF Spec

-----------------------------------------------------------------------------
(* Every variable keeps its type; no more than MAX_SKIPPED frames are        *)
(* skipped in a row.                                                         *)
THEOREM PipelineTyped == Spec => []TypeOK
<1>1. Inv => TypeOK
  BY DEF Inv
<1> QED
  BY <1>1, SpecInv, PTL

(* The threads and the handlers never use the jobs at the same time.         *)
THEOREM ThreadsTakeTurns == Spec => []OneFrameAtATime
<1>1. Inv => OneFrameAtATime
  BY DEF Inv
<1> QED
  BY <1>1, SpecInv, PTL

(* Datagrams leave evenly and the wait in the pacer is bounded.              *)
THEOREM QueueIsPaced == Spec => []PacedEvenly
<1>1. Inv => PacedEvenly
  BY DEF Inv
<1> QED
  BY <1>1, SpecInv, PTL

(* A frame that is not forced fits what target_size promises.                *)
LEMMA SentFrameFits ==
  ASSUME Inv, EncodeEnd, frame_no' # frame_no, operation_mode # "conventional",
         avg_delay # Unknown, skipped_count < MaxSkipped
  PROVE  Last(cumulative_fpf') - last_acked <= Budget
<1> USE DEF Inv
<1>1. SendFrame
  BY DEF EncodeEnd, SkipFrame
<1>2. PICK i \in DOMAIN encode_outputs :
        /\ IsChosen(i)
        /\ cumulative_fpf' = Append(cumulative_fpf,
                                    LastSent + Fragments(encode_outputs[i]))
  BY <1>1 DEF SendFrame
<1>3. Fits(i)
  BY <1>2 DEF IsChosen, MaySkip, IsBest
<1> DEFINE size == encode_outputs[i]
           left == Budget - (LastSent - last_acked)
<1>4. size \in Nat /\ size > 0
  <2>1. encode_outputs[i] \in Sizes \cup {Running}
    BY DEF TypeOK
  <2>2. encode_outputs[i] # Running
    BY DEF EncodeEnd, OutputsReady
  <2> QED
    BY <2>1, <2>2, SizesPositive
<1>5. LastSent \in Nat /\ last_acked \in Nat /\ Budget \in Int
  <2>1. avg_delay \in Nat
    BY PipelineAssumption DEF TypeOK
  <2>2. Budget \in Int
    BY <2>1, PipelineAssumption DEF Budget
  <2> QED
    BY <2>2, LastSentNat DEF Measured
<1>6. size <= target_size
  BY <1>3 DEF Fits
<1>7. target_size = Payload * (IF left > 0 THEN left ELSE 0)
  BY DEF target_size
<1> HIDE DEF size, left
<1>8. left \in Int
  BY <1>5 DEF left
<1>9. left > 0
  BY <1>4, <1>6, <1>7, <1>8, PipelineAssumption
<1>10. Fragments(size) \in Nat /\ Fragments(size) <= left
  BY <1>4, <1>6, <1>7, <1>8, <1>9, FragmentsFit
<1>11. Last(cumulative_fpf') = LastSent + Fragments(size)
  <2>1. cumulative_fpf \in Seq(Nat) /\ LastSent + Fragments(size) \in Nat
    BY <1>5, <1>10 DEF TypeOK
  <2>2. cumulative_fpf' = Append(cumulative_fpf, LastSent + Fragments(size))
    BY <1>2 DEF size
  <2> QED
    BY <2>1, <2>2 DEF Last
<1> QED
  BY <1>5, <1>8, <1>10, <1>11 DEF left

(* Whatever the encodings weigh, a frame is sent only into a path that takes *)
(* it, unless MAX_SKIPPED frames were skipped before it.                     *)
THEOREM FramesFit == Spec => FitsTheDelay
<1> DEFINE Fitting == /\ frame_no' # frame_no
                      /\ operation_mode # "conventional"
                      /\ avg_delay # Unknown
                      /\ skipped_count < MaxSkipped
                      => Last(cumulative_fpf') - last_acked <= Budget
<1>1. Inv /\ [Next]_vars => [Fitting]_vars
  <2> SUFFICES ASSUME Inv, Next, frame_no' # frame_no,
                      operation_mode # "conventional",
                      avg_delay # Unknown, skipped_count < MaxSkipped
               PROVE  Last(cumulative_fpf') - last_acked <= Budget
    OBVIOUS
  <2>1. EncodeEnd
    BY DEF Next, StartEncode, FinishJob, ReportEnd, HandleAck, SendDatagrams,
           ClockTick, frameVars
  <2> QED
    BY <2>1, SentFrameFits
<1> QED
  BY <1>1, SpecInv, PTL DEF Spec, FitsTheDelay
=============================================================================
