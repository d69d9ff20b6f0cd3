--------------------------- MODULE SenderPipeline ---------------------------
(***************************************************************************)
(* How the Salsify sender paces itself: a camera frame is encoded in       *)
(* parallel at two qualities, and once both are done the larger that the   *)
(* network can take is sent, or none.  The poller's thread runs the        *)
(* handlers; one detached thread per frame waits for the encodings and     *)
(* reports over a socket pair, as the handler does that asks for the next  *)
(* frame.  Which encoder is used is the business of SalsifySender; here an *)
(* encoding is a size.                                                     *)
(***************************************************************************)
EXTENDS Pacer

CONSTANTS
  MaxFrames,   (* bound of the model: frames sent in a call                 *)
  MaxSkipped,  (* MAX_SKIPPED, most frames skipped in a row                 *)
  Payload,     (* Packet::MAXIMUM_PAYLOAD                                   *)
  MaxDelay,    (* max_delay of target_size                                  *)
  Sizes,       (* sizes an encoding can have                                *)
  Delays       (* delays between datagrams the receiver can report          *)

Unknown == -1  (* avg_delay and last_acked before the first acknowledgment  *)
Running == 0   (* the size of an encoding that is not finished              *)

ASSUME PipelineAssumption ==
  /\ MaxFrames \in Nat /\ MaxSkipped \in Nat
  /\ Payload \in Nat \ {0} /\ MaxDelay \in Nat
  /\ Sizes \in SUBSET (Nat \ {0}) /\ Delays \in SUBSET Nat

VARIABLES
  operation_mode, (* of the command line                                    *)
  up,             (* the process has not died                               *)
  start_pipe,     (* messages in the two socket pairs                       *)
  end_pipe,
  threads,        (* threads that wait for encodings                        *)
  encode_jobs,    (* names of the jobs                                      *)
  encode_outputs, (* sizes of their results                                 *)
  frame_no, skipped_count,
  cumulative_fpf, (* datagrams sent up to each frame, frame 0 first         *)
  last_acked,     (* place in the call of the last datagram acknowledged    *)
  avg_delay       (* between datagrams, as reported with it                 *)

pipeVars == << start_pipe, end_pipe, threads, encode_jobs, encode_outputs >>
frameVars == << frame_no, skipped_count, cumulative_fpf >>
ackVars == << last_acked, avg_delay >>
vars == << operation_mode, up, pipeVars, frameVars, ackVars, queue_ >>

OperationMode == {"s1", "s2", "conventional"}

TypeOK ==
  /\ operation_mode \in OperationMode
  /\ up \in BOOLEAN
  /\ start_pipe \in Nat /\ end_pipe \in Nat /\ threads \in Nat
  /\ encode_jobs \in Seq({"improve", "fail-small", "frame"})
  /\ encode_outputs \in Seq(Sizes \cup {Running})
  /\ frame_no \in 0 .. MaxFrames
  /\ skipped_count \in 0 .. MaxSkipped
  /\ cumulative_fpf \in Seq(Nat) /\ Len(cumulative_fpf) = frame_no
  /\ last_acked \in Nat \cup {Unknown}
  /\ avg_delay \in Delays \cup {Unknown}
  /\ queue_ \in Seq(Int)

(* The first frame is asked for before the poll loop starts.                 *)
Init ==
  /\ operation_mode \in OperationMode
  /\ up = TRUE
  /\ start_pipe = 1 /\ end_pipe = 0 /\ threads = 0
  /\ encode_jobs = << >> /\ encode_outputs = << >>
  /\ frame_no = 0 /\ skipped_count = 0 /\ cumulative_fpf = << >>
  /\ last_acked = Unknown /\ avg_delay = Unknown
  /\ PacerInit

-----------------------------------------------------------------------------
(* The handler of encode_start_pipe.                                         *)

(* In the conventional mode the rate is 1000 * 1000 * 1400 / avg_delay, and  *)
(* the first acknowledgment of a call reports a delay of 0.                  *)
UpdateQuality ==
  /\ operation_mode = "conventional"
  /\ avg_delay = 0
  /\ up' = FALSE
  /\ UNCHANGED << end_pipe, threads, encode_jobs, encode_outputs >>

StartJobs ==
  /\ encode_jobs' = IF operation_mode = "conventional" THEN << "frame" >>
                    ELSE << "improve", "fail-small" >>
  /\ encode_outputs' = [ i \in DOMAIN encode_jobs' |-> Running ]
  /\ threads' = threads + 1
  /\ UNCHANGED << up, end_pipe >>

StartEncode ==
  /\ up
  /\ frame_no < MaxFrames
  /\ start_pipe > 0
  /\ start_pipe' = start_pipe - 1
  /\ IF encode_jobs = << >> THEN UpdateQuality \/ StartJobs
     ELSE UNCHANGED << up, end_pipe, threads, encode_jobs, encode_outputs >>
  /\ UNCHANGED << operation_mode, frameVars, ackVars, queue_ >>

(* Encodings run in parallel in mode s2 and one after the other, deferred    *)
(* until they are waited for, in the other modes.                            *)
FinishJob ==
  /\ up
  /\ threads > 0
  /\ \E i \in DOMAIN encode_outputs, size \in Sizes :
       /\ encode_outputs[i] = Running
       /\ operation_mode # "s2" =>
            \A j \in 1 .. i - 1 : encode_outputs[j] # Running
       /\ encode_outputs' = [ encode_outputs EXCEPT ![i] = size ]
  /\ UNCHANGED << operation_mode, up, start_pipe, end_pipe, threads,
                  encode_jobs, frameVars, ackVars, queue_ >>

ReportEnd ==
  /\ up
  /\ threads > 0
  /\ \A i \in DOMAIN encode_outputs : encode_outputs[i] # Running
  /\ threads' = threads - 1
  /\ end_pipe' = end_pipe + 1
  /\ UNCHANGED << operation_mode, up, start_pipe, encode_jobs, encode_outputs,
                  frameVars, ackVars, queue_ >>

-----------------------------------------------------------------------------
(* The handler of encode_end_pipe.                                           *)

LastSent == IF cumulative_fpf = << >> THEN 0 ELSE Last(cumulative_fpf)

(* Datagrams that keep the path busy for MaxDelay.                           *)
Budget == MaxDelay \div (IF avg_delay = 0 THEN 1 ELSE avg_delay)

(* Seeded fault: what is already on its way is not subtracted.               *)
SizeOfBudget == Payload * Budget

target_size ==
  LET left == Budget - (LastSent - last_acked)
  IN  Payload * (IF left > 0 THEN left ELSE 0)

Fits(i) == avg_delay = Unknown \/ encode_outputs[i] <= target_size

(* The largest output that fits, the first one in case of a tie.             *)
IsBest(i) ==
  /\ Fits(i)
  /\ \A j \in DOMAIN encode_outputs :
       Fits(j) => \/ encode_outputs[j] < encode_outputs[i]
                  \/ encode_outputs[j] = encode_outputs[i] /\ i <= j

NoneFits == \A i \in DOMAIN encode_outputs : ~ Fits(i)

(* Seeded fault: one frame too many is skipped.                              *)
MaySkipOneMore == skipped_count <= MaxSkipped \/ Last(encode_jobs) # "fail-small"

MaySkip == skipped_count < MaxSkipped \/ Last(encode_jobs) # "fail-small"

IsChosen(i) ==
  \/ operation_mode = "conventional" /\ i = 1
  \/ operation_mode # "conventional" /\ IsBest(i)
  \/ operation_mode # "conventional" /\ NoneFits /\ ~ MaySkip
       /\ i = Len(encode_outputs)

Fragments(size) == (size + Payload - 1) \div Payload

inter_send_delay ==
  IF avg_delay = Unknown \/ avg_delay \div 5 > MaxGap THEN MaxGap
  ELSE IF avg_delay \div 5 < MinGap THEN MinGap ELSE avg_delay \div 5

SendFrame ==
  \E i \in DOMAIN encode_outputs :
    LET count == Fragments(encode_outputs[i])
    IN  /\ IsChosen(i)
        /\ queue_' = Pushed(count, inter_send_delay)
        /\ cumulative_fpf' = Append(cumulative_fpf, LastSent + count)
        /\ skipped_count' = 0
        /\ frame_no' = frame_no + 1

SkipFrame ==
  /\ operation_mode # "conventional"
  /\ NoneFits
  /\ MaySkip
  /\ skipped_count' = skipped_count + 1
  /\ UNCHANGED << queue_, cumulative_fpf, frame_no >>

(* Seeded faults: a frame that is skipped does not ask for the next one, or  *)
(* the jobs stay.                                                            *)
AskIfSent ==
  /\ start_pipe' = start_pipe + (IF frame_no' # frame_no THEN 1 ELSE 0)
  /\ encode_jobs' = << >>
AskKeepingJobs == start_pipe' = start_pipe + 1 /\ UNCHANGED encode_jobs

(* What the handler does on every way out.                                   *)
AskForNext == start_pipe' = start_pipe + 1 /\ encode_jobs' = << >>

EncodeEnd ==
  /\ up
  /\ end_pipe > 0
  /\ end_pipe' = end_pipe - 1
  /\ SendFrame \/ SkipFrame
  /\ AskForNext
  /\ UNCHANGED << operation_mode, up, threads, encode_outputs, ackVars >>

-----------------------------------------------------------------------------
(* The network may acknowledge any datagram that has left, any number of     *)
(* times and in any order; the handler skips the older ones.                 *)
HandleAck ==
  /\ up
  /\ \E place \in 0 .. LastSent - Len(queue_) - 1, delay \in Delays :
       /\ ~ (last_acked # Unknown /\ place < last_acked)
       /\ last_acked' = place
       /\ avg_delay' = delay
  /\ UNCHANGED << operation_mode, up, pipeVars, frameVars, queue_ >>

SendDatagrams ==
  up /\ SendDue /\ UNCHANGED << operation_mode, up, pipeVars, frameVars, ackVars >>

ClockTick ==
  up /\ Tick /\ UNCHANGED << operation_mode, up, pipeVars, frameVars, ackVars >>

Next ==
  \/ StartEncode \/ FinishJob \/ ReportEnd \/ EncodeEnd
  \/ HandleAck \/ SendDatagrams \/ ClockTick

(* The poll loop serves every descriptor that is ready in each round, its    *)
(* handlers end, threads run and time passes; the network owes nothing.      *)
Fairness ==
  /\ WF_vars(StartEncode) /\ WF_vars(FinishJob) /\ WF_vars(ReportEnd)
  /\ WF_vars(EncodeEnd) /\ WF_vars(SendDatagrams) /\ WF_vars(ClockTick)

Spec == Init /\ [][Next]_vars /\ Fairness

-----------------------------------------------------------------------------
(* The poller's thread and the encoding threads share encode_jobs and        *)
(* encode_outputs without a lock: one message or one thread at a time says   *)
(* whose turn it is, and there are jobs exactly from the start handler to    *)
(* the end handler.                                                          *)
OneFrameAtATime ==
  /\ start_pipe + threads + end_pipe = IF up THEN 1 ELSE 0
  /\ encode_jobs # << >> <=> threads + end_pipe > 0

(* target_size promises at most MaxDelay of datagrams on their way: a frame  *)
(* sent because it fits leaves no more than that unacknowledged, whatever    *)
(* arrived between the choice of its size and the end of its encoding.       *)
FitsTheDelay ==
  [][ /\ frame_no' # frame_no
      /\ operation_mode # "conventional"
      /\ avg_delay # Unknown
      /\ skipped_count < MaxSkipped
      => Last(cumulative_fpf') - last_acked <= Budget ]_vars

(* Neither a path that never acknowledges nor one whose capacity is always   *)
(* too small stops the call: every frame number is used in the end, and all  *)
(* its datagrams leave the pacer.                                            *)
CallGoesOn == <>(up => frame_no = MaxFrames /\ queue_ = << >>)
=============================================================================
