------------------------------- MODULE Pacer -------------------------------
(***************************************************************************)
(* The pacer of outgoing datagrams (net/pacer.hh) as the sender uses it.   *)
(* An entry of queue_ is the time left until the datagram at that place is *)
(* due, negative when it is late, so that the clock needs no variable.     *)
(* system_clock is taken not to be set back during a call.                 *)
(***************************************************************************)
EXTENDS Integers, Sequences, SequencesExt

CONSTANTS
  Millisecond,  (* in units of the model's clock                            *)
  MinGap,       (* 500 us and 2000 us, the limits of inter_send_delay       *)
  MaxGap,
  MaxLate       (* bound of the model: how late the poll loop can be        *)

ASSUME PacerAssumption ==
  /\ Millisecond \in Nat \ {0}
  /\ MinGap \in Nat \ {0} /\ MaxGap \in Nat \ {0} /\ MinGap <= MaxGap
  /\ MaxLate \in Nat

VARIABLE queue_

PacerInit == queue_ = << >>

(* Seeded fault: the datagrams still waiting are forgotten.                  *)
PushedFromNow(count, gap) == queue_ \o [ k \in 1 .. count |-> (k - 1) * gap ]

(* count datagrams pushed one after the other, the first of them due at once *)
(* when none is waiting.                                                     *)
Pushed(count, gap) ==
  queue_ \o [ k \in 1 .. count |-> IF queue_ = << >> THEN (k - 1) * gap
                                   ELSE Last(queue_) + k * gap ]

(* ms_until_due() = 0: the conversion to milliseconds drops what is left of  *)
(* one, so a datagram may leave that much early.                             *)
IsDue(left) == left < Millisecond

(* The datagrams at the front that are due leave, and at least one is.       *)
SendDue ==
  \E k \in 1 .. Len(queue_) :
    /\ \A i \in 1 .. k : IsDue(queue_[i])
    /\ k < Len(queue_) => ~ IsDue(queue_[k + 1])
    /\ queue_' = SubSeq(queue_, k + 1, Len(queue_))

Tick ==
  /\ queue_ # << >>
  /\ queue_[1] > - MaxLate
  /\ queue_' = [ i \in DOMAIN queue_ |-> queue_[i] - 1 ]

(* Datagrams leave evenly: any two are due as far apart as that many gaps    *)
(* between the limits, and the k-th in the queue waits no longer than k of   *)
(* the longer gaps and what the conversion to milliseconds drops.            *)
PacedEvenly ==
  /\ \A i, j \in 1 .. Len(queue_) :
       i < j => queue_[j] - queue_[i] \in (j - i) * MinGap .. (j - i) * MaxGap
  /\ \A i \in 1 .. Len(queue_) : queue_[i] <= Millisecond - 1 + i * MaxGap
=============================================================================
