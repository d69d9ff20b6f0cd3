--------------------------- MODULE ExactPlayback ---------------------------
(***************************************************************************)
(* What a Salsify call promises its viewer, without datagrams,             *)
(* acknowledgments or reassembly.  Frames are numbered; each takes one     *)
(* codec state to another.  The receiver's decoder moves forward through   *)
(* them and keeps some of the states it has reached:                       *)
(*   - a frame is only ever encoded from the initial state or the target   *)
(*     of an earlier frame;                                                *)
(*   - no frame is shown twice or after a later one;                       *)
(*   - a frame whose source is kept is shown exactly, whatever happened to *)
(*     the frames before it;                                               *)
(*   - a kept state was reached exactly.                                   *)
(***************************************************************************)
EXTENDS Integers, SequencesExt

CONSTANTS Hash, InitialState, Damaged

VARIABLES sent, next, picture, kept

stateVars == << sent, next, picture, kept >>

Init ==
  /\ sent = << >>
  /\ next = 0
  /\ picture = InitialState
  /\ kept = {InitialState}

Reachable == {InitialState} \cup { sent[i].target : i \in DOMAIN sent }

Encode ==
  /\ \E s \in Reachable, t \in Hash :
       sent' = Append(sent, [ source |-> s, target |-> t ])
  /\ UNCHANGED << next, picture, kept >>

(* Frame n is complete and its source is kept.                               *)
ShowExactly(n) ==
  LET frame == sent[n + 1]
  IN  /\ frame.source \in kept
      /\ picture' = frame.target
      /\ frame.target \in kept'
      /\ kept' \subseteq kept \cup {frame.target}

ShowDamaged(n) ==
  /\ sent[n + 1].source \notin kept
  /\ picture' \in Damaged
  /\ UNCHANGED kept

Show ==
  /\ \E n \in next .. Len(sent) - 1 :
       /\ ShowExactly(n) \/ ShowDamaged(n)
       /\ next' = n + 1
  /\ UNCHANGED sent

(* Frames before n are given up, the first of them possibly shown in part.   *)
Abandon ==
  /\ next' \in next + 1 .. Len(sent) - 1
  /\ picture' \in Damaged \cup {picture}
  /\ UNCHANGED << sent, kept >>

Next == Encode \/ Show \/ Abandon

Spec == Init /\ [][Next]_stateVars
=============================================================================
