\* A clock of 500 us and datagrams of two bytes.  An encoding fills one or two
\* datagrams; the reported delays are none, one with which the budget holds about
\* a frame, and one that lets nothing through.
CONSTANTS
  Millisecond = 2
  MinGap = 1
  MaxGap = 4
  MaxLate = 1
  MaxFrames = 3
  MaxSkipped = 3
  Payload = 2
  MaxDelay = 20
  Sizes = {2, 3}
  Delays = {0, 5, 30}
SPECIFICATION Spec
CHECK_DEADLOCK FALSE
INVARIANTS TypeOK OneFrameAtATime PacedEvenly
PROPERTIES FitsTheDelay CallGoesOn
