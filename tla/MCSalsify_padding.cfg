CONSTANTS
  MaxFrames = 3
  MaxAcks = 4
  MaxSkipped = 1
  InitialState = 0
  Asserts = TRUE
  None = None
  Hash <- MCHash
  Corrupt <- MCCorrupt
  TailIsPadding <- FrameNos
  Targets <- DistinctTargets
  FragmentCounts <- TwoFragments
  DataFifo = TRUE
  AckFifo = TRUE
SPECIFICATION Spec
CHECK_DEADLOCK FALSE
INVARIANT ReceiverNeverAborts
