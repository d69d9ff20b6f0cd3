CONSTANTS
  MaxFrames = 3
  MaxAcks = 4
  MaxSkipped = 1
  InitialState = 0
  Asserts = TRUE
  None = None
  Hash <- MCHash
  Corrupt <- MCCorrupt
  TailIsPadding <- NoFrame
  Targets <- DistinctTargets
  FragmentCounts <- TwoFragments
  DataFifo = FALSE
  AckFifo = FALSE
SPECIFICATION Spec
CHECK_DEADLOCK FALSE
INVARIANT SenderNeverThrows
