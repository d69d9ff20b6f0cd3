CONSTANTS
  StableFrom = 3
  MaxFrames = 5
  MaxAcks = 10
  MaxSkipped = 1
  InitialState = 0
  Asserts = TRUE
  None = None
  Hash <- MCHash
  Corrupt <- MCCorrupt
  TailIsPadding <- NoFrame
  Targets <- DistinctTargets
  FragmentCounts <- OneOrTwoFragments
  DataFifo = TRUE
  AckFifo = TRUE
SPECIFICATION RecoverySpec
PROPERTY PictureRecovers
CHECK_DEADLOCK FALSE
