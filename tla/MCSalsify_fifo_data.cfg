CONSTANTS
  MaxFrames = 4
  MaxAcks = 6
  MaxSkipped = 1
  InitialState = 0
  Asserts = TRUE
  None = None
  Hash <- MCHash
  Corrupt <- MCCorrupt
  TailIsPadding <- NoFrame
  Targets <- DistinctTargets
  FragmentCounts <- OneOrTwoFragments
  DataFifo = TRUE
  AckFifo = FALSE
SPECIFICATION Spec
CHECK_DEADLOCK FALSE
INVARIANT SenderNeverThrows
PROPERTY KnowledgeNeverRegresses
