CONSTANTS
  MaxFrames = 5
  MaxAcks = 6
  MaxSkipped = 1
  InitialState = 0
  Asserts = TRUE
  None = None
  Hash <- MCHash
  Corrupt <- MCCorrupt
  TailIsPadding <- NoFrame
  Targets <- ComingBack
  FragmentCounts <- TwoInPieces
  DataFifo = FALSE
  AckFifo = TRUE
SPECIFICATION Spec
CHECK_DEADLOCK FALSE
INVARIANT TypeOK
INVARIANT SenderNeverThrows
INVARIANT OnlyNextFrameStored
INVARIANT EncodersMatchStates
INVARIANT NewestCompleteIsStored
INVARIANT ReceiverNeverAborts
INVARIANT CallInv
PROPERTY ShowsWhatItPromises
