CONSTANTS
  Delay = 8
  Probabilities <- MCProbabilities
  MaxBits = 6
  Width = 2
  Height = 2
  Side = 2
  Headers <- MCHeaders
  Decisions <- MCDecisions
  MostDamaged = 2
  BlockLength = 16
  Symbols <- MCSymbols
  Blocks <- MCBlocks
  FrameHeaders <- MCFrameHeaders
  Neighbourhoods <- MCNeighbourhoods
  Layouts <- MCLayouts
  SavedStates <- MCSavedStates
  supported_header_len = 3
  frame_header_len = 2
  FrameLengths = {0, 2}
  MaxAppended = 3
SPECIFICATION Spec
CHECK_DEADLOCK FALSE
INVARIANTS DecodesWhatWasEncoded RightWhileValid WrittenIsRead CountsMatch RatesMatchBits CandidatesAreFair
  FrameReadsBack DamageIsConfined ReadableAfterCrash
