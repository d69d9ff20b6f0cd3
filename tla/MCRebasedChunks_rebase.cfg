CONSTANTS
  Prob = {128, 7}
  DefaultProb = 128
  Delta = {0, 1}
  Zero = 0
  Off = Off
  Keep = Keep
  Garbled = Garbled
  Blank = Blank
  MaxFrames = 5
  Body <- MCBody
  SourceHeaders <- Unsegmented
SPECIFICATION Spec
CHECK_DEADLOCK FALSE
INVARIANTS InStep FileHoldsState NothingGarbled
