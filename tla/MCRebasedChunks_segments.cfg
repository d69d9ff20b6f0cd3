CONSTANTS
  Prob = {128, 7}
  DefaultProb = 128
  Delta = {0, 1}
  Zero = 0
  Off = Off
  Keep = Keep
  Garbled = Garbled
  Blank = Blank
  MaxFrames = 3
  Body <- MCBody
  SourceHeaders <- Segmented
SPECIFICATION Spec
CHECK_DEADLOCK FALSE
INVARIANTS InStep
