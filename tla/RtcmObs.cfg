\* Three epochs of up to four satellites of which three fit; pauses of less and
\* of more than half a day or week.
SPECIFICATION Spec
CONSTANTS
  Sats <- MCSats
  System <- MCSystem
  Layouts <- MCLayouts
  Coded <- MCCoded
  TypeOrder <- MCTypeOrder
  MaxObs = 3
  MaxCell = 2
  Gaps <- MCGaps
  Week = 16
  Day = 8
  Stations = {1, 2}
  MaxEpoch = 3
INVARIANTS EpochSound OneEpoch Complete
PROPERTY OnceEach
\* the stream ends after the last epoch
CHECK_DEADLOCK FALSE
