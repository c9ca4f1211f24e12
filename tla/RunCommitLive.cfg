SPECIFICATION FairSpec
CONSTANTS
  Commands = {c1}
  Emitters = {e1}
  Timer = Timer
  NoSnapshot = NoSnapshot
  MaxSeq = 2
  MaxBatch = 1
  MaxCrashes = 1
  MaxLate = 1
PROPERTIES PublishersSettle CloseEnds
