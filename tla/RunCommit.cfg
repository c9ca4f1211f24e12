SPECIFICATION Spec
CONSTANTS
  Commands = {c1}
  Emitters = {e1}
  Timer = Timer
  NoSnapshot = NoSnapshot
  MaxSeq = 3
  MaxBatch = 2
  MaxCrashes = 1
  MaxLate = 1
INVARIANTS
  TypeOK NothingAheadOfJournal OvertakenOnlyUnproven JournalFullyApplied AcknowledgedSurvives
  NoSequenceRegression CleanCloseIsComplete
PROPERTIES SnapshotOnlyAdvances ImplementsDurableLog
