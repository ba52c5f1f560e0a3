CONSTANTS
  Jobs = {j1, j2, j3}
  NoJob = NoJob
  Persist = TRUE
SPECIFICATION FairSpec
CHECK_DEADLOCK FALSE
INVARIANTS
  OneSlot
  EventsMatchRecord
  NoOrphanCall
  LeaseCoversCall
  ArtifactsMatchRecords
PROPERTIES
  OnlyLegalMoves
  CancelIsFinal
  ImplementsLifecycle
  EveryJobEnds
