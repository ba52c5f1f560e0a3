SPECIFICATION Spec
CONSTANTS
  Jobs = {j1, j2}
  NoJob = NoJob
SYMMETRY Symmetry
INVARIANTS SidecarHasAudio ReturnedIsKept
PROPERTY ImplementsStore
CHECK_DEADLOCK FALSE
