CONSTANTS
  Null = Null
  Junk = Junk
  Bodies <- TestBodies
  Readings <- TestReadings
  Ceilings = {1000000, 209715200}
SPECIFICATION Spec
CHECK_DEADLOCK FALSE
INVARIANTS
  RefusalsCanBeRepaired
  KnownFieldsTakeEffect
  LinkDeliversThePlan
  UnknownFieldsAreInert
