SPECIFICATION FairSpec
CONSTANTS
  long = long
  short = short
  None = None
  Reservations <- MCReservations
  CheckIn <- MCCheckIn
  CheckOut <- MCCheckOut
  p1 = p1
  p2 = p2
  Passes = {p1, p2}
  Night = 0
  SettleDays = 1
  MinPasses = 1
  StablePasses = 1
  LastDay = 3
  MaxCrashes = 1
INVARIANTS
  FirstIsAfterTheAction
  CurrentHasEvidence
  LossIsReal
  FinalIsSettled
PROPERTIES
  FirstIsFrozen
  EventuallyFinal
CHECK_DEADLOCK FALSE
