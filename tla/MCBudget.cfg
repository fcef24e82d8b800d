CONSTANTS
  c1 = c1
  c2 = c2
  c3 = c3
  rich = rich
  poor = poor
  Calls <- MCCalls
  Users = {rich, poor}
  Allowance <- MCAllowance
  Cap = 3
  Amounts = {2}
  Costs = {1, 3}
  LastMonth = 1
  None = None
SPECIFICATION FairSpec
CHECK_DEADLOCK FALSE
INVARIANTS
  ReservationsGuard
  InFlightIsCharged
PROPERTIES
  EveryReservationSettles
  EveryCallEnds
