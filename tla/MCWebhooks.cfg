CONSTANTS
  Dispatcher = {p1, p2}
  Endpoint = {e1}
  MaxAttempts = 2
  MaxEvents = 2
  MaxTroubles = 1
SPECIFICATION FairSpec
CHECK_DEADLOCK FALSE
INVARIANTS
  EndIsEarned
  QuietRowIsCharged
PROPERTIES
  EventsSettle
