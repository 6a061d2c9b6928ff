SPECIFICATION Spec
CONSTANTS
  Start = 6
  HealthEvery = 10
  OtherDelays <- Pauses
  MaxTime = 30
INVARIANTS NoFalseAlarm EscalatesInTime
CHECK_DEADLOCK FALSE
