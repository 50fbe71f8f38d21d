SPECIFICATION SwtmrSpec
CONSTANTS
  t1 = t1
  t2 = t2
  t3 = t3
  NoTimer = NoTimer
  Timers <- ThreeTimers
  Intervals <- Periods
SYMMETRY SwapTimers
INVARIANTS
  SwtmrTypeOK
  CountsAddUp
  NoneOverdue
  OneLink
  LostOnlyWhenBehind
