SPECIFICATION Spec
CONSTANTS
  Ids = {1, 2, 3}
  stack = stack
  label = label
  hi = hi
  red = red
  signal = signal
  NoText = NoText
  None = None
  NoTarget = NoTarget
  Components = {stack, label}
  TextComponents = {label}
  TextValues = {hi}
  PropValues = {red}
  Signals = {signal}
  MaxCalls = 6
  MaxStrayed = 4
  Targets = {1, 2}
  Positions = {0, 1, 3}
  MaxDistance = 2
  MaxDuration = 0
  MaxTime = 1
  MaxEvents = 3
INVARIANTS EngineRely WholeTreeEmitted TapsExact
CHECK_DEADLOCK FALSE
