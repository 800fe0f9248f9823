SPECIFICATION SessionSpec
CONSTANTS
  Tabs = {t1, t2}
  Routes = {home, other}
  Home = home
  Landing = other
  None = None
  MaxAttempts = 1
  Bounds <- MCBounds
  OrderlyBounds <- MCOrderlyBounds
INVARIANTS DeltasComplete NothingKept
PROPERTY CatchesUp
CHECK_DEADLOCK FALSE
