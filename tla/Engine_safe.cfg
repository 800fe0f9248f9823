SPECIFICATION EngineSpec
CONSTANTS
  Ids = {1, 2, 3}
  stack = stack
  label = label
  hi = hi
  bye = bye
  red = red
  blue = blue
  accent = accent
  signal = signal
  Components = {stack, label}
  TextValues = {hi, bye}
  PropValues = {red, blue}
  Tokens = {accent}
  None = None
  Signals = {signal}
  Views <- MCViews
INVARIANTS Truthful ViewOnScreen UnchangedEmitsNothing NothingLeftOver BindingsShown
