SPECIFICATION EmitterSpec
CONSTANTS
  stack = stack
  label = label
  button = button
  hi = hi
  bye = bye
  save = save
  drop = drop
  a = a
  b = b
  name = name
  Blank = Blank
  None = None
  Signals <- MCSignals
  ValuesOf <- MCValuesOf
  Saved = {a, b}
  Components = {stack, label, button}
  TextValues <- MCTextValues
  Actions = {save, drop}
  Roots <- MCRoots
  Render <- MCRender
  MaxId = 7
  MaxCuts = 1
INVARIANTS PageIsTree TreeIsView InputsReachOwner
PROPERTIES QuietRecompute
CHECK_DEADLOCK FALSE
