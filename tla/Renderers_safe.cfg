SPECIFICATION RenderSpec
CONSTANTS
  stack = stack
  label = label
  button = button
  picker = picker
  divider = divider
  shape = shape
  hi = hi
  colour = colour
  accent = accent
  spaceBase = spaceBase
  twice = twice
  None = None
  Ids = {1, 2, 3}
  Components = {stack, label, button, picker, divider, shape}
  Containers = {stack}
  TextComponents = {label}
  BodyComponents = {button}
  Pickers = {picker}
  Painted = {divider, shape}
  Bare = {divider}
  TextValues = {hi}
  PropValues = {1}
  Tokens = {colour, accent, spaceBase, twice}
  Themed = {colour, accent, spaceBase}
  Above <- MCAbove
  Factor <- MCFactor
  SpaceBase = spaceBase
  Defaults <- MCDefaults
  Native <- MCNative
  New <- MCNew
  MaxFrames = 5
INVARIANTS PageAgreesWithTree TokensShown
CHECK_DEADLOCK FALSE
