SPECIFICATION GtkSpec
CONSTANTS
  VSTACK = VSTACK
  HSTACK = HSTACK
  LAZY_VSTACK = LAZY_VSTACK
  LAZY_HSTACK = LAZY_HSTACK
  GRID = GRID
  TEXT = TEXT
  BUTTON = BUTTON
  TOGGLE = TOGGLE
  TOGGLE_CHECK = TOGGLE_CHECK
  TOGGLE_BUTTON = TOGGLE_BUTTON
  SLIDER = SLIDER
  TEXT_FIELD = TEXT_FIELD
  PICKER = PICKER
  MENU = MENU
  Ids = {1, 2, 3}
  hi = hi
  down = down
  move = move
  downBound = downBound
  moveOnly = moveOnly
  Mask <- MCMask
  Binding = {downBound}
  NoText = NoText
  None = None
  Components = {VSTACK, BUTTON, TEXT_FIELD, TOGGLE, TOGGLE_CHECK}
  Parents = {VSTACK, BUTTON}
  TextValues = {hi}
  PropValues = {downBound, moveOnly}
  Tokens = {}
  New <- MCNew
  Bits = {down, move}
  MaxFrames = 4
INVARIANTS WidgetsFollowTree InputsReported
PROPERTIES OnlyDiscrepanciesCrash
CHECK_DEADLOCK FALSE
