SPECIFICATION Spec
CONSTANTS
  short = short
  long = long
  Blank = Blank
  Codecs = {"delta", "net", "batcher", "frames", "events"}
  Texts = {short, long}
  EntryCells <- MCEntryCells
  MaxOpcodes = 4
  MaxReady = 2
  MaxEvents = 3
INVARIANTS TextsArrive OpcodesInOrder EventsArrive
CHECK_DEADLOCK FALSE
