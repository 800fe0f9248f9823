SPECIFICATION SharedSpec
CONSTANTS
  SlotCount = 3
  FrameWrap = 2
  ArenaBytes = 0
  EventArenaBytes = 2
  Commands = {Reset}
  Reset = Reset
  TextKinds = {textChanged}
  PlainKinds = {click}
  DrainLimits = {1}
  short = short
  long = long
  Texts <- MCTexts
  Blank = Blank
  EntryBytes <- MCEntryBytes
INVARIANTS EventsInPlace TextsIntact TextLostOnlyByReset
