SPECIFICATION FairSpec
CONSTANTS
  SlotCount = 4
  FrameWrap = 2
  ArenaBytes = 3
  Commands = {c1}
  short = short
  long = long
  Texts <- MCTexts
  Blank = Blank
  EntryBytes <- MCEntryBytes
INVARIANTS TypeOK DeliveredInOrder
PROPERTIES WrapIsFinal ChannelSpec FramesDelivered
