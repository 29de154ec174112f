\* One decoder; foreign records with keys the SDK rejects as extension names.
CONSTANTS
  PlainVals = {"", "1.0", "a", "p"}
  Ints = {1}
  URIs = {"u"}
  Instants <- MCInstants
  Offsets <- MCOffsets
  YearZeroWall <- MCYearZeroWall
  Year10000Wall = 150
  ExtNames = {"ext", "prior"}
  WireKeys = {"ext", "Subject", "my_ext"}
  BadKeys = {"my_ext"}
  Lower <- MCLower
  GenericMaps <- MCGenericMaps
  d1 = d1
  d2 = d2
  Decoders <- OneDecoder
  Events <- MCEventsMin
  ForeignRecords <- MCForeignBad
  Prior <- MCPrior
  NoData = NoData
  NoWire = NoWire
  Garbage = Garbage
  NoEvent = NoEvent
SPECIFICATION Spec
INVARIANT NoAttributeDropped
