\* Two decoders; foreign records whose keys differ only in case.
CONSTANTS
  PlainVals = {"", "1.0", "a", "p"}
  Ints = {1}
  URIs = {"u"}
  Instants <- MCInstants
  Offsets <- MCOffsets
  YearZeroWall <- MCYearZeroWall
  Year10000Wall = 150
  ExtNames = {"ext", "prior"}
  WireKeys = {"ext", "Ext"}
  BadKeys = {}
  Lower <- MCLower
  GenericMaps <- MCGenericMaps
  d1 = d1
  d2 = d2
  Decoders <- TwoDecoders
  Events <- MCEventsMin
  ForeignRecords <- MCForeignCase
  Prior <- MCPrior
  NoData = NoData
  NoWire = NoWire
  Garbage = Garbage
  NoEvent = NoEvent
SPECIFICATION Spec
INVARIANT DecodeDeterministic
