\* Two decoders run Unmarshal on the same foreign bytes, each in its own map order.
CONSTANTS
  PlainVals = {"", "1.0", "a", "p"}
  Ints = {1}
  URIs = {"u"}
  Instants <- MCInstants
  Offsets <- MCOffsets
  YearZeroWall <- MCYearZeroWall
  Year10000Wall = 150
  ExtNames = {"ext", "prior"}
  WireKeys = {"ext"}
  BadKeys = {}
  Lower <- MCLower
  GenericMaps <- MCGenericMaps
  d1 = d1
  d2 = d2
  Decoders <- TwoDecoders
  Events <- MCEventsMin
  ForeignRecords <- MCForeign
  Prior <- MCPrior
  NoData = NoData
  NoWire = NoWire
  Garbage = Garbage
  NoEvent = NoEvent
SPECIFICATION Spec
INVARIANTS DecodeDeterministic
PROPERTIES UnmarshalRefinement
SYMMETRY Symmetry
