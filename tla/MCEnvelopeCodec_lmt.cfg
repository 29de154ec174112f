\* Events whose time lies in a zone whose offset has a seconds part.
CONSTANTS
  PlainVals = {"", "1.0", "a", "p"}
  Ints = {1}
  URIs = {"u"}
  Instants <- MCInstants
  Offsets <- MCOffsetsLMT
  YearZeroWall <- MCYearZeroWall
  Year10000Wall = 150
  ExtNames = {"ext", "prior"}
  WireKeys = {"ext"}
  BadKeys = {}
  Lower <- MCLower
  GenericMaps <- MCGenericMaps
  d1 = d1
  d2 = d2
  Decoders <- OneDecoder
  Events <- MCEventsLMT
  ForeignRecords <- MCForeign
  Prior <- MCPrior
  NoData = NoData
  NoWire = NoWire
  Garbage = Garbage
  NoEvent = NoEvent
SPECIFICATION Spec
INVARIANT RoundTrip
