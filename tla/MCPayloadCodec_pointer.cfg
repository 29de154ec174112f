\* No registry is installed: a TestRecord passed by value has AvroSchema on *TestRecord.
CONSTANTS
  p1 = p1  p2 = p2  sRec = sRec  sVal = sVal  sPlain = sPlain  rTest = rTest  rMap = rMap
  NilReg = NilReg  NilSchema = NilSchema  RegError = RegError  Garbage = Garbage
  Types <- MCTypes
  Receiver <- MCReceiver
  SchemaOf <- MCSchemaOf
  Schemas = {sRec, sVal, sPlain}
  Vals = {1}
  Registries = {}
  Answer <- MCAnswerNone
  Procs = {p1, p2}
  MaxSets = 2
  SetterQuiet = TRUE
SPECIFICATION Spec
INVARIANT PointerProviderFound
