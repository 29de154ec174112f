\* The test registry answers (nil, nil) for types it does not know.
CONSTANTS
  p1 = p1  p2 = p2  sRec = sRec  sVal = sVal  sPlain = sPlain  rTest = rTest  rMap = rMap
  NilReg = NilReg  NilSchema = NilSchema  RegError = RegError  Garbage = Garbage
  Types <- MCTypes
  Receiver <- MCReceiver
  SchemaOf <- MCSchemaOf
  Schemas = {sRec, sVal, sPlain}
  Vals = {1}
  Registries = {rTest}
  Answer <- MCAnswerTest
  Procs = {p1, p2}
  MaxSets = 2
  SetterQuiet = TRUE
SPECIFICATION Spec
INVARIANT NoNilSchema
