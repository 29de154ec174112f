\* Two goroutines encode and decode while the registry is changed between
\* calls, never during one.
CONSTANTS
  p1 = p1  p2 = p2  sRec = sRec  sVal = sVal  sPlain = sPlain  rTest = rTest  rMap = rMap
  NilReg = NilReg  NilSchema = NilSchema  RegError = RegError  Garbage = Garbage
  Types <- MCTypes
  Receiver <- MCReceiver
  SchemaOf <- MCSchemaOf
  Schemas = {sRec, sVal, sPlain}
  Vals = {1}
  Registries = {rTest, rMap}
  Answer <- MCAnswerAll
  Procs = {p1, p2}
  MaxSets = 3
  SetterQuiet = TRUE
SPECIFICATION Spec
INVARIANTS TypeOK
