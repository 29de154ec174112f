\* SetSchemaRegistry may run while a call is between the nil check and GetSchema.
CONSTANTS
  p1 = p1  p2 = p2  sRec = sRec  sVal = sVal  sPlain = sPlain  rTest = rTest  rMap = rMap
  NilReg = NilReg  NilSchema = NilSchema  RegError = RegError  Garbage = Garbage
  Types <- MCTypes
  Receiver <- MCReceiver
  SchemaOf <- MCSchemaOf
  Schemas = {sRec, sVal, sPlain}
  Vals = {1}
  Registries = {rTest, rMap}
  Answer <- MCAnswerSafe
  Procs = {p1, p2}
  MaxSets = 2
  SetterQuiet = FALSE
SPECIFICATION Spec
INVARIANT NoRegistryPanic
