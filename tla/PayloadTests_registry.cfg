\* The registry test, whose comment says it encodes using the registry.
CONSTANTS
  tProc = tProc  sRec = sRec  sPlain = sPlain  rTest = rTest  NoTest = NoTest
  NilReg = NilReg  NilSchema = NilSchema  RegError = RegError  Garbage = Garbage
  Types <- TestTypes
  Receiver <- TestReceiver
  SchemaOf <- TestSchemaOf
  Schemas = {sRec, sPlain}
  Vals = {0, 1, 42, 100}
  Registries = {rTest}
  Answer <- TestAnswer
  Procs = {tProc}
  MaxSets = 2
  SetterQuiet = TRUE
SPECIFICATION TestSpec
INVARIANT RegistryTestUsesRegistry
CHECK_DEADLOCK FALSE
