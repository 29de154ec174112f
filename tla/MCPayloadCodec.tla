--------------------------- MODULE MCPayloadCodec ---------------------------
(***************************************************************************)
(* Small instances of PayloadCodec for TLC, after the types of             *)
(* sender-avro's datacodec tests: TestRecord declares AvroSchema on        *)
(* *TestRecord, a value-receiver type declares it on itself, and a plain   *)
(* struct declares none.                                                   *)
(***************************************************************************)
EXTENDS PayloadCodec, TLC

CONSTANTS p1, p2, sRec, sVal, sPlain, rTest, rMap

MCTypes == {"TestRecord", "ValueRecord", "NoSchemaRecord"}
MCReceiver == [T \in MCTypes |-> CASE T = "TestRecord" -> "pointer"
                                   [] T = "ValueRecord" -> "value"
                                   [] OTHER -> "none"]
MCSchemaOf == [T \in MCTypes |-> CASE T = "TestRecord" -> sRec
                                   [] T = "ValueRecord" -> sVal
                                   [] OTHER -> sPlain]

\* TestSchemaRegistry.GetSchema: the test record's schema for a TestRecord
\* or a *TestRecord, (nil, nil) for anything else.
TestAnswer == [T \in MCTypes |-> [ptr \in BOOLEAN |-> IF T = "TestRecord" THEN sRec ELSE NilSchema]]
\* A registry keyed by type that knows every type and errs on none.
MapAnswer == [T \in MCTypes |-> [ptr \in BOOLEAN |-> MCSchemaOf[T]]]
\* A registry keyed by type that errs on unknown types.
StrictAnswer == [T \in MCTypes |-> [ptr \in BOOLEAN |-> IF T = "NoSchemaRecord" THEN RegError ELSE MCSchemaOf[T]]]

MCAnswerNone == [r \in {} |-> TestAnswer]
MCAnswerTest == [r \in {rTest} |-> TestAnswer]
MCAnswerSafe == [r \in {rTest, rMap} |-> IF r = rTest THEN StrictAnswer ELSE MapAnswer]
MCAnswerAll == [r \in {rTest, rMap} |-> IF r = rTest THEN TestAnswer ELSE StrictAnswer]

=============================================================================
