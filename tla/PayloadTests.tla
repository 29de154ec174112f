---------------------------- MODULE PayloadTests ----------------------------
(***************************************************************************)
(* The datacodec tests of samples/http/sender-avro/sample.go (package      *)
(* avro_test) run against PayloadCodec.  `go test` runs the test functions *)
(* one after another on one goroutine, in source order or, with -shuffle,  *)
(* in any order; they share the package's defaultRegistry.  Each test is a *)
(* list of steps: a SetSchemaRegistry, or an EncodeData or DecodeData      *)
(* whose result its require calls check.  A failed require ends the test   *)
(* (t.FailNow), and the test's deferred calls run after its last step.     *)
(***************************************************************************)
EXTENDS PayloadCodec, Sequences, TLC

CONSTANTS tProc, sRec, sPlain, rTest, NoTest

\* The goroutine running the tests.
P == tProc

\* TestRecord and schemaProviderRecord declare AvroSchema on their pointer
\* types; TestRecord's AvroSchemaValue is another method name and
\* provides nothing.  NoSchemaRecord declares no method.
TestTypes == {"TestRecord", "schemaProviderRecord", "NoSchemaRecord"}
TestReceiver == [T \in TestTypes |-> IF T = "NoSchemaRecord" THEN "none" ELSE "pointer"]
TestSchemaOf == [T \in TestTypes |-> IF T = "NoSchemaRecord" THEN sPlain ELSE sRec]

\* TestSchemaRegistry.GetSchema: testRecordSchema for a TestRecord or a
\* *TestRecord, (nil, nil) for anything else.
TestAnswer == [r \in {rTest} |-> [T \in TestTypes |-> [ptr \in BOOLEAN |->
                 IF T = "TestRecord" THEN sRec ELSE NilSchema]]]

Ptr(T, v) == [ty |-> T, ptr |-> TRUE, val |-> v]

\* A step: what it calls, with which value, the error its require calls
\* accept and, for a decode, the field value the decoded struct must hold.
Set(r) == [do |-> "set", r |-> r]
Encode(x, e) == [do |-> "encode", x |-> x, err |-> e, want |-> 0]
Decode(x, v) == [do |-> "decode", x |-> x, err |-> "none", want |-> v]

TestDataCodecWithSchemaProvider ==
  << Encode(Ptr("schemaProviderRecord", 42), "none"),
     Decode(Ptr("schemaProviderRecord", 0), 42) >>

TestDataCodecWithBytes == << Encode([ty |-> "bytes", bs |-> Garbage], "none") >>

TestDataCodecWithoutSchema == << Encode(Ptr("NoSchemaRecord", 1), "noschema") >>

TestDataCodecWithSchemaRegistry ==
  << Set(rTest), Encode(Ptr("TestRecord", 100), "none"), Decode(Ptr("TestRecord", 0), 100) >>

Steps == [t \in {"Provider", "Bytes", "WithoutSchema", "Registry"} |->
            CASE t = "Provider"      -> TestDataCodecWithSchemaProvider
              [] t = "Bytes"         -> TestDataCodecWithBytes
              [] t = "WithoutSchema" -> TestDataCodecWithoutSchema
              [] OTHER               -> TestDataCodecWithSchemaRegistry]

\* The tests with `defer avrofmt.SetSchemaRegistry(nil)`.
Deferred == {"Registry"}

\* The require calls after a step: require.NoError or require.Error with
\* "no schema available", require.Equal on the decoded field, and, for a
\* byte slice, require.Equal(original, encoded).
Pass(s, c) ==
  /\ c.err = s.err
  /\ s.do = "decode" => c.res.val = s.want
  /\ (s.do = "encode" /\ s.x.ty = "bytes") => c.res = s.x.bs

VARIABLES
  suite,   \* the tests not yet started
  cur,     \* the test running, or NoTest
  tpc,     \* the index of its next step
  enc,     \* the bytes its last EncodeData returned
  via,     \* how the current call got its schema: "own", "registry" or "none" (history)
  failed   \* the tests a require failed in

tvars == <<suite, cur, tpc, enc, via, failed>>
allvars == <<vars, tvars>>

Step == Steps[cur][tpc]
Running == cur # NoTest /\ tpc <= Len(Steps[cur])

TestInit ==
  /\ Init
  /\ suite = DOMAIN Steps
  /\ cur = NoTest
  /\ tpc = 1
  /\ enc = Garbage
  /\ via = "none"
  /\ failed = {}

\* go test starts the next test function.
StartTest(t) ==
  /\ cur = NoTest
  /\ t \in suite
  /\ suite' = suite \ {t}
  /\ cur' = t
  /\ tpc' = 1
  /\ enc' = Garbage
  /\ UNCHANGED <<vars, via, failed>>

SetStep ==
  /\ Running /\ Step.do = "set"
  /\ SetSchemaRegistry(Step.r)
  /\ tpc' = tpc + 1
  /\ UNCHANGED <<suite, cur, enc, via, failed>>

\* The test goroutine runs its call: EncodeData or DecodeData up to the
\* nil check, then, if it stopped there with a registry installed,
\* GetSchema and the engine.
CallStep ==
  /\ Running /\ Step.do \in {"encode", "decode"}
  /\ IF call[P].pc = "idle"
       THEN /\ Call(P, Step.do, Step.x, enc)
            /\ via' = IF call'[P].pc = "done" /\ Step.x.ty # "bytes" /\ call'[P].err # "noschema"
                      THEN "own" ELSE "none"
       ELSE /\ Lookup(P)
            /\ via' = "registry"
  /\ UNCHANGED <<suite, cur, tpc, enc, failed>>

\* The call returned: the require calls pass and the test goes on, or one
\* fails and t.FailNow skips the rest of the test.
CheckStep ==
  /\ Running /\ call[P].pc = "done"
  /\ Return(P)
  /\ IF Pass(Step, call[P])
       THEN /\ tpc' = tpc + 1
            /\ enc' = IF Step.do = "encode" THEN call[P].res ELSE enc
            /\ UNCHANGED failed
       ELSE /\ tpc' = Len(Steps[cur]) + 1
            /\ failed' = failed \cup {cur}
            /\ UNCHANGED enc
  /\ via' = "none"
  /\ UNCHANGED <<suite, cur>>

\* Mutation: the test forgets to defer SetSchemaRegistry(nil).
EndTestNoDefer ==
  /\ cur # NoTest /\ tpc > Len(Steps[cur])
  /\ UNCHANGED vars
  /\ cur' = NoTest
  /\ UNCHANGED <<suite, tpc, enc, via, failed>>

\* The test function returns: its deferred calls run.
EndTest ==
  /\ cur # NoTest /\ tpc > Len(Steps[cur])
  /\ IF cur \in Deferred THEN SetSchemaRegistry(NilReg) ELSE UNCHANGED vars
  /\ cur' = NoTest
  /\ UNCHANGED <<suite, tpc, enc, via, failed>>

TestNext ==
  \/ \E t \in DOMAIN Steps : StartTest(t)
  \/ SetStep \/ CallStep \/ CheckStep \/ EndTest

\* The test binary exits once every test has run.
TestSpec == TestInit /\ [][TestNext]_allvars

-----------------------------------------------------------------------------

\* Every require of every test passes, in whatever order go test -shuffle
\* runs them: the registry TestDataCodecWithSchemaRegistry installs is
\* removed by its deferred SetSchemaRegistry(nil) before
\* TestDataCodecWithoutSchema expects "no schema available".
TestsPass == failed = {}

\* "Encode using registry" (sample.go:183): the calls of
\* TestDataCodecWithSchemaRegistry get their schema from the registry it
\* installed.
RegistryTestUsesRegistry ==
  (cur = "Registry" /\ call[P].pc = "done") => via = "registry"

=============================================================================
