# TLA+ models of the Avro CloudEvents format and data codec

This directory holds TLA+ models of the two codecs in this repository. It has:

- the TLC configurations that model-check the models on small instances;
- the TLAPS proofs of their main invariants, which hold for every value of the constants.

## The system

There are two independent components. They share only the hamba/avro schema engine.

- **Envelope codec**, in `binding/format/avro/v2/avro.go`.
  - `avroFmt.Marshal` turns an SDK `event.Event` into a `schema.CloudEventRecord` (`ToAvro`, helped by `attributeValueFor`). It then serialises the record with the engine against the embedded CloudEvents schema.
  - `avroFmt.Unmarshal` deserialises into a fresh record, rebuilds a fresh event (`FromAvro`, helped by `extensionValueFrom`), and only then does `*e = *e2`.
  - `FromAvro` ranges over the record's attribute map, so it visits the keys in Go's unspecified map order.
- **Data codec**, the part of `samples/http/receiver-avro/main.go` after the receiver's `main` (package `avro`, datacodec.go).
  - `EncodeData` passes a `[]byte` through unchanged. For any other value it resolves a schema with `getSchemaFor` and calls the engine.
  - `DecodeData` resolves a schema the same way and decodes into the target.
  - `getSchemaFor` tries the value's own `AvroSchema()` first. It then tries the same on `&v`, and then the process-wide `defaultRegistry`, which `SetSchemaRegistry` writes without synchronisation.
  - The registry is shared state. Any goroutine may call these functions concurrently.

The schema engine, the SDK event (`event.New`, `SetTime`, `SetExtension`) and `cloudevents.avsc` are not under `src/`. They are modelled from spec.md and from their documented behaviour, and are marked `spec_modelled` in `PROJECT.json`.

## Modules

| Module | Models |
|---|---|
| `EnvelopeCodec` | avro.go: Marshal, ToAvro, attributeValueFor, Unmarshal, FromAvro, extensionValueFrom |
| `MCEnvelopeCodec` | the small instances of EnvelopeCodec |
| `EnvelopeCodec_proofs` | proof of type correctness of EnvelopeCodec |
| `EnvelopeAtomic_proofs` | proof that Unmarshal is all or nothing |
| `UnmarshalAbstract` | what Unmarshal promises: one atomic call that fails or yields a well-formed event |
| `EnvelopeRefinement_proofs` | proof that EnvelopeCodec implements UnmarshalAbstract |
| `EnvelopeDecode_proofs` | proof that decoders of the same bytes agree, whatever their map orders |
| `EnvelopeRoundTrip_proofs` | proof that Unmarshal of what Marshal wrote gives the event back |
| `PayloadCodec` | datacodec: EncodeData, DecodeData, getSchemaFor, SetSchemaRegistry |
| `MCPayloadCodec` | the small instances of PayloadCodec, after the types of sender-avro's tests |
| `PayloadCodec_proofs` | proofs of type correctness for PayloadCodec, and that no call panics on a nil registry when the setter waits for calls |
| `PayloadTests` | the datacodec tests of sender-avro/sample.go, run against PayloadCodec |

### EnvelopeCodec

Data is abstract.

- A Go string is a `Text`: a record whose kind says what produced it. The kinds are:
  - a plain string;
  - RFC 3339 text, as a wall clock and a zone in minutes;
  - a URI's `String()`;
  - a JSON encoding of a map.
- A dynamic Go value is `[t |-> <Go type>, ...]`.
- A time is `[inst, off]`, in seconds, where instant 0 is Go's zero time. `Format` is what `Time.Format(RFC3339Nano)` does: it prints the wall clock and the offset truncated to minutes. `Parse` is what `time.Parse` does: it rejects a year outside 0..9999 (`ParseOK`) and rebuilds the instant from the printed offset.

The variables are:

| Variable | Holds |
|---|---|
| `src` | the event handed to Marshal |
| `origin` | who wrote the bytes |
| `mErr` | Marshal's error |
| `wire` | the Avro record on the wire |
| `dec[d]` | per decoding goroutine: pc, the record read, the keys not yet visited, the event being built, the error |
| `target[d]` | the event the caller's `*e` points to |

The actions are:

| Action | Code |
|---|---|
| `Marshal(e)` | `avroFmt.Marshal`, ToAvro included |
| `Deliver(w)` | a record written by another producer arrives |
| `UnmarshalBegin(d)` | the engine's Unmarshal, then FromAvro's required attributes (avro.go:68-73, 157-180) |
| `UnmarshalVisit(d)` | one iteration of FromAvro's loop, for any key not yet visited (avro.go:183-222) |
| `UnmarshalEnd(d)` | the payload, then `*e = *e2` if there was no error (avro.go:224-249, 73-79) |
| `Reset` | the next call, once every decoder has returned |

Because `UnmarshalVisit` may pick any key left to visit, every map order is explored.

`SetExtension` is the SDK's `Event.SetExtension`, which is not under `src/`. It rejects a name in `BadKeys` (the SDK accepts only `[a-zA-Z0-9]+`) and a name that lower-cases to a context attribute (`Reserved`), and then leaves the event unchanged. FromAvro discards that error (avro.go:220).

### UnmarshalAbstract and the refinement

`UnmarshalAbstract` has the same `origin`, `wire` and `target`, and a `status` per decoder: `"idle"` until its call returns, then `"ok"` or `"failed"`. Its `Unmarshal(d)` is one step. It either fails and leaves `target[d]` alone, or succeeds and gives `target[d]` an event whose extensions are named by keys of the wire record. `Produce` writes the bytes, and `AReset` starts the next round.

`EnvelopeCodec` maps onto it through `UnmarshalStatus`, which is computed from `dec[d].pc` and `dec[d].err`. `UnmarshalBegin` on a record and each `UnmarshalVisit` that does not fail are stutters. The step that returns is the abstract `Unmarshal`: the failing `UnmarshalBegin` on garbage, a failing visit, or `UnmarshalEnd`. `UnmarshalRefinement == Abstract!ASpec` is checked as a PROPERTY by `envelope_determinism` and proved by `EnvelopeRefinement_proofs!UnmarshalRefines`.

### PayloadCodec

- A Go value is `[ty, ptr, val]`: its type, whether the interface holds a `*T`, and its contents.
- `Receiver[T]` says whether `T` declares `AvroSchema()` on `T`, on `*T`, or not at all.
- `Answer[r]` is what a registry's `GetSchema` returns: a schema, nil (`NilSchema`) or an error.

The variables are `reg` (`defaultRegistry`), `sets` (the number of setter calls so far) and `call[p]` (one call per goroutine).

`getSchemaFor` reads the global twice: at the nil check (main.go:133) and at the call (main.go:134). So a call is two steps:

- `Call` runs from `EncodeData` or `DecodeData` up to and including the nil check. It records in `seen` the registry the check saw.
- `Lookup` re-reads the registry, calls `GetSchema`, then calls the engine.

`SetSchemaRegistry` may run between those two steps, unless the constant `SetterQuiet` says callers serialise registry changes with their calls, as spec.md section 5 asks. `Return` hands the result back so that the goroutine can call again.

`Provides` is the code's two type assertions. The second one, `interface{}(&v).(SchemaProvider)`, asserts on a `*interface{}`, which has no methods, so it never succeeds.

### PayloadTests

`PayloadTests` runs the four datacodec tests of `sample.go` on one goroutine against `PayloadCodec`. Each test is a sequence of steps (`Set`, `Encode`, `Decode`) built from the test's calls. `Pass` holds the test's require checks.

- `StartTest(t)`: go test starts any test not yet run, which models `-shuffle`.
- `SetStep`: a `SetSchemaRegistry` call.
- `CallStep`: an `EncodeData` or `DecodeData` call. It is `Call`, and then `Lookup` if the call waits on the registry. `via` records where the schema came from.
- `CheckStep`: `Return`. If a require fails, it skips the rest of the test, as `t.FailNow` does.
- `EndTest`: the deferred `SetSchemaRegistry(nil)` of the tests in `Deferred`.

`TestContentTypeConstant` compares a constant and is left out.

## Runs

| Run | Expect | Checks |
|---|---|---|
| `envelope_roundtrip` | pass | `TypeOK`, `RoundTrip`, `UnmarshalAtomic` |
| `envelope_determinism` | pass | `DecodeDeterministic`, `UnmarshalRefinement` |
| `envelope_lmt` | violation | `RoundTrip` |
| `envelope_year10000` | violation | `RoundTrip` |
| `envelope_casekeys` | violation | `DecodeDeterministic` |
| `envelope_badkeys` | violation | `NoAttributeDropped` |
| `payload_resolution` | pass | `TypeOK` |
| `payload_pointer` | violation | `PointerProviderFound` |
| `payload_nilschema` | violation | `NoNilSchema` |
| `payload_setterrace` | violation | `NoRegistryPanic` |
| `payload_tests` | pass | `TestsPass` |
| `payload_registrytest` | violation | `RegistryTestUsesRegistry` |

### What each run shows

- **envelope_roundtrip** (101,586 states).
  - Setup: one decoder. Marshal gets every event whose optional texts are empty or set, whose time is zero or instant 7 at offset 0 or ±60 s, and whose extension `ext` has each supported type, or a type Marshal rejects. Foreign records hold every subset of the keys id, time, subject, ext, `Subject` and `my_ext`, each with values of several wire types. `Subject` lower-cases to a context attribute, and `my_ext` is a name SetExtension rejects.
  - What holds:
    - Every successful Marshal unmarshals to the same event, up to the coercions the spec allows.
    - Unmarshal is all or nothing.
- **envelope_determinism** (59,884 states, with symmetry over the two decoders).
  - Setup: two decoders, each iterating the record in its own order.
  - What holds:
    - Both decoders return the same error and the same event.
    - The behaviours refine `UnmarshalAbstract`.
- **envelope_lmt** (violation): an offset of 90 s prints as +00:01, so the instant changes.
- **envelope_year10000** (violation): instant 200, which is wall clock 200 with `Year10000Wall = 150`, marshals, and its Unmarshal fails.
- **envelope_casekeys** (violation): keys `ext` and `Ext` both become extension `ext`, and the key visited last wins. If that key's value is null, `SetExtension` deletes the extension, so the attribute is lost. TLC finds this with `NoAttributeDropped` on the same instance.
- **envelope_badkeys** (violation): a foreign record with the key `Subject` decodes without error, and the attribute is gone. The same happens to a name the SDK rejects.
- **payload_resolution** (36,380 states).
  - Setup: two goroutines encode and decode the three test types as values and as pointers. Three registry changes happen between calls. The registries installed are the tests' `TestSchemaRegistry` and one that errs on unknown types.
  - What holds: every call record stays well formed (`TypeOK`). In particular, an error from `GetSchema` never reaches the engine as a schema.
  - No other property is checked here. With the setter serialised, no call can panic on a nil registry and the schema used is fixed by the resolution order, so such checks would restate the guards. What goes wrong without the serialisation is shown by `payload_setterrace`, `payload_pointer` and `payload_nilschema`.
- **payload_pointer** (violation): a `TestRecord` value, with a pointer-receiver `AvroSchema`, fails with "no schema available" although its type declares a schema.
- **payload_nilschema** (violation): `TestSchemaRegistry` answers `(nil, nil)` for types other than `TestRecord`, and the nil schema reaches the engine.
- **payload_setterrace** (violation): `SetSchemaRegistry(nil)`, like the test's deferred cleanup, lands between the nil check and the call, and the call panics.
- **payload_tests** (165 states): every require of every test passes in each of the 24 test orders. The registry test installs a process-wide registry, and its defer removes it before `TestDataCodecWithoutSchema` expects "no schema available". Without the defer, that test fails.
- **payload_registrytest** (violation): the calls of the test commented "Encode using registry" get their schema from `*TestRecord`'s own `AvroSchema`, and the registry is never consulted.

Each violation is explained in `PROJECT.json` under "findings".

Each property of a passing run also has a mutant in `PROJECT.json`: a plausible bug in the mapped code that TLC finds. Examples:

- the subject left out of ToAvro;
- `int32(vt)` dropped;
- `*e = *e2` made unconditional;
- each loop iteration writing through to the caller's event;
- a `GetSchema` error ignored;
- the test's deferred `SetSchemaRegistry(nil)` dropped.

### Bounds

- One plain value `a`, one integer, one URI, two non-zero instants and three offsets. These give every branch of attributeValueFor, extensionValueFrom, the time parse and the payload switch, including:
  - the wrapped `bytes` and `string` branches;
  - a JSON map;
  - a NaN that `json.Marshal` rejects.
- One decoder suffices for the round trip, which is a property of a single call. Two decoders give every interleaving of two map orders.
- Deadlock is checked in every envelope and payload codec run: `Reset` and `Return` always let the next call start. The `PayloadTests` runs turn it off, because the test binary stops once every test has run.

## Proofs

All proofs are checked by `tlapm` with no step omitted.

- **`EnvelopeCodec_proofs!TypeCorrect`**: `Spec => []TypeOK`.
  - `TypeOK` alone is not inductive. A decoder's keys to visit must be keys of the record it read and not required attributes, or a visit could read a key that is not there. So the inductive invariant is `IInv == TypeOK /\ TodoInRecord`.
  - The proof has one step per action. It rests on lemmas about each helper:
    - what attributeValueFor, ToAvro and the engine return;
    - that `SetExtension` keeps an event well formed;
    - that one loop iteration (`VisitType`) and the payload step (`DataType`) keep a decoder well formed.
- **`EnvelopeAtomic_proofs!UnmarshalIsAtomic`**: `Spec => []UnmarshalAtomic`.
  - The inductive invariant `AInv` adds three facts to IInv:
    - Nothing is on the wire and no decoder runs while `origin = "none"`. So the bytes do not change under a running decoder.
    - A decoder that has not succeeded leaves the caller's event as `Prior`, and one that has succeeded gave it the event it built.
    - While a decoder runs with no error, its record has the keys of the wire record, and every extension it has built is the lower-cased form of one of those keys.
- **`EnvelopeRefinement_proofs!UnmarshalRefines`**: `Spec => UnmarshalRefinement`.
  - It rests on `AInv`.
    - `AInv` keeps the wire fixed while a decoder runs, so the abstract `Unmarshal` leaves `wire` unchanged.
    - A running decoder has no error, so every step before the return is a stutter.
    - The built extensions come from wire keys, which gives the abstract success condition.
  - The proof has three parts: `Init` maps to `AInit`, every step maps to an abstract step or a stutter, and PTL combines them.
  - Lemma `StatusExcept` says that a step changing one decoder changes only its abstract status.
- **`PayloadCodec_proofs!PayloadTypeCorrect`**: `Spec => []TypeOK`. It is strengthened by the fact that a call waiting for `GetSchema` holds a Go value, not a byte slice.
- **`PayloadCodec_proofs!QuietNoRegistryPanic`**, assuming `SetterQuiet`: `Spec => []NoRegistryPanic`.
  - The invariant says that a call waiting for `GetSchema` has no schema of its own, and that the registry its nil check saw is still installed. The setter cannot run while a call waits.
  - Without `SetterQuiet`, `payload_setterrace` shows that `NoRegistryPanic` fails.
- **`EnvelopeDecode_proofs!DeterministicWithoutCollision`**: `Spec => [](WireNoCollision => DecodeDeterministic)`. It holds for every bytes on the wire: where two keys collide in lower case, `envelope_casekeys` shows the decoders can differ.
  - `DecodeDeterministic` is not inductive, because a decoder that has returned is compared with one still in its loop. So the invariant `DInv` adds to `AInv` what a decoder holds:
    - `DecRecord`: the record it read is the wire record, with the attributes as the engine reads them (`ReadAttrs`).
    - `DecBuilt`: while it loops, its event is `Built(a, V)` for the set `V` of keys it has visited. `Built` depends on that set, not on the order of the visits. Once it has returned, its error is `ErrOf(wire)` and, on success, its event is `Final(wire)`. Both depend on the bytes alone.
  - `Built` depends on the set only when no two keys name the same extension. Otherwise the last key visited wins, which is what `envelope_casekeys` shows. Hence the hypothesis `WireNoCollision`.
  - The lemmas `VisitBuilt` and `DataBuilt` state what one loop iteration and the payload step do to `Built`.
- **`EnvelopeDecode_proofs!AcceptedNotDropped`**: `Spec => [](WireAccepted /\ WireNoCollision => NoAttributeDropped)`.
  - `WireAccepted` says that every non-null key outside the context attributes is a name SetExtension accepts.
  - The proof rests on `DInv`: a decoder that has returned with success holds `Final(wire)`. Its extensions are the lower-cased keys of the record, so every key with a value names an extension. Lemma `ValueNotNil` says that a non-null Avro value decodes to a non-nil extension value.
  - Neither hypothesis can be dropped. `envelope_badkeys` violates `WireAccepted`. A null `ext` with `Ext = "a"` violates `WireNoCollision`, and TLC finds the attribute lost.
- **`EnvelopeRoundTrip_proofs!RoundTripPrintable`**: `Spec => []RoundTrip`, assuming `PrintableTime(e)` for every event `e`: a non-zero time has a whole-minute offset and a wall clock in years 0 to 9999.
  - `envelope_lmt` and `envelope_year10000` show that neither condition can be dropped. `RFC3339Nano` truncates the offset to minutes, and years past 9999 do not print.
  - The invariant `MarshalInv` says that the bytes of a successful Marshal are `MarshalRecord(ToAvro(src))`. With `DInv`, a decoder that has returned holds `ErrOf` and `Final` of that record. Lemma `EncodeDecode` computes both: no error, and the event `src` up to the documented coercions.
  - `EncodeDecode` rests on lemmas for each part: `TimeRoundTrip` for `Format` then `Parse`, `ExtRoundTrip` for `attributeValueFor` then `extensionValueFrom`, `EncodeAttrs` for the context attributes, and `EncodeExt` for the extensions.

The assumptions the proofs use are the named `ASSUME`s of the two component modules:

- the value sets and their types;
- extension names are lower case and reserved for no context attribute;
- `"bytes"` is no payload type;
- `Answer` is a function into schemas, nil and an error;
- neither `NoWire` nor `Garbage` is a record the engine writes (`MarkersAssumption`).

TLC evaluates all of them on every run.

### Only model-checked

The following are outside what TLAPS proves here, and are checked by TLC only:

- `RoundTrip`, `DecodeDeterministic` and `NoAttributeDropped` are proved only under the hypotheses above. The violation runs show that none of them holds without them.
- `PointerProviderFound`, `NoNilSchema` and `RegistryTestUsesRegistry` are the properties of the violation runs. They are false of the code, so there is nothing to prove.
- `TestsPass` is about one fixed instance: the four tests, their types and their registries, in every order go test can choose. TLC explores every order of that instance exhaustively. A TLAPS proof would restate the same finite instance, so it adds nothing.

## Not modelled

- The `init` functions. They register the codecs in external registries and parse the embedded schema. This happens once at startup, and only panics on a malformed resource.
- The constant-returning functions `MediaType` and `StringOfApplicationCloudEventsAvro`.
- The receiver sample program (`main` and `receive` in main.go), which is transport wiring, and `TestContentTypeConstant`.
- go.mod.
- Termination. Every call is synchronous, and FromAvro's loop ranges over a finite map, so no liveness property is stated and `Spec` assumes no fairness.
- A torn read of the `defaultRegistry` interface under a data race. The model treats the write as atomic.
