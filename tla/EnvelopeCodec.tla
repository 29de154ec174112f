--------------------------- MODULE EnvelopeCodec ---------------------------
(***************************************************************************)
(* The "application/cloudevents+avro" event format of                      *)
(* binding/format/avro/v2/avro.go: Marshal (ToAvro, then the schema        *)
(* engine's Marshal) and Unmarshal (the engine's Unmarshal, then FromAvro, *)
(* then *e = *e2).                                                         *)
(*                                                                         *)
(* One producer marshals an event, or a foreign producer delivers a        *)
(* record; a set of decoders each run Unmarshal on the same bytes.  The    *)
(* loop of FromAvro over record.Attribute runs in Go's unspecified map     *)
(* order: each iteration is a step FromAvroVisit(d, k) for a key k not yet *)
(* visited, so every order is explored.                                    *)
(*                                                                         *)
(* Data is abstract.  A Go string or byte slice holds a Text, a record     *)
(* whose kind says what produced it: a plain text, an RFC 3339 text        *)
(* (written by Time.Format), a URI's String() or a JSON encoding.  A Go    *)
(* dynamic value (an `any`) is a record [t |-> <Go type>, ...] whose other *)
(* field, named for the kind of value, holds it (b, i, s, u or tm).        *)
(* A time is [inst |-> instant, off |-> zone offset], both in seconds,     *)
(* instant 0 being Go's zero time (0001-01-01T00:00:00Z).                  *)
(***************************************************************************)
EXTENDS Integers, FiniteSets

CONSTANTS
  PlainVals,      \* contents of plain texts ("" included)
  Ints,           \* int32 values an extension or an Avro int may hold
  URIs,           \* URI values (url.URL) an extension may hold
  Instants,       \* instants a time may denote, seconds since Go's zero time
  Offsets,        \* zone offsets, in seconds east of UTC
  YearZeroWall,   \* wall clock (instant + offset) where year 0 begins
  Year10000Wall,  \* wall clock where year 10000 begins
  ExtNames,       \* extension names an SDK event may carry (lower case)
  WireKeys,       \* attribute keys a foreign record may carry
  BadKeys,        \* keys the SDK's extension-name check rejects (not [a-zA-Z0-9]+)
  Lower(_),       \* strings.ToLower on attribute keys
  GenericMaps,    \* Go maps the engine may produce for a record payload
  Decoders,       \* goroutines calling Unmarshal on the same bytes
  Events,         \* events handed to Marshal
  ForeignRecords, \* records on the wire written by another producer
  Prior,          \* the event *e points to before Unmarshal
  NoData,         \* an event without data (e.Data() == nil)
  NoWire,         \* nothing on the wire yet
  Garbage,        \* bytes the engine cannot decode
  NoEvent         \* no event handed to Marshal yet

\* The empty Go string, the value of an unset attribute.
EmptyString == ""
Empty == [kind |-> "plain", val |-> EmptyString]
PlainText(c) == [kind |-> "plain", val |-> c]
UriText(u) == [kind |-> "uri", val |-> u]
TimeText(w, z) == [kind |-> "rfc3339", wall |-> w, zone |-> z]
JsonText(m) == [kind |-> "json", map |-> m]

Required == {"specversion", "id", "source", "type"}
OptionalText == {"datacontenttype", "dataschema", "subject"}
Reserved == Required \cup OptionalText \cup {"time"}

-----------------------------------------------------------------------------
(* Times: time.Time, Format(RFC3339Nano) and Parse.                        *)

ZeroTime == [inst |-> 0, off |-> 0]

\* Go's integer division truncates toward zero.
Quot60(o) == IF o >= 0 THEN o \div 60 ELSE -((-o) \div 60)

\* Format(time.RFC3339Nano) prints the wall clock (instant plus offset)
\* with every digit, and the offset as +hh:mm: the offset's seconds are
\* not printed.
Format(t) == TimeText(t.inst + t.off, Quot60(t.off))

\* Parse accepts a four-digit year only, and reads the offset back from
\* +hh:mm.  Parsing with RFC3339 after RFC3339Nano has failed accepts the
\* same texts (Go accepts a fractional second whatever the layout says), so
\* the fallback at avro.go:207 never changes the outcome.
ParseOK(s) == s.kind = "rfc3339" /\ YearZeroWall <= s.wall /\ s.wall < Year10000Wall
Parse(s) == [inst |-> s.wall - 60 * s.zone, off |-> 60 * s.zone]

\* Event.SetTime stores no time for a zero instant (SDK, not under src/).
SetTimeValue(t) == IF t.inst = 0 THEN ZeroTime ELSE t

-----------------------------------------------------------------------------
(* Values.                                                                 *)

Text == [kind : {"plain"}, val : PlainVals] \cup [kind : {"uri"}, val : URIs]
        \cup [kind : {"rfc3339"}, wall : Int, zone : Int]
        \cup [kind : {"json"}, map : GenericMaps]
Time == [inst : Int, off : Int]
EventTime == {t \in [inst : Instants, off : Offsets] : t.inst = 0 => t.off = 0}

\* Extension values of an SDK event (what types.Validate returns), and a
\* type it rejects.
ExtValue == [t : {"bool"}, b : BOOLEAN] \cup [t : {"int32"}, i : Ints]
            \cup [t : {"string", "bytes"}, s : Text]
            \cup [t : {"uri", "uriref"}, u : URIs]
            \cup [t : {"timestamp"}, tm : Time]
            \cup [t : {"unsupported"}]

\* Go values in CloudEventRecord.Attribute.
GoAttr == [t : {"bool"}, b : BOOLEAN] \cup [t : {"int"}, i : Ints]
          \cup [t : {"string", "bytes"}, s : Text] \cup [t : {"nil"}]

\* Avro values of the attribute map's union null|boolean|int|string|bytes.
AvroAttr == [t : {"boolean"}, b : BOOLEAN] \cup [t : {"int"}, i : Ints]
            \cup [t : {"string", "bytes"}, s : Text] \cup [t : {"null"}]

\* The data union on the wire.
AvroData == [b : {"null"}] \cup [b : {"bytes", "string"}, s : Text]
            \cup [b : {"record"}, m : GenericMaps]

\* Values inside a record payload the engine decodes into a Go map.
GenericValue == [t : {"string", "bytes"}, s : Text] \cup [t : {"double"}, f : {"NaN", "finite"}]

AllKeys == Reserved \cup WireKeys \cup ExtNames
ExtKeys == ExtNames \cup {Lower(k) : k \in WireKeys}

\* f is a Go map (or an Avro map) from keys in D to values in S.
IsMap(f, D, S) == DOMAIN f \subseteq D /\ \A k \in DOMAIN f : f[k] \in S

IsWire(w) ==
  /\ DOMAIN w = {"attr", "data"}
  /\ IsMap(w.attr, AllKeys, AvroAttr)
  /\ w.data \in AvroData

EventFields == Required \cup OptionalText \cup {"time", "ext", "data"}

\* An SDK event.Event, as far as this format reads and writes it.
IsEvent(e) ==
  /\ DOMAIN e = EventFields
  /\ \A f \in Required \cup OptionalText : e[f] \in Text
  /\ e.time \in Time
  /\ IsMap(e.ext, ExtKeys, ExtValue)
  /\ e.data \in Text \cup {NoData}

\* The constants that stand for Go's value domains.
ASSUME ValuesAssumption ==
  /\ {EmptyString, "1.0"} \subseteq PlainVals
  /\ Ints \subseteq Int
  /\ Instants \subseteq Int /\ 0 \in Instants
  /\ Offsets \subseteq Int /\ 0 \in Offsets
  /\ YearZeroWall \in Int /\ Year10000Wall \in Int
  /\ YearZeroWall < 0 /\ 0 < Year10000Wall
  /\ NoData \notin Text /\ NoWire # Garbage

\* An Avro int is a 32-bit integer.
ASSUME Int32Assumption == Ints \subseteq (-2147483647 - 1) .. 2147483647

\* Attribute keys: extension names are lower case, valid and reserved for
\* none of the context attributes; a foreign key may be none of these.
ASSUME KeysAssumption ==
  /\ ExtNames \cap Reserved = {}
  /\ \A k \in WireKeys : Lower(k) \in WireKeys \cup ExtNames \cup Reserved
  /\ \A n \in ExtNames : Lower(n) = n
  /\ BadKeys \subseteq WireKeys \ ExtNames

ASSUME GenericMapsAssumption == \A m \in GenericMaps : \A k \in DOMAIN m : m[k] \in GenericValue

\* The events handed to Marshal and the records delivered are well formed.
ASSUME InputsAssumption ==
  /\ \A e \in Events : IsEvent(e) /\ e.time \in EventTime /\ DOMAIN e.ext \subseteq ExtNames
  /\ IsEvent(Prior)
  /\ \A w \in ForeignRecords : IsWire(w)

\* Records the engine writes; no bytes at all, and bytes it cannot decode,
\* are neither of them.
WireRecords == [attr : UNION {[K -> AvroAttr] : K \in SUBSET AllKeys}, data : AvroData]
ASSUME MarkersAssumption == {NoWire, Garbage} \cap WireRecords = {}

-----------------------------------------------------------------------------
(* ToAvro, attributeValueFor and the engine's Marshal.                     *)

GoNil == [t |-> "nil"]

\* attributeValueFor: the type switch after types.Validate.
attributeValueFor(x) ==
  CASE x.t \in {"bool", "string", "bytes"} -> x
    [] x.t = "int32"                      -> [t |-> "int", i |-> x.i]
    [] x.t \in {"uri", "uriref"}          -> [t |-> "string", s |-> UriText(x.u)]
    [] x.t = "timestamp"                  -> [t |-> "string", s |-> Format(x.tm)]
    [] OTHER                              -> [t |-> "unsupported"]

ToAvroFails(e) == \E n \in DOMAIN e.ext : attributeValueFor(e.ext[n]).t = "unsupported"

\* Mutation: the subject is never written.
ToAvroKeysNoSubject(e) ==
  Required \cup {k \in OptionalText \ {"subject"} : e[k] # Empty}
  \cup (IF e.time # ZeroTime THEN {"time"} ELSE {}) \cup DOMAIN e.ext

\* The attributes ToAvro writes: the required ones always, an optional text
\* only when it is not empty, the time only when it is not the zero time,
\* every extension after attributeValueFor.
ToAvroKeys(e) ==
  Required \cup {k \in OptionalText : e[k] # Empty}
  \cup (IF e.time # ZeroTime THEN {"time"} ELSE {}) \cup DOMAIN e.ext

ToAvroAttr(e, k) ==
  IF k \in Required \cup OptionalText THEN [t |-> "string", s |-> e[k]]
  ELSE IF k = "time" THEN [t |-> "string", s |-> Format(e.time)]
  ELSE attributeValueFor(e.ext[k])

ToAvro(e) ==
  [attr |-> [k \in ToAvroKeys(e) |-> ToAvroAttr(e, k)],
   data |-> IF e.data = NoData THEN GoNil ELSE [t |-> "bytes", s |-> e.data]]

\* The engine resolves each Go value to the union branch of its type.
AvroTypeOf == [bool |-> "boolean", int |-> "int", string |-> "string", bytes |-> "bytes", nil |-> "null"]
GoTypeOf == [boolean |-> "bool", int |-> "int", string |-> "string", bytes |-> "bytes", null |-> "nil"]

MarshalRecord(r) ==
  [attr |-> [k \in DOMAIN r.attr |-> [r.attr[k] EXCEPT !.t = AvroTypeOf[@]]],
   data |-> IF r.data = GoNil THEN [b |-> "null"] ELSE [b |-> "bytes", s |-> r.data.s]]

-----------------------------------------------------------------------------
(* The engine's Unmarshal into a CloudEventRecord, FromAvro,               *)
(* extensionValueFrom.                                                     *)

ReadAttr(x) == [x EXCEPT !.t = GoTypeOf[@]]

\* What record.Data holds after Unmarshal: a primitive branch is returned
\* as it is, or wrapped in a map keyed by the branch's type name (the
\* comment at avro.go:225); a record branch is a map.
ReadData(x) ==
  CASE x.b = "null"                -> {GoNil}
    [] x.b \in {"bytes", "string"} -> {[t |-> x.b, s |-> x.s],
                                       [t |-> "map", m |-> [k \in {x.b} |-> [t |-> x.b, s |-> x.s]]]}
    [] OTHER                       -> {[t |-> "map", m |-> x.m]}

UnmarshalRecords(w) ==
  {[attr |-> [k \in DOMAIN w.attr |-> ReadAttr(w.attr[k])], data |-> dd] : dd \in ReadData(w.data)}

\* event.New(): spec version 1.0, nothing else set.
NewEvent ==
  [specversion |-> PlainText("1.0"), id |-> Empty, source |-> Empty, type |-> Empty,
   datacontenttype |-> Empty, dataschema |-> Empty, subject |-> Empty,
   time |-> ZeroTime, ext |-> [n \in {} |-> GoNil], data |-> NoData]

IsString(r, k) == k \in DOMAIN r.attr /\ r.attr[k].t = "string"

\* FromAvro before its loop: the required attributes that hold a string.
FromAvroRequired(r) ==
  [f \in DOMAIN NewEvent |-> IF f \in Required /\ IsString(r, f) THEN r.attr[f].s ELSE NewEvent[f]]

\* Mutation: an Avro int kept as a Go int, without int32(vt).
extensionValueFromNoInt32(x) ==
  CASE x.t = "nil"                 -> GoNil
    [] x.t \in {"bool", "string", "bytes", "int"} -> x
    [] OTHER                       -> [t |-> "unsupported"]

\* extensionValueFrom: the value an extension gets back, "unsupported" for
\* a type outside the switch.  An int here was read from an Avro int, so
\* int32(vt) keeps its value; the int64 case cannot arise from this schema.
extensionValueFrom(x) ==
  CASE x.t = "nil"                 -> GoNil
    [] x.t \in {"bool", "string", "bytes"} -> x
    [] x.t = "int"                 -> [t |-> "int32", i |-> x.i]
    [] OTHER                       -> [t |-> "unsupported"]

\* Event.SetExtension (SDK, not under src/): a name that is not
\* [a-zA-Z0-9]+, or whose lower case is a context attribute, is rejected
\* and the event keeps its extensions (the error is recorded in the event,
\* not returned); otherwise the name is lower-cased and a nil value
\* removes the extension.
SetExtension(e, name, x) ==
  LET n == Lower(name)
      N == IF x = GoNil THEN DOMAIN e.ext \ {n} ELSE DOMAIN e.ext \cup {n}
  IN  IF name \in BadKeys \/ n \in Reserved THEN e
      ELSE [e EXCEPT !.ext = [m \in N |-> IF m = n THEN x ELSE e.ext[m]]]

\* One iteration of FromAvro's loop, for key k (not a required attribute):
\* the decoder's next state.
FromAvroVisit(dd, k) ==
  LET x == dd.rec.attr[k]
      next == [dd EXCEPT !.todo = @ \ {k}]
  IN  CASE k \in OptionalText ->
             IF x.t = "string" THEN [next EXCEPT !.out[k] = x.s] ELSE next
        [] k = "time" ->
             IF x.t # "string" THEN next
             ELSE IF ParseOK(x.s) THEN [next EXCEPT !.out.time = SetTimeValue(Parse(x.s))]
             ELSE [next EXCEPT !.pc = "done", !.err = "time"]
        [] OTHER ->
             IF extensionValueFrom(x).t = "unsupported" THEN [next EXCEPT !.pc = "done", !.err = "unsupported"]
             ELSE [next EXCEPT !.out = SetExtension(dd.out, k, extensionValueFrom(x))]

HasBranch(m, b) == b \in DOMAIN m /\ m[b].t = b
JsonFails(m) == \E k \in DOMAIN m : m[k].t = "double" /\ m[k].f = "NaN"

\* FromAvro after its loop: the data.  The decoder's next state.
FromAvroData(dd) ==
  LET x == dd.rec.data
      set(c) == [dd EXCEPT !.pc = "done", !.out.data = c]
  IN  IF x.t \in {"bytes", "string"} THEN set(x.s)
      ELSE IF x.t # "map" THEN [dd EXCEPT !.pc = "done"]
      ELSE IF HasBranch(x.m, "bytes") THEN set(x.m["bytes"].s)
      ELSE IF HasBranch(x.m, "string") THEN set(x.m["string"].s)
      ELSE IF JsonFails(x.m) THEN [dd EXCEPT !.pc = "done", !.err = "json"]
      ELSE set(JsonText(x.m))

-----------------------------------------------------------------------------
(* The state machine.                                                      *)

VARIABLES
  src,     \* the event handed to Marshal (a history variable)
  origin,  \* who wrote the bytes: "none", "ours" or "foreign"
  mErr,    \* the error Marshal returned
  wire,    \* the bytes, as the Avro record they encode
  dec,     \* per decoder: pc, the record read, keys left, the event built, error
  target   \* per decoder: the event its *e points to

vars == <<src, origin, mErr, wire, dec, target>>

IdleDecoder == [pc |-> "idle", rec |-> [attr |-> [k \in {} |-> GoNil], data |-> GoNil],
                todo |-> {}, out |-> NewEvent, err |-> "none"]

Init ==
  /\ src = NoEvent
  /\ origin = "none"
  /\ mErr = "none"
  /\ wire = NoWire
  /\ dec = [d \in Decoders |-> IdleDecoder]
  /\ target = [d \in Decoders |-> Prior]

\* avroFmt.Marshal(e): ToAvro, then the engine's Marshal.
Marshal(e) ==
  /\ origin = "none"
  /\ src' = e
  /\ origin' = "ours"
  /\ IF ToAvroFails(e)
       THEN mErr' = "unsupported" /\ wire' = NoWire
       ELSE mErr' = "none" /\ wire' = MarshalRecord(ToAvro(e))
  /\ UNCHANGED <<dec, target>>

\* Bytes written by another producer arrive.
Deliver(w) ==
  /\ origin = "none"
  /\ origin' = "foreign"
  /\ wire' = w
  /\ UNCHANGED <<src, mErr, dec, target>>

\* avroFmt.Unmarshal(b, e) up to FromAvro's loop: the engine's Unmarshal
\* (an error returns at once) and the required attributes.
UnmarshalBegin(d) ==
  /\ dec[d].pc = "idle"
  /\ wire # NoWire
  /\ IF wire = Garbage
       THEN dec' = [dec EXCEPT ![d] = [@ EXCEPT !.pc = "done", !.err = "engine"]]
       ELSE \E r \in UnmarshalRecords(wire) :
              dec' = [dec EXCEPT ![d] = [pc |-> "loop", rec |-> r, todo |-> DOMAIN r.attr \ Required,
                                         out |-> FromAvroRequired(r), err |-> "none"]]
  /\ UNCHANGED <<src, origin, mErr, wire, target>>

\* Mutation: each iteration writes through to the caller's event.
UnmarshalVisitInPlace(d) ==
  /\ dec[d].pc = "loop"
  /\ \E k \in dec[d].todo : dec' = [dec EXCEPT ![d] = FromAvroVisit(@, k)]
  /\ target' = [target EXCEPT ![d] = dec'[d].out]
  /\ UNCHANGED <<src, origin, mErr, wire>>

\* One iteration of FromAvro's loop, over a key not yet visited.
UnmarshalVisit(d) ==
  /\ dec[d].pc = "loop"
  /\ \E k \in dec[d].todo : dec' = [dec EXCEPT ![d] = FromAvroVisit(@, k)]
  /\ UNCHANGED <<src, origin, mErr, wire, target>>

\* Mutation: *e = *e2 even when FromAvro failed.
UnmarshalEndAlways(d) ==
  /\ dec[d].pc = "loop"
  /\ dec[d].todo = {}
  /\ dec' = [dec EXCEPT ![d] = FromAvroData(@)]
  /\ target' = [target EXCEPT ![d] = dec'[d].out]
  /\ UNCHANGED <<src, origin, mErr, wire>>

\* The end of FromAvro (the data), and *e = *e2 when it returned no error.
UnmarshalEnd(d) ==
  /\ dec[d].pc = "loop"
  /\ dec[d].todo = {}
  /\ dec' = [dec EXCEPT ![d] = FromAvroData(@)]
  /\ target' = IF dec'[d].err = "none" THEN [target EXCEPT ![d] = dec'[d].out] ELSE target
  /\ UNCHANGED <<src, origin, mErr, wire>>

\* The next call: every decoder has returned or never ran.
Reset ==
  /\ origin # "none"
  /\ \A d \in Decoders : dec[d].pc \in {"idle", "done"}
  /\ src' = NoEvent
  /\ origin' = "none"
  /\ mErr' = "none"
  /\ wire' = NoWire
  /\ dec' = [d \in Decoders |-> IdleDecoder]
  /\ target' = [d \in Decoders |-> Prior]

Next ==
  \/ \E e \in Events : Marshal(e)
  \/ \E w \in ForeignRecords \cup {Garbage} : Deliver(w)
  \/ \E d \in Decoders : UnmarshalBegin(d) \/ UnmarshalVisit(d) \/ UnmarshalEnd(d)
  \/ Reset

Spec == Init /\ [][Next]_vars

-----------------------------------------------------------------------------
(* Properties.                                                             *)

GoMap == GenericMaps \cup [{"bytes"} -> [t : {"bytes"}, s : Text]] \cup [{"string"} -> [t : {"string"}, s : Text]]
GoData == {GoNil} \cup [t : {"bytes", "string"}, s : Text] \cup [t : {"map"}, m : GoMap]
IsGoRecord(r) ==
  /\ DOMAIN r = {"attr", "data"}
  /\ IsMap(r.attr, AllKeys, GoAttr)
  /\ r.data \in GoData

Errors == {"none", "engine", "time", "unsupported", "json"}

\* The strengthening of TypeOK that makes it inductive: a decoder in its
\* loop has only keys of the record it read, other than the required
\* ones, left to visit.
TodoInRecord == \A d \in Decoders : dec[d].todo \subseteq DOMAIN dec[d].rec.attr \ Required

IsDecoder(x) ==
  /\ DOMAIN x = {"pc", "rec", "todo", "out", "err"}
  /\ x.pc \in {"idle", "loop", "done"}
  /\ IsGoRecord(x.rec)
  /\ x.todo \subseteq AllKeys
  /\ IsEvent(x.out)
  /\ x.err \in Errors

\* Every variable holds a value of its type.
TypeOK ==
  /\ src \in Events \cup {NoEvent}
  /\ origin \in {"none", "ours", "foreign"}
  /\ mErr \in {"none", "unsupported"}
  /\ wire \in {NoWire, Garbage} \/ IsWire(wire)
  /\ DOMAIN dec = Decoders /\ \A d \in Decoders : IsDecoder(dec[d])
  /\ DOMAIN target = Decoders /\ \A d \in Decoders : IsEvent(target[d])

\* What the spec says an extension value becomes after Marshal and
\* Unmarshal: a URI or URI-reference its string, a timestamp its RFC 3339
\* text, any other value itself.
Coerced(x) ==
  CASE x.t \in {"uri", "uriref"} -> [t |-> "string", s |-> UriText(x.u)]
    [] x.t = "timestamp"         -> [t |-> "string", s |-> Format(x.tm)]
    [] OTHER                     -> x

\* e2 is what decoding the encoding of e must give (spec.md section 8):
\* every text attribute exactly, the time as the same instant, every
\* extension after one coercion, the data bytes, and no data for none.
RoundTripOf(e2, e) ==
  /\ \A f \in Required \cup OptionalText : e2[f] = e[f]
  /\ e2.time.inst = e.time.inst
  /\ e2.ext = [n \in DOMAIN e.ext |-> Coerced(e.ext[n])]
  /\ e2.data = e.data

\* Round trip (avro.go ToAvro/FromAvro, Marshal/Unmarshal): when Marshal
\* succeeded, every Unmarshal of its bytes that has returned returned no
\* error and gave the caller the event that was marshalled, up to the
\* coercions the spec allows.
RoundTrip ==
  \A d \in Decoders :
    (origin = "ours" /\ mErr = "none" /\ dec[d].pc = "done")
      => dec[d].err = "none" /\ RoundTripOf(target[d], src)

\* Unmarshal is all or nothing (avro.go:68-79, *e = *e2 only after
\* FromAvro succeeded): until it returns without error the caller's event
\* is untouched, and once it has, nothing of the old event survives: every
\* extension of the result comes from a key of the record on the wire.
UnmarshalAtomic ==
  \A d \in Decoders :
    /\ (dec[d].pc # "done" \/ dec[d].err # "none") => target[d] = Prior
    /\ (dec[d].pc = "done" /\ dec[d].err = "none")
         => DOMAIN target[d].ext \subseteq {Lower(k) : k \in DOMAIN wire.attr}

\* Decoding is deterministic (spec.md 4.1): two Unmarshal calls on the same
\* bytes, each walking record.Attribute in its own map order, return the
\* same error and the same event.
DecodeDeterministic ==
  \A d1, d2 \in Decoders :
    (dec[d1].pc = "done" /\ dec[d2].pc = "done")
      => dec[d1].err = dec[d2].err /\ target[d1] = target[d2]

\* No attribute of a record is dropped in silence (spec.md 4.1 step 3 and
\* section 7, avro.go:214-220): when Unmarshal succeeds, every key of the
\* record that is not a context attribute and holds a value names an
\* extension of the event it returns.
NoAttributeDropped ==
  \A d \in Decoders :
    (dec[d].pc = "done" /\ dec[d].err = "none") =>
      \A k \in DOMAIN wire.attr \ Reserved :
        wire.attr[k].t # "null" => Lower(k) \in DOMAIN target[d].ext

\* The refinement mapping to UnmarshalAbstract: a decoder is "idle" there
\* until its Unmarshal returns; the steps before its return are stutters.
UnmarshalStatus ==
  [d \in Decoders |-> IF dec[d].pc # "done" THEN "idle"
                      ELSE IF dec[d].err = "none" THEN "ok" ELSE "failed"]

Abstract == INSTANCE UnmarshalAbstract WITH status <- UnmarshalStatus, IsEventC <- IsEvent, IsWireC <- IsWire

\* avroFmt.Unmarshal implements the atomic call of UnmarshalAbstract
\* (avro.go:68-79): seen from its caller, each call is one step on bytes
\* that stay put, which fails with *e untouched or succeeds with a
\* well-formed event built from the record, however the engine, FromAvro's
\* loop and the other decoders interleave.
UnmarshalRefinement == Abstract!ASpec

=============================================================================
