------------------------ MODULE EnvelopeCodec_proofs ------------------------
(***************************************************************************)
(* Proofs about EnvelopeCodec for every value of its constants: the type   *)
(* invariant, through the inductive invariant TypeOK /\ TodoInRecord.      *)
(***************************************************************************)
EXTENDS EnvelopeCodec, TLAPS

-----------------------------------------------------------------------------
(* Lemmas about the conversions.                                           *)

\* Time.Format(RFC3339Nano) of any time is an RFC 3339 text (avro.go:105,
\* :150).
LEMMA FormatText ==
  ASSUME NEW t \in Time
  PROVE  Format(t) \in Text
BY DEF Format, TimeText, Quot60, Text, Time

\* Parsing a text Parse accepts gives a time, and so does Event.SetTime of it
\* (avro.go:204-212).
LEMMA ParseTime ==
  ASSUME NEW s \in Text, ParseOK(s)
  PROVE  SetTimeValue(Parse(s)) \in Time
BY DEF ParseOK, Parse, SetTimeValue, ZeroTime, Text, Time

LEMMA PlainBasics == {EmptyString, "1.0"} \subseteq PlainVals
BY ValuesAssumption

\* event.New() is an event (avro.go:158).
LEMMA NewEventIsEvent == IsEvent(NewEvent)
<1>1. DOMAIN NewEvent = EventFields
  BY DEF NewEvent, EventFields, Required, OptionalText
<1>2. \A f \in Required \cup OptionalText : NewEvent[f] \in Text
  <2>1. \A f \in Required \cup OptionalText : NewEvent[f] \in {Empty, PlainText("1.0")}
    BY DEF NewEvent, Required, OptionalText
  <2>2. {Empty, PlainText("1.0")} \subseteq Text
    BY PlainBasics DEF Empty, PlainText, Text
  <2>. QED  BY <2>1, <2>2
<1>3. NewEvent.time \in Time
  BY DEF NewEvent, ZeroTime, Time
<1>4. IsMap(NewEvent.ext, ExtKeys, ExtValue)
  BY DEF NewEvent, IsMap
<1>5. NewEvent.data \in Text \cup {NoData}
  BY DEF NewEvent
<1>. QED  BY <1>1, <1>2, <1>3, <1>4, <1>5 DEF IsEvent


-----------------------------------------------------------------------------
(* Marshal: ToAvro and the engine's Marshal write a record of the schema.  *)

\* attributeValueFor turns every extension value it accepts into a Go value
\* the attribute map may hold (avro.go:127-154).
LEMMA AttributeValueForType ==
  ASSUME NEW x \in ExtValue, attributeValueFor(x).t # "unsupported"
  PROVE  attributeValueFor(x) \in GoAttr
<1>1. CASE x.t \in {"bool", "string", "bytes"}
  BY <1>1 DEF attributeValueFor, ExtValue, GoAttr
<1>2. CASE x.t = "int32"
  BY <1>2 DEF attributeValueFor, ExtValue, GoAttr
<1>3. CASE x.t \in {"uri", "uriref"}
  BY <1>3 DEF attributeValueFor, ExtValue, GoAttr, UriText, Text
<1>4. CASE x.t = "timestamp"
  <2>1. x.tm \in Time
    BY <1>4 DEF ExtValue
  <2>2. Format(x.tm) \in Text
    BY <2>1, FormatText
  <2>. QED  BY <1>4, <2>2 DEF attributeValueFor, GoAttr
<1>5. CASE x.t = "unsupported"
  BY <1>5 DEF attributeValueFor
<1>. QED  BY <1>1, <1>2, <1>3, <1>4, <1>5 DEF ExtValue

\* The keys of the extension map are attribute keys.
LEMMA ExtKeysInAllKeys == ExtKeys \subseteq AllKeys
BY KeysAssumption DEF ExtKeys, AllKeys

\* Each attribute ToAvro writes holds a Go value of the map (avro.go:87-115).
LEMMA ToAvroAttrType ==
  ASSUME NEW e, IsEvent(e), ~ToAvroFails(e), NEW k \in ToAvroKeys(e)
  PROVE  ToAvroAttr(e, k) \in GoAttr
<1>1. CASE k \in Required \cup OptionalText
  BY <1>1 DEF ToAvroAttr, IsEvent, GoAttr
<1>2. CASE k = "time"
  <2>1. Format(e.time) \in Text
    BY FormatText DEF IsEvent
  <2>. QED  BY <1>2, <2>1 DEF ToAvroAttr, GoAttr, Required, OptionalText
<1>3. CASE k \notin Required \cup OptionalText /\ k # "time"
  <2>1. k \in DOMAIN e.ext
    BY <1>3 DEF ToAvroKeys
  <2>2. e.ext[k] \in ExtValue
    BY <2>1 DEF IsEvent, IsMap
  <2>3. attributeValueFor(e.ext[k]).t # "unsupported"
    BY <2>1 DEF ToAvroFails
  <2>. QED  BY <1>3, <2>2, <2>3, AttributeValueForType DEF ToAvroAttr
<1>. QED  BY <1>1, <1>2, <1>3

\* The engine writes each Go attribute value as the union branch of its type.
LEMMA MarshalAttrType ==
  ASSUME NEW x \in GoAttr
  PROVE  [x EXCEPT !.t = AvroTypeOf[@]] \in AvroAttr
BY DEF GoAttr, AvroAttr, AvroTypeOf

\* Marshal writes a record of the schema for every event ToAvro accepts
\* (avro.go:60-66).
LEMMA MarshalWire ==
  ASSUME NEW e, IsEvent(e), ~ToAvroFails(e)
  PROVE  IsWire(MarshalRecord(ToAvro(e)))
<1>. DEFINE r == ToAvro(e)
<1>1. DOMAIN r.attr = ToAvroKeys(e) /\ \A k \in ToAvroKeys(e) : r.attr[k] = ToAvroAttr(e, k)
  BY DEF ToAvro
<1>2. ToAvroKeys(e) \subseteq AllKeys
  BY ExtKeysInAllKeys DEF ToAvroKeys, IsEvent, IsMap, AllKeys, Reserved
<1>3. \A k \in ToAvroKeys(e) : [r.attr[k] EXCEPT !.t = AvroTypeOf[@]] \in AvroAttr
  BY <1>1, ToAvroAttrType, MarshalAttrType
<1>4. IsMap(MarshalRecord(r).attr, AllKeys, AvroAttr)
  BY <1>1, <1>2, <1>3 DEF MarshalRecord, IsMap
<1>5. MarshalRecord(r).data \in AvroData
  <2>1. e.data \in Text \cup {NoData}
    BY DEF IsEvent
  <2>. QED  BY <2>1 DEF MarshalRecord, ToAvro, GoNil, AvroData
<1>. QED  BY <1>4, <1>5 DEF IsWire, MarshalRecord


-----------------------------------------------------------------------------
(* Unmarshal: what the engine reads and FromAvro builds.                   *)

\* The engine reads each attribute back as the Go type of its branch.
LEMMA ReadAttrType ==
  ASSUME NEW x \in AvroAttr
  PROVE  ReadAttr(x) \in GoAttr
BY DEF AvroAttr, GoAttr, ReadAttr, GoTypeOf

\* What the engine may leave in record.Data is a Go value of the data slot.
LEMMA ReadDataType ==
  ASSUME NEW x \in AvroData
  PROVE  ReadData(x) \subseteq GoData
<1>1. CASE x.b = "null"
  BY <1>1 DEF ReadData, GoData
<1>2. CASE x.b \in {"bytes", "string"}
  <2>1. x.s \in Text
    BY <1>2 DEF AvroData
  <2>2. CASE x.b = "bytes"
    BY <1>2, <2>1, <2>2 DEF ReadData, GoData, GoMap
  <2>3. CASE x.b = "string"
    BY <1>2, <2>1, <2>3 DEF ReadData, GoData, GoMap
  <2>. QED  BY <1>2, <2>2, <2>3
<1>3. CASE x.b = "record"
  BY <1>3 DEF ReadData, GoData, GoMap, AvroData
<1>. QED  BY <1>1, <1>2, <1>3 DEF AvroData

\* Every CloudEventRecord the engine may decode from a record of the schema
\* has the record's keys and Go values of the map.
LEMMA RecordsType ==
  ASSUME NEW w, IsWire(w), NEW r \in UnmarshalRecords(w)
  PROVE  IsGoRecord(r) /\ DOMAIN r.attr = DOMAIN w.attr
<1>1. PICK dd \in ReadData(w.data) : r = [attr |-> [k \in DOMAIN w.attr |-> ReadAttr(w.attr[k])], data |-> dd]
  BY DEF UnmarshalRecords
<1>2. dd \in GoData
  BY ReadDataType DEF IsWire
<1>3. \A k \in DOMAIN w.attr : ReadAttr(w.attr[k]) \in GoAttr
  BY ReadAttrType DEF IsWire, IsMap
<1>. QED  BY <1>1, <1>2, <1>3 DEF IsGoRecord, IsMap, IsWire

\* A Go string of the attribute map holds a text.
LEMMA StringAttr ==
  ASSUME NEW x \in GoAttr, x.t = "string"
  PROVE  x.s \in Text
BY DEF GoAttr

\* FromAvro before its loop builds an event (avro.go:157-180).
LEMMA RequiredType ==
  ASSUME NEW r, IsGoRecord(r)
  PROVE  IsEvent(FromAvroRequired(r))
<1>. DEFINE e == FromAvroRequired(r)
<1>1. DOMAIN e = EventFields
  BY NewEventIsEvent DEF FromAvroRequired, IsEvent
<1>2. ASSUME NEW f \in Required \cup OptionalText PROVE e[f] \in Text
  <2>1. CASE f \in Required /\ IsString(r, f)
    <3>1. e[f] = r.attr[f].s
      BY <2>1 DEF FromAvroRequired, NewEvent, Required
    <3>2. r.attr[f] \in GoAttr
      BY <2>1 DEF IsString, IsGoRecord, IsMap
    <3>. QED  BY <2>1, <3>1, <3>2, StringAttr DEF IsString
  <2>2. CASE ~(f \in Required /\ IsString(r, f))
    BY <2>2, NewEventIsEvent DEF FromAvroRequired, IsEvent, NewEvent, EventFields
  <2>. QED  BY <2>1, <2>2
<1>3. \A f \in {"time", "ext", "data"} : e[f] = NewEvent[f]
  BY DEF FromAvroRequired, NewEvent, Required
<1>. QED  BY <1>1, <1>2, <1>3, NewEventIsEvent DEF IsEvent


\* extensionValueFrom gives back nil or an extension value for every Go
\* value of the map (avro.go:253-274).
LEMMA ExtensionValueFromType ==
  ASSUME NEW x \in GoAttr, extensionValueFrom(x).t # "unsupported"
  PROVE  extensionValueFrom(x) \in ExtValue \cup {GoNil}
BY DEF extensionValueFrom, GoAttr, ExtValue, GoNil

\* Replacing the extension map of an event by another one keeps it an event.
LEMMA ExtOnlyChanged ==
  ASSUME NEW e, IsEvent(e), NEW F, IsMap(F, ExtKeys, ExtValue)
  PROVE  IsEvent([e EXCEPT !.ext = F])
<1>1. "ext" \in DOMAIN e /\ "ext" \notin Required \cup OptionalText /\ "time" # "ext" /\ "data" # "ext"
  BY DEF IsEvent, EventFields, Required, OptionalText
<1>. DEFINE e2 == [e EXCEPT !.ext = F]
<1>2. DOMAIN e2 = EventFields
  BY DEF IsEvent
<1>3. e2.ext = F /\ e2.time = e.time /\ e2.data = e.data
  BY <1>1 DEF IsEvent, EventFields
<1>4. \A f \in Required \cup OptionalText : e2[f] = e[f]
  BY <1>1 DEF IsEvent, EventFields
<1>. QED  BY <1>2, <1>3, <1>4 DEF IsEvent

\* SetExtension keeps an event an event, its extension map keyed by
\* extension keys (the SDK's Event.SetExtension).
LEMMA SetExtensionType ==
  ASSUME NEW e, IsEvent(e), NEW k \in WireKeys \cup ExtNames, NEW x \in ExtValue \cup {GoNil}
  PROVE  IsEvent(SetExtension(e, k, x))
<1>1. Lower(k) \in ExtKeys
  BY KeysAssumption DEF ExtKeys
<1>. DEFINE n == Lower(k)
            N == IF x = GoNil THEN DOMAIN e.ext \ {n} ELSE DOMAIN e.ext \cup {n}
<1>2. N \subseteq ExtKeys
  BY <1>1 DEF IsEvent, IsMap
<1>3. \A m \in N : (IF m = n THEN x ELSE e.ext[m]) \in ExtValue
  BY DEF IsEvent, IsMap
<1>4. CASE k \in BadKeys \/ n \in Reserved
  BY <1>4 DEF SetExtension
<1>5. CASE ~(k \in BadKeys \/ n \in Reserved)
  <2>1. SetExtension(e, k, x) = [e EXCEPT !.ext = [m \in N |-> IF m = n THEN x ELSE e.ext[m]]]
    BY <1>5 DEF SetExtension
  <2>2. IsMap([m \in N |-> IF m = n THEN x ELSE e.ext[m]], ExtKeys, ExtValue)
    BY <1>2, <1>3 DEF IsMap
  <2>. QED  BY <2>1, <2>2, ExtOnlyChanged
<1>. QED  BY <1>4, <1>5

\* A key FromAvro's loop visits is an optional text, the time, or an
\* extension key.
LEMMA LoopKeys ==
  ASSUME NEW k \in AllKeys \ Required, k \notin OptionalText, k # "time"
  PROVE  k \in WireKeys \cup ExtNames
BY DEF AllKeys, Reserved


\* Setting a text attribute, the time or the data of an event to a value
\* of its type keeps it an event (the SDK's setters).
LEMMA FieldChanged ==
  ASSUME NEW e, IsEvent(e)
  PROVE  /\ \A f \in Required \cup OptionalText, v \in Text : IsEvent([e EXCEPT ![f] = v])
         /\ \A t \in Time : IsEvent([e EXCEPT !.time = t])
         /\ \A c \in Text : IsEvent([e EXCEPT !.data = c])
BY DEF IsEvent, EventFields, Required, OptionalText

\* One iteration of FromAvro's loop keeps a decoder a decoder, its record
\* the same and its keys left to visit fewer (avro.go:183-222).
LEMMA VisitType ==
  ASSUME NEW dd, IsDecoder(dd), dd.todo \subseteq DOMAIN dd.rec.attr \ Required,
         NEW k \in dd.todo
  PROVE  LET dd2 == FromAvroVisit(dd, k)
         IN  IsDecoder(dd2) /\ dd2.rec = dd.rec /\ dd2.todo \subseteq dd.todo
<1>. DEFINE x == dd.rec.attr[k]
            next == [dd EXCEPT !.todo = @ \ {k}]
<1>1. x \in GoAttr /\ k \in AllKeys \ Required
  BY DEF IsDecoder, IsGoRecord, IsMap
<1>2. IsDecoder(next) /\ next.rec = dd.rec /\ next.todo \subseteq dd.todo /\ next.out = dd.out
  BY DEF IsDecoder
<1>3. CASE k \in OptionalText
  <2>1. CASE x.t = "string"
    <3>1. IsEvent([next.out EXCEPT ![k] = x.s])
      BY <1>1, <1>2, <1>3, <2>1, StringAttr, FieldChanged DEF IsDecoder
    <3>2. FromAvroVisit(dd, k) = [next EXCEPT !.out = [next.out EXCEPT ![k] = x.s]]
      BY <1>3, <2>1 DEF FromAvroVisit, OptionalText
    <3>3. LET dd2 == [next EXCEPT !.out = [next.out EXCEPT ![k] = x.s]]
          IN  IsDecoder(dd2) /\ dd2.rec = next.rec /\ dd2.todo = next.todo
      BY <1>2, <3>1 DEF IsDecoder
    <3>. QED  BY <1>2, <3>2, <3>3
  <2>2. CASE x.t # "string"
    <3>1. FromAvroVisit(dd, k) = next
      BY <1>3, <2>2 DEF FromAvroVisit, OptionalText
    <3>. QED  BY <1>2, <3>1
  <2>. QED  BY <2>1, <2>2
<1>4. CASE k = "time"
  <2>1. k \notin OptionalText
    BY <1>4 DEF OptionalText
  <2>2. CASE x.t = "string" /\ ParseOK(x.s)
    <3>1. IsEvent([next.out EXCEPT !.time = SetTimeValue(Parse(x.s))])
      BY <1>1, <1>2, <2>2, StringAttr, ParseTime, FieldChanged DEF IsDecoder
    <3>2. FromAvroVisit(dd, k) = [next EXCEPT !.out = [next.out EXCEPT !.time = SetTimeValue(Parse(x.s))]]
      BY <1>4, <2>1, <2>2 DEF FromAvroVisit
    <3>3. LET dd2 == [next EXCEPT !.out = [next.out EXCEPT !.time = SetTimeValue(Parse(x.s))]]
          IN  IsDecoder(dd2) /\ dd2.rec = next.rec /\ dd2.todo = next.todo
      BY <1>2, <3>1 DEF IsDecoder
    <3>. QED  BY <1>2, <3>2, <3>3
  <2>3. CASE x.t = "string" /\ ~ParseOK(x.s)
    <3>1. FromAvroVisit(dd, k) = [next EXCEPT !.pc = "done", !.err = "time"]
      BY <1>4, <2>1, <2>3 DEF FromAvroVisit
    <3>2. LET dd2 == [next EXCEPT !.pc = "done", !.err = "time"]
          IN  IsDecoder(dd2) /\ dd2.rec = next.rec /\ dd2.todo = next.todo
      BY <1>2 DEF IsDecoder, Errors
    <3>. QED  BY <1>2, <3>1, <3>2
  <2>4. CASE x.t # "string"
    <3>1. FromAvroVisit(dd, k) = next
      BY <1>4, <2>1, <2>4 DEF FromAvroVisit
    <3>. QED  BY <1>2, <3>1
  <2>. QED  BY <2>2, <2>3, <2>4
<1>5. CASE k \notin OptionalText /\ k # "time"
  <2>1. k \in WireKeys \cup ExtNames
    BY <1>1, <1>5, LoopKeys
  <2>2. CASE extensionValueFrom(x).t = "unsupported"
    <3>1. FromAvroVisit(dd, k) = [next EXCEPT !.pc = "done", !.err = "unsupported"]
      BY <1>5, <2>2 DEF FromAvroVisit
    <3>2. LET dd2 == [next EXCEPT !.pc = "done", !.err = "unsupported"]
          IN  IsDecoder(dd2) /\ dd2.rec = next.rec /\ dd2.todo = next.todo
      BY <1>2 DEF IsDecoder, Errors
    <3>. QED  BY <1>2, <3>1, <3>2
  <2>3. CASE extensionValueFrom(x).t # "unsupported"
    <3>1. extensionValueFrom(x) \in ExtValue \cup {GoNil}
      BY <1>1, <2>3, ExtensionValueFromType
    <3>2. IsEvent(SetExtension(dd.out, k, extensionValueFrom(x)))
      BY <2>1, <3>1, SetExtensionType DEF IsDecoder
    <3>3. FromAvroVisit(dd, k) = [next EXCEPT !.out = SetExtension(dd.out, k, extensionValueFrom(x))]
      BY <1>5, <2>3 DEF FromAvroVisit
    <3>4. LET dd2 == [next EXCEPT !.out = SetExtension(dd.out, k, extensionValueFrom(x))]
          IN  IsDecoder(dd2) /\ dd2.rec = next.rec /\ dd2.todo = next.todo
      BY <1>2, <3>2 DEF IsDecoder
    <3>. QED  BY <1>2, <3>3, <3>4
  <2>. QED  BY <2>2, <2>3
<1>. QED  BY <1>3, <1>4, <1>5

\* A wrapped branch of a payload map holds a text (avro.go:234-237).
LEMMA BranchText ==
  ASSUME NEW m \in GoMap, NEW b \in {"bytes", "string"}, HasBranch(m, b)
  PROVE  m[b].s \in Text
<1>1. CASE m \in GenericMaps
  BY <1>1, GenericMapsAssumption DEF HasBranch, GenericValue
<1>2. CASE m \notin GenericMaps
  BY <1>2 DEF GoMap, HasBranch
<1>. QED  BY <1>1, <1>2

\* A payload map with no wrapped branch is one the engine built from a
\* record, so its JSON encoding is a text (avro.go:240-244).
LEMMA JsonEncodingText ==
  ASSUME NEW m \in GoMap, ~HasBranch(m, "bytes"), ~HasBranch(m, "string")
  PROVE  JsonText(m) \in Text
BY DEF GoMap, HasBranch, JsonText, Text

\* FromAvro after its loop keeps a decoder a decoder (avro.go:224-249).
LEMMA DataType ==
  ASSUME NEW dd, IsDecoder(dd)
  PROVE  LET dd2 == FromAvroData(dd)
         IN  IsDecoder(dd2) /\ dd2.rec = dd.rec /\ dd2.todo = dd.todo
<1>. DEFINE x == dd.rec.data
            set(c) == [dd EXCEPT !.pc = "done", !.out.data = c]
<1>1. x \in GoData
  BY DEF IsDecoder, IsGoRecord
<1>2. \A c \in Text : IsDecoder(set(c)) /\ set(c).rec = dd.rec /\ set(c).todo = dd.todo
  BY DEF IsDecoder, IsEvent, EventFields
<1>3. CASE x.t \in {"bytes", "string"}
  <2>1. x.s \in Text
    BY <1>1, <1>3 DEF GoData, GoNil
  <2>2. FromAvroData(dd) = set(x.s)
    BY <1>3 DEF FromAvroData
  <2>3. IsDecoder(set(x.s)) /\ set(x.s).rec = dd.rec /\ set(x.s).todo = dd.todo
    BY <1>2, <2>1
  <2> HIDE DEF set
  <2>. QED  BY <2>2, <2>3
<1>4. CASE x.t = "map"
  <2>1. x.m \in GoMap /\ x.t \notin {"bytes", "string"}
    BY <1>1, <1>4 DEF GoData, GoNil
  <2>2. CASE HasBranch(x.m, "bytes")
    <3>1. FromAvroData(dd) = set(x.m["bytes"].s)
      BY <1>4, <2>1, <2>2 DEF FromAvroData
    <3>. QED  BY <1>2, <2>1, <2>2, <3>1, BranchText
  <2>3. CASE ~HasBranch(x.m, "bytes") /\ HasBranch(x.m, "string")
    <3>1. FromAvroData(dd) = set(x.m["string"].s)
      BY <1>4, <2>1, <2>3 DEF FromAvroData
    <3>. QED  BY <1>2, <2>1, <2>3, <3>1, BranchText
  <2>4. CASE ~HasBranch(x.m, "bytes") /\ ~HasBranch(x.m, "string") /\ JsonFails(x.m)
    <3>1. FromAvroData(dd) = [dd EXCEPT !.pc = "done", !.err = "json"]
      BY <1>4, <2>1, <2>4 DEF FromAvroData
    <3>. QED  BY <3>1 DEF IsDecoder, Errors
  <2>5. CASE ~HasBranch(x.m, "bytes") /\ ~HasBranch(x.m, "string") /\ ~JsonFails(x.m)
    <3>1. FromAvroData(dd) = set(JsonText(x.m))
      BY <1>4, <2>1, <2>5 DEF FromAvroData
    <3>. QED  BY <1>2, <2>1, <2>5, <3>1, JsonEncodingText
  <2>. QED  BY <2>2, <2>3, <2>4, <2>5
<1>5. CASE x.t \notin {"bytes", "string", "map"}
  <2>1. FromAvroData(dd) = [dd EXCEPT !.pc = "done"]
    BY <1>5 DEF FromAvroData
  <2>. QED  BY <2>1 DEF IsDecoder
<1>. QED  BY <1>3, <1>4, <1>5


-----------------------------------------------------------------------------
(* The type invariant.                                                     *)

IInv == TypeOK /\ TodoInRecord

\* A decoder that has not started is a decoder.
LEMMA IdleDecoderType == IsDecoder(IdleDecoder) /\ IdleDecoder.todo = {}
<1>1. IsGoRecord(IdleDecoder.rec)
  BY DEF IdleDecoder, IsGoRecord, IsMap, GoData, GoNil
<1>. QED  BY <1>1, NewEventIsEvent DEF IsDecoder, IdleDecoder, Errors

\* The initial state is well typed.
LEMMA InitIInv == Init => IInv
BY IdleDecoderType, InputsAssumption DEF Init, IInv, TypeOK, TodoInRecord

\* Every step keeps IInv.
LEMMA NextIInv == IInv /\ [Next]_vars => IInv'
<1> SUFFICES ASSUME IInv, [Next]_vars PROVE IInv'
  OBVIOUS
<1>1. ASSUME NEW e \in Events, Marshal(e) PROVE IInv'
  <2>1. IsEvent(e)
    BY InputsAssumption
  <2>2. ~ToAvroFails(e) => IsWire(MarshalRecord(ToAvro(e)))
    BY <2>1, MarshalWire
  <2>. QED  BY <1>1, <2>2 DEF Marshal, IInv, TypeOK, TodoInRecord
<1>2. ASSUME NEW w \in ForeignRecords \cup {Garbage}, Deliver(w) PROVE IInv'
  BY <1>2, InputsAssumption DEF Deliver, IInv, TypeOK, TodoInRecord
<1>3. ASSUME NEW d \in Decoders, UnmarshalBegin(d) PROVE IInv'
  <2>1. CASE wire = Garbage
    <3>1. IsDecoder([dec[d] EXCEPT !.pc = "done", !.err = "engine"])
      BY DEF IInv, TypeOK, IsDecoder, Errors
    <3>2. dec' = [dec EXCEPT ![d] = [dec[d] EXCEPT !.pc = "done", !.err = "engine"]]
      BY <1>3, <2>1 DEF UnmarshalBegin
    <3>3. [dec[d] EXCEPT !.pc = "done", !.err = "engine"].rec = dec[d].rec
          /\ [dec[d] EXCEPT !.pc = "done", !.err = "engine"].todo = dec[d].todo
      BY DEF IInv, TypeOK, IsDecoder
    <3>. QED  BY <1>3, <3>1, <3>2, <3>3 DEF UnmarshalBegin, IInv, TypeOK, TodoInRecord
  <2>2. CASE wire # Garbage
    <3>1. IsWire(wire)
      BY <1>3, <2>2 DEF UnmarshalBegin, IInv, TypeOK
    <3>2. PICK r \in UnmarshalRecords(wire) :
            dec' = [dec EXCEPT ![d] = [pc |-> "loop", rec |-> r, todo |-> DOMAIN r.attr \ Required,
                                       out |-> FromAvroRequired(r), err |-> "none"]]
      BY <1>3, <2>2 DEF UnmarshalBegin
    <3>3. IsGoRecord(r)
      BY <3>1, RecordsType
    <3>4. IsDecoder(dec'[d])
      BY <3>2, <3>3, RequiredType DEF IInv, TypeOK, IsDecoder, IsGoRecord, IsMap, Errors
    <3>. QED  BY <1>3, <3>2, <3>4 DEF UnmarshalBegin, IInv, TypeOK, TodoInRecord
  <2>. QED  BY <2>1, <2>2
<1>4. ASSUME NEW d \in Decoders, UnmarshalVisit(d) PROVE IInv'
  <2>1. PICK k \in dec[d].todo : dec' = [dec EXCEPT ![d] = FromAvroVisit(dec[d], k)]
    BY <1>4 DEF UnmarshalVisit
  <2>2. LET dd2 == FromAvroVisit(dec[d], k)
        IN  IsDecoder(dd2) /\ dd2.rec = dec[d].rec /\ dd2.todo \subseteq dec[d].todo
    BY VisitType DEF IInv, TypeOK, TodoInRecord
  <2>. QED  BY <1>4, <2>1, <2>2 DEF UnmarshalVisit, IInv, TypeOK, TodoInRecord
<1>5. ASSUME NEW d \in Decoders, UnmarshalEnd(d) PROVE IInv'
  <2>1. dec' = [dec EXCEPT ![d] = FromAvroData(dec[d])]
    BY <1>5 DEF UnmarshalEnd
  <2>2. LET dd2 == FromAvroData(dec[d])
        IN  IsDecoder(dd2) /\ dd2.rec = dec[d].rec /\ dd2.todo = dec[d].todo
    BY DataType DEF IInv, TypeOK
  <2>3. IsEvent(dec'[d].out)
    BY <2>1, <2>2 DEF IInv, TypeOK, IsDecoder
  <2>. QED  BY <1>5, <2>1, <2>2, <2>3 DEF UnmarshalEnd, IInv, TypeOK, TodoInRecord
<1>6. ASSUME Reset PROVE IInv'
  BY <1>6, IdleDecoderType, InputsAssumption DEF Reset, IInv, TypeOK, TodoInRecord
<1>7. CASE UNCHANGED vars
  BY <1>7 DEF vars, IInv, TypeOK, TodoInRecord
<1>. QED  BY <1>1, <1>2, <1>3, <1>4, <1>5, <1>6, <1>7 DEF Next

\* Type correctness of the envelope codec: in every behaviour of Marshal,
\* deliveries and concurrent Unmarshal calls (avro.go), every variable holds
\* a value of its type, for every value of the constants.
THEOREM TypeCorrect == Spec => []TypeOK
<1>1. Init => IInv
  BY InitIInv
<1>2. IInv /\ [Next]_vars => IInv'
  BY NextIInv
<1>3. IInv => TypeOK
  BY DEF IInv
<1>. QED  BY <1>1, <1>2, <1>3, PTL DEF Spec

=============================================================================
