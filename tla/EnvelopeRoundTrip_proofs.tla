---------------------- MODULE EnvelopeRoundTrip_proofs ----------------------
(***************************************************************************)
(* The round trip of avroFmt (avro.go:60-250): every Unmarshal of the      *)
(* bytes a successful Marshal wrote returns no error and gives back the    *)
(* event, up to the coercions spec.md section 8 allows, provided the       *)
(* event's time prints as a four-digit year with a whole-minute offset.    *)
(* The two runs envelope_year10000 and envelope_lmt show that neither      *)
(* condition can be dropped.                                               *)
(*                                                                         *)
(* The proof is the invariant of EnvelopeDecode_proofs, which says that a  *)
(* decoder that has returned holds ErrOf(wire) and Final(wire), and one    *)
(* fact about the bytes Marshal writes: ErrOf of them is "none" and Final  *)
(* of them is the event (EncodeDecode below).                              *)
(***************************************************************************)
EXTENDS EnvelopeDecode_proofs

\* The time of e survives Format(RFC3339Nano) and Parse: a zero time is not
\* written at all; any other has a wall clock in years 0 to 9999 and an
\* offset of whole minutes (avro.go:105, :204-212).
PrintableTime(e) ==
  e.time # ZeroTime =>
    /\ e.time.off % 60 = 0
    /\ YearZeroWall <= e.time.inst + e.time.off
    /\ e.time.inst + e.time.off < Year10000Wall

-----------------------------------------------------------------------------
(* Lemmas about one event: Marshal, then the engine's Unmarshal.           *)

\* The engine reads each Go value back as it was written: its Avro branch
\* names its Go type again (avro.go:60-66, :163).
LEMMA ReadMarshalAttr ==
  ASSUME NEW x \in GoAttr
  PROVE  ReadAttr([x EXCEPT !.t = AvroTypeOf[@]]) = x
<1>. DEFINE u == AvroTypeOf[x.t]
            y == [x EXCEPT !.t = u]
<1> SUFFICES ReadAttr(y) = x
  OBVIOUS
<1>1. GoTypeOf[u] = x.t
  BY DEF GoAttr, AvroTypeOf, GoTypeOf
<1>2. y.t = u
  BY DEF GoAttr
<1>. HIDE DEF u
<1>3. [y EXCEPT !.t = x.t] = x
  BY DEF GoAttr
<1>. QED  BY <1>1, <1>2, <1>3 DEF ReadAttr

\* The attribute map Unmarshal reads from the bytes of e is the one ToAvro
\* built (avro.go:84-115 and :163).
LEMMA ReadToAvro ==
  ASSUME NEW e, IsEvent(e), ~ToAvroFails(e)
  PROVE  LET a == ReadAttrs(MarshalRecord(ToAvro(e)))
         IN  /\ DOMAIN a = ToAvroKeys(e)
             /\ \A k \in ToAvroKeys(e) : a[k] = ToAvroAttr(e, k)
<1>. DEFINE r == ToAvro(e)
            w == MarshalRecord(r)
<1>1. DOMAIN w.attr = ToAvroKeys(e)
      /\ \A k \in ToAvroKeys(e) : w.attr[k] = [ToAvroAttr(e, k) EXCEPT !.t = AvroTypeOf[@]]
  BY DEF MarshalRecord, ToAvro
<1>2. \A k \in ToAvroKeys(e) : ReadAttr(w.attr[k]) = ToAvroAttr(e, k)
  BY <1>1, ToAvroAttrType, ReadMarshalAttr
<1>. QED  BY <1>1, <1>2 DEF ReadAttrs

\* Neither "no bytes" nor garbage is what Marshal writes.
LEMMA MarshalNotMarker ==
  ASSUME NEW e, IsEvent(e), ~ToAvroFails(e)
  PROVE  MarshalRecord(ToAvro(e)) \notin {NoWire, Garbage}
<1>. DEFINE w == MarshalRecord(ToAvro(e))
<1>1. IsWire(w)
  BY MarshalWire
<1>2. w = [attr |-> w.attr, data |-> w.data]
  BY DEF MarshalRecord
<1>3. w.attr \in [DOMAIN w.attr -> AvroAttr] /\ DOMAIN w.attr \in SUBSET AllKeys
  BY <1>1 DEF IsWire, IsMap, MarshalRecord
<1>4. w \in WireRecords
  BY <1>1, <1>2, <1>3 DEF WireRecords, IsWire
<1>. QED  BY <1>4, MarkersAssumption

\* ToAvro writes a context attribute or an extension name of the event; an
\* extension name is its own lower case, so no two keys of the bytes
\* Marshal writes name the same extension.
LEMMA EncodeNoCollision ==
  ASSUME NEW e \in Events
  PROVE  NoCollision(MarshalRecord(ToAvro(e)))
<1>1. DOMAIN MarshalRecord(ToAvro(e)).attr \ Reserved \subseteq ExtNames
  BY InputsAssumption DEF MarshalRecord, ToAvro, ToAvroKeys, Reserved
<1>. QED  BY <1>1, KeysAssumption DEF NoCollision

\* With a whole-minute offset, 60 times the minutes Format prints is the
\* offset again.
LEMMA WholeMinutes ==
  ASSUME NEW o \in Int, o % 60 = 0
  PROVE  60 * Quot60(o) = o
<1>1. CASE o >= 0
  BY <1>1 DEF Quot60
<1>2. CASE o < 0
  <2>1. (-o) % 60 = 0
    BY <1>2
  <2>. QED  BY <1>2, <2>1 DEF Quot60
<1>. QED  BY <1>1, <1>2

\* Parse reads back the instant Format wrote of a time whose wall clock is
\* in years 0 to 9999 and whose offset is whole minutes.
LEMMA TimeRoundTrip ==
  ASSUME NEW t \in Time, t.off % 60 = 0,
         YearZeroWall <= t.inst + t.off, t.inst + t.off < Year10000Wall
  PROVE  ParseOK(Format(t)) /\ SetTimeValue(Parse(Format(t))).inst = t.inst
<1>1. 60 * Quot60(t.off) = t.off
  BY WholeMinutes DEF Time
<1>2. Parse(Format(t)).inst = t.inst
  BY <1>1 DEF Parse, Format, TimeText, Time
<1>3. ParseOK(Format(t))
  BY DEF ParseOK, Format, TimeText
<1>. QED  BY <1>2, <1>3 DEF SetTimeValue, ZeroTime

\* An extension value comes back from attributeValueFor, the engine and
\* extensionValueFrom as the spec's coercion of it, never as nil
\* (avro.go:127-154, :231-249).
LEMMA ExtRoundTrip ==
  ASSUME NEW x \in ExtValue, attributeValueFor(x).t # "unsupported"
  PROVE  /\ extensionValueFrom(attributeValueFor(x)) = Coerced(x)
         /\ Coerced(x) # GoNil
<1>1. CASE x.t \in {"bool", "string", "bytes"}
  BY <1>1 DEF attributeValueFor, extensionValueFrom, Coerced, ExtValue, GoNil
<1>2. CASE x.t = "int32"
  BY <1>2 DEF attributeValueFor, extensionValueFrom, Coerced, ExtValue, GoNil
<1>3. CASE x.t \in {"uri", "uriref"}
  BY <1>3 DEF attributeValueFor, extensionValueFrom, Coerced, GoNil
<1>4. CASE x.t = "timestamp"
  BY <1>4 DEF attributeValueFor, extensionValueFrom, Coerced, GoNil
<1>5. CASE x.t = "unsupported"
  BY <1>5 DEF attributeValueFor
<1>. QED  BY <1>1, <1>2, <1>3, <1>4, <1>5 DEF ExtValue

\* The attribute map Unmarshal reads from the bytes of e, attribute by
\* attribute (avro.go:84-115): every required text, an optional text when
\* it is not empty, the time when it is not zero, every extension.
LEMMA EncodeAttrs ==
  ASSUME NEW e \in Events, ~ToAvroFails(e)
  PROVE  LET a == ReadAttrs(MarshalRecord(ToAvro(e)))
         IN  /\ DOMAIN a \ Reserved = DOMAIN e.ext
             /\ \A f \in Required : Str(a, f) /\ a[f].s = e[f]
             /\ \A f \in OptionalText :
                  IF e[f] # Empty THEN Str(a, f) /\ a[f].s = e[f] ELSE f \notin DOMAIN a
             /\ IF e.time # ZeroTime
                  THEN Str(a, "time") /\ a["time"].s = Format(e.time)
                  ELSE "time" \notin DOMAIN a
             /\ \A n \in DOMAIN e.ext : /\ extensionValueFrom(a[n]) = Coerced(e.ext[n])
                                        /\ Coerced(e.ext[n]) # GoNil
<1>. DEFINE a == ReadAttrs(MarshalRecord(ToAvro(e)))
<1>0. IsEvent(e) /\ DOMAIN e.ext \subseteq ExtNames /\ ExtNames \cap Reserved = {}
  BY InputsAssumption, KeysAssumption
<1>1. DOMAIN a = ToAvroKeys(e) /\ \A k \in ToAvroKeys(e) : a[k] = ToAvroAttr(e, k)
  BY <1>0, ReadToAvro
<1>. HIDE DEF a
<1>2. DOMAIN a \ Reserved = DOMAIN e.ext
  BY <1>0, <1>1 DEF ToAvroKeys, Reserved
<1>3. \A f \in Required : Str(a, f) /\ a[f].s = e[f]
  <2> SUFFICES ASSUME NEW f \in Required PROVE Str(a, f) /\ a[f].s = e[f]
    OBVIOUS
  <2>1. f \in ToAvroKeys(e) /\ ToAvroAttr(e, f) = [t |-> "string", s |-> e[f]]
    BY DEF ToAvroKeys, ToAvroAttr
  <2>. QED  BY <1>1, <2>1 DEF Str
<1>4. \A f \in OptionalText :
        IF e[f] # Empty THEN Str(a, f) /\ a[f].s = e[f] ELSE f \notin DOMAIN a
  <2> SUFFICES ASSUME NEW f \in OptionalText
               PROVE  IF e[f] # Empty THEN Str(a, f) /\ a[f].s = e[f] ELSE f \notin DOMAIN a
    OBVIOUS
  <2>1. f \notin Required /\ f # "time" /\ f \notin DOMAIN e.ext
    BY <1>0 DEF Reserved, Required, OptionalText
  <2>2. (f \in ToAvroKeys(e)) = (e[f] # Empty)
    BY <2>1 DEF ToAvroKeys
  <2>3. ToAvroAttr(e, f) = [t |-> "string", s |-> e[f]]
    BY DEF ToAvroAttr
  <2>. QED  BY <1>1, <2>2, <2>3 DEF Str
<1>5. IF e.time # ZeroTime
        THEN Str(a, "time") /\ a["time"].s = Format(e.time)
        ELSE "time" \notin DOMAIN a
  <2>1. "time" \notin Required \cup OptionalText /\ "time" \notin DOMAIN e.ext
    BY <1>0 DEF Reserved, Required, OptionalText
  <2>2. ("time" \in ToAvroKeys(e)) = (e.time # ZeroTime)
    BY <2>1 DEF ToAvroKeys
  <2>3. ToAvroAttr(e, "time") = [t |-> "string", s |-> Format(e.time)]
    BY <2>1 DEF ToAvroAttr
  <2>. QED  BY <1>1, <2>2, <2>3 DEF Str
<1>6. \A n \in DOMAIN e.ext : /\ extensionValueFrom(a[n]) = Coerced(e.ext[n])
                              /\ Coerced(e.ext[n]) # GoNil
  <2> SUFFICES ASSUME NEW n \in DOMAIN e.ext
               PROVE  /\ extensionValueFrom(a[n]) = Coerced(e.ext[n])
                      /\ Coerced(e.ext[n]) # GoNil
    OBVIOUS
  <2>1. n \notin Reserved /\ n \in ToAvroKeys(e)
    BY <1>0 DEF ToAvroKeys
  <2>2. a[n] = attributeValueFor(e.ext[n])
    BY <1>1, <2>1 DEF ToAvroAttr, Reserved
  <2>3. e.ext[n] \in ExtValue /\ attributeValueFor(e.ext[n]).t # "unsupported"
    BY <1>0 DEF IsEvent, IsMap, ToAvroFails
  <2>. QED  BY <2>2, <2>3, ExtRoundTrip
<1>. QED  BY <1>2, <1>3, <1>4, <1>5, <1>6 DEF a

\* The extensions FromAvro sets from the bytes of e are those of e, each
\* coerced (avro.go:214-220).
LEMMA EncodeExt ==
  ASSUME NEW e \in Events, ~ToAvroFails(e), NEW V,
         LET a == ReadAttrs(MarshalRecord(ToAvro(e)))
         IN  V \subseteq DOMAIN a /\ DOMAIN a \ Reserved \subseteq V
  PROVE  BuiltExt(ReadAttrs(MarshalRecord(ToAvro(e))), V) = [n \in DOMAIN e.ext |-> Coerced(e.ext[n])]
<1>. DEFINE a == ReadAttrs(MarshalRecord(ToAvro(e)))
            S == DOMAIN e.ext
<1> SUFFICES BuiltExt(a, V) = [n \in S |-> Coerced(e.ext[n])]
  OBVIOUS
<1>v. V \subseteq DOMAIN a /\ DOMAIN a \ Reserved \subseteq V
  OBVIOUS
<1>0. /\ DOMAIN a \ Reserved = S
      /\ \A n \in S : extensionValueFrom(a[n]) = Coerced(e.ext[n]) /\ Coerced(e.ext[n]) # GoNil
  BY EncodeAttrs
<1>. HIDE DEF a
<1>1. S \subseteq ExtNames /\ \A n \in S : n \notin BadKeys /\ Lower(n) = n /\ n \notin Reserved
  BY InputsAssumption, KeysAssumption
<1>2. SetKeys(a, V) = S
  <2>1. V \ Reserved = S
    BY <1>0, <1>v
  <2>. QED  BY <1>0, <1>1, <2>1 DEF SetKeys
<1>3. {Lower(k) : k \in S} = S
  BY <1>1
<1>4. \A n \in S : (CHOOSE k \in S : Lower(k) = n) = n
  BY <1>1, ChooseLower
<1>5. ExtOf(a, S) = [n \in S |-> Coerced(e.ext[n])]
  BY <1>0, <1>3, <1>4 DEF ExtOf
<1>. QED  BY <1>2, <1>5 DEF BuiltExt

\* Decoding the bytes of e gives e back, up to the coercions of spec.md
\* section 8, when e's time is printable: FromAvro returns no error and
\* its event has e's texts, e's instant, e's extensions coerced and e's data
\* (avro.go:60-250).
LEMMA EncodeDecode ==
  ASSUME NEW e \in Events, ~ToAvroFails(e), PrintableTime(e)
  PROVE  LET w == MarshalRecord(ToAvro(e))
         IN  ErrOf(w) = "none" /\ RoundTripOf(Final(w), e)
<1>. DEFINE w == MarshalRecord(ToAvro(e))
            a == ReadAttrs(w)
            V == DOMAIN w.attr \ Required
            B == Built(a, V)
<1>0. /\ IsEvent(e) /\ e.time \in Time
      /\ DOMAIN a = DOMAIN w.attr
  BY InputsAssumption, ValuesAssumption, ReadAttrsDomain DEF EventTime, Time
<1>1. /\ \A f \in Required : Str(a, f) /\ a[f].s = e[f]
      /\ \A f \in OptionalText :
           IF e[f] # Empty THEN Str(a, f) /\ a[f].s = e[f] ELSE f \notin DOMAIN a
      /\ IF e.time # ZeroTime
           THEN Str(a, "time") /\ a["time"].s = Format(e.time)
           ELSE "time" \notin DOMAIN a
  BY EncodeAttrs
<1>2. BuiltExt(a, V) = [n \in DOMAIN e.ext |-> Coerced(e.ext[n])]
  <2>1. V \subseteq DOMAIN a /\ DOMAIN a \ Reserved \subseteq V
    BY <1>0 DEF Reserved
  <2>. QED  BY <2>1, EncodeExt
<1>. HIDE DEF w, a
<1>3. e.time # ZeroTime =>
        /\ Str(a, "time") /\ a["time"].s = Format(e.time) /\ "time" \in V
        /\ ParseOK(Format(e.time)) /\ SetTimeValue(Parse(Format(e.time))).inst = e.time.inst
  <2> SUFFICES ASSUME e.time # ZeroTime
               PROVE  /\ Str(a, "time") /\ a["time"].s = Format(e.time) /\ "time" \in V
                      /\ ParseOK(Format(e.time))
                      /\ SetTimeValue(Parse(Format(e.time))).inst = e.time.inst
    OBVIOUS
  <2>1. Str(a, "time") /\ a["time"].s = Format(e.time) /\ "time" \in V
    BY <1>0, <1>1 DEF Str, Required
  <2>2. ParseOK(Format(e.time)) /\ SetTimeValue(Parse(Format(e.time))).inst = e.time.inst
    BY <1>0, TimeRoundTrip DEF PrintableTime
  <2>. QED  BY <2>1, <2>2
<1>4. ~TimeBad(a)
  BY <1>1, <1>3 DEF TimeBad, Str
<1>5. ~DataFails(w.data) /\ DataOut(w.data) = e.data
  BY DEF w, MarshalRecord, ToAvro, DataFails, DataOut, GoNil
<1>6. ErrOf(w) = "none"
  BY <1>4, <1>5 DEF ErrOf, a
<1>7. /\ DOMAIN B = EventFields
      /\ \A f \in OptionalText : B[f] = IF f \in V /\ Str(a, f) THEN a[f].s ELSE Empty
      /\ \A f \in Required : B[f] = IF Str(a, f) THEN a[f].s ELSE NewEvent[f]
      /\ B.time = TimeOf(a, V)
      /\ B.ext = BuiltExt(a, V)
  BY BuiltFields
<1>8. \A f \in Required \cup OptionalText : B[f] = e[f]
  <2>1. \A f \in OptionalText : Str(a, f) => f \in V
    BY <1>0 DEF Str, Required, OptionalText
  <2>. QED  BY <1>1, <1>7, <2>1 DEF Str
<1>9. B.time.inst = e.time.inst
  <2>1. CASE e.time = ZeroTime
    <3>1. B.time = ZeroTime
      BY <1>1, <1>7, <2>1 DEF TimeOf, Str
    <3>. QED  BY <2>1, <3>1 DEF ZeroTime
  <2>2. CASE e.time # ZeroTime
    BY <1>3, <1>7, <2>2 DEF TimeOf
  <2>. QED  BY <2>1, <2>2
<1>10. Final(w) = [B EXCEPT !.data = DataOut(w.data)]
  BY DEF Final, a, w
<1>11. B = [f \in EventFields |-> B[f]]
  BY DEF Built, NewEvent, EventFields, Required, OptionalText
<1>. HIDE DEF B
<1>12. RoundTripOf(Final(w), e)
  BY <1>2, <1>5, <1>7, <1>8, <1>9, <1>10, <1>11 DEF RoundTripOf, EventFields
<1>. QED  BY <1>6, <1>12 DEF w

-----------------------------------------------------------------------------
(* The round trip in every behaviour.                                      *)

\* After a successful Marshal, the bytes on the wire are those it wrote of
\* src, an event ToAvro accepts (avro.go:60-66).
MarshalInv ==
  (origin = "ours" /\ mErr = "none") =>
    /\ src \in Events /\ ~ToAvroFails(src)
    /\ wire = MarshalRecord(ToAvro(src))

\* Only Marshal writes src, origin and mErr, and only Deliver and Reset
\* write the wire besides it; each resets origin.
LEMMA NextMarshalInv == MarshalInv /\ [Next]_vars => MarshalInv'
<1> SUFFICES ASSUME MarshalInv, [Next]_vars PROVE MarshalInv'
  OBVIOUS
<1>1. ASSUME NEW e \in Events, Marshal(e) PROVE MarshalInv'
  BY <1>1 DEF Marshal, MarshalInv
<1>2. ASSUME NEW w \in ForeignRecords \cup {Garbage}, Deliver(w) PROVE MarshalInv'
  BY <1>2 DEF Deliver, MarshalInv
<1>3. ASSUME NEW d \in Decoders,
             UnmarshalBegin(d) \/ UnmarshalVisit(d) \/ UnmarshalEnd(d)
      PROVE  MarshalInv'
  BY <1>3 DEF UnmarshalBegin, UnmarshalVisit, UnmarshalEnd, MarshalInv
<1>4. ASSUME Reset PROVE MarshalInv'
  BY <1>4 DEF Reset, MarshalInv
<1>5. CASE UNCHANGED vars
  BY <1>5 DEF vars, MarshalInv
<1>. QED  BY <1>1, <1>2, <1>3, <1>4, <1>5 DEF Next

\* With DInv, MarshalInv gives RoundTrip when every event's time is
\* printable: a decoder of our bytes that has returned holds ErrOf and
\* Final of them, which EncodeDecode computes.
LEMMA InvRoundTrip ==
  ASSUME \A e \in Events : PrintableTime(e)
  PROVE  DInv /\ MarshalInv => RoundTrip
<1> SUFFICES ASSUME DInv, MarshalInv, NEW d \in Decoders,
                    origin = "ours", mErr = "none", dec[d].pc = "done"
             PROVE  dec[d].err = "none" /\ RoundTripOf(target[d], src)
  BY DEF RoundTrip
<1>1. src \in Events /\ ~ToAvroFails(src) /\ wire = MarshalRecord(ToAvro(src))
  BY DEF MarshalInv
<1>2. IsEvent(src)
  BY <1>1, InputsAssumption
<1>3. wire \notin {NoWire, Garbage} /\ NoCollision(wire)
  BY <1>1, <1>2, MarshalNotMarker, EncodeNoCollision
<1>4. ErrOf(wire) = "none" /\ RoundTripOf(Final(wire), src)
  BY <1>1, EncodeDecode
<1>5. dec[d].err = "none" /\ dec[d].out = Final(wire)
  BY <1>3, <1>4 DEF DInv, DecBuilt
<1>6. target[d] = dec[d].out
  BY <1>5 DEF DInv, AInv, DecAtomic
<1>. QED  BY <1>4, <1>5, <1>6

\* Round trip (spec.md section 8, avro.go:60-250): when every event handed
\* to Marshal has a time in years 0 to 9999 with a whole-minute offset, or
\* none, every Unmarshal of the bytes a successful Marshal wrote, with its
\* loop in any map order and beside any number of other decoders, returns
\* no error and gives its caller the event, its extensions coerced as the
\* spec allows.  Runs envelope_year10000 and envelope_lmt show RoundTrip
\* fails without either condition.
THEOREM RoundTripPrintable ==
  ASSUME \A e \in Events : PrintableTime(e)
  PROVE  Spec => []RoundTrip
<1>1. Init => DInv /\ MarshalInv
  BY InitDInv DEF Init, MarshalInv
<1>2. DInv /\ MarshalInv /\ [Next]_vars => DInv' /\ MarshalInv'
  BY NextDInv, NextMarshalInv
<1>3. DInv /\ MarshalInv => RoundTrip
  BY InvRoundTrip
<1>. QED  BY <1>1, <1>2, <1>3, PTL DEF Spec

=============================================================================
