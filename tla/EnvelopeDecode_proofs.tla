------------------------ MODULE EnvelopeDecode_proofs ------------------------
(***************************************************************************)
(* What FromAvro computes (avro.go:154-250), whatever the order of its     *)
(* loop over record.Attribute: the proof that two decoders of the same     *)
(* bytes return the same error and the same event when no two keys of the  *)
(* record lower-case to the same extension name.                           *)
(*                                                                         *)
(* DecodeDeterministic is not inductive: a decoder that has returned must  *)
(* be compared with one still in its loop.  The invariant says what a      *)
(* decoder has built after visiting any set V of keys, Built(a, V), which  *)
(* does not depend on the order of the visits, and what a decoder that has *)
(* returned holds, ErrOf(wire) and Final(wire), which depend on the bytes  *)
(* alone.                                                                  *)
(***************************************************************************)
EXTENDS EnvelopeAtomic_proofs

\* The attribute map the engine's Unmarshal gives for record w.
ReadAttrs(w) == [k \in DOMAIN w.attr |-> ReadAttr(w.attr[k])]

\* No two keys of record w that FromAvro may make extensions of name the
\* same extension.
NoCollision(w) == \A k1, k2 \in DOMAIN w.attr \ Reserved : Lower(k1) = Lower(k2) => k1 = k2

\* The keys a decoder's loop has visited.
Visited(dd) == (DOMAIN dd.rec.attr \ Required) \ dd.todo

Str(a, f) == f \in DOMAIN a /\ a[f].t = "string"

\* The keys among V that SetExtension has set: not a context attribute,
\* a name it accepts, and a value other than nil.
SetKeys(a, V) ==
  {k \in V \ Reserved : k \notin BadKeys /\ Lower(k) \notin Reserved /\ extensionValueFrom(a[k]) # GoNil}

\* The extension map SetExtension leaves after setting the keys S.
ExtOf(a, S) == [n \in {Lower(k) : k \in S} |-> extensionValueFrom(a[CHOOSE k \in S : Lower(k) = n])]
BuiltExt(a, V) == ExtOf(a, SetKeys(a, V))

TimeOf(a, V) ==
  IF "time" \in V /\ Str(a, "time") /\ ParseOK(a["time"].s)
    THEN SetTimeValue(Parse(a["time"].s)) ELSE ZeroTime

\* The event FromAvro has built from attributes a once its loop has
\* visited the keys V, in any order, without an error.
Built(a, V) ==
  [f \in DOMAIN NewEvent |->
     CASE f \in OptionalText /\ f \in V /\ Str(a, f) -> a[f].s
       [] f = "time"                               -> TimeOf(a, V)
       [] f = "ext"                                -> BuiltExt(a, V)
       [] OTHER                                    -> FromAvroRequired([attr |-> a])[f]]

TimeBad(a) == Str(a, "time") /\ ~ParseOK(a["time"].s)

\* The data FromAvro sets, and whether json.Marshal fails, for the data
\* union wd on the wire.
DataOut(wd) ==
  IF wd.b = "null" THEN NoData
  ELSE IF wd.b \in {"bytes", "string"} THEN wd.s
  ELSE IF HasBranch(wd.m, "bytes") THEN wd.m["bytes"].s
  ELSE IF HasBranch(wd.m, "string") THEN wd.m["string"].s
  ELSE JsonText(wd.m)
DataFails(wd) ==
  wd.b = "record" /\ ~HasBranch(wd.m, "bytes") /\ ~HasBranch(wd.m, "string") /\ JsonFails(wd.m)

\* The error and the event of an Unmarshal of bytes w that has returned.
ErrOf(w) ==
  IF TimeBad(ReadAttrs(w)) THEN "time"
  ELSE IF DataFails(w.data) THEN "json"
  ELSE "none"
Final(w) == [Built(ReadAttrs(w), DOMAIN w.attr \ Required) EXCEPT !.data = DataOut(w.data)]

\* Decoder d reads the record of the bytes on the wire; on garbage it
\* has returned the engine's error.
DecRecord(d) ==
  dec[d].pc # "idle" =>
    /\ wire # NoWire
    /\ IF wire = Garbage THEN dec[d].pc = "done" /\ dec[d].err = "engine"
       ELSE /\ dec[d].rec.attr = ReadAttrs(wire)
            /\ dec[d].rec.data \in ReadData(wire.data)

\* Without a collision, decoder d in its loop holds Built of the keys it
\* has visited, with the time good if it has visited it; once returned,
\* it holds ErrOf and Final of the bytes.
DecBuilt(d) ==
  (wire \notin {NoWire, Garbage} /\ NoCollision(wire)) =>
    /\ dec[d].pc = "loop" =>
         /\ dec[d].out = Built(dec[d].rec.attr, Visited(dec[d]))
         /\ "time" \in Visited(dec[d]) => ~TimeBad(dec[d].rec.attr)
    /\ dec[d].pc = "done" =>
         /\ dec[d].err = ErrOf(wire)
         /\ dec[d].err = "none" => dec[d].out = Final(wire)

DInv == AInv /\ \A d \in Decoders : DecRecord(d) /\ DecBuilt(d)

-----------------------------------------------------------------------------
(* Lemmas about Built.                                                     *)

\* The fields of Built(a, V).
LEMMA BuiltFields ==
  ASSUME NEW a, NEW V
  PROVE  LET B == Built(a, V)
         IN  /\ DOMAIN B = EventFields
             /\ \A f \in OptionalText : B[f] = IF f \in V /\ Str(a, f) THEN a[f].s ELSE Empty
             /\ \A f \in Required : B[f] = IF Str(a, f) THEN a[f].s ELSE NewEvent[f]
             /\ B.time = TimeOf(a, V)
             /\ B.ext = BuiltExt(a, V)
             /\ B.data = NoData
<1>1. DOMAIN NewEvent = EventFields
  BY DEF NewEvent, EventFields, Required, OptionalText
<1>2. \A f \in DOMAIN NewEvent : FromAvroRequired([attr |-> a])[f]
        = IF f \in Required /\ Str(a, f) THEN a[f].s ELSE NewEvent[f]
  BY DEF FromAvroRequired, IsString, Str
<1>3. \A f \in OptionalText : NewEvent[f] = Empty
  BY DEF NewEvent, OptionalText
<1>4. NewEvent.data = NoData
  BY DEF NewEvent
<1>5. Required \cap OptionalText = {} /\ "time" \notin Required \cup OptionalText
      /\ "ext" \notin Required \cup OptionalText /\ "data" \notin Required \cup OptionalText
  BY DEF Required, OptionalText
<1>. QED  BY <1>1, <1>2, <1>3, <1>4, <1>5 DEF Built, EventFields

\* Built of no key is what FromAvro starts its loop with.
LEMMA BuiltEmpty ==
  ASSUME NEW r
  PROVE  Built(r.attr, {}) = FromAvroRequired(r)
<1>1. DOMAIN FromAvroRequired(r) = EventFields
  BY DEF FromAvroRequired, NewEvent, EventFields, Required, OptionalText
<1>2. BuiltExt(r.attr, {}) = NewEvent.ext
  BY DEF BuiltExt, ExtOf, SetKeys, NewEvent
<1>3. TimeOf(r.attr, {}) = NewEvent.time
  BY DEF TimeOf, NewEvent
<1>4. \A f \in EventFields : FromAvroRequired(r)[f]
        = IF f \in Required /\ Str(r.attr, f) THEN r.attr[f].s ELSE NewEvent[f]
  BY DEF FromAvroRequired, IsString, Str, NewEvent, EventFields, Required, OptionalText
<1>5. \A f \in OptionalText : NewEvent[f] = Empty
  BY DEF NewEvent, OptionalText
<1>6. NewEvent.data = NoData
  BY DEF NewEvent
<1>7. Required \cap OptionalText = {} /\ "time" \notin Required \cup OptionalText
      /\ "ext" \notin Required \cup OptionalText /\ "data" \notin Required \cup OptionalText
  BY DEF Required, OptionalText
<1>. DEFINE B == Built(r.attr, {})
<1>8. /\ DOMAIN B = EventFields /\ B.time = TimeOf(r.attr, {}) /\ B.ext = BuiltExt(r.attr, {})
      /\ B.data = NoData /\ (\A f \in OptionalText : B[f] = Empty)
      /\ \A f \in Required : B[f] = IF Str(r.attr, f) THEN r.attr[f].s ELSE NewEvent[f]
  BY BuiltFields
<1>. HIDE DEF B
<1>9. ASSUME NEW f \in EventFields PROVE B[f] = FromAvroRequired(r)[f]
  <2>1. CASE f \in Required
    BY <1>4, <1>8, <2>1 DEF EventFields
  <2>2. CASE f \in OptionalText
    BY <1>4, <1>5, <1>7, <1>8, <2>2 DEF EventFields
  <2>3. CASE f = "time"
    BY <1>3, <1>4, <1>7, <1>8, <2>3 DEF EventFields
  <2>4. CASE f = "ext"
    BY <1>2, <1>4, <1>7, <1>8, <2>4 DEF EventFields
  <2>5. CASE f = "data"
    BY <1>4, <1>6, <1>7, <1>8, <2>5 DEF EventFields
  <2>. QED  BY <2>1, <2>2, <2>3, <2>4, <2>5 DEF EventFields
<1>10. B = FromAvroRequired(r)
  BY <1>1, <1>8, <1>9 DEF B, Built, FromAvroRequired
<1>. QED  BY <1>10 DEF B

\* Visiting a key changes only the field of Built the key is for: an
\* optional text.
LEMMA BuiltText ==
  ASSUME NEW a, NEW V, NEW k \in OptionalText, k \notin V
  PROVE  Built(a, V \cup {k}) = IF Str(a, k) THEN [Built(a, V) EXCEPT ![k] = a[k].s] ELSE Built(a, V)
<1>. DEFINE B1 == Built(a, V)
            B2 == Built(a, V \cup {k})
<1>1. k # "time" /\ k \in Reserved /\ k \notin Required
  BY DEF OptionalText, Reserved, Required
<1>2. TimeOf(a, V \cup {k}) = TimeOf(a, V)
  BY <1>1 DEF TimeOf
<1>3. SetKeys(a, V \cup {k}) = SetKeys(a, V)
  BY <1>1 DEF SetKeys
<1>4. BuiltExt(a, V \cup {k}) = BuiltExt(a, V)
  BY <1>3, Zenon DEF BuiltExt
<1>5. /\ DOMAIN B1 = EventFields /\ DOMAIN B2 = EventFields
      /\ B1.time = B2.time /\ B1.ext = B2.ext /\ B1.data = B2.data
      /\ \A f \in Required : B1[f] = B2[f]
      /\ \A f \in OptionalText \ {k} : B1[f] = B2[f]
      /\ B2[k] = IF Str(a, k) THEN a[k].s ELSE Empty
      /\ B1[k] = Empty
  BY <1>2, <1>4, BuiltFields
<1>6. B1 = [f \in EventFields |-> B1[f]] /\ B2 = [f \in EventFields |-> B2[f]]
  BY <1>5 DEF Built
<1>. HIDE DEF B1, B2
<1>7. Required \cap OptionalText = {} /\ "time" \notin Required \cup OptionalText
      /\ "ext" \notin Required \cup OptionalText /\ "data" \notin Required \cup OptionalText
  BY DEF Required, OptionalText
<1>8. CASE Str(a, k)
  <2>1. ASSUME NEW f \in EventFields PROVE B2[f] = [B1 EXCEPT ![k] = a[k].s][f]
    BY <1>5, <1>7, <1>8 DEF EventFields
  <2>2. B2 = [B1 EXCEPT ![k] = a[k].s]
    BY <1>5, <1>6, <2>1
  <2>. QED  BY <1>8, <2>2 DEF B1, B2
<1>9. CASE ~Str(a, k)
  <2>1. ASSUME NEW f \in EventFields PROVE B2[f] = B1[f]
    BY <1>5, <1>7, <1>9 DEF EventFields
  <2>2. B2 = B1
    BY <1>5, <1>6, <2>1
  <2>. QED  BY <1>9, <2>2 DEF B1, B2
<1>. QED  BY <1>8, <1>9

\* ... the time.
LEMMA BuiltTime ==
  ASSUME NEW a, NEW V, "time" \notin V
  PROVE  Built(a, V \cup {"time"}) =
           IF Str(a, "time") /\ ParseOK(a["time"].s)
             THEN [Built(a, V) EXCEPT !.time = SetTimeValue(Parse(a["time"].s))]
             ELSE Built(a, V)
<1>. DEFINE B1 == Built(a, V)
            B2 == Built(a, V \cup {"time"})
<1>1. "time" \notin OptionalText /\ "time" \in Reserved
  BY DEF OptionalText, Reserved
<1>2. SetKeys(a, V \cup {"time"}) = SetKeys(a, V)
  BY <1>1 DEF SetKeys
<1>3. BuiltExt(a, V \cup {"time"}) = BuiltExt(a, V)
  BY <1>2, Zenon DEF BuiltExt
<1>4. /\ DOMAIN B1 = EventFields /\ DOMAIN B2 = EventFields
      /\ B1.ext = B2.ext /\ B1.data = B2.data
      /\ \A f \in Required \cup OptionalText : B1[f] = B2[f]
      /\ B1.time = ZeroTime
      /\ B2.time = IF Str(a, "time") /\ ParseOK(a["time"].s)
                     THEN SetTimeValue(Parse(a["time"].s)) ELSE ZeroTime
  BY <1>1, <1>3, BuiltFields DEF TimeOf
<1>5. B1 = [f \in EventFields |-> B1[f]] /\ B2 = [f \in EventFields |-> B2[f]]
  BY <1>4 DEF Built
<1>. HIDE DEF B1, B2
<1>6. "ext" \notin Required \cup OptionalText /\ "data" \notin Required \cup OptionalText
  BY DEF Required, OptionalText
<1>7. CASE Str(a, "time") /\ ParseOK(a["time"].s)
  <2>1. ASSUME NEW f \in EventFields
        PROVE  B2[f] = [B1 EXCEPT !.time = SetTimeValue(Parse(a["time"].s))][f]
    BY <1>1, <1>4, <1>6, <1>7 DEF EventFields
  <2>2. B2 = [B1 EXCEPT !.time = SetTimeValue(Parse(a["time"].s))]
    BY <1>4, <1>5, <2>1
  <2>. QED  BY <1>7, <2>2 DEF B1, B2
<1>8. CASE ~(Str(a, "time") /\ ParseOK(a["time"].s))
  <2>1. ASSUME NEW f \in EventFields PROVE B2[f] = B1[f]
    BY <1>1, <1>4, <1>6, <1>8 DEF EventFields
  <2>2. B2 = B1
    BY <1>4, <1>5, <2>1
  <2>. QED  BY <1>8, <2>2 DEF B1, B2
<1>. QED  BY <1>7, <1>8

\* ... an extension.
LEMMA BuiltExtension ==
  ASSUME NEW a, NEW V, NEW k, k \notin Reserved, k \notin V
  PROVE  Built(a, V \cup {k}) = [Built(a, V) EXCEPT !.ext = BuiltExt(a, V \cup {k})]
<1>. DEFINE B1 == Built(a, V)
            B2 == Built(a, V \cup {k})
<1>1. k # "time" /\ k \notin OptionalText
  BY DEF OptionalText, Reserved
<1>2. TimeOf(a, V \cup {k}) = TimeOf(a, V)
  BY <1>1 DEF TimeOf
<1>3. /\ DOMAIN B1 = EventFields /\ DOMAIN B2 = EventFields
      /\ B1.time = B2.time /\ B1.data = B2.data
      /\ \A f \in Required \cup OptionalText : B1[f] = B2[f]
      /\ B2.ext = BuiltExt(a, V \cup {k})
  BY <1>1, <1>2, BuiltFields
<1>4. B1 = [f \in EventFields |-> B1[f]] /\ B2 = [f \in EventFields |-> B2[f]]
  BY <1>3 DEF Built
<1>. HIDE DEF B1, B2
<1>5. "time" \notin Required \cup OptionalText /\ "data" \notin Required \cup OptionalText
  BY DEF Required, OptionalText
<1>6. ASSUME NEW f \in EventFields PROVE B2[f] = [B1 EXCEPT !.ext = BuiltExt(a, V \cup {k})][f]
  BY <1>3, <1>5 DEF EventFields
<1>7. B2 = [B1 EXCEPT !.ext = BuiltExt(a, V \cup {k})]
  BY <1>3, <1>4, <1>6
<1>. QED  BY <1>7 DEF B1, B2

\* The key of S a lower-cased name comes from, when only one key of S has
\* that name.
LEMMA ChooseLower ==
  ASSUME NEW S, NEW m, NEW x \in S, Lower(x) = m, \A y \in S : Lower(y) = m => y = x
  PROVE  (CHOOSE y \in S : Lower(y) = m) = x
OBVIOUS

\* Without a collision, SetExtension of the key k visited next takes
\* Built of the keys visited before to Built of those and k (avro.go:214-220).
LEMMA ExtStep ==
  ASSUME NEW a, NEW V, V \subseteq DOMAIN a, NEW k \in DOMAIN a \ Reserved, k \notin V,
         \A k1, k2 \in DOMAIN a \ Reserved : Lower(k1) = Lower(k2) => k1 = k2
  PROVE  SetExtension(Built(a, V), k, extensionValueFrom(a[k])) = Built(a, V \cup {k})
<1>. DEFINE B == Built(a, V)
            n == Lower(k)
            v == extensionValueFrom(a[k])
            S == SetKeys(a, V)
            D == {Lower(j) : j \in S}
<1>1. B = [f \in EventFields |-> B[f]] /\ "ext" \in DOMAIN B /\ B.ext = ExtOf(a, S)
  BY BuiltFields DEF Built, EventFields, BuiltExt
<1>2. S \subseteq DOMAIN a \ Reserved /\ \A j \in S : Lower(j) # n
  BY DEF SetKeys
<1>3. Built(a, V \cup {k}) = [B EXCEPT !.ext = BuiltExt(a, V \cup {k})]
  BY BuiltExtension
<1>4. ExtOf(a, S) = [m \in D |-> ExtOf(a, S)[m]] /\ DOMAIN ExtOf(a, S) = D
  BY DEF ExtOf
<1> SUFFICES SetExtension(B, k, v) = Built(a, V \cup {k})
  OBVIOUS
<1>. HIDE DEF B, S
<1>5. CASE k \in BadKeys \/ n \in Reserved
  <2>1. SetKeys(a, V \cup {k}) = S
    BY <1>5 DEF SetKeys, S
  <2>2. SetExtension(B, k, v) = B
    BY <1>5 DEF SetExtension
  <2>3. Built(a, V \cup {k}) = [B EXCEPT !.ext = ExtOf(a, S)]
    BY <1>3, <2>1, Zenon DEF BuiltExt
  <2>. QED  BY <1>1, <2>2, <2>3
<1>6. CASE ~(k \in BadKeys \/ n \in Reserved) /\ v = GoNil
  <2>1. SetKeys(a, V \cup {k}) = S
    BY <1>6 DEF SetKeys, S
  <2>2. SetExtension(B, k, v) = [B EXCEPT !.ext = [m \in D \ {n} |-> IF m = n THEN v ELSE ExtOf(a, S)[m]]]
    BY <1>1, <1>4, <1>6 DEF SetExtension
  <2>3. [m \in D \ {n} |-> IF m = n THEN v ELSE ExtOf(a, S)[m]] = ExtOf(a, S)
    BY <1>2, <1>4
  <2>4. Built(a, V \cup {k}) = [B EXCEPT !.ext = ExtOf(a, S)]
    BY <1>3, <2>1, Zenon DEF BuiltExt
  <2>. QED  BY <1>1, <2>2, <2>3, <2>4
<1>7. CASE ~(k \in BadKeys \/ n \in Reserved) /\ v # GoNil
  <2>1. SetKeys(a, V \cup {k}) = S \cup {k}
    BY <1>7 DEF SetKeys, S
  <2>2. SetExtension(B, k, v) = [B EXCEPT !.ext = [m \in D \cup {n} |-> IF m = n THEN v ELSE ExtOf(a, S)[m]]]
    BY <1>1, <1>4, <1>7 DEF SetExtension
  <2>3. ASSUME NEW m \in D
        PROVE  (CHOOSE y \in S \cup {k} : Lower(y) = m) = (CHOOSE y \in S : Lower(y) = m)
    <3>1. PICK j \in S : Lower(j) = m
      BY <2>3
    <3>2. \A y \in S \cup {k} : Lower(y) = m => y = j
      BY <1>2, <3>1
    <3>3. (CHOOSE y \in S \cup {k} : Lower(y) = m) = j
      BY <3>1, <3>2, ChooseLower
    <3>4. (CHOOSE y \in S : Lower(y) = m) = j
      BY <3>1, <3>2, ChooseLower
    <3>. QED  BY <3>3, <3>4
  <2>4. (CHOOSE y \in S \cup {k} : Lower(y) = n) = k
    <3>1. \A y \in S \cup {k} : Lower(y) = n => y = k
      BY <1>2
    <3>. QED  BY <3>1, ChooseLower
  <2>5. ExtOf(a, S \cup {k}) = [m \in D \cup {n} |-> IF m = n THEN v ELSE ExtOf(a, S)[m]]
    <3>1. {Lower(j) : j \in S \cup {k}} = D \cup {n}
      OBVIOUS
    <3>2. ASSUME NEW m \in D \cup {n}
          PROVE  ExtOf(a, S \cup {k})[m] = IF m = n THEN v ELSE ExtOf(a, S)[m]
      <4>1. CASE m = n
        BY <2>4, <3>1, <4>1 DEF ExtOf
      <4>2. CASE m # n
        BY <2>3, <3>1, <4>2 DEF ExtOf
      <4>. QED  BY <4>1, <4>2
    <3>3. ExtOf(a, S \cup {k}) = [m \in D \cup {n} |-> ExtOf(a, S \cup {k})[m]]
      BY <3>1 DEF ExtOf
    <3>. HIDE DEF ExtOf
    <3>. QED  BY <3>2, <3>3
  <2>6. Built(a, V \cup {k}) = [B EXCEPT !.ext = ExtOf(a, S \cup {k})]
    BY <1>3, <2>1, Zenon DEF BuiltExt
  <2>. QED  BY <2>2, <2>5, <2>6
<1>. QED  BY <1>5, <1>6, <1>7

\* Every Go value the engine reads into the attribute map has a case in
\* extensionValueFrom's switch (avro.go:253-274).
LEMMA NoUnsupported ==
  ASSUME NEW x \in GoAttr
  PROVE  extensionValueFrom(x).t # "unsupported"
BY DEF extensionValueFrom, GoAttr, GoNil

\* One iteration of FromAvro's loop, from Built of the keys visited: it
\* fails on a time Parse rejects, and otherwise gives Built of those keys
\* and the one it visits, whichever key that is (avro.go:183-222).
LEMMA VisitBuilt ==
  ASSUME NEW dd, IsDecoder(dd), dd.todo \subseteq DOMAIN dd.rec.attr \ Required,
         NEW k \in dd.todo,
         dd.out = Built(dd.rec.attr, Visited(dd)),
         \A k1, k2 \in DOMAIN dd.rec.attr \ Reserved : Lower(k1) = Lower(k2) => k1 = k2
  PROVE  LET dd2 == FromAvroVisit(dd, k)
         IN  /\ dd2.rec = dd.rec /\ dd2.todo = dd.todo \ {k}
             /\ (k = "time" /\ TimeBad(dd.rec.attr)) => dd2.pc = "done" /\ dd2.err = "time"
             /\ ~(k = "time" /\ TimeBad(dd.rec.attr)) =>
                  /\ dd2.pc = dd.pc /\ dd2.err = dd.err
                  /\ dd2.out = Built(dd.rec.attr, Visited(dd) \cup {k})
<1>. DEFINE a == dd.rec.attr
            V == Visited(dd)
            x == a[k]
            next == [dd EXCEPT !.todo = @ \ {k}]
<1>1. /\ next.rec = dd.rec /\ next.pc = dd.pc /\ next.err = dd.err /\ next.out = dd.out
      /\ next.todo = dd.todo \ {k}
  BY DEF IsDecoder
<1>2. k \in DOMAIN a /\ k \notin V /\ k \notin Required /\ V \subseteq DOMAIN a /\ x \in GoAttr
  BY DEF Visited, IsDecoder, IsGoRecord, IsMap
<1>3. Str(a, k) <=> x.t = "string"
  BY <1>2 DEF Str
<1>4. CASE k \in OptionalText
  <2>1. ~(k = "time" /\ TimeBad(a))
    BY <1>4 DEF OptionalText
  <2>2. Built(a, V \cup {k}) = IF Str(a, k) THEN [Built(a, V) EXCEPT ![k] = x.s] ELSE Built(a, V)
    BY <1>2, <1>4, BuiltText
  <2>3. CASE x.t = "string"
    <3>1. FromAvroVisit(dd, k) = [next EXCEPT !.out = [next.out EXCEPT ![k] = x.s]]
      BY <1>4, <2>3 DEF FromAvroVisit, OptionalText
    <3>. QED  BY <1>1, <1>3, <2>1, <2>2, <2>3, <3>1 DEF IsDecoder
  <2>4. CASE x.t # "string"
    <3>1. FromAvroVisit(dd, k) = next
      BY <1>4, <2>4 DEF FromAvroVisit, OptionalText
    <3>. QED  BY <1>1, <1>3, <2>1, <2>2, <2>4, <3>1
  <2>. QED  BY <2>3, <2>4
<1>5. CASE k = "time"
  <2>1. k \notin OptionalText
    BY <1>5 DEF OptionalText
  <2>2. Built(a, V \cup {k}) =
          IF Str(a, "time") /\ ParseOK(a["time"].s)
            THEN [Built(a, V) EXCEPT !.time = SetTimeValue(Parse(a["time"].s))]
            ELSE Built(a, V)
    BY <1>2, <1>5, BuiltTime
  <2>3. CASE x.t = "string" /\ ParseOK(x.s)
    <3>1. FromAvroVisit(dd, k) = [next EXCEPT !.out = [next.out EXCEPT !.time = SetTimeValue(Parse(x.s))]]
      BY <1>5, <2>1, <2>3 DEF FromAvroVisit
    <3>2. ~TimeBad(a)
      BY <1>5, <2>3 DEF TimeBad, Str
    <3>. QED  BY <1>1, <1>3, <1>5, <2>2, <2>3, <3>1, <3>2 DEF IsDecoder
  <2>4. CASE x.t = "string" /\ ~ParseOK(x.s)
    <3>1. FromAvroVisit(dd, k) = [next EXCEPT !.pc = "done", !.err = "time"]
      BY <1>5, <2>1, <2>4 DEF FromAvroVisit
    <3>2. TimeBad(a)
      BY <1>2, <1>5, <2>4 DEF TimeBad, Str
    <3>. QED  BY <1>1, <1>5, <3>1, <3>2 DEF IsDecoder
  <2>5. CASE x.t # "string"
    <3>1. FromAvroVisit(dd, k) = next
      BY <1>5, <2>1, <2>5 DEF FromAvroVisit
    <3>2. ~TimeBad(a) /\ ~Str(a, "time")
      BY <1>5, <2>5 DEF TimeBad, Str
    <3>. QED  BY <1>1, <2>2, <3>1, <3>2
  <2>. QED  BY <2>3, <2>4, <2>5
<1>6. CASE k \notin OptionalText /\ k # "time"
  <2>1. k \notin Reserved /\ ~(k = "time" /\ TimeBad(a))
    BY <1>2, <1>6 DEF Reserved
  <2>2. extensionValueFrom(x).t # "unsupported"
    BY <1>2, NoUnsupported
  <2>3. FromAvroVisit(dd, k) = [next EXCEPT !.out = SetExtension(dd.out, k, extensionValueFrom(x))]
    BY <1>6, <2>2 DEF FromAvroVisit
  <2>4. SetExtension(dd.out, k, extensionValueFrom(x)) = Built(a, V \cup {k})
    BY <1>2, <2>1, ExtStep
  <2>. QED  BY <1>1, <2>1, <2>3, <2>4 DEF IsDecoder
<1>. QED  BY <1>4, <1>5, <1>6

\* The end of FromAvro gives the same error and data whichever of the
\* Go values the engine may leave in record.Data for the data union wd
\* it read (avro.go:224-249).
LEMMA DataBuilt ==
  ASSUME NEW dd, IsDecoder(dd), NEW wd \in AvroData, dd.rec.data \in ReadData(wd)
  PROVE  LET dd2 == FromAvroData(dd)
         IN  /\ dd2.pc = "done" /\ dd2.rec = dd.rec
             /\ dd2.err = IF DataFails(wd) THEN "json" ELSE dd.err
             /\ ~DataFails(wd) =>
                  dd2.out = IF wd.b = "null" THEN dd.out ELSE [dd.out EXCEPT !.data = DataOut(wd)]
<1>. DEFINE x == dd.rec.data
            set(c) == [dd EXCEPT !.pc = "done", !.out.data = c]
<1>1. \A c : set(c).pc = "done" /\ set(c).rec = dd.rec /\ set(c).err = dd.err
             /\ set(c).out = [dd.out EXCEPT !.data = c]
  BY DEF IsDecoder
<1>2. CASE wd.b = "null"
  <2>1. x = GoNil /\ ~DataFails(wd)
    BY <1>2 DEF ReadData, DataFails
  <2>2. FromAvroData(dd) = [dd EXCEPT !.pc = "done"]
    BY <2>1 DEF FromAvroData, GoNil
  <2>. QED  BY <1>2, <2>1, <2>2 DEF IsDecoder
<1>3. CASE wd.b \in {"bytes", "string"}
  <2>1. ~DataFails(wd) /\ DataOut(wd) = wd.s
    BY <1>3 DEF DataFails, DataOut
  <2>2. CASE x = [t |-> wd.b, s |-> wd.s]
    <3>1. FromAvroData(dd) = set(wd.s)
      BY <1>3, <2>2 DEF FromAvroData
    <3>. QED  BY <1>1, <1>3, <2>1, <3>1
  <2>3. CASE x = [t |-> "map", m |-> [k \in {wd.b} |-> [t |-> wd.b, s |-> wd.s]]]
    <3>1. CASE wd.b = "bytes"
      <4>0. x.t = "map" /\ HasBranch(x.m, "bytes") /\ x.m["bytes"].s = wd.s
        BY <2>3, <3>1 DEF HasBranch
      <4>1. FromAvroData(dd) = set(wd.s)
        BY <4>0 DEF FromAvroData
      <4>. QED  BY <1>1, <1>3, <2>1, <4>1
    <3>2. CASE wd.b = "string"
      <4>0. x.t = "map" /\ ~HasBranch(x.m, "bytes") /\ HasBranch(x.m, "string")
            /\ x.m["string"].s = wd.s
        BY <2>3, <3>2 DEF HasBranch
      <4>1. FromAvroData(dd) = set(wd.s)
        BY <4>0 DEF FromAvroData
      <4>. QED  BY <1>1, <1>3, <2>1, <4>1
    <3>. QED  BY <1>3, <3>1, <3>2
  <2>. QED  BY <1>3, <2>2, <2>3 DEF ReadData
<1>4. CASE wd.b = "record"
  <2>1. x = [t |-> "map", m |-> wd.m]
    BY <1>4 DEF ReadData
  <2>2. CASE HasBranch(wd.m, "bytes")
    <3>1. FromAvroData(dd) = set(wd.m["bytes"].s) /\ DataOut(wd) = wd.m["bytes"].s /\ ~DataFails(wd)
      BY <1>4, <2>1, <2>2 DEF FromAvroData, DataOut, DataFails
    <3>. QED  BY <1>1, <1>4, <3>1
  <2>3. CASE ~HasBranch(wd.m, "bytes") /\ HasBranch(wd.m, "string")
    <3>1. FromAvroData(dd) = set(wd.m["string"].s) /\ DataOut(wd) = wd.m["string"].s /\ ~DataFails(wd)
      BY <1>4, <2>1, <2>3 DEF FromAvroData, DataOut, DataFails
    <3>. QED  BY <1>1, <1>4, <3>1
  <2>4. CASE ~HasBranch(wd.m, "bytes") /\ ~HasBranch(wd.m, "string") /\ JsonFails(wd.m)
    <3>1. FromAvroData(dd) = [dd EXCEPT !.pc = "done", !.err = "json"] /\ DataFails(wd)
      BY <1>4, <2>1, <2>4 DEF FromAvroData, DataFails
    <3>. QED  BY <3>1 DEF IsDecoder
  <2>5. CASE ~HasBranch(wd.m, "bytes") /\ ~HasBranch(wd.m, "string") /\ ~JsonFails(wd.m)
    <3>1. FromAvroData(dd) = set(JsonText(wd.m)) /\ DataOut(wd) = JsonText(wd.m) /\ ~DataFails(wd)
      BY <1>4, <2>1, <2>5 DEF FromAvroData, DataOut, DataFails
    <3>. QED  BY <1>1, <1>4, <3>1
  <2>. QED  BY <2>2, <2>3, <2>4, <2>5
<1>. QED  BY <1>2, <1>3, <1>4 DEF AvroData

-----------------------------------------------------------------------------
(* DInv is inductive.                                                      *)

LEMMA InitDInv == Init => DInv
BY InitAInv DEF Init, DInv, DecRecord, DecBuilt, IdleDecoder

\* A step that leaves the other decoders and the wire alone keeps their part
\* of DInv.
LEMMA OthersDecoded ==
  ASSUME DInv, NEW d \in Decoders,
         \A d2 \in Decoders \ {d} : dec'[d2] = dec[d2],
         wire' = wire
  PROVE  \A d2 \in Decoders \ {d} : DecRecord(d2)' /\ DecBuilt(d2)'
BY DEF DInv, DecRecord, DecBuilt

\* With every decoder idle, DecRecord and DecBuilt hold whatever the wire.
LEMMA IdleDecoded ==
  ASSUME NEW d, dec'[d].pc = "idle"
  PROVE  DecRecord(d)' /\ DecBuilt(d)'
BY DEF DecRecord, DecBuilt

\* The attribute map read from w has the keys of w.
LEMMA ReadAttrsDomain ==
  ASSUME NEW w
  PROVE  DOMAIN ReadAttrs(w) = DOMAIN w.attr
BY DEF ReadAttrs

\* Every step keeps DInv.
LEMMA NextDInv == DInv /\ [Next]_vars => DInv'
<1> SUFFICES ASSUME DInv, [Next]_vars PROVE DInv'
  OBVIOUS
<1>0. AInv'
  BY NextAInv DEF DInv
<1>1. ASSUME NEW e \in Events, Marshal(e) PROVE DInv'
  <2>1. \A d \in Decoders : dec'[d].pc = "idle"
    BY <1>1 DEF Marshal, DInv, AInv, OriginInv
  <2>. QED  BY <1>0, <2>1, IdleDecoded DEF DInv
<1>2. ASSUME NEW w \in ForeignRecords \cup {Garbage}, Deliver(w) PROVE DInv'
  <2>1. \A d \in Decoders : dec'[d].pc = "idle"
    BY <1>2 DEF Deliver, DInv, AInv, OriginInv
  <2>. QED  BY <1>0, <2>1, IdleDecoded DEF DInv
<1>3. ASSUME NEW d \in Decoders, UnmarshalBegin(d) PROVE DInv'
  <2>1. wire # NoWire /\ wire' = wire
    BY <1>3 DEF UnmarshalBegin
  <2>2. \A d2 \in Decoders \ {d} : DecRecord(d2)' /\ DecBuilt(d2)'
    <3>1. \A d2 \in Decoders \ {d} : dec'[d2] = dec[d2]
      BY <1>3 DEF UnmarshalBegin, DInv, AInv, IInv, TypeOK
    <3>. QED  BY <2>1, <3>1, OthersDecoded
  <2>3. ASSUME wire = Garbage PROVE DecRecord(d)' /\ DecBuilt(d)'
    <3>1. dec'[d] = [dec[d] EXCEPT !.pc = "done", !.err = "engine"]
      BY <1>3, <2>3 DEF UnmarshalBegin, DInv, AInv, IInv, TypeOK
    <3>2. dec'[d].pc = "done" /\ dec'[d].err = "engine"
      BY <3>1 DEF DInv, AInv, IInv, TypeOK, IsDecoder
    <3>. QED  BY <2>1, <2>3, <3>2 DEF DecRecord, DecBuilt
  <2>4. ASSUME wire # Garbage PROVE DecRecord(d)' /\ DecBuilt(d)'
    <3>1. PICK r \in UnmarshalRecords(wire) :
            dec' = [dec EXCEPT ![d] = [pc |-> "loop", rec |-> r, todo |-> DOMAIN r.attr \ Required,
                                       out |-> FromAvroRequired(r), err |-> "none"]]
      BY <1>3, <2>4 DEF UnmarshalBegin
    <3>2. dec'[d] = [pc |-> "loop", rec |-> r, todo |-> DOMAIN r.attr \ Required,
                     out |-> FromAvroRequired(r), err |-> "none"]
      BY <3>1 DEF DInv, AInv, IInv, TypeOK
    <3>3. r.attr = ReadAttrs(wire) /\ r.data \in ReadData(wire.data)
      BY DEF UnmarshalRecords, ReadAttrs
    <3>4. Visited(dec'[d]) = {}
      BY <3>2 DEF Visited
    <3>5. dec'[d].out = Built(dec'[d].rec.attr, Visited(dec'[d]))
      <4>1. Built(r.attr, {}) = FromAvroRequired(r)
        BY BuiltEmpty
      <4>. QED  BY <3>2, <3>4, <4>1
    <3>. QED  BY <2>1, <2>4, <3>2, <3>3, <3>4, <3>5 DEF DecRecord, DecBuilt
  <2>. QED  BY <1>0, <2>2, <2>3, <2>4 DEF DInv
<1>4. ASSUME NEW d \in Decoders, UnmarshalVisit(d) PROVE DInv'
  <2>1. PICK k \in dec[d].todo : dec' = [dec EXCEPT ![d] = FromAvroVisit(dec[d], k)]
    BY <1>4 DEF UnmarshalVisit
  <2>. DEFINE dd == dec[d]
              dd2 == FromAvroVisit(dd, k)
              a == dd.rec.attr
  <2>2. dec'[d] = dd2 /\ wire' = wire
    BY <1>4, <2>1 DEF UnmarshalVisit, DInv, AInv, IInv, TypeOK
  <2>3. /\ dd.pc = "loop" /\ dd.err = "none"
        /\ wire \notin {NoWire, Garbage} /\ a = ReadAttrs(wire)
        /\ IsDecoder(dd) /\ dd.todo \subseteq DOMAIN a \ Required
    BY <1>4 DEF UnmarshalVisit, DInv, AInv, DecAtomic, DecRecord, IInv, TypeOK, TodoInRecord
  <2>4. \A d2 \in Decoders \ {d} : DecRecord(d2)' /\ DecBuilt(d2)'
    <3>1. \A d2 \in Decoders \ {d} : dec'[d2] = dec[d2]
      BY <2>1 DEF DInv, AInv, IInv, TypeOK
    <3>. QED  BY <2>2, <3>1, OthersDecoded
  <2>5. DecRecord(d)'
    <3>1. dd2.rec = dd.rec /\ dd2.pc # "idle"
      BY <2>3, VisitAtomic
    <3>. QED  BY <2>2, <2>3, <3>1 DEF DInv, DecRecord
  <2>6. DecBuilt(d)'
    <3> SUFFICES ASSUME NoCollision(wire)
                 PROVE  /\ dd2.pc = "loop" =>
                             /\ dd2.out = Built(dd2.rec.attr, Visited(dd2))
                             /\ "time" \in Visited(dd2) => ~TimeBad(dd2.rec.attr)
                        /\ dd2.pc = "done" =>
                             /\ dd2.err = ErrOf(wire)
                             /\ dd2.err = "none" => dd2.out = Final(wire)
      BY <2>2, <2>3 DEF DecBuilt
    <3>1. \A k1, k2 \in DOMAIN a \ Reserved : Lower(k1) = Lower(k2) => k1 = k2
      BY <2>3, ReadAttrsDomain DEF NoCollision
    <3>2. dd.out = Built(a, Visited(dd)) /\ ("time" \in Visited(dd) => ~TimeBad(a))
      BY <2>3 DEF DInv, DecBuilt
    <3>3. LET dd3 == FromAvroVisit(dd, k)
          IN  /\ dd3.rec = dd.rec /\ dd3.todo = dd.todo \ {k}
              /\ (k = "time" /\ TimeBad(a)) => dd3.pc = "done" /\ dd3.err = "time"
              /\ ~(k = "time" /\ TimeBad(a)) =>
                   /\ dd3.pc = dd.pc /\ dd3.err = dd.err
                   /\ dd3.out = Built(a, Visited(dd) \cup {k})
      BY <2>3, <3>1, <3>2, VisitBuilt
    <3>4. Visited(dd2) = Visited(dd) \cup {k}
      BY <2>3, <3>3 DEF Visited
    <3>5. CASE k = "time" /\ TimeBad(a)
      <4>1. ErrOf(wire) = "time"
        BY <2>3, <3>5 DEF ErrOf
      <4>. QED  BY <3>3, <3>5, <4>1
    <3>6. CASE ~(k = "time" /\ TimeBad(a))
      <4>1. "time" \in Visited(dd2) => ~TimeBad(a)
        BY <3>2, <3>4, <3>6
      <4>. QED  BY <2>3, <3>3, <3>4, <3>6, <4>1
    <3>. QED  BY <3>5, <3>6
  <2>. QED  BY <1>0, <2>4, <2>5, <2>6 DEF DInv
<1>5. ASSUME NEW d \in Decoders, UnmarshalEnd(d) PROVE DInv'
  <2>. DEFINE dd == dec[d]
              dd2 == FromAvroData(dd)
              a == dd.rec.attr
  <2>1. dec'[d] = dd2 /\ wire' = wire
    BY <1>5 DEF UnmarshalEnd, DInv, AInv, IInv, TypeOK
  <2>2. /\ dd.pc = "loop" /\ dd.err = "none" /\ dd.todo = {}
        /\ wire \notin {NoWire, Garbage} /\ a = ReadAttrs(wire)
        /\ dd.rec.data \in ReadData(wire.data) /\ wire.data \in AvroData
        /\ IsDecoder(dd)
    BY <1>5 DEF UnmarshalEnd, DInv, AInv, DecAtomic, DecRecord, IInv, TypeOK, IsWire
  <2>3. \A d2 \in Decoders \ {d} : DecRecord(d2)' /\ DecBuilt(d2)'
    <3>1. \A d2 \in Decoders \ {d} : dec'[d2] = dec[d2]
      BY <1>5 DEF UnmarshalEnd, DInv, AInv, IInv, TypeOK
    <3>. QED  BY <2>1, <3>1, OthersDecoded
  <2>4. /\ dd2.pc = "done" /\ dd2.rec = dd.rec
        /\ dd2.err = IF DataFails(wire.data) THEN "json" ELSE dd.err
        /\ ~DataFails(wire.data) =>
             dd2.out = IF wire.data.b = "null" THEN dd.out
                       ELSE [dd.out EXCEPT !.data = DataOut(wire.data)]
    BY <2>2, DataBuilt
  <2>5. DecRecord(d)'
    BY <2>1, <2>2, <2>4 DEF DInv, DecRecord
  <2>6. DecBuilt(d)'
    <3> SUFFICES ASSUME NoCollision(wire)
                 PROVE  /\ dd2.err = ErrOf(wire)
                        /\ dd2.err = "none" => dd2.out = Final(wire)
      BY <2>1, <2>2, <2>4 DEF DecBuilt
    <3>. DEFINE B == Built(a, DOMAIN wire.attr \ Required)
    <3>1. Visited(dd) = DOMAIN wire.attr \ Required
      BY <2>2, ReadAttrsDomain DEF Visited
    <3>2. dd.out = B /\ ("time" \in Visited(dd) => ~TimeBad(a))
      BY <2>2, <3>1 DEF DInv, DecBuilt
    <3>3. ~TimeBad(a)
      <4>1. CASE "time" \in DOMAIN wire.attr
        <5>1. "time" \in Visited(dd)
          BY <3>1, <4>1 DEF Required
        <5>. QED  BY <3>2, <5>1
      <4>2. CASE "time" \notin DOMAIN wire.attr
        BY <2>2, <4>2, ReadAttrsDomain DEF TimeBad, Str
      <4>. QED  BY <4>1, <4>2
    <3>4. ErrOf(wire) = IF DataFails(wire.data) THEN "json" ELSE "none"
      BY <2>2, <3>3 DEF ErrOf
    <3>5. Final(wire) = [B EXCEPT !.data = DataOut(wire.data)]
      BY <2>2 DEF Final
    <3>6. ASSUME ~DataFails(wire.data) PROVE dd2.out = Final(wire)
      <4>1. CASE wire.data.b = "null"
        <5>1. DOMAIN B = EventFields /\ B.data = NoData
          BY BuiltFields
        <5>2. B = [f \in EventFields |-> B[f]]
          BY DEF Built, NewEvent, EventFields, Required, OptionalText
        <5>3. DataOut(wire.data) = NoData
          BY <4>1 DEF DataOut
        <5>4. [B EXCEPT !.data = NoData] = B
          BY <5>1, <5>2 DEF EventFields
        <5>. QED  BY <2>4, <3>2, <3>5, <3>6, <4>1, <5>3, <5>4
      <4>2. CASE wire.data.b # "null"
        BY <2>4, <3>2, <3>5, <3>6, <4>2
      <4>. QED  BY <4>1, <4>2
    <3>. QED  BY <2>2, <2>4, <3>4, <3>6
  <2>. QED  BY <1>0, <2>3, <2>5, <2>6 DEF DInv
<1>6. ASSUME Reset PROVE DInv'
  <2>1. \A d \in Decoders : dec'[d].pc = "idle"
    BY <1>6 DEF Reset, IdleDecoder
  <2>. QED  BY <1>0, <2>1, IdleDecoded DEF DInv
<1>7. CASE UNCHANGED vars
  BY <1>7 DEF vars, DInv, AInv, OriginInv, DecAtomic, IInv, TypeOK, TodoInRecord,
             DecRecord, DecBuilt
<1>. QED  BY <1>1, <1>2, <1>3, <1>4, <1>5, <1>6, <1>7 DEF Next

-----------------------------------------------------------------------------
(* Determinism.                                                            *)

\* The bytes on the wire have no two keys that name the same extension.
WireNoCollision == wire \in {NoWire, Garbage} \/ NoCollision(wire)

\* Two decoders that have returned on bytes without a collision agree:
\* both failed in the engine on garbage, or both hold ErrOf(wire), and
\* then both callers hold Final(wire) or both still hold Prior.
LEMMA DInvDeterministic == DInv /\ WireNoCollision => DecodeDeterministic
<1> SUFFICES ASSUME DInv, WireNoCollision, NEW d1 \in Decoders, NEW d2 \in Decoders,
                    dec[d1].pc = "done", dec[d2].pc = "done"
             PROVE  dec[d1].err = dec[d2].err /\ target[d1] = target[d2]
  BY DEF DecodeDeterministic
<1>1. wire # NoWire
  BY DEF DInv, DecRecord
<1>2. \A d \in {d1, d2} : dec[d].err # "none" => target[d] = Prior
  BY DEF DInv, AInv, DecAtomic
<1>3. CASE wire = Garbage
  <2>1. dec[d1].err = "engine" /\ dec[d2].err = "engine"
    BY <1>3 DEF DInv, DecRecord
  <2>. QED  BY <1>2, <2>1
<1>4. CASE wire # Garbage
  <2>1. NoCollision(wire)
    BY <1>1, <1>4 DEF WireNoCollision
  <2>2. \A d \in {d1, d2} : /\ dec[d].err = ErrOf(wire)
                            /\ dec[d].err = "none" => target[d] = Final(wire)
    BY <1>1, <1>4, <2>1 DEF DInv, DecBuilt, AInv, DecAtomic
  <2>. QED  BY <1>2, <2>2
<1>. QED  BY <1>3, <1>4

\* Decoding is deterministic on bytes without a collision (spec.md 4.1,
\* avro.go:154-250): whatever order each FromAvro walks record.Attribute
\* in, two Unmarshal calls of bytes in which no two extension keys lower-case
\* to the same name return the same error and leave the same event.
THEOREM DeterministicWithoutCollision == Spec => [](WireNoCollision => DecodeDeterministic)
<1>1. Init => DInv
  BY InitDInv
<1>2. DInv /\ [Next]_vars => DInv'
  BY NextDInv
<1>3. DInv => (WireNoCollision => DecodeDeterministic)
  BY DInvDeterministic
<1>. QED  BY <1>1, <1>2, <1>3, PTL DEF Spec

-----------------------------------------------------------------------------
(* No attribute dropped.                                                   *)

\* SetExtension accepts every key of the bytes that FromAvro hands it with
\* a value: a name of [a-zA-Z0-9]+ whose lower case is no context
\* attribute.
WireAccepted ==
  \/ wire \in {NoWire, Garbage}
  \/ \A k \in DOMAIN wire.attr \ Reserved :
       wire.attr[k].t # "null" => k \notin BadKeys /\ Lower(k) \notin Reserved


\* An attribute the engine read with a value is an extension value other
\* than nil.
LEMMA ValueNotNil ==
  ASSUME NEW x \in AvroAttr, x.t # "null"
  PROVE  extensionValueFrom(ReadAttr(x)) # GoNil
<1>1. ReadAttr(x).t \in {"bool", "int", "string", "bytes"}
  BY DEF ReadAttr, AvroAttr, GoTypeOf
<1>. QED  BY <1>1 DEF extensionValueFrom, GoNil

\* A decoder that returned without error on accepted bytes without a
\* collision gave its caller an extension for every key with a value.
LEMMA DInvNoDrop == DInv /\ WireAccepted /\ WireNoCollision => NoAttributeDropped
<1> SUFFICES ASSUME DInv, WireAccepted, WireNoCollision, NEW d \in Decoders,
                    dec[d].pc = "done", dec[d].err = "none",
                    NEW k \in DOMAIN wire.attr \ Reserved, wire.attr[k].t # "null"
             PROVE  Lower(k) \in DOMAIN target[d].ext
  BY DEF NoAttributeDropped
<1>1. wire \notin {NoWire, Garbage}
  BY DEF DInv, AInv, DecAtomic
<1>2. target[d] = Final(wire)
  <2>1. NoCollision(wire)
    BY <1>1 DEF WireNoCollision
  <2>. QED  BY <1>1, <2>1 DEF DInv, AInv, DecAtomic, DecBuilt
<1>. DEFINE a == ReadAttrs(wire)
            V == DOMAIN wire.attr \ Required
<1>3. DOMAIN Final(wire).ext = {Lower(j) : j \in SetKeys(a, V)}
  <2>1. Final(wire).ext = Built(a, V).ext
    BY BuiltFields DEF Final, EventFields
  <2>2. Built(a, V).ext = ExtOf(a, SetKeys(a, V))
    BY BuiltFields DEF BuiltExt
  <2>. QED  BY <2>1, <2>2 DEF ExtOf
<1>4. k \in SetKeys(a, V)
  <2>1. k \in V \ Reserved
    BY DEF Reserved
  <2>2. k \notin BadKeys /\ Lower(k) \notin Reserved
    BY <1>1 DEF WireAccepted
  <2>3. wire.attr[k] \in AvroAttr
    BY <1>1 DEF DInv, AInv, IInv, TypeOK, IsWire, IsMap
  <2>4. a[k] = ReadAttr(wire.attr[k])
    BY DEF ReadAttrs
  <2>5. extensionValueFrom(a[k]) # GoNil
    BY <2>3, <2>4, ValueNotNil
  <2>. QED  BY <2>1, <2>2, <2>5 DEF SetKeys
<1>. QED  BY <1>2, <1>3, <1>4

\* Unmarshal drops no attribute of bytes SetExtension accepts
\* (avro.go:214-220): when every key with a value is a name of
\* [a-zA-Z0-9]+ whose lower case is no context attribute, and no two keys
\* lower-case to the same name, every key with a value names an extension
\* of the event a successful Unmarshal returns.  envelope_badkeys shows
\* the first condition is needed; a null ext with Ext = "a" (the last-wins
\* order of envelope_casekeys) shows the second is.
THEOREM AcceptedNotDropped == Spec => [](WireAccepted /\ WireNoCollision => NoAttributeDropped)
<1>1. Init => DInv
  BY InitDInv
<1>2. DInv /\ [Next]_vars => DInv'
  BY NextDInv
<1>3. DInv => (WireAccepted /\ WireNoCollision => NoAttributeDropped)
  BY DInvNoDrop
<1>. QED  BY <1>1, <1>2, <1>3, PTL DEF Spec

=============================================================================
