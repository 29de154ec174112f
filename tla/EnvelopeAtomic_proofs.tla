------------------------ MODULE EnvelopeAtomic_proofs ------------------------
(***************************************************************************)
(* Unmarshal is all or nothing (avro.go:68-79): the proof that every       *)
(* behaviour satisfies UnmarshalAtomic, for every value of the constants.  *)
(*                                                                         *)
(* UnmarshalAtomic is not inductive.  A decoder in FromAvro's loop may     *)
(* still fail, so the invariant must say that until then the caller's      *)
(* event is Prior; that on success the caller's event is the one FromAvro  *)
(* built; that the record a decoder reads has the keys of the bytes on the *)
(* wire, which stay put while any decoder runs; and that the extensions    *)
(* the decoder has built so far come from those keys.                      *)
(***************************************************************************)
EXTENDS EnvelopeCodec_proofs

\* Bytes change only between calls: while origin is "none" nothing is on
\* the wire and no decoder runs.
OriginInv == origin = "none" => wire = NoWire /\ \A d \in Decoders : dec[d].pc = "idle"

\* Decoder d's progress against the caller's event and the wire.
DecAtomic(d) ==
  /\ dec[d].pc = "loop" => dec[d].err = "none"
  /\ (dec[d].pc # "done" \/ dec[d].err # "none") => target[d] = Prior
  /\ (dec[d].pc = "done" /\ dec[d].err = "none") => target[d] = dec[d].out
  /\ (dec[d].pc # "idle" /\ dec[d].err = "none") =>
       /\ wire \notin {NoWire, Garbage}
       /\ DOMAIN dec[d].rec.attr = DOMAIN wire.attr
       /\ DOMAIN dec[d].out.ext \subseteq {Lower(k) : k \in DOMAIN wire.attr}

AInv == IInv /\ OriginInv /\ \A d \in Decoders : DecAtomic(d)

\* SetExtension adds at most the lower-cased name to the extension keys.
LEMMA SetExtensionKeys ==
  ASSUME NEW e, NEW k, NEW x
  PROVE  DOMAIN SetExtension(e, k, x).ext \subseteq DOMAIN e.ext \cup {Lower(k)}
BY DEF SetExtension

\* One iteration of FromAvro's loop either goes on with no error or stops
\* with one; it keeps the record and adds at most the key it visits,
\* lower-cased, to the extensions (avro.go:183-222).
LEMMA VisitAtomic ==
  ASSUME NEW dd, IsDecoder(dd), dd.todo \subseteq DOMAIN dd.rec.attr \ Required,
         NEW k \in dd.todo
  PROVE  LET dd2 == FromAvroVisit(dd, k)
         IN  /\ dd2.rec = dd.rec
             /\ \/ dd2.pc = dd.pc /\ dd2.err = dd.err
                \/ dd2.pc = "done" /\ dd2.err # "none"
             /\ DOMAIN dd2.out.ext \subseteq DOMAIN dd.out.ext \cup {Lower(k)}
<1>. DEFINE x == dd.rec.attr[k]
            next == [dd EXCEPT !.todo = @ \ {k}]
<1>1. next.rec = dd.rec /\ next.pc = dd.pc /\ next.err = dd.err /\ next.out = dd.out
  BY DEF IsDecoder
<1>2. "ext" \in DOMAIN dd.out /\ "time" # "ext"
  BY DEF IsDecoder, IsEvent, EventFields
<1>3. CASE k \in OptionalText
  <2>1. k # "ext"
    BY <1>3 DEF OptionalText
  <2>2. CASE x.t = "string"
    <3>1. FromAvroVisit(dd, k) = [next EXCEPT !.out = [next.out EXCEPT ![k] = x.s]]
      BY <1>3, <2>2 DEF FromAvroVisit, OptionalText
    <3>. QED  BY <1>1, <1>2, <2>1, <3>1 DEF IsDecoder
  <2>3. CASE x.t # "string"
    <3>1. FromAvroVisit(dd, k) = next
      BY <1>3, <2>3 DEF FromAvroVisit, OptionalText
    <3>. QED  BY <1>1, <3>1
  <2>. QED  BY <2>2, <2>3
<1>4. CASE k = "time"
  <2>1. k \notin OptionalText
    BY <1>4 DEF OptionalText
  <2>2. CASE x.t = "string" /\ ParseOK(x.s)
    <3>1. FromAvroVisit(dd, k) = [next EXCEPT !.out = [next.out EXCEPT !.time = SetTimeValue(Parse(x.s))]]
      BY <1>4, <2>1, <2>2 DEF FromAvroVisit
    <3>. QED  BY <1>1, <1>2, <3>1 DEF IsDecoder
  <2>3. CASE x.t = "string" /\ ~ParseOK(x.s)
    <3>1. FromAvroVisit(dd, k) = [next EXCEPT !.pc = "done", !.err = "time"]
      BY <1>4, <2>1, <2>3 DEF FromAvroVisit
    <3>. QED  BY <1>1, <3>1 DEF IsDecoder
  <2>4. CASE x.t # "string"
    <3>1. FromAvroVisit(dd, k) = next
      BY <1>4, <2>1, <2>4 DEF FromAvroVisit
    <3>. QED  BY <1>1, <3>1
  <2>. QED  BY <2>2, <2>3, <2>4
<1>5. CASE k \notin OptionalText /\ k # "time"
  <2>1. CASE extensionValueFrom(x).t = "unsupported"
    <3>1. FromAvroVisit(dd, k) = [next EXCEPT !.pc = "done", !.err = "unsupported"]
      BY <1>5, <2>1 DEF FromAvroVisit
    <3>. QED  BY <1>1, <3>1 DEF IsDecoder
  <2>2. CASE extensionValueFrom(x).t # "unsupported"
    <3>1. FromAvroVisit(dd, k) = [next EXCEPT !.out = SetExtension(dd.out, k, extensionValueFrom(x))]
      BY <1>5, <2>2 DEF FromAvroVisit
    <3>2. DOMAIN SetExtension(dd.out, k, extensionValueFrom(x)).ext \subseteq DOMAIN dd.out.ext \cup {Lower(k)}
      BY SetExtensionKeys
    <3>. QED  BY <1>1, <3>1, <3>2 DEF IsDecoder
  <2>. QED  BY <2>1, <2>2
<1>. QED  BY <1>3, <1>4, <1>5

\* The end of FromAvro returns, keeps the record and the extensions, and
\* adds no error but the JSON one (avro.go:224-249).
LEMMA DataAtomic ==
  ASSUME NEW dd, IsDecoder(dd)
  PROVE  LET dd2 == FromAvroData(dd)
         IN  /\ dd2.rec = dd.rec /\ dd2.pc = "done"
             /\ dd2.err \in {dd.err, "json"}
             /\ dd2.out.ext = dd.out.ext
<1>. DEFINE x == dd.rec.data
            set(c) == [dd EXCEPT !.pc = "done", !.out.data = c]
<1>1. \A c : set(c).rec = dd.rec /\ set(c).pc = "done" /\ set(c).err = dd.err /\ set(c).out.ext = dd.out.ext
  BY DEF IsDecoder, IsEvent, EventFields
<1>2. LET f == [dd EXCEPT !.pc = "done"]
      IN  f.rec = dd.rec /\ f.pc = "done" /\ f.err = dd.err /\ f.out = dd.out
  BY DEF IsDecoder
<1>3. LET f == [dd EXCEPT !.pc = "done", !.err = "json"]
      IN  f.rec = dd.rec /\ f.pc = "done" /\ f.err = "json" /\ f.out = dd.out
  BY DEF IsDecoder
<1>4. \/ \E c : FromAvroData(dd) = set(c)
      \/ FromAvroData(dd) = [dd EXCEPT !.pc = "done"]
      \/ FromAvroData(dd) = [dd EXCEPT !.pc = "done", !.err = "json"]
  BY DEF FromAvroData
<1> HIDE DEF set
<1>. QED  BY <1>1, <1>2, <1>3, <1>4

\* The initial state satisfies AInv.
LEMMA InitAInv == Init => AInv
BY InitIInv DEF Init, AInv, OriginInv, DecAtomic, IdleDecoder

\* A step of decoder d leaves the other decoders, their callers' events,
\* the wire and origin as they were.
LEMMA OthersAtomic ==
  ASSUME AInv, NEW d \in Decoders,
         \A d2 \in Decoders \ {d} : dec'[d2] = dec[d2] /\ target'[d2] = target[d2],
         wire' = wire
  PROVE  \A d2 \in Decoders \ {d} : DecAtomic(d2)'
BY DEF AInv, DecAtomic

\* Every step keeps AInv.
LEMMA NextAInv == AInv /\ [Next]_vars => AInv'
<1> SUFFICES ASSUME AInv, [Next]_vars PROVE AInv'
  OBVIOUS
<1>0. IInv'
  BY NextIInv DEF AInv
<1>1. ASSUME NEW e \in Events, Marshal(e) PROVE AInv'
  BY <1>0, <1>1 DEF Marshal, AInv, OriginInv, DecAtomic
<1>2. ASSUME NEW w \in ForeignRecords \cup {Garbage}, Deliver(w) PROVE AInv'
  BY <1>0, <1>2 DEF Deliver, AInv, OriginInv, DecAtomic
<1>3. ASSUME NEW d \in Decoders, UnmarshalBegin(d) PROVE AInv'
  <2>1. target[d] = Prior /\ wire # NoWire /\ origin # "none"
    BY <1>3 DEF UnmarshalBegin, AInv, OriginInv, DecAtomic
  <2>2. OriginInv'
    BY <1>3, <2>1 DEF UnmarshalBegin, OriginInv
  <2>3. \A d2 \in Decoders \ {d} : DecAtomic(d2)'
    <3>1. \A d2 \in Decoders \ {d} : dec'[d2] = dec[d2] /\ target'[d2] = target[d2]
      BY <1>3 DEF UnmarshalBegin, AInv, IInv, TypeOK
    <3>. QED  BY <1>3, <3>1, OthersAtomic DEF UnmarshalBegin
  <2>4. ASSUME wire = Garbage PROVE DecAtomic(d)'
    <3>1. dec'[d] = [dec[d] EXCEPT !.pc = "done", !.err = "engine"]
      BY <1>3, <2>4 DEF UnmarshalBegin, AInv, IInv, TypeOK
    <3>2. dec'[d].pc = "done" /\ dec'[d].err = "engine"
      BY <3>1 DEF AInv, IInv, TypeOK, IsDecoder
    <3>. QED  BY <1>3, <2>1, <3>2 DEF UnmarshalBegin, DecAtomic
  <2>5. ASSUME wire # Garbage PROVE DecAtomic(d)'
    <3>1. PICK r \in UnmarshalRecords(wire) :
            dec' = [dec EXCEPT ![d] = [pc |-> "loop", rec |-> r, todo |-> DOMAIN r.attr \ Required,
                                       out |-> FromAvroRequired(r), err |-> "none"]]
      BY <1>3, <2>5 DEF UnmarshalBegin
    <3>2. DOMAIN r.attr = DOMAIN wire.attr
      BY DEF UnmarshalRecords
    <3>3. FromAvroRequired(r).ext = NewEvent.ext
      BY DEF FromAvroRequired, NewEvent, Required
    <3>4. DOMAIN NewEvent.ext = {}
      BY DEF NewEvent
    <3>5. dec'[d] = [pc |-> "loop", rec |-> r, todo |-> DOMAIN r.attr \ Required,
                     out |-> FromAvroRequired(r), err |-> "none"]
      BY <3>1 DEF AInv, IInv, TypeOK
    <3>. QED  BY <1>3, <2>1, <2>5, <3>2, <3>3, <3>4, <3>5 DEF UnmarshalBegin, DecAtomic
  <2>. QED  BY <1>0, <2>2, <2>3, <2>4, <2>5 DEF AInv
<1>4. ASSUME NEW d \in Decoders, UnmarshalVisit(d) PROVE AInv'
  <2>1. PICK k \in dec[d].todo : dec' = [dec EXCEPT ![d] = FromAvroVisit(dec[d], k)]
    BY <1>4 DEF UnmarshalVisit
  <2>2. dec'[d] = FromAvroVisit(dec[d], k)
    BY <2>1 DEF AInv, IInv, TypeOK
  <2>3. dec[d].pc = "loop" /\ dec[d].err = "none"
    BY <1>4 DEF UnmarshalVisit, AInv, DecAtomic
  <2>4. k \in DOMAIN wire.attr
    BY <2>3 DEF AInv, DecAtomic, IInv, TodoInRecord
  <2>5. LET dd2 == FromAvroVisit(dec[d], k)
        IN  /\ dd2.rec = dec[d].rec
            /\ \/ dd2.pc = dec[d].pc /\ dd2.err = dec[d].err
               \/ dd2.pc = "done" /\ dd2.err # "none"
            /\ DOMAIN dd2.out.ext \subseteq DOMAIN dec[d].out.ext \cup {Lower(k)}
    BY VisitAtomic DEF AInv, IInv, TypeOK, TodoInRecord
  <2>6. DecAtomic(d)'
    <3>1. target'[d] = Prior /\ wire' = wire
      BY <1>4, <2>3 DEF UnmarshalVisit, AInv, DecAtomic
    <3>2. wire \notin {NoWire, Garbage} /\ DOMAIN dec[d].rec.attr = DOMAIN wire.attr
          /\ DOMAIN dec[d].out.ext \subseteq {Lower(j) : j \in DOMAIN wire.attr}
      BY <2>3 DEF AInv, DecAtomic
    <3>3. CASE dec'[d].pc = "loop" /\ dec'[d].err = "none"
      <4>1. DOMAIN dec'[d].out.ext \subseteq {Lower(j) : j \in DOMAIN wire.attr}
        BY <2>2, <2>4, <2>5, <3>2
      <4>. QED  BY <2>2, <2>5, <3>1, <3>2, <3>3, <4>1 DEF DecAtomic
    <3>4. CASE dec'[d].pc = "done" /\ dec'[d].err # "none"
      BY <3>1, <3>4 DEF DecAtomic
    <3>. QED  BY <2>2, <2>3, <2>5, <3>3, <3>4
  <2>7. \A d2 \in Decoders \ {d} : DecAtomic(d2)'
    <3>1. \A d2 \in Decoders \ {d} : dec'[d2] = dec[d2] /\ target'[d2] = target[d2]
      BY <1>4, <2>1 DEF UnmarshalVisit, AInv, IInv, TypeOK
    <3>. QED  BY <1>4, <3>1, OthersAtomic DEF UnmarshalVisit
  <2>8. OriginInv'
    BY <1>4, <2>3 DEF UnmarshalVisit, AInv, OriginInv
  <2>. QED  BY <1>0, <2>6, <2>7, <2>8 DEF AInv
<1>5. ASSUME NEW d \in Decoders, UnmarshalEnd(d) PROVE AInv'
  <2>1. dec' = [dec EXCEPT ![d] = FromAvroData(dec[d])]
    BY <1>5 DEF UnmarshalEnd
  <2>2. dec'[d] = FromAvroData(dec[d])
    BY <2>1 DEF AInv, IInv, TypeOK
  <2>3. dec[d].pc = "loop" /\ dec[d].err = "none"
    BY <1>5 DEF UnmarshalEnd, AInv, DecAtomic
  <2>4. LET dd2 == FromAvroData(dec[d])
        IN  /\ dd2.rec = dec[d].rec /\ dd2.pc = "done"
            /\ dd2.err \in {dec[d].err, "json"}
            /\ dd2.out.ext = dec[d].out.ext
    BY DataAtomic DEF AInv, IInv, TypeOK
  <2>5. target' = IF dec'[d].err = "none" THEN [target EXCEPT ![d] = dec'[d].out] ELSE target
    BY <1>5 DEF UnmarshalEnd
  <2>6. target'[d] = IF dec'[d].err = "none" THEN dec'[d].out ELSE target[d]
    BY <2>5 DEF AInv, IInv, TypeOK
  <2>7. DecAtomic(d)'
    <3>1. target[d] = Prior /\ wire' = wire
      BY <1>5, <2>3 DEF UnmarshalEnd, AInv, DecAtomic
    <3>2. wire \notin {NoWire, Garbage} /\ DOMAIN dec[d].rec.attr = DOMAIN wire.attr
          /\ DOMAIN dec[d].out.ext \subseteq {Lower(j) : j \in DOMAIN wire.attr}
      BY <2>3 DEF AInv, DecAtomic
    <3>3. dec'[d].pc = "done" /\ dec'[d].rec = dec[d].rec /\ dec'[d].out.ext = dec[d].out.ext
          /\ dec'[d].err \in {"none", "json"}
      BY <2>2, <2>3, <2>4
    <3>4. CASE dec'[d].err = "none"
      BY <2>6, <3>1, <3>2, <3>3, <3>4 DEF DecAtomic
    <3>5. CASE dec'[d].err # "none"
      BY <2>6, <3>1, <3>3, <3>5 DEF DecAtomic
    <3>. QED  BY <3>4, <3>5
  <2>9. \A d2 \in Decoders \ {d} : DecAtomic(d2)'
    <3>1. \A d2 \in Decoders \ {d} : dec'[d2] = dec[d2] /\ target'[d2] = target[d2]
      BY <2>1, <2>5 DEF AInv, IInv, TypeOK
    <3>. QED  BY <1>5, <3>1, OthersAtomic DEF UnmarshalEnd
  <2>10. OriginInv'
    BY <1>5, <2>3 DEF UnmarshalEnd, AInv, OriginInv
  <2>. QED  BY <1>0, <2>7, <2>9, <2>10 DEF AInv
<1>6. ASSUME Reset PROVE AInv'
  BY <1>0, <1>6 DEF Reset, AInv, OriginInv, DecAtomic, IdleDecoder
<1>7. CASE UNCHANGED vars
  BY <1>0, <1>7 DEF vars, AInv, OriginInv, DecAtomic
<1>. QED  BY <1>1, <1>2, <1>3, <1>4, <1>5, <1>6, <1>7 DEF Next

\* AInv gives UnmarshalAtomic: a caller's event is Prior until its
\* Unmarshal succeeds, and then every extension comes from the wire.
LEMMA AInvAtomic == AInv => UnmarshalAtomic
BY DEF AInv, DecAtomic, UnmarshalAtomic

\* Unmarshal is all or nothing (avro.go:68-79, *e = *e2 only after FromAvro
\* returned no error): for every value of the constants, every number of
\* concurrent decoders and every order of FromAvro's map iteration, the
\* caller's event is untouched until its Unmarshal succeeds, and what it
\* then holds carries no extension of the old event.
THEOREM UnmarshalIsAtomic == Spec => []UnmarshalAtomic
<1>1. Init => AInv
  BY InitAInv
<1>2. AInv /\ [Next]_vars => AInv'
  BY NextAInv
<1>3. AInv => UnmarshalAtomic
  BY AInvAtomic
<1>. QED  BY <1>1, <1>2, <1>3, PTL DEF Spec

=============================================================================
