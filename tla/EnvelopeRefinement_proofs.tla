---------------------- MODULE EnvelopeRefinement_proofs ----------------------
(***************************************************************************)
(* avroFmt.Unmarshal implements UnmarshalAbstract: the proof that every    *)
(* behaviour of EnvelopeCodec, under the mapping UnmarshalStatus, is a     *)
(* behaviour of the atomic call.  The steps of a decoder before its return *)
(* are stutters of the abstract spec, and its return is the abstract       *)
(* Unmarshal.  The argument rests on AInv: the bytes stay put while a      *)
(* decoder runs, a running decoder has no error, and the extensions it has *)
(* built come from the keys of the record on the wire.                     *)
(***************************************************************************)
EXTENDS EnvelopeAtomic_proofs

\* A step that changes decoder d alone changes its abstract status alone.
LEMMA StatusExcept ==
  ASSUME NEW d \in Decoders, NEW X, DOMAIN dec = Decoders,
         dec' = [dec EXCEPT ![d] = X]
  PROVE  UnmarshalStatus' =
           [UnmarshalStatus EXCEPT ![d] = IF X.pc # "done" THEN "idle"
                                         ELSE IF X.err = "none" THEN "ok" ELSE "failed"]
BY DEF UnmarshalStatus

\* The initial state maps to the abstract initial state.
LEMMA InitRefines == Init => Abstract!AInit
BY DEF Init, Abstract!AInit, UnmarshalStatus, IdleDecoder

\* Every step maps to an abstract step or a stutter.
LEMMA NextRefines == AInv /\ [Next]_vars => [Abstract!ANext]_Abstract!avars
<1> SUFFICES ASSUME AInv, [Next]_vars PROVE [Abstract!ANext]_Abstract!avars
  OBVIOUS
<1>0. AInv'
  BY NextAInv
<1>. DEFINE St == UnmarshalStatus
<1>1. ASSUME NEW e \in Events, Marshal(e) PROVE Abstract!Produce
  <2>1. St' = St
    BY <1>1 DEF Marshal, UnmarshalStatus
  <2>2. wire' \in {NoWire, Garbage} \/ IsWire(wire')
    BY <1>0 DEF AInv, IInv, TypeOK
  <2>. QED  BY <1>1, <2>1, <2>2 DEF Marshal, Abstract!Produce
<1>2. ASSUME NEW w \in ForeignRecords \cup {Garbage}, Deliver(w) PROVE Abstract!Produce
  <2>1. St' = St
    BY <1>2 DEF Deliver, UnmarshalStatus
  <2>2. wire' \in {NoWire, Garbage} \/ IsWire(wire')
    BY <1>0 DEF AInv, IInv, TypeOK
  <2>. QED  BY <1>2, <2>1, <2>2 DEF Deliver, Abstract!Produce
<1>3. ASSUME NEW d \in Decoders, UnmarshalBegin(d) PROVE [Abstract!ANext]_Abstract!avars
  <2>0. DOMAIN dec = Decoders /\ St[d] = "idle"
    BY <1>3 DEF UnmarshalBegin, AInv, IInv, TypeOK, UnmarshalStatus
  <2>1. CASE wire = Garbage
    <3>1. dec' = [dec EXCEPT ![d] = [dec[d] EXCEPT !.pc = "done", !.err = "engine"]]
      BY <1>3, <2>1 DEF UnmarshalBegin
    <3>2. St' = [St EXCEPT ![d] = "failed"]
      <4>. DEFINE X == [dec[d] EXCEPT !.pc = "done", !.err = "engine"]
      <4>1. X.pc = "done" /\ X.err = "engine"
        BY DEF AInv, IInv, TypeOK, IsDecoder
      <4>2. St' = [St EXCEPT ![d] = IF X.pc # "done" THEN "idle"
                                    ELSE IF X.err = "none" THEN "ok" ELSE "failed"]
        BY <3>1, <2>0, StatusExcept
      <4>. QED  BY <4>1, <4>2
    <3>3. Abstract!Unmarshal(d)
      BY <1>3, <2>0, <3>2 DEF UnmarshalBegin, Abstract!Unmarshal
    <3>. QED  BY <3>3 DEF Abstract!ANext
  <2>2. CASE wire # Garbage
    <3>1. PICK r \in UnmarshalRecords(wire) :
            dec' = [dec EXCEPT ![d] = [pc |-> "loop", rec |-> r, todo |-> DOMAIN r.attr \ Required,
                                       out |-> FromAvroRequired(r), err |-> "none"]]
      BY <1>3, <2>2 DEF UnmarshalBegin
    <3>. DEFINE X == [pc |-> "loop", rec |-> r, todo |-> DOMAIN r.attr \ Required,
                      out |-> FromAvroRequired(r), err |-> "none"]
    <3>2. St' = [St EXCEPT ![d] = IF X.pc # "done" THEN "idle"
                                  ELSE IF X.err = "none" THEN "ok" ELSE "failed"]
      BY <3>1, <2>0, StatusExcept
    <3>3. St' = St
      BY <3>2, <2>0 DEF UnmarshalStatus
    <3>. QED  BY <1>3, <3>3 DEF UnmarshalBegin, Abstract!avars
  <2>. QED  BY <2>1, <2>2
<1>4. ASSUME NEW d \in Decoders, UnmarshalVisit(d) PROVE [Abstract!ANext]_Abstract!avars
  <2>1. PICK k \in dec[d].todo : dec' = [dec EXCEPT ![d] = FromAvroVisit(dec[d], k)]
    BY <1>4 DEF UnmarshalVisit
  <2>2. DOMAIN dec = Decoders /\ dec[d].pc = "loop" /\ dec[d].err = "none" /\ St[d] = "idle"
    BY <1>4 DEF UnmarshalVisit, AInv, IInv, TypeOK, DecAtomic, UnmarshalStatus
  <2>3. LET dd2 == FromAvroVisit(dec[d], k)
        IN  \/ dd2.pc = dec[d].pc /\ dd2.err = dec[d].err
            \/ dd2.pc = "done" /\ dd2.err # "none"
    BY VisitAtomic DEF AInv, IInv, TypeOK, TodoInRecord
  <2>4. wire # NoWire
    BY <2>2 DEF AInv, DecAtomic
  <2>5. CASE FromAvroVisit(dec[d], k).pc = "loop"
    <3>1. St' = [St EXCEPT ![d] = "idle"]
      BY <2>1, <2>2, <2>5, StatusExcept
    <3>2. St' = St
      BY <3>1, <2>2 DEF UnmarshalStatus
    <3>. QED  BY <1>4, <3>2 DEF UnmarshalVisit, Abstract!avars
  <2>6. CASE FromAvroVisit(dec[d], k).pc = "done" /\ FromAvroVisit(dec[d], k).err # "none"
    <3>1. St' = [St EXCEPT ![d] = "failed"]
      BY <2>1, <2>2, <2>6, StatusExcept
    <3>2. Abstract!Unmarshal(d)
      BY <1>4, <2>2, <2>4, <3>1 DEF UnmarshalVisit, Abstract!Unmarshal
    <3>. QED  BY <3>2 DEF Abstract!ANext
  <2>. QED  BY <2>2, <2>3, <2>5, <2>6
<1>5. ASSUME NEW d \in Decoders, UnmarshalEnd(d) PROVE Abstract!Unmarshal(d)
  <2>1. dec' = [dec EXCEPT ![d] = FromAvroData(dec[d])]
    BY <1>5 DEF UnmarshalEnd
  <2>2. DOMAIN dec = Decoders /\ DOMAIN target = Decoders /\ dec[d].pc = "loop" /\ dec[d].err = "none"
        /\ St[d] = "idle"
    BY <1>5 DEF UnmarshalEnd, AInv, IInv, TypeOK, DecAtomic, UnmarshalStatus
  <2>3. dec'[d] = FromAvroData(dec[d]) /\ dec'[d].pc = "done"
    <3>1. FromAvroData(dec[d]).pc = "done"
      BY DataAtomic DEF AInv, IInv, TypeOK
    <3>. QED  BY <2>1, <2>2, <3>1
  <2>4. wire \notin {NoWire, Garbage} /\ wire' = wire /\ origin' = origin
    BY <1>5, <2>2 DEF UnmarshalEnd, AInv, DecAtomic
  <2>5. target' = IF dec'[d].err = "none" THEN [target EXCEPT ![d] = dec'[d].out] ELSE target
    BY <1>5 DEF UnmarshalEnd
  <2>6. CASE dec'[d].err = "none"
    <3>1. St' = [St EXCEPT ![d] = "ok"]
      BY <2>1, <2>2, <2>3, <2>6, StatusExcept
    <3>2. target' = [target EXCEPT ![d] = dec'[d].out]
      BY <2>5, <2>6
    <3>3. DOMAIN target' = Decoders /\ \A d2 \in Decoders \ {d} : target'[d2] = target[d2]
      BY <2>2, <3>2
    <3>4. IsEvent(target'[d])
      BY <1>0 DEF AInv, IInv, TypeOK
    <3>5. DOMAIN target'[d].ext \subseteq {Lower(k) : k \in DOMAIN wire.attr}
      BY <1>0, <2>3, <2>4, <2>6 DEF AInv, DecAtomic
    <3>. QED  BY <2>2, <2>4, <3>1, <3>3, <3>4, <3>5 DEF Abstract!Unmarshal
  <2>7. CASE dec'[d].err # "none"
    <3>1. St' = [St EXCEPT ![d] = "failed"]
      BY <2>1, <2>2, <2>3, <2>7, StatusExcept
    <3>. QED  BY <2>2, <2>4, <2>5, <2>7, <3>1 DEF Abstract!Unmarshal
  <2>. QED  BY <2>6, <2>7
<1>6. ASSUME Reset PROVE Abstract!AReset
  BY <1>6 DEF Reset, Abstract!AReset, UnmarshalStatus, IdleDecoder
<1>7. CASE UNCHANGED vars
  BY <1>7 DEF vars, Abstract!avars, UnmarshalStatus
<1>. QED  BY <1>1, <1>2, <1>3, <1>4, <1>5, <1>6, <1>7 DEF Next, Abstract!ANext

\* avroFmt.Unmarshal implements the atomic call (avro.go:68-79): for every
\* value of the constants, every number of decoders and every order of
\* FromAvro's map iteration, the codec's behaviours are behaviours of
\* UnmarshalAbstract under the mapping UnmarshalStatus.
THEOREM UnmarshalRefines == Spec => UnmarshalRefinement
<1>1. Init => AInv
  BY InitAInv
<1>2. AInv /\ [Next]_vars => AInv'
  BY NextAInv
<1>3. Init => Abstract!AInit
  BY InitRefines
<1>4. AInv /\ [Next]_vars => [Abstract!ANext]_Abstract!avars
  BY NextRefines
<1>. QED  BY <1>1, <1>2, <1>3, <1>4, PTL DEF Spec, UnmarshalRefinement, Abstract!ASpec

=============================================================================
