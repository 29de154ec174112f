------------------------- MODULE PayloadCodec_proofs -------------------------
(***************************************************************************)
(* Proofs about the Avro data codec (datacodec.go): type correctness, and  *)
(* under the discipline that SetSchemaRegistry runs only while no call is  *)
(* in flight, that getSchemaFor never calls GetSchema on a nil registry    *)
(* and hands the engine the schema spec.md 4.2 picks.                      *)
(***************************************************************************)
EXTENDS PayloadCodec, TLAPS

\* The record a call is, as TypeOK states it.
CallT == [pc : {"idle", "lookup", "done"}, op : {"encode", "decode"},
          in : GoValue \cup ByteSlice, wire : Wire, seen : Registries \cup {NilReg},
          schema : Schemas \cup {NilSchema}, res : Wire \cup GoValue, err : Errors]

\* A call waiting for GetSchema holds a Go value, not a byte slice.
TypeInv ==
  /\ TypeOK
  /\ \A p \in Procs : call[p].pc = "lookup" => call[p].in \in GoValue

LEMMA TypeOKCallT == TypeOK <=> /\ reg \in Registries \cup {NilReg}
                                /\ sets \in 0..MaxSets
                                /\ call \in [Procs -> CallT]
BY DEF TypeOK, CallT

\* A byte slice is no Go value of a payload type.
LEMMA BytesNotValue ==
  ASSUME NEW x \in GoValue \cup ByteSlice
  PROVE  x \in GoValue <=> x.ty # "bytes"
BY PayloadAssumption DEF GoValue, ByteSlice

\* The call record EncodeData or DecodeData starts with is well typed.
LEMMA StartType ==
  ASSUME NEW op \in {"encode", "decode"}, NEW x \in GoValue \cup ByteSlice, NEW w \in Wire,
         NEW r \in Registries \cup {NilReg}
  PROVE  [IdleCall EXCEPT !.op = op, !.in = x, !.wire = w, !.seen = r] \in CallT
BY DEF IdleCall, CallT, Errors, Wire, ByteSlice

\* The engine's Marshal or Unmarshal ends a call with the schema it was
\* handed, leaves the value, the operation and the registry seen alone,
\* and fails at most with "engine" or "nilschema" (main.go:87-113).
LEMMA FinishProps ==
  ASSUME NEW c \in CallT, c.in \in GoValue, NEW s \in Schemas \cup {NilSchema},
         NEW c2 \in Finish(c, s)
  PROVE  /\ c2 \in CallT
         /\ c2.pc = "done" /\ c2.schema = s
         /\ c2.in = c.in /\ c2.op = c.op /\ c2.seen = c.seen
         /\ c2.err \in {"none", "engine", "nilschema"}
<1>1. c.in.val \in Vals /\ c.in.ty \in Types /\ c.wire \in Wire
  BY DEF CallT, GoValue
<1>2. CASE c.op = "encode"
  <2>1. PICK o \in EngineMarshal(s, c.in) : c2 = [c EXCEPT !.pc = "done", !.schema = s, !.res = o.res, !.err = o.err]
    BY <1>2 DEF Finish
  <2>2. o.res \in Wire /\ o.err \in {"none", "engine", "nilschema"}
    BY <1>1, PayloadAssumption DEF EngineMarshal, Wire
  <2>. QED  BY <2>1, <2>2 DEF CallT, Errors
<1>3. CASE c.op # "encode"
  <2>1. PICK o \in EngineUnmarshal(s, c.wire, c.in) :
          c2 = [c EXCEPT !.pc = "done", !.schema = s, !.res = o.res, !.err = o.err]
    BY <1>3 DEF Finish
  <2>2. c.wire # Garbage => c.wire.val \in Vals
    BY <1>1 DEF Wire
  <2>3. [c.in EXCEPT !.val = c.wire.val] \in GoValue \/ c.wire = Garbage
    BY <1>1, <2>2 DEF CallT, GoValue
  <2>4. o.res \in GoValue /\ o.err \in {"none", "engine", "nilschema"}
    BY <2>3 DEF EngineUnmarshal, CallT
  <2>. QED  BY <2>1, <2>4 DEF CallT, Errors
<1>. QED  BY <1>2, <1>3

\* A failed call stays well typed and keeps everything but pc and err.
LEMMA FailProps ==
  ASSUME NEW c \in CallT, NEW e \in Errors
  PROVE  /\ Fail(c, e) \in CallT
         /\ Fail(c, e).pc = "done" /\ Fail(c, e).err = e
         /\ Fail(c, e).in = c.in
BY DEF Fail, CallT

\* The initial state is well typed.
LEMMA InitTypeInv == Init => TypeInv
<1>1. IdleCall \in CallT
  BY DEF IdleCall, CallT, Errors, Wire, ByteSlice
<1>. QED  BY <1>1, PayloadAssumption, TypeOKCallT DEF Init, TypeInv, IdleCall

\* The start of EncodeData or DecodeData keeps the state well typed.
LEMMA CallTypeInv ==
  ASSUME TypeInv, NEW p \in Procs, NEW op \in {"encode", "decode"},
         NEW x \in GoValue \cup ByteSlice, NEW w \in Wire, Call(p, op, x, w)
  PROVE  TypeInv'
<1>. DEFINE c == [IdleCall EXCEPT !.op = op, !.in = x, !.wire = w, !.seen = reg]
<1>1. c \in CallT /\ c.in = x
  BY StartType, TypeOKCallT DEF TypeInv, IdleCall
<1>2. UNCHANGED <<reg, sets>> /\ call \in [Procs -> CallT]
  BY TypeOKCallT DEF Call, TypeInv
<1>4. PICK c2 \in CallT : /\ call' = [call EXCEPT ![p] = c2]
                         /\ (c2.pc = "lookup" => c2.in \in GoValue)
  <2>1. CASE op = "encode" /\ x.ty = "bytes" /\ call' = [call EXCEPT ![p] = [c EXCEPT !.pc = "done", !.res = x.bs]]
    <3>1. x \in ByteSlice
      BY <2>1, BytesNotValue
    <3>2. x.bs \in Wire
      BY <3>1 DEF ByteSlice
    <3>3. [c EXCEPT !.pc = "done", !.res = x.bs] \in CallT
          /\ [c EXCEPT !.pc = "done", !.res = x.bs].pc = "done"
      BY <1>1, <3>2 DEF CallT
    <3>. QED  BY <2>1, <3>3
  <2>2. CASE x.ty # "bytes" /\ Provides(x) /\ \E c3 \in Finish(c, SchemaOf[x.ty]) : call' = [call EXCEPT ![p] = c3]
    <3>1. x \in GoValue /\ SchemaOf[x.ty] \in Schemas
      BY <2>2, BytesNotValue, PayloadAssumption DEF GoValue
    <3>2. PICK c3 \in Finish(c, SchemaOf[x.ty]) : call' = [call EXCEPT ![p] = c3]
      BY <2>2
    <3>3. c3 \in CallT /\ c3.pc = "done"
      <4>1. c \in CallT /\ c.in \in GoValue /\ SchemaOf[x.ty] \in Schemas \cup {NilSchema}
        BY <1>1, <3>1
      <4> HIDE DEF c
      <4>. QED  BY <3>2, <4>1, FinishProps
    <3>. QED  BY <3>2, <3>3
  <2>3. CASE x.ty # "bytes" /\ ~Provides(x) /\ reg = NilReg /\ call' = [call EXCEPT ![p] = Fail(c, "noschema")]
    <3>1. Fail(c, "noschema") \in CallT /\ Fail(c, "noschema").pc = "done"
      BY <1>1, FailProps DEF Errors
    <3>. QED  BY <2>3, <3>1
  <2>4. CASE x.ty # "bytes" /\ ~Provides(x) /\ reg # NilReg /\ call' = [call EXCEPT ![p] = [c EXCEPT !.pc = "lookup"]]
    <3>1. x \in GoValue
      BY <2>4, BytesNotValue
    <3>2. [c EXCEPT !.pc = "lookup"] \in CallT /\ [c EXCEPT !.pc = "lookup"].in \in GoValue
      BY <1>1, <3>1 DEF CallT
    <3>. QED  BY <2>4, <3>2
  <2>. QED  BY <2>1, <2>2, <2>3, <2>4 DEF Call
<1>. QED  BY <1>2, <1>4 DEF Call, TypeInv, TypeOK, CallT

\* GetSchema and the engine keep the state well typed.
LEMMA LookupTypeInv ==
  ASSUME TypeInv, NEW p \in Procs, Lookup(p)
  PROVE  TypeInv'
<1>. DEFINE c == call[p]
<1>1. c \in CallT /\ c.pc = "lookup" /\ c.in \in GoValue /\ call \in [Procs -> CallT]
  BY TypeOKCallT DEF Lookup, TypeInv
<1>2. PICK c2 \in CallT : call' = [call EXCEPT ![p] = c2] /\ c2.pc = "done"
  <2>1. CASE reg = NilReg /\ call' = [call EXCEPT ![p] = Fail(c, "nilregistry")]
    BY <1>1, <2>1, FailProps DEF Errors
  <2>2. CASE reg # NilReg /\ Answer[reg][c.in.ty][c.in.ptr] = RegError /\ call' = [call EXCEPT ![p] = Fail(c, "registry")]
    BY <1>1, <2>2, FailProps DEF Errors
  <2>3. CASE reg # NilReg /\ Answer[reg][c.in.ty][c.in.ptr] # RegError
             /\ \E c3 \in Finish(c, Answer[reg][c.in.ty][c.in.ptr]) : call' = [call EXCEPT ![p] = c3]
    <3>1. reg \in Registries /\ c.in.ty \in Types /\ c.in.ptr \in BOOLEAN
      BY <1>1, <2>3 DEF TypeInv, TypeOK, GoValue
    <3>2. Answer[reg][c.in.ty][c.in.ptr] \in Schemas \cup {NilSchema}
      BY <2>3, <3>1, PayloadAssumption DEF Resolved
    <3>3. PICK c3 \in Finish(c, Answer[reg][c.in.ty][c.in.ptr]) : call' = [call EXCEPT ![p] = c3]
      BY <2>3
    <3>4. c3 \in CallT /\ c3.pc = "done"
      BY <1>1, <3>2, FinishProps
    <3>. QED  BY <3>3, <3>4
  <2>. QED  BY <2>1, <2>2, <2>3 DEF Lookup
<1>. QED  BY <1>1, <1>2 DEF Lookup, TypeInv, TypeOK, CallT

\* Every step keeps TypeInv.
LEMMA NextTypeInv == TypeInv /\ [Next]_vars => TypeInv'
<1> SUFFICES ASSUME TypeInv, [Next]_vars PROVE TypeInv'
  OBVIOUS
<1>1. ASSUME NEW r \in Registries \cup {NilReg}, SetSchemaRegistry(r) PROVE TypeInv'
  BY <1>1, PayloadAssumption DEF SetSchemaRegistry, TypeInv, TypeOK
<1>2. ASSUME NEW p \in Procs, NEW x \in GoValue \cup ByteSlice, Call(p, "encode", x, Garbage) PROVE TypeInv'
  <2>1. Garbage \in Wire
    BY DEF Wire
  <2>. QED  BY <1>2, <2>1, CallTypeInv
<1>3. ASSUME NEW p \in Procs, NEW x \in [ty : Types, ptr : {TRUE}, val : Vals], NEW w \in Wire,
             Call(p, "decode", x, w) PROVE TypeInv'
  <2>1. x \in GoValue
    BY DEF GoValue
  <2>. QED  BY <1>3, <2>1, CallTypeInv
<1>4. ASSUME NEW p \in Procs, Lookup(p) PROVE TypeInv'
  BY <1>4, LookupTypeInv
<1>5. ASSUME NEW p \in Procs, Return(p) PROVE TypeInv'
  <2>1. IdleCall \in CallT
    BY DEF IdleCall, CallT, Errors, Wire, ByteSlice
  <2>. QED  BY <1>5, <2>1 DEF Return, TypeInv, TypeOK, CallT, IdleCall
<1>6. CASE UNCHANGED vars
  BY <1>6 DEF vars, TypeInv, TypeOK
<1>. QED  BY <1>1, <1>2, <1>3, <1>4, <1>5, <1>6 DEF Next

\* Type correctness of the data codec: whatever goroutines call
\* EncodeData, DecodeData and SetSchemaRegistry, and in whatever order,
\* every variable holds a value of its type.
THEOREM PayloadTypeCorrect == Spec => []TypeOK
<1>1. Init => TypeInv
  BY InitTypeInv
<1>2. TypeInv /\ [Next]_vars => TypeInv'
  BY NextTypeInv
<1>3. TypeInv => TypeOK
  BY DEF TypeInv
<1>. QED  BY <1>1, <1>2, <1>3, PTL DEF Spec

-----------------------------------------------------------------------------
(* Schema resolution when SetSchemaRegistry waits for calls in flight.     *)

\* What holds of one call when the registry is set only between calls: a
\* call waiting for GetSchema has no schema of its own and the registry its
\* nil check saw is still installed; a call that returned never panicked
\* on a nil registry.
QuietCall(c, r) ==
  /\ c.pc = "lookup" => ~Provides(c.in) /\ r # NilReg /\ c.seen = r
  /\ c.err # "nilregistry"

QInv == TypeInv /\ \A p \in Procs : QuietCall(call[p], reg)

LEMMA InitQInv == Init => QInv
<1>1. IdleCall.pc = "idle" /\ IdleCall.err = "none"
  BY DEF IdleCall
<1>. QED  BY <1>1, InitTypeInv DEF Init, QInv, QuietCall

\* A step that changes call at p alone, and not reg, keeps QuietCall of
\* every other call.
LEMMA OthersQuiet ==
  ASSUME QInv, NEW p \in Procs, reg' = reg,
         \A q \in Procs \ {p} : call'[q] = call[q]
  PROVE  \A q \in Procs \ {p} : QuietCall(call'[q], reg')
BY DEF QInv, QuietCall

LEMMA NextQInv ==
  ASSUME SetterQuiet
  PROVE  QInv /\ [Next]_vars => QInv'
<1> SUFFICES ASSUME QInv, [Next]_vars PROVE QInv'
  OBVIOUS
<1>0. TypeInv'
  BY NextTypeInv DEF QInv
<1>1. ASSUME NEW r \in Registries \cup {NilReg}, SetSchemaRegistry(r) PROVE QInv'
  BY <1>0, <1>1 DEF SetSchemaRegistry, QInv, QuietCall
<1>2. ASSUME NEW p \in Procs, NEW op \in {"encode", "decode"}, NEW x \in GoValue \cup ByteSlice,
             NEW w \in Wire, Call(p, op, x, w) PROVE QInv'
  <2>. DEFINE c == [IdleCall EXCEPT !.op = op, !.in = x, !.wire = w, !.seen = reg]
  <2>1. c \in CallT /\ c.in = x /\ c.seen = reg /\ c.err = "none"
    BY StartType DEF QInv, TypeInv, TypeOK, IdleCall
  <2>2. reg' = reg /\ call \in [Procs -> CallT]
    BY <1>2 DEF Call, QInv, TypeInv, TypeOK, CallT
  <2>3. PICK c2 : call' = [call EXCEPT ![p] = c2] /\ QuietCall(c2, reg')
    <3>1. CASE op = "encode" /\ x.ty = "bytes" /\ call' = [call EXCEPT ![p] = [c EXCEPT !.pc = "done", !.res = x.bs]]
      <4>1. QuietCall([c EXCEPT !.pc = "done", !.res = x.bs], reg')
        BY <2>1, <2>2, <3>1 DEF CallT, QuietCall
      <4>. QED  BY <3>1, <4>1
    <3>2. CASE x.ty # "bytes" /\ Provides(x) /\ \E c3 \in Finish(c, SchemaOf[x.ty]) : call' = [call EXCEPT ![p] = c3]
      <4>1. x \in GoValue /\ SchemaOf[x.ty] \in Schemas
        BY <3>2, BytesNotValue, PayloadAssumption DEF GoValue
      <4>2. PICK c3 \in Finish(c, SchemaOf[x.ty]) : call' = [call EXCEPT ![p] = c3]
        BY <3>2
      <4>3. c3.pc = "done" /\ c3.schema = SchemaOf[x.ty] /\ c3.in = x
            /\ c3.err \in {"none", "engine", "nilschema"}
        <5>1. c \in CallT /\ c.in \in GoValue /\ SchemaOf[x.ty] \in Schemas \cup {NilSchema}
          BY <2>1, <4>1
        <5> HIDE DEF c
        <5>. QED  BY <2>1, <4>2, <5>1, FinishProps
      <4>4. QuietCall(c3, reg')
        BY <2>2, <3>2, <4>3 DEF QuietCall
      <4>. QED  BY <4>2, <4>4
    <3>3. CASE x.ty # "bytes" /\ ~Provides(x) /\ reg = NilReg /\ call' = [call EXCEPT ![p] = Fail(c, "noschema")]
      <4>1. Fail(c, "noschema").pc = "done" /\ Fail(c, "noschema").err = "noschema"
        BY <2>1, FailProps DEF Errors
      <4>. QED  BY <3>3, <4>1 DEF QuietCall
    <3>4. CASE x.ty # "bytes" /\ ~Provides(x) /\ reg # NilReg /\ call' = [call EXCEPT ![p] = [c EXCEPT !.pc = "lookup"]]
      <4>1. QuietCall([c EXCEPT !.pc = "lookup"], reg')
        BY <2>1, <2>2, <3>4 DEF CallT, QuietCall
      <4>. QED  BY <3>4, <4>1
    <3>. QED  BY <1>2, <3>1, <3>2, <3>3, <3>4 DEF Call
  <2>4. \A q \in Procs \ {p} : QuietCall(call'[q], reg')
    <3>1. \A q \in Procs \ {p} : call'[q] = call[q]
      BY <2>2, <2>3
    <3>. QED  BY <2>2, <3>1, OthersQuiet
  <2>5. call'[p] = c2
    BY <2>2, <2>3
  <2>. QED  BY <1>0, <2>3, <2>4, <2>5 DEF QInv
<1>3. ASSUME NEW p \in Procs, NEW x \in GoValue \cup ByteSlice, Call(p, "encode", x, Garbage) PROVE QInv'
  <2>1. Garbage \in Wire
    BY DEF Wire
  <2>. QED  BY <1>2, <1>3, <2>1
<1>4. ASSUME NEW p \in Procs, NEW x \in [ty : Types, ptr : {TRUE}, val : Vals], NEW w \in Wire,
             Call(p, "decode", x, w) PROVE QInv'
  <2>1. x \in GoValue
    BY DEF GoValue
  <2>. QED  BY <1>2, <1>4, <2>1
<1>5. ASSUME NEW p \in Procs, Lookup(p) PROVE QInv'
  <2>. DEFINE c == call[p]
  <2>1. c \in CallT /\ c.pc = "lookup" /\ c.in \in GoValue /\ call \in [Procs -> CallT] /\ reg' = reg
    BY <1>5 DEF Lookup, QInv, TypeInv, TypeOK, CallT
  <2>2. ~Provides(c.in) /\ reg # NilReg /\ c.seen = reg /\ reg \in Registries
    BY <2>1 DEF QInv, QuietCall, TypeInv, TypeOK
  <2>3. PICK c2 : call' = [call EXCEPT ![p] = c2] /\ QuietCall(c2, reg')
    <3>1. CASE Answer[reg][c.in.ty][c.in.ptr] = RegError /\ call' = [call EXCEPT ![p] = Fail(c, "registry")]
      <4>1. Fail(c, "registry").pc = "done" /\ Fail(c, "registry").err = "registry"
        BY <2>1, FailProps DEF Errors
      <4>. QED  BY <3>1, <4>1 DEF QuietCall
    <3>2. CASE Answer[reg][c.in.ty][c.in.ptr] # RegError
               /\ \E c3 \in Finish(c, Answer[reg][c.in.ty][c.in.ptr]) : call' = [call EXCEPT ![p] = c3]
      <4>1. Answer[reg][c.in.ty][c.in.ptr] \in Schemas \cup {NilSchema}
        BY <2>1, <2>2, <3>2, PayloadAssumption DEF Resolved, GoValue
      <4>2. PICK c3 \in Finish(c, Answer[reg][c.in.ty][c.in.ptr]) : call' = [call EXCEPT ![p] = c3]
        BY <3>2
      <4>3. c3.pc = "done" /\ c3.schema = Answer[reg][c.in.ty][c.in.ptr] /\ c3.in = c.in /\ c3.seen = c.seen
            /\ c3.err \in {"none", "engine", "nilschema"}
        BY <2>1, <4>1, <4>2, FinishProps
      <4>4. QuietCall(c3, reg')
        BY <2>1, <2>2, <4>3 DEF QuietCall
      <4>. QED  BY <4>2, <4>4
    <3>. QED  BY <1>5, <2>2, <3>1, <3>2 DEF Lookup
  <2>4. \A q \in Procs \ {p} : QuietCall(call'[q], reg')
    <3>1. \A q \in Procs \ {p} : call'[q] = call[q]
      BY <2>1, <2>3
    <3>. QED  BY <2>1, <3>1, OthersQuiet
  <2>5. call'[p] = c2
    BY <2>1, <2>3
  <2>. QED  BY <1>0, <2>3, <2>4, <2>5 DEF QInv
<1>6. ASSUME NEW p \in Procs, Return(p) PROVE QInv'
  <2>1. QuietCall(IdleCall, reg')
    BY DEF IdleCall, QuietCall
  <2>2. \A q \in Procs \ {p} : QuietCall(call'[q], reg')
    BY <1>6, OthersQuiet DEF Return, QInv, TypeInv, TypeOK
  <2>. QED  BY <1>0, <1>6, <2>1, <2>2 DEF Return, QInv, TypeInv, TypeOK
<1>7. CASE UNCHANGED vars
  BY <1>0, <1>7 DEF vars, QInv, QuietCall
<1>. QED  BY <1>1, <1>3, <1>4, <1>5, <1>6, <1>7 DEF Next

\* Under the setter discipline every reachable state satisfies QInv.
LEMMA QuietSpecQInv ==
  ASSUME SetterQuiet
  PROVE  Spec => []QInv
<1>1. Init => QInv
  BY InitQInv
<1>2. QInv /\ [Next]_vars => QInv'
  BY NextQInv
<1>. QED  BY <1>1, <1>2, PTL DEF Spec

\* getSchemaFor never calls GetSchema on a nil registry (main.go:133-134)
\* when SetSchemaRegistry is only called while no EncodeData or DecodeData
\* is in flight, for any number of goroutines and registries.
THEOREM QuietNoRegistryPanic ==
  ASSUME SetterQuiet
  PROVE  Spec => []NoRegistryPanic
<1>1. QInv => NoRegistryPanic
  BY DEF QInv, QuietCall, NoRegistryPanic
<1>. QED  BY <1>1, QuietSpecQInv, PTL

=============================================================================
