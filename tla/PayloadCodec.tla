---------------------------- MODULE PayloadCodec ----------------------------
(***************************************************************************)
(* The Avro data codec (datacodec.go, the part of                          *)
(* samples/http/receiver-avro/main.go after its main): EncodeData,         *)
(* DecodeData, getSchemaFor and the process-wide defaultRegistry that      *)
(* SetSchemaRegistry writes.                                               *)
(*                                                                         *)
(* A set of goroutines each run EncodeData or DecodeData; another          *)
(* goroutine may call SetSchemaRegistry.  getSchemaFor reads the global    *)
(* twice, at the nil check (line 133) and at the call (line 134), so a     *)
(* call is two steps: Call runs up to and including the nil check, Lookup  *)
(* the rest.  Everything else a call does touches no shared state.         *)
(*                                                                         *)
(* A Go value is [ty, ptr, val]: its type T, whether the interface holds   *)
(* a *T, and its contents; a []byte is [ty |-> "bytes", bs |-> bytes].     *)
(* Receiver[T] says how T declares AvroSchema(): "value", "pointer" or     *)
(* "none".  Bytes the engine writes are [sch |-> schema, val |-> value].   *)
(***************************************************************************)
EXTENDS Naturals

CONSTANTS
  Types,       \* payload Go types
  Receiver,    \* Receiver[T]: the receiver of T's AvroSchema method, if any
  SchemaOf,    \* SchemaOf[T]: the schema T's AvroSchema returns
  Schemas,     \* schema handles
  Vals,        \* payload contents
  Registries,  \* SchemaRegistry implementations a caller may install
  Answer,      \* Answer[r][T][ptr]: what r.GetSchema returns for a T or *T
  NilReg,      \* the nil SchemaRegistry
  NilSchema,   \* a nil avro.Schema
  RegError,    \* GetSchema returned an error
  Garbage,     \* bytes no schema decodes
  Procs,       \* goroutines calling EncodeData or DecodeData
  MaxSets,     \* bound on the number of SetSchemaRegistry calls
  SetterQuiet  \* TRUE: SetSchemaRegistry runs only while no call is in flight

GoValue == [ty : Types, ptr : BOOLEAN, val : Vals]
Wire == [sch : Schemas, val : Vals] \cup {Garbage}
ByteSlice == [ty : {"bytes"}, bs : Wire]
Resolved == Schemas \cup {NilSchema, RegError}

ASSUME PayloadAssumption ==
  /\ "bytes" \notin Types
  /\ Receiver \in [Types -> {"value", "pointer", "none"}]
  /\ SchemaOf \in [Types -> Schemas]
  /\ NilReg \notin Registries
  /\ Answer \in [Registries -> [Types -> [BOOLEAN -> Resolved]]]
  /\ NilSchema \notin Schemas /\ RegError \notin Schemas \cup {NilSchema}
  /\ MaxSets \in Nat
  /\ SetterQuiet \in BOOLEAN

-----------------------------------------------------------------------------
(* The resolution, as getSchemaFor does it.                                *)

\* v.(SchemaProvider): the method set of the dynamic type has AvroSchema.
\* The second assertion, interface{}(&v).(SchemaProvider), asks it of
\* *interface{}, which has no methods: it never succeeds.
Provides(x) ==
  \/ Receiver[x.ty] = "value"
  \/ Receiver[x.ty] = "pointer" /\ x.ptr

\* avro.Marshal(schema, in).  A nil schema makes the engine fail or panic
\* ("nilschema").
EngineMarshal(schema, x) ==
  IF schema = NilSchema THEN {[res |-> Garbage, err |-> "nilschema"]}
  ELSE IF schema = SchemaOf[x.ty] THEN {[res |-> [sch |-> schema, val |-> x.val], err |-> "none"]}
  ELSE {[res |-> Garbage, err |-> "engine"]}

\* avro.Unmarshal(schema, in, out): out gets the value on success.
EngineUnmarshal(schema, w, x) ==
  IF schema = NilSchema THEN {[res |-> x, err |-> "nilschema"]}
  ELSE IF w # Garbage /\ schema = SchemaOf[x.ty] /\ w.sch = schema
       THEN {[res |-> [x EXCEPT !.val = w.val], err |-> "none"]}
  ELSE {[res |-> x, err |-> "engine"]}

\* The rest of EncodeData or DecodeData once getSchemaFor returned schema.
Finish(c, schema) ==
  LET outcomes == IF c.op = "encode" THEN EngineMarshal(schema, c.in)
                  ELSE EngineUnmarshal(schema, c.wire, c.in)
  IN  {[c EXCEPT !.pc = "done", !.schema = schema, !.res = o.res, !.err = o.err] : o \in outcomes}

Fail(c, e) == [c EXCEPT !.pc = "done", !.err = e]

-----------------------------------------------------------------------------

VARIABLES
  reg,    \* defaultRegistry
  sets,   \* SetSchemaRegistry calls so far
  call    \* per goroutine: its call of EncodeData or DecodeData

vars == <<reg, sets, call>>

\* A call: pc, op, the value (the input of EncodeData, the target of
\* DecodeData), the bytes DecodeData reads, the registry its nil check saw
\* (a history field), the schema handed to the engine, result and error.
IdleCall == [pc |-> "idle", op |-> "encode", in |-> [ty |-> "bytes", bs |-> Garbage],
             wire |-> Garbage, seen |-> NilReg, schema |-> NilSchema, res |-> Garbage, err |-> "none"]

Init ==
  /\ reg = NilReg
  /\ sets = 0
  /\ call = [p \in Procs |-> IdleCall]

\* SetSchemaRegistry(r).
SetSchemaRegistry(r) ==
  /\ sets < MaxSets
  /\ SetterQuiet => \A p \in Procs : call[p].pc # "lookup"
  /\ reg' = r
  /\ sets' = sets + 1
  /\ UNCHANGED call

\* EncodeData(ctx, in) or DecodeData(ctx, w, in) up to getSchemaFor's nil
\* check: a byte slice passes through EncodeData, a provider's schema is
\* used at once, a nil registry gives the "no schema available" error.
Call(p, op, x, w) ==
  LET c == [IdleCall EXCEPT !.op = op, !.in = x, !.wire = w, !.seen = reg]
  IN  /\ call[p].pc = "idle"
      /\ \/ op = "encode" /\ x.ty = "bytes" /\ call' = [call EXCEPT ![p] = [c EXCEPT !.pc = "done", !.res = x.bs]]
         \/ x.ty # "bytes" /\ Provides(x) /\ \E c2 \in Finish(c, SchemaOf[x.ty]) : call' = [call EXCEPT ![p] = c2]
         \/ x.ty # "bytes" /\ ~Provides(x) /\ reg = NilReg /\ call' = [call EXCEPT ![p] = Fail(c, "noschema")]
         \/ x.ty # "bytes" /\ ~Provides(x) /\ reg # NilReg /\ call' = [call EXCEPT ![p] = [c EXCEPT !.pc = "lookup"]]
      /\ UNCHANGED <<reg, sets>>

\* Mutation: the error GetSchema returns is ignored.
LookupIgnoreErr(p) ==
  LET c == call[p]
  IN  /\ c.pc = "lookup"
      /\ \/ reg = NilReg /\ call' = [call EXCEPT ![p] = Fail(c, "nilregistry")]
         \/ reg # NilReg /\ \E c2 \in Finish(c, Answer[reg][c.in.ty][c.in.ptr]) : call' = [call EXCEPT ![p] = c2]
      /\ UNCHANGED <<reg, sets>>

\* defaultRegistry.GetSchema(v), reading the global again, then the engine.
Lookup(p) ==
  LET c == call[p]
  IN  /\ c.pc = "lookup"
      /\ \/ reg = NilReg /\ call' = [call EXCEPT ![p] = Fail(c, "nilregistry")]
         \/ reg # NilReg /\ Answer[reg][c.in.ty][c.in.ptr] = RegError /\ call' = [call EXCEPT ![p] = Fail(c, "registry")]
         \/ reg # NilReg /\ Answer[reg][c.in.ty][c.in.ptr] # RegError
            /\ \E c2 \in Finish(c, Answer[reg][c.in.ty][c.in.ptr]) : call' = [call EXCEPT ![p] = c2]
      /\ UNCHANGED <<reg, sets>>

\* The caller takes the result and may call again.
Return(p) ==
  /\ call[p].pc = "done"
  /\ call' = [call EXCEPT ![p] = IdleCall]
  /\ UNCHANGED <<reg, sets>>

Next ==
  \/ \E r \in Registries \cup {NilReg} : SetSchemaRegistry(r)
  \/ \E p \in Procs :
       \/ \E x \in GoValue \cup ByteSlice : Call(p, "encode", x, Garbage)
       \/ \E x \in [ty : Types, ptr : {TRUE}, val : Vals], w \in Wire : Call(p, "decode", x, w)
       \/ Lookup(p)
       \/ Return(p)

Spec == Init /\ [][Next]_vars

-----------------------------------------------------------------------------
(* Properties.                                                             *)

Errors == {"none", "noschema", "nilregistry", "registry", "engine", "nilschema"}

\* Every variable holds a value of its type.
TypeOK ==
  /\ reg \in Registries \cup {NilReg}
  /\ sets \in 0..MaxSets
  /\ call \in [Procs -> [pc : {"idle", "lookup", "done"}, op : {"encode", "decode"},
                          in : GoValue \cup ByteSlice, wire : Wire, seen : Registries \cup {NilReg},
                          schema : Schemas \cup {NilSchema}, res : Wire \cup GoValue, err : Errors]]

\* getSchemaFor never calls GetSchema on a nil registry (main.go:133-134):
\* the nil check and the call see the same defaultRegistry.
NoRegistryPanic == \A p \in Procs : call[p].err # "nilregistry"

\* The engine is never handed a nil schema: when neither the value nor the
\* registry yields one, the call fails with "no schema available"
\* (spec.md 4.2 step 3).
NoNilSchema == \A p \in Procs : call[p].err # "nilschema"

\* A value whose type declares AvroSchema, on T or on *T, is resolved
\* through it: "Check pointer to value as well" (main.go:127).
PointerProviderFound ==
  \A p \in Procs :
    (call[p].pc = "done" /\ call[p].in.ty # "bytes" /\ Receiver[call[p].in.ty] # "none")
      => call[p].err \notin {"noschema", "registry"}


=============================================================================
