-------------------------- MODULE UnmarshalAbstract --------------------------
(***************************************************************************)
(* What avroFmt.Unmarshal promises its callers, with the decoding itself   *)
(* abstracted away: a call on the bytes is one atomic step that either     *)
(* fails and leaves the caller's event as it was, or succeeds and gives    *)
(* the caller a well-formed event whose every extension is named by a key  *)
(* of the record the bytes encode.  Bytes are written only between calls, *)
(* and each decoder calls once per round.                                  *)
(***************************************************************************)

CONSTANTS
  Decoders,    \* goroutines calling Unmarshal
  Prior,       \* the event a caller's *e points to before Unmarshal
  NoWire,      \* nothing on the wire
  Garbage,     \* bytes that encode no record
  IsEventC(_), \* the events of the SDK
  IsWireC(_),  \* the records of the envelope schema
  Lower(_)     \* strings.ToLower

VARIABLES
  origin,  \* who wrote the bytes: "none", "ours" or "foreign"
  wire,    \* the bytes, as the record they encode
  status,  \* per decoder: "idle" until its call returns, then "ok" or "failed"
  target   \* per decoder: the event its *e points to

avars == <<origin, wire, status, target>>

AInit ==
  /\ origin = "none"
  /\ wire = NoWire
  /\ status = [d \in Decoders |-> "idle"]
  /\ target = [d \in Decoders |-> Prior]

\* A producer writes the bytes: a record, garbage, or nothing when its
\* Marshal failed.
Produce ==
  /\ origin = "none"
  /\ origin' \in {"ours", "foreign"}
  /\ wire' \in {NoWire, Garbage} \/ IsWireC(wire')
  /\ UNCHANGED <<status, target>>

\* Decoder d's call of Unmarshal, from its start to its return.
Unmarshal(d) ==
  /\ status[d] = "idle"
  /\ wire # NoWire
  /\ \/ /\ status' = [status EXCEPT ![d] = "failed"]
        /\ target' = target
     \/ /\ wire # Garbage
        /\ status' = [status EXCEPT ![d] = "ok"]
        /\ DOMAIN target' = Decoders
        /\ \A d2 \in Decoders \ {d} : target'[d2] = target[d2]
        /\ IsEventC(target'[d])
        /\ DOMAIN target'[d].ext \subseteq {Lower(k) : k \in DOMAIN wire.attr}
  /\ UNCHANGED <<origin, wire>>

\* The next round: new bytes, new calls.
AReset ==
  /\ origin # "none"
  /\ origin' = "none"
  /\ wire' = NoWire
  /\ status' = [d \in Decoders |-> "idle"]
  /\ target' = [d \in Decoders |-> Prior]

ANext == Produce \/ (\E d \in Decoders : Unmarshal(d)) \/ AReset

ASpec == AInit /\ [][ANext]_avars

=============================================================================
