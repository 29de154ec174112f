-------------------------- MODULE MCEnvelopeCodec --------------------------
(***************************************************************************)
(* Small instances of EnvelopeCodec for TLC.  Each cfg picks one value for *)
(* each constant among the definitions below.                              *)
(***************************************************************************)
EXTENDS EnvelopeCodec, TLC

CONSTANTS d1, d2

A == PlainText("a")
OneDecoder == {d1}
TwoDecoders == {d1, d2}

MCLower(k) == CASE k = "Ext" -> "ext" [] k = "Subject" -> "subject" [] OTHER -> k

\* Instants: the zero time, one ordinary instant, and (for the year 10000
\* run) one whose wall clock is in year 10000.
MCInstants == {0, 7}
MCInstantsY10K == {0, 7, 200}
MCOffsets == {0, 60, -60}
MCYearZeroWall == -100
\* An offset with a seconds part, like a zone's local mean time.
MCOffsetsLMT == {0, 90}

\* Payload maps: a JSON-like record, one holding a NaN, one with a field
\* named "string".
MCGenericMaps ==
  { [k \in {"value"} |-> [t |-> "string", s |-> A]],
    [k \in {"value"} |-> [t |-> "double", f |-> "NaN"]],
    [k \in {"string", "value"} |-> [t |-> "string", s |-> A]] }

ExtValues(times) ==
  [t : {"bool"}, b : BOOLEAN] \cup [t : {"int32"}, i : Ints]
  \cup [t : {"string", "bytes"}, s : {A}] \cup [t : {"uri", "uriref"}, u : URIs]
  \cup [t : {"timestamp"}, tm : times] \cup [t : {"unsupported"}]

EventsOver(times, extNames) ==
  [specversion : {PlainText("1.0")}, id : {A}, source : {A}, type : {A},
   datacontenttype : {Empty, A}, dataschema : {Empty, A}, subject : {Empty, A},
   time : times,
   ext : UNION {[N -> ExtValues(times)] : N \in SUBSET extNames},
   data : {NoData, Empty, A}]

EventTimes(instants, offsets) == {t \in [inst : instants, off : offsets] : t.inst = 0 => t.off = 0}

MCEvents == EventsOver(EventTimes(MCInstants, MCOffsets), {"ext"})
MCEventsY10K == EventsOver(EventTimes(MCInstantsY10K, {0}), {})
MCEventsLMT == EventsOver(EventTimes({7}, MCOffsetsLMT), {})
MCEventsMin == EventsOver(EventTimes({0}, {0}), {})

\* The caller's event before Unmarshal: it carries an extension no record
\* on the wire has.
MCPrior == [NewEvent EXCEPT !.id = PlainText("p"), !.ext = [n \in {"prior"} |-> [t |-> "bool", b |-> TRUE]]]

\* Records another producer may write: any subset of a few keys, each with
\* a value of a type it may hold on the wire.
ForeignValues ==
  [id |-> {[t |-> "string", s |-> A], [t |-> "int", i |-> 1]},
   time |-> {[t |-> "string", s |-> TimeText(7, 1)], [t |-> "string", s |-> A], [t |-> "null"]},
   subject |-> {[t |-> "string", s |-> A], [t |-> "boolean", b |-> TRUE]},
   ext |-> {[t |-> "null"], [t |-> "int", i |-> 1], [t |-> "string", s |-> A], [t |-> "bytes", s |-> A]},
   Ext |-> {[t |-> "null"], [t |-> "string", s |-> A]},
   Subject |-> {[t |-> "string", s |-> A]},
   my_ext |-> {[t |-> "string", s |-> A]}]

ForeignOver(keys) ==
  [attr : UNION {{f \in [K -> UNION {ForeignValues[k] : k \in K}] : \A k \in K : f[k] \in ForeignValues[k]}
                 : K \in SUBSET keys},
   data : {[b |-> "null"], [b |-> "bytes", s |-> A], [b |-> "string", s |-> A]}
          \cup [b : {"record"}, m : MCGenericMaps]]

MCForeign == ForeignOver({"id", "time", "subject", "ext"})
MCForeignCase == ForeignOver({"ext", "Ext"})
\* Keys the SDK rejects as extension names: one that lower-cases to a
\* context attribute, one with a character outside [a-zA-Z0-9].
MCForeignBad == ForeignOver({"ext", "Subject", "my_ext"})
MCForeignWide == ForeignOver({"id", "time", "subject", "ext", "Subject", "my_ext"})

Symmetry == Permutations(TwoDecoders)

=============================================================================
