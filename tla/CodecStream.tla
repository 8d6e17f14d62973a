----------------------------- MODULE CodecStream -----------------------------
(***************************************************************************)
(* A string that is written by the Put functions of Codec, loses its end,  *)
(* and is parsed by the same sequence of Get functions, up to the first    *)
(* that refuses.  Callers decode a fixed width where there are bytes       *)
(* enough for it, as codec.h asks of them.                                 *)
(***************************************************************************)
EXTENDS Codec

CONSTANTS Values32, Values64,  \* the integers that are put
          Slices,              \* the strings that are put
          MaxPuts              \* bound on what is put into one string

ASSUME ValuesAssumption ==
    /\ \A v \in Values32 : v \subseteq Below(32)
    /\ \A v \in Values64 : v \subseteq Below(64)
    /\ \A s \in Slices : s \in Seq(SUBSET Below(8)) /\ Word[Len(s)] \subseteq Below(32)

VARIABLES dst,     \* the string
          puts,    \* what was put: the kind, the value, and where it ends
          parsing, \* whether dst is being parsed
          input,   \* what is left to parse
          got,     \* the values parsed
          refused  \* whether a Get refused
codec_vars == <<dst, puts, parsing, input, got, refused>>

Encode(kind, value) ==
    CASE kind = "varint32" -> EncodeVarint32(value)
      [] kind = "varint64" -> EncodeVarint64(value)
      [] kind = "fixed32"  -> EncodeFixed32(value)
      [] kind = "fixed64"  -> EncodeFixed64(value)
      [] kind = "slice"    -> PutLengthPrefixedSlice(value)

DecodeFixedBytes(bytes) ==
    IF Len(input) < bytes THEN Refused(input)
    ELSE Parsed(DecodeFixed(input, bytes), SubSeq(input, bytes + 1, Len(input)))

Get(kind) ==
    CASE kind = "varint32" -> GetVarint32(input)
      [] kind = "varint64" -> GetVarint64(input)
      [] kind = "fixed32"  -> DecodeFixedBytes(4)
      [] kind = "fixed64"  -> DecodeFixedBytes(8)
      [] kind = "slice"    -> GetLengthPrefixedSlice(input)

CodecInit ==
    /\ dst = <<>> /\ puts = <<>> /\ parsing = FALSE
    /\ input = <<>> /\ got = <<>> /\ refused = FALSE

Put(kind, value) ==
    /\ ~ parsing
    /\ Len(puts) < MaxPuts
    /\ dst' = dst \o Encode(kind, value)
    /\ puts' = Append(puts, [kind |-> kind, value |-> value, end |-> Len(dst')])
    /\ UNCHANGED <<parsing, input, got, refused>>

\* Parsing begins with what is left of the string.
Open(length) ==
    /\ ~ parsing
    /\ parsing' = TRUE
    /\ dst' = SubSeq(dst, 1, length)
    /\ input' = dst'
    /\ UNCHANGED <<puts, got, refused>>

GetNext ==
    /\ parsing /\ ~ refused
    /\ Len(got) < Len(puts)
    /\ LET answer == Get(puts[Len(got) + 1].kind) IN
       /\ input' = answer.rest
       /\ refused' = ~ answer.ok
       /\ got' = IF answer.ok THEN Append(got, answer.value) ELSE got
    /\ UNCHANGED <<dst, puts, parsing>>

CodecNext ==
    \/ \E v \in Values32 : Put("varint32", v) \/ Put("fixed32", v)
    \/ \E v \in Values64 : Put("varint64", v) \/ Put("fixed64", v)
    \/ \E s \in Slices : Put("slice", s)
    \/ \E length \in 0 .. Len(dst) : Open(length)
    \/ GetNext

CodecSpec == CodecInit /\ [][CodecNext]_codec_vars

-----------------------------------------------------------------------------
(* Properties *)

End(i) == IF i = 0 THEN 0 ELSE puts[i].end

\* Every value that is parsed is the one that was put in its place, and the
\* parser stands just behind it, whatever follows.
ReadsBackWhatWasPut ==
    /\ \A i \in 1 .. Len(got) : got[i] = puts[i].value
    /\ parsing /\ ~ refused => input = SubSeq(dst, End(Len(got)) + 1, Len(dst))

\* A Get refuses exactly the value that the end of the string cuts off.
RefusesExactlyTheCutOff ==
    /\ refused => Len(dst) < End(Len(got) + 1)
    /\ Len(got) > 0 => End(Len(got)) <= Len(dst)

\* What VarintLength announces is what both encoders write.
LengthIsAnnounced ==
    \A i \in 1 .. Len(puts) :
        puts[i].kind \in {"varint32", "varint64"} =>
            VarintLength(puts[i].value) = puts[i].end - End(i - 1)

\* What is written is what is parsed, up to the end of the string and no further.
RoundTrips == ReadsBackWhatWasPut /\ RefusesExactlyTheCutOff /\ LengthIsAnnounced
=============================================================================
