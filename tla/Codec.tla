------------------------------- MODULE Codec --------------------------------
(***************************************************************************)
(* The life of data/kenall.bin: tools/gendata encodes a dataset, the file  *)
(* may be damaged while it is stored, and the package decodes it.  The     *)
(* promise is that what comes out is what went in, or nothing.             *)
(***************************************************************************)
EXTENDS Encoder, Decoder

CONSTANTS
    Datasets,     \* the datasets handed to Encode
    Damageable,   \* bound: those whose files may be damaged
    DamageKinds   \* the ways a stored file may be damaged

Text == Seq(Byte)

(* Dataset of format.go, in the widths of its fields. *)
Dataset ==
    [updated : [kenAll : Int, rome : Int],
     prefectures : [1 .. PrefectureCount ->
                       [kanji : Text, kana : Text, romaji : Text]],
     cities : Seq([jis : 0 .. MaxUint32, pref : Byte,
                   kanji : Text, kana : Text, romaji : Text]),
     records : Seq([zip : 0 .. MaxUint32, city : 0 .. MaxUint16,
                    kanji : Text, kana : Text, romaji : Text,
                    note : Text, noteKana : Text, flags : Byte])]

(* What Encode takes for granted: that its varints hold every date and     *)
(* every count, and that the file is one Decode will open.                 *)
Fits(d) ==
    /\ Zig(d.updated.kenAll) < VarintLimit
    /\ Zig(d.updated.rome) < VarintLimit
    /\ Len(d.records) < VarintLimit
    /\ Len(StringTable(d)) <= MaxUint32
    /\ BlobLen(StringTable(d)) < VarintLimit
    /\ BlobLen(StringTable(d)) <= MaxPayload
    /\ Len(Marshal(d, StringTable(d))) <= MaxPayload

ASSUME DatasetsAssumption ==
    \A d \in Datasets : d \in Dataset /\ (Valid(d) => Fits(d))

ASSUME DamageAssumption ==
    DamageKinds \subseteq {"header", "stream", "truncated", "extended",
                           "corrupted"}

VARIABLES
    source,       \* the dataset given to Encode
    tab,          \* its string table, once interned
    stage,        \* "encode", "marshal", "stored", "decode", or "refused"
    damage        \* what happened to the file, or "none"

codecVars == <<source, tab, stage, damage>>
vars == <<codecVars, decoderVars>>

NoFile == [header |-> "short", inflates |-> FALSE, payload |-> <<>>]

Init ==
    /\ source \in Datasets
    /\ tab = <<>>
    /\ stage = "encode"
    /\ damage = "none"
    /\ file = NoFile
    /\ Fresh

EncodeRefuses ==
    /\ stage = "encode"
    /\ ~Valid(source)
    /\ stage' = "refused"
    /\ UNCHANGED <<source, tab, damage, decoderVars>>

Intern ==
    /\ stage = "encode"
    /\ Valid(source)
    /\ tab' = StringTable(source)
    /\ stage' = "marshal"
    /\ UNCHANGED <<source, damage, decoderVars>>

Write ==
    /\ stage = "marshal"
    /\ file' = EncodedFile(source, tab)
    /\ stage' = "stored"
    /\ UNCHANGED <<source, tab, damage, decoderState>>

(* One damage, before the file is read. *)
Damaged(kind, f) ==
    /\ stage = "stored"
    /\ damage = "none"
    /\ kind \in DamageKinds /\ source \in Damageable
    /\ damage' = kind
    /\ file' = f
    /\ UNCHANGED <<source, tab, stage, decoderState>>

BreakHeader ==
    \E h \in Headers \ {"good"} : Damaged("header", [file EXCEPT !.header = h])

BreakStream == Damaged("stream", [file EXCEPT !.inflates = FALSE])

Truncate ==
    \E len \in 0 .. Len(payload) - 1 :
        Damaged("truncated", [file EXCEPT !.payload = SubSeq(@, 1, len)])

Extend ==
    \E b \in Byte : Damaged("extended", [file EXCEPT !.payload = Append(@, b)])

Corrupt ==
    \E i \in DOMAIN payload : \E b \in Byte \ {payload[i]} :
        Damaged("corrupted", [file EXCEPT !.payload[i] = b])

Open ==
    /\ stage = "stored"
    /\ stage' = "decode"
    /\ UNCHANGED <<source, tab, damage, decoderVars>>

Decode == stage = "decode" /\ DecodeStep /\ UNCHANGED codecVars

(* Encode has refused, or Decode has returned. *)
Halt == (stage = "refused" \/ pc = "done") /\ UNCHANGED vars

Next ==
    \/ EncodeRefuses \/ Intern \/ Write
    \/ BreakHeader \/ BreakStream \/ Truncate \/ Extend \/ Corrupt
    \/ Open \/ Decode \/ Halt

Spec == Init /\ [][Next]_vars

-----------------------------------------------------------------------------
(* The composed state is well typed. *)
TypeOK ==
    /\ source \in Datasets
    /\ tab \in Seq(Seq(Byte))
    /\ stage \in {"encode", "marshal", "stored", "decode", "refused"}
    /\ damage \in DamageKinds \cup {"none"}
    /\ file \in File
    /\ DecoderTypeOK

(* The answer At(i) should give for record i of the source. *)
EntryOf(i) ==
    LET r == source.records[i + 1]
        city == source.cities[r.city + 1]
        name(x) == [kanji |-> x.kanji, kana |-> x.kana, romaji |-> x.romaji]
    IN  [prefecture |-> name(source.prefectures[city.pref + 1]),
         city |-> name(city),
         town |-> name(r),
         prefIndex |-> city.pref,
         note |-> r.note,
         noteKana |-> r.noteKana,
         zip |-> r.zip,
         jis |-> city.jis,
         flags |-> r.flags]

(* Every dataset Encode accepts comes back whole: the dates, every         *)
(* prefecture, and every field of every record in its order                *)
(* (encode.go:23-26, 142-197, decode.go:110-228, binfmt_test.go:49).       *)
RoundTrip ==
    pc = "done" /\ damage = "none" =>
        /\ result = "accepted"
        /\ updated = source.updated
        /\ n = Len(source.records)
        /\ Prefectures = source.prefectures
        /\ \A i \in 0 .. n - 1 : At(i) = EntryOf(i)

(* A code Encode let through is printed in full after the round trip       *)
(* (format.go:56-62).                                                      *)
WrittenCodesFit ==
    pc = "done" /\ damage = "none" => CodesFitWidth

(* The table of a written file lists every string once, in order, and the  *)
(* empty one first, so that id 0 means absent (encode.go:104-106).         *)
TableInterned ==
    pc = "done" /\ damage = "none" =>
        /\ Str(0) = <<>>
        /\ \A i \in 1 .. numStrings - 1 : Precedes(Str(i - 1), Str(i))

(* A file with the wrong header, a stream that does not inflate, and a     *)
(* payload that is too short or too long are never taken for a database    *)
(* (decode.go:85-108, 218-226).                                            *)
DamageDetected ==
    damage \in {"header", "stream", "truncated", "extended"} =>
        result # "accepted"

=============================================================================
