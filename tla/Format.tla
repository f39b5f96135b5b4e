------------------------------- MODULE Format -------------------------------
(***************************************************************************)
(* The binary format of data/kenall.bin (internal/binfmt/format.go): its   *)
(* limits, its varints, and the column layout the encoder and the decoder  *)
(* share.  The values of the code are in the comments; an instance may use *)
(* smaller ones so that every limit is met.                                *)
(*                                                                         *)
(* A string is a sequence of bytes.  DEFLATE is not modelled: a file is a  *)
(* header, a stream that inflates or does not, and the inflated payload.   *)
(***************************************************************************)
EXTENDS Integers, Sequences, FiniteSetsExt

CONSTANTS
    PrefectureCount,  \* 47
    RestartInterval,  \* stringRestartInterval, 64
    MaxZip,           \* maxZip, 9999999
    MaxJIS,           \* maxJIS, 99999
    MaxPayload,       \* maxPayload of decode.go, 2^28
    MaxUint16,        \* 2^16 - 1
    MaxUint32,        \* 2^32 - 1
    WordBits,         \* bits of a presence word of sparseStringColumn, 64
    VarintBase,       \* 2^7: a varint byte below it is the last one
    MaxVarintLen,     \* binary.MaxVarintLen64, 10
    VarintLimit       \* 2^64: a varint that reaches it overflows

(* How many numbers MaxVarintLen bytes can spell. *)
VarintRange ==
    LET power[k \in 0 .. MaxVarintLen] ==
            IF k = 0 THEN 1 ELSE power[k - 1] * VarintBase
    IN  power[MaxVarintLen]

ASSUME FormatAssumption ==
    /\ PrefectureCount \in Nat \ {0}
    /\ RestartInterval \in Nat \ {0}
    /\ WordBits \in Nat \ {0}
    /\ VarintBase \in Nat \ {0, 1}
    /\ MaxVarintLen \in Nat \ {0}
    /\ {MaxZip, MaxJIS, MaxPayload, MaxUint16, MaxUint32, VarintLimit}
          \subseteq Nat
    /\ MaxUint16 <= MaxUint32
    /\ MaxZip <= MaxUint32
    /\ 2 * MaxUint32 + 1 < VarintLimit

ASSUME VarintAssumption == VarintLimit <= VarintRange

Byte == 0 .. 2 * VarintBase - 1

(* The order the columns of a record are written and read in. *)
DeltaColumns == {"city", "kanji", "kana", "romaji"}
SparseColumns == {"note", "noteKana"}

(* Mutant: a copied line reads the same column twice. *)
MutantNextColumn ==
    [city |-> "kanji", kanji |-> "kana", kana |-> "romaji",
     romaji |-> "note", note |-> "note", noteKana |-> "flags"]

NextColumn ==
    [city |-> "kanji", kanji |-> "kana", kana |-> "romaji",
     romaji |-> "note", note |-> "noteKana", noteKana |-> "flags"]

-----------------------------------------------------------------------------
(* encoding/binary: varints, least significant digit first. *)

UvarintBytes(x) ==
    LET left[k \in 0 .. MaxVarintLen] ==
            IF k = 0 THEN x ELSE left[k - 1] \div VarintBase
        len == Min({k \in 1 .. MaxVarintLen : left[k] = 0})
    IN  [i \in 1 .. len |->
            IF i < len THEN VarintBase + (left[i - 1] % VarintBase)
            ELSE left[i - 1]]

(* A signed varint folds the sign into the lowest bit. *)
Zig(x) == IF x >= 0 THEN 2 * x ELSE -2 * x - 1

Zag(u) == IF u % 2 = 0 THEN u \div 2 ELSE -((u + 1) \div 2)

VarintBytes(x) == UvarintBytes(Zig(x))

(* What binary.Uvarint finds in buf after the first pos bytes: no varint   *)
(* when the buffer ends before a last byte, when there are too many bytes, *)
(* or when the value overflows.                                            *)
UvarintAt(buf, pos) ==
    LET lasts == {k \in 1 .. MaxVarintLen :
                    pos + k <= Len(buf) /\ buf[pos + k] < VarintBase}
        len == Min(lasts)
        value[k \in 0 .. len] ==
            IF k = 0 THEN 0
            ELSE value[k - 1] * VarintBase
                   + (buf[pos + 1 + len - k] % VarintBase)
    IN  IF lasts # {} /\ value[len] \in 0 .. VarintLimit - 1
        THEN [ok |-> TRUE, v |-> value[len], len |-> len]
        ELSE [ok |-> FALSE, v |-> 0, len |-> 0]
=============================================================================
