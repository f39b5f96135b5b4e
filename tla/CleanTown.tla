----------------------------- MODULE CleanTown ------------------------------
(***************************************************************************)
(* The cleaning rules of tools/gendata/clean.go: how a town column is split  *)
(* into a name and an annotation, how the two are put together again, and  *)
(* what is left of a column of the romaji file that was cut short.          *)
(*                                                                         *)
(* A column is a sequence of tokens: letters, spaces, brackets of either    *)
(* width, and the three phrases Japan Post writes in place of a name.       *)
(***************************************************************************)
EXTENDS Integers, Sequences, FiniteSetsExt

CONSTANT Letters    \* whatever else a column is written with

Brackets == {"open", "close"}

(* 以下に掲載がない場合, の次に番地がくる場合, 一円 *)
Phrases == {"below", "nextLot", "ichien"}

ASSUME LettersAssumption ==
    Letters \cap (Brackets \cup Phrases \cup {"space"}) = {}

Columns == Seq(Letters \cup Brackets \cup Phrases \cup {"space"})

Holds(c, token) == \E i \in 1 .. Len(c) : c[i] = token

-----------------------------------------------------------------------------
(* strings.TrimSpace, and squeeze of source.go. *)

Inked(c) == {i \in DOMAIN c : c[i] # "space"}

TrimSpace(c) ==
    IF Inked(c) = {} THEN <<>> ELSE SubSeq(c, Min(Inked(c)), Max(Inked(c)))

Squeeze(c) == SelectSeq(c, LAMBDA token : token # "space")

-----------------------------------------------------------------------------
(* Where a trailing annotation may begin: at a bracket after which nothing *)
(* closes before the end.                                                  *)
Opens(c) ==
    {i \in 1 .. Len(c) :
        c[i] = "open" /\ \A j \in i + 1 .. Len(c) - 1 : c[j] # "close"}

HasNote(c) == Opens(c) # {} /\ c[Len(c)] = "close"

(* Mutant: an annotation begins at the first bracket. *)
MutantNoteStart(c) == Min({i \in 1 .. Len(c) : c[i] = "open"})

(* A regular expression matches as far left as it can. *)
NoteStart(c) == CHOOSE i \in Opens(c) : \A j \in Opens(c) : i <= j

NameIn(c) == IF HasNote(c) THEN SubSeq(c, 1, NoteStart(c) - 1) ELSE c

NoteIn(c) ==
    IF HasNote(c) THEN SubSeq(c, NoteStart(c) + 1, Len(c) - 1) ELSE <<>>

Placeholder(c) ==
    \/ c = <<"below">>
    \/ Len(c) > 0 /\ c[Len(c)] = "nextLot"
    \/ Len(c) > 1 /\ c[Len(c)] = "ichien"

(* The annotation of the kana column is looked for only when the kanji     *)
(* column has one.                                                         *)
Clean(kanji, kana) ==
    IF Placeholder(kanji)
    THEN [kanji |-> <<>>, kana |-> <<>>, note |-> kanji, noteKana |-> kana]
    ELSE IF ~HasNote(kanji)
    THEN [kanji |-> kanji, kana |-> kana, note |-> <<>>, noteKana |-> <<>>]
    ELSE [kanji |-> NameIn(kanji), kana |-> NameIn(kana),
          note |-> NoteIn(kanji), noteKana |-> NoteIn(kana)]

Annotated(name, note) == name \o <<"open">> \o note \o <<"close">>

(* rejoin, and Address.RawTown. *)
Rejoin(t) ==
    IF t.kanji = <<>> THEN <<t.note, t.noteKana>>
    ELSE IF t.note = <<>> THEN <<t.kanji, t.kana>>
    ELSE <<Annotated(t.kanji, t.note),
           IF t.noteKana = <<>> THEN t.kana ELSE Annotated(t.kana, t.noteKana)>>

-----------------------------------------------------------------------------
(* Mutant: a column that is exactly full is taken for whole. *)
MutantRomeName(c, width) ==
    [name |-> TrimSpace(IF Opens(c) = {} THEN c
                        ELSE SubSeq(c, 1, NoteStart(c) - 1)),
     whole |-> Holds(c, "open") \/ Len(c) <= width]

(* romeName: the brackets of a column that was cut may be left open, and a *)
(* column that was filled without a bracket may be cut anywhere.           *)
RomeName(c, width) ==
    [name |-> TrimSpace(IF Opens(c) = {} THEN c
                        ELSE SubSeq(c, 1, NoteStart(c) - 1)),
     whole |-> Holds(c, "open") \/ Len(c) < width]
=============================================================================
