# utfkenall in TLA+

utfkenall answers Japanese zip codes from a database that is compiled into the
package. A generator, `tools/gendata`, downloads Japan Post's two files, joins
them and writes `data/kenall.bin`; the package decodes that file on first use and
serves lookups from it to any number of goroutines.

These modules specify that code: what each part promises, how the parts are
built, what TLC checks of them on small instances, and what TLAPS proves of them
for every instance. Source lines below are relative to the repository.

## The system

| Part | State | Operations | Correct when |
|---|---|---|---|
| Format and encoder, `internal/binfmt/{format,encode}.go` | none kept; `Encode` interns strings, lays out a payload, writes | `Encode`: `validate`, `intern`, `marshal` with front-coded strings, delta columns and sparse columns | what it accepts comes back whole, and it refuses what would be printed wrongly |
| Decoder and store, `internal/binfmt/decode.go` | the cursor (`pos`, latched `err`), the columns being built, then an immutable `Store` | `Decode`: header, `unmarshal`, `check`; `At`, `Prefectures`, `Range` | a damaged file is refused or gives a store whose every read is in bounds; no count sizes an allocation the payload cannot fill; `Range` is exact |
| Lookup API and lazy load, `data.go`, `lookup.go` | `sync.OnceValues`: mutex, flag and results; the derived prefectures | `Load`, `Lookup`, `LookupAll`, `Prefectures`, `PublishedPrefectureRomaji`, `All`, `Len`, `DataUpdated` | callers cannot tell that loading is lazy |
| Address presentation, `address.go` | none | `digits`, `prefectureName`, `English`, `RawTown` | codes print as typed, names in English order |
| Generator: fetching, `tools/gendata/fetch.go` | the cache directory: a `.resolved` file and an archive per dataset | `resolve`, `body`, `unzipSingle` | a run reads a whole published archive, whatever earlier runs left in the cache |
| Generator: pipeline, `tools/gendata/main.go` | the database and the temporary file beside it | `publicationDate`, `write`, `verify`, rename | the database in place is always one that was verified |
| Generator: join, `build.go`, `romaji.go`, `source.go` | maps keyed by JIS code, zip code and town; the tables of prefectures, cities and records | `parseKenAll`, `parseRome`, `newRomajiIndex`, `build`, the three tiers of `townRomaji`, `verifyAgainstSource` | the tables read back as the published rows, and a town never gets another town's spelling |
| Generator: cleaning, `clean.go` | none | `cleanTown`, `rejoin`, `romeName` | cleaning is reversible, and finds the annotation the column ends with |
| Transliteration, `internal/kana`, `romaji.go` | a table, and the reading's position | `convert` behind `Romaji` and `PostalRomaji`, `Titlecase` | the longest kana match wins, every rune is consumed, and the styles differ over long vowels only |

How they interact. The generator calls the encoder and then the decoder (to
verify); the file it leaves is embedded in the package. The package calls the
decoder once, from inside `sync.OnceValues`, and the store's `Range` and `At` on
every lookup. `All` calls back into user code between two reads, and that code
may call the package again. Two generator runs communicate through the cache
directory, the database and the temporary file beside it; nothing keeps two runs
that overlap from using the temporary file at once.

What is hard in it: first calls racing for the load; a body that re-enters the
package; an error latched in the cursor while parsing goes on to the end; counts
and differences that come from a file nobody vouches for; two hand-written
functions that must agree on a byte layout with no tags in it; crashes between
writing, verifying and renaming; a cache written in place; two datasets that are
published at moments of their own, one of which has columns of a fixed width
that cut names short; text that is taken apart by one function and put together by
another in another package. `PROJECT.json` lists these under `hazards`,
each at its line.

## The modules

| Module | Models | Uses |
|---|---|---|
| `StoreRange` | `Store.Range`: `sort.Search` probe by probe, then the scan | |
| `CodeText` | runes, digits and what a text spells | |
| `ZipCode` | `parseCode`, a rune at a time | `CodeText` |
| `Lookup` | `Lookup`: the text, then the column of the store | `StoreRange`, `ZipCode` |
| `Format` | the order of the columns, uvarints and zigzag varints | |
| `Encoder` | `validate`, `intern`, `marshal`, down to the byte | `Format` |
| `Decoder` | `Decode`, `unmarshal`, `check`, a row at a time; `At` | `Format` |
| `Codec` | a dataset encoded, its file damaged at most once, decoded | `Encoder`, `Decoder` |
| `ZipDatabase` | what the database holds and answers | `CodeText` |
| `ZipService` | abstract: the API over a database that was always there | `ZipDatabase` |
| `Library` | the package: goroutines, `sync.OnceValues`, iteration bodies | `ZipDatabase`, refines `ZipService` |
| `CleanTown` | `cleanTown`, `rejoin`, `romeName` on columns of tokens | |
| `Build` | the join of both files, a pass at a time, and `verifyAgainstSource` | `CleanTown` |
| `Kana` | `convert` in both styles, a turn of its loop at a time | |
| `Fetch` | the generator's downloads, its cache and the date it stamps | |
| `Generate` | the write, verify and rename of generators that share their files | |
| `MC*` | the instances TLC checks | |
| `Foundations` | facts about naturals, finite sets, sequences and codes that several proofs rest on | `CodeText` |
| `FormatProofs` | the decoder on any file; what the encoder writes | `Codec`, `Foundations` |
| `CodecProofs` | encoder, damage and decoder together | `FormatProofs` |
| `BuildProofs` | the join on any two files; transliteration of any text | `Build`, `Kana`, `Foundations` |
| other `*Proofs` | theorems and their proofs | the module named |

**StoreRange, ZipCode, Lookup.** `lo`, `hi` are `sort.Search`'s; `start`, `end`
are `Range`'s results. `ProbeHigh` and `ProbeLow` are the two outcomes of the
predicate `s.zips[i] >= zip`, `Extend` a turn of the loop that follows. `zip` and
`n` are `parseCode`'s variables (`code` and `digits` in `Lookup`, which instances
it beside the search); a rune is a digit in one of two widths, a separator or a
stranger. `Lookup` runs the one and hands its code to the other, over any sorted
column.

**Encoder, Decoder, Codec.** A payload is a sequence of bytes in a small base.
The widths of the format (`MaxUint16`, `MaxUint32`, `MaxPayload`, `WordBits`,
the restart interval, the digits of a zip and a JIS code, the length at which a
varint overflows) are constants. The decoder's `pc` is the part of `unmarshal`
that runs and `column` the column; each step reads one row, so that what was read
before an error was latched, and what is read after it, is in the state.
`Codec` adds the stages of a file's life and one damage: a broken header, a
stream that does not inflate, a payload cut short, extended by one byte, or with
one byte changed.

**Library.** Each goroutine has a stack of calls; a call is its operation, its
argument, where it is, and how many records it has yielded. `FastPath`, `Lock`,
`Recheck`, `StoreResults`, `SetDone`, `Unlock` are the Go library's once as the
package uses it, and marked external; `Decode` and `Derive` are the function it
runs, the derivation one prefecture at a time. Whether the embedded file is
readable is chosen at the start. `ZipService` has the same calls and no
loading, and every answer out of `ZipDatabase`; `ImplementsService` maps the stacks
to its calls by forgetting where each call is.

**CleanTown, Build.** A column is a sequence of tokens: letters, spaces, brackets
and the three phrases Japan Post writes in place of a name; the regular
expressions become conditions on where brackets stand. `Build` is the files, the
rows they parse to, `newRomajiIndex`, and the dataset as its three passes make
it, each with its errors and its sort. Its last step is
`verifyAgainstSource`, on the dataset itself: that encoding and decoding give it
back is `RoundTrip`. Names of cities and prefectures, and the tidying of a
spelling (`prettyTown`, `prettyCity`), are opaque. Where the code is peculiar the
model is as well: `romeName` compares the width of a column after its spaces were
squeezed out, and a placeholder row of the romaji file enters the table by zip
code like any other.

**Kana.** A behaviour converts one text twice, spelled out first and with long
vowels dropped then; `pos` and `written` are `convert`'s `i` and `b`, which the
two calls have one after the other, and `spelled` is what the first one returned.
The tables are constants, `lookup` tries the digraph first, and the steps are the
branches of the loop.

**Fetch.** One of the two datasets, which do not interact. `resolved` and
`archive` are the two cache files. A write of a cache file is two steps: after
the first the file holds some beginning of what is written, and a crash or a full
disk may leave it there. The page shows the published date, none, or one that
`publicationDate` can tell is wrong; a misread date that looks right is
indistinguishable from a right one, to the code as to the model, and is left out.
"The future" is later than every run. A download is the published archive, another
page, or an error. `steady` is history: nothing was published during the run, and
the cache it started with had not come apart.

**Generate.** `files` are the database and its `.tmp`. Each generator has its
place in the code, the dataset in its memory, and a `handle`: an open file goes
on being written under whatever name it has by now (`Follow`), as it does where
a rename replaces the name and not the file. `Build` may produce a dataset that does not
say what the rows say, `WriteBlock` may write something else than the encoder
meant, every step may fail and a run may crash before any step. `ReadsBack` and
`Reproduces` are the two halves of `verify`. `apart` is history: no run has
created the temporary file while another was between creating and renaming it.
The dates, and the romaji as against their source, are not compared by `verify`
and not part of the model.

## What TLC checks

Every property of a passing run has a mutant in `PROJECT.json`: a plausible bug
in a definition of the module (`Mutant...`, next to the definition) under which
the same run finds the property violated.

| Run | States | Shows |
|---|---|---|
| `lookup` | 135 260 | a text is accepted exactly when it holds one code and separators (`ParseIsExact`); `Range` is exact (`RangeIsExact`), with every probe inside the column (`IInv`); what `Lookup` returns are the records that print as the digits typed (`LookupExact`); it returns (`Returns`) |
| `codec` | 33 797 | what `Encode` accepts comes back field by field (`RoundTrip`), prints within its width (`WrittenCodesFit`), from a table that lists each string once and in order (`TableInterned`); every damage but a changed byte is refused (`DamageDetected`); whatever the bytes, the codes are sorted and in range (`ZipsSorted`), an accepted store's indices are in bounds (`CheckedIndices`), its notes answer for every record (`NotesReadable`, but for columns that were never allocated, which is a finding), allocations are bounded by the payload (`AllocationsBounded`), an error is final (`ErrorIsFinal`), decoding advances at every step (`Advances`); the invariant of the proofs about the decoder holds (`IInv`), and the types (`TypeOK`) |
| `once_load` | 34 109 | three goroutines racing to the first call: one decodes (`DecodedOnce`), one at a time (`MutexHeld`), nobody reads a half-derived database (`PublishedComplete`), it never changes again (`PublishedForGood`), and every call returns (`CallsReturn`) |
| `service` | 92 404 | the package implements `ZipService` for all its operations (`ImplementsService`), bodies never wait for the loader (`BodiesNeverWait`), and the invariant of the proofs holds (`IInv`) |
| `fetch` | 41 189 | a run that ends has read a whole published archive (`ReadsAnEdition`), stamps a published date (`StampPublished`), without a cache never a newer one than its data's (`NeverClaimsNewer`), and its data's own when nothing is published meanwhile and the cache had not come apart (`StampIsOfData`); an offline run repeats (`OfflineRepeats`) |
| `generate` | 681 458 | as long as no generator creates the temporary file another is using, the database in place is always good (`OutIsGood`), and only a run that reports success replaces it (`OnlySuccessReplaces`) |
| `build` | 211 787 | what `build` returns is what `Encode` accepts (`BuiltIsEncodable`); the comparison with the source passes exactly when each city and prefecture is named in one way, and what passes is shown as published (`VerifiedIffConsistent`); in what is written, no published spelling is from a row with a column that was cut, and no town of a shared zip code has another's (`NeverSwapped`); a name ends where the last annotation begins (`CleanIsExact`) |
| `kana` | 399 731 | the two styles differ over long vowels only, in texts without ウィ, ウェ, ウォ past their beginning (`OnlyLongVowelsDiffer`); spelled out, every mora keeps its vowel (`NothingDiscarded`) |
| `notes_panic`, `wide_jis`, `borrowed_spelling`, `eaten_digraph` | | violations; see Findings |

The bounds, and why they are enough:

- `lookup`: every text of at most four runes for a code of two digits in base 2:
  too short, exact, too long, separators anywhere, strangers anywhere. Every
  sorted column of at most five records over the four codes, which hold a code
  that is absent, unique, or repeated at either end or across the middle, in
  columns of odd and even length.
- `codec`: every sequence of at most three records, sorted or not, out of four,
  over two prefectures and two cities, plus one dataset for each refusal of
  `validate`. With a restart interval of 2 and presence words of 2 bits, three
  records and a handful of strings cross both boundaries; with 4 as the base of a
  varint, values take one to three bytes. The files of no record, one and three
  (`Damageable`) are also damaged: every byte replaced by every other, every
  truncation, every extension by a byte. One change is enough to reach every
  check of the decoder (the coverage of its actions shows it); the proofs about
  the decoder alone start from an arbitrary file, and those about `Codec` from any
  dataset. `notes_panic` and
  `wide_jis` use those files.
- `once_load`: three callers, since the third meets the flag while the first two
  are at the mutex; one level of calls. `service`: two callers, calls nested
  twice, so that a body runs inside an iteration while the other caller loads.
  There are three records (one code shared by two), two prefectures and four texts.
- `fetch`: three editions, so that the page, the archive and the cache can each
  be of a different one, and the runs unbounded in number.
- `generate`: two generators, since they interact in the one temporary file and a
  third only repeats what a second can do to a first; two editions, files of two
  blocks, so that a file can be half of one and half of another; runs unbounded
  in number. The proof has any number of each.
- `build`: at most two rows of either file before a fixed last one, out of ten and
  ten that tell the branches apart: towns that share a zip code, annotations
  closed, cut or lifted out of one column only, columns that fill their width
  (here 4 kanji and 3 letters), placeholders, spaces, rows that repeat or
  disagree, rows nothing can be made of. Two rows can share a code or a city and
  disagree about it, and the last row is of another prefecture. Besides, every
  town column of at most five tokens: two pairs of brackets need no more.
- `kana`: every text of at most four runes of a dozen that take every branch: the
  vowels that lengthen, a digraph of each shape, ン before a labial and a vowel, ッ,
  the long mark, a number, a katakana no table has and a Latin letter. A turn of the
  loop looks at a mora of one or two runes and at most one mora after it, which four
  runes hold, and back at the last letter written.

There is no symmetry, and no state constraint.

Fairness. `Library` assumes weak fairness of each goroutine's own steps, which is
Go's scheduler; it assumes nothing of what callers do in an iteration body other
than that a body comes back or breaks out, because `CallsReturn` is about a call
that is under way and an iteration is in its caller's hands while its body runs. The mutex
needs no stronger assumption: `once_load` holds without one since nobody takes
the mutex again after the flag is set. `Lookup` is sequential and assumes that it
runs (weak fairness of its next-state action). The other specifications assume
none: that decoding ends is the action property `Advances`, and that it does not
stop short is TLC's check for deadlock, which is on in every run but `lookup`,
which returns and is then over. `Build` and `Kana` have a step that stutters once
the work is done (`Halt`, `Converted`), so that stopping anywhere else is a
deadlock.

## What is proved

`tlapm` proves the theorems below for every value of the constants that satisfies
the named assumptions of the modules; TLC evaluates those assumptions
in the runs. The argument is the usual one: an invariant holds initially, each
action keeps it, and it implies the property.

**`Foundations`** has no specification. `SetInduction` is induction over the
naturals for a set instead of a predicate, which the provers can instantiate; it
follows from the absence of one-to-one maps into a smaller set. On it rest
functions defined by recursion (`Recursion`), ranks in
a finite set, sequences laid end to end, and codes: the digits of a number
spell it, and digits are those of the number they spell, for every base and width.

**`LookupProofs`.** `IInv` says that the records before `lo` are below the code
and those from `hi` on are not, and that the scan has met only the code.
`Inductive`, `RangeCorrect`: `Range` is exact in every sorted column.
`ParseCorrect` (`ParseIsExact`): for a text of any length, the parser's
state is what the prefix it has read spells. `LookupRange`, `LookupCorrect`
(`LookupExact`): the two put together, from the text to the records.

**`FormatProofs`**, about `DecodeSpec`, the decoder alone started on any file: any
header, any sequence of bytes of any length. `IInv` says of each part of the store
how far it has come when the decoder is at each part of `unmarshal` (counts are
bounded by the payload, offsets rise and stay in the blob, codes rise, a column
that has been left without an error is complete, a notes column has as many values
as bits set so far). It is needed because
`CheckedIndices` speaks of the end only, while what makes it true is spread
over the whole parse. `SortedByConstruction`, `IndicesChecked`, `Allocations`,
`NotesAnswer` (`NotesReadable`, by the rank of a record among the bits of its
column), `DecoderTyped`, and the action properties `LatchedError` and
`AlwaysFewer` (`Advances`).
Its second half is about the encoder alone: `UvarintAt` reads what `UvarintBytes`
writes, the string table lists each string once and in order, and a payload
is its parts and each part its rows, each beginning where the one before it ends.

**`CodecProofs`**: what `Encode` accepted comes back. As long as the payload is a
beginning of what was written (`Follows`), the decoder is on the encoder's track
(`OnTrack`): it stands where the row it reads next was written, and has
built what was written before. A payload that was cut makes it read past the end
(`Lost`), one with a byte too many leaves that byte over (`Longer`). `CodecInv`
says so for every stage of the file. It is needed because the layout has no
tags: nothing but the position ties what is read to what was meant.
`Unbroken`, `WellTyped` (`TypeOK`), `BackWhole` (`RoundTrip`), `CodesInWidth`
(`WrittenCodesFit`), `Interned` (`TableInterned`), `NeverTaken` (`DamageDetected`);
and what holds of the decoder on any file, at every stage of a file that was
encoded and damaged: `StoredToo`, `LatchedToo`, `AdvancesToo`.

**`LibraryProofs`.** `IInv` ties where the holder of the mutex is to how far the
database has come, and says that calls nest in iterations only, which run once
the flag is set. `Inductive`, `Exclusion`, `AtMostOneDecode`, `Publication`,
`NoWaitInBodies`, `Immutable`: for any number of goroutines, records and
prefectures and any depth of nesting. `Refinement`: the package implements
`ZipService`. The initial states map to one of the service's, and each step to a
step of it or to a stutter: a step of the loader and a check that passes to a
stutter, the others to the operation they answer. Besides `IInv` the argument needs
`CallsOK`, proved inductive there: a call that is past its check has a well-formed
code, and a call that iterates is an `All` of a readable database.

**`FetchProofs`.** `IInv` says what the cache can hold (nothing newer than the site;
whole, or the beginning of something; of one edition, as long as `steady`) and
what a run knows at each step. `Inductive`, `ReadsPublished`, `Stamped`,
`StampedTogether`, `NeverNewer`, `Repeatable`: for any number of editions and
runs.

**`GenerateProofs`.** `IInv` adds to `OutIsGood` that, while runs keep apart, at
most one is between creating and renaming the temporary file, none writes to
the database under its old name, and the one that has verified finds what it
verified, or nothing because a failing run removed it (`SectionOK`).
`Inductive`, `DatabaseStaysGood`, `ReplacedBySuccess`: for any number of
generators and files of any length.

**`BuildProofs`**, for any two files. `CleaningIsReversible`: for columns of any
length `rejoin` gives back what `cleanTown` was given, exactly when no empty
annotation is dropped and no column is left with an annotation and no name;
`build` refuses the other columns. `IInv` says, pass by pass, what the pass put into
its variables: the rows, the spellings of the index and whose they are, the names
of the first rows, and the records as the rows in the order of a stable sort.
`Inductive`, `BuildEncodable` (`BuiltIsEncodable`), `VerifyDecides`
(`VerifiedIffConsistent`), `SpellingsKept` (`NeverSwapped`), `CleaningKept`
(`CleanIsExact`). `NeverSwapped` says in its own terms which columns are fragments
(`Fragment`, the account `clean.go:77-98` gives of the layout), not in those of
`romeName`, and speaks of what is written, `pc = "verified"`:
a spelling is looked up under the city its row names, a record shows the city as
the first row of its JIS code names it, and where rows disagree about that name the
two differ until the comparison with the source refuses them.

The same module holds the proofs about `Kana`, which spells the names no file
does: for any text and any tables. The two styles are not in step, since one passes
over runes the other reads, so no relation between what the two have written so
far is kept by a turn. `KanaInv` therefore speaks of the whole way the spelling-out
style went: a trace, which has for each rune the loop stood at what was written by
then. While spelling out, the trace ends where the loop is; while dropping, the
loop stands at a rune of the trace, and what it has written is what the trace has
there without some vowels that lengthen the one before (`Differs`). A turn that
passes over a vowel goes two runes along the trace, and that is where the premise
of `OnlyLongVowelsDiffer` is needed: if the vowel began a digraph, the rune behind
it would not be on the trace. `CountedSoFar` counts vowels against the runes behind
the loop. `Transliterates` is the invariant, `StylesCompared`
(`OnlyLongVowelsDiffer`) and `MoraeKept` (`NothingDiscarded`) follow, and
`TurnsForward` says that every turn goes forward and none past the end.

The assumptions say no more than the code does:

- Widths and counts are natural numbers, texts are sequences of runes, the records
  of the database are sorted and refer to prefectures that exist
  (`SortedAssumption`, `RecordsAssumption`, which is what `ZipsSorted` and
  `CheckedIndices` say of the decoder), the letters of a column are not brackets
  (`LettersAssumption`), a file is two sequences of rows and a code that does not
  parse is not a number (`BuildAssumption`).
- `RunesAssumption`: the runes `convert` tells apart are different runes, as digits,
  katakana and ASCII are, and ッ is within the range of `isKana` where ー is not
  (`kana.go:57-102`, 162). `KanaAssumption` is what can be read off the tables
  (`kana.go:178` to the end), entry by entry: the letters of every kana but ン and of
  every digraph end in their only vowel, ウ, オ and ン are U, O and N, a digraph is made of
  runes that have letters of their own, none of them オ or ン, and no digraph begins
  with the small kana another ends with.
- `FormatAssumption`: limits are natural numbers, a code fits the field it is kept
  in, and a varint holds the zigzag of a 32-bit number.
  `VarintAssumption`: as many bytes as a varint may have spell every number below
  the limit, as 10 bytes of 7 bits do for 64 bits.
- `DatasetsAssumption`: the datasets given to `Encode` have the types of
  `format.go`, and those `validate` accepts fit (`Fits`): dates and counts in a
  varint, no more strings than an index can name, and a payload `Decode` will open.
  `Encode` checks none of these. In the code the first are widths of Go's own types;
  the payload is a few megabytes, `maxPayload` is 2^28 bytes (`decode.go:16-18`), and
  `verify` would refuse a larger one before it replaced the database.

Invariants of proofs that runs check as well: `IInv` of `Lookup`,
`Decoder`, `Library`, `Fetch` and `Generate`. `CallsOK`, `CodecInv`, `KanaInv` and
the `IInv` of `BuildProofs` are stated beside their proofs.

Only model-checked: liveness (`Returns`, `CallsReturn`), since ENABLED is out of
the prover's reach. Every other property of a passing run is a theorem.

## Findings

1. *`At` can panic on a store `Decode` accepted* (`notes_panic`, `AtNeverPanics`).
   `cursor.count` returns its "only N bytes left" error without latching it
   (`src/internal/binfmt/decode.go:396-398`), and `sparseStrings` drops a
   returned error (438-441). One changed byte, the count of an empty notes
   column, is accepted, and reading the first record indexes a nil slice.
   `decode.go:230-231` promises that indices are validated once at load time.
2. *The decoder accepts JIS codes wider than they print* (`wide_jis`,
   `CodesFitWidth`). `format.go:56-58` says both sides of the format reject
   them; only the encoder does (`encode.go:75`).
3. *A town can be given the spelling of another town of its zip code*
   (`borrowed_spelling`, `BorrowsSafely`). The second tier of `townRomaji`
   (`build.go:218-222`) takes the only spelling the romaji file has for a zip code
   when one town is published for it. `build.go:216-217` says this is only safe
   when neither file splits the code across towns, but what is counted of the
   romaji file is the spellings of the rows that were kept (`romaji.go:74-84`):
   where it lists two towns and one of the rows was cut, the other's spelling is
   taken, and not marked as estimated. Where the first file splits the code, no
   spelling is swapped (`NeverSwapped`).
4. *The postal style loses the W of ウェ after an o- or u-sound* (`eaten_digraph`,
   `StylesAgree`). `convert` skips the ウ as the second half of a long vowel
   (`kana.go:122-129`) without looking at what it begins: トウェ is TOWE in one
   style and TOE in the other. `kana.go:3-4` says the styles differ only in what
   they do with long vowels.

The first two need a damaged file, which `verify` and the compiler's embedding
leave little room for; the last two need rows and readings the present files may
not hold.

Two conditions that the code relies on and does not enforce are conditions of
properties instead. With `-cache`, the date and the archive are cached in files of
their own, each used whenever it is there (`fetch.go:95`, 204): a run that saved
one and failed to save the other leaves a cache from which a later run stamps
the data of one edition with the date of another, which `StampIsOfData` excepts.
And generators with the same `-out` share one temporary file (`main.go:104`): one
that creates it while another has just verified it empties it, and the other
renames what is left over the database. Without `apart`, TLC reaches that in
twelve steps.

## Not modelled

- DEFLATE: a stream inflates or does not. The format has no checksum of its own,
  so a stream that inflates to something else is the changed byte of `codec`.
- `Encode`'s statistics, the generator's report and flags: numbers for a log, and
  options that change no state beyond those of `Fetch`.
- `English` and `String`: names and separators put together. `Titlecase`,
  `Capitalize`, `prettyCity` and `prettyTown`: the case of letters and the hyphens
  of a spelling; `Build` keeps them opaque.
- HTTP, redirects and HTML: they are outcomes of `Fetch`'s actions.
- Generators that run at the same time with the same `-cache`: what one reads
  while another writes is the beginning of a file, which `Fetch` has from a crash.
- The package documentation and the workflow that runs the generator by hand: no
  logic of their own.

## Plan

Done, in this order: `StoreRange`; `ZipCode`; `Format`, `Encoder`, `Decoder`,
`Codec`; `ZipDatabase`, `ZipService`, `Library`; `Fetch`, `Generate`; their proofs;
`CleanTown`, `Build`, `Kana`, `Lookup`; several generators in `Generate`; the
refinement of `ZipService` and the reversibility of cleaning, proved;
`Foundations`, and on it the parser and the lookup, the notes of the decoder, the
round trip of the codec, the join and the transliteration, proved.

Next: the case of letters in spellings (`Titlecase` and what `build` makes of it).
