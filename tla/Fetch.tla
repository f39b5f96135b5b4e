-------------------------------- MODULE Fetch --------------------------------
(***************************************************************************)
(* How tools/gendata gets one of the two Japan Post datasets and the date  *)
(* it stamps into the database (fetch.go, and publicationDate of main.go). *)
(* The page gives the link and the date, the link gives the archive, and   *)
(* each is kept in a cache directory of its own file, written in place.    *)
(* Runs follow one another; one can crash anywhere, and Japan Post         *)
(* publishes when it likes.                                                *)
(*                                                                         *)
(* The editions of a dataset are numbered, and an edition's date is its    *)
(* number.                                                                 *)
(***************************************************************************)
EXTENDS Integers

CONSTANTS
    MaxEdition,        \* bound: editions Japan Post publishes
    Overrides          \* the dates given with -ken-date, Missing for none

Missing == 0                  \* time.Time{}
Garbled == -2                 \* a date cut short in the cache
Early == -1                   \* a date before the dataset existed
Future == MaxEdition + 1      \* more than a week after the last run

Absent == -1                  \* no such archive
Junk == 0                     \* something that is not a zip of one CSV

Editions == 1 .. MaxEdition

ASSUME MaxEditionAssumption == MaxEdition \in Nat \ {0}
ASSUME OverridesAssumption ==
    Missing \in Overrides /\ Overrides \subseteq {Missing} \cup Editions

VARIABLES
    site,       \* the edition Japan Post publishes
    resolved,   \* the .resolved file: [url, date]
    archive,    \* the cached archive: an edition, Junk or Absent
    pc,
    flags,      \* the flags of the run: [cache, offline, override]
    steady,     \* history: see Together
    url, date,  \* what resolve returned
    data,       \* the archive body returned
    stamp       \* what publicationDate returned

cached == <<resolved, archive>>
run == <<flags, steady>>
vars == <<site, cached, pc, run, url, date, data, stamp>>

Ended == {"idle", "done", "failed", "crashed"}

Resolution(u, d) == [url |-> u, date |-> d]

NoResolution == Resolution("absent", Missing)

(* What a write of the .resolved file that stops leaves: any beginning of  *)
(* the link and the date.                                                  *)
Beginnings ==
    [url : {"empty", "cut"}, date : {Missing}]
      \cup [url : {"good"}, date : {Missing, Garbled}]

Dates == {Missing, Early, Future} \cup Editions

Resolutions ==
    {NoResolution} \cup Beginnings
      \cup [url : {"good"}, date : Dates \ {Missing}]

Flags == [cache : BOOLEAN, offline : BOOLEAN, override : Overrides]

Init ==
    /\ site = 1
    /\ resolved = NoResolution
    /\ archive = Absent
    /\ pc = "idle"
    /\ flags = [cache |-> FALSE, offline |-> FALSE, override |-> Missing]
    /\ steady = TRUE
    /\ url = "none"
    /\ date = Missing
    /\ data = Absent
    /\ stamp = Missing

-----------------------------------------------------------------------------
(* What happens around the runs. *)

Publish ==
    /\ site < MaxEdition
    /\ site' = site + 1
    /\ steady' = (steady /\ pc \in Ended)
    /\ UNCHANGED <<cached, pc, flags, url, date, data, stamp>>

(* The cached files are of one edition, or of none but the published one.  *)
(* A run is steady that starts with such a cache, if it reads it, and in   *)
(* which nothing is published.                                             *)
Together ==
    resolved.date = archive \/ {resolved.date, archive} \cap Editions \subseteq {site}

Start ==
    /\ pc \in Ended
    /\ flags' \in Flags
    /\ steady' = (flags'.cache => Together)
    /\ url' = "none" /\ date' = Missing /\ data' = Absent /\ stamp' = Missing
    /\ pc' = "resolve"
    /\ UNCHANGED <<site, cached>>

Crash ==
    /\ pc \notin Ended
    /\ pc' = "crashed"
    /\ UNCHANGED <<site, cached, run, url, date, data, stamp>>

Goto(l) == pc' = l /\ UNCHANGED <<site, cached, run, url, date, data, stamp>>

-----------------------------------------------------------------------------
(* resolve *)

(* Mutant: only the link is looked at. *)
MutantParses(r) == r.url \in {"good", "cut"}

(* parseResolved takes a link without a date, but no date it cannot read.  *)
Parses(r) == r.url \in {"good", "cut"} /\ r.date # Garbled

(* Mutant: -offline is forgotten. *)
MutantOnline == TRUE

Online == ~flags.offline

(* Mutant: the directory is read although no -cache was given. *)
MutantResolvedHit == Parses(resolved)

ResolvedHit == flags.cache /\ Parses(resolved)

ResolveFromCache ==
    /\ pc = "resolve"
    /\ ResolvedHit
    /\ url' = resolved.url
    /\ date' = resolved.date
    /\ pc' = "body"
    /\ UNCHANGED <<site, cached, run, data, stamp>>

ResolveOffline ==
    pc = "resolve" /\ ~ResolvedHit /\ ~Online /\ Goto("failed")

(* The page cannot be read: the hardcoded link, and no date. *)
FallBack ==
    /\ pc = "resolve"
    /\ ~ResolvedHit /\ Online
    /\ url' = "good"
    /\ pc' = "body"
    /\ UNCHANGED <<site, cached, run, date, data, stamp>>

(* The page shows its date, none, or one that is misread.  Without a link  *)
(* the hardcoded one is used.  Only a resolution with a date is kept.      *)
ReadPage ==
    /\ pc = "resolve"
    /\ ~ResolvedHit /\ Online
    /\ url' = "good"
    /\ date' = site \/ date' \in {Missing, Early, Future}
    /\ pc' = IF date' = Missing THEN "body" ELSE "save resolved"
    /\ UNCHANGED <<site, cached, run, data, stamp>>

(* toCache writes in place, and goes on whatever becomes of it. *)

NoSave ==
    \/ pc = "save resolved" /\ Goto("body")
    \/ pc = "save archive" /\ Goto("unzip")

BeginResolved ==
    /\ pc = "save resolved"
    /\ flags.cache
    /\ resolved' \in Beginnings
    /\ pc' = "saving resolved"
    /\ UNCHANGED <<site, archive, run, url, date, data, stamp>>

EndResolved ==
    /\ pc = "saving resolved"
    /\ resolved' = resolved \/ resolved' = Resolution(url, date)
    /\ pc' = "body"
    /\ UNCHANGED <<site, archive, run, url, date, data, stamp>>

-----------------------------------------------------------------------------
(* body *)

(* Mutant: the same of the archive. *)
MutantArchiveHit == archive # Absent

ArchiveHit == flags.cache /\ archive # Absent

BodyFromCache ==
    /\ pc = "body"
    /\ ArchiveHit
    /\ data' = archive
    /\ pc' = "unzip"
    /\ UNCHANGED <<site, cached, run, url, date, stamp>>

BodyOffline == pc = "body" /\ ~ArchiveHit /\ ~Online /\ Goto("failed")

(* A whole response: the published edition from a whole link, or some      *)
(* other page, which is kept all the same.                                 *)
Download ==
    /\ pc = "body"
    /\ ~ArchiveHit /\ Online
    /\ data' = Junk \/ (url = "good" /\ data' = site)
    /\ pc' = "save archive"
    /\ UNCHANGED <<site, cached, run, url, date, stamp>>

(* An error, a time-out, a response cut short or too large. *)
DownloadFails ==
    pc = "body" /\ ~ArchiveHit /\ Online /\ Goto("failed")

BeginArchive ==
    /\ pc = "save archive"
    /\ flags.cache
    /\ archive' = Junk
    /\ pc' = "saving archive"
    /\ UNCHANGED <<site, resolved, run, url, date, data, stamp>>

EndArchive ==
    /\ pc = "saving archive"
    /\ archive' = archive \/ archive' = data
    /\ pc' = "unzip"
    /\ UNCHANGED <<site, resolved, run, url, date, data, stamp>>

-----------------------------------------------------------------------------
(* unzipSingle and the parsers, then publicationDate. *)

(* Mutant: what is in the cache was checked when it was written. *)
MutantReadable == data # Junk \/ flags.cache

Readable == data # Junk

Unzip == pc = "unzip" /\ Goto(IF Readable THEN "stamp" ELSE "failed")

(* Mutant: no check for the zero time. *)
MutantPlausible == date >= Missing /\ date < Future

Plausible == date # Missing /\ date > Early /\ date < Future

(* The override is the way through, and is not checked itself. *)
Stamp ==
    /\ pc = "stamp"
    /\ flags.override # Missing \/ Plausible
    /\ stamp' = IF flags.override # Missing THEN flags.override ELSE date
    /\ pc' = "done"
    /\ UNCHANGED <<site, cached, run, url, date, data>>

RefuseDate ==
    /\ pc = "stamp"
    /\ flags.override = Missing /\ ~Plausible
    /\ Goto("failed")

Next ==
    \/ Publish \/ Start \/ Crash
    \/ ResolveFromCache \/ ResolveOffline \/ FallBack \/ ReadPage
    \/ NoSave \/ BeginResolved \/ EndResolved
    \/ BodyFromCache \/ BodyOffline \/ Download \/ DownloadFails
    \/ BeginArchive \/ EndArchive
    \/ Unzip \/ Stamp \/ RefuseDate

Spec == Init /\ [][Next]_vars

-----------------------------------------------------------------------------
PCs ==
    Ended \cup {"resolve", "save resolved", "saving resolved", "body",
                "save archive", "saving archive", "unzip", "stamp"}

(* The state is well typed: in particular the cache holds nothing but what *)
(* a run wrote, or the beginning of it.                                    *)
TypeOK ==
    /\ site \in Editions
    /\ resolved \in Resolutions
    /\ archive \in Editions \cup {Junk, Absent}
    /\ pc \in PCs
    /\ flags \in Flags /\ steady \in BOOLEAN
    /\ url \in {"none", "cut", "good"}
    /\ date \in Dates
    /\ data \in Editions \cup {Junk, Absent}
    /\ stamp \in Editions \cup {Missing}

(* Whatever a crash, a full disk or another page left in the cache, a run  *)
(* that comes to an end has read a whole edition Japan Post published      *)
(* (fetch.go:203-234, 244-255, 257-277).                                   *)
ReadsAnEdition == pc \in {"stamp", "done"} => data \in 1 .. site

(* Without an override the stamp is a date Japan Post published under, and *)
(* never the zero time of a page or a cache file that could not be read    *)
(* (main.go:144-149, main_test.go:31-36).                                  *)
StampPublished ==
    pc = "done" /\ flags.override = Missing => stamp \in 1 .. site

(* Without a cache the page is read before the archive, so that an edition *)
(* published in between makes the stamp too old and never too new: the     *)
(* package does not claim to be more recent than its data (fetch.go:71-86).*)
NeverClaimsNewer ==
    pc = "done" /\ ~flags.cache /\ flags.override = Missing => stamp <= data

(* The date and the archive come from two requests and two cache files.    *)
(* They belong together in every run during which nothing is published,    *)
(* unless it reads a cache whose files had come apart: one of an earlier   *)
(* edition, of which the other was never saved                             *)
(* (fetch.go:94-102, 203-210, lookup.go:100-101).                          *)
StampIsOfData ==
    pc = "done" /\ flags.override = Missing /\ steady => stamp = data

(* An offline run gives what the cache holds, and leaves it as it is: the  *)
(* next one gives the same (main.go:37, fetch.go:94-102, 203-210).         *)
OfflineRepeats ==
    [][pc \notin Ended /\ flags.offline =>
          /\ UNCHANGED cached
          /\ pc' = "done" =>
                /\ data' = archive
                /\ flags.override = Missing => stamp' = resolved.date
      ]_vars

(* Why the properties above hold: what the cache may hold, and what a run  *)
(* knows at each step.                                                     *)
CacheOK ==
    /\ resolved.date \in Editions => resolved.date <= site
    /\ archive <= site

RunOK ==
    /\ date \in Editions => date <= site
    /\ data <= site
    /\ pc = "resolve" => date = Missing
    /\ pc \in {"save resolved", "saving resolved"} =>
          url = "good" /\ date # Missing
    /\ pc \in {"save archive", "saving archive", "unzip"} => data # Absent
    /\ pc \in {"stamp", "done"} => data \in Editions
    /\ pc \in {"saving resolved", "saving archive"} => flags.cache
    /\ ~flags.cache /\ pc \in {"save archive", "unzip", "stamp", "done"} =>
          (date \in Editions /\ data \in Editions => date <= data)
    /\ pc = "done" /\ flags.override = Missing =>
          date \in Editions /\ stamp = date

OfflineOK ==
    flags.offline =>
        /\ pc \notin {"save resolved", "saving resolved", "save archive",
                      "saving archive"}
        /\ pc \in {"body", "unzip", "stamp"} => date = resolved.date
        /\ pc \in {"unzip", "stamp"} => data = archive

(* The date of a steady run is that of the archive it will read. *)
SteadyOK ==
    steady =>
        /\ pc = "resolve" /\ flags.cache => Together
        /\ pc \in {"save resolved", "saving resolved", "body"} /\ date \in Editions =>
              /\ flags.cache /\ archive \in Editions => archive = date
              /\ ~flags.cache \/ archive = Absent => date = site
        /\ pc \in {"save archive", "saving archive", "unzip", "stamp"}
              /\ date \in Editions /\ data \in Editions => date = data
        /\ pc = "done" /\ flags.override = Missing => stamp = data

IInv == TypeOK /\ CacheOK /\ RunOK /\ OfflineOK /\ SteadyOK
=============================================================================
