---------------------------- MODULE FetchProofs -----------------------------
(***************************************************************************)
(* What a run of the generator reads and stamps, for any number of         *)
(* editions and of runs, with any cache an earlier run or a crash can have *)
(* left.  The inductive invariant is IInv of Fetch.                        *)
(***************************************************************************)
EXTENDS Fetch, TLAPS

(* The numbers that stand for editions, dates and archives. *)
LEMMA Numbers ==
    /\ 1 \in Editions
    /\ \A e \in Editions : e \in Nat \ {0} /\ e # Future
    /\ Dates \subseteq Int
    /\ Missing \in Dates /\ Early \in Dates /\ Future \in Dates
    /\ Missing \notin Editions /\ Early \notin Editions
    /\ Junk \notin Editions /\ Future \notin Editions /\ Garbled \notin Editions
  BY MaxEditionAssumption
  DEF Editions, Dates, Missing, Early, Future, Garbled, Junk

(* What parseResolved can find in a cache. *)
LEMMA ParsedResolutions ==
    ASSUME NEW r \in Resolutions, Parses(r)
    PROVE  r.url \in {"good", "cut"} /\ r.date \in Dates
  BY Numbers, SMTT(60) DEF Resolutions, Resolution, NoResolution, Beginnings,
                           Parses

(* What it cannot find is the date of an edition. *)
LEMMA Unparsed ==
    ASSUME NEW r \in Resolutions, ~Parses(r)
    PROVE  r.date \notin Editions
  BY Numbers, SMTT(60) DEF Resolutions, Resolution, NoResolution, Beginnings,
                           Parses

(* What toCache can leave there. *)
LEMMA SavedResolutions ==
    /\ NoResolution \in Resolutions /\ NoResolution.date \notin Editions
    /\ \A r \in Beginnings : r \in Resolutions /\ r.date \notin Editions
    /\ \A d \in Dates \ {Missing} : Resolution("good", d) \in Resolutions
  BY Numbers DEF Resolutions, Resolution, NoResolution, Beginnings

(* A page shows the date of its edition, or no edition's. *)
LEMMA Dated ==
    ASSUME NEW s \in Editions, NEW d, d = s \/ d \in {Missing, Early, Future}
    PROVE  d \in Editions => d <= s
  BY MaxEditionAssumption DEF Editions, Missing, Early, Future

(* What was published by an edition was published by the next. *)
LEMMA Later ==
    ASSUME NEW s \in Editions, NEW t, t = s + 1
    PROVE  /\ \A a \in Editions \cup {Junk, Absent} : a <= s => a <= t
           /\ \A d : (d \in Editions => d <= s) => (d \in Editions => d <= t)
  BY MaxEditionAssumption DEF Editions, Junk, Absent

(* No archive comes after the published edition. *)
LEMMA Published ==
    ASSUME NEW s \in Editions
    PROVE  Junk <= s /\ Absent <= s /\ s <= s /\ Absent # Junk /\ Absent # s
  BY MaxEditionAssumption DEF Editions, Junk, Absent

(* There is no cache before the first run. *)
LEMMA InitIInv == Init => IInv
  <1> SUFFICES ASSUME Init PROVE IInv
    OBVIOUS
  <1>1. flags \in Flags /\ steady \in BOOLEAN
    BY OverridesAssumption DEF Init, Flags
  <1>2. TypeOK
    BY <1>1, Numbers, SavedResolutions DEF Init, TypeOK, PCs, Ended
  <1>3. CacheOK
    BY SavedResolutions DEF Init, CacheOK, Absent
  <1>4. RunOK
    BY Numbers DEF Init, RunOK, Resolution, Absent
  <1>5. OfflineOK
    BY DEF Init, OfflineOK
  <1>6. SteadyOK
    BY DEF Init, SteadyOK
  <1> QED
    BY <1>2, <1>3, <1>4, <1>5, <1>6 DEF IInv

(* Every step of a run, of Japan Post and of a crash keeps the invariant. *)
LEMMA NextIInv == IInv /\ [Next]_vars => IInv'
  <1> SUFFICES ASSUME IInv, [Next]_vars PROVE IInv'
    OBVIOUS
  <1> USE DEF IInv, cached, run
  <1>1. CASE Publish
    <2>1. TypeOK'
      BY <1>1, MaxEditionAssumption DEF TypeOK, Publish, Editions
    <2>2. CacheOK'
      BY <1>1, MaxEditionAssumption DEF TypeOK, CacheOK, Publish, Editions, Absent, Junk
    <2>3. RunOK'
      <3>1. /\ site \in Editions /\ site' = site + 1
            /\ data \in Editions \cup {Junk, Absent}
        BY <1>1 DEF TypeOK, Publish
      <3>2. data <= site /\ (date \in Editions => date <= site)
        BY DEF RunOK
      <3>3. data <= site' /\ (date \in Editions => date <= site')
        BY <3>1, <3>2, Later
      <3>4. UNCHANGED <<pc, flags, url, date, data, stamp>>
        BY <1>1 DEF Publish
      <3> QED
        BY <3>3, <3>4 DEF RunOK
    <2>4. OfflineOK'
      BY <1>1, Numbers DEF TypeOK, OfflineOK, Publish
    <2>5. SteadyOK'
      BY <1>1, Numbers DEF TypeOK, SteadyOK, Ended, Publish
    <2> QED
      BY <2>1, <2>2, <2>3, <2>4, <2>5
  <1>2. CASE Start
    <2>1. TypeOK'
      BY <1>2, Numbers DEF TypeOK, PCs, Ended, Start
    <2>2. CacheOK'
      BY <1>2, Numbers DEF TypeOK, CacheOK, Start
    <2>3. RunOK'
      <3>1. site' \in Nat /\ data' <= site' /\ date' \notin Editions
        BY <1>2, Numbers DEF TypeOK, Start, Absent
      <3> QED
        BY <1>2, <3>1 DEF RunOK, Start
    <2>4. OfflineOK'
      BY <1>2, Numbers DEF TypeOK, OfflineOK, Ended, Start
    <2>5. SteadyOK'
      BY <1>2, Numbers DEF TypeOK, SteadyOK, Ended, Start, Together
    <2> QED
      BY <2>1, <2>2, <2>3, <2>4, <2>5
  <1>3. CASE Crash
    <2>1. TypeOK'
      BY <1>3, Numbers DEF TypeOK, PCs, Ended, Crash
    <2>2. CacheOK'
      BY <1>3, Numbers DEF TypeOK, CacheOK, Crash
    <2>3. RunOK'
      BY <1>3, Numbers DEF TypeOK, RunOK, Ended, Crash
    <2>4. OfflineOK'
      BY <1>3, Numbers DEF TypeOK, OfflineOK, Ended, Crash
    <2>5. SteadyOK'
      BY <1>3, Numbers DEF TypeOK, SteadyOK, Ended, Crash
    <2> QED
      BY <2>1, <2>2, <2>3, <2>4, <2>5
  <1>4. CASE ResolveFromCache
    <2>1. TypeOK'
      BY <1>4, ParsedResolutions, Numbers DEF TypeOK, PCs, Ended, ResolveFromCache, ResolvedHit
    <2>2. CacheOK'
      BY <1>4, Numbers DEF TypeOK, CacheOK, ResolveFromCache
    <2>3. RunOK'
      BY <1>4, ParsedResolutions, Numbers DEF TypeOK, RunOK, ResolveFromCache, CacheOK, ResolvedHit
    <2>4. OfflineOK'
      BY <1>4, Numbers DEF TypeOK, OfflineOK, ResolveFromCache
    <2>5. SteadyOK'
      BY <1>4, Numbers DEF TypeOK, SteadyOK, Ended, ResolveFromCache, Together, ResolvedHit, Absent
    <2> QED
      BY <2>1, <2>2, <2>3, <2>4, <2>5
  <1>5. CASE ResolveOffline
    <2>1. TypeOK'
      BY <1>5, Numbers DEF TypeOK, PCs, Ended, ResolveOffline, Goto
    <2>2. CacheOK'
      BY <1>5, Numbers DEF TypeOK, CacheOK, ResolveOffline, Goto
    <2>3. RunOK'
      BY <1>5, Numbers DEF TypeOK, RunOK, ResolveOffline, Goto
    <2>4. OfflineOK'
      BY <1>5, Numbers DEF TypeOK, OfflineOK, ResolveOffline, Goto
    <2>5. SteadyOK'
      BY <1>5, Numbers DEF TypeOK, SteadyOK, Ended, ResolveOffline, Goto
    <2> QED
      BY <2>1, <2>2, <2>3, <2>4, <2>5
  <1>6. CASE FallBack
    <2>1. TypeOK'
      BY <1>6, Numbers DEF TypeOK, PCs, Ended, FallBack
    <2>2. CacheOK'
      BY <1>6, Numbers DEF TypeOK, CacheOK, FallBack
    <2>3. RunOK'
      BY <1>6, Numbers DEF TypeOK, RunOK, FallBack
    <2>4. OfflineOK'
      BY <1>6, Numbers DEF TypeOK, OfflineOK, FallBack, Online
    <2>5. SteadyOK'
      BY <1>6, Numbers DEF TypeOK, SteadyOK, Ended, FallBack, RunOK
    <2> QED
      BY <2>1, <2>2, <2>3, <2>4, <2>5
  <1>7. CASE ReadPage
    <2>1. TypeOK'
      BY <1>7, Numbers DEF TypeOK, PCs, Ended, ReadPage, Dates
    <2>2. CacheOK'
      BY <1>7, Numbers DEF TypeOK, CacheOK, ReadPage
    <2>3. RunOK'
      <3>1. /\ site \in Editions /\ site' = site
            /\ date' = site \/ date' \in {Missing, Early, Future}
        BY <1>7 DEF TypeOK, ReadPage
      <3>2. date' \in Editions => date' <= site'
        BY <3>1, Dated
      <3>3. data' <= site'
        BY <1>7 DEF RunOK, ReadPage
      <3> QED
        BY <1>7, <3>2, <3>3 DEF RunOK, ReadPage
    <2>4. OfflineOK'
      BY <1>7, Numbers DEF TypeOK, OfflineOK, ReadPage, Online
    <2>5. SteadyOK'
      <3>1. flags.cache => resolved.date \notin Editions
        BY <1>7, Unparsed DEF TypeOK, ReadPage, ResolvedHit
      <3>2. date' \in Editions => date' = site
        BY <1>7, Numbers DEF TypeOK, ReadPage
      <3>3. flags.cache /\ archive \in Editions /\ steady => archive = site
        BY <1>7, <3>1 DEF TypeOK, SteadyOK, Together, ReadPage
      <3>4. UNCHANGED <<site, resolved, archive, run, data, stamp>>
        BY <1>7 DEF ReadPage
      <3>5. pc' \in {"save resolved", "body"}
        BY <1>7 DEF ReadPage
      <3> QED
        BY <3>2, <3>3, <3>4, <3>5 DEF SteadyOK
    <2> QED
      BY <2>1, <2>2, <2>3, <2>4, <2>5
  <1>8. CASE NoSave
    <2>1. TypeOK'
      BY <1>8, Numbers DEF TypeOK, PCs, Ended, NoSave, Goto
    <2>2. CacheOK'
      BY <1>8, Numbers DEF TypeOK, CacheOK, NoSave, Goto
    <2>3. RunOK'
      BY <1>8, Numbers DEF TypeOK, RunOK, NoSave, Goto, Junk
    <2>4. OfflineOK'
      BY <1>8, Numbers DEF TypeOK, OfflineOK, NoSave, Goto
    <2>5. SteadyOK'
      BY <1>8, Numbers DEF TypeOK, SteadyOK, Ended, NoSave, Goto
    <2> QED
      BY <2>1, <2>2, <2>3, <2>4, <2>5
  <1>9. CASE BeginResolved
    <2>1. TypeOK'
      BY <1>9, SavedResolutions, Numbers DEF TypeOK, PCs, Ended, BeginResolved
    <2>2. CacheOK'
      BY <1>9, SavedResolutions, Numbers DEF TypeOK, CacheOK, BeginResolved
    <2>3. RunOK'
      BY <1>9, Numbers DEF TypeOK, RunOK, BeginResolved
    <2>4. OfflineOK'
      BY <1>9, Numbers DEF TypeOK, OfflineOK, BeginResolved
    <2>5. SteadyOK'
      BY <1>9, Numbers DEF TypeOK, SteadyOK, Ended, BeginResolved
    <2> QED
      BY <2>1, <2>2, <2>3, <2>4, <2>5
  <1>10. CASE EndResolved
    <2>1. TypeOK'
      BY <1>10, SavedResolutions, Numbers DEF TypeOK, PCs, Ended, EndResolved, RunOK
    <2>2. CacheOK'
      <3>1. resolved' = resolved \/ resolved' = Resolution(url, date)
        BY <1>10 DEF EndResolved
      <3>2. Resolution(url, date).date = date
        BY DEF Resolution
      <3> QED
        BY <1>10, <3>1, <3>2 DEF CacheOK, RunOK, EndResolved
    <2>3. RunOK'
      BY <1>10, Numbers DEF TypeOK, RunOK, EndResolved
    <2>4. OfflineOK'
      BY <1>10, Numbers DEF TypeOK, OfflineOK, EndResolved
    <2>5. SteadyOK'
      BY <1>10, Numbers DEF TypeOK, SteadyOK, Ended, EndResolved
    <2> QED
      BY <2>1, <2>2, <2>3, <2>4, <2>5
  <1>11. CASE BodyFromCache
    <2>1. TypeOK'
      BY <1>11, Numbers DEF TypeOK, PCs, Ended, BodyFromCache
    <2>2. CacheOK'
      BY <1>11, Numbers DEF TypeOK, CacheOK, BodyFromCache
    <2>3. RunOK'
      BY <1>11, Numbers DEF TypeOK, RunOK, BodyFromCache, ArchiveHit, CacheOK
    <2>4. OfflineOK'
      BY <1>11, Numbers DEF TypeOK, OfflineOK, BodyFromCache
    <2>5. SteadyOK'
      BY <1>11, Numbers DEF TypeOK, SteadyOK, Ended, BodyFromCache, ArchiveHit
    <2> QED
      BY <2>1, <2>2, <2>3, <2>4, <2>5
  <1>12. CASE BodyOffline
    <2>1. TypeOK'
      BY <1>12, Numbers DEF TypeOK, PCs, Ended, BodyOffline, Goto
    <2>2. CacheOK'
      BY <1>12, Numbers DEF TypeOK, CacheOK, BodyOffline, Goto
    <2>3. RunOK'
      BY <1>12, Numbers DEF TypeOK, RunOK, BodyOffline, Goto
    <2>4. OfflineOK'
      BY <1>12, Numbers DEF TypeOK, OfflineOK, BodyOffline, Goto
    <2>5. SteadyOK'
      BY <1>12, Numbers DEF TypeOK, SteadyOK, Ended, BodyOffline, Goto
    <2> QED
      BY <2>1, <2>2, <2>3, <2>4, <2>5
  <1>13. CASE Download
    <2>1. TypeOK'
      BY <1>13, Numbers DEF TypeOK, PCs, Ended, Download, Junk
    <2>2. CacheOK'
      BY <1>13, Numbers DEF TypeOK, CacheOK, Download
    <2>3. RunOK'
      <3>1. site \in Editions /\ site' = site /\ (data' = Junk \/ data' = site)
        BY <1>13 DEF TypeOK, Download
      <3>2. data' <= site' /\ data' # Absent /\ (data' \in Editions => data' = site)
        BY <3>1, Published, Numbers
      <3> QED
        BY <1>13, <3>2 DEF RunOK, Download
    <2>4. OfflineOK'
      BY <1>13, Numbers DEF TypeOK, OfflineOK, Download, Online
    <2>5. SteadyOK'
      BY <1>13, Published, Numbers DEF TypeOK, SteadyOK, Ended, Download, ArchiveHit
    <2> QED
      BY <2>1, <2>2, <2>3, <2>4, <2>5
  <1>14. CASE DownloadFails
    <2>1. TypeOK'
      BY <1>14, Numbers DEF TypeOK, PCs, Ended, DownloadFails, Goto
    <2>2. CacheOK'
      BY <1>14, Numbers DEF TypeOK, CacheOK, DownloadFails, Goto
    <2>3. RunOK'
      BY <1>14, Numbers DEF TypeOK, RunOK, DownloadFails, Goto
    <2>4. OfflineOK'
      BY <1>14, Numbers DEF TypeOK, OfflineOK, DownloadFails, Goto
    <2>5. SteadyOK'
      BY <1>14, Numbers DEF TypeOK, SteadyOK, Ended, DownloadFails, Goto
    <2> QED
      BY <2>1, <2>2, <2>3, <2>4, <2>5
  <1>15. CASE BeginArchive
    <2>1. TypeOK'
      BY <1>15, Numbers DEF TypeOK, PCs, Ended, BeginArchive
    <2>2. CacheOK'
      <3>1. site \in Editions /\ archive' = Junk /\ site' = site
        BY <1>15 DEF TypeOK, BeginArchive
      <3>2. archive' <= site'
        BY <3>1, Published
      <3> QED
        BY <1>15, <3>2 DEF CacheOK, BeginArchive
    <2>3. RunOK'
      BY <1>15, Numbers DEF TypeOK, RunOK, BeginArchive
    <2>4. OfflineOK'
      BY <1>15, Numbers DEF TypeOK, OfflineOK, BeginArchive
    <2>5. SteadyOK'
      BY <1>15, Numbers DEF TypeOK, SteadyOK, Ended, BeginArchive
    <2> QED
      BY <2>1, <2>2, <2>3, <2>4, <2>5
  <1>16. CASE EndArchive
    <2>1. TypeOK'
      BY <1>16, Numbers DEF TypeOK, PCs, Ended, EndArchive, RunOK
    <2>2. CacheOK'
      BY <1>16, Numbers DEF TypeOK, CacheOK, EndArchive, RunOK
    <2>3. RunOK'
      BY <1>16, Numbers DEF TypeOK, RunOK, EndArchive
    <2>4. OfflineOK'
      BY <1>16, Numbers DEF TypeOK, OfflineOK, EndArchive
    <2>5. SteadyOK'
      BY <1>16, Numbers DEF TypeOK, SteadyOK, Ended, EndArchive, RunOK
    <2> QED
      BY <2>1, <2>2, <2>3, <2>4, <2>5
  <1>17. CASE Unzip
    <2>1. TypeOK'
      BY <1>17, Numbers DEF TypeOK, PCs, Ended, Unzip, Goto
    <2>2. CacheOK'
      BY <1>17, Numbers DEF TypeOK, CacheOK, Unzip, Goto
    <2>3. RunOK'
      BY <1>17, Numbers DEF TypeOK, RunOK, Unzip, Goto, Readable, Junk, Absent
    <2>4. OfflineOK'
      BY <1>17, Numbers DEF TypeOK, OfflineOK, Unzip, Goto
    <2>5. SteadyOK'
      BY <1>17, Numbers DEF TypeOK, SteadyOK, Ended, Unzip, Goto
    <2> QED
      BY <2>1, <2>2, <2>3, <2>4, <2>5
  <1>18. CASE Stamp
    <2>1. TypeOK'
      BY <1>18, OverridesAssumption, Numbers DEF TypeOK, PCs, Ended, Stamp, Plausible, Flags, RunOK, Dates, Missing, Early, Future
    <2>2. CacheOK'
      BY <1>18, Numbers DEF TypeOK, CacheOK, Stamp
    <2>3. RunOK'
      BY <1>18, Numbers DEF TypeOK, RunOK, Stamp, Plausible, Missing, Early, Future, Dates
    <2>4. OfflineOK'
      BY <1>18, Numbers DEF TypeOK, OfflineOK, Stamp
    <2>5. SteadyOK'
      <3>1. (stamp' = date /\ Plausible) \/ flags.override # Missing
        BY <1>18 DEF Stamp
      <3>2. Plausible => date \in Editions
        BY Numbers DEF TypeOK, Plausible, Dates, Missing, Early, Future
      <3>3. data \in Editions /\ (steady /\ date \in Editions => date = data)
        BY <1>18 DEF RunOK, SteadyOK, Stamp
      <3> QED
        BY <1>18, <3>1, <3>2, <3>3 DEF SteadyOK, Stamp
    <2> QED
      BY <2>1, <2>2, <2>3, <2>4, <2>5
  <1>19. CASE RefuseDate
    <2>1. TypeOK'
      BY <1>19, Numbers DEF TypeOK, PCs, Ended, RefuseDate, Goto
    <2>2. CacheOK'
      BY <1>19, Numbers DEF TypeOK, CacheOK, RefuseDate, Goto
    <2>3. RunOK'
      BY <1>19, Numbers DEF TypeOK, RunOK, RefuseDate, Goto
    <2>4. OfflineOK'
      BY <1>19, Numbers DEF TypeOK, OfflineOK, RefuseDate, Goto
    <2>5. SteadyOK'
      BY <1>19, Numbers DEF TypeOK, SteadyOK, Ended, RefuseDate, Goto
    <2> QED
      BY <2>1, <2>2, <2>3, <2>4, <2>5
  <1>20. CASE UNCHANGED vars
    <2>1. TypeOK' /\ CacheOK'
      BY <1>20, Numbers DEF vars, TypeOK, CacheOK
    <2>2. RunOK' /\ OfflineOK' /\ SteadyOK'
      BY <1>20, ZenonT(60) DEF vars, RunOK, OfflineOK, SteadyOK, Together
    <2> QED
      BY <2>1, <2>2
  <1> QED
    BY <1>1, <1>2, <1>3, <1>4, <1>5, <1>6, <1>7, <1>8, <1>9, <1>10, <1>11, <1>12, <1>13, <1>14, <1>15, <1>16, <1>17, <1>18, <1>19, <1>20 DEF Next

(* At each step, what the cache holds and the run knows was published, and *)
(* belongs together if it did when the run started.                        *)
THEOREM Inductive == Spec => []IInv
  BY InitIInv, NextIInv, PTL DEF Spec

(* A run that comes to an end has read a whole published edition, whatever *)
(* earlier runs and crashes left in the cache (fetch.go:203-277).          *)
THEOREM ReadsPublished == Spec => []ReadsAnEdition
  <1>1. IInv => ReadsAnEdition
    <2> SUFFICES ASSUME IInv, pc \in {"stamp", "done"} PROVE data \in 1 .. site
      BY DEF ReadsAnEdition
    <2>1. data \in Editions /\ data <= site /\ site \in Editions
      BY DEF IInv, RunOK, TypeOK
    <2> QED
      BY <2>1, MaxEditionAssumption DEF Editions
  <1> QED
    BY <1>1, Inductive, PTL

(* Without an override, the stamp is a date Japan Post published under,    *)
(* and never the zero time (main.go:144-166).                              *)
THEOREM Stamped == Spec => []StampPublished
  <1>1. IInv => StampPublished
    <2> SUFFICES ASSUME IInv, pc = "done", flags.override = Missing
                 PROVE  stamp \in 1 .. site
      BY DEF StampPublished
    <2>1. stamp \in Editions /\ stamp <= site /\ site \in Editions
      BY DEF IInv, RunOK, TypeOK
    <2> QED
      BY <2>1, MaxEditionAssumption DEF Editions
  <1> QED
    BY <1>1, Inductive, PTL

(* Without a cache the stamp is never more recent than the data, whatever  *)
(* is published during the run (fetch.go:71-86).                           *)
THEOREM NeverNewer == Spec => []NeverClaimsNewer
  <1>1. IInv => NeverClaimsNewer
    BY DEF IInv, RunOK, NeverClaimsNewer
  <1> QED
    BY <1>1, Inductive, PTL

(* The stamp is of the data's edition in every run during which nothing is *)
(* published, but one that reads a cache whose files had come apart        *)
(* (fetch.go:94-102, 203-210).                                             *)
THEOREM StampedTogether == Spec => []StampIsOfData
  <1>1. IInv => StampIsOfData
    BY DEF IInv, SteadyOK, StampIsOfData
  <1> QED
    BY <1>1, Inductive, PTL

(* An offline run leaves the cache alone and gives what it holds, so that  *)
(* the next offline run gives the same (main.go:37, fetch.go:94-102).      *)
THEOREM Repeatable == Spec => OfflineRepeats
  <1> DEFINE Repeats ==
        pc \notin Ended /\ flags.offline =>
            /\ UNCHANGED cached
            /\ pc' = "done" =>
                  /\ data' = archive
                  /\ flags.override = Missing => stamp' = resolved.date
  <1>1. IInv /\ [Next]_vars => [Repeats]_vars
    <2> SUFFICES ASSUME IInv, Next, pc \notin Ended, flags.offline
                 PROVE  Repeats
      BY DEF vars
    <2> USE DEF Ended, cached, run
    <2>1. CASE Publish \/ Start \/ Crash
      BY <2>1 DEF Publish, Start, Crash, Goto
    <2>2. CASE ResolveFromCache \/ ResolveOffline
      BY <2>2 DEF ResolveFromCache, ResolveOffline, Goto
    <2>3. CASE FallBack \/ ReadPage \/ Download \/ DownloadFails
      BY <2>3 DEF FallBack, ReadPage, Download, DownloadFails, Goto, Online
    <2>4. CASE NoSave \/ BeginResolved \/ EndResolved \/ BeginArchive \/ EndArchive
      BY <2>4 DEF NoSave, BeginResolved, EndResolved, BeginArchive, EndArchive, Goto, IInv, OfflineOK
    <2>5. CASE BodyFromCache \/ BodyOffline
      BY <2>5 DEF BodyFromCache, BodyOffline, Goto
    <2>6. CASE Unzip \/ RefuseDate
      BY <2>6 DEF Unzip, RefuseDate, Goto
    <2>7. CASE Stamp
      BY <2>7 DEF Stamp, IInv, OfflineOK
    <2> QED
      BY <2>1, <2>2, <2>3, <2>4, <2>5, <2>6, <2>7 DEF Next
  <1> QED
    BY <1>1, Inductive, PTL DEF Spec, OfflineRepeats
=============================================================================
