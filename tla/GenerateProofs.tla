--------------------------- MODULE GenerateProofs ----------------------------
(***************************************************************************)
(* The database in place is always a verified one as long as runs keep     *)
(* apart, for any generators, any editions and files of any length,        *)
(* whatever fails and wherever a run crashes.  The inductive invariant is  *)
(* IInv of Generate.                                                       *)
(***************************************************************************)
EXTENDS Generate, TLAPS, SequenceTheorems

Files == [present : BOOLEAN, blocks : Seq(Blocks)]

Handles == [at : {"nowhere", "tmp", "out", "gone"}, offset : 0 .. FileBlocks]

FilesOK ==
    /\ files \in [{"out", "tmp"} -> Files]
    /\ \A name \in {"out", "tmp"} : Len(files[name].blocks) <= FileBlocks

(* What IInv says of the runs, one by one. *)
RunsOK ==
    \A g \in Generators :
        /\ handle[g].at # "nowhere" <=> pc[g] = "write"
        /\ pc[g] \notin Ended => data[g] \in Datasets

(* A whole file of a dataset is a file. *)
LEMMA WholeIsFile ==
    ASSUME NEW d \in Datasets
    PROVE  Whole(d) \in Files /\ Len(Whole(d).blocks) = FileBlocks
  <1> DEFINE s == [i \in 1 .. FileBlocks |-> d]
  <1>1. s \in [1 .. FileBlocks -> Blocks]
    BY DEF Blocks
  <1>2. s \in Seq(Blocks) /\ Len(s) = FileBlocks
    BY <1>1, FileBlocksAssumption
  <1> QED
    BY <1>2 DEF Whole, File, Files

(* The rows of an edition are a dataset. *)
LEMMA FaithfulIsDataset ==
    ASSUME NEW e \in Editions
    PROVE  Faithful(e) \in Datasets /\ Faithful(e) \in Blocks
  BY DEF Faithful, Datasets, Blocks

(* A dataset that is faithful is the rows of its edition. *)
LEMMA DatasetIsFaithful ==
    ASSUME NEW d \in Datasets, d.faithful
    PROVE  d.source \in Editions /\ d = Faithful(d.source)
  BY DEF Datasets, Faithful

(* No file, and an empty one. *)
LEMMA SmallFiles ==
    /\ NoFile \in Files /\ Len(NoFile.blocks) <= FileBlocks /\ ~NoFile.present
    /\ File(<<>>) \in Files /\ Len(File(<<>>).blocks) <= FileBlocks
  BY FileBlocksAssumption DEF NoFile, File, Files

(* A file that was written to is a file, and no longer than a whole one. *)
LEMMA PutBlockIsFile ==
    ASSUME NEW old \in Seq(Blocks), Len(old) <= FileBlocks,
           NEW i \in 1 .. FileBlocks, NEW b \in Blocks
    PROVE  /\ File(PutBlock(old, i, b)) \in Files
           /\ Len(File(PutBlock(old, i, b)).blocks) <= FileBlocks
  <1> DEFINE n == IF i > Len(old) THEN i ELSE Len(old)
             s == PutBlock(old, i, b)
  <1>1. n \in 1 .. FileBlocks
    BY FileBlocksAssumption
  <1>2. \A j \in DOMAIN old : old[j] \in Blocks
    OBVIOUS
  <1>3. Damaged \in Blocks
    BY DEF Blocks
  <1>4. s \in [1 .. n -> Blocks]
    BY <1>2, <1>3 DEF PutBlock
  <1>5. s \in Seq(Blocks) /\ Len(s) = n
    BY <1>1, <1>4, FileBlocksAssumption
  <1> QED
    BY <1>1, <1>5, FileBlocksAssumption DEF File, Files

(* Open files follow their names, and stay open. *)
LEMMA FollowKeeps ==
    ASSUME handle \in [Generators -> Handles],
           NEW moved, DOMAIN moved \subseteq {"tmp", "out"},
           \A name \in DOMAIN moved : moved[name] \in {"tmp", "out", "gone"},
           Follow(moved)
    PROVE  /\ handle' \in [Generators -> Handles]
           /\ \A g \in Generators :
                 /\ handle'[g].at = "nowhere" <=> handle[g].at = "nowhere"
                 /\ handle[g].at \notin DOMAIN moved => handle'[g] = handle[g]
  BY DEF Follow, Handles

(* Only the temporary file is touched. *)
LEMMA PutTmpKeeps ==
    ASSUME FilesOK, NEW f \in Files, Len(f.blocks) <= FileBlocks, PutTmp(f)
    PROVE  FilesOK' /\ files'["out"] = files["out"] /\ files'["tmp"] = f
  BY DEF FilesOK, PutTmp, Tmp

(* The database starts out as a run left it. *)
LEMMA InitIInv == Init => IInv
  <1> SUFFICES ASSUME Init PROVE IInv
    OBVIOUS
  <1>1. PICK e \in Editions :
            files = [out |-> Whole(Faithful(e)), tmp |-> NoFile]
    BY DEF Init
  <1>2. /\ files \in [{"out", "tmp"} -> Files]
        /\ \A name \in {"out", "tmp"} : Len(files[name].blocks) <= FileBlocks
    BY <1>1, FaithfulIsDataset, WholeIsFile, SmallFiles, FileBlocksAssumption
  <1>3. Damaged \in Blocks /\ Closed \in Handles /\ Closed.at = "nowhere"
    BY FileBlocksAssumption DEF Blocks, Closed, Handles
  <1>4. TypeOK
    BY <1>2, <1>3 DEF Init, TypeOK, Ended, Files, Handles
  <1>5. OutIsGood
    BY <1>1 DEF OutIsGood
  <1> QED
    BY <1>3, <1>4, <1>5 DEF Init, IInv, SectionOK, Section, Ended

(* The types, in the terms of the lemmas above. *)
LEMMA Types ==
    TypeOK <=>
      /\ FilesOK
      /\ pc \in [Generators -> Ended \cup Section \cup {"build", "create", "remove"}]
      /\ data \in [Generators -> Blocks]
      /\ handle \in [Generators -> Handles]
      /\ apart \in BOOLEAN
  BY DEF TypeOK, FilesOK, Files, Handles

(* A run that ends leaves the files as they are. *)
LEMMA ExitKeeps ==
    ASSUME IInv, NEW g \in Generators, NEW l \in Ended, Exit(g, l),
           files' = files, apart' = apart
    PROVE  IInv'
  <1>1. Damaged \in Blocks /\ Closed \in Handles /\ Closed.at = "nowhere"
    BY FileBlocksAssumption DEF Blocks, Closed, Handles
  <1>2. TypeOK' /\ RunsOK'
    BY <1>1, Types DEF IInv, RunsOK, TypeOK, FilesOK, Files, Handles, Exit, Goto, CloseFile,
                Ended
  <1>3. OutIsGood' /\ (apart => SectionOK')
    BY <1>1, Types DEF IInv, OutIsGood, SectionOK, Exit, Goto, CloseFile, Ended,
                Section
  <1> QED
    BY <1>2, <1>3 DEF IInv, RunsOK

(* A run alone in the section is still alone when it moves on in it. *)
LEMMA AloneKeeps ==
    ASSUME SectionOK, NEW g \in Generators, pc[g] \in Section,
           pc \in [Generators -> Ended \cup Section \cup {"build", "create", "remove"}],
           NEW l, Goto(g, l)
    PROVE  \A other \in Generators \ {g} : pc'[other] \notin Section
  BY DEF SectionOK, Goto

(* Each step of a run keeps the invariant. *)
LEMMA StepIInv ==
    ASSUME IInv, NEW g \in Generators, Step(g)
    PROVE  IInv'
  <1> USE DEF Ended
  <1>t. /\ FilesOK
        /\ pc \in [Generators -> Ended \cup Section \cup {"build", "create", "remove"}]
        /\ data \in [Generators -> Blocks]
        /\ handle \in [Generators -> Handles]
        /\ apart \in BOOLEAN
    BY Types DEF IInv
  <1>r. RunsOK /\ OutIsGood /\ (apart => SectionOK)
    BY DEF IInv, RunsOK
  <1>q. TypeOK' /\ RunsOK' /\ OutIsGood' /\ (apart' => SectionOK') => IInv'
    BY DEF IInv, RunsOK
  <1>1. CASE Start(g)
    <2>1. PICK e \in Editions : data' = [data EXCEPT ![g] = Faithful(e)]
      BY <1>1 DEF Start
    <2>2. Faithful(e) \in Datasets /\ Faithful(e) \in Blocks
      BY FaithfulIsDataset
    <2>3. TypeOK'
      BY <1>t, <1>1, <2>1, <2>2 DEF Start, Goto, TypeOK, FilesOK, Files, Handles
    <2>4. RunsOK'
      BY <1>t, <1>r, <1>1, <2>1, <2>2 DEF RunsOK, Start, Goto
    <2>5. OutIsGood' /\ (apart' => SectionOK')
      BY <1>t, <1>r, <1>1 DEF OutIsGood, SectionOK, Section, Start, Goto
    <2> QED
      BY <1>q, <2>3, <2>4, <2>5
  <1>2. CASE Build(g)
    <2>1. PICK f \in BOOLEAN : data' = [data EXCEPT ![g].faithful = f]
      BY <1>2 DEF Build
    <2>2. data[g] \in Datasets
      BY <1>r, <1>2 DEF RunsOK, Build
    <2>3. data'[g] \in Datasets /\ data' \in [Generators -> Blocks]
          /\ \A other \in Generators \ {g} : data'[other] = data[other]
      BY <1>t, <2>1, <2>2 DEF Datasets, Blocks
    <2>4. TypeOK'
      BY <1>t, <1>2, <2>3 DEF Build, Goto, TypeOK, FilesOK, Files, Handles
    <2>5. RunsOK'
      BY <1>t, <1>r, <1>2, <2>3 DEF RunsOK, Build, Goto
    <2>6. OutIsGood' /\ (apart' => SectionOK')
      BY <1>t, <1>r, <1>2, <2>3 DEF OutIsGood, SectionOK, Section, Build, Goto
    <2> QED
      BY <1>q, <2>4, <2>5, <2>6
  <1>3. CASE BuildFails(g) \/ RenameFails(g) \/ Crash(g)
    <2>1. Exit(g, "failed") /\ files' = files /\ apart' = apart
      BY <1>3 DEF BuildFails, RenameFails, Crash
    <2> QED
      BY <2>1, ExitKeeps
  <1>4. CASE Create(g)
    <2>1. FilesOK' /\ files'["out"] = files["out"]
      BY <1>t, <1>4, SmallFiles, PutTmpKeeps DEF Create
    <2>2. handle' \in [Generators -> Handles]
          /\ handle'[g].at = "tmp"
          /\ \A other \in Generators \ {g} : handle'[other] = handle[other]
      BY <1>t, <1>4, FileBlocksAssumption DEF Create, Handles, Tmp
    <2>3. TypeOK'
      BY <1>t, <1>4, <2>1, <2>2 DEF Create, Goto, TypeOK, FilesOK, Files, Handles, Section
    <2>4. RunsOK'
      BY <1>t, <1>r, <1>4, <2>2 DEF RunsOK, Create, Goto
    <2>5. OutIsGood'
      BY <1>r, <1>4, <2>1 DEF OutIsGood, Create
    <2>6. apart' => SectionOK'
      BY <1>t, <1>4, <2>2 DEF SectionOK, Section, Create, Goto
    <2> QED
      BY <1>q, <2>3, <2>4, <2>5, <2>6
  <1>5. CASE WriteBlock(g)
    <2> DEFINE at == handle[g].at
               i == handle[g].offset + 1
    <2>1. PICK b \in {data[g], Damaged} :
              files' = IF at = "gone" THEN files
                       ELSE [files EXCEPT ![at] =
                                File(PutBlock(files[at].blocks, i, b))]
      BY <1>5 DEF WriteBlock
    <2>2. b \in Blocks /\ i \in 1 .. FileBlocks /\ at \in {"tmp", "out", "gone"}
          /\ pc[g] = "write"
      BY <1>t, <1>r, <1>5, FileBlocksAssumption DEF RunsOK, WriteBlock, More,
                Handles, Blocks
    <2>3. handle' \in [Generators -> Handles] /\ handle'[g].at = handle[g].at
          /\ \A other \in Generators \ {g} : handle'[other] = handle[other]
      BY <1>t, <1>5, <2>2 DEF WriteBlock, Handles
    <2>4. FilesOK' /\ (at # "out" => files'["out"] = files["out"])
      <3>1. CASE at = "gone"
        BY <1>t, <2>1, <3>1 DEF FilesOK
      <3>2. CASE at \in {"tmp", "out"}
        <4>1. files[at].blocks \in Seq(Blocks) /\ Len(files[at].blocks) <= FileBlocks
          BY <1>t, <3>2 DEF FilesOK, Files
        <4>2. /\ File(PutBlock(files[at].blocks, i, b)) \in Files
              /\ Len(File(PutBlock(files[at].blocks, i, b)).blocks) <= FileBlocks
          BY <2>2, <4>1, PutBlockIsFile
        <4> QED
          BY <1>t, <2>1, <3>2, <4>2 DEF FilesOK
      <3> QED
        BY <2>2, <3>1, <3>2
    <2>5. TypeOK'
      BY <1>t, <1>5, <2>3, <2>4 DEF WriteBlock, TypeOK, FilesOK, Files, Handles
    <2>6. RunsOK'
      BY <1>r, <1>5, <2>3 DEF RunsOK, WriteBlock
    <2>7. OutIsGood' /\ (apart' => SectionOK')
      <3>1. apart => at # "out"
        BY <1>r, <2>2 DEF SectionOK, Section
      <3>2. OutIsGood'
        BY <1>r, <1>5, <2>4, <3>1 DEF OutIsGood, WriteBlock
      <3>3. apart' => SectionOK'
        BY <1>r, <1>5, <2>2, <2>3 DEF SectionOK, Section, WriteBlock
      <3> QED
        BY <3>2, <3>3
    <2> QED
      BY <1>q, <2>5, <2>6, <2>7
  <1>6. CASE Close(g) \/ WriteFails(g)
    <2>1. Closed \in Handles /\ Closed.at = "nowhere"
      BY FileBlocksAssumption DEF Closed, Handles
    <2>2. TypeOK'
      <3>1. files' = files /\ data' = data /\ apart' = apart /\ CloseFile(g)
        BY <1>6 DEF Close, WriteFails
      <3>2. handle' \in [Generators -> Handles]
        BY <1>t, <2>1, <3>1 DEF CloseFile
      <3>3. pc' \in [Generators ->
                       Ended \cup Section \cup {"build", "create", "remove"}]
        BY <1>t, <1>6 DEF Close, WriteFails, Goto, Section
      <3> QED
        BY <1>t, <3>1, <3>2, <3>3 DEF TypeOK, FilesOK, Files, Handles
    <2>3. RunsOK'
      BY <1>t, <1>r, <1>6, <2>1 DEF RunsOK, Close, WriteFails, CloseFile, Goto
    <2>4. OutIsGood' /\ (apart' => SectionOK')
      BY <1>t, <1>r, <1>6, <2>1 DEF OutIsGood, SectionOK, Section, Close,
                WriteFails, CloseFile, Goto
    <2> QED
      BY <1>q, <2>2, <2>3, <2>4
  <1>7. CASE Verify(g)
    <2>1. TypeOK' /\ RunsOK'
      BY <1>t, <1>r, <1>7 DEF Verify, Goto, RunsOK, Section, TypeOK, FilesOK,
                Files, Handles
    <2>2. OutIsGood'
      BY <1>r, <1>7 DEF OutIsGood, Verify
    <2>3. apart' => SectionOK'
      BY <1>t, <1>r, <1>7 DEF SectionOK, Section, Verify, Goto, ReadsBack,
                Reproduces, Tmp
    <2> QED
      BY <1>q, <2>1, <2>2, <2>3
  <1>8. CASE VerifyFails(g)
    <2>1. TypeOK' /\ RunsOK'
      BY <1>t, <1>r, <1>8 DEF VerifyFails, Goto, RunsOK, TypeOK, FilesOK,
                Files, Handles
    <2>2. OutIsGood' /\ (apart' => SectionOK')
      BY <1>t, <1>r, <1>8 DEF OutIsGood, SectionOK, Section, VerifyFails, Goto
    <2> QED
      BY <1>q, <2>1, <2>2
  <1>9. CASE Remove(g)
    <2>1. /\ FilesOK' /\ files'["out"] = files["out"]
          /\ files' = files \/ ~files'["tmp"].present
      BY <1>t, <1>9, SmallFiles, PutTmpKeeps DEF Remove, FilesOK
    <2>2. /\ handle' \in [Generators -> Handles]
          /\ \A q \in Generators :
                /\ handle'[q].at = "nowhere" <=> handle[q].at = "nowhere"
                /\ handle'[q].at = "out" => handle[q].at = "out"
      <3>1. CASE handle' = handle
        BY <1>t, <3>1
      <3>2. CASE Follow([tmp |-> "gone"])
        BY <1>t, <3>2, FollowKeeps DEF Follow, Handles
      <3> QED
        BY <1>9, <3>1, <3>2 DEF Remove
    <2>3. Damaged \in Blocks
      BY DEF Blocks
    <2>4. TypeOK'
      BY <1>t, <1>9, <2>1, <2>2, <2>3 DEF Remove, Goto, TypeOK, FilesOK, Files, Handles
    <2>5. RunsOK'
      BY <1>t, <1>r, <1>9, <2>2 DEF RunsOK, Remove, Goto
    <2>6. OutIsGood'
      BY <1>r, <1>9, <2>1 DEF OutIsGood, Remove
    <2>7. apart' => SectionOK'
      BY <1>t, <1>r, <1>9, <2>1, <2>2 DEF SectionOK, Section, Remove, Goto
    <2> QED
      BY <1>q, <2>4, <2>5, <2>6, <2>7
  <1>10. CASE Rename(g)
    <2>1. FilesOK' /\ files'["out"] = files["tmp"] /\ ~files'["tmp"].present
      BY <1>t, <1>10, SmallFiles DEF Rename, Tmp, FilesOK
    <2>2. /\ handle' \in [Generators -> Handles]
          /\ \A q \in Generators :
                handle'[q].at = "nowhere" <=> handle[q].at = "nowhere"
      BY <1>t, <1>10, FollowKeeps DEF Rename
    <2>3. Damaged \in Blocks
      BY DEF Blocks
    <2>4. TypeOK'
      BY <1>t, <1>10, <2>1, <2>2, <2>3 DEF Rename, Goto, TypeOK, FilesOK, Files, Handles
    <2>5. RunsOK'
      BY <1>t, <1>r, <1>10, <2>2 DEF RunsOK, Rename, Goto
    <2>6. OutIsGood'
      <3>1. apart => /\ data[g] \in Datasets /\ data[g].faithful
                     /\ files["tmp"] = Whole(data[g])
        BY <1>r, <1>10 DEF RunsOK, SectionOK, Section, Rename, Tmp
      <3>2. apart => \E e \in Editions : files["tmp"] = Whole(Faithful(e))
        BY <3>1, DatasetIsFaithful
      <3> QED
        BY <1>10, <2>1, <3>2 DEF OutIsGood, Rename
    <2>7. apart' => SectionOK'
      <3>1. apart => \A other \in Generators \ {g} : pc[other] \notin Section
        BY <1>r, <1>10 DEF SectionOK, Section, Rename
      <3>2. apart' => \A q \in Generators : pc'[q] \notin Section
        BY <1>t, <1>10, <3>1 DEF Rename, Goto, Section
      <3> QED
        BY <3>2 DEF SectionOK
    <2> QED
      BY <1>q, <2>4, <2>5, <2>6, <2>7
  <1> QED
    BY <1>1, <1>2, <1>3, <1>4, <1>5, <1>6, <1>7, <1>8, <1>9, <1>10 DEF Step

(* Every step keeps the invariant. *)
LEMMA NextIInv == IInv /\ [Next]_vars => IInv'
  <1> SUFFICES ASSUME IInv, [Next]_vars PROVE IInv'
    OBVIOUS
  <1>1. CASE Next
    BY <1>1, StepIInv DEF Next
  <1>2. CASE UNCHANGED vars
    BY <1>2 DEF IInv, TypeOK, OutIsGood, SectionOK, vars
  <1> QED
    BY <1>1, <1>2

(* As long as runs keep apart, the one that has verified the temporary     *)
(* file finds there what it verified, or nothing.                          *)
THEOREM Inductive == Spec => []IInv
  BY InitIInv, NextIInv, PTL DEF Spec

(* Whatever fails, and wherever a run crashes, the database in place is a  *)
(* whole file that says what its sources say, as long as no run creates    *)
(* the temporary file while another is using it (main.go:101-121).         *)
THEOREM DatabaseStaysGood == Spec => []OutIsGood
  <1>1. IInv => OutIsGood
    BY DEF IInv
  <1> QED
    BY <1>1, Inductive, PTL

(* As long as runs keep apart, only the step that reports success touches  *)
(* the database, and it puts the run's own sources in place                *)
(* (main.go:101-121).                                                      *)
THEOREM ReplacedBySuccess == Spec => OnlySuccessReplaces
  <1> DEFINE Untouched ==
               /\ files'["out"] = files["out"]
               /\ \A g \in Generators : pc'[g] = "done" => pc[g] = "done"
             Replaced(g) ==
               /\ pc[g] = "rename" /\ pc'[g] = "done"
               /\ \E e \in Editions : data[g] = Faithful(e)
               /\ files'["out"] = Whole(data[g])
             Replaces ==
               apart' => Untouched \/ \E g \in Generators : Replaced(g)
  <1>1. IInv /\ [Next]_vars => [Replaces]_vars
    <2> SUFFICES ASSUME IInv, NEW g \in Generators, Step(g), apart'
                 PROVE  Untouched \/ Replaced(g)
      BY DEF Next, vars
    <2>t. FilesOK /\ apart /\ SectionOK
          /\ pc \in [Generators ->
                       Ended \cup Section \cup {"build", "create", "remove"}]
      <3>1. apart
        BY DEF Step, Start, Build, BuildFails, Create, WriteBlock, Close,
               WriteFails, Verify, VerifyFails, Remove, Rename, RenameFails,
               Crash
      <3> QED
        BY <3>1, Types DEF IInv
    <2>1. CASE Rename(g)
      <3>1. /\ pc[g] = "rename" /\ files[Tmp].present
            /\ files'["out"] = files["tmp"]
        BY <2>1 DEF Rename, Tmp
      <3>2. /\ data[g] \in Datasets /\ data[g].faithful
            /\ files["tmp"] = Whole(data[g])
        BY <2>t, <3>1 DEF IInv, SectionOK, Section, Ended, Tmp
      <3>3. \E e \in Editions : data[g] = Faithful(e)
        BY <3>2, DatasetIsFaithful
      <3>4. pc'[g] = "done"
        BY <2>t, <2>1 DEF Rename, Goto
      <3> QED
        BY <3>1, <3>2, <3>3, <3>4
    <2>2. CASE Create(g) \/ Remove(g)
      <3>1. files'["out"] = files["out"]
        BY <2>t, <2>2, SmallFiles, PutTmpKeeps DEF Create, Remove
      <3>2. pc' = [pc EXCEPT ![g] = "write"] \/ pc' = [pc EXCEPT ![g] = "failed"]
        BY <2>2 DEF Create, Remove, Goto
      <3> QED
        BY <2>t, <3>1, <3>2
    <2>3. CASE WriteBlock(g)
      <3>1. handle[g].at # "out"
        BY <2>t, <2>3 DEF SectionOK, Section, WriteBlock
      <3>2. files' = files \/ \E f : files' = [files EXCEPT ![handle[g].at] = f]
        BY <2>3 DEF WriteBlock
      <3>3. files'["out"] = files["out"]
        BY <2>t, <3>1, <3>2 DEF FilesOK
      <3> QED
        BY <2>3, <3>3 DEF WriteBlock
    <2>4. CASE \/ Start(g) \/ Build(g) \/ BuildFails(g) \/ Close(g)
               \/ WriteFails(g) \/ Verify(g) \/ VerifyFails(g)
               \/ RenameFails(g) \/ Crash(g)
      <3>1. files' = files /\ \E l : l # "done" /\ pc' = [pc EXCEPT ![g] = l]
        BY <2>4 DEF Start, Build, BuildFails, Close, WriteFails, Verify,
                    VerifyFails, RenameFails, Crash, Exit, Goto
      <3> QED
        BY <2>t, <3>1
    <2> QED
      BY <2>1, <2>2, <2>3, <2>4 DEF Step
  <1> QED
    BY <1>1, Inductive, PTL DEF Spec, OnlySuccessReplaces
=============================================================================
