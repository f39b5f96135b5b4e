------------------------------ MODULE Generate -------------------------------
(***************************************************************************)
(* How tools/gendata replaces the database (run, write and verify of       *)
(* main.go): what was built is written beside the database, read back,     *)
(* compared with what was encoded and with the rows Japan Post published,  *)
(* and only then renamed over it.  Building can go wrong unnoticed, so can *)
(* encoding and storing, any step can fail, and the run can crash anywhere.*)
(* Several generators may be given the same -out; nothing keeps them from  *)
(* using the one temporary file at the same time.                          *)
(*                                                                         *)
(* A dataset is the edition it was built from and whether its records      *)
(* still say what the rows of that edition say; verify compares neither    *)
(* the romaji with their source nor the dates, and they are left out.      *)
(* A file is a sequence of blocks, each of which belongs to a dataset or   *)
(* is not what was written.  A file that is open stays open when its name  *)
(* is taken away or given to another.                                      *)
(***************************************************************************)
EXTENDS Integers, Sequences

CONSTANTS
    Generators,   \* the processes, each of which runs again and again
    Editions,     \* editions of the source files
    FileBlocks    \* bound: blocks of a whole file

ASSUME EditionsAssumption == Editions # {}
ASSUME FileBlocksAssumption == FileBlocks \in Nat \ {0}

Datasets == [source : Editions, faithful : BOOLEAN]

Damaged == [source |-> "none", faithful |-> FALSE]

Blocks == Datasets \cup {Damaged}

VARIABLES
    files,     \* the files named "out" and "tmp": [present, blocks]
    pc,
    data,      \* what a run has in memory: rows, then the dataset built of them
    handle,    \* the file it writes: where that file is by now, and how far it is
    apart      \* history: no run has created the file another was using

vars == <<files, pc, data, handle, apart>>

Ended == {"done", "failed"}

(* Where a run needs the temporary file to be its own. *)
Section == {"write", "verify", "rename"}

NoFile == [present |-> FALSE, blocks |-> <<>>]

File(blocks) == [present |-> TRUE, blocks |-> blocks]

Whole(d) == File([i \in 1 .. FileBlocks |-> d])

Faithful(e) == [source |-> e, faithful |-> TRUE]

Closed == [at |-> "nowhere", offset |-> 0]

(* The database starts out as some earlier run left it. *)
Init ==
    /\ \E e \in Editions : files = [out |-> Whole(Faithful(e)), tmp |-> NoFile]
    /\ pc = [g \in Generators |-> "done"]
    /\ data = [g \in Generators |-> Damaged]
    /\ handle = [g \in Generators |-> Closed]
    /\ apart = TRUE

Goto(g, l) == pc' = [pc EXCEPT ![g] = l]

CloseFile(g) == handle' = [handle EXCEPT ![g] = Closed]

(* The process ends, and with it what it had in memory and open. *)
Exit(g, l) ==
    Goto(g, l) /\ CloseFile(g) /\ data' = [data EXCEPT ![g] = Damaged]

(* Mutant: the database itself is written. *)
MutantTmp == "out"

Tmp == "tmp"

PutTmp(f) == files' = [files EXCEPT ![Tmp] = f]

-----------------------------------------------------------------------------
Start(g) ==
    /\ pc[g] \in Ended
    /\ \E e \in Editions : data' = [data EXCEPT ![g] = Faithful(e)]
    /\ Goto(g, "build")
    /\ UNCHANGED <<files, handle, apart>>

(* build of build.go, whatever it makes of the rows. *)
Build(g) ==
    /\ pc[g] = "build"
    /\ \E f \in BOOLEAN : data' = [data EXCEPT ![g].faithful = f]
    /\ Goto(g, "create")
    /\ UNCHANGED <<files, handle, apart>>

(* The rows do not parse or do not fit, a date is missing, or the          *)
(* directory of the database cannot be made: nothing has been written.     *)
BuildFails(g) ==
    /\ pc[g] \in {"build", "create"}
    /\ Exit(g, "failed")
    /\ UNCHANGED <<files, apart>>

(* os.Create empties what is there: what a crashed run has left, or what   *)
(* another one is using.                                                   *)
Create(g) ==
    /\ pc[g] = "create"
    /\ PutTmp(File(<<>>))
    /\ handle' = [handle EXCEPT ![g] = [at |-> Tmp, offset |-> 0]]
    /\ apart' = (apart /\ \A other \in Generators \ {g} :
                              pc[other] \notin Section)
    /\ Goto(g, "write")
    /\ UNCHANGED data

(* Mutant: one block too many. *)
MutantMore(g) == handle[g].offset <= FileBlocks

More(g) == handle[g].offset < FileBlocks

(* A block is written where this run has got to, over or past what others  *)
(* have written; a hole reads as something nobody meant.                   *)
PutBlock(old, i, b) ==
    [j \in 1 .. (IF i > Len(old) THEN i ELSE Len(old)) |->
        IF j = i THEN b ELSE IF j \in DOMAIN old THEN old[j] ELSE Damaged]

WriteBlock(g) ==
    /\ pc[g] = "write" /\ More(g)
    /\ LET at == handle[g].at
           i == handle[g].offset + 1
       IN  /\ handle' = [handle EXCEPT ![g].offset = i]
           /\ \E b \in {data[g], Damaged} :
                 files' = IF at = "gone" THEN files
                          ELSE [files EXCEPT ![at] =
                                   File(PutBlock(files[at].blocks, i, b))]
    /\ UNCHANGED <<pc, data, apart>>

Close(g) ==
    /\ pc[g] = "write" /\ ~More(g)
    /\ CloseFile(g) /\ Goto(g, "verify")
    /\ UNCHANGED <<files, data, apart>>

(* os.Create, Encode or Close returns an error. *)
WriteFails(g) ==
    /\ pc[g] \in {"create", "write"}
    /\ CloseFile(g) /\ Goto(g, "remove")
    /\ UNCHANGED <<files, data, apart>>

(* Mutant: the file is taken to hold what was encoded. *)
MutantReadsBack(g) == TRUE

(* What Decode gives back is what was encoded. *)
ReadsBack(g) == files[Tmp] = Whole(data[g])

(* Mutant: the database is compared with itself. *)
MutantReproduces(g) == TRUE

(* verifyAgainstSource: the rows put together again are the published ones.*)
Reproduces(g) == data[g].faithful

Verify(g) ==
    /\ pc[g] = "verify" /\ ReadsBack(g) /\ Reproduces(g)
    /\ Goto(g, "rename")
    /\ UNCHANGED <<files, data, handle, apart>>

(* It cannot be opened, does not decode, or differs. *)
VerifyFails(g) ==
    /\ pc[g] = "verify" /\ Goto(g, "remove")
    /\ UNCHANGED <<files, data, handle, apart>>

(* Open files follow their names. *)
Follow(moved) ==
    handle' = [g \in Generators |->
                  IF handle[g].at \in DOMAIN moved
                  THEN [handle[g] EXCEPT !.at = moved[@]] ELSE handle[g]]

(* Whoever created it, the temporary file is removed; the error of         *)
(* os.Remove is not looked at.                                             *)
Remove(g) ==
    /\ pc[g] = "remove"
    /\ \/ PutTmp(NoFile) /\ Follow([tmp |-> "gone"])
       \/ UNCHANGED <<files, handle>>
    /\ Goto(g, "failed")
    /\ data' = [data EXCEPT ![g] = Damaged]
    /\ UNCHANGED apart

(* Whoever created it, the temporary file becomes the database. *)
Rename(g) ==
    /\ pc[g] = "rename" /\ files[Tmp].present
    /\ files' = [out |-> files[Tmp], tmp |-> NoFile]
    /\ Follow([tmp |-> "out", out |-> "gone"])
    /\ Goto(g, "done")
    /\ data' = [data EXCEPT ![g] = Damaged]
    /\ UNCHANGED apart

RenameFails(g) ==
    /\ pc[g] = "rename" /\ Exit(g, "failed")
    /\ UNCHANGED <<files, apart>>

Crash(g) ==
    /\ pc[g] \notin Ended /\ Exit(g, "failed")
    /\ UNCHANGED <<files, apart>>

Step(g) ==
    \/ Start(g) \/ Build(g) \/ BuildFails(g)
    \/ Create(g) \/ WriteBlock(g) \/ Close(g) \/ WriteFails(g)
    \/ Verify(g) \/ VerifyFails(g) \/ Remove(g)
    \/ Rename(g) \/ RenameFails(g) \/ Crash(g)

Next == \E g \in Generators : Step(g)

Spec == Init /\ [][Next]_vars

-----------------------------------------------------------------------------
(* The state is well typed, and no file grows past a whole one. *)
TypeOK ==
    /\ files \in [{"out", "tmp"} -> [present : BOOLEAN, blocks : Seq(Blocks)]]
    /\ \A name \in {"out", "tmp"} : Len(files[name].blocks) <= FileBlocks
    /\ pc \in [Generators -> Ended \cup Section \cup {"build", "create", "remove"}]
    /\ data \in [Generators -> Blocks]
    /\ handle \in [Generators -> [at : {"nowhere", "tmp", "out", "gone"},
                                  offset : 0 .. FileBlocks]]
    /\ apart \in BOOLEAN

(* Whatever fails, and wherever a run crashes, the database in place is a  *)
(* whole file that says what some edition of the sources says              *)
(* (main.go:101-103: "it must not be replaced by something that has yet to  *)
(* prove it decodes"), as long as no run creates the temporary file while  *)
(* another writes it, verifies it or is about to rename it.  Runs may      *)
(* overlap otherwise, and a run that fails may remove another's file.      *)
OutIsGood ==
    apart => \E e \in Editions : files["out"] = Whole(Faithful(e))

(* As long as they keep apart, a run that reports success has put its own  *)
(* sources in place, and no other step touches the database                *)
(* (main.go:101-121).                                                      *)
OnlySuccessReplaces ==
    [][apart' => \/ files'["out"] = files["out"]
                    /\ \A g \in Generators : pc'[g] = "done" => pc[g] = "done"
                 \/ \E g \in Generators :
                        /\ pc[g] = "rename" /\ pc'[g] = "done"
                        /\ \E e \in Editions : data[g] = Faithful(e)
                        /\ files'["out"] = Whole(data[g])
      ]_vars

(* At most one run uses the temporary file, and what it has verified is    *)
(* still there when it renames it, unless another removed it.              *)
SectionOK ==
    \A g \in Generators : pc[g] \in Section =>
        /\ \A other \in Generators \ {g} : pc[other] \notin Section
        /\ handle[g].at # "out"
        /\ pc[g] = "rename" =>
              data[g].faithful /\ (files["tmp"].present =>
                                      files["tmp"] = Whole(data[g]))

(* Why the database stays good. *)
IInv ==
    /\ TypeOK
    /\ \A g \in Generators :
          /\ handle[g].at # "nowhere" <=> pc[g] = "write"
          /\ pc[g] \notin Ended => data[g] \in Datasets
    /\ OutIsGood
    /\ apart => SectionOK
=============================================================================
