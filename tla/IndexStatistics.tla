-------------------------- MODULE IndexStatistics ---------------------------
(***************************************************************************)
(* What the window counts in the index file (buildIndexStatisticsText of    *)
(* main.cpp), at any moment of an index process: a second reader of the     *)
(* file, which checks less than runSearch does.  A read that fails fails    *)
(* all that follow it, and the file only grows; so the count is that of the *)
(* file at one moment, that of the first read that failed.                  *)
(***************************************************************************)
EXTENDS IndexerEngine

(* The records of a list that are among the first n of a block, after those before it. *)
Out(list, before, n) == [i \in {j \in DOMAIN list : before + j <= n} |-> list[i]]

(* What can be read of a torn block of which n records are out. *)
Part(block, n) ==
    LET s == Len(block.strings)
        f == Len(block.folders)
    IN  [block EXCEPT !.strings = Out(@, 0, n), !.folders = Out(@, s, n),
                      !.files = Out(@, s + f, n)]

(* A block is begun with its header, before any of its records. *)
Begun == torn # <<>> /\ torn[1].seen > 0

(* Mutant: the loop over the files goes on after a read that failed, with a record of zeros. *)
ReadOn ==
    LET Zeros == [folderId |-> 0, nameId |-> 0, extensionId |-> 0]
        On(block, part) == [part EXCEPT !.files = [i \in DOMAIN block.files |->
                                IF i \in DOMAIN part.files THEN part.files[i] ELSE Zeros]]
    IN  IF Begun THEN Append(blocks, On(torn[1].block, Part(torn[1].block, torn[1].seen - 1)))
                 ELSE blocks

Read == IF Begun THEN Append(blocks, Part(torn[1].block, torn[1].seen - 1)) ELSE blocks

Announced == IF Begun THEN Append(blocks, torn[1].block) ELSE blocks

AllStrings(blks) == FlattenSeq([k \in DOMAIN blks |-> blks[k].strings])
AllFolders(blks) == FlattenSeq([k \in DOMAIN blks |-> blks[k].folders])
AllFiles(blks) == FlattenSeq([k \in DOMAIN blks |-> blks[k].files])

(* The strings read up to block k; one that is not among them, or is empty, is counted as
   no extension. *)
ExtensionOf(f, k) ==
    LET known == {r \in StringsOf(SubSeq(Read, 1, k)) : r.id = f.extensionId}
    IN  IF known = {} THEN "" ELSE (CHOOSE r \in known : TRUE).value

Extensions ==
    FlattenSeq([k \in DOMAIN Read |->
                  [i \in DOMAIN Read[k].files |-> ExtensionOf(Read[k].files[i], k)]])

HowMany(extensions, ext) == Cardinality({i \in DOMAIN extensions : extensions[i] = ext})

(* Strings are counted whether they can be read or not. *)
Statistics ==
    [blocks |-> Len(Read),
     stringsCount |-> Len(AllStrings(Announced)),
     foldersCount |-> Len(AllFolders(Read)),
     filesCount |-> Len(AllFiles(Read)),
     extCounts |-> [ext \in Names |-> HowMany(Extensions, ext)]]

-----------------------------------------------------------------------------
(* Whatever has been killed or refused, and however much of a block is out, the files and
   the types of files that the window counts are those of the first files the scan has
   reported, with all of the complete blocks among them; and beside the
   process that writes the file it counts no string and no folder unknown to that. *)
StatisticsTrue ==
    LET n == Statistics.filesCount
        first == [i \in 1..n |-> FilesReported[i].extension]
    IN  header = "written" =>
          /\ Len(FilesOf(blocks)) <= n /\ n <= Len(FilesReported)
          /\ \A ext \in Names : Statistics.extCounts[ext] = HowMany(first, ext)
          /\ pc \notin {"absent", "constructed", "starting", "opening"} =>
                Statistics.stringsCount <= Len(values) /\ Statistics.foldersCount <= Len(folders)

-----------------------------------------------------------------------------
(* The inductive invariant behind the last conjunct: a string or folder in the tables of the
   process has one record, in the file or in the batch, and none is made up. *)
RecordsCounted ==
    stream = "good" =>
        /\ Len(AllStrings(blocks)) + Len(batch.strings) = Len(values)
        /\ Len(AllFolders(blocks)) + Len(batch.folders) = Len(folders)
VisibleCounted ==
    Len(AllStrings(Visible)) <= Len(values) /\ Len(AllFolders(Visible)) <= Len(folders)
StatisticsInv ==
    pc \notin {"absent", "constructed", "starting", "opening"} =>
        RecordsCounted /\ VisibleCounted
=============================================================================
