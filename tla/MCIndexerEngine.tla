-------------------------- MODULE MCIndexerEngine --------------------------
(* A small instance of IndexerEngine for TLC: names that are at once the part of a path,
   the name of a file and an extension, a folder inside a folder of the same name, and a
   file whose folder and the folder above have not been reported. *)
EXTENDS IndexStatistics

MCNames == {"a", "b", ""}

Folder(path) == [kind |-> "folder", path |-> path, name |-> path[Len(path)], extension |-> ""]
File(path, name, ext) == [kind |-> "file", path |-> path, name |-> name, extension |-> ext]

MCEntries == {Folder(<<"a">>), File(<<>>, "a", ""), File(<<"a", "a">>, "b", "b"),
              File(<<"b", "a">>, "a", "b")}
=============================================================================
