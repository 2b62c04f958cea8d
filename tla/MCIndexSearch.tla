--------------------------- MODULE MCIndexSearch ---------------------------
(* A small instance of IndexSearch for TLC: three files that share their strings, as a name,
   an extension and the part of a path; one lies in the root and has no extension. *)
EXTENDS IndexSearch

MCNames == {"a", "b", ""}

File(path, name, ext) == [kind |-> "file", path |-> path, name |-> name, extension |-> ext]

MCEntries == {File(<<"a">>, "b", "b"), File(<<"b", "a">>, "a", "b"),
              File(<<>>, "a", "")}

(* Bound: a scan reports each of them once. *)
MCReportedOnce == \A i, j \in DOMAIN reported : i # j => reported[i] # reported[j]

(* An empty query, and a query that matches two of the files, with room for one and for both. *)
MCConfigs == {[query |-> {}, limit |-> 1]} \cup
             [query : {{<<<<"a">>, "b">>, <<<<"b", "a">>, "a">>}}, limit : {1, 2}]

(* Bound: the opening of an index under a search, of which the properties say nothing, is
   not followed; that before the first search is. *)
MCFollowed == sight = "lost" => pc = "heading" \/ search = "none"

(* The theorems' hypothesis holds here: no path is deeper than the guard admits. *)
ASSUME MCShortPaths == ShortPaths
=============================================================================
