------------------------- MODULE MCDirectoryScanner -------------------------
(* A small tree and small texts for TLC: a folder with a file and a folder that has a
   file, a link to a file outside the root and a link to a folder inside. *)
EXTENDS IndexCommand

A == <<"a">>
X == <<"X", "b">>
File == <<"f", ".", "T">>
Other == <<"g", ".", "t">>
FileLink == <<"f", ".", "u">>
FolderLink == <<"k">>

MCPaths == {<<A>>, <<A, File>>, <<A, X>>, <<A, X, Other>>, <<FileLink>>, <<FolderLink>>}

MCKind == [p \in MCPaths |->
    CASE p \in {<<A>>, <<A, X>>} -> "folder"
      [] p = <<FileLink>> -> "file link"
      [] p = <<FolderLink>> -> "folder link"
      [] OTHER -> "file"]

MCResolved == [p \in MCPaths |->
    CASE p = <<FileLink>> -> <<<<"..">>, Other>>
      [] p = <<FolderLink>> -> <<A>>
      [] OTHER -> p]

MCSymbols == STRING

Capitals == <<"T", "X", "Index", "--EXCLUDE-DIR", "FULL">>
MCSmall == [s \in Range(Capitals) |->
    CASE s = "T" -> "t" [] s = "X" -> "x" [] s = "Index" -> "index" [] s = "FULL" -> "full"
      [] OTHER -> "--exclude-dir"]

MCNumbers == {"1000", "5"}

MCFolders == {<<"C", ":", Slash>>, <<"C", ":", Slash, "a", " ", "b">>,
              <<Slash, Slash, "s", Slash, "a">>, <<Slash, Slash, "s", Slash, "a", Slash, "b">>}

MCSpellings == [before : {<<>>, <<" ">>}, mark : {<<>>, <<Mark>>, <<"'">>},
                after : {<<>>, <<Slash>>, <<Slash, Slash>>}, slash : {Slash, "/"}]

MCQueries == UNION {[1..n -> {"a", " ", Slash, Mark, "--root"}] : n \in 1..3}

OneList(option, list) == [NoLists EXCEPT ![option] = list]

MCLists == {
    NoLists,
    OneList("excludeDirs", <<<<"x", "b">>>>),
    OneList("excludeDirs", <<<<"k">>, <<"x", "*">>>>),
    OneList("excludeFiles", <<<<"*", ".", "t">>>>),
    OneList("excludeFiles", <<<<"g">>, <<"F", "*">>, <<"g", ".", "T">>>>),
    OneList("includeExt", <<<<".", "u">>, <<".", "t">>>>),
    OneList("excludeExt", <<<<".", "t">>>>),
    [OneList("includeExt", <<<<".", "T">>>>) EXCEPT !.excludeDirs = <<<<"X", "*">>>>]}

(* No command, a value that is missing, an option that is not known, an argument that is no
   option, values that are not numbers or modes, and what a command needs. *)
MCMistakes == {
    <<Exe>>,
    <<Exe, <<"index">>, <<"--root">>>>,
    <<Exe, <<"index">>, <<"--fields">>, A>>,
    <<Exe, <<"stop">>, A, A>>,
    <<Exe, <<"search">>, <<"--limit">>, A>>,
    <<Exe, <<"index">>, <<"--mode">>, A, <<"--mode">>, <<"FULL">>>>,
    <<Exe, <<"index">>, <<"--output">>, A>>,
    <<Exe, <<"index">>, <<"--root">>, A>>,
    <<Exe, <<"search">>, <<"--index">>, A>>,
    <<Exe, <<"search">>, <<"--output">>, A>>}

ASSUME MCMasksMean == PlainLists /\ MasksMean
=============================================================================
