---------------------------- MODULE IndexCommand ----------------------------
(***************************************************************************)
(* A command from the user to its program: typed in the window              *)
(* (runIndexAsync, runSearchAsync and stopIndexing of main.cpp), or written *)
(* by hand; then taken apart and parsed, and, when it is "index", the scan  *)
(* under the rules it gave.  What the user meant is kept beside it.         *)
(***************************************************************************)
EXTENDS DirectoryScanner, CommandLine

CONSTANTS
    Folders,   \* paths of folders as Windows writes them, without a slash too many
    Spellings, \* what a user may add: [before, mark, after : Seq, slash : a slash]
    Queries,   \* the texts a user may search for, none of them empty
    Lists,     \* lists of masks and extensions of the four options
    Mistakes   \* argument vectors that are refused

VARIABLES
    line,   \* the text in the window, then the command line, then argv
    asked   \* history: what the user meant

command == <<line, asked>>
vars == <<command, config, scan>>

(* The programs and files whose names the user does not choose. *)
Exe == <<"FindFileIndexer.exe">>
IndexFile == <<"file_index.ffdb">>
ResultsFile == <<"search_results.tsv">>
LogFile == <<"logs", Slash, "indexer.log">>

NoLists == [excludeDirs |-> <<>>, excludeFiles |-> <<>>, includeExt |-> <<>>, excludeExt |-> <<>>]
Nothing == [command |-> <<>>, root |-> <<>>, query |-> <<>>, onlyName |-> FALSE,
            caseSensitive |-> FALSE, lists |-> NoLists]

(* The same folder in another spelling: spaces and marks around it, the other slash, and
   slashes at its end. *)
Typed(folder, s) ==
    LET marked == s.mark \o folder \o s.after \o s.mark
    IN  [k \in DOMAIN (s.before \o marked \o s.before) |->
           IF (s.before \o marked \o s.before)[k] = Slash THEN s.slash
           ELSE (s.before \o marked \o s.before)[k]]

(* A list as the user writes it, with a semicolon before each item. *)
Written(list) == After([v \in Text |-> [item \in Text |-> v \o <<Semicolon>> \o item]], <<>>, list)

(* The options that a user writes by hand; those without a value are left out. *)
Option(name, value) == IF value = <<>> THEN <<>> ELSE <<<<name>>, value>>
ByHand(folder, lists) ==
    <<Exe, <<"Index">>>> \o Option("--root", folder) \o Option("--output", IndexFile)
        \o Option("--EXCLUDE-DIR", Written(lists.excludeDirs))
        \o Option("--exclude-file", Written(lists.excludeFiles))
        \o Option("--include-ext", Written(lists.includeExt))
        \o Option("--exclude-ext", Written(lists.excludeExt))

(* A path as Windows writes it: no space and no mark around it, no other slash, and a slash
   at the end only of a drive. *)
IsFolder(v) ==
    /\ v \in Text \ {<<>>}
    /\ \A k \in DOMAIN v : v[k] # "/"
    /\ v[1] \notin {Space, Mark, "'"}
    /\ Last(v) # Space
    /\ Last(v) = Slash => isDriveRoot(v) /\ v[1] # Slash

(* A semicolon ends an item, so it is in none. *)
IsItem(v) == v \in Text \ {<<>>} /\ \A k \in DOMAIN v : v[k] # Semicolon

ASSUME CommandAssumption ==
    /\ {"FindFileIndexer.exe", "file_index.ffdb", "search_results.tsv", "logs", "indexer.log",
        "Index", "--EXCLUDE-DIR"} \subseteq Symbols
    /\ "Index" \in DOMAIN Small /\ Small["Index"] = "index"
    /\ "--EXCLUDE-DIR" \in DOMAIN Small /\ Small["--EXCLUDE-DIR"] = "--exclude-dir"
    /\ \A folder \in Folders : IsFolder(folder)
    /\ \A s \in Spellings :
          /\ s.before \in Seq({Space}) /\ s.after \in Seq({Slash})
          /\ s.mark \in {<<>>, <<Mark>>, <<"'">>} /\ s.slash \in {Slash, "/"}
    /\ Queries \subseteq Text
    /\ \A lists \in Lists : \A option \in DOMAIN NoLists :
          lists[option] \in Seq({v \in Text : IsItem(v)})
    /\ \A argv \in Mistakes : Refused(argv)

-----------------------------------------------------------------------------
Goes(from, to) == pc = from /\ pc' = to /\ UNCHANGED <<at, levels, recursion, reported,
                                                       complained, denied, outcome, faults>>

(* The next word or quoted text of a line, after a space. *)
v ++ part == v \o <<Space>> \o part

boolArg(v) == IF v THEN <<"true">> ELSE <<"false">>

(* The line of runIndexAsync. *)
IndexLine ==
    /\ asked.command = <<"index">>
    /\ Goes("window", "line")
    /\ line' = quote(Exe) ++ <<"index">> ++ <<"--root">> ++ quote(normalizeUserPath(line))
                 ++ <<"--output">> ++ quote(IndexFile) ++ <<"--log">> ++ quote(LogFile)
                 ++ <<"--mode">> ++ <<"full">>
    /\ UNCHANGED <<asked, config>>

(* The line of runSearchAsync; the root comes from its file. *)
SearchLine ==
    /\ asked.command = <<"search">>
    /\ Goes("window", "line")
    /\ line' = quote(Exe) ++ <<"search">> ++ <<"--index">> ++ quote(IndexFile)
                 ++ <<"--root">> ++ quote(asked.root) ++ <<"--query">> ++ quote(line)
                 ++ <<"--output">> ++ quote(ResultsFile) ++ <<"--log">> ++ quote(LogFile)
                 ++ <<"--limit">> ++ <<"1000">> ++ <<"--only-name">> ++ boolArg(asked.onlyName)
                 ++ <<"--case-sensitive">> ++ boolArg(asked.caseSensitive)
    /\ UNCHANGED <<asked, config>>

(* The line of stopIndexing. *)
StopLine ==
    /\ asked.command = <<"stop">>
    /\ Goes("window", "line")
    /\ line' = quote(Exe) ++ <<"stop">> ++ <<"--session">> ++ <<"main">>
    /\ UNCHANGED <<asked, config>>

StartProgram ==
    /\ Goes("line", "argv")
    /\ line' = Split(line)
    /\ UNCHANGED <<asked, config>>

(* A line that is refused ends the program. *)
Parse ==
    /\ Goes("argv", IF Refused(line) THEN "refused" ELSE "parsed")
    /\ config' = IF Refused(line) THEN config ELSE parse(line)
    /\ line' = <<>>
    /\ UNCHANGED asked

(* run(): of the index command only the scan is followed here; what it does not read is
   dropped. *)
BeginScan ==
    /\ Goes("parsed", "opening")
    /\ config.command = <<"index">>
    /\ config' = [list \in DOMAIN NoLists |-> config[list]]
    /\ asked' = [Nothing EXCEPT !.lists = asked.lists]
    /\ UNCHANGED line

Init ==
    /\ NotBegun
    /\ config = NoLists
    /\ \/ \E folder \in Folders, s \in Spellings :
            /\ pc = "window" /\ line = Typed(folder, s)
            /\ asked = [Nothing EXCEPT !.command = <<"index">>, !.root = folder]
       \/ \E q \in Queries, folder \in Folders \cup {<<>>}, b, c \in BOOLEAN :
            /\ pc = "window" /\ line = q
            /\ asked = [Nothing EXCEPT !.command = <<"search">>, !.root = folder, !.query = q,
                                       !.onlyName = b, !.caseSensitive = c]
       \/ /\ pc = "window" /\ line = <<>>
          /\ asked = [Nothing EXCEPT !.command = <<"stop">>]
       \/ \E folder \in Folders, lists \in Lists :
            /\ pc = "argv" /\ line = ByHand(folder, lists)
            /\ asked = [Nothing EXCEPT !.command = <<"index">>, !.root = folder, !.lists = lists]
       \/ \E argv \in Mistakes : pc = "argv" /\ line = argv /\ asked = Nothing

Next ==
    \/ IndexLine \/ SearchLine \/ StopLine \/ StartProgram \/ Parse \/ BeginScan
    \/ ScanStep /\ UNCHANGED <<command, config>>

Spec == Init /\ [][Next]_vars

-----------------------------------------------------------------------------
(* Every variable holds a value the code can store in it. *)
TypeOK ==
    /\ pc \in {"window", "line", "argv", "refused", "parsed", "opening", "entry", "stepping",
               "ended"}
    /\ ScanTypeOK

Trailing(v) == Len(v) - Max({0} \cup {k \in DOMAIN v : v[k] # Slash})

(* Slashes at the end mean nothing, but for the one after a drive. *)
SameFolder(p, q) ==
    p = q \/ (Last(q) # Slash /\ \E n \in 1..Trailing(p) : p = q \o Slashes(n))

(* What the program is told is what the user meant, whatever he typed: no space, mark or
   slash in a path or a query makes it another one, or two, or an option; and nothing that
   the window starts is refused. *)
ArgumentsArrive ==
    /\ pc = "refused" => asked = Nothing
    /\ pc = "parsed" =>
         /\ config.command = asked.command
         /\ IF asked.root = <<>> THEN config.rootPath = <<>>
                                 ELSE SameFolder(config.rootPath, asked.root)
         /\ config.query = asked.query
         /\ <<config.onlyName, config.caseSensitive>> = <<asked.onlyName, asked.caseSensitive>>
         /\ \A list \in DOMAIN NoLists : config[list] = asked.lists[list]
         /\ config.sessionName = <<"main">>
         /\ asked.command = <<"index">> => config.outputIndexPath = IndexFile
         /\ asked.command = <<"search">> =>
              config.inputIndexPath = IndexFile /\ config.searchOutputPath = ResultsFile

(* What a mask means: the star stands for any symbols, and capitals for small letters. *)
Glob(mask, name) ==
    LET m == Lower(mask)
        n == Lower(name)
    IN  IF "*" \notin Range(m) THEN m = n
        ELSE \E k \in DOMAIN m :
               /\ m[k] = "*"
               /\ Len(n) >= Len(m) - 1
               /\ IsPrefix(SubSeq(m, 1, k - 1), n) /\ IsSuffix(SubSeq(m, k + 1, Len(m)), n)

(* An extension belongs to a name that has something before it. *)
EndsIn(name, ext) == Len(name) > Len(ext) /\ IsSuffix(Lower(ext), Lower(name))

(* What the lists ask to leave out. *)
UnwantedBy(lists, p) ==
    LET name == Last(p)
    IN  \/ \E mask \in Range(IF isDir(p) THEN lists.excludeDirs ELSE lists.excludeFiles) :
              Glob(mask, name)
        \/ /\ ~isDir(p)
           /\ \/ \E ext \in Range(lists.excludeExt) : EndsIn(name, ext)
              \/ /\ lists.includeExt # <<>>
                 /\ \A ext \in Range(lists.includeExt) : ~EndsIn(name, ext)

Unwanted(p) == UnwantedBy(asked.lists, p)

(* The rules of the code leave out what the lists ask to leave out.  That is so for plain
   lists, and is not for a mask like "a*b" or "*", which the code takes for a name, or for
   "pdf", which it compares with an extension that has its dot. *)
MasksMean ==
    \A lists \in Lists \cup {NoLists} : \A p \in Paths :
        shouldSkip(lists, p) <=> UnwantedBy(lists, p)

(* A mask that the rules understand: a name, "*.x" or "x*". *)
PlainMask(mask) ==
    LET stars == {k \in DOMAIN mask : mask[k] = "*"}
    IN  \/ stars = {}
        \/ stars = {1} /\ Len(mask) > 2 /\ mask[2] = "."
        \/ stars = {Len(mask)} /\ Len(mask) > 1

PlainExtension(ext) == {k \in DOMAIN ext : ext[k] = "."} = {1}

PlainLists ==
    \A lists \in Lists :
        /\ \A mask \in Range(lists.excludeDirs) \cup Range(lists.excludeFiles) : PlainMask(mask)
        /\ \A ext \in Range(lists.includeExt) \cup Range(lists.excludeExt) : PlainExtension(ext)

(* Nothing that the lists of the command leave out, and nothing from a folder they leave
   out, is reported, unless asking what it is failed: then the folder has itself been
   complained of or reported, and a fault has been met. *)
ExcludedStaysOut ==
    \A i \in DOMAIN reported :
        /\ Unwanted(reported[i].path) => faults > 0
        /\ \A a \in Above(reported[i].path) \ {Root} :
              Unwanted(a) => IsComplained(a) \/ IsReported(a)

(* Every entry is reported but those left out, those complained of, and what is in a
   folder left out or denied. *)
Covered(p) ==
    \/ IsReported(p) \/ IsComplained(p)
    \/ Unwanted(p)
    \/ Above(p) \cap denied # {}
    \/ \E a \in Above(p) \ {Root} : Unwanted(a)

(* When the iterator has reached its end without an error, nothing has been forgotten,
   whatever else has failed on the way. *)
NothingForgotten == outcome = "finished" => \A p \in Paths : Covered(p)

(* What DirectoryScanner.h says of errors: scan() sends them to onError and goes on, so a
   scan that was not stopped leaves out nothing but what its rules and errors name. *)
ErrorsGoOn == outcome \in {"finished", "broken"} => \A p \in Paths : Covered(p)

-----------------------------------------------------------------------------
(* The inductive invariant behind NothingForgotten and ExcludedStaysOut: what has been
   passed on or left out by a rule, and what the iterator still has before it. *)

(* The first n names of p are those of q. *)
Agree(p, q, n) == \A i \in 1..n : p[i] = q[i]

(* The entry has been reported or complained of. *)
Known(p) == IsReported(p) \/ IsComplained(p)

(* There is a reason why the walk is done with the entry. *)
Settled(p) ==
    \/ Known(p)
    \/ Excluded(p)
    \/ Above(p) \cap denied # {}
    \/ \E a \in Above(p) \ {Root} : Excluded(a)

(* The entry is left in an open directory or in what is left there; the iterator stands on
   it or above it; or it is in the folder that the iterator goes into next. *)
Ahead(p) ==
    \/ \E k \in DOMAIN levels : \E q \in levels[k] : k <= Len(p) /\ Agree(q, p, k)
    \/ pc = "entry" /\ Len(at) <= Len(p) /\ Agree(at, p, Len(at))
    \/ pc = "stepping" /\ Descends /\ Len(at) < Len(p) /\ Agree(at, p, Len(at))

Coverage ==
    /\ pc \in {"entry", "stepping"} => \A p \in Paths : Settled(p) \/ Ahead(p)
    /\ pc = "entry" => recursion = "pending"
    /\ outcome = "finished" => \A p \in Paths : Settled(p)
    /\ pc = "ended" <=> outcome # "none"

(* A rule is broken only by a fault, and everything above a reported entry is known. *)
RulesKept ==
    /\ faults \in 0..MaxFaults
    /\ \A i \in DOMAIN reported :
         /\ Excluded(reported[i].path) => faults > 0
         /\ \A a \in Above(reported[i].path) \ {Root} : Known(a)

CoverInv == Coverage /\ RulesKept
=============================================================================
