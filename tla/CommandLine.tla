---------------------------- MODULE CommandLine -----------------------------
(***************************************************************************)
(* From what the user types to the AppConfig of a process: the path as the  *)
(* window cleans and quotes it (desktop/FindFile.Native/src/main.cpp), the  *)
(* line as the start of the program cuts it, and the arguments as           *)
(* app/CommandLineParser reads them.                                        *)
(***************************************************************************)
EXTENDS Texts, Naturals, SequencesExt

CONSTANT Numbers  \* the symbols that stand for a number std::stoul takes

(* The symbols that part or wrap others. *)
Slash == "\\"
Mark == "\""
Space == " "
Semicolon == ";"

Slashes(n) == [k \in 1..n |-> Slash]

ASSUME SignsAssumption == {Slash, Mark, Space, Semicolon, "/", "'"} \subseteq Symbols

-----------------------------------------------------------------------------
(* A path that the user typed. *)

trimText(v) ==
    LET inner == {k \in DOMAIN v : v[k] # Space}
        t == IF inner = {} THEN <<>> ELSE SubSeq(v, Min(inner), Max(inner))
    IN  IF Len(t) >= 2 /\ t[1] = Last(t) /\ t[1] \in {Mark, "'"} THEN Tail(Front(t)) ELSE t

isDriveRoot(p) == Len(p) = 3 /\ p[2] = ":" /\ p[3] \in {Slash, "/"}

isUncShareRoot(p) ==
    /\ IsPrefix(Slashes(2), p)
    /\ Cardinality({k \in 3..Len(p) : p[k] \notin {Slash, "/"} /\ (k = 3 \/ p[k - 1] \in {Slash, "/"})})
          <= 2

(* Slashes are taken from the end until one must stay. *)
normalizeUserPath(v) ==
    LET p == [k \in DOMAIN trimText(v) |-> IF trimText(v)[k] = "/" THEN Slash ELSE trimText(v)[k]]
        Stays(q) == Len(q) <= 1 \/ Last(q) # Slash \/ isDriveRoot(q) \/ isUncShareRoot(q)
    IN  SubSeq(p, 1, Max({n \in 0..Len(p) : Stays(SubSeq(p, 1, n))}))

-----------------------------------------------------------------------------
(* A line of quoted arguments, and the start of the program that takes it apart. *)

(* The text so far, and the slashes after it that are not written yet. *)
Quoting == [st \in [out : Text, slashes : Nat] |-> [ch \in Symbols |->
    CASE ch = Slash -> [st EXCEPT !.slashes = @ + 1]
      [] ch = Mark -> [out |-> st.out \o Slashes(2 * st.slashes + 1) \o <<Mark>>, slashes |-> 0]
      [] OTHER -> [out |-> st.out \o Slashes(st.slashes) \o <<ch>>, slashes |-> 0]]]

(* Mutant: the slashes before the closing mark are not doubled. *)
quoteOpen(v) ==
    LET end == After(Quoting, [out |-> <<Mark>>, slashes |-> 0], v)
    IN  end.out \o Slashes(end.slashes) \o <<Mark>>

quote(v) ==
    LET end == After(Quoting, [out |-> <<Mark>>, slashes |-> 0], v)
    IN  end.out \o Slashes(2 * end.slashes) \o <<Mark>>

(* Spaces part arguments outside marks; of slashes before a mark every two make one, and
   one left over makes the mark a plain symbol.  (Two marks inside a quoted argument would
   make a third case, but "quote" never writes them.) *)
Cut == [args : Seq(Text), current : Text, slashes : Nat, open : BOOLEAN, quoted : BOOLEAN]

Plain(st) == st.current \o Slashes(st.slashes)
Closed(st) == IF st.open THEN Append(st.args, Plain(st)) ELSE st.args

Cutting == [st \in Cut |-> [ch \in Symbols |->
    CASE ch = Slash -> [st EXCEPT !.slashes = @ + 1, !.open = TRUE]
      [] ch = Mark ->
           LET half == st.current \o Slashes(st.slashes \div 2)
           IN  IF st.slashes % 2 = 1
               THEN [st EXCEPT !.current = Append(half, Mark), !.slashes = 0]
               ELSE [st EXCEPT !.current = half, !.slashes = 0, !.open = TRUE, !.quoted = ~@]
      [] ch = Space /\ ~st.quoted ->
           [args |-> Closed(st), current |-> <<>>, slashes |-> 0, open |-> FALSE,
            quoted |-> FALSE]
      [] OTHER -> [st EXCEPT !.current = Append(Plain(st), ch), !.slashes = 0, !.open = TRUE]]]

Between(args) ==
    [args |-> args, current |-> <<>>, slashes |-> 0, open |-> FALSE, quoted |-> FALSE]

Split(line) == Closed(After(Cutting, Between(<<>>), line))

-----------------------------------------------------------------------------
(* CommandLineParser.  argv[1] is the command, then come options and values in turn. *)

Options == {"--root", "--output", "--index", "--query", "--limit", "--only-name",
            "--case-sensitive", "--log", "--session", "--batch", "--mode", "--exclude-dir",
            "--exclude-file", "--include-ext", "--exclude-ext"}

(* The words of the lines that the window writes.  They have no capitals. *)
Words == Options \cup {"index", "search", "stop", "full", "1000", "true", "false", "main"}

ASSUME WordsAssumption ==
    /\ Words \subseteq Symbols \ DOMAIN Small
    /\ "1000" \in Numbers

Keys(argv) == {k \in 3..(Len(argv) - 1) : k % 2 = 1}

Given(argv, option) == {k \in Keys(argv) : Lower(argv[k]) = <<option>>}

(* The last one counts. *)
ValueOf(argv, option, default) ==
    IF Given(argv, option) = {} THEN default ELSE argv[Max(Given(argv, option)) + 1]

parseCommand(v) == IF Lower(v) \in {<<"index">>, <<"search">>, <<"pause">>, <<"resume">>,
                                    <<"stop">>, <<"status">>} THEN Lower(v) ELSE <<"unknown">>

parseBool(v) == Lower(v) \in {<<"1">>, <<"true">>, <<"yes">>, <<"on">>}

IsNumber(v) == v # <<>> /\ Head(v) \in Numbers

(* An empty item is dropped. *)
Kept(st) == IF st.current = <<>> THEN st.items ELSE Append(st.items, st.current)

Listing == [st \in [items : Seq(Text), current : Text] |-> [ch \in Symbols |->
    IF ch = Semicolon THEN [items |-> Kept(st), current |-> <<>>]
                ELSE [st EXCEPT !.current = Append(@, ch)]]]

splitSemicolonList(v) == Kept(After(Listing, [items |-> <<>>, current |-> <<>>], v))

(* argv[0] is the program.  An unknown command is taken here and refused by run(). *)
parse(argv) ==
    LET command == parseCommand(argv[2])
        output == ValueOf(argv, "--output", <<>>)
        List(option) == splitSemicolonList(ValueOf(argv, option, <<>>))
    IN  [command |-> command,
         mode |-> Lower(ValueOf(argv, "--mode", <<"full">>)),
         rootPath |-> ValueOf(argv, "--root", <<>>),
         outputIndexPath |-> IF command = <<"search">> THEN <<>> ELSE output,
         searchOutputPath |-> IF command = <<"search">> THEN output ELSE <<>>,
         logPath |-> ValueOf(argv, "--log", <<>>),
         inputIndexPath |-> ValueOf(argv, "--index", <<>>),
         query |-> ValueOf(argv, "--query", <<>>),
         onlyName |-> parseBool(ValueOf(argv, "--only-name", <<>>)),
         caseSensitive |-> parseBool(ValueOf(argv, "--case-sensitive", <<>>)),
         searchLimit |-> Head(ValueOf(argv, "--limit", <<"1000">>)),
         sessionName |-> ValueOf(argv, "--session", <<"main">>),
         commitBatchSize |-> Head(ValueOf(argv, "--batch", <<"5000">>)),
         excludeDirs |-> List("--exclude-dir"), excludeFiles |-> List("--exclude-file"),
         includeExt |-> List("--include-ext"), excludeExt |-> List("--exclude-ext")]

(* Every exception of the parser. *)
Refused(argv) ==
    \/ Len(argv) < 2
    \/ Len(argv) % 2 = 1
    \/ \E k \in Keys(argv) : Lower(argv[k]) \notin {<<option>> : option \in Options}
    \/ \E k \in Given(argv, "--limit") \cup Given(argv, "--batch") : ~IsNumber(argv[k + 1])
    \/ \E k \in Given(argv, "--mode") :
          Lower(argv[k + 1]) \notin {<<"full">>, <<"update">>, <<"resume">>}
    \/ /\ parseCommand(argv[2]) = <<"index">>
       /\ parse(argv).rootPath = <<>> \/ parse(argv).outputIndexPath = <<>>
    \/ /\ parseCommand(argv[2]) = <<"search">>
       /\ parse(argv).inputIndexPath = <<>> \/ parse(argv).searchOutputPath = <<>>
=============================================================================
