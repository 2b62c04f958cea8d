----------------------------- MODULE NameRules ------------------------------
(* The rules of fs/DirectoryScanner that leave entries out by their names. *)
EXTENDS Texts, Naturals, SequencesExt

(* towlower leaves the signs of the rules alone, and makes none. *)
ASSUME RuleSignsAssumption ==
    \A capital \in DOMAIN Small : {capital, Small[capital]} \cap {"*", "."} = {}

(* "*.x" for a suffix, "x*" for a prefix, and otherwise the very name: "*" alone and "*.*"
   are names. *)
simpleMatch(pattern, name) ==
    LET p == Lower(pattern)
        n == Lower(name)
    IN  \/ p = n
        \/ Len(p) > 2 /\ SubSeq(p, 1, 2) = <<"*", ".">> /\ IsSuffix(Tail(p), n)
        \/ /\ Len(p) > 1 /\ SubSeq(p, 1, 2) # <<"*", ".">>
           /\ Last(p) = "*" /\ IsPrefix(Front(p), n)

isNameExcluded(config, name, isDirectory) ==
    \E pattern \in Range(IF isDirectory THEN config.excludeDirs ELSE config.excludeFiles) :
        simpleMatch(pattern, name)

(* path::extension: from the last dot on, which is not the first symbol. *)
extension(name) ==
    LET dots == {k \in 2..Len(name) : name[k] = "."}
    IN  IF dots = {} THEN <<>> ELSE SubSeq(name, Max(dots), Len(name))

isExtensionAllowed(config, ext) ==
    /\ \/ config.includeExt = <<>>
       \/ \E allowed \in Range(config.includeExt) : Lower(allowed) = Lower(ext)
    /\ \A denied \in Range(config.excludeExt) : Lower(denied) # Lower(ext)
=============================================================================
