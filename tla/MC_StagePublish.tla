--------------------------- MODULE MC_StagePublish ---------------------------
(* Trees of two files in a directory beside a file; options in the pairs that *)
(* the code treats differently.                                               *)
EXTENDS StagePublish

CONSTANTS f1, f2, f3, d1, d2, l1

MCPaths == <<<<"a">>, <<"d">>, <<"d", "b">>>>
Tree(a, d, b) == [p \in Paths |-> IF p = <<"a">> THEN a ELSE IF p = <<"d">> THEN d ELSE b]

MCInitTrees == {Tree(f1, d1, f2), Tree(f1, d1, f1), Tree(None, d1, l1), Tree(None, None, None)}

Exact == [exact |-> {<<<<"a">>, "file">>, <<<<"d">>, "dir">>, <<<<"d", "b">>, "file">>},
          noLinks |-> TRUE, noOutside |-> TRUE, private |-> TRUE]
Twice == [Exact EXCEPT !.exact = @ \cup {<<<<"a">>, "dir">>}]
Loose == [exact |-> None, noLinks |-> FALSE, noOutside |-> TRUE, private |-> FALSE]

Opt(acc, owner, sync, durability, validation, os, max, name) ==
  [access |-> acc, owner |-> owner, sync |-> sync, durability |-> durability,
   validation |-> validation, os |-> os, max |-> max, name |-> name]

MCOptionSets ==
  {Opt("Preserve", None, "Required", "Required", Exact, "linux", 9, "good"),
   Opt("Preserve", None, "NotRequired", "Required", None, "linux", 9, "good"),
   Opt("Preserve", "owner", "Required", "Required", None, "linux", 9, "good"),
   Opt("Preserve", "owner", "Preferred", "Preferred", Loose, "linux", 2, "good"),
   Opt("Preserve", "ownerShut", "NotRequired", "NotRequired", None, "linux", 9, "good"),
   Opt("CurrentUserOnly", None, "Required", "Preferred", None, "linux", 9, "good"),
   Opt("CurrentUserOnly", None, "Preferred", "NotRequired", None, "windows", 9, "good"),
   Opt("ReadOnlyCurrentUser", None, "Preferred", "Required", None, "apple", 9, "good"),
   Opt("CurrentUserOnly", "owner", "Required", "Required", None, "linux", 9, "good"),
   Opt("Preserve", "ownerBad", "Required", "Required", None, "linux", 9, "good"),
   Opt("Preserve", None, "Required", "Required", None, "linux", 9, "bad"),
   Opt("Preserve", None, "Required", "Required", Twice, "linux", 9, "good")}

=============================================================================
