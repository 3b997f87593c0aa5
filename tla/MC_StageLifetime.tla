--------------------------- MODULE MC_StageLifetime ---------------------------
(* Two names, the created directory and a foreign one that holds a file.       *)
EXTENDS StageLifetime

CONSTANTS f1, f2, f3, f4, d1, d2

MCStagingPaths == {<<"t">>, <<"d", "t">>}
MCPaths == {<<"a">>, <<"d">>, <<"d", "b">>} \cup MCStagingPaths
MCForeign == [p \in MCPaths |-> IF p = <<"a">> THEN f3 ELSE None]

Opt(kind, os, attempts) == [kind |-> kind, os |-> os, attempts |-> attempts]
MCOptions ==
  {Opt("default", "unix", 2), Opt("private", "unix", 1), Opt("owner", "unix", 1),
   Opt("owner", "windows", 1), Opt("ownerBad", "unix", 1), Opt("private", "unix", 0)}

ASSUME \A o \in MCOptions : Options(o)

=============================================================================
