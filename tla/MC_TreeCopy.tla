---------------------------- MODULE MC_TreeCopy ----------------------------
(***************************************************************************)
(* Instances of TreeCopy: source trees of up to two levels with followed,  *)
(* dangling, escaping and looping links; destinations of every kind; the   *)
(* policies of the request in each scope.                                  *)
(***************************************************************************)
EXTENDS TreeCopy, TLC

N == {"a", "b"}
P == {<<>>, <<"a">>, <<"b">>, <<"a", "a">>, <<"b", "a">>}

\* A source tree: kinds of the five paths, the link's target, the file size.
Source(kinds, aim) ==
  [kind |-> kinds, target |-> [p \in P |-> aim], size |-> [p \in P |-> IF kinds[p] = "file" THEN 1 ELSE 0]]
Kinds(r, a, b, aa, ba) ==
  (<<>> :> r) @@ (<<"a">> :> a) @@ (<<"b">> :> b) @@ (<<"a", "a">> :> aa) @@ (<<"b", "a">> :> ba)
Old(r, a, b, aa, ba) ==
  LET kinds == Kinds(r, a, b, aa, ba)
  IN [p \in P |-> IF kinds[p] = "none" THEN Nothing ELSE [kind |-> kinds[p], by |-> "old", from |-> Root]]

AFile == Source(Kinds("file", "none", "none", "none", "none"), Dangling)
ALink == Source(Kinds("link", "none", "none", "none", "none"), Dangling)
Flat == Source(Kinds("dir", "file", "link", "none", "none"), Dangling)
Deep(aim) == Source(Kinds("dir", "dir", "link", "file", "none"), aim)

Plain == [scope |-> "host", conflict |-> "Fail", types |-> "Fail", atomicity |-> "Preferred",
          durability |-> "Preferred", preserve |-> FALSE, parents |-> FALSE, follow |-> FALSE,
          scoped |-> FALSE, mode |-> "Auto", related |-> FALSE, entries |-> 9, bytes |-> 9,
          depth |-> 9, open |-> 9]
Scopes == {"host", "rooted"}
Policies(base) ==
  {[base EXCEPT !.scope = s, !.conflict = c, !.types = t] :
     s \in Scopes, c \in {"Fail", "Overwrite", "Skip"}, t \in {"Fail", "Replace", "Skip"}}

Single == {Old("none", "none", "none", "none", "none"), Old("file", "none", "none", "none", "none"),
           Old("link", "none", "none", "none", "none"), Old("dir", "file", "none", "none", "none")}
Trees == {Old("none", "none", "none", "none", "none"), Old("file", "none", "none", "none", "none"),
          Old("dir", "file", "dir", "none", "file"), Old("dir", "dir", "link", "file", "none")}

Case(s, o, p, r) == [src |-> s, old |-> o, parent |-> p, req |-> r]

Entries ==
  {Case(s, o, TRUE, r) : s \in {AFile, ALink}, o \in Single,
     r \in Policies(Plain) \cup Policies([Plain EXCEPT !.durability = "Required"])
           \cup Policies([Plain EXCEPT !.atomicity = "Required"])}
Parentless ==
  {Case(s, Old("none", "none", "none", "none", "none"), FALSE, [Plain EXCEPT !.scope = c, !.parents = p]) :
     s \in {AFile, ALink, Flat}, c \in Scopes, p \in BOOLEAN}
Forests ==
  {Case(s, o, TRUE, r) : s \in {Flat, Deep(<<"a">>)}, o \in Trees, r \in Policies([Plain EXCEPT !.follow = TRUE])}
Limits ==
  {Case(Deep(<<"a">>), o, TRUE, [q EXCEPT !.scope = c, !.follow = TRUE, !.preserve = TRUE,
                                          !.conflict = "Overwrite", !.types = "Replace"]) :
     o \in {Old("none", "none", "none", "none", "none"), Old("dir", "file", "dir", "none", "file")},
     c \in Scopes,
     q \in {[Plain EXCEPT !.entries = n] : n \in {0, 1, 4, 5}} \cup {[Plain EXCEPT !.bytes = n] : n \in {1, 2}}
           \cup {[Plain EXCEPT !.depth = n] : n \in {0, 1, 2}} \cup {[Plain EXCEPT !.open = n] : n \in {0, 1, 2}}}
Aims ==
  {Case(Deep(aim), Old("dir", "none", "none", "none", "none"), TRUE, [Plain EXCEPT !.scope = c, !.follow = f, !.scoped = g]) :
     aim \in {Dangling, Outside, Root, <<"a", "a">>}, c \in Scopes, f \in BOOLEAN, g \in BOOLEAN}
Modes ==
  {Case(s, Old("none", "none", "none", "none", "none"), TRUE, [Plain EXCEPT !.mode = m, !.related = r]) :
     s \in {AFile, Flat}, m \in {"Entry", "Tree"}, r \in BOOLEAN}

All == Entries \cup Parentless \cup Forests \cup Limits \cup Aims \cup Modes
=============================================================================
