------------------------- MODULE MC_DirectoryWalker -------------------------
EXTENDS DirectoryWalker, TLC

CONSTANTS r, d, e, a, b

MCDirs      == {r, d, e}
MCNames     == {a, b}
MCNameBytes == [n \in {a, b} |-> IF n = a THEN 1 ELSE 2]

\* The trees in which d is in r, e is in r or in d, and a directory that is nowhere is empty.
Holders(t, x) == {h \in MCDirs \X MCNames : t[h[1]][h[2]] = DirOf(x)}
TreesOf(inRoot, inD, inE) ==
    {t \in [MCDirs -> [MCNames -> {NoEntry, File} \cup inRoot \cup inD \cup inE]] :
       /\ \A n \in MCNames : /\ t[r][n] \in {NoEntry, File} \cup inRoot
                             /\ t[d][n] \in {NoEntry} \cup inD
                             /\ t[e][n] \in {NoEntry} \cup inE
       /\ \A x \in {d, e} : Cardinality(Holders(t, x)) <= 1
       /\ \A x \in {d, e} : Holders(t, x) = {} => \A n \in MCNames : t[x][n] = NoEntry
       /\ Holders(t, e) # {} => Holders(t, d) # {}}

\* Every tree with links up, across and to nothing; a few in which the races are played.
MCAllTrees ==
    TreesOf({DirOf(d), DirOf(e), LinkTo(<<a, a>>)}, {File, DirOf(e), LinkTo(<<>>)}, {File, LinkTo(<<a>>)})

MCTree(x, y, z) == (r :> x) @@ (d :> y) @@ (e :> z)
MCPair(x, y)    == (a :> x) @@ (b :> y)
MCRaceTrees ==
    {MCTree(MCPair(DirOf(d), File), MCPair(DirOf(e), NoEntry), MCPair(File, NoEntry)),
     MCTree(MCPair(DirOf(d), NoEntry), MCPair(File, NoEntry), MCPair(NoEntry, NoEntry)),
     MCTree(MCPair(DirOf(d), DirOf(e)), MCPair(LinkTo(<<b>>), NoEntry), MCPair(LinkTo(<<a>>), NoEntry))}

Unlimited == [scope |-> "Host", recursive |-> TRUE, follow |-> TRUE, failFast |-> FALSE, reopen |-> FALSE,
              deadline |-> FALSE, maxDepth |-> UsizeMax, maxEntries |-> UsizeMax, maxBytes |-> UsizeMax,
              maxOpen |-> UsizeMax]

\* Few readers or many, with and without links, and a walk at each limit.
MCPolicies ==
    {[Unlimited EXCEPT !.follow = f, !.reopen = o[1], !.maxOpen = o[2]] :
       f \in BOOLEAN, o \in {<<TRUE, 1>>, <<FALSE, 1>>, <<FALSE, UsizeMax>>}}
      \cup {[Unlimited EXCEPT !.failFast = TRUE, !.reopen = TRUE, !.maxOpen = 1],
            [Unlimited EXCEPT !.deadline = TRUE, !.reopen = TRUE, !.maxOpen = 1],
            [Unlimited EXCEPT !.maxEntries = 2], [Unlimited EXCEPT !.maxDepth = 1],
            [Unlimited EXCEPT !.maxBytes = 3, !.reopen = TRUE, !.maxOpen = 1]}

\* Depths, and the ways to have too few readers.
MCShapes ==
    {[Unlimited EXCEPT !.follow = f, !.maxDepth = s[1], !.reopen = TRUE, !.maxOpen = s[2]] :
       f \in BOOLEAN, s \in {<<2, 1>>, <<UsizeMax, 1>>, <<UsizeMax, 2>>}}
      \cup {[Unlimited EXCEPT !.recursive = FALSE], [Unlimited EXCEPT !.maxDepth = 0],
            [Unlimited EXCEPT !.maxOpen = 0]}

WalksOf(trees, options, left) ==
    {[tree |-> t, opts |-> [o EXCEPT !.scope = s], alone |-> left] :
       t \in trees, o \in options, s \in {"Host", "Rooted"}}
MCWalks == WalksOf(MCAllTrees, MCShapes, TRUE) \cup WalksOf(MCRaceTrees, MCPolicies, FALSE)
=============================================================================
