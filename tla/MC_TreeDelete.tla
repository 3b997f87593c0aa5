--------------------------- MODULE MC_TreeDelete ---------------------------
EXTENDS TreeDelete, TLC

CONSTANTS a, b

MCNames  == {a, b}
MCLength == [p \in Paths |-> Len(p) + 1]

Unlimited == [op |-> "directory", recursive |-> TRUE, missingOk |-> FALSE, deadline |-> FALSE,
              maxEntries |-> UsizeMax, maxDepth |-> UsizeMax, maxBytes |-> UsizeMax]

\* Every call without a limit.
MCCalls ==
    {[Unlimited EXCEPT !.op = o, !.recursive = r, !.missingOk = m, !.deadline = d] :
       o \in {"file", "directory"}, r \in BOOLEAN, m \in BOOLEAN, d \in BOOLEAN}

\* The recursive deletion at each limit: one that admits nothing, and some that admit some trees.
MCLimits ==
    {[Unlimited EXCEPT !.maxEntries = n] : n \in {0, 1, 3}}
      \cup {[Unlimited EXCEPT !.maxDepth = n] : n \in {0, 1}}
      \cup {[Unlimited EXCEPT !.maxBytes = n] : n \in {0, 2, 5}}

MCOptions == MCCalls \cup MCLimits
=============================================================================
