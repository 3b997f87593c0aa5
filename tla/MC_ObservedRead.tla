------------------------- MODULE MC_ObservedRead -------------------------
(***************************************************************************)
(* Small namespaces for ObservedRead.  The Rooted file system lives in /r. *)
(* Five families of worlds: bare resolutions over all link targets of a    *)
(* small set, one-shot reads of a file that is being written, readers and  *)
(* handles that are verified while names are relinked, undisturbed         *)
(* programs under limits, deadlines and component policies, and questions  *)
(* about names before and after a change of directory.                     *)
(***************************************************************************)
EXTENDS ObservedRead, TLC

MCObject == {"host", "root", "d1", "d2", "f1", "f2", "l1", "l2", "l3"}

P(parts) == Relative(parts)
Slashed(parts) == [abs |-> FALSE, parts |-> parts, slash |-> TRUE]

\* /r holds a (a directory with b and k), f, and the links l and m; k is a link.
Namespace(t1, t2, t3) ==
    ("host" :> Directory("r" :> "root")) @@
    ("root" :> Directory(("a" :> "d1") @@ ("f" :> "f1") @@ ("l" :> "l1") @@ ("m" :> "l2"))) @@
    ("d1" :> Directory(("b" :> "f2") @@ ("k" :> "l3"))) @@
    ("d2" :> Directory(("b" :> "f1") @@ ("k" :> "l3"))) @@
    ("f1" :> Regular(<<1, 1>>, 0)) @@ ("f2" :> Regular(<<2>>, 0)) @@
    ("l1" :> Symlink(t1)) @@ ("l2" :> Symlink(t2)) @@ ("l3" :> Symlink(t3))

\* A family of worlds over the Rooted file system /r, or the Host with /r as
\* its current directory.
Family(namespaces, where, links, calls) ==
    [spaces |-> namespaces, scopes |-> where, policies |-> links, programs |-> calls,
     root |-> "root", at |-> <<"r">>, limits |-> NoLimits, edits |-> {}, writes |-> {}]
Both == {"Host", "Rooted"}

-----------------------------------------------------------------------------
(* Bare resolutions.                                                       *)

Targets1 == {P(<<"a">>), Absolute(<<"a">>), P(<<"m">>), P(<<"l">>), P(<<"a", "..", "m">>), P(<<"x">>),
             Slashed(<<"f">>), P(<<"..">>), P(<<".", "a">>), Absolute(<<"r", "a">>)}
Targets2 == {P(<<"a">>), P(<<"l">>), P(<<"a", "k">>), Absolute(<<"f">>)}
Targets3 == {P(<<"..">>), P(<<"..", "m">>), P(<<"b">>)}

Paths == {<<"l">>, <<"l", "b">>, <<"l", "..", "l", "b">>, <<"a", "k", "b">>, <<"a", "k", "l">>,
          <<"m", "..", "f">>, <<"f", "b">>, <<"x", "b">>, <<"a", "..", "..">>, <<"m", "k">>, <<".", "l">>}

Resolving(namespaces, requests, os) ==
    Family(namespaces, {"Rooted"}, {"Reject"},
           {<<[Call("Resolve", request.path) EXCEPT !.rq = request, !.host = os]>> : request \in requests})

RootedRequests ==
    {Request("root", P(p), "FollowWithinScope", TRUE, q) : p \in Paths, q \in BOOLEAN}
        \union {Request("root", P(p), "FollowWithinScope", FALSE, TRUE) : p \in Paths}
        \union {Request("root", P(p), "Reject", TRUE, TRUE) : p \in Paths}
        \union {Request("root", Slashed(<<"m">>), "FollowWithinScope", TRUE, FALSE),
                Request("root", Slashed(<<"f">>), "FollowWithinScope", TRUE, FALSE),
                Request("root", P(<<"f">>), "FollowAcrossScope", TRUE, TRUE)}

Limit(hops, target, components, bytes) ==
    [hops |-> hops, target |-> target, components |-> components, bytes |-> bytes]
LimitedRequests ==
    {[Request("root", P(p), "FollowWithinScope", TRUE, q) EXCEPT !.limits = limit] :
        p \in {<<"l", "b">>, <<"l", "..", "l", "b">>, <<"a", "k", "l">>}, q \in BOOLEAN,
        limit \in {Limit(h, Unlimited, Unlimited, Unlimited) : h \in 0..3}
                    \union {Limit(Unlimited, t, Unlimited, Unlimited) : t \in {1, 2}}
                    \union {Limit(Unlimited, Unlimited, c, Unlimited) : c \in 2..4}
                    \union {Limit(Unlimited, Unlimited, Unlimited, b) : b \in {4, 6, 8}}}
    \union
    {[Request("root", P(p), "FollowWithinScope", TRUE, FALSE) EXCEPT !.budget = n, !.denied = d] :
        p \in {<<"l", "b">>, <<"a", "k", "l">>}, n \in {3, 5, Unlimited}, d \in {{}, {"a"}}}
    \union
    {[Request("root", P(<<"l", "b">>), "FollowWithinScope", TRUE, TRUE) EXCEPT !.veto = v, !.targets = t] :
        v \in {{}, {<<"a", "SymlinkTarget">>}, {<<"l", "Input">>}}, t \in {{}, {P(<<"a">>)}}}

HostRequests ==
    {Request("host", Absolute(<<"r">> \o p), links, final, FALSE) :
        p \in Paths, links \in {"Reject", "FollowAcrossScope"}, final \in BOOLEAN}

ResolveWorlds ==
    {Resolving({Namespace(t1, t2, t3) : t1 \in Targets1, t2 \in Targets2, t3 \in Targets3},
               RootedRequests, FALSE),
     Resolving({Namespace(t1, t2, P(<<"..">>)) : t1 \in Targets1, t2 \in Targets2},
               LimitedRequests, FALSE),
     Resolving({Namespace(t1, t2, P(<<"..">>)) : t1 \in Targets1, t2 \in Targets2},
               HostRequests, TRUE),
     Resolving({Namespace(P(<<"a">>), P(<<"a">>), P(<<"..">>))},
               {[Request("host", P(p), "FollowWithinScope", TRUE, FALSE) EXCEPT !.stay = TRUE] :
                   p \in {<<"..", "r", "l">>, <<"r", "..", "..", "r">>}}, FALSE)}

-----------------------------------------------------------------------------
(* Reads of a file that another process writes in place.                   *)

Ordinary == Namespace(P(<<"a">>), P(<<"f">>), P(<<"b">>))
InPlace  == {[file |-> "f1", data |-> d] : d \in {<<2, 2>>, <<1, 1, 1>>, <<>>}}

ReadCall(name, n) == [Call(name, P(<<"m">>)) EXCEPT !.max = n]
ReadWorlds ==
    {[Family({Ordinary}, Both, {"FollowWithinScope"},
             {<<ReadCall(name, n)>> : name \in {"ReadAll", "ReadPrefix", "Snapshot"}, n \in 0..3})
        EXCEPT !.writes = InPlace],
     [Family({Ordinary}, {"Rooted"}, {"FollowWithinScope"},
             {<<Call("OpenReader", P(<<"m">>)), ReadCall("ReadLimited", n), ReadCall("ReadLimited", 2)>> : n \in 0..2})
        EXCEPT !.writes = InPlace]}

-----------------------------------------------------------------------------
(* Bound readers, relinked names and verification.                         *)

Bound(name, path) == [Call(name, path) EXCEPT !.binding = TRUE]
Verify == Call("Verify", P(<<>>))

Without(dir, name) ==
    LET at == Ordinary[dir].at
    IN  [dir |-> dir, at |-> [n \in DOMAIN at \ {name} |-> at[n]]]

\* Another process replaces a by d2, puts f1 in the place of b, points the
\* link l at another directory, removes b, or removes the link.
Edits ==
    {[dir |-> "root", at |-> [Ordinary["root"].at EXCEPT !["a"] = "d2"]],
     [dir |-> "root", at |-> [Ordinary["root"].at EXCEPT !["l"] = "l3"]],
     Without("root", "l"),
     Without("d1", "b"),
     [dir |-> "d1", at |-> [Ordinary["d1"].at EXCEPT !["b"] = "f1"]]}

BoundPrograms ==
    {<<Bound("OpenReader", P(<<"l", "b">>)), Verify>>,
     <<Bound("OpenReader", P(<<"a", "b">>)), Verify>>,
     <<Bound("OpenDirectory", P(<<"l">>)), Bound("OpenFixed", P(<<"b">>)), Verify>>}

BindingWorlds ==
    {[Family({Ordinary}, Both, {"FollowWithinScope"}, BoundPrograms) EXCEPT !.edits = Edits]}

\* Undisturbed programs: limits, deadlines, component policies, child handles,
\* paths that climb, and readers without a binding.
Programs ==
    {<<[Bound("OpenReader", p) EXCEPT !.ancestors = n, !.budget = b], Verify>> :
        p \in {P(<<"l", "b">>), P(<<"a", "b">>), P(<<"f">>), P(<<"x">>), Absolute(<<"a", "b">>)},
        n \in {0, 1, 2, Unlimited}, b \in {8, 20, Unlimited}}
    \union
    {<<[Bound("OpenReader", P(<<"a", "..", "l", "b">>)) EXCEPT !.timed = TRUE],
       [Verify EXCEPT !.timed = TRUE]>>,
     <<[Bound("OpenReader", P(<<"l", "b">>)) EXCEPT !.limits = Limit(1, 9, 9, 99)], Verify>>,
     <<Call("OpenReader", Slashed(<<"f">>))>>, <<Call("OpenReader", P(<<"..", "..">>))>>,
     <<Call("OpenReader", P(<<"f">>)), Verify>>, <<Call("ReadAll", P(<<"a", "..", "..", "..", "f">>))>>}
    \union
    {<<[Bound("OpenDirectory", p) EXCEPT !.ancestors = n, !.denied = d], Bound("OpenFixed", q), Verify>> :
        p \in {P(<<"a">>), P(<<"l", "..", "a">>), P(<<"..", "a">>), P(<<"l", "k", "..">>), P(<<"f">>), P(<<>>)},
        n \in {0, Unlimited}, d \in {{}, {"b"}},
        q \in {P(<<"b">>), P(<<"k">>), P(<<"..", "b">>), P(<<"k", "..">>), Absolute(<<"b">>)}}
    \union
    {<<[Call("OpenDirectory", P(<<>>)) EXCEPT !.binding = one],
       [Call("OpenChild", p) EXCEPT !.binding = two, !.ancestors = n, !.budget = IF b = Unlimited THEN b ELSE 24],
       [Call("OpenFixed", P(<<"b">>)) EXCEPT !.binding = one, !.budget = b], Verify>> :
        one \in BOOLEAN, two \in BOOLEAN, n \in {0, 1}, b \in {4, Unlimited}, p \in {P(<<"l">>), P(<<"a">>), Absolute(<<"a">>)}}

QuietWorlds ==
    {Family({Ordinary}, Both, {"FollowWithinScope", "FollowAcrossScope", "Reject"}, Programs)}

\* Questions about names, and relative paths after a change of directory.
Questions == {<<Call(name, p)>> : name \in Queries,
                p \in {P(<<"l">>), P(<<"a", "k">>), P(<<"a">>), P(<<"f">>), P(<<"x", "b">>), P(<<"l", "..", "f">>),
                       P(<<"..", "..">>), P(<<>>), P(<<"m", ".">>), Slashed(<<"l">>), Slashed(<<"m">>), Absolute(<<"a">>)}}
Moved == {<<Call("SetCwd", p), [Call(name, q) EXCEPT !.binding = name = "OpenReader"], Verify>> :
            p \in {P(<<"a">>), P(<<"l">>), P(<<"f">>)}, name \in {"OpenReader", "ReadAll", "Metadata"},
            q \in {P(<<"b">>), P(<<"..", "f">>), P(<<"..", "l", "b">>)}}
QueryWorlds ==
    {[Family({Ordinary}, where, links, Questions \union Moved) EXCEPT !.edits = changes] :
        <<where, links>> \in {<<Both, {"FollowWithinScope", "Reject"}>>, <<{"Host"}, {"FollowAcrossScope"}>>},
        changes \in {{}, {Without("root", "l"), [dir |-> "root", at |-> [Ordinary["root"].at EXCEPT !["a"] = "d2"]]}}}

MCWorlds == ResolveWorlds \union ReadWorlds \union BindingWorlds \union QuietWorlds \union QueryWorlds

\* Rooted readers reached through a link whose target is absolute.
VirtualLinkWorlds ==
    {Family({Namespace(Absolute(<<"a">>), P(<<"f">>), P(<<"b">>))}, {"Rooted"}, {"FollowWithinScope"},
            {<<Bound("OpenReader", p), Verify>> : p \in {P(<<"l", "b">>), P(<<"a", "b">>)}})}
=============================================================================
