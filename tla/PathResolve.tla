---------------------------- MODULE PathResolve ----------------------------
(***************************************************************************)
(* How a path becomes the object it names.                                 *)
(*                                                                         *)
(* A Rooted file system resolves a path below a directory handle by hand:  *)
(* a queue of pending steps is consumed one step at a time, a symbolic     *)
(* link splices the steps of its target in front of the queue followed by  *)
(* an end marker, the links being expanded are remembered by identity, and *)
(* every component, target, hop and byte is charged against the resolution *)
(* contract.  A path that meets no link is walked on a fast path first.    *)
(* The Host file system asks the operating system about one component at a *)
(* time and canonicalizes at each link.  Both are loops of native calls,   *)
(* so the namespace may change between two steps; the module leaves those  *)
(* changes to the module that uses it.                                     *)
(*                                                                         *)
(* Data.  A path is [abs, parts, slash]: whether it starts at the root,    *)
(* its components ("." and ".." included) and whether it ends in a         *)
(* separator.  A name is one byte long.  Objects are inodes.               *)
(***************************************************************************)
EXTENDS Integers, Sequences, SequencesExt, FiniteSetsExt

CONSTANTS
    Object,      \* the inodes
    HostRoot     \* the root directory of the host

VARIABLES
    fs,          \* [Object -> what the inode is]
    late,        \* the deadline of the running call has passed
    res          \* the resolution in progress, or the last one

Unlimited == 1000           \* an absent limit: above every count of an instance
None      == "None"
Errors    == {"NotFound", "NotDirectory", "InvalidPath", "Unsupported", "InvalidOptions",
              "ResourceLimit", "TimedOut", "Rejected", "TypeConflict", "Loop", "Io"}

-----------------------------------------------------------------------------
(* Inodes and native lookups.  A directory maps names to inodes; no native *)
(* lookup below a handle follows a link (O_NOFOLLOW).                      *)

Directory(entries) == [kind |-> "dir", at |-> entries]
Symlink(target)    == [kind |-> "link", to |-> target]
Regular(content, time) == [kind |-> "file", data |-> content, stamp |-> time]
IsA(o, kind)       == o \in Object /\ fs[o].kind = kind

\* The entry `name` of the open directory `dir`: an inode, or why there is none.
Entry(dir, name) ==
    CASE dir \notin Object                -> dir
      [] ~IsA(dir, "dir")                 -> "NotDirectory"
      [] name \notin DOMAIN fs[dir].at    -> "NotFound"
      [] OTHER                            -> fs[dir].at[name]

\* root.symlink_metadata: every component but the last is opened as a directory.
Lstat(root, names) == FoldLeft(Entry, root, names)

\* Opening the directory that `names` leads to, component by component.
OpenDir(root, names) ==
    LET o == Lstat(root, names)
    IN  IF o \in Object /\ ~IsA(o, "dir") THEN "NotDirectory" ELSE o

-----------------------------------------------------------------------------
(* Paths, their steps and what they cost.                                  *)

Relative(components) == [abs |-> FALSE, parts |-> components, slash |-> FALSE]
Absolute(components) == [abs |-> TRUE, parts |-> components, slash |-> FALSE]
Dots == {".", ".."}

native_path_bytes(part) == IF part = ".." THEN 2 ELSE 1

\* Every component with a separator: native_path_bytes summed up.
SumBytes(parts) == 2 * Len(parts) + Len(SelectSeq(parts, LAMBDA p : p = ".."))

\* The bytes of the path as it is written: what a link target's length is.
WrittenBytes(path) ==
    SumBytes(path.parts) - (IF path.parts = <<>> THEN 0 ELSE 1)
        + (IF path.abs THEN 1 ELSE 0) + (IF path.slash THEN 1 ELSE 0)

\* measure_path: components, and one separator with each component.
measure_path(path) == [components |-> Len(path.parts), bytes |-> SumBytes(path.parts)]

\* ResolutionStep.  ResetRoot, Current, Parent, RequireDirectory, Normal, EndSymlink.
Step(op, component, from, id) ==
    [op |-> op, name |-> component, origin |-> from, identity |-> id]
Marker(op) == Step(op, None, None, <<>>)

token(part, origin) ==
    CASE part = "."  -> Marker("Current")
      [] part = ".." -> Marker("Parent")
      [] OTHER       -> Step("Normal", part, origin, <<>>)

steps_from_path(path, origin) ==
    (IF path.abs THEN <<Marker("ResetRoot")>> ELSE <<>>)
        \o [i \in DOMAIN path.parts |-> token(path.parts[i], origin)]
        \o (IF path.slash THEN <<Marker("RequireDirectory")>> ELSE <<>>)

step_bytes(step) ==
    CASE step.op = "Current" -> 2
      [] step.op = "Parent"  -> 3
      [] step.op = "Normal"  -> native_path_bytes(step.name) + 1
      [] OTHER               -> 0

pending_measure(steps) ==
    [components |-> Len(SelectSeq(steps, LAMBDA s : s.op \in {"Current", "Parent", "Normal"})),
     bytes      |-> FoldLeft(LAMBDA n, s : n + step_bytes(s), 0, steps)]

\* The steps that are not end markers: what still has to be done.
pending_actions(steps) == Len(SelectSeq(steps, LAMBDA s : s.op # "EndSymlink"))

-----------------------------------------------------------------------------
(* A request and the resolution contract it runs under.                    *)

NoLimits == [hops |-> Unlimited, target |-> Unlimited, components |-> Unlimited, bytes |-> Unlimited]

\* root, path; policy: the symbolic-link policy; follow: whether a final link
\* is followed; fast: whether the link-free walk is tried first; denied: the
\* names the component policy refuses; veto: the <<name, origin>> pairs and
\* targets: the link targets the contract refuses; budget: the bytes a path
\* binding may still spend; limits; stay: ".." at the root stays there.
Request(top, p, links, final, quick) ==
    [root |-> top, path |-> p, policy |-> links, follow |-> final, fast |-> quick,
     denied |-> {}, veto |-> {}, targets |-> {}, budget |-> Unlimited, limits |-> NoLimits, stay |-> FALSE]

\* LocalResolutionLimits::tightened: the smaller of two limits, one by one.
tightened(a, b) ==
    [l \in DOMAIN a |-> IF a[l] < b[l] THEN a[l] ELSE b[l]]

\* check_pending and check_resolved compare with the same two limits.
check_measure(limits, m) == m.components <= limits.components /\ m.bytes <= limits.bytes

Running(request, place) ==
    [rq |-> request, state |-> place, pending |-> <<>>, resolved |-> <<>>, cursor |-> None,
     active |-> {}, hops |-> 0, left |-> request.budget, path |-> <<>>, err |-> None,
     host |-> FALSE,      \* history: the system resolves the path
     calm |-> TRUE]       \* history: the namespace has not changed since the start
Succeed(r, names) == [r EXCEPT !.state = "done", !.path = names,
                               !.pending = <<>>, !.cursor = None, !.active = {}]
Fail(r, why)      == [r EXCEPT !.state = "done", !.err = why,
                               !.pending = <<>>, !.cursor = None, !.active = {}]
Done == res.state = "done"
NoResolution == Succeed(Running(Request(HostRoot, Relative(<<>>), "Reject", TRUE, FALSE), "done"), <<>>)

-----------------------------------------------------------------------------
(* The kernel's own walk, recursive where the code keeps a queue.  It also *)
(* measures what the walk uses.  `os` is the walk of a system call, where  *)
(* every component must exist; otherwise a missing name is passed over, as *)
(* a path that is about to be created needs.  `after` measures what        *)
(* follows the parts at hand, `depth` counts the links being expanded.     *)

Links == {o \in Object : IsA(o, "link")}
PartsOf(path) == IF path.slash THEN Append(path.parts, "/") ELSE path.parts
Cost(parts)   == SumBytes(SelectSeq(parts, LAMBDA p : p # "/"))
Count(parts)  == Len(SelectSeq(parts, LAMBDA p : p # "/"))
Remaining(parts, after) ==
    [actions |-> Len(parts) + after.actions, components |-> Count(parts) + after.components,
     bytes |-> Cost(parts) + after.bytes]
NothingAfter == [actions |-> 0, components |-> 0, bytes |-> 0]
Most(a, b) == IF a < b THEN b ELSE a

StartWalk(rq) ==
    [path |-> <<>>, obj |-> rq.root, err |-> None, hops |-> 0, target |-> 0, names |-> 0,
     components |-> Count(rq.path.parts), bytes |-> Cost(rq.path.parts)]

Walks == [path : Seq(STRING), obj : Object \union Errors, err : Errors \union {None},
          hops : Nat, target : Nat, names : Nat, components : Nat, bytes : Nat]
Measures == [actions : Nat, components : Nat, bytes : Nat]

Namei(rq, os) ==
    LET walk[k \in [w : Walks, parts : Seq(STRING), after : Measures, depth : Nat]] ==
        LET w     == k.w
            part  == Head(k.parts)
            rest  == Remaining(Tail(k.parts), k.after)
            final == Len(k.parts) = 1 /\ k.after.actions = 0
            o     == Entry(w.obj, part)
            top   == [w EXCEPT !.path = Append(@, part), !.obj = o,
                               !.components = Most(@, Len(w.path) + 1),
                               !.bytes = Most(@, SumBytes(w.path) + 2), !.names = @ + 2]
            link  == fs[o].to
            read  == [top EXCEPT !.hops = @ + 1, !.target = Most(@, WrittenBytes(link))]
            inner == Remaining(PartsOf(link), rest)
            in    == [read EXCEPT !.path = IF link.abs THEN <<>> ELSE w.path,
                                  !.obj = IF link.abs THEN rq.root ELSE w.obj,
                                  !.components = Most(@, inner.components),
                                  !.bytes = Most(@, inner.bytes)]
            next  ==
                CASE part \in {"/", ".", ".."} /\ w.path # <<>> /\ ~IsA(w.obj, "dir") ->
                        [w EXCEPT !.err = IF w.obj \in Errors THEN w.obj ELSE "NotDirectory"]
                  [] part \in {"/", "."} -> w
                  [] part = ".." /\ w.path # <<>> ->
                        [w EXCEPT !.path = Front(@), !.obj = Lstat(rq.root, Front(w.path))]
                  [] part = ".." -> [w EXCEPT !.err = IF rq.stay THEN None ELSE "InvalidPath"]
                  [] part \in rq.denied
                        \/ <<part, IF k.depth = 1 THEN "Input" ELSE "SymlinkTarget">> \in rq.veto ->
                        [w EXCEPT !.err = "Rejected", !.names = @ + 2]
                  [] ~os /\ (o = "NotFound" \/ (final /\ ~rq.follow)) -> top
                  [] o \in Errors -> [top EXCEPT !.err = o]
                  [] ~IsA(o, "link") \/ (final /\ ~rq.follow) -> top
                  [] rq.policy = "Reject" /\ ~os -> [top EXCEPT !.err = "Unsupported"]
                  [] k.depth > Cardinality(Links) -> [top EXCEPT !.err = "Loop"]
                  [] link \in rq.targets -> [read EXCEPT !.err = "Rejected"]
                  [] OTHER -> walk[[w |-> in, parts |-> PartsOf(link), after |-> rest, depth |-> k.depth + 1]]
        IN  IF k.parts = <<>> \/ w.err # None THEN w
            ELSE walk[[k EXCEPT !.w = next, !.parts = Tail(@)]]
    IN  walk[[w |-> StartWalk(rq), parts |-> PartsOf(rq.path), after |-> NothingAfter, depth |-> 1]]

Walk(rq) == Namei(rq, FALSE)

\* A system call on an absolute host path.
SystemWalk(parts, follow) ==
    Namei([Request(HostRoot, Absolute(parts), "FollowWithinScope", follow, FALSE) EXCEPT !.stay = TRUE], TRUE)
\* The inode a system call on the path reaches, or its error.
SystemLookup(parts, follow) ==
    LET w == SystemWalk(parts, follow)
    IN  IF w.err # None THEN w.err ELSE w.obj

-----------------------------------------------------------------------------
(* Starting a resolution.                                                  *)

\* has_only_normal_components: the root counts as normal, and Path::components
\* drops "." except at the start of a relative path.
has_only_normal_components(path) ==
    /\ ".." \notin Range(path.parts)
    /\ ~path.abs /\ path.parts # <<>> => path.parts[1] # "."

\* resolve_rooted_symlinks up to its loop: the path becomes the pending queue.
BeginSlow(rq) ==
    LET r == Running(rq, "slow")
    IN  CASE rq.policy = "FollowAcrossScope" -> Fail(r, "InvalidOptions")
          [] ~check_measure(rq.limits, measure_path(rq.path)) -> Fail(r, "ResourceLimit")
          [] OTHER -> [r EXCEPT !.pending = steps_from_path(rq.path, "Input")]

\* rooted_path, which takes relative paths only, and try_resolve_without_symlinks
\* up to its loop.
BeginFast(rq) ==
    LET r == Running(rq, "fast")
    IN  IF rq.path.abs THEN Fail(r, "InvalidPath")
        ELSE IF check_measure(rq.limits, measure_path(rq.path))
        THEN [r EXCEPT !.cursor = rq.root]
        ELSE Fail(r, "ResourceLimit")

\* resolve_rooted_path_allow_root_with_scope_and_deadline (fast) and the
\* component-policy entries (not fast).
Begin(rq) ==
    CASE late                                 -> Fail(Running(rq, "slow"), "TimedOut")
      [] rq.policy = "FollowAcrossScope"      -> Fail(Running(rq, "slow"), "InvalidOptions")
      [] rq.fast /\ rq.path = Relative(<<>>)  -> Succeed(Running(rq, "fast"), <<>>)
      [] rq.fast /\ has_only_normal_components(rq.path) -> BeginFast(rq)
      [] OTHER                                -> BeginSlow(rq)

\* resolve_host_path: an absolute path, one component at a time.  Here
\* `resolved` may hold "..", which the operating system interprets.
BeginHost(rq) ==
    [Running(rq, "host") EXCEPT !.host = TRUE,
        !.pending = SelectSeq(steps_from_path(rq.path, "Input"),
                              LAMBDA s : s.op \in {"Normal", "Parent"})]

-----------------------------------------------------------------------------
(* The loops, one action per arm.  Each iteration looks at the deadline    *)
(* first.                                                                  *)

Iterate(next) == res' = IF late THEN Fail(res, "TimedOut") ELSE next

\* One component of the link-free walk.  A link, a hole or a non-directory in
\* the middle sends the whole path to the slow walk.
fast_component(r) ==
    LET name  == r.rq.path.parts[Len(r.resolved) + 1]
        names == Append(r.resolved, name)
        final == Len(names) = Len(r.rq.path.parts)
        o     == Entry(r.cursor, name)
    IN  CASE <<name, "Input">> \in r.rq.veto                 -> Fail(r, "Rejected")
          [] ~check_measure(r.rq.limits, measure_path(Relative(names))) -> Fail(r, "ResourceLimit")
          [] final /\ ~r.rq.follow                           -> Succeed(r, r.rq.path.parts)
          [] o = "NotFound" \/ IsA(o, "link")                -> BeginSlow(r.rq)
          [] o \in Errors                                    -> Fail(r, o)
          [] ~final /\ ~IsA(o, "dir")                        -> BeginSlow(r.rq)
          [] final                                           -> Succeed(r, r.rq.path.parts)
          [] OTHER -> [r EXCEPT !.resolved = names, !.cursor = o]

FastComponent == res.state = "fast" /\ Iterate(fast_component(res))

\* The head of the queue, when the slow walk is at its loop.
Arm(ops) == res.state = "slow" /\ res.pending # <<>> /\ Head(res.pending).op \in ops
Popped   == [res EXCEPT !.pending = Tail(@)]

ResetRoot == Arm({"ResetRoot"}) /\ Iterate([Popped EXCEPT !.resolved = <<>>, !.cursor = None])

\* ensure_resolved_prefix_is_directory: why the prefix is not one, or None.
prefix_error(r) ==
    LET o == Lstat(r.rq.root, r.resolved)
    IN  CASE r.resolved = <<>> -> None
          [] o \in Errors      -> o
          [] IsA(o, "dir")     -> None
          [] OTHER             -> "NotDirectory"

RequireDirectory ==
    /\ Arm({"Current", "RequireDirectory"})
    /\ Iterate(IF prefix_error(res) = None THEN Popped ELSE Fail(res, prefix_error(res)))

\* ".." pops a component that is a directory; at the root it is refused, or
\* stays there for a host path.
parent_step(r, rest) ==
    CASE prefix_error(r) # None            -> Fail(r, prefix_error(r))
      [] r.resolved = <<>> /\ r.rq.stay    -> [r EXCEPT !.pending = rest, !.cursor = None]
      [] r.resolved = <<>>                 -> Fail(r, "InvalidPath")
      [] OTHER -> [r EXCEPT !.pending = rest, !.resolved = Front(@), !.cursor = None]

ParentStep == Arm({"Parent"}) /\ Iterate(parent_step(res, Tail(res.pending)))

\* Mutant: a finished link stays among the links being expanded.
EndSymlinkForgetful == Arm({"EndSymlink"}) /\ Iterate(Popped)

EndSymlink ==
    /\ Arm({"EndSymlink"})
    /\ Iterate([Popped EXCEPT !.active = @ \ {Head(res.pending).identity}])

\* The Normal arm up to the reading of a link: charge the name, find the
\* inode through the cursor (or from the root when the prefix cannot be
\* opened), and move on, or enter the link.
normal_step(r, step, rest) ==
    LET names == Append(r.resolved, step.name)
        cost  == native_path_bytes(step.name) + 1
        final == pending_actions(rest) = 0
        open  == IF r.cursor = None THEN OpenDir(r.rq.root, r.resolved) ELSE r.cursor
        o     == IF open \in Object THEN Entry(open, step.name) ELSE Lstat(r.rq.root, names)
        next  == [r EXCEPT !.pending = rest, !.left = @ - cost, !.resolved = names, !.cursor = None]
        id    == <<o, names>>
    IN  CASE r.left < cost                             -> Fail(r, "ResourceLimit")
          [] step.name \in r.rq.denied                 -> Fail(r, "Rejected")
          [] <<step.name, step.origin>> \in r.rq.veto  -> Fail(r, "Rejected")
          [] ~check_measure(r.rq.limits, measure_path(Relative(names))) -> Fail(r, "ResourceLimit")
          [] final /\ ~r.rq.follow                     -> next
          [] o = "NotFound"                            -> next
          [] o \in Errors                              -> Fail(r, o)
          [] IsA(o, "dir") /\ ~final /\ open \in Object -> [next EXCEPT !.cursor = o]
          [] ~IsA(o, "link")                           -> next
          [] r.rq.policy = "Reject"                    -> Fail(r, "Unsupported")
          [] id \in r.active                           -> Fail(r, "InvalidPath")
          [] r.hops + 1 > r.rq.limits.hops             -> Fail(r, "ResourceLimit")
          [] OTHER -> [next EXCEPT !.resolved = r.resolved, !.state = "link",
                                   !.active = @ \union {id}, !.hops = @ + 1,
                                   !.pending = <<Step("EndSymlink", None, None, id)>> \o rest]

NormalStep == Arm({"Normal"}) /\ Iterate(normal_step(res, Head(res.pending), Tail(res.pending)))

\* read_link_limited and the splicing of the target in front of the queue.
\* The link may have been replaced since its metadata was read.
splice_link(r) ==
    LET o      == Lstat(r.rq.root, Head(r.pending).identity[2])
        target == fs[o].to
        queue  == steps_from_path(target, "SymlinkTarget") \o r.pending
    IN  CASE o \in Errors                                   -> Fail(r, o)
          [] ~IsA(o, "link")                                -> Fail(r, "Io")
          [] WrittenBytes(target) > r.rq.limits.target      -> Fail(r, "ResourceLimit")
          [] target \in r.rq.targets                        -> Fail(r, "Rejected")
          [] ~check_measure(r.rq.limits, measure_path(target))   -> Fail(r, "ResourceLimit")
          [] ~check_measure(r.rq.limits, pending_measure(queue)) -> Fail(r, "ResourceLimit")
          [] OTHER -> [r EXCEPT !.state = "slow", !.pending = queue]

ReadLink == res.state = "link" /\ Iterate(splice_link(res))

Finish ==
    /\ res.state = "slow" /\ res.pending = <<>>
    /\ res' = Succeed(res, res.resolved)

\* A native call of the loop fails for a reason that is not modelled.
NativeFailure ==
    /\ \/ res.state \in {"fast", "link"}
       \/ Arm({"Normal", "Parent", "Current", "RequireDirectory"})
    /\ res' = Fail(res, "Io")

\* One component of resolve_host_path.  fs::symlink_metadata and
\* fs::canonicalize are the system's walk over what has been gathered.
host_component(r, step, rest) ==
    LET names == Append(r.resolved, IF step.op = "Parent" THEN ".." ELSE step.name)
        o     == SystemLookup(names, FALSE)
        real  == SystemWalk(names, TRUE)
        next  == [r EXCEPT !.pending = rest, !.resolved = names]
    IN  CASE step.op = "Parent" \/ o = "NotFound"        -> next
          [] o \in Errors                                -> Fail(r, o)
          [] ~IsA(o, "link")                             -> next
          [] rest = <<>> /\ ~r.rq.follow                 -> next
          [] r.rq.policy = "Reject"                      -> Fail(r, "Unsupported")
          [] real.err # None                             -> Fail(r, real.err)
          [] OTHER -> [next EXCEPT !.resolved = real.path]

HostComponent ==
    /\ res.state = "host" /\ res.pending # <<>>
    /\ res' = host_component(res, Head(res.pending), Tail(res.pending))

FinishHost ==
    /\ res.state = "host" /\ res.pending = <<>>
    /\ res' = Succeed(res, res.resolved)

ResolveStep ==
    \/ FastComponent \/ ResetRoot \/ RequireDirectory \/ ParentStep \/ EndSymlink
    \/ NormalStep \/ ReadLink \/ Finish \/ HostComponent \/ FinishHost

-----------------------------------------------------------------------------
(* What a resolution owes when nothing changes while it runs.              *)

Exceeds(w, rq) ==
    \/ w.hops > rq.limits.hops \/ w.target > rq.limits.target
    \/ w.components > rq.limits.components \/ w.bytes > rq.limits.bytes
    \/ w.names > rq.budget

RootedExact ==
    LET w == Walk(res.rq)
    IN  CASE res.rq.policy = "FollowAcrossScope" -> res.err = "InvalidOptions"
          [] w.err = "Loop" ->
                res.err = "InvalidPath" \/ (res.err = "ResourceLimit" /\ Exceeds(w, res.rq))
          [] Exceeds(w, res.rq) -> res.err = "ResourceLimit"
          [] OTHER -> res.err = w.err /\ (w.err = None => res.path = w.path)

HostExact ==
    LET parts == SelectSeq(res.rq.path.parts, LAMBDA p : p # ".")
        w     == SystemWalk(parts, res.rq.follow)
    IN  CASE res.err = None ->
                /\ SystemLookup(res.path, FALSE) = SystemLookup(parts, res.rq.follow)
                /\ res.rq.policy = "Reject" => w.hops = 0
          [] res.err = "Unsupported" -> res.rq.policy = "Reject" /\ w.hops > 0
          [] OTHER -> res.err = w.err

\* A resolution that nothing disturbs gives the path that the kernel's own
\* recursive walk arrives at, or the same error: below a root it never climbs
\* over it, a name that does not exist is passed over, a link that leads to
\* itself is refused and one that is merely met twice is not, the link-free
\* walk and the queue agree, and a limit of the contract is exceeded exactly
\* when the walk needs more (support.rs resolve_rooted_symlinks and
\* try_resolve_without_symlinks, path_resolution.rs resolve_host_path).
ResolutionExact ==
    (Done /\ res.calm /\ res.err \notin {"Io", "TimedOut"}) =>
        IF res.host THEN HostExact ELSE RootedExact
=============================================================================
