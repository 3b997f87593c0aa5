---------------------------- MODULE ObservedRead ----------------------------
(***************************************************************************)
(* Reading a file by name while other processes change the namespace and   *)
(* the file: one-shot reads with a byte limit, snapshots bracketed by two  *)
(* observations, directory handles, and observed readers that can be asked *)
(* later whether their name still leads to them.                           *)
(*                                                                         *)
(* A call binds the path, resolves it (PathResolve, one native step at a   *)
(* time), opens and observes the file, and reads it block by block.  A     *)
(* bound reader also keeps an anchor for every directory on its way: an    *)
(* open handle, and the recipe (a host path) to find that directory again. *)
(* One client makes the calls of its program one after the other; between  *)
(* any two steps another process may relink a name or write a file.        *)
(***************************************************************************)
EXTENDS PathResolve

CONSTANTS
    Worlds,      \* families of initial states: namespaces, file systems over them and programs
    BLOCK_SIZE,  \* bytes requested by one read (8192 in the code)
    MaxMoves     \* bound: changes made by other processes

VARIABLES
    cwd,         \* the current directory: of the process (Host) or virtual (Rooted)
    world,       \* the file system in use, and what other processes may do to it
    todo,        \* the calls the client has still to make
    pc,          \* the place of the running call, or "idle"
    job,         \* the running call and its locals
    handle,      \* the directory handle the client holds
    reader,      \* the observed reader the client holds
    moves,       \* changes other processes may still make
    clock,       \* the next file timestamp
    report       \* what the last call returned, until the namespace changes again

vars == <<fs, late, res, cwd, world, todo, pc, job, handle, reader, moves, clock, report>>

-----------------------------------------------------------------------------
(* Calls.  `binding` asks for a path binding with at most `ancestors`      *)
(* directories and `budget` bytes of names; `max` limits the bytes read;   *)
(* `timed` calls have a deadline.  `rq` and `host` are a bare resolution.  *)

NoRequest == Request(HostRoot, Relative(<<>>), "Reject", TRUE, FALSE)
Call(name, p) ==
    [op |-> name, path |-> p, binding |-> FALSE, ancestors |-> Unlimited, budget |-> Unlimited,
     max |-> Unlimited, timed |-> FALSE, denied |-> {}, limits |-> NoLimits,
     rq |-> NoRequest, host |-> FALSE]

NoSight == [len |-> 0, stamp |-> 0, data |-> <<>>]

\* The locals of a call: the bound names, the bytes of names left, the inode
\* opened and its length then, the observation before reading, what has been
\* read, the anchor being verified and the verdict so far.
Locals(c) ==
    [c |-> c, names |-> <<>>, left |-> c.budget, prefix |-> <<>>, parts |-> <<>>, chain |-> <<>>, obj |-> None,
     length |-> 0, before |-> NoSight, after |-> NoSight, bytes |-> <<>>, from |-> 0,
     index |-> 1, verdict |-> "Unchanged",
     base |-> cwd,          \* history: the current directory when the call began
     calm |-> TRUE]         \* history: nothing has changed since the call began
Idle == [Locals(Call("None", Relative(<<>>))) EXCEPT !.base = <<>>]

NoHandle == [dir |-> None, where |-> <<>>, anchors |-> <<>>, denied |-> {},
             calm |-> TRUE] \* history: nothing has changed since its opening began
NoReader == [obj |-> None, pos |-> 0, path |-> Relative(<<>>), names |-> <<>>, fixed |-> FALSE,
             bound |-> FALSE, anchors |-> <<>>, limits |-> NoLimits, budget |-> Unlimited,
             calm |-> TRUE] \* history: nothing has changed since its opening began
NoReport == [op |-> "None", err |-> None, value |-> None, job |-> Idle]

Host == world.scope = "Host"

\* The root authority of an operation by name, and of one below the handle.
Fixed == job.c.op \in {"OpenChild", "OpenFixed"} \/ (job.c.op = "Verify" /\ reader.fixed)
Top   == IF Fixed THEN handle.dir ELSE IF Host THEN HostRoot ELSE world.root
TopAt == IF Fixed THEN handle.where ELSE IF Host THEN <<>> ELSE world.at

\* Below a root the operation follows links within it; a host path handed to
\* the rooted resolver does so too.
RootedPolicy ==
    IF (Host \/ Fixed) /\ world.policy = "FollowAcrossScope" THEN "FollowWithinScope" ELSE world.policy
Contract == tightened(world.limits, IF job.c.op = "Verify" THEN reader.limits ELSE job.c.limits)

Init ==
    /\ \E w \in Worlds : \E objects \in w.spaces, where \in w.scopes, links \in w.policies, calls \in w.programs :
          /\ fs = objects
          /\ todo = calls
          /\ world = [scope |-> where, root |-> w.root, at |-> w.at, policy |-> links,
                      limits |-> w.limits, edits |-> w.edits, writes |-> w.writes]
          /\ cwd = IF where = "Host" THEN w.at ELSE <<>>
    /\ pc = "idle" /\ job = Idle /\ late = FALSE /\ res = NoResolution
    /\ handle = NoHandle /\ reader = NoReader
    /\ moves = MaxMoves /\ clock = 1
    /\ report = NoReport

-----------------------------------------------------------------------------
(* Frames.                                                                 *)

\* The call returns.  What it has read and seen is kept in the report.
Return(why, what) ==
    /\ pc' = "idle"
    /\ report' = [op |-> job.c.op, err |-> why, value |-> what, job |-> job]
    /\ job' = Idle
    /\ late' = FALSE
    /\ res' = NoResolution
    /\ UNCHANGED <<fs, world, todo, moves, clock>>

Goto(place, locals) ==
    /\ pc' = place
    /\ job' = locals
    /\ UNCHANGED <<fs, late, world, todo, moves, clock, report>>

Holding == UNCHANGED <<cwd, handle, reader>>
Stay(place, locals) == Goto(place, locals) /\ res' = res /\ Holding

\* The opening of a verification that finds no file is not an error: the
\* anchors are looked at next, and Missing is the verdict unless one changed.
Fails(why) ==
    /\ IF job.c.op = "Verify" /\ why = "NotFound" /\ pc # "anchor"
       THEN Goto("anchors", [job EXCEPT !.verdict = "Missing"]) /\ res' = NoResolution
       ELSE Return(why, None)
    /\ Holding

\* Starting a resolution whose end the place `next` waits for.
Resolve(next, locals, resolution) == Goto(next, locals) /\ res' = resolution /\ Holding

\* check_binding_deadline and its kin, between two steps of a call.
At(place) == pc = place
Unless(step) == IF late THEN Fails("TimedOut") ELSE step
Resolved(place) == At(place) /\ Done
Spent(r) == [job EXCEPT !.left = r.left]

-----------------------------------------------------------------------------
(* LocalPathResolver: binding a path to the namespace.  A Rooted path is   *)
(* normalized by its text; a Host path keeps its "..".                     *)

directory_required(path) ==
    path.slash \/ path.parts = <<>> \/ Last(path.parts) \in Dots

bind_component(b, part) ==
    CASE b.err # None \/ part = "."            -> b
      [] part = ".." /\ b.names = <<>>         -> [b EXCEPT !.err = "InvalidPath"]
      [] part = ".."                           -> [b EXCEPT !.names = Front(@)]
      [] OTHER                                 -> [b EXCEPT !.names = Append(@, part)]

Base(path) == IF path.abs \/ Fixed THEN <<>> ELSE cwd

bind(path) ==
    IF Host /\ ~Fixed
    THEN [names |-> Base(path) \o SelectSeq(path.parts, LAMBDA p : p # "."), err |-> None]
    ELSE FoldLeft(bind_component, [names |-> Base(path), err |-> None], path.parts)

\* Mutant: a relative path is not joined to the current directory.
authority_path_unjoined(path) ==
    Relative(SelectSeq(path.parts, LAMBDA p : p # "."))

\* The path below the root as the caller wrote it; trailing "." components
\* go with the stripped prefix.
authority_path(path) ==
    LET parts == Base(path) \o path.parts
        kept  == {i \in DOMAIN parts : parts[i] # "."}
    IN  Relative(IF kept = {} THEN <<>> ELSE SubSeq(parts, 1, Max(kept)))

-----------------------------------------------------------------------------
(* Beginning a call.                                                       *)

\* A call that needs a handle or a reader the client does not hold is passed
\* over.  Opening a reader drops the one held before.
Start ==
    /\ pc = "idle" /\ todo # <<>>
    /\ LET c     == Head(todo)
           ready == /\ c.op \in {"OpenChild", "OpenFixed"} => handle.dir # None
                    /\ c.op \in {"Verify", "ReadLimited"} => reader.obj # None
       IN  /\ pc' = IF ready THEN "start" ELSE "idle"
           /\ job' = IF ~ready THEN Idle
                     ELSE IF c.op = "Verify" THEN [Locals(c) EXCEPT !.left = reader.budget]
                     ELSE Locals(c)
           /\ reader' = CASE c.op = "OpenReader" -> NoReader
                          [] c.op = "OpenFixed"  -> [NoReader EXCEPT !.calm = handle.calm]
                          [] OTHER               -> reader
    /\ todo' = Tail(todo)
    /\ report' = NoReport
    /\ UNCHANGED <<fs, late, res, cwd, world, handle, moves, clock>>

Starts(ops) == At("start") /\ job.c.op \in ops

BareResolve ==
    /\ Starts({"Resolve"})
    /\ Resolve("resolve", job, IF job.c.host THEN BeginHost(job.c.rq) ELSE Begin(job.c.rq))
EndResolve == Resolved("resolve") /\ Return(res.err, res.path) /\ Holding

\* open_resolved_reader_with_policy_and_contract: the content is resolved
\* from the bound names; a Rooted file system tries the link-free walk first.
ContentResolution(names) ==
    IF Host /\ ~Fixed
    THEN BeginHost(Request(HostRoot, Absolute(names), world.policy, TRUE, FALSE))
    ELSE Begin([Request(Top, Relative(names), RootedPolicy, TRUE, TRUE) EXCEPT !.limits = Contract])

StartContent(path, locals) ==
    IF directory_required(path) \/ locals.names = <<>>
    THEN Fails("InvalidPath")
    ELSE Resolve("content", locals, ContentResolution(locals.names))

\* read_all_with_options, read_prefix_with_options, read_consistent_with_options.
PlainOpen ==
    /\ Starts({"ReadAll", "ReadPrefix", "Snapshot"})
    /\ LET b == bind(job.c.path)
       IN  CASE ~Host /\ world.policy = "FollowAcrossScope" -> Fails("InvalidOptions")
             [] b.err # None -> Fails(b.err)
             [] OTHER        -> StartContent(job.c.path, [job EXCEPT !.names = b.names])

\* The opening of an observed reader by name; a verification opens the bound
\* names again under the same options, without a new binding.
Verifying    == job.c.op = "Verify"
BindingAsked == Verifying \/ job.c.binding
ObservedPath == IF Verifying THEN Absolute(reader.names) ELSE job.c.path
TooManyAncestors(n) ==
    /\ job.c.op \in {"OpenReader", "OpenFixed"} /\ job.c.binding
    /\ n > job.c.ancestors \/ job.c.ancestors = 0

\* A rooted walk of `path` below the operation's root that spends the budget.
BindingWalk(path, locals) ==
    Begin([Request(Top, path, RootedPolicy, TRUE, FALSE) EXCEPT
              !.limits = Contract, !.budget = locals.left,
              !.denied = IF Fixed THEN handle.denied \union job.c.denied ELSE job.c.denied])

\* The same for opening a directory: a host path stays at the host root.
DirectoryWalk(path) ==
    Begin([Request(Top, path, RootedPolicy, TRUE, FALSE) EXCEPT
              !.limits = Contract, !.budget = job.left, !.denied = job.c.denied, !.stay = Host])

open_observed(path) ==
    LET b     == bind(path)
        named == [job EXCEPT !.names = b.names]
        debit == WrittenBytes(Absolute(b.names))
                    + SumBytes(SelectSeq(path.parts, LAMBDA p : p \notin Dots))
        paid  == [named EXCEPT !.left = @ - debit]
    IN  CASE Host /\ Contract # NoLimits                 -> Fails("Unsupported")
          [] ~Host /\ world.policy = "FollowAcrossScope" -> Fails("InvalidOptions")
          [] b.err # None                                -> Fails(b.err)
          [] TooManyAncestors(Len(b.names))              -> Fails("ResourceLimit")
          [] ~BindingAsked                               -> StartContent(path, named)
          [] job.left < debit                            -> Fails("ResourceLimit")
          [] OTHER -> Resolve("prebind", paid, BindingWalk(authority_path(path), paid))

OpenObserved ==
    /\ \/ Starts({"OpenReader"})
       \/ Starts({"Verify"}) /\ reader.bound /\ ~reader.fixed
    /\ Unless(open_observed(ObservedPath))

EndPrebind ==
    /\ Resolved("prebind")
    /\ IF res.err # None THEN Fails(res.err) ELSE Unless(StartContent(ObservedPath, Spent(res)))

\* The opening of an observed reader below a directory handle: the path is
\* walked under the handle's component policy, and the result is opened.
FixedPath == IF Verifying THEN reader.path ELSE job.c.path

OpenFixed ==
    /\ \/ Starts({"OpenFixed"})
       \/ Starts({"Verify"}) /\ reader.bound /\ reader.fixed
    /\ LET paid == [job EXCEPT !.left = @ - WrittenBytes(FixedPath)]
       IN  Unless(CASE FixedPath.abs -> Fails("InvalidPath")
                    [] BindingAsked /\ paid.left < 0 -> Fails("ResourceLimit")
                    [] OTHER -> Resolve("fixed", paid, BindingWalk(FixedPath, paid)))

EndFixed ==
    /\ Resolved("fixed")
    /\ LET named == [Spent(res) EXCEPT !.names = res.path]
           deep  == Most(Len(FixedPath.parts) - 1, Len(res.path))
       IN  CASE res.err # None                -> Fails(res.err)
             [] directory_required(FixedPath) -> Fails("NotDirectory")
             [] BindingAsked /\ named.left < WrittenBytes(Absolute(res.path)) -> Fails("ResourceLimit")
             [] TooManyAncestors(deep)        -> Fails("ResourceLimit")
             [] OTHER -> Unless(StartContent(Relative(res.path), named))

-----------------------------------------------------------------------------
(* Questions about a name: metadata, target_metadata, canonicalize, the    *)
(* nearest existing directory that limits_at and space_at probe, and       *)
(* set_current_directory.  An answer is <<inode, path>>.                   *)

Queries == {"Metadata", "TargetMetadata", "Canonicalize", "Probe", "SetCwd"}

\* HostLocalFileSystem::metadata_with_policy leaves a path alone whose links
\* may all be followed.
HostQuery(names, final) ==
    LET rq == Request(HostRoot, Absolute(names), world.policy, final, FALSE)
    IN  IF world.policy = "FollowAcrossScope" /\ ~final THEN Succeed(BeginHost(rq), names)
        ELSE BeginHost(rq)
RootedQuery(names, final) == Begin(Request(Top, Relative(names), RootedPolicy, final, TRUE))

Query ==
    /\ Starts(Queries) /\ ~(Host /\ job.c.op = "SetCwd")
    /\ LET b == bind(job.c.path)
       IN  IF b.err # None THEN Fails(b.err)
           ELSE Resolve("query", [job EXCEPT !.names = b.names],
                        IF Host THEN HostQuery(b.names, job.c.op = "Probe")
                        ELSE RootedQuery(b.names, job.c.op # "Metadata"))

\* The answer, once the entry has been found.  canonicalize resolves the path
\* again when it has to be a directory.
Misfit(o) == directory_required(job.c.path) /\ ~IsA(o, "dir")
Answer(o, path) ==
    CASE job.c.op = "SetCwd" /\ ~IsA(o, "dir") -> Fails("TypeConflict")
      [] job.c.op = "SetCwd" ->
            Return(None, <<o, path>>) /\ cwd' = job.names /\ UNCHANGED <<handle, reader>>
      [] job.c.op = "Canonicalize" /\ directory_required(job.c.path) ->
            Resolve("required", [job EXCEPT !.obj = o, !.prefix = path],
                    IF Host THEN res ELSE RootedQuery(job.names, TRUE))
      [] Misfit(o) -> Fails("NotDirectory")
      [] OTHER     -> Return(None, <<o, path>>) /\ Holding

EndQuery ==
    /\ Resolved("query")
    /\ LET o == IF Host THEN SystemLookup(res.path, FALSE) ELSE Lstat(Top, res.path)
       IN  CASE res.err # None        -> Fails(res.err)
             [] job.c.op = "Probe"    -> Stay("probe", [job EXCEPT !.prefix = res.path])
             [] o \in Errors          -> Fails(o)
             [] ~Host \/ job.c.op = "Metadata" \/ (job.c.op = "TargetMetadata" /\ ~IsA(o, "link")) ->
                    Answer(o, res.path)
             [] IsA(o, "link") /\ world.policy = "Reject" -> Fails("Unsupported")
             [] OTHER -> Stay("follow", job)

\* fs::metadata and fs::canonicalize on the bound path.
FollowEntry ==
    /\ At("follow")
    /\ LET w == SystemWalk(job.names, TRUE)
       IN  IF w.err # None THEN Fails(w.err) ELSE Answer(w.obj, w.path)

EndRequired ==
    /\ Resolved("required")
    /\ LET o == IF Host THEN SystemLookup(job.names, TRUE) ELSE Lstat(Top, res.path)
       IN  CASE ~Host /\ res.err # None -> Fails(res.err)
             [] o \in Errors            -> Fails(o)
             [] Misfit(o)               -> Fails("NotDirectory")
             [] OTHER -> Return(None, <<job.obj, job.prefix>>) /\ Holding

\* host_probe and open_nearest_probe: names are dropped until one exists.
ProbeNearest ==
    /\ At("probe")
    /\ LET o == IF Host THEN SystemLookup(job.prefix, FALSE) ELSE Lstat(Top, job.prefix)
       IN  CASE o = "NotFound"   -> Stay("probe", [job EXCEPT !.prefix = Front(@)])
             [] o \in Errors     -> Fails(o)
             [] IsA(o, "link")   -> Fails("Io")
             [] OTHER            -> Return(None, <<o, job.prefix>>) /\ Holding

\* env::set_current_dir: the process keeps the directory itself.
HostSetCwd ==
    /\ Starts({"SetCwd"}) /\ Host
    /\ LET w == SystemWalk(Base(job.c.path) \o PartsOf(job.c.path), TRUE)
       IN  CASE w.err # None         -> Fails(w.err)
             [] ~IsA(w.obj, "dir")   -> Fails("NotDirectory")
             [] OTHER -> Return(None, <<w.obj, w.path>>) /\ cwd' = w.path /\ UNCHANGED <<handle, reader>>

-----------------------------------------------------------------------------
(* Opening and observing the file.                                         *)

\* The inode the resolved path names now; the Host backend lets the system
\* follow links, a Rooted one never does.
Found == IF Host /\ ~Fixed THEN SystemLookup(res.path, TRUE) ELSE Lstat(Top, res.path)

EndContent ==
    /\ Resolved("content")
    /\ CASE res.err # None -> Fails(res.err)
         [] res.path = <<>> -> Fails("InvalidPath")
         [] OTHER           -> Unless(Stay("stat", job))

Stat ==
    /\ At("stat")
    /\ CASE Found \in Errors      -> Fails(Found)
         [] ~IsA(Found, "file")   -> Fails("TypeConflict")
         [] OTHER                 -> Unless(Stay("open", job))

\* The native open, and the metadata the reader keeps.
OpenFile ==
    /\ At("open")
    /\ LET opened == [job EXCEPT !.obj = Found, !.length = Len(fs[Found].data)]
       IN  CASE Found \in Errors                                        -> Fails(Found)
             [] ~IsA(Found, "file")                                     -> Fails("TypeConflict")
             [] job.c.op = "ReadAll"                                    -> Stay("sized", opened)
             [] job.c.op = "ReadPrefix"                                 -> Stay("read", opened)
             [] OTHER                                                   -> Stay("observe", opened)

\* read_all refuses a file that was already too long when it was opened.
CheckSize ==
    /\ At("sized")
    /\ IF job.length > job.c.max THEN Fails("ResourceLimit") ELSE Stay("read", job)

\* query_native: the length is read by one call, identity and timestamps by
\* the next.
Data == fs[job.obj].data
ObserveLength ==
    /\ At("observe")
    /\ Stay("native", [job EXCEPT !.before.len = Len(Data)])

Sighted == [job EXCEPT !.before.stamp = fs[job.obj].stamp, !.before.data = Data]

SnapshotBefore ==
    /\ At("native") /\ job.c.op = "Snapshot"
    /\ IF job.before.len > job.c.max THEN Fails("ResourceLimit") ELSE Stay("read", Sighted)

\* The rest of an opening: a bound reader by name goes on to its anchors, one
\* below a handle takes the handle's.
NewReader ==
    [reader EXCEPT !.obj = job.obj, !.path = job.c.path, !.names = job.names,
                   !.fixed = Fixed, !.bound = job.c.binding, !.limits = job.c.limits,
                   !.budget = job.c.budget, !.anchors = IF Fixed THEN handle.anchors ELSE <<>>]

ObserveReader ==
    /\ At("native") /\ job.c.op \in {"OpenReader", "OpenFixed"}
    /\ IF job.c.binding /\ ~Fixed
       THEN Unless(Resolve("parent", job, BindingWalk(Relative(Front(job.names)), job)))
       ELSE IF late THEN Fails("TimedOut")
       ELSE Return(None, "opened") /\ reader' = NewReader /\ UNCHANGED <<cwd, handle>>

EndParent ==
    /\ Resolved("parent")
    /\ IF res.err # None THEN Fails(res.err) ELSE Unless(Stay("retain", Spent(res)))

-----------------------------------------------------------------------------
(* retain_directory_chain: an anchor for the root and for each directory   *)
(* down to the last, whose recipe is the path the caller gave.             *)

Anchor(o, names) == [dir |-> o, at |-> names, recipe |-> Relative(names)]

\* PathBindingBudget::debit, by the length of the host path `names`.
debit(locals, names) ==
    IF locals.c.binding THEN [locals EXCEPT !.left = @ - WrittenBytes(Absolute(names))] ELSE locals

RetainRoot ==
    /\ At("retain")
    /\ LET paid == debit(job, TopAt)
       IN  IF job.c.binding /\ (late \/ Len(res.path) > job.c.ancestors \/ paid.left < 0)
           THEN Fails("ResourceLimit")
           ELSE Stay("descend", [paid EXCEPT !.chain = <<Anchor(Top, TopAt)>>])

Descended == At("descend") /\ Len(job.chain) > Len(res.path)

\* What the cursor finds under the next component in the directory it holds
\* open, and why it cannot go there.
Cursor  == Entry(Last(job.chain).dir, res.path[Len(job.chain)])
Refusal == IF Cursor \in Errors THEN Cursor ELSE IF IsA(Cursor, "dir") THEN None ELSE "NotDirectory"

\* metadata of the component.
RetainInspect ==
    /\ At("descend") /\ ~Descended
    /\ Unless(IF Refusal # None THEN Fails(Refusal) ELSE Stay("enter", job))

\* descend looks it up again and opens it.
RetainDescend ==
    /\ At("enter")
    /\ LET at   == TopAt \o SubSeq(res.path, 1, Len(job.chain))
           paid == debit(job, at)
       IN  Unless(CASE Refusal # None   -> Fails(Refusal)
                    [] Refusal = None /\ paid.left < 0 -> Fails("ResourceLimit")
                    [] OTHER -> Stay("descend", [paid EXCEPT !.chain = Append(@, Anchor(Cursor, at))]))

\* The last anchor is found again by the path the caller gave.
Recipe(parts)   == TopAt \o parts
chain(parts)    == [job.chain EXCEPT ![Len(job.chain)].recipe = Relative(Recipe(parts))]
Retained(parts, then) ==
    IF debit(job, Recipe(parts)).left < 0 THEN Fails("ResourceLimit") ELSE Unless(then)

\* The recipe of a reader leaves the file itself out.
RetainReader ==
    /\ Descended /\ job.c.op = "OpenReader"
    /\ LET recipe == Front(authority_path(job.c.path).parts)
       IN  Retained(recipe,
                Return(None, "opened") /\ reader' = [NewReader EXCEPT !.anchors = chain(recipe)]
                                       /\ UNCHANGED <<cwd, handle>>)

-----------------------------------------------------------------------------
(* Directory handles.                                                      *)

Denied(parts) == Range(parts) \intersect job.c.denied # {}

OpenDirectory ==
    /\ Starts({"OpenDirectory"})
    /\ IF Denied(job.c.path.parts) THEN Fails("Rejected")
       ELSE Stay("parents", [job EXCEPT !.parts = authority_path(job.c.path).parts])

\* validate_parent_steps: the prefix before each ".." must resolve, and must
\* not climb over the root by its text.
ParentSteps ==
    /\ At("parents")
    /\ LET ups   == {i \in DOMAIN job.parts : job.parts[i] = ".."}
           k     == Min(ups)
           named == SelectSeq(SubSeq(job.parts, 1, k - 1), LAMBDA p : p # ".")
           found == [job EXCEPT !.prefix = @ \o named, !.parts = SubSeq(@, k + 1, Len(@))]
       IN  CASE ups = {} -> Resolve("directory", job, DirectoryWalk(authority_path(job.c.path)))
             [] found.prefix # <<>> -> Resolve("prefix", found, DirectoryWalk(Relative(found.prefix)))
             [] Host     -> Stay("parents", found)
             [] OTHER    -> Fails("InvalidPath")

EndPrefix ==
    /\ Resolved("prefix")
    /\ IF res.err # None THEN Fails(res.err)
       ELSE Stay("parents", [Spent(res) EXCEPT !.prefix = Front(@)])

OpenChild ==
    /\ Starts({"OpenChild"})
    /\ IF job.c.path.abs THEN Fails("InvalidPath")
       ELSE Resolve("directory", job, BindingWalk(job.c.path, job))

EndDirectory ==
    /\ Resolved("directory")
    /\ CASE res.err # None    -> Fails(res.err)
         [] Denied(res.path)  -> Fails("Rejected")
         [] OTHER             -> Stay("retain", Spent(res))

\* A child handle inherits the anchors of its parent, or starts from it, and
\* pays for their paths and recipes.
inherited == IF handle.anchors # <<>> THEN handle.anchors
             ELSE <<Anchor(handle.dir, handle.where)>>
charge(a) == WrittenBytes(Absolute(a.at)) + WrittenBytes(Absolute(a.recipe.parts))

\* The parent's anchors followed by the child's own, the shared one once.
combined(recipe) == inherited \o Tail(chain(recipe))

RetainDirectory ==
    /\ Descended /\ job.c.op \in {"OpenDirectory", "OpenChild"}
    /\ LET recipe  == IF Fixed THEN job.c.path.parts ELSE authority_path(job.c.path).parts
           anchors == CASE ~job.c.binding -> <<>>
                        [] Fixed          -> combined(recipe)
                        [] OTHER          -> chain(recipe)
           opened  == [dir |-> Last(job.chain).dir, where |-> TopAt \o res.path,
                       anchors |-> anchors,
                       denied |-> job.c.denied \union (IF Fixed THEN handle.denied ELSE {}),
                       calm |-> job.calm /\ (Fixed => handle.calm)]
           owed    == FoldLeft(LAMBDA n, a : n + charge(a), 0, inherited)
       IN  Retained(recipe,
              IF Fixed /\ job.c.binding
                    /\ (debit(job, Recipe(recipe)).left < owed \/ Len(anchors) - 1 > job.c.ancestors)
              THEN Fails("ResourceLimit")
              ELSE Return(None, "opened") /\ handle' = opened /\ UNCHANGED <<cwd, reader>>)

-----------------------------------------------------------------------------
(* verify_path_binding: open the name again and compare, then find every   *)
(* anchor again from the host root.  A change ends it; a missing name is   *)
(* remembered.                                                             *)

VerifyAnchorsOnly ==
    /\ Starts({"Verify"}) /\ ~reader.bound
    /\ IF reader.anchors = <<>> THEN Fails("InvalidState") ELSE Stay("anchors", job)

\* Mutant: the reopened file is not compared with the one observed before.
CompareIdentityNot ==
    At("native") /\ Verifying /\ IF late THEN Fails("TimedOut") ELSE Stay("anchors", job)

CompareIdentity ==
    /\ At("native") /\ Verifying
    /\ IF late THEN Fails("TimedOut")
       ELSE IF job.obj # reader.obj THEN Return(None, "Changed") /\ Holding
       ELSE Stay("anchors", job)

\* RootedLocalFileSystem::open_with_contract_and_deadline on the recipe.
NextAnchor ==
    /\ At("anchors")
    /\ IF late THEN Fails("TimedOut")
       ELSE IF job.index > Len(reader.anchors) THEN Return(None, job.verdict) /\ Holding
       ELSE Resolve("anchor", job,
                Begin([Request(HostRoot, reader.anchors[job.index].recipe, RootedPolicy, TRUE, TRUE)
                          EXCEPT !.limits = Contract]))

EndAnchor ==
    /\ Resolved("anchor")
    /\ LET found == IF res.err # None THEN res.err ELSE OpenDir(HostRoot, res.path)
       IN  CASE late                -> Fails("TimedOut")
             [] found = "NotFound"  -> Return(None, "Missing") /\ Holding
             [] found \in Errors    -> Fails(found)
             [] found # reader.anchors[job.index].dir -> Return(None, "Changed") /\ Holding
             [] OTHER -> Stay("anchors", [job EXCEPT !.index = @ + 1])

-----------------------------------------------------------------------------
(* Reading.  A read returns between one byte and what was asked for, and   *)
(* nothing at the end of the file.                                         *)

Position == IF job.c.op = "ReadLimited" THEN reader.pos ELSE Len(job.bytes)
Readable == fs[job.obj].data
Delivered(request) ==
    LET rest == Len(Readable) - Position
    IN  IF rest <= 0 THEN {0} ELSE 1..Min({request, rest})
Fetched(n) == SubSeq(Readable, Position + 1, Position + n)
Advance(n) == IF job.c.op = "ReadLimited" THEN [reader EXCEPT !.pos = @ + n] ELSE reader

\* read_to_end_limited on the reader the client holds.
ReadLimited ==
    /\ Starts({"ReadLimited"})
    /\ Stay("read", [job EXCEPT !.obj = reader.obj, !.from = reader.pos])

\* All bytes have been read.
Complete ==
    IF job.c.op = "Snapshot" THEN Goto("again", job) /\ res' = res ELSE Return(None, "bytes")

\* Mutant: a full buffer is taken for the end of the file.
collect_limited_unprobed ==
    LET full == Len(job.bytes) = job.c.max
    IN  \E n \in IF full THEN {0} ELSE Delivered(Min({BLOCK_SIZE, job.c.max - Len(job.bytes)})) :
            /\ reader' = Advance(n)
            /\ UNCHANGED <<cwd, handle>>
            /\ IF n = 0 THEN Complete
               ELSE Goto("read", [job EXCEPT !.bytes = @ \o Fetched(n)]) /\ res' = res

\* collect_limited_with_reserver: once the limit is reached one more byte is
\* asked for, and only the end of the file makes the result a success.
collect_limited ==
    LET full == Len(job.bytes) = job.c.max
    IN  \E n \in Delivered(IF full THEN 1 ELSE Min({BLOCK_SIZE, job.c.max - Len(job.bytes)})) :
            /\ reader' = Advance(n)
            /\ UNCHANGED <<cwd, handle>>
            /\ CASE n = 0 -> Complete
                 [] full  -> Return("ResourceLimit", None)
                 [] OTHER -> Goto("read", [job EXCEPT !.bytes = @ \o Fetched(n)]) /\ res' = res

CollectLimited == At("read") /\ job.c.op # "ReadPrefix" /\ collect_limited

\* collect_prefix_with_reserver: at most the limit, never an error for more.
CollectPrefix ==
    /\ At("read") /\ job.c.op = "ReadPrefix"
    /\ IF Len(job.bytes) = job.c.max THEN Complete /\ Holding
       ELSE \E n \in Delivered(Min({BLOCK_SIZE, job.c.max - Len(job.bytes)})) :
                /\ IF n = 0 THEN Complete
                   ELSE Goto("read", [job EXCEPT !.bytes = @ \o Fetched(n)]) /\ res' = res
                /\ Holding

\* The second observation of a snapshot, again in two native calls.
ObserveAgain ==
    /\ At("again")
    /\ Stay("compare", [job EXCEPT !.after.len = Len(Readable)])

\* Mutant: only the lengths are compared.
observations_match_lengths(before, after, count) == before.len = after.len /\ after.len = count

observations_match(before, after, count) ==
    before.len = after.len /\ after.len = count /\ before.stamp = after.stamp

SnapshotAfter ==
    /\ At("compare")
    /\ LET after == [job.after EXCEPT !.stamp = fs[job.obj].stamp]
       IN  IF observations_match(job.before, after, Len(job.bytes))
           THEN Return(None, "bytes") /\ Holding
           ELSE Fails("ChangedDuringRead")

-----------------------------------------------------------------------------
(* The other processes, the clock and failing native calls.                *)

Disturb ==
    /\ moves > 0 /\ moves' = moves - 1
    /\ pc # "idle" \/ todo # <<>>
    /\ res' = [res EXCEPT !.calm = FALSE]
    /\ job' = [job EXCEPT !.calm = FALSE]
    /\ reader' = [reader EXCEPT !.calm = FALSE]
    /\ report' = NoReport
    /\ handle' = [handle EXCEPT !.calm = FALSE]
    /\ UNCHANGED <<late, cwd, world, todo, pc>>

\* A name is removed, or leads to another inode from now on.
Relink(e) ==
    /\ Disturb
    /\ fs[e.dir].at # e.at
    /\ fs' = [fs EXCEPT ![e.dir].at = e.at]
    /\ clock' = clock

\* A file is written in place: new content, and a timestamp of its own.
Write(o, content) ==
    /\ Disturb
    /\ fs' = [fs EXCEPT ![o] = Regular(content, clock)]
    /\ clock' = clock + 1

Expire ==
    /\ pc # "idle" /\ job.c.timed /\ ~late
    /\ late' = TRUE
    /\ UNCHANGED <<fs, res, cwd, world, todo, pc, job, handle, reader, moves, clock, report>>

NativePlaces == {"follow", "probe", "stat", "open", "observe", "native", "retain", "descend", "enter", "read", "again", "compare"}
Fault ==
    \/ /\ NativeFailure
       /\ UNCHANGED <<fs, late, cwd, world, todo, pc, job, handle, reader, moves, clock, report>>
    \/ pc \in NativePlaces /\ Fails("Io")

Environment ==
    \/ \E e \in world.edits : Relink(e)
    \/ \E w \in world.writes : Write(w.file, w.data)

-----------------------------------------------------------------------------

Walking ==
    /\ pc # "idle"
    /\ ResolveStep
    /\ UNCHANGED <<fs, late, cwd, world, todo, pc, job, handle, reader, moves, clock, report>>

CallStep ==
    \/ BareResolve \/ EndResolve \/ Query \/ EndQuery \/ FollowEntry \/ EndRequired \/ ProbeNearest
    \/ HostSetCwd \/ PlainOpen \/ OpenObserved \/ EndPrebind
    \/ OpenFixed \/ EndFixed \/ EndContent \/ Stat \/ OpenFile \/ CheckSize \/ ObserveLength
    \/ SnapshotBefore \/ ObserveReader \/ EndParent \/ RetainRoot \/ RetainInspect
    \/ RetainDescend \/ RetainReader
    \/ OpenDirectory \/ ParentSteps \/ EndPrefix \/ OpenChild \/ EndDirectory \/ RetainDirectory
    \/ VerifyAnchorsOnly \/ CompareIdentity \/ NextAnchor \/ EndAnchor
    \/ ReadLimited \/ CollectLimited \/ CollectPrefix \/ ObserveAgain \/ SnapshotAfter

\* The program is over.
Finished == pc = "idle" /\ todo = <<>> /\ UNCHANGED vars

Next == Start \/ Walking \/ CallStep \/ Environment \/ Expire \/ Fault \/ Finished

Spec == Init /\ [][Next]_vars

-----------------------------------------------------------------------------
(* Properties.                                                             *)

\* The inode that names lead to below a root, links followed.
Lookup(root, path) ==
    LET w == Walk(Request(root, path, "FollowWithinScope", TRUE, FALSE))
    IN  IF w.err # None THEN w.err ELSE w.obj

\* The names of a path that no ".." after them takes back, and whether some
\* ".." has nothing left to take back.
Surplus(parts, i, j) ==
    Cardinality({k \in i..j : parts[k] = ".."}) > Cardinality({k \in i..j : parts[k] \notin Dots})
Climbs(parts) == \E j \in DOMAIN parts : Surplus(parts, 1, j)
Normal(parts) ==
    LET kept == {i \in DOMAIN parts :
                    parts[i] \notin Dots /\ ~\E j \in (i + 1)..Len(parts) : Surplus(parts, i + 1, j)}
    IN  [n \in 1..Cardinality(kept) |-> parts[SetToSortSeq(kept, <)[n]]]

Answered(ops) == report.op \in ops /\ report.err = None

\* A call that succeeds without being disturbed has reached what its path
\* names: for a Host path what the system's own open would reach, for a
\* Rooted reader what the normalized path names below the root, for a
\* directory handle what the path as written names below the root; questions
\* about a name are answered of that same inode, and the current directory
\* that was set is the one named (io.rs open_observed_reader_with_binding_limits,
\* metadata, target_metadata, canonicalize; LocalDirectoryHandle::open;
\* configuration.rs set_current_directory).
OpensWhatWasNamed ==
    LET written == report.job.c.path
        start   == IF written.abs THEN <<>> ELSE report.job.base
        whole   == start \o written.parts
        byText  == IF Climbs(whole) THEN "InvalidPath" ELSE Lookup(world.root, Relative(Normal(whole)))
        asWritten == Lookup(world.root, Relative(whole))
        current == IF Host THEN SystemLookup(cwd, TRUE) ELSE Lookup(world.root, Relative(cwd))
        entry   == IF Host THEN SystemLookup(whole, FALSE)
                   ELSE Namei(Request(world.root, Relative(Normal(whole)), "FollowWithinScope", FALSE, FALSE), TRUE).obj
        target  == IF Host THEN SystemLookup(whole, TRUE) ELSE byText
        answer  == report.value
    IN  report.job.calm =>
            /\ Answered({"Metadata"}) => answer[1] = entry
            /\ Answered({"TargetMetadata", "Canonicalize", "SetCwd"}) => answer[1] = target
            /\ Answered({"Canonicalize"}) => Lstat(IF Host THEN HostRoot ELSE world.root, answer[2]) = target
            /\ Answered({"SetCwd"}) => current = target /\ IsA(target, "dir")
            /\ Answered({"Probe"}) /\ target \in Object => answer[1] = target
            /\ Answered({"OpenReader", "ReadAll", "ReadPrefix", "Snapshot"}) =>
                 report.job.obj = target
            /\ Answered({"OpenDirectory"}) =>
                 handle.dir = IF Host THEN SystemLookup(whole, TRUE) ELSE asWritten
            /\ Answered({"OpenFixed"}) => report.job.obj = Lookup(handle.dir, written)

\* Where the name and the anchors of the reader lead now.
NameLeadsTo ==
    IF reader.fixed THEN Lookup(handle.dir, reader.path)
    ELSE IF Host THEN SystemLookup(reader.names, TRUE)
    ELSE Lookup(world.root, Relative(reader.names))
AnchorLeadsTo(a) == SystemLookup(a.recipe.parts, TRUE)
Leads == (IF reader.bound THEN {<<NameLeadsTo, reader.obj>>} ELSE {})
            \union {<<AnchorLeadsTo(a), a.dir>> : a \in Range(reader.anchors)}

\* The recipes speak of the host namespace.  They mean what the reader's path
\* means unless a link below the root is absolute or ".." follows a link.
RecipesMeanThePath ==
    Host \/ (/\ ".." \notin Range(reader.path.parts)
             /\ ~\E o \in Links : fs[o].to.abs)

\* A verification that nothing disturbs is right about the present: Unchanged
\* is answered exactly when the name and every recipe lead to the inodes
\* observed at the opening, Missing only when one of them leads nowhere; and
\* when nothing has changed since the opening began, and the recipes mean the
\* path, the answer is Unchanged (directory_path_binding.rs, path_binding.rs,
\* CombinedPathBinding).
VerifyTruthful ==
    (Answered({"Verify"}) /\ report.job.calm) =>
        /\ (report.value = "Unchanged") <=> (\A l \in Leads : l[1] = l[2])
        /\ report.value = "Missing" => \E l \in Leads : l[1] = "NotFound"
        /\ (reader.calm /\ RecipesMeanThePath) => report.value = "Unchanged"

\* A reader whose namespace nothing has touched since its opening began is
\* still bound to its name, whatever links lead to it: the design document
\* promises that rechecking resolves the original name under its retained
\* authority (directory_path_binding.rs verify_until).
UntouchedIsUnchanged ==
    (Answered({"Verify"}) /\ reader.calm) => report.value = "Unchanged"

\* The bytes of a successful snapshot are the content the file had at one
\* instant, the one of the first observation, although they were read block
\* by block while others may write (read_consistent_with_options; each write
\* leaves a timestamp of its own).
SnapshotIsOneState ==
    Answered({"Snapshot"}) =>
        report.job.bytes = report.job.before.data /\ report.job.bytes = fs[report.job.obj].data

\* A limited read never returns more than its limit, even from a file that
\* grows; undisturbed it returns the whole file exactly when the file fits,
\* the limit itself included, and a prefix is as long as limit and file allow
\* (collect_limited_with_reserver, collect_prefix_with_reserver).
LimitedReadExact ==
    LET j    == report.job
        rest == SubSeq(fs[j.obj].data, j.from + 1, Len(fs[j.obj].data))
    IN  (report.op \in {"ReadAll", "ReadLimited", "ReadPrefix"} /\ j.obj # None
            /\ report.err \in {None, "ResourceLimit"}) =>
            /\ report.err = None => Len(j.bytes) <= j.c.max
            /\ j.calm => IF report.op = "ReadPrefix"
                         THEN report.err = None /\ j.bytes = SubSeq(rest, 1, Min({j.c.max, Len(rest)}))
                         ELSE IF Len(rest) <= j.c.max THEN report.err = None /\ j.bytes = rest
                         ELSE report.err = "ResourceLimit"
=============================================================================
