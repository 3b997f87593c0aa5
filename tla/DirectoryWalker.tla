--------------------------- MODULE DirectoryWalker --------------------------
(***************************************************************************)
(* LocalDirectoryWalker: the lazy depth-first iterator behind list, in the *)
(* Host and in the Rooted scope.  One step is one native call with what    *)
(* the walker makes of its answer; other processes add, remove and replace *)
(* entries between any two steps.                                          *)
(*                                                                         *)
(* A directory is known by its native identity, whatever path leads to it. *)
(* A symbolic link holds a path from the root that has no further link.    *)
(* Other processes do not create links.  The depth that the code keeps in  *)
(* a frame is one more than the length of the frame's output path.         *)
(***************************************************************************)
EXTENDS Naturals, Sequences, FiniteSets, SequencesExt, FiniteSetsExt

CONSTANTS
    Dirs,        \* identities of directories
    RootDir,     \* the one the walk starts from
    Nowhere,     \* no directory
    Names,       \* names of entries
    NameBytes,   \* the encoded length of each name
    Walks,       \* the walks explored: a file system, the options, and whether it is left alone
    UsizeMax,    \* usize::MAX; it also stands for a limit of None
    MaxOthers,   \* bound: steps of other processes
    MaxFaults    \* bound: native failures

Entry(k, d, t) == [kind |-> k, dir |-> d, target |-> t]
NoEntry   == Entry("none", Nowhere, <<>>)
File      == Entry("file", Nowhere, <<>>)
DirOf(d)  == Entry("dir", d, <<>>)
LinkTo(t) == Entry("link", Nowhere, t)

ListOptions == [scope : {"Host", "Rooted"},
                recursive : BOOLEAN, follow : BOOLEAN, failFast : BOOLEAN, reopen : BOOLEAN,
                deadline : BOOLEAN, maxDepth : 0 .. UsizeMax, maxEntries : 0 .. UsizeMax,
                maxBytes : 0 .. UsizeMax, maxOpen : 0 .. UsizeMax]

ASSUME ConstantsAssumption ==
    /\ RootDir \in Dirs /\ Nowhere \notin Dirs
    /\ UsizeMax \in Nat /\ MaxOthers \in Nat /\ MaxFaults \in Nat
    /\ NameBytes \in [Names -> Nat] /\ \A w \in Walks : w.opts \in ListOptions

VARIABLES
    tree,        \* the entries of every directory
    opts, pc,
    alone,       \* are there neither other processes nor failures
    stack,       \* the frames, the deepest last
    followed,    \* followed_directories
    terminated,
    entryBudget, nameBudget,
    cur,         \* the entry between its name and its result
    expired,     \* has the deadline passed
    others, faults,
    \* history
    yielded,     \* the output paths returned as entries
    failed,      \* the output paths returned as errors
    twice        \* was a path returned twice

walkVars    == <<stack, followed, terminated, entryBudget, nameBudget, cur>>
historyVars == <<yielded, failed, twice>>
envVars     == <<expired, others, faults>>
vars == <<tree, opts, alone, pc, walkVars, envVars, historyVars>>

Frame(route, out, id, reader) == [route |-> route, out |-> out, id |-> id, reader |-> reader, seen |-> {}]
Closed      == [open |-> FALSE, dir |-> Nowhere, due |-> {}, may |-> {}]
ReaderOf(d) == [open |-> TRUE, dir |-> d, due |-> {n \in Names : tree[d][n] # NoEntry}, may |-> {}]
NoCur       == [name |-> CHOOSE n \in Names : TRUE, entry |-> NoEntry, id |-> Nowhere]
Scope       == opts.scope
Top         == stack[Len(stack)]
OpenFrames  == {i \in DOMAIN stack : stack[i].reader.open}

\* What a path leads to, without and with the links on it.
EntryIn(e, n) == IF e.kind = "dir" THEN tree[e.dir][n] ELSE NoEntry
NoFollowAt(path) == FoldLeft(EntryIn, DirOf(RootDir), path)
Target(e)     == IF e.kind = "link" THEN NoFollowAt(e.target) ELSE e
FollowIn(e, n) == Target(EntryIn(e, n))
FollowAt(path) == FoldLeft(FollowIn, DirOf(RootDir), path)
\* The entry that a native call on the path of a frame reaches.
NativeAt(path) == IF Scope = "Host" THEN FollowAt(path) ELSE NoFollowAt(path)

Init ==
    /\ \E w \in Walks : tree = w.tree /\ opts = w.opts /\ alone = w.alone
    /\ pc = "start"
    /\ stack = <<>> /\ followed = {} /\ terminated = FALSE
    /\ entryBudget = opts.maxEntries /\ nameBudget = opts.maxBytes /\ cur = NoCur
    /\ expired = FALSE /\ others = 0 /\ faults = 0
    /\ yielded = {} /\ failed = {} /\ twice = FALSE

-----------------------------------------------------------------------------

Fault   == ~alone /\ faults < MaxFaults /\ faults' = faults + 1
NoFault == UNCHANGED faults
Expired == opts.deadline /\ expired
MayDescend(depth) == opts.recursive /\ depth < opts.maxDepth

\* needs_seen_names
NeedsSeenNames ==
    \/ opts.maxBytes # UsizeMax
    \/ opts.recursive /\ opts.maxDepth > 1 /\ opts.maxOpen # UsizeMax /\ opts.reopen

\* is_terminal_walk_error, and the places where the Host walker sets terminated.
Terminal(class) == opts.failFast \/ class \in {"Limit", "TimedOut"}

\* The call of next returns an error about a path, or an entry.
ReturnErr(class, path) ==
    /\ pc' = "idle" /\ terminated' = Terminal(class)
    /\ failed' = failed \cup {path}
    /\ UNCHANGED <<yielded, twice>>
ReturnOk(path) ==
    /\ pc' = "idle" /\ UNCHANGED terminated
    /\ yielded' = yielded \cup {path} /\ twice' = (twice \/ path \in yielded \cup failed)
    /\ UNCHANGED failed
GoOn(to) == pc' = to /\ UNCHANGED <<terminated, historyVars>>

\* Frames as pop_host_frame, close_all_host_frames and their Rooted equivalents leave them.
PopFrame == stack' = SubSeq(stack, 1, Len(stack) - 1) /\ followed' = followed \ {Top.id}
CloseAllForgets(s) == [i \in DOMAIN s |-> [s[i] EXCEPT !.reader = Closed, !.seen = {}]]
CloseAll(s) == [i \in DOMAIN s |-> [s[i] EXCEPT !.reader = Closed]]

\* acquire_host_directory, acquire_rooted_directory: a permit at the limit costs every reader.
PermitFree == Cardinality(OpenFrames) < opts.maxOpen
Acquired   == IF PermitFree THEN stack ELSE CloseAll(stack)

-----------------------------------------------------------------------------
(***************************************************************************)
(* The walker.  The caller asks for entries until it is told the end.      *)
(***************************************************************************)

\* open_with_diagnostic opens the first reader at once, open_rooted leaves it to next.
OpenWalker ==
    /\ pc = "start"
    /\ \/ /\ (opts.maxOpen = 0 /\ NoFault) \/ Fault
          /\ pc' = "end" /\ UNCHANGED <<stack, followed>>
       \/ /\ opts.maxOpen > 0 /\ NoFault /\ pc' = "idle"
          /\ LET reader == IF Scope = "Host" THEN ReaderOf(RootDir) ELSE Closed
             IN  IF opts.maxDepth = 0 THEN UNCHANGED <<stack, followed>>
                 ELSE /\ stack' = <<Frame(<<>>, <<>>, RootDir, reader)>>
                      /\ followed' = {RootDir}
    /\ UNCHANGED <<tree, opts, alone, terminated, entryBudget, nameBudget, cur, expired, others, historyVars>>

CallNext ==
    /\ pc = "idle"
    /\ IF terminated THEN GoOn("end")
       ELSE IF Expired THEN ReturnErr("TimedOut", <<>>) ELSE GoOn("frame")
    /\ UNCHANGED <<tree, opts, alone, stack, followed, entryBudget, nameBudget, cur, envVars>>

\* The head of the loop: the deepest frame, which may have lost its reader.
TakeFrame ==
    /\ pc = "frame"
    /\ IF Expired THEN ReturnErr("TimedOut", <<>>)
       ELSE GoOn(IF stack = <<>> THEN "end"
                 ELSE IF Top.reader.open THEN "read"
                 ELSE IF Scope = "Host" THEN "restat" ELSE "open")
    /\ UNCHANGED <<tree, opts, alone, stack, followed, entryBudget, nameBudget, cur, envVars>>

\* handle_reopen_error: the frame is dropped, unless the walk ends here anyway.
KeepFrame(s) == stack' = s /\ UNCHANGED followed
DropFrame(s) ==
    IF Scope = "Host" /\ opts.failFast THEN stack' = s /\ UNCHANGED followed
    ELSE stack' = SubSeq(s, 1, Len(s) - 1) /\ followed' = followed \ {Top.id}

\* reopen_host_frame finds the directory of the frame before it opens it.
Restat ==
    /\ pc = "restat"
    /\ LET found == NativeAt(Top.route)
       IN  \/ /\ NoFault /\ found.kind = "dir" /\ found.dir = Top.id
              /\ GoOn("open") /\ UNCHANGED <<stack, followed>>
           \/ /\ (NoFault /\ ~(found.kind = "dir" /\ found.dir = Top.id)) \/ Fault
              /\ ReturnErr("Other", Top.out) /\ DropFrame(stack)
    /\ UNCHANGED <<tree, opts, alone, entryBudget, nameBudget, cur, expired, others>>

\* May the reader that was opened serve the frame?  The Rooted walker compares identities after
\* the open, the Host walker has compared them before.
ServesAnyDirectory(found) == found.kind = "dir"
Serves(found) == found.kind = "dir" /\ (Scope = "Rooted" => found.dir = Top.id)

\* A permit and a reader for the deepest frame.
OpenFrame ==
    /\ pc = "open"
    /\ LET found == NativeAt(Top.route)
       IN  \/ /\ NoFault /\ ~PermitFree /\ ~opts.reopen
              /\ ReturnErr("OpenDirectory", Top.out) /\ DropFrame(stack)
           \/ /\ PermitFree \/ opts.reopen
              /\ \/ /\ NoFault /\ Serves(found)
                    /\ stack' = [Acquired EXCEPT ![Len(stack)].reader = ReaderOf(found.dir)]
                    /\ GoOn("read") /\ UNCHANGED followed
                 \/ /\ (NoFault /\ ~Serves(found)) \/ Fault
                    /\ ReturnErr("Other", Top.out) /\ DropFrame(Acquired)
    /\ UNCHANGED <<tree, opts, alone, entryBudget, nameBudget, cur, expired, others>>

\* The reader has no further name: back to the parent.
EndFrame ==
    /\ pc = "read" /\ ~(Scope = "Host" /\ Expired) /\ Top.reader.due = {}
    /\ PopFrame /\ GoOn("frame")
    /\ UNCHANGED <<tree, opts, alone, entryBudget, nameBudget, cur, envVars>>

ReadFails ==
    /\ pc = "read"
    /\ \/ /\ Scope = "Host" /\ Expired /\ NoFault
          /\ ReturnErr("TimedOut", <<>>) /\ UNCHANGED <<stack, followed>>
       \/ /\ ~(Scope = "Host" /\ Expired) /\ Fault /\ ReturnErr("Other", Top.out)
          /\ IF Scope = "Host" THEN UNCHANGED <<stack, followed>> ELSE PopFrame
    /\ UNCHANGED <<tree, opts, alone, entryBudget, nameBudget, cur, expired, others>>

\* The reader advances past n, which the frame remembers when it may have to reopen.
Advance(n) ==
    stack' = [stack EXCEPT ![Len(stack)].reader.due = @ \ {n}, ![Len(stack)].reader.may = @ \ {n},
                           ![Len(stack)].seen = IF NeedsSeenNames THEN @ \cup {n} ELSE @]

\* max_entries, then max_seen_name_bytes; the first is consumed even if the second is exhausted.
ChargeName(n, path) ==
    IF entryBudget = 0 \/ nameBudget < NameBytes[n]
    THEN ReturnErr("Limit", path) /\ UNCHANGED <<entryBudget, nameBudget, cur>>
    ELSE /\ entryBudget' = entryBudget - 1 /\ nameBudget' = nameBudget - NameBytes[n]
         /\ cur' = [name |-> n, entry |-> tree[Top.reader.dir][n], id |-> Nowhere]
         /\ GoOn("meta")

\* The next name.  The Rooted reader inspects the entry as well.
ReadName ==
    /\ pc = "read" /\ ~(Scope = "Host" /\ Expired)
    /\ \E n \in Top.reader.due \cup Top.reader.may :
         /\ Advance(n)
         /\ LET path == Append(Top.out, n)
            IN  IF n \in Top.seen \/ Len(path) > opts.maxDepth
                THEN /\ NoFault /\ GoOn(IF Scope = "Host" /\ n \in Top.seen THEN "read" ELSE "frame")
                     /\ UNCHANGED <<entryBudget, nameBudget, cur>>
                ELSE \/ /\ NoFault /\ (Scope = "Rooted" => tree[Top.reader.dir][n] # NoEntry)
                        /\ ChargeName(n, path)
                     \/ /\ Scope = "Rooted"
                        /\ (NoFault /\ tree[Top.reader.dir][n] = NoEntry) \/ Fault
                        /\ IF nameBudget < NameBytes[n]
                           THEN ReturnErr("Limit", path) /\ UNCHANGED nameBudget
                           ELSE ReturnErr("Other", path) /\ nameBudget' = nameBudget - NameBytes[n]
                        /\ UNCHANGED <<entryBudget, cur>>
    /\ UNCHANGED <<tree, opts, alone, followed, expired, others>>

-----------------------------------------------------------------------------
(***************************************************************************)
(* The entry: what it is, and the descent into it.                         *)
(***************************************************************************)

Depth == Len(Top.out) + 1
Path  == Append(Top.out, cur.name)

\* A directory that is on the stack already is not entered again.
Cycle(id) == id \in followed

InspectHost ==
    /\ pc = "meta" /\ Scope = "Host"
    /\ LET entry  == EntryIn(FollowAt(Top.route), cur.name)
           reach  == IF entry.kind = "link" /\ MayDescend(Depth) /\ opts.follow THEN Target(entry) ELSE entry
       IN  \/ /\ (NoFault /\ (entry.kind = "none" \/ reach.kind = "none")) \/ Fault
              /\ ReturnErr("Other", Path) /\ UNCHANGED cur
           \/ /\ NoFault /\ entry.kind # "none" /\ reach.kind # "none"
              /\ IF ~(reach.kind = "dir" /\ MayDescend(Depth)) THEN ReturnOk(Path) /\ UNCHANGED cur
                 ELSE IF Cycle(reach.dir) THEN ReturnErr("Other", Path) /\ UNCHANGED cur
                 ELSE GoOn("descend") /\ cur' = [cur EXCEPT !.entry = entry, !.id = reach.dir]
    /\ UNCHANGED <<tree, opts, alone, stack, followed, entryBudget, nameBudget, expired, others>>

\* The rest of descend: a permit, the open directory, a frame.
DescendHost ==
    /\ pc = "descend"
    /\ LET found == FollowAt(Append(Top.route, cur.name))
       IN  \/ /\ NoFault /\ ~PermitFree /\ ~opts.reopen
              /\ ReturnErr("OpenDirectory", Path) /\ UNCHANGED <<stack, followed>>
           \/ /\ PermitFree \/ opts.reopen
              /\ \/ /\ NoFault /\ found.kind = "dir" /\ ReturnOk(Path)
                    /\ stack' = Append(Acquired, Frame(Append(Top.route, cur.name), Path, cur.id,
                                                       ReaderOf(found.dir)))
                    /\ followed' = followed \cup {cur.id}
                 \/ /\ (NoFault /\ found.kind # "dir") \/ Fault
                    /\ ReturnErr("Other", Path) /\ stack' = Acquired /\ UNCHANGED followed
    /\ UNCHANGED <<tree, opts, alone, entryBudget, nameBudget, cur, expired, others>>

\* The coordinates of the entry are resolved again: a missing component is taken as it is, a
\* component that is a file and has further ones below it is an error.
Unresolvable(route) == \E i \in 1 .. Len(route) - 1 : NoFollowAt(SubSeq(route, 1, i)).kind = "file"

\* The Rooted walker pushes a frame without a reader; for a link, under the path of its target.
InspectRooted ==
    /\ pc = "meta" /\ Scope = "Rooted"
    /\ LET route  == Append(Top.route, cur.name)
           now    == NoFollowAt(route)
           follows == cur.entry.kind = "link" /\ opts.follow /\ MayDescend(Depth)
           to     == IF ~follows THEN route ELSE IF now.kind = "link" THEN now.target ELSE route
           reach  == IF follows THEN NoFollowAt(to) ELSE cur.entry
       IN  IF Expired THEN NoFault /\ ReturnErr("TimedOut", Path) /\ UNCHANGED <<stack, followed>>
           ELSE IF Unresolvable(Top.route) \/ reach.kind = "none" \/ (reach.kind = "dir" /\ Cycle(reach.dir))
           THEN NoFault /\ ReturnErr("Other", Path) /\ UNCHANGED <<stack, followed>>
           ELSE \/ Fault /\ ReturnErr("Other", Path) /\ UNCHANGED <<stack, followed>>
                \/ /\ NoFault /\ ReturnOk(Path)
                   /\ IF reach.kind = "dir" /\ MayDescend(Depth)
                      THEN /\ stack' = Append(stack, Frame(to, Path, reach.dir, Closed))
                           /\ followed' = followed \cup {reach.dir}
                      ELSE UNCHANGED <<stack, followed>>
    /\ UNCHANGED <<tree, opts, alone, entryBudget, nameBudget, cur, expired, others>>

-----------------------------------------------------------------------------

Tick ==
    /\ pc \notin {"start", "end"} /\ opts.deadline /\ ~expired /\ expired' = TRUE
    /\ UNCHANGED <<tree, opts, alone, pc, walkVars, others, faults, historyVars>>

\* Open readers need no longer return what has gone, and may return what has come.
Refreshed(reader, d, n, came) ==
    IF reader.open /\ reader.dir = d
    THEN [reader EXCEPT !.due = @ \ {n}, !.may = IF came \/ n \in reader.due THEN @ \cup {n} ELSE @]
    ELSE reader

\* Another process replaces an entry of directory d.
OtherChange ==
    /\ pc \notin {"start", "end"} /\ ~alone /\ others < MaxOthers /\ others' = others + 1
    /\ \E d \in Dirs, n \in Names, e \in {NoEntry, File} \cup {DirOf(x) : x \in Dirs \ {RootDir}} :
         /\ e # tree[d][n] /\ tree' = [tree EXCEPT ![d][n] = e]
         /\ e.kind = "dir" => \A x \in Dirs, m \in Names : tree[x][m].dir # e.dir
         /\ e.kind = "dir" => e.dir # d /\ \A m \in Names : tree[e.dir][m].kind # "dir"
         /\ stack' = [i \in DOMAIN stack |->
                        [stack[i] EXCEPT !.reader = Refreshed(@, d, n, e # NoEntry)]]
    /\ UNCHANGED <<opts, alone, pc, followed, terminated, entryBudget, nameBudget, cur, expired, faults, historyVars>>

Step == \/ OpenWalker \/ CallNext \/ TakeFrame \/ Restat \/ OpenFrame \/ EndFrame \/ ReadFails \/ ReadName
        \/ InspectHost \/ DescendHost \/ InspectRooted
Next == Step \/ Tick \/ OtherChange
Spec == Init /\ [][Next]_vars /\ WF_vars(Step)

-----------------------------------------------------------------------------
(***************************************************************************)
(* Properties.                                                             *)
(***************************************************************************)

\* The frames are sound whatever others do to the tree: followed_directories holds the
\* directories of the stack and nothing else, each once, so that the walk never enters a
\* directory it is in and can enter again one that it has left; no more readers are open than
\* max_open_directories; and a Rooted reader reads the directory that was inspected when the
\* walk decided to enter it (the comparison after open_dir_reader).
FramesAreSound ==
    /\ followed = {stack[i].id : i \in DOMAIN stack}
    /\ \A i, j \in DOMAIN stack : i # j => stack[i].id # stack[j].id
    /\ Cardinality(OpenFrames) <= opts.maxOpen
    /\ Scope = "Rooted" => \A i \in OpenFrames : stack[i].reader.dir = stack[i].id

\* The walk that the options describe, as sets of output paths.
OutPaths == UNION {[1 .. n -> Names] : n \in 0 .. Cardinality(Dirs)}
Reach(p) == IF opts.follow THEN FollowAt(p) ELSE NoFollowAt(p)
Ancestry(p) == {Reach(SubSeq(p, 1, i)).dir : i \in 0 .. Len(p)}
Enterable(p) == opts.recursive /\ Len(p) < opts.maxDepth
Entered(p) ==
    /\ p = <<>> \/ Enterable(p)
    /\ \A i \in 0 .. Len(p) : Reach(SubSeq(p, 1, i)).kind = "dir"
    /\ Cardinality(Ancestry(p)) = Len(p) + 1
Lstat(p) == EntryIn(Reach(SubSeq(p, 1, Len(p) - 1)), p[Len(p)])
Listed == {p \in OutPaths \ {<<>>} : Entered(SubSeq(p, 1, Len(p) - 1)) /\ Lstat(p).kind # "none"}
\* The entries that cannot be entered: a directory on the way to itself, or a dangling link.
Erroneous(p) ==
    LET parent == Ancestry(SubSeq(p, 1, Len(p) - 1))
    IN  \/ Enterable(p) /\ Reach(p).kind = "dir" /\ Reach(p).dir \in parent
        \/ Enterable(p) /\ opts.follow /\ Reach(p).kind = "none"
        \/ Scope = "Rooted" /\ Lstat(p).kind = "dir" /\ Lstat(p).dir \in parent

\* Each entry once.  Left alone, and with no limit in the way, the walk returns exactly the
\* entries there are: each as an entry or, if it closes a cycle or dangles, as an error, whatever
\* readers it had to close.  And even if entries come and go meanwhile, closing and reopening
\* readers returns no path twice (the names a frame has seen).
EachEntryOnce ==
    /\ /\ pc = "end" /\ others = 0 /\ faults = 0 /\ ~Expired /\ ~opts.failFast
       /\ opts.maxDepth > 0 /\ opts.maxOpen > 0 /\ (opts.reopen \/ opts.maxOpen = UsizeMax)
       /\ opts.maxEntries = UsizeMax /\ opts.maxBytes = UsizeMax
       => /\ yielded = {p \in Listed : ~Erroneous(p)}
          /\ failed = {p \in Listed : Erroneous(p)}
          /\ ~twice
    /\ NeedsSeenNames => ~twice

\* A caller that keeps asking is told the end, links that lead upwards and failures included.
WalkEnds == <>(pc = "end")

=============================================================================
