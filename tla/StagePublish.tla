---------------------------- MODULE StagePublish ----------------------------
(***************************************************************************)
(* Synchronizing, restricting and publishing a staged directory            *)
(* (LocalStagedDirectory): the tree is walked and checked, its files and   *)
(* directories are synchronized, its access is changed entry by entry, and *)
(* the staged root is renamed to its final name without replacing anything.*)
(*                                                                         *)
(* Every object (file, directory, link) has an identity.  A walk and the   *)
(* checks by name see what a path names now; a pinned handle stays on the  *)
(* object it opened.  Another process may change the tree, swap the staged *)
(* name or take the target name between any two steps, a native call may   *)
(* fail, a deadline may pass at any place the code looks at it, and the    *)
(* machine may crash.                                                      *)
(***************************************************************************)
EXTENDS Naturals, Sequences, FiniteSets

CONSTANTS
  FileIds, DirIds, LinkIds, \* identities of files, directories, links
  Root, Alien,              \* the staged root, and a foreign directory
  None,
  ShallowFirst,             \* the paths of the tree, parents before children
  InitTrees,                \* trees the stage may hold at first
  OptionSets,               \* LocalTreePublishOptions to publish with
  MaxCalls,                 \* bound: calls of the stage's owner
  MaxMoves,                 \* bound: changes another process makes
  MaxFaults                 \* bound: native calls that fail

Paths == {ShallowFirst[i] : i \in 1..Len(ShallowFirst)}
Ids == FileIds \cup DirIds \cup LinkIds
KindOf(id) == IF id \in FileIds THEN "file" ELSE IF id \in DirIds THEN "dir" ELSE "link"
ParentOf(p) == SubSeq(p, 1, Len(p) - 1)
Below(d, p) == Len(p) > Len(d) /\ SubSeq(p, 1, Len(d)) = d

\* LocalTreeFinalAccess with the optional LocalOwnerAccessPolicy: an owner
\* policy whose directory mode keeps read and search is "owner", one that does
\* not is "ownerShut"; "ownerBad" fails validate_owner_policy.
OwnerPolicies == {"owner", "ownerShut", "ownerBad"}
FinalAccess == {"Preserve", "CurrentUserOnly", "ReadOnlyCurrentUser"}
Requirement == {"NotRequired", "Preferred", "Required"}

\* LocalTreeValidationOptions: the exact entries asked for (None when not
\* configured), whether links and files with names outside the tree are
\* rejected, and whether access must be the owner's alone.
Validation(v) ==
  \/ v = None
  \/ /\ DOMAIN v = {"exact", "noLinks", "noOutside", "private"}
     /\ v.exact = None \/ v.exact \subseteq Paths \X {"file", "dir", "link"}
     /\ {v.noLinks, v.noOutside, v.private} \subseteq BOOLEAN

\* LocalTreePublishOptions.  `access` and `owner` are separate options that may
\* conflict; `os` is the platform the crate was built for, `max` is
\* limits.max_entries or its default of 256.
Options(o) ==
  /\ DOMAIN o = {"access", "owner", "sync", "durability", "validation", "os", "max", "name"}
  /\ o.access \in FinalAccess /\ o.owner \in OwnerPolicies \cup {None}
  /\ {o.sync, o.durability} \subseteq Requirement
  /\ Validation(o.validation) /\ o.os \in {"linux", "apple", "windows"}
  /\ o.max \in Nat /\ o.name \in {"good", "bad"}

\* An entry is in a directory of the tree or in its root.
IsTree(t) == \A p \in Paths : t[p] # None /\ Len(p) > 1 => t[ParentOf(p)] \in DirIds

ASSUME ConstantsAssumption ==
  /\ FileIds \cap DirIds = {} /\ LinkIds \cap (FileIds \cup DirIds) = {}
  /\ {Root, Alien, None} \cap Ids = {} /\ Root # Alien /\ None \notin {Root, Alien}
  /\ ShallowFirst \in Seq(Seq(STRING))
  /\ \A i, j \in 1..Len(ShallowFirst) : i # j => ShallowFirst[i] # ShallowFirst[j]
  /\ \A p \in Paths : Len(p) > 0 /\ (Len(p) > 1 => ParentOf(p) \in Paths)
  /\ \A t \in InitTrees : t \in [Paths -> Ids \cup {None}] /\ IsTree(t)
  /\ None \notin OptionSets /\ \A o \in OptionSets : Options(o)
  /\ {MaxCalls, MaxMoves, MaxFaults} \subseteq Nat

\* What a call returned: LocalTreePublishOutcome or LocalTreePublishError, or
\* the result of sync_tree_with_options.  `keeps` is who owns the tree now.
NoOutcome == [op |-> "none", ok |-> FALSE, keeps |-> "stage"]
PublishError(pub, mut, acc, keeps) ==
  [op |-> "publish", ok |-> FALSE, publication |-> pub, mutation |-> mut,
   access |-> acc, synced |-> FALSE, durable |-> FALSE, keeps |-> keeps]
PublishOutcome(durable, synced, acc) ==
  [op |-> "publish", ok |-> TRUE, publication |-> "Published", mutation |-> "Started",
   access |-> acc, synced |-> synced, durable |-> durable, keeps |-> "none"]
SyncOutcome(ok) == [op |-> "sync", ok |-> ok, keeps |-> "stage"]

VARIABLES
  tree,     \* what each path below the staged root names now
  mode,     \* access of every object: "initial", "policy", "writable", "theirs"
  outside,  \* files that also have a name outside the stage
  names,    \* what "stage" and "target" name in the parent directory
  flushed,  \* files whose contents and access are on disk as they are now
  settled,  \* directories (Root included) whose entries are on disk
  onDisk,   \* `names` as the parent directory last put them on disk
  pc,       \* place in the running call
  opts,     \* options of the running call
  visited,  \* entries the running walk has returned: [path |-> identity]
  todo,     \* entries still to work on, <<path, identity>>
  pinned,   \* entries collected and opened for the owner policy
  applied,  \* the running pass has changed the access of an entry
  synced,   \* file_synced so far
  access,   \* access state reached by the access stage
  renamed,  \* what the rename has returned so far
  outcome,  \* what the last call returned
  calls, moves, faults,
  changed,  \* history: objects whose access the running call changed
  moved,    \* history: the object the call's rename moved, None before
  quiet,    \* history: marks passed since another process last moved
  crash     \* what is left after a crash: [names, lost, torn], or None

fsVars == <<tree, mode, outside, names, flushed, settled, onDisk>>
callVars == <<pc, opts, visited, todo, pinned, applied, synced, access, renamed, outcome>>
histVars == <<changed, moved, quiet>>
vars == <<fsVars, callVars, calls, moves, faults, histVars, crash>>

Entries == [Paths -> Ids \cup {None}]

NoEntries == [p \in Paths |-> None]

Init ==
  /\ tree \in InitTrees /\ outside \in SUBSET {tree[p] : p \in Paths} /\ outside \subseteq FileIds
  /\ Cardinality(outside) <= 1
  /\ mode = [o \in Ids \cup {Root} |-> "initial"]
  /\ names = [n \in {"stage", "target"} |-> IF n = "stage" THEN Root ELSE None]
  /\ flushed = {} /\ settled = {} /\ onDisk = [n \in {"stage", "target"} |-> None]
  /\ pc = "idle" /\ opts = None /\ visited = NoEntries /\ todo = {} /\ pinned = {}
  /\ applied = FALSE /\ synced = FALSE /\ access = "Preserved" /\ outcome = NoOutcome
  /\ renamed = "none"
  /\ calls = 0 /\ moves = 0 /\ faults = 0
  /\ changed = {} /\ moved = None /\ quiet = {} /\ crash = None

-----------------------------------------------------------------------------
\* Steps and results.

Step(from, to) == pc = from /\ pc' = to /\ UNCHANGED <<opts, calls, outcome, renamed, crash, moves>>
Same == UNCHANGED fsVars
NoFault == UNCHANGED faults

\* A native call fails, or a deadline that the code checks here has passed.
Fault == faults < MaxFaults /\ faults' = faults + 1

Finish(result) ==
  /\ pc' = "idle" /\ outcome' = result
  /\ todo' = {}
  /\ UNCHANGED <<opts, visited, pinned, applied, synced, renamed, calls, moves, crash>>

\* LocalTreePublishError::new while the stage is still owned by the caller.
PublishFails(mut, acc) ==
  Finish(PublishError("NotPublished", mut, acc, "stage")) /\ access' = acc

\* What publish_new makes of an access error: NotStarted exactly when the
\* access pass reports that nothing changed.
MutationOf(acc) ==
  IF acc = "Preserved" THEN "NotStarted"
  ELSE IF acc = "Indeterminate" THEN "Indeterminate" ELSE "Started"

AccessFails(acc) == PublishFails(MutationOf(acc), acc)

Mark(m) == quiet' = quiet \cup {m}
Unmarked == UNCHANGED quiet

-----------------------------------------------------------------------------
\* Walking the tree (LocalTreeObserver over a recursive, link-rejecting,
\* fail-fast directory walker): an entry is returned once, after the directory
\* it is in, with the identity its path names at that moment.

Due == {p \in Paths : /\ tree[p] # None /\ visited[p] = None
                      /\ Len(p) > 1 => visited[ParentOf(p)] = tree[ParentOf(p)]
                                       /\ visited[ParentOf(p)] \in DirIds}
NextEntry == ShallowFirst[CHOOSE i \in 1..Len(ShallowFirst) :
                            /\ ShallowFirst[i] \in Due
                            /\ \A j \in 1..(i - 1) : ShallowFirst[j] \notin Due]
Observe(p) == visited' = [visited EXCEPT ![p] = tree[p]]
Restart == visited' = NoEntries

Collected == {p \in Paths : visited[p] # None}
Found == {<<p, visited[p]>> : p \in Collected}
DirectoriesFound == {e \in Found : KindOf(e[2]) = "dir"}

\* entries.sort_by_key: files before directories, the deepest first.
Rank(p) == CHOOSE i \in 1..Len(ShallowFirst) : ShallowFirst[i] = p
Before(e, f) ==
  \/ KindOf(e[2]) # "dir" /\ KindOf(f[2]) = "dir"
  \/ (KindOf(e[2]) = "dir" <=> KindOf(f[2]) = "dir") /\ Rank(e[1]) > Rank(f[1])
First(e) == \A f \in todo \ {e} : Before(e, f)

-----------------------------------------------------------------------------
\* publish_new, up to the access stage.

\* The checks that change nothing: name, option conflict, owner policy, parent,
\* durability capability.
OptionsRefused(o) ==
  \/ o.name = "bad"
  \/ o.owner # None /\ o.access # "Preserve"
  \/ o.owner = "ownerBad"

CallPublish ==
  /\ pc = "idle" /\ calls < MaxCalls /\ crash = None
  /\ outcome.keeps = "stage"
  /\ \E o \in OptionSets :
       /\ opts' = o
       /\ pc' = IF OptionsRefused(o) THEN "refuse" ELSE "observe"
  /\ calls' = calls + 1 /\ changed' = {} /\ moved' = None
  /\ quiet' = {"call"} \cup (quiet \cap ({"treeSynced"} \cup IF changed = {} THEN {"intact"} ELSE {}))
  /\ applied' = FALSE /\ synced' = FALSE /\ access' = "Preserved" /\ Restart
  /\ outcome' = NoOutcome
  /\ renamed' = "none" /\ Same /\ UNCHANGED <<todo, pinned, moves, faults, crash>>

RefuseOptions ==
  /\ pc = "refuse" /\ PublishFails("NotStarted", "Preserved")
  /\ Same /\ NoFault /\ UNCHANGED histVars

\* The first look at the staged name.
ObserveStage ==
  /\ \/ /\ names["stage"] = Root /\ NoFault
        /\ Step("observe", IF opts.validation = None THEN "access" ELSE "verifyRoot")
        /\ Mark("verify") /\ UNCHANGED <<todo, pinned, applied, synced, access, visited>>
     \/ /\ pc = "observe" /\ names["stage"] # Root /\ NoFault
        /\ PublishFails("NotStarted", "Preserved") /\ Unmarked
     \/ /\ pc = "observe" /\ Fault /\ PublishFails("NotStarted", "Preserved") /\ Unmarked
  /\ Same /\ UNCHANGED <<changed, moved>>

\* verify_tree: what an entry is refused for.  A link count is compared with
\* the occurrences inside the tree only after the walk.
Refused(v, p) ==
  \/ v.exact # None /\ <<p, KindOf(tree[p])>> \notin v.exact
  \/ v.noLinks /\ KindOf(tree[p]) = "link"
  \/ v.private /\ KindOf(tree[p]) # "link" /\ mode[tree[p]] = "theirs"
MissingInEmptyTree(v) == v.exact # None /\ v.exact # {} /\ Collected = {}
Missing(v) == v.exact # None /\ \E e \in v.exact : visited[e[1]] = None
LinkCount(id) == Cardinality({p \in Paths : tree[p] = id}) + (IF id \in outside THEN 1 ELSE 0)
Occurrences(id) == Cardinality({p \in Paths : visited[p] = id})
OutsideLinked(v) ==
  v.noOutside /\ \E p \in Collected : KindOf(visited[p]) = "file"
                                      /\ LinkCount(visited[p]) > Occurrences(visited[p])

\* verify_root_privacy and the index of expected entries, in which a path may
\* not come twice, are before the walk.
TwiceExpected(v) == v.exact # None /\ \E e, f \in v.exact : e # f /\ e[1] = f[1]
VerifyRoot ==
  /\ pc = "verifyRoot"
  /\ LET refused == \/ opts.validation.private /\ mode[Root] = "theirs"
                    \/ TwiceExpected(opts.validation) IN
     \/ ~refused /\ NoFault /\ Step("verifyRoot", "verify")
        /\ UNCHANGED <<visited, todo, pinned, applied, synced, access>>
     \/ (IF refused THEN NoFault ELSE Fault) /\ PublishFails("NotStarted", "Preserved")
  /\ Same /\ UNCHANGED histVars

VerifyEntry ==
  /\ pc = "verify" /\ Due # {}
  /\ \/ /\ ~Refused(opts.validation, NextEntry) /\ Observe(NextEntry)
        /\ Step("verify", "verify") /\ NoFault /\ UNCHANGED <<todo, pinned, applied, synced, access>>
     \/ Refused(opts.validation, NextEntry) /\ NoFault /\ PublishFails("NotStarted", "Preserved")
     \/ Fault /\ PublishFails("NotStarted", "Preserved")
  /\ Same /\ UNCHANGED histVars

VerifyEnd ==
  /\ pc = "verify" /\ Due = {}
  /\ IF Missing(opts.validation) \/ OutsideLinked(opts.validation)
       THEN PublishFails("NotStarted", "Preserved")
       ELSE Step("verify", "access") /\ UNCHANGED <<visited, todo, pinned, applied, synced, access>>
  /\ Same /\ NoFault /\ UNCHANGED histVars

\* Which access stage runs: an owner policy and an unchanged access start with
\* a pass over the files, the current-user policies with their own collection.
StartAccess ==
  /\ Step("access", IF opts.access # "Preserve" THEN "collect"
                    ELSE IF opts.sync = "NotRequired" THEN "synced" ELSE "files")
  /\ Restart /\ synced' = (opts.sync # "NotRequired")
  /\ IF opts.access = "Preserve" THEN Unmarked ELSE Mark("collect")
  /\ Same /\ NoFault /\ UNCHANGED <<todo, pinned, applied, access, changed, moved>>

-----------------------------------------------------------------------------
\* sync_tree_files: each regular file is observed, opened again by its path,
\* compared and synchronized.  Only the synchronization itself may be waived
\* by "Preferred"; sync_tree_with_options always asks for "Required".

SyncRequired == opts = None \/ opts.sync = "Required"
FilesFail ==
  IF opts = None THEN Finish(SyncOutcome(FALSE)) /\ UNCHANGED access
  ELSE PublishFails("NotStarted", "Preserved")

FilesObserve ==
  /\ pc = "files" /\ todo = {} /\ Due # {}
  /\ \/ /\ Observe(NextEntry) /\ Step("files", "files") /\ NoFault
        /\ todo' = IF KindOf(tree[NextEntry]) = "file" THEN {<<NextEntry, tree[NextEntry]>>} ELSE {}
        /\ UNCHANGED <<pinned, applied, synced, access>>
     \/ Fault /\ FilesFail
  /\ Same /\ UNCHANGED histVars

FileSync ==
  /\ pc = "files" /\ todo # {}
  /\ \E e \in todo : First(e) /\ LET p == e[1] id == e[2] IN
       \/ /\ tree[p] = id /\ NoFault /\ flushed' = flushed \cup {id}
          /\ Step("files", "files") /\ todo' = {} /\ UNCHANGED <<visited, pinned, applied, synced, access>>
       \/ tree[p] # id /\ NoFault /\ FilesFail /\ UNCHANGED flushed
       \/ /\ Fault /\ UNCHANGED flushed
          /\ \/ FilesFail
             \/ /\ ~SyncRequired /\ tree[p] = id /\ synced' = FALSE /\ todo' = {}
                /\ Step("files", "files") /\ UNCHANGED <<visited, pinned, applied, access>>
  /\ UNCHANGED <<tree, mode, outside, names, settled, onDisk, histVars>>

FilesEnd ==
  /\ todo = {} /\ Due = {} /\ Restart
  /\ Step("files", IF opts = None THEN "dirs"
                   ELSE IF opts.owner # None THEN "ownerCollect" ELSE "final")
  /\ IF opts = None THEN Mark("dirs") ELSE Mark("collect")
  /\ Same /\ NoFault /\ UNCHANGED <<todo, pinned, applied, synced, access, changed, moved>>

\* sync_requirement == NotRequired: no file is touched.
SkipFiles ==
  /\ Step("synced", IF opts.owner # None THEN "ownerCollect" ELSE "final")
  /\ Mark("collect") /\ Restart
  /\ Same /\ NoFault /\ UNCHANGED <<todo, pinned, applied, synced, access, changed, moved>>

-----------------------------------------------------------------------------
\* sync_tree_with_options: files, descendant directories from the deepest, the
\* staged root, the parent.

CallSyncTree ==
  /\ pc = "idle" /\ calls < MaxCalls /\ crash = None
  /\ outcome.keeps = "stage"
  /\ calls' = calls + 1 /\ opts' = None /\ Restart
  /\ \/ names["stage"] = Root /\ NoFault /\ pc' = "files" /\ outcome' = NoOutcome
     \/ names["stage"] # Root /\ NoFault /\ pc' = "idle" /\ outcome' = SyncOutcome(FALSE)
     \/ Fault /\ pc' = "idle" /\ outcome' = SyncOutcome(FALSE)
  /\ quiet' = {"call"} /\ changed' = {} /\ moved' = None
  /\ Same /\ UNCHANGED <<todo, pinned, applied, synced, access, renamed, moves, crash>>

CollectDirectories ==
  /\ pc = "dirs"
  /\ \/ Due # {} /\ Observe(NextEntry) /\ Step("dirs", "dirs") /\ NoFault /\ UNCHANGED todo
     \/ Due = {} /\ todo' = DirectoriesFound /\ Step("dirs", "dirSync") /\ NoFault /\ UNCHANGED visited
     \/ Fault /\ pc' = "idle" /\ outcome' = SyncOutcome(FALSE) /\ UNCHANGED <<opts, renamed, calls, crash, moves, visited, todo>>
  /\ Same /\ UNCHANGED <<pinned, applied, synced, access, histVars>>

DirectorySync ==
  /\ pc = "dirSync" /\ todo # {}
  /\ \E e \in todo : First(e) /\ LET p == e[1] id == e[2] IN
       \/ /\ tree[p] = id /\ NoFault /\ settled' = settled \cup {id} /\ todo' = todo \ {e}
          /\ Step("dirSync", "dirSync") /\ UNCHANGED <<visited, pinned, applied, synced, access>>
       \/ tree[p] # id /\ NoFault /\ UNCHANGED <<settled, access>> /\ Finish(SyncOutcome(FALSE))
       \/ Fault /\ UNCHANGED <<settled, access>> /\ Finish(SyncOutcome(FALSE))
  /\ UNCHANGED <<tree, mode, outside, names, flushed, onDisk, histVars>>

RootSyncForgotten ==
  /\ pc = "dirSync" /\ todo = {}
  /\ NoFault /\ Step("dirSync", "parentSync")
  /\ UNCHANGED <<visited, todo, pinned, applied, synced, fsVars, access, histVars>>
RootSync ==
  /\ pc = "dirSync" /\ todo = {}
  /\ \/ settled' = settled \cup {Root} /\ NoFault /\ Step("dirSync", "parentSync")
        /\ UNCHANGED <<visited, todo, pinned, applied, synced>>
     \/ Fault /\ UNCHANGED settled /\ Finish(SyncOutcome(FALSE))
  /\ UNCHANGED <<tree, mode, outside, names, flushed, onDisk, access, histVars>>

ParentSync ==
  /\ pc = "parentSync"
  /\ \/ onDisk' = names /\ NoFault /\ Finish(SyncOutcome(TRUE))
        /\ quiet' = IF "call" \in quiet THEN quiet \cup {"treeSynced", "intact"} ELSE quiet
     \/ Fault /\ UNCHANGED onDisk /\ Finish(SyncOutcome(FALSE)) /\ Unmarked
  /\ UNCHANGED <<tree, mode, outside, names, flushed, settled, access, changed, moved>>

-----------------------------------------------------------------------------
\* apply_owner_access_policy_with_sync: collect, open and pin, change, verify,
\* synchronize.  Everything up to the pins leaves access "Preserved".

OwnerCollect ==
  /\ pc = "ownerCollect" /\ Due # {}
  /\ \/ /\ Cardinality(Collected) < opts.max /\ NoFault /\ Observe(NextEntry)
        /\ Step("ownerCollect", "ownerCollect") /\ UNCHANGED <<todo, pinned, applied, synced, access>>
     \/ Cardinality(Collected) >= opts.max /\ NoFault /\ AccessFails("Preserved")
     \/ Fault /\ AccessFails("Preserved")
  /\ Same /\ UNCHANGED histVars

\* A policy that would stop the verification walk is refused for a tree that
\* is not empty.
OwnerCollected ==
  /\ pc = "ownerCollect" /\ Due = {}
  /\ IF Collected # {} /\ opts.owner = "ownerShut"
       THEN AccessFails("Preserved")
       ELSE /\ Step("ownerCollect", "ownerPin") /\ todo' = Found /\ pinned' = {}
            /\ UNCHANGED <<visited, applied, synced, access>>
  /\ Same /\ NoFault /\ UNCHANGED histVars

\* An entry is opened by name; its handle must be on the object collected.
OwnerPin ==
  /\ pc = "ownerPin" /\ todo # {}
  /\ \E e \in todo : First(e) /\ LET p == e[1] id == e[2] IN
       \/ /\ KindOf(id) # "link" /\ tree[p] = id /\ NoFault
          /\ Step("ownerPin", "ownerPin") /\ todo' = todo \ {e} /\ pinned' = pinned \cup {<<p, id>>}
          /\ UNCHANGED <<visited, applied, synced, access>>
       \/ (KindOf(id) = "link" \/ tree[p] # id) /\ NoFault /\ AccessFails("Preserved")
       \/ Fault /\ AccessFails("Preserved")
  /\ Same /\ UNCHANGED histVars

OwnerPinned ==
  /\ pc = "ownerPin" /\ todo = {}
  /\ IF names["stage"] = Root
       THEN Step("ownerPin", "ownerApply") /\ todo' = Found
            /\ UNCHANGED <<visited, pinned, applied, synced, access>>
       ELSE AccessFails("Preserved")
  /\ Same /\ NoFault /\ UNCHANGED histVars

\* The access of one object is set through its handle, which also reads it back.
SetMode(o, m) == mode' = [mode EXCEPT ![o] = m] /\ changed' = changed \cup {o}
                 /\ flushed' = flushed \ {o}
\* A failing native call may have changed the object before it failed.
MaybeSetMode(o, m) == SetMode(o, m) \/ UNCHANGED <<mode, changed, flushed>>

\* What apply_owner_policy_mutations reports when an object's own change fails,
\* and when a check that changes nothing fails.
ChangeFailureAsCheck == IF applied THEN "Mixed" ELSE "Preserved"
ChangeFailure == IF applied THEN "Mixed" ELSE "Indeterminate"
CheckFailure == IF applied THEN "Mixed" ELSE "Preserved"

OwnerApply ==
  /\ pc = "ownerApply" /\ todo # {}
  /\ \E e \in todo : First(e) /\ LET id == e[2] IN
       \/ SetMode(id, "policy") /\ NoFault /\ Step("ownerApply", "ownerRebind")
          /\ UNCHANGED <<visited, todo, pinned, applied, synced, access>>
       \/ Fault /\ UNCHANGED <<mode, changed, flushed>> /\ AccessFails(CheckFailure)
       \/ Fault /\ MaybeSetMode(id, "policy") /\ AccessFails(ChangeFailure)
  /\ UNCHANGED <<tree, outside, names, settled, onDisk, moved, quiet>>

\* The name must still lead to the object that was changed.
OwnerRebind ==
  /\ pc = "ownerRebind"
  /\ \E e \in todo : First(e) /\ LET p == e[1] id == e[2] IN
       \/ tree[p] = id /\ NoFault /\ Step("ownerRebind", "ownerApply")
          /\ todo' = todo \ {e} /\ applied' = TRUE /\ UNCHANGED <<visited, pinned, synced, access>>
       \/ tree[p] # id /\ NoFault /\ AccessFails("Indeterminate")
       \/ Fault /\ AccessFails("Indeterminate")
  /\ Same /\ UNCHANGED histVars

\* The root: the staged name must lead to it, before and after its change.
OwnerRootCheck ==
  /\ pc = "ownerApply" /\ todo = {}
  /\ \/ names["stage"] = Root /\ NoFault /\ Step("ownerApply", "ownerRoot")
        /\ UNCHANGED <<visited, todo, pinned, applied, synced, access>>
     \/ names["stage"] # Root /\ NoFault /\ AccessFails(CheckFailure)
     \/ Fault /\ (AccessFails(CheckFailure) \/ AccessFails(ChangeFailure))
  /\ Same /\ UNCHANGED histVars

OwnerRootApply ==
  /\ pc = "ownerRoot"
  /\ \/ SetMode(Root, "policy") /\ NoFault /\ Step("ownerRoot", "ownerRootRebind")
        /\ UNCHANGED <<visited, todo, pinned, applied, synced, access>>
     \/ Fault /\ MaybeSetMode(Root, "policy") /\ AccessFails(ChangeFailure)
  /\ UNCHANGED <<tree, outside, names, settled, onDisk, moved, quiet>>

OwnerRootRebind ==
  /\ \/ names["stage"] = Root /\ NoFault /\ Step("ownerRootRebind", "ownerVerify") /\ Restart
        /\ Mark("recheck") /\ UNCHANGED <<todo, pinned, applied, synced, access>>
     \/ pc = "ownerRootRebind" /\ names["stage"] # Root /\ NoFault /\ AccessFails("Indeterminate") /\ Unmarked
     \/ pc = "ownerRootRebind" /\ Fault /\ AccessFails("Indeterminate") /\ Unmarked
  /\ Same /\ UNCHANGED <<changed, moved>>

\* verify_owner_policy_entries: a second walk must find exactly the pinned
\* entries, then every handle is compared with its name and read back.  A root
\* that the policy closed to its owner is not walked again when it was empty.
SkipsVerifyWalk == pinned = {} /\ opts.owner = "ownerShut"

OwnerVerify ==
  /\ pc = "ownerVerify" /\ Due # {} /\ ~SkipsVerifyWalk
  /\ \/ <<NextEntry, tree[NextEntry]>> \in pinned /\ NoFault /\ Observe(NextEntry)
        /\ Step("ownerVerify", "ownerVerify") /\ UNCHANGED <<todo, pinned, applied, synced, access>>
     \/ <<NextEntry, tree[NextEntry]>> \notin pinned /\ NoFault /\ AccessFails("Indeterminate")
     \/ Fault /\ AccessFails("Indeterminate")
  /\ Same /\ UNCHANGED histVars

OwnerVerified ==
  /\ pc = "ownerVerify" /\ (Due = {} \/ SkipsVerifyWalk)
  /\ IF \E e \in pinned : visited[e[1]] = None
       THEN AccessFails("Indeterminate")
       ELSE Step("ownerVerify", "ownerRecheck") /\ todo' = Found
            /\ UNCHANGED <<visited, pinned, applied, synced, access>>
  /\ Same /\ NoFault /\ UNCHANGED histVars

OwnerRecheck ==
  /\ pc = "ownerRecheck" /\ todo # {}
  /\ \E e \in todo : First(e) /\ LET p == e[1] id == e[2] IN
       \/ tree[p] = id /\ mode[id] = "policy" /\ NoFault /\ Step("ownerRecheck", "ownerRecheck")
          /\ todo' = todo \ {e} /\ UNCHANGED <<visited, pinned, applied, synced, access>>
       \/ ~(tree[p] = id /\ mode[id] = "policy") /\ NoFault /\ AccessFails("Indeterminate")
       \/ Fault /\ AccessFails("Indeterminate")
  /\ Same /\ UNCHANGED histVars

OwnerRootRecheck ==
  /\ pc = "ownerRecheck" /\ todo = {}
  /\ LET good == mode[Root] = "policy" IN
       \/ good /\ NoFault /\ Step("ownerRecheck", "ownerSync") /\ access' = "OwnerPolicyApplied"
          /\ todo' = Found /\ UNCHANGED <<visited, pinned, applied, synced>>
       \/ ~good /\ NoFault /\ AccessFails("Indeterminate")
       \/ Fault /\ AccessFails("Indeterminate")
  /\ Same /\ UNCHANGED histVars

\* sync_owner_policy_files: the pinned files, through their handles.
OwnerSync ==
  /\ pc = "ownerSync" /\ todo # {}
  /\ \E e \in todo : First(e) /\
     LET id == e[2]
         go(flag, set) == /\ Step("ownerSync", "ownerSync") /\ todo' = todo \ {e}
                          /\ synced' = flag /\ flushed' = set /\ UNCHANGED <<visited, pinned, applied, access>>
     IN \/ (KindOf(id) # "file" \/ opts.sync = "NotRequired") /\ go(synced, flushed) /\ NoFault
        \/ KindOf(id) = "file" /\ opts.sync # "NotRequired" /\ NoFault /\ go(synced, flushed \cup {id})
        \/ KindOf(id) = "file" /\ opts.sync = "Preferred" /\ Fault /\ go(FALSE, flushed)
        \/ Fault /\ AccessFails("OwnerPolicyApplied") /\ UNCHANGED flushed
  /\ UNCHANGED <<tree, mode, outside, names, settled, onDisk, histVars>>

OwnerDone ==
  /\ todo = {} /\ Step("ownerSync", "final")
  /\ Same /\ NoFault /\ UNCHANGED <<visited, todo, pinned, applied, synced, access, histVars>>

-----------------------------------------------------------------------------
\* apply_access_policy_with_sync: every entry is looked up again, opened,
\* compared, changed, looked up once more and synchronized, one after another.
\* It never reports "Preserved".

UserCollect ==
  /\ pc = "collect"
  /\ \/ Due # {} /\ Observe(NextEntry) /\ NoFault /\ Step("collect", "collect")
        /\ UNCHANGED <<todo, pinned, applied, synced, access>>
     \/ Due = {} /\ todo' = Found /\ NoFault /\ Step("collect", "userApply")
        /\ UNCHANGED <<visited, pinned, applied, synced, access>>
     \/ Fault /\ AccessFails("Indeterminate")
  /\ Same /\ UNCHANGED histVars

Stays(p, id) == tree[p] = id \/ (opts.os = "windows" /\ KindOf(id) = "link")

UserApply ==
  /\ pc = "userApply" /\ todo # {}
  /\ \E e \in todo : First(e) /\ LET p == e[1] id == e[2] IN
       \/ /\ Stays(p, id) /\ KindOf(id) = "link" /\ NoFault /\ todo' = todo \ {e}
          /\ Step("userApply", "userApply") /\ UNCHANGED <<visited, pinned, applied, synced, access>>
          /\ UNCHANGED <<mode, flushed, changed>>
       \/ /\ Stays(p, id) /\ KindOf(id) # "link" /\ NoFault /\ SetMode(id, "policy")
          /\ Step("userApply", "userConfirm") /\ UNCHANGED <<visited, todo, pinned, applied, synced, access>>
       \/ ~Stays(p, id) /\ NoFault /\ AccessFails(ChangeFailure) /\ UNCHANGED <<mode, flushed, changed>>
       \/ Fault /\ Stays(p, id) /\ KindOf(id) # "link" /\ MaybeSetMode(id, "policy") /\ AccessFails(ChangeFailure)
  /\ UNCHANGED <<tree, outside, names, settled, onDisk, moved, quiet>>

\* Windows keeps to the handle and does not look the entry up again.
UserConfirm ==
  /\ pc = "userConfirm"
  /\ \E e \in todo : First(e) /\
     LET p == e[1] id == e[2]
         good == opts.os = "windows" \/ (tree[p] = id /\ mode[id] = "policy")
         go(flag, set) == /\ Step("userConfirm", "userApply") /\ todo' = todo \ {e} /\ applied' = TRUE
                          /\ synced' = flag /\ flushed' = set /\ UNCHANGED <<visited, pinned, access>>
         wanted == KindOf(id) = "file" /\ opts.sync # "NotRequired"
     IN \/ good /\ NoFault /\ go(synced, IF wanted THEN flushed \cup {id} ELSE flushed)
        \/ good /\ wanted /\ opts.sync = "Preferred" /\ Fault /\ go(FALSE, flushed)
        \/ good /\ wanted /\ opts.sync = "Required" /\ Fault /\ AccessFails("Mixed") /\ UNCHANGED flushed
        \/ ~good /\ NoFault /\ AccessFails("Indeterminate") /\ UNCHANGED flushed
        \/ opts.os # "windows" /\ Fault /\ AccessFails("Indeterminate") /\ UNCHANGED flushed
  /\ UNCHANGED <<tree, mode, outside, names, settled, onDisk, histVars>>

\* Unix changes the root through the handle the stage keeps; Windows opens it
\* by its name again and compares it.
UserRoot ==
  /\ pc = "userApply" /\ todo = {}
  /\ LET found == opts.os # "windows" \/ names["stage"] = Root IN
       \/ found /\ SetMode(Root, "policy") /\ NoFault /\ Step("userApply", "userRootConfirm")
          /\ UNCHANGED <<visited, todo, pinned, applied, synced, access>>
       \/ ~found /\ NoFault /\ AccessFails(ChangeFailure) /\ UNCHANGED <<mode, changed, flushed>>
       \/ Fault /\ found /\ MaybeSetMode(Root, "policy") /\ AccessFails(ChangeFailure)
  /\ UNCHANGED <<tree, outside, names, settled, onDisk, moved, quiet>>

UserRootConfirm ==
  /\ pc = "userRootConfirm"
  /\ LET good == opts.os = "windows" \/ mode[Root] = "policy" IN
       \/ good /\ NoFault /\ Step("userRootConfirm", "final") /\ access' = opts.access
          /\ UNCHANGED <<visited, todo, pinned, applied, synced>>
       \/ ~good /\ NoFault /\ AccessFails("Indeterminate")
       \/ opts.os # "windows" /\ Fault /\ AccessFails("Indeterminate")
  /\ Same /\ UNCHANGED histVars

-----------------------------------------------------------------------------
\* publish_new, from the last look at the staged name.

AccessMutation == IF access = "Preserved" THEN "NotStarted" ELSE "Started"
NeedsWritableRoot == opts.os = "apple" /\ opts.access = "ReadOnlyCurrentUser"

FinalCheck ==
  /\ \/ names["stage"] = Root /\ NoFault /\ Mark("final")
        /\ Step("final", IF NeedsWritableRoot THEN "writable" ELSE "rename")
        /\ UNCHANGED <<visited, todo, pinned, applied, synced, access>>
     \/ pc = "final" /\ names["stage"] # Root /\ NoFault /\ PublishFails("Indeterminate", access) /\ Unmarked
     \/ pc = "final" /\ Fault /\ PublishFails("Indeterminate", access) /\ Unmarked
  /\ Same /\ UNCHANGED <<changed, moved>>

\* Apple systems refuse to rename a read-only directory: the root is made
\* writable through its handle first, and read-only again after the rename.
MakeRootWritable ==
  /\ pc = "writable"
  /\ \/ SetMode(Root, "writable") /\ NoFault /\ Step("writable", "rename")
        /\ UNCHANGED <<visited, todo, pinned, applied, synced, access>>
     \/ Fault /\ UNCHANGED <<mode, changed, flushed>> /\ PublishFails("Started", access)
     \/ Fault /\ MaybeSetMode(Root, "writable") /\ PublishFails("Started", "Indeterminate")
  /\ UNCHANGED <<tree, outside, names, settled, onDisk, moved, quiet>>

\* rename_with_options without overwriting: the names decide, and a native
\* error other than AlreadyExists or NotFound may come after the effect.
MoveName ==
  /\ names' = [names EXCEPT !["target"] = names["stage"], !["stage"] = None]
  /\ moved' = names["stage"]
CanRename == names["stage"] # None /\ names["target"] = None
RenameReturns(state) ==
  pc = "rename" /\ pc' = (IF state = "ok" THEN "renameSync" ELSE "restore") /\ renamed' = state
  /\ UNCHANGED <<opts, calls, outcome, crash, moves>>

Rename ==
  /\ \/ CanRename /\ NoFault /\ MoveName /\ RenameReturns("ok")
     \/ ~CanRename /\ NoFault /\ UNCHANGED <<names, moved>> /\ RenameReturns("Unchanged")
     \/ Fault /\ CanRename /\ MoveName /\ RenameReturns("Indeterminate")
     \/ Fault /\ UNCHANGED <<names, moved>> /\ RenameReturns("Indeterminate")
  /\ UNCHANGED <<tree, mode, outside, flushed, settled, onDisk, visited, todo, pinned, applied, synced,
                 access, changed, quiet>>

\* published_durability of the common parent directory.
RenameSync ==
  /\ pc = "renameSync" /\ pc' = "restore"
  /\ \/ opts.durability = "NotRequired" /\ NoFault /\ UNCHANGED <<onDisk, renamed>>
     \/ opts.durability # "NotRequired" /\ NoFault /\ onDisk' = names /\ renamed' = "durable"
     \/ opts.durability = "Preferred" /\ Fault /\ UNCHANGED <<onDisk, renamed>>
     \/ opts.durability = "Required" /\ Fault /\ UNCHANGED onDisk /\ renamed' = "Renamed"
  /\ UNCHANGED <<tree, mode, outside, names, flushed, settled, opts, visited, todo, pinned, applied, synced,
                 access, outcome, calls, moves, crash, histVars>>

\* rename_result.state() with the outcome of the restoration.
PublishResult(state, restored) ==
  LET acc == IF restored THEN access ELSE "Indeterminate" IN
  CASE state \in {"ok", "durable"} /\ restored -> PublishOutcome(state = "durable", synced, access)
    [] state \in {"ok", "durable"} /\ ~restored -> PublishError("Published", "Started", acc, "none")
    [] state = "Unchanged" -> PublishError("NotPublished", AccessMutation, acc, "stage")
    [] state = "Renamed" -> PublishError("Published", "Started", acc, "disarmed")
    [] state = "Indeterminate" -> PublishError("Indeterminate", "Indeterminate", acc, "disarmed")

RestoreAndReturn ==
  /\ pc = "restore"
  /\ \/ /\ NoFault /\ Finish(PublishResult(renamed, TRUE)) /\ access' = access
        /\ IF NeedsWritableRoot THEN SetMode(Root, "policy") ELSE UNCHANGED <<mode, changed, flushed>>
     \/ /\ Fault /\ NeedsWritableRoot /\ Finish(PublishResult(renamed, FALSE)) /\ access' = "Indeterminate"
        /\ MaybeSetMode(Root, "policy")
  /\ UNCHANGED <<tree, outside, names, settled, onDisk, moved, quiet>>

-----------------------------------------------------------------------------
\* The other processes, and crashes.

Disturb == /\ moves < MaxMoves /\ moves' = moves + 1 /\ crash = None /\ quiet' = {}
           /\ UNCHANGED <<callVars, calls, faults, changed, moved, crash>>

Holder(p) == IF Len(p) = 1 THEN Root ELSE tree[ParentOf(p)]
Unused == Ids \ {tree[p] : p \in Paths}

\* An entry appears, disappears or is replaced by another object.
OthersChangeEntry(p, x) ==
  /\ Disturb /\ Holder(p) \in DirIds \cup {Root} /\ x \in Unused \cup {None} /\ x # tree[p]
  /\ tree' = [q \in Paths |-> IF q = p THEN x ELSE IF Below(p, q) THEN None ELSE tree[q]]
  /\ settled' = settled \ {Holder(p), x} /\ flushed' = flushed \ {x}
  /\ UNCHANGED <<mode, outside, names, onDisk>>

\* The staged name or the target name is moved away, taken, or put back.
OthersChangeName(n, x) ==
  /\ Disturb /\ x # names[n] /\ (x = Root => Root \notin {names["stage"], names["target"]})
  /\ names' = [names EXCEPT ![n] = x]
  /\ UNCHANGED <<tree, mode, outside, flushed, settled, onDisk>>

OthersChangeMode(o) ==
  /\ Disturb /\ mode[o] # "theirs" /\ mode' = [mode EXCEPT ![o] = "theirs"] /\ flushed' = flushed \ {o}
  /\ UNCHANGED <<tree, outside, names, settled, onDisk>>

OthersLink(o) ==
  /\ Disturb /\ o \notin outside /\ outside' = outside \cup {o}
  /\ UNCHANGED <<tree, mode, names, flushed, settled, onDisk>>

\* What was not synchronized may be lost: entries of a directory that was not
\* synchronized, contents or access of a file that was not, and the parent's
\* names since they were last put on disk.
AtRisk == {p \in Paths : tree[p] # None /\ Holder(p) \notin settled}
Unflushed == {tree[p] : p \in Paths} \cap (FileIds \ flushed)

Crash ==
  /\ pc # "down" /\ pc' = "down"
  /\ \E n \in {names, onDisk}, lost \in {{}, AtRisk}, torn \in {{}, Unflushed} :
       crash' = [names |-> n, lost |-> lost, torn |-> torn]
  /\ opts' = None /\ visited' = NoEntries /\ todo' = {} /\ pinned' = {} /\ applied' = FALSE
  /\ synced' = FALSE /\ access' = "Preserved" /\ renamed' = "none"
  /\ UNCHANGED <<fsVars, outcome, calls, moves, faults, histVars>>

Beginning ==
  \/ CallPublish \/ RefuseOptions \/ ObserveStage \/ VerifyRoot \/ VerifyEntry \/ VerifyEnd \/ StartAccess
  \/ FilesObserve \/ FileSync \/ FilesEnd \/ SkipFiles
TreeSync == CallSyncTree \/ CollectDirectories \/ DirectorySync \/ RootSync \/ ParentSync
OwnerAccess ==
  \/ OwnerCollect \/ OwnerCollected \/ OwnerPin \/ OwnerPinned \/ OwnerApply \/ OwnerRebind
  \/ OwnerRootCheck \/ OwnerRootApply \/ OwnerRootRebind \/ OwnerVerify \/ OwnerVerified
  \/ OwnerRecheck \/ OwnerRootRecheck \/ OwnerSync \/ OwnerDone
CurrentUserAccess == UserCollect \/ UserApply \/ UserConfirm \/ UserRoot \/ UserRootConfirm
RenameToTarget == FinalCheck \/ MakeRootWritable \/ Rename \/ RenameSync \/ RestoreAndReturn
Owner == Beginning \/ TreeSync \/ OwnerAccess \/ CurrentUserAccess \/ RenameToTarget

Others ==
  \/ \E p \in Paths, x \in Ids \cup {None} : OthersChangeEntry(p, x)
  \/ \E n \in {"stage", "target"}, x \in {Root, Alien, None} : OthersChangeName(n, x)
  \/ \E o \in Ids \cup {Root} : OthersChangeMode(o)
  \/ \E o \in FileIds : OthersLink(o)

Next == Owner \/ Others \/ Crash

Spec == Init /\ [][Next]_vars

-----------------------------------------------------------------------------
\* Properties.

Returned == pc = "idle" /\ outcome.op = "publish"
Objects == {tree[p] : p \in Paths} \cap (FileIds \cup DirIds)

\* A publish result tells what the call did.  Its publication state is what
\* happened to the names: "NotPublished" keeps the stage armed and means nothing
\* was renamed, "Published" means a rename took place, and of the staged root
\* itself when nobody moved the staged name after its last check.  Its access
\* and mutation states are what happened to the tree: "Preserved" and
\* "NotStarted" only when no object's access was changed, "Mixed" only when one
\* was, and a successful policy only when every file and directory has it in a
\* tree left alone since the verification walk began (since the collection, when
\* that walk is skipped) (publish.rs:264-418, access.rs).
PublishReportTruthful ==
  Returned =>
    /\ (outcome.publication = "NotPublished") = (outcome.keeps = "stage")
    /\ outcome.publication = "NotPublished" => moved = None
    /\ outcome.publication = "Published" => moved # None
    /\ outcome.publication = "Published" /\ "final" \in quiet => moved = Root /\ names["target"] = Root
    /\ outcome.access = "Preserved" => changed = {}
    /\ outcome.mutation = "NotStarted" => changed = {} /\ moved = None
    /\ outcome.access = "Mixed" => changed # {}
    /\ outcome.access = "OwnerPolicyApplied" /\ (IF opts.owner = "ownerShut" THEN "collect" ELSE "recheck") \in quiet
         => \A o \in Objects \cup {Root} : mode[o] = "policy"
    /\ outcome.access \in {"CurrentUserOnly", "ReadOnlyCurrentUser"} /\ "collect" \in quiet
         => \A o \in Objects : mode[o] = "policy"
    /\ outcome.ok /\ outcome.access \in {"CurrentUserOnly", "ReadOnlyCurrentUser"} /\ "collect" \in quiet
         => mode[Root] = "policy"

\* A tree published with an exact index and without outside links, and left
\* alone since its validation began, is the index: nothing missing, nothing
\* more, no file reachable from elsewhere, no access for others when privacy
\* was asked for (tree_verification.rs).
PublishedTreeIsValid ==
  Returned /\ outcome.publication = "Published" /\ "verify" \in quiet /\ opts.validation # None
    => LET v == opts.validation IN
       /\ v.exact # None => {<<p, KindOf(tree[p])>> : p \in {q \in Paths : tree[q] # None}} = v.exact
       /\ v.noLinks => \A p \in Paths : tree[p] \notin LinkIds
       /\ v.noOutside => \A p \in Paths : tree[p] \notin outside
       /\ v.private => \A o \in Objects \cup {Root} : mode[o] # "theirs"

\* A tree that sync_tree_with_options synchronized and that was then published
\* durably is complete at the target after a crash, if the publication
\* synchronized the files or neither it nor a publication that failed before it
\* changed an access (sync.rs:489-660, publish.rs).
SyncedTreeSurvivesCrash ==
  /\ crash # None /\ outcome.op = "publish" /\ outcome.ok /\ outcome.durable
  /\ "treeSynced" \in quiet
  /\ outcome.synced \/ (outcome.access = "Preserved" /\ "intact" \in quiet)
  => crash.names["target"] = Root /\ crash.lost = {} /\ crash.torn = {}

=============================================================================
