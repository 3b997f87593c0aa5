------------------------------ MODULE TreeCopy ------------------------------
(***************************************************************************)
(* The unified copy: one call of LocalFileSystem::copy on a file, a link   *)
(* or a tree, by the Host backend (paths) and by the Rooted backend        *)
(* (entries beneath an opened root).  A staged file is installed over a    *)
(* destination entry, a link or a directory is created in its place, and a *)
(* conflicting entry is kept, skipped or removed, as the options say.      *)
(*                                                                         *)
(* Source and destination are trees over the same Paths; Root is the       *)
(* requested operand.  Another process may create, replace or remove       *)
(* destination entries between any two steps.  A native call may fail and  *)
(* the deadline may pass where the code checks it: both are faults.        *)
(* Removing a destination tree is one step with the effects TreeDelete     *)
(* shows a deletion to report.                                             *)
(***************************************************************************)
EXTENDS Naturals, Sequences, FiniteSets, FiniteSetsExt

CONSTANTS
  Names, Paths,  \* entry names, and the relative paths of both trees
  Cases,         \* [src, old, parent, req]: source tree, destination, request
  MaxMoves,      \* bound: changes another process makes
  MaxFaults      \* bound: native calls that fail, deadline checks included

Root == <<>>
Above(p) == SubSeq(p, 1, Len(p) - 1)
Below(d, p) == Len(p) > Len(d) /\ SubSeq(p, 1, Len(d)) = d

\* A link's target: a path of the source tree, nothing, or out of the scope.
Dangling == <<"dangling">>
Outside == <<"outside">>

Nothing == [kind |-> "none", by |-> "nobody", from |-> Root]
Made(k, s) == [kind |-> k, by |-> "copy", from |-> s]
Theirs(k) == [kind |-> k, by |-> "other", from |-> Root]

\* LocalCopyOptions with the scope of the call; `scoped` says that a Host call
\* is confined to a directory and `related` that source and destination name
\* one entry or overlap.
Options ==
  [scope : {"host", "rooted"}, conflict : {"Fail", "Overwrite", "Skip"}, types : {"Fail", "Replace", "Skip"},
   atomicity : {"Preferred", "Required"}, durability : {"Preferred", "Required"}, preserve : BOOLEAN,
   parents : BOOLEAN, follow : BOOLEAN, mode : {"Auto", "Entry", "Tree"},
   entries : Nat, bytes : Nat, depth : Nat, open : Nat, scoped : BOOLEAN, related : BOOLEAN]

ASSUME ConstantsAssumption ==
  /\ Root \in Paths /\ \A p \in Paths \ {Root} : Above(p) \in Paths /\ p[Len(p)] \in Names
  /\ {Dangling, Outside} \cap Paths = {} /\ {MaxMoves, MaxFaults} \subseteq Nat
  /\ \A c \in Cases : c.req \in Options
  /\ \A c \in Cases : c.old \in [Paths -> {Nothing} \cup {[Theirs(k) EXCEPT !.by = "old"] : k \in {"file", "link", "dir"}}]

NoEntry == [kind |-> "none", s |-> Root, d |-> Root, seen |-> Nothing, removing |-> FALSE,
            existed |-> FALSE, opened |-> Nothing, at |-> "none"]

\* LocalCopyDirStats; `meta` is CopyMetadataEffect.
NoStats == [files |-> 0, dirs |-> 0, over |-> 0, skip |-> 0, bytes |-> 0,
            nonAtomic |-> FALSE, meta |-> "None"]

\* LocalCopyOutcome and LocalCopyFailure.
NoResult == [ok |-> FALSE, state |-> "none", stats |-> NoStats, atomic |-> FALSE]

VARIABLES
  src,      \* source tree: kind, target of a link, size of a file
  req,      \* LocalCopyOptions of the call, and its scope
  old,      \* destination tree at the call
  dst,      \* destination tree
  parent,   \* the parent of the requested destination exists
  pc,       \* place in the call
  frames,   \* directories being copied, innermost last
  cur,      \* entry being copied
  stats,    \* statistics so far
  left,     \* entries and bytes left in CopyBudget
  removed,  \* destination_removed of the entry being copied
  result,   \* what the call returned
  moves, faults,
  touched,  \* history: destination paths the call changed
  landed,   \* history: destination paths at which it published an entry
  quiet     \* history: no other process has moved

tree == <<src, req, old>>
vars == <<tree, dst, parent, pc, frames, cur, stats, left, removed, result,
          moves, faults, touched, landed, quiet>>

\* CopyBudget::new.
Budget == [entries |-> req.entries, bytes |-> req.bytes]

Init ==
  /\ \E c \in Cases : src = c.src /\ req = c.req /\ old = c.old /\ dst = c.old /\ parent = c.parent
  /\ pc = "begin" /\ frames = <<>> /\ cur = NoEntry /\ stats = NoStats
  /\ left = Budget
  /\ removed = FALSE /\ result = NoResult /\ moves = 0 /\ faults = 0
  /\ touched = {} /\ landed = {} /\ quiet = TRUE

Host == req.scope = "host"
AtRoot == frames = <<>>
Place(p) == IF p = Root THEN parent ELSE dst[Above(p)].kind = "dir"

-----------------------------------------------------------------------------
\* Policies and the state a failure reports.

\* Mutant: a directory that exists is skipped, not merged into.
DecideSkipsDirectories(directory, seen) ==
  CASE seen.kind = "none" -> "Create"
    [] directory # (seen.kind = "dir") -> [Fail |-> "Conflict", Replace |-> "Replace", Skip |-> "Skip"][req.types]
    [] directory /\ req.conflict # "Skip" -> "Merge"
    [] OTHER -> [Fail |-> "Conflict", Overwrite |-> "Replace", Skip |-> "Skip"][req.conflict]

\* decide_copy_destination.
Decide(directory, seen) ==
  CASE seen.kind = "none" -> "Create"
    [] directory /\ seen.kind = "dir" -> "Merge"
    [] directory # (seen.kind = "dir") -> [Fail |-> "Conflict", Replace |-> "Replace", Skip |-> "Skip"][req.types]
    [] OTHER -> [Fail |-> "Conflict", Overwrite |-> "Replace", Skip |-> "Skip"][req.conflict]

\* validate_copy_source_kind.
KindAllowed == IF src.kind[Root] = "dir" THEN req.mode # "Entry" ELSE req.mode # "Tree"

\* copy_source_guarantee_unavailable.
GuaranteeMissing ==
  \/ src.kind[Root] # "file" /\ req.atomicity = "Required"
  \/ src.kind[Root] = "dir" /\ req.durability = "Required"

\* copy_file_replace_requires_atomicity.
AtomicReplaceMissing ==
  src.kind[Root] # "dir" /\ req.atomicity = "Required" /\ req.types = "Replace" /\ dst[Root].kind = "dir"

\* copy_failure_state: what a stage and the statistics alone tell.
StateOfStage(stage, st) ==
  CASE stage = "SynchronizeFile" /\ st.files > 0 -> "Published"
    [] st.files > 0 \/ st.dirs > 0 -> "PartiallyPublished"
    [] stage \in {"InspectSource", "InspectSourceEntry", "ReadSourceDirectory", "PrepareDestination",
                  "CleanupTemporaryFile", "PublishSymlinkUnchanged"} -> "Unchanged"
    [] stage = "PublishSymlinkPartially" -> "PartiallyPublished"
    [] OTHER -> "Indeterminate"

\* merge_copy_failure_state.
Merge(inferred, hint) ==
  CASE "Published" \in {inferred, hint} -> "Published"
    [] "Indeterminate" \in {inferred, hint} -> "Indeterminate"
    [] "PartiallyPublished" \in {inferred, hint} -> "PartiallyPublished"
    [] OTHER -> inferred

\* LocalCopyFailure::from_copy_dir_error; `atomic` is the destination state a
\* staged install proved and `hint` the effect an error carries, or "none".
FailureState(stage, st, atomic, hint) ==
  LET some == st.files > 0 \/ st.dirs > 0 \/ st.meta = "Applied"
      proven == CASE atomic \in {"Indeterminate", "Missing"} -> "Indeterminate"
                  [] atomic = "Unchanged" -> IF st.meta = "Indeterminate" THEN "Indeterminate"
                                             ELSE IF some THEN "PartiallyPublished" ELSE "Unchanged"
                  [] OTHER -> StateOfStage(stage, st)
      known == CASE st.meta = "Indeterminate" -> "Indeterminate"
                 [] st.meta = "Applied" /\ proven = "Unchanged" -> "PartiallyPublished"
                 [] OTHER -> proven
  IN Merge(known, hint)

\* copy_failure_from_dir_error: one installed file is not a published tree.
Downgraded(state, hint) ==
  IF ~Host /\ hint = "Published" /\ src.kind[Root] = "dir" THEN "PartiallyPublished" ELSE state

-----------------------------------------------------------------------------
\* Steps and results.

Fixed == UNCHANGED <<tree, moves, quiet>>
Same == UNCHANGED <<dst, touched, landed>>
Keep == UNCHANGED <<frames, stats, left>>

Fault == faults < MaxFaults /\ faults' = faults + 1
NoFault == UNCHANGED faults

Goto(to) == pc' = to /\ Fixed /\ UNCHANGED <<parent, result>>

\* The call returns and its frames, permits and readers are dropped.
Return(r) ==
  /\ pc' = "done" /\ result' = r /\ Fixed /\ UNCHANGED parent
  /\ frames' = <<>> /\ cur' = NoEntry /\ stats' = NoStats /\ removed' = FALSE
  /\ left' = [entries |-> 0, bytes |-> 0]

FailWith(state, st) == Return([ok |-> FALSE, state |-> state, stats |-> st, atomic |-> FALSE])

\* A failure of the copy pipeline with no staging file in place.
Failed(stage, st, hint) ==
  FailWith(Downgraded(FailureState(stage, st, "none", hint), hint), st)

\* One with a staging file, which is removed first (copy_dir_error_with_staging);
\* `n` faults led here.
FailedStaged(stage, st, atomic, hint, n) ==
  /\ faults' = faults + n /\ faults' <= MaxFaults
  /\ FailWith(Downgraded(FailureState(stage, st, atomic, hint), hint), st)

\* Mutant: a removal before the failure is forgotten.
PartialForgotten(hint) == hint

\* mark_partial_after_removal.
Partial(hint) == IF removed /\ hint # "Published" THEN "PartiallyPublished" ELSE hint

\* copy_failure_unchanged.
Refused == FailWith("Unchanged", NoStats)

EntryDone(st) ==
  /\ pc' = (IF AtRoot THEN "end" ELSE "next") /\ stats' = st /\ cur' = NoEntry /\ removed' = FALSE
  /\ Fixed /\ UNCHANGED <<frames, left, parent, result>>

Skipped == EntryDone([stats EXCEPT !.skip = @ + 1]) /\ Same /\ NoFault

\* Destination changes, with their history.
Publish(p, node) ==
  /\ dst' = [dst EXCEPT ![p] = node]
  /\ touched' = touched \cup {p} /\ landed' = landed \cup {p}
Clear(S) ==
  /\ dst' = [q \in Paths |-> IF q \in S THEN Nothing ELSE dst[q]]
  /\ touched' = touched \cup {q \in S : dst[q].kind # "none"} /\ UNCHANGED landed

-----------------------------------------------------------------------------
\* The call: preflight, parents, and the end.

\* copy: refused before anything is inspected or changed at the destination.
BeginRefused ==
  /\ pc = "begin"
  /\ \/ NoFault /\ (req.entries = 0 \/ ~KindAllowed \/ req.related \/ GuaranteeMissing)
     \/ Fault
  /\ Refused /\ Same

\* RootedLocalFileSystem::copy: a type conflict it may skip ends the call; a
\* required atomic replacement of a directory ends it in either scope.
BeginSettled ==
  /\ pc = "begin" /\ req.entries > 0 /\ KindAllowed /\ ~req.related /\ ~GuaranteeMissing
  /\ \/ /\ ~Host /\ req.types = "Skip" /\ dst[Root].kind # "none"
        /\ (src.kind[Root] = "dir") # (dst[Root].kind = "dir")
        /\ Return([NoResult EXCEPT !.ok = TRUE, !.stats.skip = 1])
     \/ AtomicReplaceMissing /\ Refused
  /\ Same /\ NoFault

\* What the call goes on with; the Host copy of a link decides before it
\* creates parents.
Begin ==
  /\ pc = "begin" /\ req.entries > 0 /\ KindAllowed /\ ~req.related /\ ~GuaranteeMissing
  /\ ~AtomicReplaceMissing
  /\ ~Host /\ req.types = "Skip" => dst[Root].kind = "none" \/ (src.kind[Root] = "dir") = (dst[Root].kind = "dir")
  /\ left' = [left EXCEPT !.entries = @ - 1]
  /\ cur' = [NoEntry EXCEPT !.kind = src.kind[Root]]
  /\ Goto(IF Host /\ src.kind[Root] = "link" THEN "link" ELSE "parents")
  /\ UNCHANGED <<frames, stats, removed>> /\ Same /\ NoFault

\* How a link gives way to the one that replaces it: the Host tree copy looks
\* at a directory again before it removes it.
LinkNext(c) ==
  CASE ~c.removing -> "linkCreate"
    [] c.seen.kind # "dir" -> "unlink"
    [] Host /\ ~AtRoot -> "reinspect"
    [] OTHER -> "remove"

\* prepare_copy_parent, and the create_dir_all of the Rooted copy.
Parents ==
  /\ pc = "parents" /\ parent' = (parent \/ req.parents)
  /\ pc' = (IF cur.at = "decided" THEN LinkNext(cur) ELSE cur.kind)
  /\ Fixed /\ UNCHANGED <<cur, removed, result>> /\ Keep /\ Same /\ NoFault
ParentsFail == pc = "parents" /\ req.parents /\ Fault /\ Refused /\ Same

\* LocalCopyDirStats::was_fully_skipped.
FullySkipped(st) == st.skip > 0 /\ st.files = 0 /\ st.dirs = 0 /\ st.over = 0 /\ st.meta = "None"

\* The outcome; `atomic` as the scope computes it.
End ==
  /\ pc = "end"
  /\ LET plain == src.kind[Root] = "file" /\ ~stats.nonAtomic /\ ~FullySkipped(stats)
     IN Return([ok |-> TRUE, state |-> "none", stats |-> stats, atomic |-> plain])
  /\ Same /\ NoFault

\* published_durability: the required sync of the parents fails.
EndSyncFails ==
  /\ pc = "end" /\ req.durability = "Required" /\ ~FullySkipped(stats)
  /\ Fault /\ FailWith("Published", stats) /\ Same

-----------------------------------------------------------------------------
\* Directories: copy_tree over CopyTreeBackend.

\* symlink_target_is_directory, of a link that is followed.
LeadsToDirectory(s) == req.follow /\ src.kind[s] = "link" /\ src.target[s] \in Paths /\ src.kind[src.target[s]] = "dir"

\* process_entry: an entry is copied by its kind.
ProcessEntry(n) ==
  LET f == frames[Len(frames)]
      s == Append(f.s, n)
      enters == LeadsToDirectory(s)
  IN /\ frames' = [frames EXCEPT ![Len(frames)].unread = @ \ {n}]
     /\ left' = [left EXCEPT !.entries = @ - 1]
     /\ cur' = [NoEntry EXCEPT !.kind = IF enters THEN "dir" ELSE src.kind[s],
                               !.s = IF enters THEN src.target[s] ELSE s, !.d = Append(f.d, n)]
     /\ Goto(cur'.kind) /\ UNCHANGED <<stats, removed>> /\ Same /\ NoFault

\* An entry beyond a limit, or a followed link the scope refuses.
EntryRefused(n) ==
  LET f == frames[Len(frames)]
      s == Append(f.s, n)
      follows == src.kind[s] = "link" /\ req.follow
  IN CASE Len(f.d) + 1 > req.depth -> "InspectSourceEntry"
       [] left.entries = 0 -> "UpdateStatistics"
       [] follows /\ (~Host \/ req.scoped) /\ src.target[s] = Outside -> "InspectSourceEntry"
       [] follows /\ Host /\ req.scoped /\ src.target[s] = Dangling -> "InspectSourceEntry"
       [] OTHER -> "none"

\* copy_tree: the next entry of the innermost frame.
NextEntry ==
  /\ pc = "next"
  /\ \E n \in frames[Len(frames)].unread :
       LET stage == EntryRefused(n)
       IN IF stage = "none" THEN ProcessEntry(n) ELSE Failed(stage, stats, "none") /\ Same /\ NoFault
NextEntryFails ==
  /\ pc = "next" /\ Fault /\ Same
  /\ \E stage \in {"ReadSourceDirectory", "InspectSourceEntry"} :
       /\ stage = "InspectSourceEntry" => frames[Len(frames)].unread # {}
       /\ Failed(stage, stats, "none")

\* Mutant: a finished directory stays on the stack.
FinishFrameStays ==
  /\ pc = "next" /\ frames[Len(frames)].unread = {} /\ NoFault
  /\ Goto("next") /\ UNCHANGED <<frames, stats, cur, left, removed>> /\ Same

\* finish_frame: requested permissions are applied to the directory that now
\* has the destination's name.
FinishFrame ==
  /\ pc = "next" /\ frames[Len(frames)].unread = {}
  /\ LET f == frames[Len(frames)]
     IN IF req.preserve /\ dst[f.d].kind = "none"
        THEN Failed("PreservePermissions", [stats EXCEPT !.meta = "Indeterminate"], "none") /\ Same
        ELSE /\ frames' = SubSeq(frames, 1, Len(frames) - 1)
             /\ stats' = (IF req.preserve THEN [stats EXCEPT !.meta = "Applied"] ELSE stats)
             /\ touched' = (IF req.preserve THEN touched \cup {f.d} ELSE touched)
             /\ Goto(IF Len(frames) = 1 THEN "end" ELSE "next")
             /\ UNCHANGED <<cur, left, removed, dst, landed>>
  /\ NoFault
FinishFrameFails ==
  /\ pc = "next" /\ frames[Len(frames)].unread = {} /\ Fault
  /\ \/ Failed("PreservePermissions", stats, "none") /\ Same
     \/ /\ req.preserve /\ Failed("PreservePermissions", [stats EXCEPT !.meta = "Indeterminate"], "none")
        /\ \E did \in BOOLEAN : touched' = (IF did THEN touched \cup {frames[Len(frames)].d} ELSE touched)
        /\ UNCHANGED <<dst, landed>>

\* enter_copy_directory and prepare_directory up to the decision; the Rooted
\* copy of a tree takes the permit of its root first.
Active == {frames[i].s : i \in DOMAIN frames}
DirInspect ==
  /\ pc = "dir" /\ Same /\ NoFault
  /\ LET seen == dst[cur.d]
         action == Decide(TRUE, seen)
     IN CASE (Host /\ Len(cur.d) > req.depth) \/ cur.s \in Active -> Failed("InspectSource", stats, "none")
          [] ~Host /\ AtRoot /\ req.open = 0 -> Failed("ReadSourceDirectory", stats, "none")
          [] action = "Conflict" -> Failed("PrepareDestination", stats, "none")
          [] action = "Skip" -> EntryDone([stats EXCEPT !.skip = @ + 1])
          [] action = "Merge" ->
               /\ stats' = (IF req.conflict = "Overwrite" THEN [stats EXCEPT !.over = @ + 1] ELSE stats)
               /\ Goto("enter") /\ UNCHANGED <<cur, frames, left, removed>>
          [] OTHER ->
               /\ cur' = [cur EXCEPT !.seen = seen]
               /\ Goto(IF action = "Create" THEN "dirCreate" ELSE IF Host THEN "dirReinspect" ELSE "dirRemove")
               /\ UNCHANGED removed /\ Keep
DirInspectFails ==
  /\ pc = "dir" /\ Fault /\ Same
  /\ \E stage \in {"InspectSource", "PrepareDestination"} : Failed(stage, stats, "none")

\* remove_destination_non_directory_if_unchanged: its second inspection.
DirReinspect ==
  /\ pc = "dirReinspect" /\ Same /\ UNCHANGED <<cur, removed>> /\ Keep /\ NoFault
  /\ Goto(IF dst[cur.d].kind \in {"file", "link"} THEN "dirRemove" ELSE "dirCreate")
DirReinspectFails ==
  pc = "dirReinspect" /\ Fault /\ Failed("PrepareDestination", stats, "none") /\ Same

\* remove_file on whatever the name holds now.
DirRemove ==
  /\ pc = "dirRemove" /\ NoFault
  /\ IF dst[cur.d].kind \in {"file", "link"}
     THEN /\ Clear({cur.d}) /\ removed' = TRUE /\ Goto("dirCreate") /\ UNCHANGED cur /\ Keep
     ELSE Failed("PrepareDestination", stats, "none") /\ Same
DirRemoveFails == pc = "dirRemove" /\ Fault /\ Failed("PrepareDestination", stats, "none") /\ Same

\* create_copy_destination_dir with reconcile_directory_creation (Host: a
\* directory that appeared is merged into), create_dir (Rooted).
DirCreate ==
  /\ pc = "dirCreate" /\ NoFault
  /\ LET replaces == cur.seen.kind # "none"
         made == [stats EXCEPT !.dirs = @ + 1, !.over = @ + (IF replaces THEN 1 ELSE 0)]
         merged == IF replaces \/ req.conflict = "Overwrite" THEN [stats EXCEPT !.over = @ + 1] ELSE stats
         there == dst[cur.d].kind
     IN CASE Place(cur.d) /\ there = "none" ->
               /\ Publish(cur.d, Made("dir", cur.s)) /\ stats' = made
               /\ Goto("enter") /\ UNCHANGED <<cur, frames, left, removed>>
          [] Host /\ there = "dir" ->
               stats' = merged /\ Goto("enter") /\ Same /\ UNCHANGED <<cur, frames, left, removed>>
          [] OTHER -> Failed("PrepareDestination", stats, Partial("none")) /\ Same
DirCreateFails ==
  pc = "dirCreate" /\ Fault /\ Failed("PrepareDestination", stats, Partial("none")) /\ Same

\* acquire_directory and the reader of the source directory.
EnterDir ==
  /\ pc = "enter" /\ Same /\ NoFault
  /\ IF Len(frames) >= req.open
     THEN Failed("ReadSourceDirectory", stats, "none")
     ELSE /\ frames' = Append(frames, [s |-> cur.s, d |-> cur.d,
                     unread |-> {n \in Names : Append(cur.s, n) \in Paths /\ src.kind[Append(cur.s, n)] # "none"}])
          /\ cur' = NoEntry /\ removed' = FALSE /\ Goto("next") /\ UNCHANGED <<stats, left>>
EnterDirFails == pc = "enter" /\ Fault /\ Failed("ReadSourceDirectory", stats, "none") /\ Same

-----------------------------------------------------------------------------
\* Files: staged beside the destination, then installed.

To(to) == Goto(to) /\ UNCHANGED <<cur, removed>> /\ Keep /\ Same

Fits == src.size[cur.s] <= left.bytes

\* record_copied_file and completed_file_statistics.
Installed ==
  [stats EXCEPT !.files = @ + 1, !.bytes = @ + src.size[cur.s],
                !.over = @ + (IF cur.seen.kind = "none" THEN 0 ELSE 1),
                !.nonAtomic = @ \/ cur.seen.kind = "dir"]

\* copy_file_with_options and copy_file up to the decision; `removing` says
\* that the entry seen is removed before the install.
FileInspect ==
  /\ pc = "file"
  /\ LET seen == dst[cur.d]
         action == Decide(FALSE, seen)
     IN CASE action = "Skip" -> Skipped
          [] action = "Conflict" -> Failed("PrepareDestination", stats, "none") /\ Same /\ NoFault
          [] OTHER ->
               /\ cur' = [cur EXCEPT !.seen = seen,
                          !.removing = IF Host THEN seen.kind = "dir" ELSE seen.kind \in {"dir", "link"}]
               /\ Goto(IF Host THEN "stage" ELSE "open")
               /\ UNCHANGED removed /\ Keep /\ Same /\ NoFault
FileInspectFails ==
  /\ pc = "file" /\ Fault /\ Same
  /\ \E stage \in {"PrepareDestination"} \cup (IF Host THEN {} ELSE {"InspectSourceEntry"}) :
       Failed(stage, stats, "none")

\* stage_copy_file: the staging file is created, filled, given permissions and
\* synced before the destination changes.
Stage ==
  /\ pc = "stage" /\ Same
  /\ CASE ~Place(cur.d) -> Failed("PrepareDestination", stats, "none") /\ NoFault
       [] ~Fits -> FailedStaged("CopyFileContents", stats, "none", "none", 0)
       [] OTHER ->
            /\ left' = [left EXCEPT !.bytes = @ - src.size[cur.s]]
            /\ Goto("commit") /\ UNCHANGED <<cur, removed, frames, stats>> /\ NoFault
StageFails ==
  /\ pc = "stage" /\ Same
  /\ \/ Failed("PrepareDestination", stats, "none") /\ Fault
     \/ \E stage \in {"CopyFileContents"} \cup (IF req.preserve THEN {"PreservePermissions"} ELSE {})
                      \cup (IF req.durability = "Required" THEN {"SynchronizeFile"} ELSE {}) :
          FailedStaged(stage, stats, "none", "none", 1)
     \/ FailedStaged("CopyFileContents", stats, "Unchanged", "none", 1)

\* commit_staged_copy_file: a conflicting directory goes first.
HostCommit == pc = "commit" /\ Host /\ To(IF cur.removing THEN "reinspect" ELSE "install") /\ NoFault
HostCommitFails ==
  /\ pc = "commit" /\ Host /\ Same
  /\ FailedStaged(IF cur.removing THEN "PrepareDestination" ELSE "CommitFile", stats, "Unchanged", "none", 1)

\* remove_destination_directory_if_unchanged: what is no longer a directory
\* is left to the step that follows.
AfterRemoval == IF cur.kind = "link" THEN "linkCreate" ELSE IF Host THEN "install" ELSE "commit"
Reinspect ==
  /\ pc = "reinspect" /\ NoFault
  /\ IF dst[cur.d].kind = "dir" THEN To("remove")
     ELSE Goto(AfterRemoval) /\ removed' = TRUE /\ UNCHANGED cur /\ Keep /\ Same
ReinspectFails ==
  /\ pc = "reinspect" /\ Same
  /\ IF cur.kind = "file" THEN FailedStaged("PrepareDestination", stats, "none", "none", 1)
     ELSE Failed("PrepareDestination", stats, "none") /\ Fault

\* The deletion of the destination directory; its error's effect becomes the
\* hint (deletion_failure_hint).  `gone` is what it had removed.
RemoveError(hint, n) ==
  IF cur.kind = "file" THEN FailedStaged("PrepareDestination", stats, "none", hint, n)
  ELSE Failed("PrepareDestination", stats, hint) /\ faults' = faults + n /\ faults' <= MaxFaults
RemoveTree ==
  /\ pc = "remove" /\ cur.seen.kind = "dir"
  /\ IF dst[cur.d].kind = "dir"
     THEN /\ Clear({q \in Paths : q = cur.d \/ Below(cur.d, q)}) /\ NoFault
          /\ removed' = TRUE /\ Goto(AfterRemoval) /\ UNCHANGED cur /\ Keep
     ELSE RemoveError("none", 0) /\ Same
RemoveTreeFails ==
  /\ pc = "remove" /\ cur.seen.kind = "dir" /\ dst[cur.d].kind = "dir"
  /\ LET under == {q \in Paths : Below(cur.d, q) /\ dst[q].kind # "none"}
     IN \E gone \in {{}, under} \cup (IF under = {} THEN {} ELSE {{q \in under : \A r \in under : ~Below(q, r)}}) :
          \E hint \in {"Indeterminate", IF gone = {} THEN "none" ELSE "PartiallyPublished"} :
            RemoveError(hint, 1) /\ Clear(gone)
\* A non-directory seen by the Rooted copy is unlinked.
RemoveOther ==
  /\ pc = "remove" /\ cur.seen.kind # "dir"
  /\ IF dst[cur.d].kind \in {"file", "link"}
     THEN /\ Clear({cur.d}) /\ removed' = TRUE /\ Goto(AfterRemoval) /\ UNCHANGED cur /\ Keep /\ NoFault
     ELSE RemoveError("none", 0) /\ Same
RemoveOtherFails == pc = "remove" /\ cur.seen.kind # "dir" /\ RemoveError("none", 1) /\ Same

\* Mutant: an entry that appeared after the inspection is replaced.
HostInstallReplaces ==
  /\ pc = "install" /\ Host
  /\ IF Place(cur.d) /\ dst[cur.d].kind # "dir"
     THEN Publish(cur.d, Made("file", cur.s)) /\ EntryDone(Installed) /\ NoFault
     ELSE FailedStaged("CommitFile", stats, "none", "none", 0) /\ Same

\* The install: replace_file, or move_file_without_replacing.
HostInstall ==
  /\ pc = "install" /\ Host
  /\ LET there == dst[cur.d].kind
         replaces == req.conflict = "Overwrite" /\ there \in {"file", "link"}
     IN CASE Place(cur.d) /\ (there = "none" \/ replaces) ->
               Publish(cur.d, Made("file", cur.s)) /\ EntryDone(Installed) /\ NoFault
          [] Place(cur.d) /\ there # "none" /\ req.conflict = "Skip" -> Skipped
          [] OTHER -> FailedStaged("CommitFile", stats, "none", "none", 0) /\ Same
\* The deadline passes, the staging file of a skipped entry stays behind, or
\* the rename reports an error it may have followed through.
HostInstallFails ==
  /\ pc = "install" /\ Host
  /\ LET there == dst[cur.d].kind
     IN \/ /\ Same /\ IF cur.removing THEN FailedStaged("CommitFile", stats, "none", "PartiallyPublished", 1)
                      ELSE FailedStaged("CommitFile", stats, "Unchanged", "none", 1)
        \/ /\ req.conflict = "Skip" /\ Place(cur.d) /\ there # "none" /\ Fault /\ Same
           /\ Failed("CleanupTemporaryFile", stats, "none")
        \/ FailedStaged("CommitFile", stats, "none", "none", 1) /\ Same
        \/ /\ Place(cur.d) /\ (there = "none" \/ (req.conflict = "Overwrite" /\ there # "dir"))
           /\ FailedStaged("CommitFile", stats, "none", "none", 1) /\ Publish(cur.d, Made("file", cur.s))

\* begin_atomic_write_with_options, or begin_copy_replacement_staging for an
\* entry that is to be removed.
OpenWriter ==
  /\ pc = "open"
  /\ LET there == dst[cur.d].kind
     IN CASE ~Place(cur.d) -> Failed("PrepareDestination", stats, "none") /\ Same /\ NoFault
          [] cur.removing -> To("copy") /\ NoFault
          [] there # "none" /\ req.conflict # "Overwrite" ->
               cur' = [cur EXCEPT !.at = "open"] /\ Goto("raceSkip") /\ UNCHANGED removed /\ Keep /\ Same /\ NoFault
          [] there \in {"link", "dir"} -> Failed("PrepareDestination", stats, "none") /\ Same /\ NoFault
          [] OTHER ->
               /\ cur' = [cur EXCEPT !.existed = there = "file"]
               /\ Goto("copy") /\ UNCHANGED removed /\ Keep /\ Same /\ NoFault
OpenWriterFails == pc = "open" /\ Same /\ FailedStaged("PrepareDestination", stats, "none", "none", 1)

\* should_skip_conflict_race: the entry that won the race is looked at again.
RaceLost ==
  IF cur.at = "open" THEN Failed("PrepareDestination", stats, Partial("none"))
  ELSE FailWith(FailureState("CommitFile", stats, "Unchanged", Partial("none")), stats)
RaceSkip ==
  /\ pc = "raceSkip"
  /\ IF ~removed /\ dst[cur.d].kind # "none" /\ Decide(FALSE, dst[cur.d]) = "Skip"
     THEN Skipped ELSE RaceLost /\ Same /\ NoFault
RaceSkipFails == pc = "raceSkip" /\ ~removed /\ Fault /\ RaceLost /\ Same

\* budget.copy into the writer.
CopyIn ==
  /\ pc = "copy" /\ Same
  /\ IF Fits
     THEN /\ left' = [left EXCEPT !.bytes = @ - src.size[cur.s]] /\ Goto(IF cur.removing THEN "recheck" ELSE "commit")
          /\ UNCHANGED <<cur, removed, frames, stats>> /\ NoFault
     ELSE FailedStaged("CopyFileContents", stats, "none", IF cur.removing THEN "Unchanged" ELSE "none", 0)
CopyInFails ==
  /\ pc = "copy" /\ Same
  /\ FailedStaged("CopyFileContents", stats, "none", IF cur.removing THEN "Unchanged" ELSE "none", 1)

\* The entry to remove must still be the one seen, or be gone.
Recheck ==
  /\ pc = "recheck"
  /\ IF dst[cur.d] \in {cur.seen, Nothing} THEN To("remove") /\ NoFault
     ELSE FailedStaged("PrepareDestination", stats, "none", "Unchanged", 0) /\ Same
RecheckFails == pc = "recheck" /\ FailedStaged("PrepareDestination", stats, "none", "Unchanged", 1) /\ Same

\* commit_attempt: a destination that existed is opened again, and must be the
\* same entry when the staging file is installed.
RootedCommit ==
  /\ pc = "commit" /\ ~Host
  /\ LET there == dst[cur.d]
     IN CASE ~cur.existed -> To("install") /\ NoFault
          [] there.kind = "none" -> FailedStaged("CommitFile", stats, "Missing", Partial("none"), 0) /\ Same
          [] there.kind \in {"link", "dir"} -> FailedStaged("CommitFile", stats, "Unchanged", Partial("none"), 0) /\ Same
          [] OTHER ->
               cur' = [cur EXCEPT !.opened = there] /\ Goto("verify") /\ UNCHANGED removed /\ Keep /\ Same /\ NoFault
RootedCommitFails ==
  /\ pc = "commit" /\ ~Host /\ Same
  /\ \E atomic \in {"none", "Unchanged"} : FailedStaged("CommitFile", stats, atomic, Partial("none"), 1)

\* verify_rooted_atomic_destination_identity.
Verify ==
  /\ pc = "verify"
  /\ IF dst[cur.d] = cur.opened THEN To("install") /\ NoFault
     ELSE FailedStaged("CommitFile", stats, IF dst[cur.d].kind = "none" THEN "Missing" ELSE "Unchanged",
                       Partial("none"), 0) /\ Same
VerifyFails == pc = "verify" /\ FailedStaged("CommitFile", stats, "Unchanged", Partial("none"), 1) /\ Same

\* install_and_sync_parent: over the old entry, or without replacing one.
RootedInstall ==
  /\ pc = "install" /\ ~Host
  /\ LET there == dst[cur.d].kind
         free == IF cur.existed THEN there # "dir" ELSE there = "none"
     IN CASE Place(cur.d) /\ free -> Publish(cur.d, Made("file", cur.s)) /\ EntryDone(Installed) /\ NoFault
          [] Place(cur.d) /\ ~cur.existed ->
               cur' = [cur EXCEPT !.at = "install"] /\ Goto("raceSkip") /\ UNCHANGED removed /\ Keep /\ Same /\ NoFault
          [] OTHER -> FailedStaged("CommitFile", stats, "Unchanged", Partial("none"), 0) /\ Same
RootedInstallFails ==
  /\ pc = "install" /\ ~Host
  /\ LET there == dst[cur.d].kind
         free == Place(cur.d) /\ IF cur.existed THEN there # "dir" ELSE there = "none"
     IN \/ \E atomic \in {"Unchanged", "Indeterminate"} :
             FailedStaged("CommitFile", stats, atomic, Partial("none"), 1) /\ Same
        \/ free /\ Publish(cur.d, Made("file", cur.s)) /\ FailedStaged("CommitFile", stats, "Indeterminate", Partial("none"), 1)
        \/ /\ free /\ req.durability = "Required" /\ Fault
           /\ Publish(cur.d, Made("file", cur.s)) /\ Failed("CommitFile", Installed, "Published")

-----------------------------------------------------------------------------
\* Links: copy_symlink_entry (the Host operand), copy_symlink_with_options
\* (in a Host tree) and copy_symlink (Rooted).

LinkInspect ==
  /\ pc = "link"
  /\ LET seen == dst[cur.d]
         action == Decide(FALSE, seen)
         next == [cur EXCEPT !.seen = seen, !.removing = action = "Replace",
                             !.at = IF Host /\ AtRoot THEN "decided" ELSE "none"]
     IN CASE action = "Skip" -> Skipped
          [] action = "Conflict" -> Failed("PrepareDestination", stats, "none") /\ Same /\ NoFault
          [] OTHER ->
               /\ cur' = next /\ Goto(IF Host /\ AtRoot THEN "parents" ELSE LinkNext(next))
               /\ UNCHANGED removed /\ Keep /\ Same /\ NoFault
\* The inspection, read_link or a deadline check; copy_symlink_entry reports
\* each of them as unchanged.
LinkInspectFails ==
  /\ pc = "link" /\ Fault /\ Same
  /\ \/ Host /\ AtRoot /\ Refused
     \/ ~(Host /\ AtRoot) /\ \E stage \in {"PrepareDestination", IF Host THEN "CopyFileContents" ELSE "InspectSourceEntry"} :
                               Failed(stage, stats, "none")

\* remove_file on whatever the name holds now.
UnlinkError ==
  IF Host /\ AtRoot THEN FailWith("Indeterminate", stats) ELSE Failed("PrepareDestination", stats, "none")
Unlink ==
  /\ pc = "unlink" /\ NoFault
  /\ IF dst[cur.d].kind \in {"file", "link"}
     THEN Clear({cur.d}) /\ removed' = TRUE /\ Goto("linkCreate") /\ UNCHANGED cur /\ Keep
     ELSE UnlinkError /\ Same
UnlinkFails == pc = "unlink" /\ Fault /\ UnlinkError /\ Same

\* The deadline, then create_symlink_entry or create_symlink_for_copy.
LinkStage == IF removed THEN "PublishSymlinkPartially" ELSE "PublishSymlinkUnchanged"
LinkCreateError ==
  IF Host /\ AtRoot THEN FailWith(IF cur.removing THEN "Indeterminate" ELSE "Unchanged", stats)
  ELSE Failed(LinkStage, stats, Partial("none"))
LinkCreate ==
  /\ pc = "linkCreate" /\ NoFault
  /\ IF Place(cur.d) /\ dst[cur.d].kind = "none"
     THEN /\ Publish(cur.d, Made("link", cur.s))
          /\ EntryDone([stats EXCEPT !.files = @ + 1, !.over = @ + (IF cur.seen.kind = "none" THEN 0 ELSE 1),
                                     !.nonAtomic = TRUE])
     ELSE LinkCreateError /\ Same
LinkCreateFails ==
  /\ pc = "linkCreate" /\ Fault /\ Same
  /\ Failed(LinkStage, stats, Partial("none")) \/ LinkCreateError

-----------------------------------------------------------------------------
\* Another process changes one destination entry; what was below it goes.
OtherMoves ==
  /\ pc \notin {"begin", "done"} /\ moves < MaxMoves /\ moves' = moves + 1 /\ quiet' = FALSE
  /\ \E p \in Paths, k \in {"none", "file", "link", "dir"} :
       /\ Place(p) /\ dst[p] # Theirs(k) /\ (k = "none" => dst[p].kind # "none")
       /\ dst' = [q \in Paths |-> IF q = p THEN (IF k = "none" THEN Nothing ELSE Theirs(k))
                                  ELSE IF Below(p, q) THEN Nothing ELSE dst[q]]
  /\ UNCHANGED <<tree, parent, pc, frames, cur, stats, left, removed, result, faults, touched, landed>>

Preflight == BeginRefused \/ BeginSettled \/ Begin \/ Parents \/ ParentsFail \/ End \/ EndSyncFails
Directories ==
  \/ NextEntry \/ NextEntryFails \/ FinishFrame \/ FinishFrameFails
  \/ DirInspect \/ DirInspectFails \/ DirReinspect \/ DirReinspectFails
  \/ DirRemove \/ DirRemoveFails \/ DirCreate \/ DirCreateFails \/ EnterDir \/ EnterDirFails
Removal ==
  \/ Reinspect \/ ReinspectFails \/ RemoveTree \/ RemoveTreeFails \/ RemoveOther \/ RemoveOtherFails
HostFiles == Stage \/ StageFails \/ HostCommit \/ HostCommitFails \/ HostInstall \/ HostInstallFails
RootedFiles ==
  \/ OpenWriter \/ OpenWriterFails \/ RaceSkip \/ RaceSkipFails \/ CopyIn \/ CopyInFails
  \/ Recheck \/ RecheckFails \/ RootedCommit \/ RootedCommitFails \/ Verify \/ VerifyFails
  \/ RootedInstall \/ RootedInstallFails
Links == LinkInspect \/ LinkInspectFails \/ Unlink \/ UnlinkFails \/ LinkCreate \/ LinkCreateFails
Call == Preflight \/ Directories \/ FileInspect \/ FileInspectFails \/ Removal \/ HostFiles \/ RootedFiles \/ Links
Terminating == pc = "done" /\ UNCHANGED vars

Next == Call \/ OtherMoves \/ Terminating
\* The caller's thread keeps running; nothing makes a native call fail.
Spec == Init /\ [][Next]_vars /\ WF_vars(Call /\ NoFault)

-----------------------------------------------------------------------------
\* Properties.

\* LocalCopyFailure::state tells the truth about the destination: Unchanged
\* means that nothing was published, and, unless another process interfered,
\* nothing removed; Published that the requested file or link is in place; and
\* PartiallyPublished that an undisturbed call did change something.
CopyFailureTruthful ==
  pc = "done" /\ ~result.ok =>
    /\ result.state = "Unchanged" => landed = {} /\ (quiet => touched = {})
    /\ result.state = "Published" => Root \in landed /\ src.kind[Root] # "dir"
    /\ result.state = "PartiallyPublished" /\ quiet => touched # {}

\* A copy destroys a destination entry only as the conflict policies let it,
\* whenever that entry appeared: a directory, and whatever gives way to a
\* directory, under Replace; a file or link under Overwrite or within a
\* replaced directory.
CopyDestroysOnlyByPolicy ==
  [][\A p \in Paths :
       dst[p].kind # "none" /\ dst'[p] # dst[p] /\ moves' = moves =>
         IF dst[p].kind = "dir" \/ cur.kind = "dir" THEN req.types = "Replace"
         ELSE req.conflict = "Overwrite" \/ (req.types = "Replace" /\ Below(cur.d, p))]_vars

\* What a copy should do, read off the source, the destination and the request
\* at the call.  From[d] is the source of destination entry d, or Dangling.
Follows(s) == src.kind[s] = "link" /\ req.follow
Aim(s) == IF Follows(s) /\ src.target[s] \in Paths /\ src.kind[src.target[s]] = "dir" THEN src.target[s] ELSE s
Merges(d) == old[d].kind \in {"none", "dir"} \/ req.types = "Replace"
From[d \in Paths] ==
  IF d = Root THEN Root
  ELSE LET up == From[Above(d)]
           s == Append(up, d[Len(d)])
       IN IF up \in Paths /\ src.kind[up] = "dir" /\ Merges(Above(d)) /\ s \in Paths /\ src.kind[s] # "none"
          THEN Aim(s) ELSE Dangling
Reached == {d \in Paths : From[d] # Dangling}
Clashes(d) == old[d].kind # "none" /\ (src.kind[From[d]] = "dir") # (old[d].kind = "dir")
Meets(d) == old[d].kind # "none" /\ src.kind[From[d]] # "dir" /\ old[d].kind # "dir"
Refuses(d) == (Clashes(d) /\ req.types = "Fail") \/ (Meets(d) /\ req.conflict = "Fail")
Keeps(d) == (Clashes(d) /\ req.types = "Skip") \/ (Meets(d) /\ req.conflict = "Skip")
Copied == {d \in Reached : ~Keeps(d)}
Files == {d \in Copied : src.kind[From[d]] = "file"}
Expected ==
  [d \in Paths |->
     IF d \in Copied THEN IF src.kind[From[d]] = "dir" /\ old[d].kind = "dir" THEN old[d]
                          ELSE Made(src.kind[From[d]], From[d])
     ELSE IF \E a \in Copied : Below(a, d) /\ src.kind[From[a]] # "dir" THEN Nothing
     ELSE old[d]]

\* The reasons for which an undisturbed copy fails.
Loops(d) == \E a \in Reached : Below(a, d) /\ From[a] = From[d] /\ src.kind[From[d]] = "dir"
Escapes(d) ==
  d # Root /\ From[Above(d)] # Dangling /\
    LET s == Append(From[Above(d)], d[Len(d)])
    IN s \in Paths /\ Follows(s) /\
         \/ src.target[s] = Outside /\ (~Host \/ req.scoped)
         \/ src.target[s] = Dangling /\ Host /\ req.scoped
Obstacle ==
  \/ ~KindAllowed \/ req.related \/ GuaranteeMissing \/ (~parent /\ ~req.parents)
  \/ src.kind[Root] # "dir" /\ req.atomicity = "Required" /\ req.types = "Replace" /\ old[Root].kind = "dir"
  \/ Cardinality(Reached) > req.entries
  \/ FoldSet(LAMBDA d, n : n + src.size[From[d]], 0, Files) > req.bytes
  \/ \E d \in Reached : Refuses(d) \/ Loops(d) \/ Escapes(d) \/ Len(d) > req.depth
                         \/ (d \in Copied /\ src.kind[From[d]] = "dir" /\ Len(d) >= req.open)

\* An undisturbed copy succeeds unless the request forbids or exceeds
\* something, and then the destination tree is the one the policies call for
\* and the statistics count it; no limit, order of entries or scope matters.
UndisturbedCopyIsExact ==
  pc = "done" /\ quiet /\ faults = 0 =>
    /\ result.ok <=> ~Obstacle
    /\ result.ok =>
         /\ dst = Expected
         /\ result.stats.files = Cardinality({d \in Copied : src.kind[From[d]] # "dir"})
         /\ result.stats.skip = Cardinality(Reached \ Copied)
         /\ result.stats.dirs = Cardinality({d \in Copied : src.kind[From[d]] = "dir" /\ old[d].kind # "dir"})
         /\ result.stats.bytes = FoldSet(LAMBDA d, n : n + src.size[From[d]], 0, Files)

\* Every copy call returns: entries, depth and bytes bound it and each native
\* call returns.
CopyReturns == <>(pc = "done")
=============================================================================
