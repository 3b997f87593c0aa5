----------------------------- MODULE TreeDelete -----------------------------
(***************************************************************************)
(* delete_file, delete_directory and the post-order scheduler they share   *)
(* (remove_directory_tree), one native call per step, among processes that *)
(* create and remove entries of the same tree.                             *)
(*                                                                         *)
(* A path is the sequence of its names below the operand of the call, so   *)
(* the depth the scheduler keeps with an item is the length of its path.   *)
(* The Host and Rooted backends make the same calls in the same order, and *)
(* every lookup is no-follow: a symbolic link is one more entry that is    *)
(* not a directory, and "file" stands for all of these.  No other process  *)
(* puts a link in the place of a directory between its inspection and its  *)
(* opening, which the Host backend's read_dir would follow.                *)
(***************************************************************************)
EXTENDS Naturals, Sequences, FiniteSets, FiniteSetsExt

CONSTANTS
    Names,       \* the names of entries
    MaxLevel,    \* bound: the depth of the tree
    Length,      \* the encoded bytes of each path
    Options,     \* the calls explored
    UsizeMax,    \* usize::MAX; it also stands for a limit of None
    MaxOthers,   \* bound: steps of other processes
    MaxFaults    \* bound: native failures

Root  == <<>>
Paths == UNION {[1 .. n -> Names] : n \in 0 .. MaxLevel}

Call == [op : {"file", "directory"}, recursive : BOOLEAN, missingOk : BOOLEAN, deadline : BOOLEAN,
         maxEntries : 0 .. UsizeMax, maxDepth : 0 .. UsizeMax, maxBytes : 0 .. UsizeMax]

ASSUME ConstantsAssumption ==
    /\ MaxLevel \in Nat /\ UsizeMax \in Nat /\ MaxOthers \in Nat /\ MaxFaults \in Nat
    /\ Length \in [Paths -> Nat]
    /\ Options \subseteq Call

VARIABLES
    kind,      \* what each path names
    pc, opts, result,
    work,      \* the stack of pending work, its top last
    current,   \* the item popped last
    listing,   \* the open directory reader
    entries,   \* DeleteBudget::entries, what remains of max_entries
    pending,   \* DeleteBudget::pending_bytes
    changed,
    expired,   \* has the deadline passed
    others, faults,
    \* history
    removed,   \* the entries this call removed
    late,      \* how many of them after the deadline
    absent     \* has the operand been absent during the call

budgetVars  == <<entries, pending>>
treeVars    == <<work, current, listing, budgetVars, changed>>
envVars     == <<expired, others, faults>>
historyVars == <<removed, late, absent>>
vars == <<kind, pc, opts, result, treeVars, envVars, historyVars>>

Kinds    == {"none", "file", "dir"}
Item     == [todo : {"Inspect", "RemoveDirectory"}, path : Paths]
PcValues == {"idle", "check", "stat", "unlink", "rmdir", "begin", "pop", "inspect", "open", "list",
             "removeFile", "removeDirectory", "done"}

\* Result<bool>: the error's effect is Unchanged, PartiallyApplied or
\* Indeterminate, its cause the LocalErrorKind.
Ok(deleted)        == [ok |-> TRUE, deleted |-> deleted, effect |-> "None", cause |-> "None"]
Err(effect, cause) == [ok |-> FALSE, deleted |-> FALSE, effect |-> effect, cause |-> cause]
NoReader           == [due |-> {}, may |-> {}, start |-> 0]

Children(p) == {q \in Paths : Len(q) = Len(p) + 1 /\ SubSeq(q, 1, Len(p)) = p}
Under(p)    == {q \in Paths : Len(q) >= Len(p) /\ SubSeq(q, 1, Len(p)) = p}
Present(p)  == {q \in Children(p) : kind[q] # "none"}

\* Every entry but the operand is in a directory.
WellFormed(k) ==
    \A q \in Paths \ {Root} : k[q] # "none" => k[SubSeq(q, 1, Len(q) - 1)] = "dir"

Init ==
    /\ kind \in [Paths -> Kinds] /\ WellFormed(kind)
    /\ pc = "idle" /\ opts \in Options /\ result = Ok(FALSE)
    /\ work = <<>> /\ current = [todo |-> "Inspect", path |-> Root] /\ listing = NoReader
    /\ entries = 0 /\ pending = 0 /\ changed = FALSE
    /\ expired = FALSE /\ others = 0 /\ faults = 0
    /\ removed = {} /\ late = 0 /\ absent = (kind[Root] = "none")

-----------------------------------------------------------------------------
(***************************************************************************)
(* Results, failures and the budget.                                       *)
(***************************************************************************)

Fault    == faults < MaxFaults /\ faults' = faults + 1
NoFault  == UNCHANGED faults
Return(r) == pc' = "done" /\ result' = r
GoTo(p)   == pc' = p /\ UNCHANGED result

\* What a caller of the scheduler makes of its error: a missing operand is no failure
\* when missing_ok is set and nothing was removed.
TreeFailureAnywhere(path, effect, cause) ==
    Return(IF opts.missingOk /\ effect \in {"None", "Unchanged"} /\ cause = "NotFound"
           THEN Ok(FALSE) ELSE Err(effect, cause))
TreeFailure(path, effect, cause) ==
    Return(IF /\ opts.missingOk /\ effect \in {"None", "Unchanged"}
              /\ cause = "NotFound" /\ path = Root
           THEN Ok(FALSE) ELSE Err(effect, cause))

DeadlinePassed == opts.deadline /\ expired

\* The closure fail of the scheduler, and fail_during_removal.
FailEffect == IF changed THEN "PartiallyApplied" ELSE "Unchanged"
DuringRemovalEffect == IF changed THEN "PartiallyApplied" ELSE "Indeterminate"
Fail(path, cause) == TreeFailure(path, FailEffect, cause)
RetryWhenNotEmpty(path, cause) ==
    IF cause = "Other" /\ ~DeadlinePassed THEN GoTo("removeDirectory")
    ELSE TreeFailure(path, DuringRemovalEffect, cause)
FailDuringRemoval(path, cause) == TreeFailure(path, DuringRemovalEffect, cause)

\* check_deadline.
ExpiredAtFirst == DeadlinePassed /\ ~changed
Expired == DeadlinePassed

\* discover and reserve_path: may an entry be charged, and its path be queued?
DiscoverableAbove(depth) == depth < opts.maxDepth /\ entries > 0
Discoverable(depth) == depth <= opts.maxDepth /\ entries > 0
Fits(path) == Length[path] <= (IF opts.maxBytes > pending THEN opts.maxBytes - pending ELSE 0)
Charge(path) == entries' = entries - 1 /\ pending' = pending + Length[path]

\* A native removal is refused with a cause, or removes the entry.
Missing(path) ==
    IF path # Root /\ kind[SubSeq(path, 1, Len(path) - 1)] = "file" THEN "NotDirectory" ELSE "NotFound"
Refusal(path, as) ==
    CASE kind[path] = "none"                  -> Missing(path)
      [] as = "file" /\ kind[path] = "dir"    -> "IsDirectory"
      [] as = "dir" /\ kind[path] = "file"    -> "NotDirectory"
      [] as = "dir" /\ Present(path) # {}     -> "Other"
      [] OTHER                                -> "None"
Removes(path) ==
    /\ kind' = [kind EXCEPT ![path] = "none"]
    /\ removed' = removed \cup {path}
    /\ late' = IF DeadlinePassed THEN late + 1 ELSE late
    /\ absent' = (absent \/ path = Root)

\* A native removal.  One that reports an I/O failure may have taken effect.
NativeRemoval(path, as, Done, Failed(_)) ==
    \/ /\ NoFault /\ Refusal(path, as) = "None"
       /\ Removes(path) /\ Done
    \/ /\ NoFault /\ Refusal(path, as) # "None"
       /\ Failed(Refusal(path, as)) /\ UNCHANGED <<kind, historyVars, changed>>
    \/ /\ Fault
       /\ \/ UNCHANGED <<kind, historyVars>>
          \/ Refusal(path, as) = "None" /\ Removes(path)
       /\ Failed("Other") /\ UNCHANGED changed

-----------------------------------------------------------------------------
(***************************************************************************)
(* The call up to the scheduler, and the deletion of one entry.            *)
(***************************************************************************)

Start ==
    /\ pc = "idle" /\ GoTo("check")
    /\ UNCHANGED <<kind, opts, treeVars, envVars, historyVars>>

\* delete_directory_with_options looks at the deadline before it enters the backend.
CheckDeadline ==
    /\ pc = "check"
    /\ IF opts.op = "directory" /\ Expired THEN Return(Err("None", "TimedOut")) ELSE GoTo("stat")
    /\ UNCHANGED <<kind, opts, treeVars, envVars, historyVars>>

\* An absent operand.
NotThere(cause) == Return(IF opts.missingOk /\ cause = "NotFound" THEN Ok(FALSE) ELSE Err("None", cause))

Stat ==
    /\ pc = "stat"
    /\ \/ Fault /\ Return(Err("None", "Other"))
       \/ /\ NoFault
          /\ CASE kind[Root] = "none" -> NotThere("NotFound")
               [] kind[Root] = "dir"  -> IF opts.op = "file" THEN Return(Err("None", "IsDirectory"))
                                         ELSE GoTo(IF opts.recursive THEN "begin" ELSE "rmdir")
               [] OTHER               -> IF opts.op = "file" THEN GoTo("unlink")
                                         ELSE Return(Err("None", "NotDirectory"))
    /\ UNCHANGED <<kind, opts, treeVars, expired, others, historyVars>>

RemoveOperand ==
    /\ pc \in {"unlink", "rmdir"}
    /\ NativeRemoval(Root, IF pc = "unlink" THEN "file" ELSE "dir",
                     Return(Ok(TRUE)) /\ UNCHANGED changed, NotThere)
    /\ UNCHANGED <<opts, work, current, listing, budgetVars, expired, others>>

-----------------------------------------------------------------------------
(***************************************************************************)
(* remove_directory_tree.                                                  *)
(***************************************************************************)

\* A fresh budget is charged with the operand.
Begin ==
    /\ pc = "begin"
    /\ CASE Expired -> Fail(Root, "TimedOut") /\ UNCHANGED <<work, budgetVars>>
         [] ~Expired /\ (opts.maxEntries = 0 \/ Length[Root] > opts.maxBytes)
                    -> Fail(Root, "ResourceLimit") /\ UNCHANGED <<work, budgetVars>>
         [] OTHER   -> /\ work' = <<[todo |-> "Inspect", path |-> Root]>>
                       /\ entries' = opts.maxEntries - 1 /\ pending' = Length[Root]
                       /\ GoTo("pop")
    /\ UNCHANGED <<kind, opts, current, listing, changed, envVars, historyVars>>

Release(path) == pending' = pending - Length[path]

Pop ==
    /\ pc = "pop" /\ work # <<>>
    /\ LET item == work[Len(work)]
       IN  /\ work' = SubSeq(work, 1, Len(work) - 1) /\ current' = item
           /\ Release(item.path)
           /\ IF Expired THEN Fail(item.path, "TimedOut")
              ELSE GoTo(IF item.todo = "Inspect" THEN "inspect" ELSE "removeDirectory")
    /\ UNCHANGED <<kind, opts, listing, entries, changed, envVars, historyVars>>

Finish ==
    /\ pc = "pop" /\ work = <<>> /\ Return(Ok(TRUE))
    /\ UNCHANGED <<kind, opts, treeVars, envVars, historyVars>>

\* The metadata of an entry, and the deadline before the call that follows.
Inspect ==
    /\ pc = "inspect"
    /\ LET path == current.path
       IN  \/ Fault /\ Fail(path, "Other")
           \/ /\ NoFault
              /\ IF kind[path] = "none" THEN Fail(path, Missing(path))
                 ELSE IF path = Root /\ kind[path] # "dir" THEN Fail(path, "NotDirectory")
                 ELSE IF Expired THEN Fail(path, "TimedOut")
                 ELSE GoTo(IF kind[path] = "dir" THEN "open" ELSE "removeFile")
    /\ UNCHANGED <<kind, opts, treeVars, expired, others, historyVars>>

QueueRemoval(path) ==
    /\ pending' = pending + Length[path]
    /\ work' = Append(work, [todo |-> "RemoveDirectory", path |-> path])

\* The directory is opened, and queued below the children that are about to be listed.
OpenDirectory ==
    /\ pc = "open"
    /\ LET path == current.path
       IN  \/ Fault /\ Fail(path, "Other") /\ UNCHANGED <<work, listing, pending>>
           \/ /\ NoFault
              /\ IF kind[path] # "dir"
                 THEN /\ Fail(path, IF kind[path] = "none" THEN Missing(path) ELSE "NotDirectory")
                      /\ UNCHANGED <<work, listing, pending>>
                 ELSE IF ~Fits(path)
                 THEN Fail(path, "ResourceLimit") /\ UNCHANGED <<work, listing, pending>>
                 ELSE /\ QueueRemoval(path)
                      /\ listing' = [due |-> Present(path), may |-> {}, start |-> Len(work) + 1]
                      /\ GoTo("list")
    /\ UNCHANGED <<kind, opts, current, entries, changed, expired, others, historyVars>>

\* next_child returns every entry that was there throughout, and may return others.
ListChild ==
    /\ pc = "list"
    /\ \E child \in listing.due \cup listing.may :
         /\ listing' = [listing EXCEPT !.due = @ \ {child}, !.may = @ \ {child}]
         /\ IF ~Discoverable(Len(child)) \/ ~Fits(child)
            THEN Fail(child, "ResourceLimit") /\ UNCHANGED <<work, budgetVars>>
            ELSE /\ Charge(child) /\ GoTo("list")
                 /\ work' = Append(work, [todo |-> "Inspect", path |-> child])
    /\ ~Expired
    /\ UNCHANGED <<kind, opts, current, changed, envVars, historyVars>>

ListFails ==
    /\ pc = "list"
    /\ \/ Expired /\ NoFault /\ Fail(current.path, "TimedOut")
       \/ ~Expired /\ Fault /\ Fail(current.path, "Other")
    /\ UNCHANGED <<kind, opts, treeVars, expired, others, historyVars>>

\* The children are processed in the order in which they were listed.
ListEnd ==
    /\ pc = "list" /\ ~Expired /\ listing.due = {}
    /\ work' = [i \in 1 .. Len(work) |->
                  IF i <= listing.start THEN work[i] ELSE work[Len(work) + listing.start + 1 - i]]
    /\ listing' = NoReader /\ GoTo("pop")
    /\ UNCHANGED <<kind, opts, current, budgetVars, changed, envVars, historyVars>>

Removed == changed' = TRUE /\ GoTo("pop")

RemoveEntry ==
    /\ pc \in {"removeFile", "removeDirectory"}
    /\ LET Failed(cause) == FailDuringRemoval(current.path, cause)
       IN  NativeRemoval(current.path, IF pc = "removeFile" THEN "file" ELSE "dir", Removed, Failed)
    /\ UNCHANGED <<opts, work, current, listing, budgetVars, expired, others>>

-----------------------------------------------------------------------------
(***************************************************************************)
(* Time and other processes.                                               *)
(***************************************************************************)

Running == pc \notin {"idle", "done"}

Tick ==
    /\ Running /\ opts.deadline /\ ~expired /\ expired' = TRUE
    /\ UNCHANGED <<kind, pc, opts, result, treeVars, others, faults, historyVars>>

\* The open reader need no longer return what has gone, and may return what has come.
OtherChange(new) ==
    /\ Running /\ others < MaxOthers /\ others' = others + 1
    /\ kind' = new /\ absent' = (absent \/ new[Root] = "none")
    /\ LET gone == {q \in listing.due : new[q] = "none"}
           come == IF pc = "list" THEN {q \in Children(current.path) : kind[q] = "none" /\ new[q] # "none"}
                   ELSE {}
       IN  listing' = [listing EXCEPT !.due = @ \ gone, !.may = @ \cup gone \cup come]
    /\ UNCHANGED <<pc, opts, result, work, current, budgetVars, changed, expired, faults, removed, late>>

OtherCreate ==
    \E p \in Paths, k \in {"file", "dir"} :
      LET new == [kind EXCEPT ![p] = k]
      IN  kind[p] = "none" /\ WellFormed(new) /\ OtherChange(new)

OtherRemove ==
    \E p \in Paths :
      /\ kind[p] # "none"
      /\ OtherChange([q \in Paths |-> IF q \in Under(p) THEN "none" ELSE kind[q]])

-----------------------------------------------------------------------------

CallStep == \/ CheckDeadline \/ Stat \/ RemoveOperand \/ Begin \/ Pop \/ Finish \/ Inspect
            \/ OpenDirectory \/ ListChild \/ ListFails \/ ListEnd \/ RemoveEntry
Next == Start \/ CallStep \/ Tick \/ OtherCreate \/ OtherRemove
Spec == Init /\ [][Next]_vars /\ WF_vars(CallStep)

-----------------------------------------------------------------------------
(***************************************************************************)
(* Properties.                                                             *)
(***************************************************************************)

Done == pc = "done"

\* The result tells what the call did to the tree, whatever others did to it: Ok(true) means
\* that the call removed the operand, Unchanged that it removed nothing, PartiallyApplied that it
\* removed something, and Indeterminate that it removed at most the entry it failed on
\* (fail and fail_during_removal, directory_mutation_error).
EffectTruthful ==
    Done => /\ result.ok /\ result.deleted => Root \in removed
            /\ result.effect = "Unchanged" => removed = {}
            /\ result.effect = "PartiallyApplied" => removed # {}
            /\ result.effect = "Indeterminate" => removed \subseteq {current.path}

\* Ok(false) means that the operand itself was found absent and the call removed nothing: the
\* disappearance of a descendant is never taken for it (the error path and effect that
\* delete_directory compares when missing_ok is set).
FalseMeansOperandAbsent ==
    Done /\ result.ok /\ ~result.deleted => absent /\ removed = {}

\* Whatever delete_file or delete_directory returns is true of what the call did: the effect of
\* an error, Ok(true) and Ok(false).
ReportTruthful == EffectTruthful /\ FalseMeansOperandAbsent

\* The entries there were, when nobody else changed the tree.
Was == removed \cup {q \in Paths : kind[q] # "none"}
WithinLimits ==
    /\ Cardinality(Was) <= opts.maxEntries
    /\ \A q \in Was : Len(q) <= opts.maxDepth
    /\ MapThenSumSet(LAMBDA q : Length[q], Was) <= opts.maxBytes

\* Left alone, a recursive deletion of a directory empties it whenever the limits admit the tree,
\* and stops at a limit when there are too many entries or they are too deep.
UndisturbedDeletionCompletes ==
    Done /\ others = 0 /\ faults = 0 /\ ~DeadlinePassed /\ opts.op = "directory" /\ opts.recursive
         /\ (kind[Root] = "dir" \/ Root \in removed)
    => /\ WithinLimits => result = Ok(TRUE) /\ \A q \in Paths : kind[q] = "none"
       /\ (\/ Cardinality(Was) > opts.maxEntries
           \/ \E q \in Was : Len(q) > opts.maxDepth) => result.cause = "ResourceLimit"

\* Limits hold exactly: pending_bytes is the length of the paths that are queued and stays
\* within max_pending_path_bytes, so that release_path never underflows; what was removed or
\* waits was charged to max_entries and is within max_depth; and after the deadline at most the
\* removal whose check had passed takes place.
LimitsHold ==
    /\ pending = MapThenSumSet(LAMBDA i : Length[work[i].path], DOMAIN work)
    /\ pending <= opts.maxBytes
    /\ opts.recursive => /\ Cardinality(removed) + entries <= opts.maxEntries
                         /\ Cardinality({work[i].path : i \in DOMAIN work}) + entries <= opts.maxEntries
                         /\ \A q \in removed : Len(q) <= opts.maxDepth
    /\ late <= 1

\* A call that was started returns.
CallReturns == pc = "check" ~> Done

=============================================================================
