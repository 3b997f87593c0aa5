---------------------------- MODULE TempResource ----------------------------
(***************************************************************************)
(* The life of one temporary file or directory guard (LocalTempFile,       *)
(* LocalTempDirectory and the LocalTempResourceCore they share), from the  *)
(* moment creation handed it out: writing, sealing, keep/persist, cleanup, *)
(* Drop, the LocalTempRecovery a failed seal returns, other processes that *)
(* touch the same names, native failures, and a machine crash.             *)
(*                                                                         *)
(* An entry is identified by the object it names: "own" is the file or     *)
(* directory the guard created, "foreign" any other object, "none" an      *)
(* absent name.  The Host and the Rooted backend differ only in how a path *)
(* is resolved and share every action.                                     *)
(***************************************************************************)
EXTENDS Naturals, FiniteSets

CONSTANTS
    Kinds,        \* which guards are explored: subset of {"file", "directory"}
    FaultPoints,  \* the steps whose native call may fail
    MaxWrites,    \* bound: writes through the guard
    MaxChildren,  \* bound: descendants of a temporary directory
    MaxOthers,    \* bound: actions of other processes
    MaxFaults     \* bound: native failures

AllFaultPoints == {"target", "identity", "sync", "parent", "install", "syncTarget",
                   "release", "remove", "deadline", "access", "reopen"}

ASSUME ConstantsAssumption ==
    /\ Kinds \subseteq {"file", "directory"}
    /\ FaultPoints \subseteq AllFaultPoints
    /\ {MaxWrites, MaxChildren, MaxOthers, MaxFaults} \subseteq Nat

VARIABLES
    (* the file system, as every process sees it *)
    src,        \* the object the guard's path names: "own", "foreign" or "none"
    tgt,        \* the object the persist target names
    sandbox,    \* does the guard's sandbox directory exist
    clutter,    \* does the sandbox hold entries the guard does not know
    children,   \* how many descendants the temporary directory has
    content,    \* version of the temporary file's bytes
    (* what would survive a machine crash *)
    psrc, ptgt, pcontent,
    (* the guard *)
    kind,       \* "file" or "directory"
    state,      \* LocalTempResourceState: Owned, SandboxPending, Released, Indeterminate
    access,     \* LocalTempAccessState: Writable, Indeterminate, ReadOnly
    handle,     \* the object the open content handle names
    owner,      \* who holds the guard: caller, sealed, recovery, dropping, dropped
    (* the call in progress *)
    pc, overwrite, requirement, durable,
    report,     \* what the last finished call told its caller
    (* history, read by no action of the guard *)
    others,     \* actions other processes have taken
    faults,     \* native failures so far
    raced,      \* the source was changed by others while a call was running
    touched,    \* the target was changed by others since the call began
    installed   \* what the current persist call placed at the target

durableVars == <<psrc, ptgt, pcontent>>
callVars    == <<overwrite, requirement, durable>>
guardVars   == <<kind, state, access, handle, owner>>
fsVars      == <<src, tgt, sandbox, clutter, children, content>>
ghostVars   == <<raced, touched, installed>>
vars == <<fsVars, durableVars, guardVars, pc, callVars, report, others, faults, ghostVars>>

Requirements == {"NotRequired", "Preferred", "Required"}

\* State after `host`/`rooted` built the guard around a freshly created entry
\* inside a freshly created sandbox.
Init ==
    /\ kind \in Kinds
    /\ src = "own" /\ tgt \in {"none", "foreign"}
    /\ sandbox = TRUE /\ clutter = FALSE
    /\ children \in (IF kind = "directory" THEN 0 .. MaxChildren ELSE {0})
    /\ content = 0
    /\ psrc = "none" /\ ptgt = tgt /\ pcontent = 0
    /\ state = "Owned" /\ access = "Writable"
    /\ handle = (IF kind = "file" THEN "own" ELSE "none")
    /\ owner = "caller"
    /\ pc = "idle" /\ overwrite = FALSE /\ requirement = "NotRequired" /\ durable = FALSE
    /\ report = [call |-> "none", ok |-> TRUE, publication |-> "NotPublished",
                 durable |-> FALSE, residual |-> FALSE]
    /\ others = 0 /\ faults = 0
    /\ raced = FALSE /\ touched = FALSE /\ installed = "none"

-----------------------------------------------------------------------------
(* Shared by the calls. *)

\* A native call at this point fails although nothing is wrong with its input.
Fault(point) == point \in FaultPoints /\ faults < MaxFaults /\ faults' = faults + 1

NoFault == faults' = faults

\* The call ends and hands its report to the holder of the guard.  A guard that
\* is being dropped disappears with the call that dropped it, whatever it
\* reports; so do the guard a successful persist consumed and the
\* LocalTempRecovery whose cleanup succeeded.  A seal leaves a sealed owner or,
\* when it fails, a LocalTempRecovery.
Return(call, ok, publication, lasting, residual) ==
    /\ pc' = "idle"
    /\ report' = [call |-> call, ok |-> ok, publication |-> publication,
                  durable |-> lasting, residual |-> residual]
    /\ owner' = CASE owner = "dropping" -> "dropped"
                  [] owner # "dropping" /\ call = "persist" /\ ok -> "dropped"
                  [] owner = "recovery" /\ call = "cleanup" /\ ok -> "dropped"
                  [] owner = "caller" /\ call = "seal" -> (IF ok THEN "sealed" ELSE "recovery")
                  [] OTHER -> owner

\* LocalTempResourceCore::ensure_publishable, and the access check beside it.
NotReleased == state # "Released"
EnsurePublishable == state = "Owned"
EnsureWritable == access = "Writable"

\* LocalTempResourceCore::ensure_identity_matches: the entry at the guard's path
\* is compared with the identity recorded at creation.  A different entry, an
\* absent one and a failing query all revoke the guard's authority for good.
IdentityMatches == src = "own" /\ NoFault
IdentityLost    == (src # "own" /\ NoFault) \/ Fault("identity")

\* `close`: the content handle is dropped.
Close == handle' = "none"

-----------------------------------------------------------------------------
(* Writing. *)

\* `as_file_mut` and the Output and Seek implementations over it.
Write ==
    /\ owner = "caller" /\ pc = "idle"
    /\ EnsureWritable /\ EnsurePublishable /\ handle # "none"
    /\ content < MaxWrites
    /\ content' = IF handle = "own" THEN content + 1 ELSE content
    /\ UNCHANGED <<src, tgt, sandbox, clutter, children, durableVars, guardVars, pc, callVars,
                   report, others, faults, ghostVars>>

\* `as_file_mut` lends the handle itself: its borrower may put any other open
\* file in its place.
SwapHandle ==
    /\ owner = "caller" /\ pc = "idle"
    /\ EnsureWritable /\ EnsurePublishable /\ handle = "own"
    /\ handle' = "foreign"
    /\ UNCHANGED <<fsVars, durableVars, kind, state, access, owner, pc, callVars, report,
                   others, faults, ghostVars>>

\* The public `close`.
CloseHandle ==
    /\ owner = "caller" /\ pc = "idle" /\ handle # "none"
    /\ Close
    /\ UNCHANGED <<fsVars, durableVars, kind, state, access, owner, pc, callVars, report,
                   others, faults, ghostVars>>

-----------------------------------------------------------------------------
(* persist, persist_with, persist_at and keep. *)

PersistFails(publication) == Return("persist", FALSE, publication, FALSE, FALSE)

\* The checks before anything native happens: the access state, then the source
\* state, then the target.  A rejected call returns the guard as it was.
Persist ==
    /\ owner = "caller" /\ pc = "idle"
    /\ overwrite' \in BOOLEAN /\ requirement' \in Requirements
    /\ durable' = FALSE
    /\ raced' = FALSE /\ touched' = FALSE /\ installed' = "none"
    /\ \/ /\ ~EnsureWritable \/ ~EnsurePublishable
          /\ NoFault /\ PersistFails("NotPublished")
       \/ /\ EnsureWritable /\ EnsurePublishable
          /\ Fault("target") /\ PersistFails("NotPublished")
       \/ /\ EnsureWritable /\ EnsurePublishable
          /\ NoFault /\ pc' = "identity" /\ UNCHANGED <<report, owner>>
    /\ UNCHANGED <<fsVars, durableVars, kind, state, access, handle, others>>

\* The guard's own ensure_identity_matches also closes the handle of a source it
\* no longer owns.  A directory refuses required durability right after it.
PersistIdentity ==
    /\ pc = "identity"
    /\ \/ /\ IdentityLost
          /\ state' = "Indeterminate" /\ Close
          /\ PersistFails("NotPublished")
       \/ /\ IdentityMatches
          /\ kind = "directory" /\ requirement = "Required"
          /\ PersistFails("NotPublished") /\ UNCHANGED <<state, handle>>
       \/ /\ IdentityMatches
          /\ ~(kind = "directory" /\ requirement = "Required")
          /\ pc' = (IF kind = "file" THEN "syncSource" ELSE "parent")
          /\ UNCHANGED <<state, handle, report, owner>>
    /\ UNCHANGED <<fsVars, durableVars, kind, access, callVars, others, ghostVars>>

\* The file whose bytes `synchronize_source` flushes: the content handle, or the
\* entry reopened through the guard's path when the handle was closed.
SyncedObject == IF handle # "none" THEN handle ELSE src
AnyFile    == TRUE
RightFile  == SyncedObject = "own"

\* synchronize_source_before_reopen and synchronize_open_file.  The identity of
\* the file that is synchronised is checked whatever the requirement; only a
\* failing sync itself is forgiven, and only when durability is preferred.
PersistSyncSource ==
    /\ pc = "syncSource"
    /\ \/ /\ requirement = "NotRequired" /\ NoFault
          /\ pc' = "parent" /\ durable' = FALSE
          /\ UNCHANGED <<pcontent, report, owner>>
       \/ /\ requirement # "NotRequired"
          /\ (~RightFile /\ NoFault) \/ Fault("reopen")
          /\ PersistFails("NotPublished") /\ UNCHANGED <<pcontent, durable>>
       \/ /\ requirement # "NotRequired" /\ RightFile /\ NoFault
          /\ pcontent' = (IF SyncedObject = "own" THEN content ELSE pcontent)
          /\ durable' = TRUE
          /\ pc' = "parent" /\ UNCHANGED <<report, owner>>
       \/ /\ requirement # "NotRequired" /\ RightFile /\ Fault("sync")
          /\ IF requirement = "Preferred"
             THEN /\ pc' = "parent" /\ durable' = FALSE /\ UNCHANGED <<report, owner>>
             ELSE PersistFails("NotPublished") /\ UNCHANGED durable
          /\ UNCHANGED pcontent
    /\ UNCHANGED <<fsVars, psrc, ptgt, kind, state, access, handle, overwrite, requirement,
                   others, ghostVars>>

\* The handle is closed, the target resolved again, its parent prepared.
PersistParent ==
    /\ pc = "parent"
    /\ Close
    /\ \/ NoFault /\ pc' = "install" /\ UNCHANGED <<report, owner>>
       \/ Fault("parent") /\ PersistFails("NotPublished")
    /\ UNCHANGED <<fsVars, durableVars, kind, state, access, callVars, others, ghostVars>>

\* What rename does to the two names.
Rename ==
    /\ tgt' = src /\ src' = "none"
    /\ installed' = src

\* LocalPersistFailureState::from_native_error and record_native_persist_failure.
\* The kinds the operating system only returns for a rename that did not happen
\* leave the guard its source if the entry is still the one it created; every
\* other kind leaves publication and source unknown.
InstallRefused ==
    /\ \/ tgt # "none" /\ IdentityMatches /\ state' = state
       \/ tgt # "none" /\ IdentityLost /\ state' = "Indeterminate"
       \/ /\ Fault("install")
          /\ state' = IF src = "own" THEN state ELSE "Indeterminate"
    /\ PersistFails("NotPublished")
    /\ UNCHANGED <<src, tgt, installed>>

InstallFailed ==
    /\ \/ src = "none" /\ NoFault /\ UNCHANGED <<src, tgt, installed>>
       \/ Fault("install") /\ UNCHANGED <<src, tgt, installed>>
       \/ Fault("install") /\ src # "none" /\ (overwrite \/ tgt = "none") /\ Rename
    /\ state' = "Indeterminate"
    /\ PersistFails("NotPublished")

InstallUnknown ==
    /\ \/ src = "none" /\ NoFault /\ UNCHANGED <<src, tgt, installed>>
       \/ Fault("install") /\ UNCHANGED <<src, tgt, installed>>
       \/ Fault("install") /\ src # "none" /\ (overwrite \/ tgt = "none") /\ Rename
    /\ state' = "Indeterminate"
    /\ PersistFails("Indeterminate")

InstallDone ==
    /\ src # "none" /\ (overwrite \/ tgt = "none") /\ NoFault
    /\ Rename
    /\ state' = "SandboxPending"
    /\ pc' = (IF kind = "file" THEN "syncTarget" ELSE "release")
    /\ UNCHANGED <<report, owner>>

\* replace_file, move_file_without_replacing and their Rooted and directory
\* counterparts: one rename from the sandbox to the target.
PersistInstall ==
    /\ pc = "install"
    /\ InstallDone \/ InstallRefused \/ InstallUnknown
    /\ UNCHANGED <<sandbox, clutter, children, content, durableVars, kind, access, handle,
                   callVars, others, raced, touched>>

\* The directories whose entries a publication changed.
SyncParents     == psrc' = src /\ ptgt' = tgt

\* synchronize_destination over the sandbox directory, then the target's parent.
\* The sandbox may already be gone, or either sync may fail.
PersistSyncTarget ==
    /\ pc = "syncTarget"
    /\ \/ /\ requirement = "NotRequired" /\ NoFault
          /\ durable' = FALSE /\ pc' = "release" /\ UNCHANGED <<psrc, ptgt, report, owner>>
       \/ /\ requirement # "NotRequired" /\ sandbox /\ NoFault
          /\ SyncParents
          /\ pc' = "release" /\ UNCHANGED <<durable, report, owner>>
       \/ /\ requirement # "NotRequired"
          /\ \/ ~sandbox /\ NoFault /\ psrc' = psrc
             \/ sandbox /\ Fault("syncTarget") /\ psrc' \in {psrc, src}
          /\ durable' = FALSE /\ ptgt' = ptgt
          /\ IF requirement = "Preferred" THEN pc' = "release" /\ UNCHANGED <<report, owner>>
             ELSE PersistFails("Published")
    /\ UNCHANGED <<fsVars, pcontent, kind, state, access, handle, overwrite, requirement,
                   others, ghostVars>>

\* release_sandbox removes the sandbox if it is an empty directory.
SandboxRemoved == sandbox /\ ~clutter /\ src = "none" /\ NoFault /\ sandbox' = FALSE
SandboxKept ==
    /\ ~sandbox \/ clutter \/ src # "none"
    /\ NoFault /\ sandbox' = sandbox

\* After a publication the guard is finished whether or not the sandbox went
\* away; what is left of it is reported in the outcome.
PersistRelease ==
    /\ pc = "release"
    /\ \/ SandboxRemoved /\ Return("persist", TRUE, "Published", durable, FALSE)
       \/ SandboxKept /\ Return("persist", TRUE, "Published", durable, TRUE)
       \/ /\ Fault("release") /\ sandbox' = sandbox
          /\ Return("persist", TRUE, "Published", durable, TRUE)
    /\ state' = "Released"
    /\ UNCHANGED <<src, tgt, clutter, children, content, durableVars, kind, access, handle,
                   callVars, others, ghostVars>>

-----------------------------------------------------------------------------
(* cleanup and Drop. *)

Cleaned(ok) == Return("cleanup", ok, "NotPublished", FALSE, FALSE)

\* `cleanup` on the guard, on a sealed file or on a LocalTempRecovery.
Cleanup ==
    /\ owner \in {"caller", "sealed", "recovery"} /\ pc = "idle"
    /\ pc' = "clean" /\ raced' = FALSE
    /\ UNCHANGED <<fsVars, durableVars, guardVars, callVars, report, others, faults,
                   touched, installed>>

\* Drop runs the same cleanup and ignores its result.
Drop ==
    /\ owner \in {"caller", "sealed", "recovery"} /\ pc = "idle"
    /\ owner' = "dropping"
    /\ pc' = "clean" /\ raced' = FALSE
    /\ UNCHANGED <<fsVars, durableVars, kind, state, access, handle, callVars, report, others,
                   faults, touched, installed>>

\* The handle is closed first; then the state decides how much is left to do.
CleanStart ==
    /\ pc = "clean"
    /\ Close /\ NoFault
    /\ \/ state = "Indeterminate" /\ Cleaned(FALSE)
       \/ state = "Released" /\ Cleaned(TRUE)
       \/ state = "Owned" /\ pc' = "cleanIdentity" /\ UNCHANGED <<report, owner>>
       \/ state = "SandboxPending" /\ pc' = "cleanRelease" /\ UNCHANGED <<report, owner>>
    /\ UNCHANGED <<fsVars, durableVars, kind, state, access, callVars, others, ghostVars>>

CleanIdentity ==
    /\ pc = "cleanIdentity"
    /\ \/ IdentityLost /\ state' = "Indeterminate" /\ Cleaned(FALSE)
       \/ IdentityMatches /\ state' = state /\ pc' = "cleanRemove" /\ UNCHANGED <<report, owner>>
    /\ UNCHANGED <<fsVars, durableVars, kind, access, handle, callVars, others, ghostVars>>

\* One descendant of the temporary directory is removed.
RemoveChild ==
    /\ kind = "directory" /\ src = "own" /\ children > 0 /\ NoFault
    /\ children' = children - 1
    /\ UNCHANGED <<src, state, pc, report, owner>>

\* The entry itself is removed by name.
RemoveEntry ==
    /\ src # "none" /\ (kind = "directory" /\ src = "own" => children = 0) /\ NoFault
    /\ src' = "none" /\ state' = "SandboxPending" /\ pc' = "cleanRelease"
    /\ UNCHANGED <<children, report, owner>>

\* The entry is gone, a late descendant keeps the directory from being removed,
\* a limit of the cleanup is exhausted or a native call fails: what was removed
\* stays removed and the guard keeps its source.
RemoveFails ==
    /\ \/ src = "none" /\ NoFault
       \/ kind = "directory" /\ src = "own" /\ children > 0 /\ others > 0 /\ NoFault
       \/ Fault("remove")
    /\ Cleaned(FALSE)
    /\ UNCHANGED <<src, children, state>>

\* remove_resource after its identity check: remove_file, or
\* remove_directory_tree one entry at a time.
CleanRemove ==
    /\ pc = "cleanRemove"
    /\ RemoveChild \/ RemoveEntry \/ RemoveFails
    /\ UNCHANGED <<tgt, sandbox, clutter, content, durableVars, kind, access, handle, callVars,
                   others, ghostVars>>

\* The sandbox is released; a directory's cleanup checks its deadline before.
CleanReleaseOnce ==
    /\ pc = "cleanRelease"
    /\ \/ SandboxRemoved /\ state' = "Released" /\ Cleaned(TRUE)
       \/ SandboxKept /\ state' = "Released" /\ Cleaned(FALSE)
       \/ /\ Fault("release") \/ (kind = "directory" /\ Fault("deadline"))
          /\ state' = "Released" /\ UNCHANGED sandbox /\ Cleaned(FALSE)
    /\ UNCHANGED <<src, tgt, clutter, children, content, durableVars, kind, access, handle,
                   callVars, others, ghostVars>>

CleanRelease ==
    /\ pc = "cleanRelease"
    /\ \/ SandboxRemoved /\ state' = "Released" /\ Cleaned(TRUE)
       \/ SandboxKept /\ state' = state /\ Cleaned(FALSE)
       \/ /\ Fault("release") \/ (kind = "directory" /\ Fault("deadline"))
          /\ UNCHANGED <<sandbox, state>> /\ Cleaned(FALSE)
    /\ UNCHANGED <<src, tgt, clutter, children, content, durableVars, kind, access, handle,
                   callVars, others, ghostVars>>

-----------------------------------------------------------------------------
(* seal_with_options and the recovery of a failed seal. *)

Sealed(ok) == Return("seal", ok, "NotPublished", FALSE, FALSE)

Seal ==
    /\ kind = "file" /\ owner = "caller" /\ pc = "idle"
    /\ requirement' \in Requirements
    /\ IF handle = "none" THEN Sealed(FALSE) ELSE pc' = "sealCheck" /\ UNCHANGED <<report, owner>>
    /\ raced' = FALSE /\ installed' = "none"
    /\ UNCHANGED <<fsVars, durableVars, kind, state, access, handle, overwrite, durable, others,
                   faults, touched>>

\* The handle must be the created file; then its bytes are synchronised.
SealCheck ==
    /\ pc = "sealCheck"
    /\ \/ /\ (handle # "own" /\ NoFault) \/ Fault("identity")
          /\ Sealed(FALSE) /\ UNCHANGED pcontent
       \/ /\ handle = "own" /\ NoFault
          /\ pcontent' = IF requirement = "NotRequired" THEN pcontent ELSE content
          /\ pc' = "sealAccess" /\ UNCHANGED <<report, owner>>
       \/ /\ handle = "own" /\ requirement # "NotRequired" /\ Fault("sync")
          /\ IF requirement = "Required" THEN Sealed(FALSE)
             ELSE pc' = "sealAccess" /\ UNCHANGED <<report, owner>>
          /\ UNCHANGED pcontent
    /\ UNCHANGED <<fsVars, psrc, ptgt, kind, state, access, handle, callVars, others, ghostVars>>

\* The access state is unknown while it changes and read-only afterwards, also
\* when the second required sync fails.
SealAccess ==
    /\ pc = "sealAccess"
    /\ \/ Fault("access") /\ access' = "Indeterminate" /\ Sealed(FALSE)
       \/ requirement = "Required" /\ Fault("sync") /\ access' = "ReadOnly" /\ Sealed(FALSE)
       \/ NoFault /\ access' = "ReadOnly" /\ pc' = "sealReopen" /\ UNCHANGED <<report, owner>>
    /\ UNCHANGED <<fsVars, durableVars, kind, state, handle, callVars, others, ghostVars>>

\* The path is reopened for reading; another file there leaves the access state
\* unknown.
SealReopen ==
    /\ pc = "sealReopen"
    /\ \/ src = "own" /\ NoFault /\ handle' = "own" /\ access' = access /\ Sealed(TRUE)
       \/ src = "foreign" /\ NoFault /\ access' = "Indeterminate" /\ handle' = handle /\ Sealed(FALSE)
       \/ /\ (src = "none" /\ NoFault) \/ Fault("reopen")
          /\ UNCHANGED <<access, handle>> /\ Sealed(FALSE)
    /\ UNCHANGED <<fsVars, durableVars, kind, state, callVars, others, ghostVars>>

\* LocalTempSealError::into_resource over LocalTempRecovery::into_file.
IntoResource ==
    /\ owner = "recovery" /\ pc = "idle" /\ owner' = "caller"
    /\ UNCHANGED <<fsVars, durableVars, kind, state, access, handle, pc, callVars, report,
                   others, faults, ghostVars>>

-----------------------------------------------------------------------------
(* The environment: other processes, and the machine. *)

OtherMoves == others < MaxOthers /\ pc # "crashed" /\ others' = others + 1

\* Another process replaces or removes the entry at the guard's path.
OtherReplaceSource ==
    /\ OtherMoves /\ sandbox
    /\ src' \in {"foreign", "none"} \ {src}
    /\ raced' = (raced \/ pc # "idle")
    /\ UNCHANGED <<tgt, sandbox, clutter, children, content, durableVars, guardVars, pc, callVars,
                   report, faults, touched, installed>>

\* Another process puts an entry at the target, or removes it.
OtherChangeTarget ==
    /\ OtherMoves
    /\ tgt' \in {"foreign", "none"}
    /\ touched' = TRUE
    /\ UNCHANGED <<src, sandbox, clutter, children, content, durableVars, guardVars, pc, callVars,
                   report, faults, raced, installed>>

\* Another process adds an entry to the sandbox or takes it out again, removes
\* the empty sandbox, or adds a descendant to the temporary directory.
OtherChangeSandbox ==
    /\ OtherMoves /\ sandbox
    /\ \/ clutter' = ~clutter /\ UNCHANGED <<sandbox, children>>
       \/ src = "none" /\ ~clutter /\ sandbox' = FALSE /\ UNCHANGED <<clutter, children>>
       \/ /\ kind = "directory" /\ src = "own" /\ children < MaxChildren
          /\ children' = children + 1 /\ UNCHANGED <<sandbox, clutter>>
    /\ UNCHANGED <<src, tgt, content, durableVars, guardVars, pc, callVars, report, faults, ghostVars>>

\* The machine stops.  Each change that was not synchronised may be lost.
Crash ==
    /\ pc # "crashed" /\ pc' = "crashed"
    /\ src' \in {src, psrc} /\ tgt' \in {tgt, ptgt} /\ content' \in {content, pcontent}
    /\ UNCHANGED <<sandbox, clutter, children, durableVars, guardVars, callVars, report, others,
                   faults, ghostVars>>

-----------------------------------------------------------------------------
GuardStep ==
    \/ Write \/ SwapHandle \/ CloseHandle
    \/ Persist \/ PersistIdentity \/ PersistSyncSource \/ PersistParent
    \/ PersistInstall \/ PersistSyncTarget \/ PersistRelease
    \/ Cleanup \/ Drop \/ CleanStart \/ CleanIdentity \/ CleanRemove \/ CleanRelease
    \/ Seal \/ SealCheck \/ SealAccess \/ SealReopen \/ IntoResource

Others == OtherReplaceSource \/ OtherChangeTarget \/ OtherChangeSandbox

Next == GuardStep \/ Others \/ Crash

Spec == Init /\ [][Next]_vars

-----------------------------------------------------------------------------
(* Properties. *)

\* What source_state() promises.  An Owned guard really has its entry at its
\* path unless another process moved it; a guard that reports CleanupRequired
\* or Released has none; a Released guard's sandbox is gone unless the outcome
\* of the persist that released it said so; and a content handle is open only
\* while the source is Owned, which is why seal and synchronize_source need no
\* state check of their own, and on the sealed file once it is sealed.
SourceStateTruthful ==
    pc # "crashed" =>
        /\ state = "Owned" /\ others = 0 => src = "own"
        /\ state \in {"SandboxPending", "Released"} => src # "own"
        /\ state = "Released" /\ sandbox => report.call = "persist" /\ report.residual
        /\ handle # "none" => state = "Owned"
        /\ handle # "none" /\ owner = "sealed" => handle = "own" /\ access = "ReadOnly"

\* What LocalPersistError::state() and a successful outcome promise: Published
\* means that this call placed an entry at the target, NotPublished that it did
\* not; and unless another process swapped the source during the call, the
\* entry is the one the guard created.
PersistReportTruthful ==
    report.call = "persist" /\ pc = "idle" =>
        /\ report.publication = "Published" => installed # "none"
        /\ report.publication = "NotPublished" => installed = "none"
        /\ report.ok => report.publication = "Published"
        /\ ~raced => installed # "foreign"

IndeterminateStep ==
    state = "Indeterminate" /\ GuardStep =>
        state' = "Indeterminate" /\ UNCHANGED <<src, tgt, sandbox, clutter, children, content>>

RemovalStep ==
    GuardStep =>
        /\ src' # src /\ src = "foreign" => raced
        /\ children' # children => state = "Owned" /\ src = "own"
        /\ tgt' # tgt => pc = "install" /\ tgt' = src /\ state = "Owned"

SealStep == GuardStep /\ access # "Writable" =>
    content' = content /\ tgt' = tgt /\ access' # "Writable"

\* What a guard may never do, however its calls follow each other.  Cleanup removes
\* the entry it created and no other, except for an entry that slips in between the
\* identity check and the removal; descendants are removed only while the guard
\* still owns the directory, and the target is touched by nothing but the one rename
\* of persist.  An Indeterminate guard has lost its authority: no later cleanup,
\* persist, seal or Drop changes the file system or makes it eligible again.  Once a
\* seal touched the access state the bytes are final: no step changes them, no
\* persist publishes them as writable.
GuardKeepsToItsAuthority == [][RemovalStep /\ IndeterminateStep /\ SealStep]_vars

\* After a crash the target is what was promised of it.  A persist that reported a
\* durable publication survives: the target names the created file with all the
\* bytes written before it, if no other process changed the target or swapped the
\* source meanwhile.  And with required durability the bytes reach the disk before
\* the name does: the target never names the created file with bytes missing.
CrashKeepsPersist ==
    pc = "crashed" =>
        /\ report.call = "persist" /\ report.ok /\ report.durable /\ ~touched /\ ~raced
             => tgt = "own" /\ content = pcontent
        /\ installed = "own" /\ requirement = "Required" /\ tgt = "own" => content = pcontent
=============================================================================
