----------------------------- MODULE FileWriter -----------------------------
(***************************************************************************)
(* LocalFileWriter over one destination name: several writers of one or    *)
(* several processes, staged (CreateNew, CreateOrReplace) or appending,    *)
(* each from open_writer to its commit, abort or Drop, down to the native  *)
(* calls of LocalAtomicWriter and LocalRootAtomicWriter on Unix.  The two  *)
(* backends differ in how they resolve names and share every step.         *)
(*                                                                         *)
(* A writer's staging file is identified with the writer itself; the files *)
(* of other processes are members of Files.  What matters of a file's      *)
(* bytes is how many of them each writer put there.                        *)
(***************************************************************************)
EXTENDS Naturals, Sequences, FiniteSets

CONSTANTS
    Writers, Files, None,
    NoReplace,     \* how a new entry can be installed: subset of {"rename", "link"}
    Workloads,     \* what the writers are asked to do and what happens around them
    MaxFaults      \* bound: native failures

AllFaultPoints == {"write", "flush", "open", "metadata", "sync", "verify", "install", "unlink",
                   "clean", "parent"}
Requirements   == {"NotRequired", "Preferred", "Required"}

\* The number of writers, the options they are opened with, the largest byte count
\* (u64::MAX in the code), the native calls that may fail, the bound on the actions
\* of other processes, and whether the machine may stop.
Workload ==
    [writers : Nat, modes : SUBSET {"CreateNew", "CreateOrReplace", "Append"},
     durabilities : SUBSET Requirements, fileSyncs : SUBSET Requirements,
     maxBytes : Nat, faultPoints : SUBSET AllFaultPoints, others : Nat, crashes : BOOLEAN]

ASSUME ConstantsAssumption ==
    /\ Writers \cap Files = {} /\ None \notin Writers \cup Files
    /\ NoReplace \subseteq {"rename", "link"}
    /\ Workloads \subseteq Workload
    /\ MaxFaults \in Nat

VARIABLES
    (* the file system *)
    history,   \* the files the destination named so far, the present one last
    settled,   \* how much of history the last synchronised parent directory holds
    stage,     \* the file each writer's staging name names
    content,   \* bytes of each writer in the file it writes
    stable,    \* how many of them were synchronised
    (* the writers *)
    wr,        \* each LocalFileWriter and its backend
    (* the environment *)
    load,      \* the workload, fixed at the start
    others, faults, crashed

vars == <<history, settled, stage, content, stable, wr, load, others, faults, crashed>>

\* What a call told its caller: did it succeed, the publication state, is the
\* result durable, and does the error hand the writer back.
NoResult == [ok |-> FALSE, publication |-> "NotPublished", durable |-> FALSE, retained |-> TRUE]

Init ==
    /\ history \in {<<None>>} \cup {<<f>> : f \in Files} /\ settled = 1
    /\ stage = [w \in Writers |-> None]
    /\ content = [w \in Writers |-> 0] /\ stable = [w \in Writers |-> 0]
    /\ wr = [w \in Writers |->
               [holder |-> "none", mode |-> "CreateNew", durability |-> "NotRequired",
                fileSync |-> "NotRequired", state |-> "Open", failure |-> "none", bytes |-> 0,
                existed |-> FALSE, handle |-> None, armed |-> FALSE, pc |-> "idle",
                seen |-> None, synced |-> FALSE, tries |-> 0, replaced |-> FALSE,
                result |-> NoResult, position |-> 0, stuck |-> FALSE]]
    /\ load \in Workloads /\ others = 0 /\ faults = 0 /\ crashed = FALSE

Target == history[Len(history)]

-----------------------------------------------------------------------------
(* Shared by the calls. *)

Fault(point) == point \in load.faultPoints /\ faults < MaxFaults /\ faults' = faults + 1
NoFault == faults' = faults

Ready(w) == wr[w].holder = "caller" /\ wr[w].pc = "idle" /\ ~crashed
At(w, pc) == wr[w].pc = pc /\ ~crashed
Staged(w) == wr[w].mode # "Append"

\* The writer's own fields after the step.
Becomes(w, r) == wr' = [wr EXCEPT ![w] = r]

\* The guard of every call that uses the backend's handle.
Usable(w) == wr[w].state = "Open" /\ wr[w].failure = "none"

\* The requirement that durability and file_sync impose together on the file.
DurabilityOnly(w) == wr[w].durability

SyncRequirement(w) ==
    LET asked == {wr[w].durability, wr[w].fileSync}
    IN  CASE "Required" \in asked -> "Required"
          [] "Required" \notin asked /\ "Preferred" \in asked -> "Preferred"
          [] OTHER -> "NotRequired"

Result(ok, publication, lasting, kept) ==
    [ok |-> ok, publication |-> publication, durable |-> lasting, retained |-> kept]

\* A commit that succeeded consumes the writer; whatever its backend still owned
\* was released before.
Succeeded(w, lasting) ==
    [wr[w] EXCEPT !.holder = "gone", !.pc = "idle", !.state = "Committed", !.handle = None,
                  !.armed = FALSE, !.result = Result(TRUE, "Published", lasting, FALSE)]

\* commit_recoverably: a commit that failed gives the writer back if its staging
\* handle is still open, and drops it otherwise.
Failed(w, publication) ==
    LET kept == wr[w].handle # None
    IN  [wr[w] EXCEPT !.pc = (IF kept THEN "idle" ELSE "drop"),
                      !.holder = (IF kept THEN "caller" ELSE "gone"),
                      !.result = Result(FALSE, publication, FALSE, kept)]

\* StagedFile::cleanup and RootedStagedFile::cleanup: the entry is removed only
\* if it is still the file the writer created; an absent one needs no removal.
Cleaned(w) ==
    /\ NoFault
    /\ \/ ~wr[w].armed /\ UNCHANGED stage
       \/ wr[w].armed /\ stage[w] \in {None, w} /\ stage' = [stage EXCEPT ![w] = None]

CleanupFails(w) ==
    /\ wr[w].armed
    /\ (stage[w] \notin {None, w} /\ NoFault) \/ Fault("clean")
    /\ UNCHANGED stage

-----------------------------------------------------------------------------
(* open_writer and the stream operations. *)

\* CreateNew refuses an entry that exists, Append one that does not; the staged
\* modes remember whether there was one and create the staging file.
Open(w) ==
    /\ wr[w].holder = "none" /\ ~crashed
    /\ Cardinality({v \in Writers : wr[v].holder # "none"}) < load.writers
    /\ \E mode \in load.modes, durability \in load.durabilities, fileSync \in load.fileSyncs :
         /\ mode = "CreateNew" => Target = None
         /\ mode = "Append" => Target # None
         /\ Becomes(w, [wr[w] EXCEPT !.holder = "caller", !.mode = mode,
                                     !.durability = durability, !.fileSync = fileSync,
                                     !.existed = (Target # None),
                                     !.handle = (IF mode = "Append" THEN Target ELSE w),
                                     !.armed = (mode # "Append")])
         /\ stage' = [stage EXCEPT ![w] = IF mode = "Append" THEN None ELSE w]
    /\ UNCHANGED <<history, settled, content, stable, others, faults, load, crashed>>

\* WriterByteCount::check_request refuses a request that could overflow the
\* count before the backend sees it.
CheckRequest(w, requested) == wr[w].bytes + requested <= load.maxBytes

\* The file accepts some prefix of the request, and the count follows.
Write(w) ==
    /\ Ready(w) /\ Usable(w)
    /\ \E requested \in 1 .. load.maxBytes : \E accepted \in 1 .. requested :
         /\ CheckRequest(w, requested)
         /\ Becomes(w, [wr[w] EXCEPT !.bytes = @ + accepted])
         /\ content' = [content EXCEPT ![w] = @ + accepted]
    /\ UNCHANGED <<history, settled, stage, stable, others, faults, load, crashed>>

\* observe_stream_result: a write or flush that fails for good poisons the writer.
StreamFailure(w) ==
    IF ~Staged(w) /\ wr[w].bytes > 0 THEN "Published" ELSE "NotPublished"

StreamFails(w) ==
    /\ Ready(w) /\ Usable(w) /\ Fault("write")
    /\ Becomes(w, [wr[w] EXCEPT !.failure = StreamFailure(w)])
    /\ UNCHANGED <<history, settled, stage, content, stable, others, load, crashed>>

-----------------------------------------------------------------------------
(* commit *)

\* A writer that is closed or poisoned is consumed; the others start a commit.
Commit(w) ==
    /\ Ready(w)
    /\ \/ /\ ~Usable(w)
          /\ LET publication == IF wr[w].failure = "none" THEN "NotPublished" ELSE wr[w].failure
             IN  Becomes(w, [wr[w] EXCEPT !.holder = "gone", !.pc = "drop",
                                          !.result = Result(FALSE, publication, FALSE, FALSE)])
       \/ /\ Usable(w)
          /\ Becomes(w, [wr[w] EXCEPT !.pc = IF Staged(w) THEN "open" ELSE "append"])
    /\ UNCHANGED <<history, settled, stage, content, stable, others, faults, load, crashed>>

\* The Append branch: flush, then synchronise as far as required.
AppendFailed(w, publication) ==
    Becomes(w, [wr[w] EXCEPT !.holder = "gone", !.pc = "drop",
                             !.result = Result(FALSE, publication, FALSE, FALSE)])

CommitAppend(w) ==
    /\ At(w, "append")
    /\ \/ Fault("flush") /\ AppendFailed(w, "Indeterminate") /\ UNCHANGED stable
       \/ /\ SyncRequirement(w) = "NotRequired" /\ NoFault
          /\ Becomes(w, Succeeded(w, FALSE)) /\ UNCHANGED stable
       \/ /\ SyncRequirement(w) # "NotRequired" /\ NoFault
          /\ stable' = [stable EXCEPT ![w] = content[w]]
          /\ Becomes(w, Succeeded(w, wr[w].durability # "NotRequired"))
       \/ /\ SyncRequirement(w) = "Preferred" /\ Fault("sync")
          /\ Becomes(w, Succeeded(w, FALSE)) /\ UNCHANGED stable
       \/ /\ SyncRequirement(w) = "Required" /\ Fault("sync")
          /\ AppendFailed(w, StreamFailure(w)) /\ UNCHANGED stable
    /\ UNCHANGED <<history, settled, stage, content, others, load, crashed>>

\* open_destination_for_commit: a destination that existed when the writer was
\* opened must still be there; its identity is recorded.
CommitOpen(w) ==
    /\ At(w, "open")
    /\ \/ /\ ~wr[w].existed /\ NoFault
          /\ Becomes(w, [wr[w] EXCEPT !.pc = "prepare", !.seen = None])
       \/ /\ wr[w].existed /\ Target # None /\ NoFault
          /\ Becomes(w, [wr[w] EXCEPT !.pc = "prepare", !.seen = Target])
       \/ /\ wr[w].existed
          /\ (Target = None /\ NoFault) \/ Fault("open")
          /\ Becomes(w, Failed(w, "NotPublished"))
    /\ UNCHANGED <<history, settled, stage, content, stable, others, load, crashed>>

\* apply_destination_metadata and synchronize_staging_file.
CommitPrepare(w) ==
    /\ At(w, "prepare")
    /\ \/ /\ SyncRequirement(w) = "NotRequired" /\ NoFault
          /\ Becomes(w, [wr[w] EXCEPT !.pc = "verify", !.synced = FALSE]) /\ UNCHANGED stable
       \/ /\ SyncRequirement(w) # "NotRequired" /\ NoFault
          /\ stable' = [stable EXCEPT ![w] = content[w]]
          /\ Becomes(w, [wr[w] EXCEPT !.pc = "verify", !.synced = TRUE])
       \/ /\ SyncRequirement(w) = "Preferred" /\ Fault("sync")
          /\ Becomes(w, [wr[w] EXCEPT !.pc = "verify", !.synced = FALSE]) /\ UNCHANGED stable
       \/ /\ \/ SyncRequirement(w) = "Required" /\ Fault("sync")
             \/ wr[w].existed /\ Fault("metadata")
          /\ Becomes(w, Failed(w, "NotPublished")) /\ UNCHANGED stable
    /\ UNCHANGED <<history, settled, stage, content, others, load, crashed>>

\* verify_atomic_destination_identity: nobody put another file in its place.
CommitVerify(w) ==
    /\ At(w, "verify")
    /\ \/ /\ wr[w].existed => Target = wr[w].seen
          /\ NoFault
          /\ Becomes(w, [wr[w] EXCEPT !.pc = "install"])
       \/ /\ wr[w].existed
          /\ (Target # wr[w].seen /\ NoFault) \/ Fault("verify")
          /\ Becomes(w, Failed(w, "NotPublished"))
    /\ UNCHANGED <<history, settled, stage, content, stable, others, load, crashed>>

\* What follows an entry that was installed and whose staging name is gone.
AfterInstall(w) ==
    IF wr[w].durability = "NotRequired" THEN Succeeded(w, FALSE)
    ELSE [wr[w] EXCEPT !.pc = "parent", !.handle = None, !.armed = FALSE]

Install(w) ==
    /\ history' = Append(history, stage[w])
    /\ stage' = [stage EXCEPT ![w] = None]

\* rename: an existing destination is replaced.
ReplaceExisting(w) ==
    /\ wr[w].existed /\ stage[w] # None /\ NoFault
    /\ Install(w)
    /\ Becomes(w, [AfterInstall(w) EXCEPT !.position = Len(history) + 1])

\* renameat2 with RENAME_NOREPLACE.
RenameOver(w) ==
    /\ ~wr[w].existed /\ "rename" \in NoReplace /\ stage[w] # None /\ NoFault
    /\ Install(w)
    /\ Becomes(w, [AfterInstall(w) EXCEPT !.position = Len(history) + 1])

RenameNoReplace(w) ==
    /\ ~wr[w].existed /\ "rename" \in NoReplace /\ stage[w] # None /\ Target = None /\ NoFault
    /\ Install(w)
    /\ Becomes(w, [AfterInstall(w) EXCEPT !.position = Len(history) + 1])

\* link_then_unlink, where renameat2 is unsupported: first the link.
LinkNew(w) ==
    /\ ~wr[w].existed /\ "link" \in NoReplace /\ stage[w] # None /\ Target = None /\ NoFault
    /\ history' = Append(history, stage[w])
    /\ Becomes(w, [wr[w] EXCEPT !.pc = "unlink", !.handle = None, !.tries = 0,
                                !.position = Len(history) + 1])
    /\ UNCHANGED stage

\* The native call fails and leaves both names as they were.
InstallFails(w) ==
    /\ \/ (stage[w] = None \/ (~wr[w].existed /\ Target # None)) /\ NoFault
       \/ Fault("install")
    /\ Becomes(w, [wr[w] EXCEPT !.pc = "recover", !.handle = None, !.replaced = FALSE])
    /\ UNCHANGED <<history, stage>>

\* install_and_sync_parent closes the staging handle before the native call.
CommitInstall(w) ==
    /\ At(w, "install")
    /\ ReplaceExisting(w) \/ RenameNoReplace(w) \/ LinkNew(w) \/ InstallFails(w)
    /\ UNCHANGED <<settled, content, stable, others, load, crashed>>

\* unlink_staging_name, at most twice.
CommitUnlink(w) ==
    /\ At(w, "unlink")
    /\ \/ /\ NoFault
          /\ stage' = [stage EXCEPT ![w] = None]
          /\ Becomes(w, AfterInstall(w))
       \/ /\ Fault("unlink")
          /\ Becomes(w, [wr[w] EXCEPT !.tries = @ + 1, !.replaced = TRUE,
                                      !.pc = IF wr[w].tries = 1 THEN "recover" ELSE "unlink"])
          /\ UNCHANGED stage
    /\ UNCHANGED <<history, settled, content, stable, others, load, crashed>>

\* recover_atomic_install_error: the staging name is cleaned up once more.  If
\* the destination was installed and only the staging name was left, the commit
\* succeeds after all; if the name stays, the parent is synchronised anyway.
CommitRecover(w) ==
    /\ At(w, "recover")
    /\ \/ /\ Cleaned(w) /\ wr[w].replaced
          /\ Becomes(w, AfterInstall(w)) /\ UNCHANGED settled
       \/ /\ Cleaned(w) /\ ~wr[w].replaced
          /\ Becomes(w, [Failed(w, "NotPublished") EXCEPT !.armed = FALSE])
          /\ UNCHANGED settled
       \/ /\ CleanupFails(w)
          /\ Becomes(w, [Failed(w, IF wr[w].replaced THEN "Published" ELSE "NotPublished")
                           EXCEPT !.stuck = TRUE])
          /\ settled' \in IF wr[w].replaced /\ wr[w].durability # "NotRequired"
                          THEN {settled, Len(history)} ELSE {settled}
    /\ UNCHANGED <<history, content, stable, others, load, crashed>>

\* The parent directory, and every parent the writer created, is synchronised;
\* a failure may leave only some of them synchronised.
ParentSynced(w, failure) ==
    \/ /\ NoFault /\ settled' = Len(history)
       /\ Becomes(w, Succeeded(w, wr[w].synced))
    \/ /\ Fault("parent") /\ settled' \in {settled, Len(history)}
       /\ Becomes(w, failure)

ParentForgiven(w)  == Succeeded(w, FALSE)
ParentUnsynced(w)  == IF wr[w].durability = "Preferred" THEN Succeeded(w, FALSE)
                      ELSE Failed(w, "Published")

CommitSyncParent(w) ==
    /\ At(w, "parent")
    /\ ParentSynced(w, ParentUnsynced(w))
    /\ UNCHANGED <<history, stage, content, stable, others, load, crashed>>

-----------------------------------------------------------------------------
(* abort and Drop *)

\* A cleanup that fails leaves the writer open but poisoned, so that abort can
\* be called again while nothing else can reach the handle it closed.
AbortForgives(w) == wr[w].failure
AbortPoisons(w)  == IF wr[w].failure = "none" THEN "NotPublished" ELSE wr[w].failure

Abort(w) ==
    /\ Ready(w) /\ wr[w].state = "Open"
    /\ \/ /\ Staged(w) /\ Cleaned(w)
          /\ Becomes(w, [wr[w] EXCEPT !.state = "Aborted", !.handle = None, !.armed = FALSE])
       \/ /\ Staged(w) /\ CleanupFails(w)
          /\ Becomes(w, [wr[w] EXCEPT !.handle = None, !.stuck = TRUE,
                                      !.failure = AbortPoisons(w)])
       \/ /\ ~Staged(w) /\ UNCHANGED stage
          /\ \/ Fault("flush") /\ UNCHANGED wr
             \/ /\ NoFault
                /\ Becomes(w, [wr[w] EXCEPT !.state = "Aborted",
                                            !.failure = IF @ = "none" /\ wr[w].bytes > 0
                                                        THEN "Published" ELSE @])
    /\ UNCHANGED <<history, settled, content, stable, others, load, crashed>>

\* The caller drops the writer.
Drop(w) ==
    /\ Ready(w)
    /\ Becomes(w, [wr[w] EXCEPT !.holder = "gone", !.pc = "drop"])
    /\ UNCHANGED <<history, settled, stage, content, stable, others, faults, load, crashed>>

\* Drop for StagedFile and RootedStagedFile: the same cleanup, its error ignored.
DropForgets(w) ==
    /\ At(w, "drop")
    /\ NoFault /\ UNCHANGED stage
    /\ Becomes(w, [wr[w] EXCEPT !.pc = "idle", !.handle = None, !.armed = FALSE])
    /\ UNCHANGED <<history, settled, content, stable, others, load, crashed>>

DropStaged(w) ==
    /\ At(w, "drop")
    /\ \/ /\ Cleaned(w)
          /\ Becomes(w, [wr[w] EXCEPT !.pc = "idle", !.handle = None, !.armed = FALSE])
       \/ /\ CleanupFails(w)
          /\ Becomes(w, [wr[w] EXCEPT !.pc = "idle", !.handle = None, !.armed = FALSE,
                                      !.stuck = TRUE])
    /\ UNCHANGED <<history, settled, content, stable, others, load, crashed>>

-----------------------------------------------------------------------------
(* The environment. *)

OtherMoves == others < load.others /\ ~crashed /\ others' = others + 1

\* Another process removes the destination or puts a file of its own there.
OtherChangesTarget ==
    /\ OtherMoves
    /\ \E o \in {None} \cup {f \in Files : \A i \in 1 .. Len(history) : history[i] # f} :
         Target # o /\ history' = Append(history, o)
    /\ UNCHANGED <<settled, stage, content, stable, wr, faults, load, crashed>>

\* Another process removes the staging entry or puts a file of its own there.
OtherChangesStage ==
    /\ OtherMoves
    /\ \E w \in Writers : \E o \in {None} \cup Files :
         /\ stage[w] = w
         /\ \A i \in 1 .. Len(history) : o # None => history[i] # o
         /\ stage' = [stage EXCEPT ![w] = o]
    /\ UNCHANGED <<history, settled, content, stable, wr, faults, load, crashed>>

\* The machine stops: directory changes after the last synchronised one, and
\* bytes that were not synchronised, may be lost.
Crash ==
    /\ load.crashes /\ ~crashed /\ crashed' = TRUE
    /\ \E i \in settled .. Len(history) : history' = SubSeq(history, 1, i)
    /\ \E kept \in [Writers -> 0 .. load.maxBytes] :
         /\ \A w \in Writers : kept[w] \in stable[w] .. content[w]
         /\ content' = kept
    /\ UNCHANGED <<settled, stage, stable, wr, load, others, faults>>

-----------------------------------------------------------------------------
WriterStep(w) ==
    \/ Open(w) \/ Write(w) \/ StreamFails(w)
    \/ Commit(w) \/ CommitAppend(w) \/ CommitOpen(w) \/ CommitPrepare(w) \/ CommitVerify(w)
    \/ CommitInstall(w) \/ CommitUnlink(w) \/ CommitRecover(w) \/ CommitSyncParent(w)
    \/ Abort(w) \/ Drop(w) \/ DropStaged(w)

Next ==
    \/ \E w \in Writers : WriterStep(w)
    \/ OtherChangesTarget \/ OtherChangesStage \/ Crash

Spec == Init /\ [][Next]_vars

-----------------------------------------------------------------------------
(* Properties. *)

\* Did the writer change what readers of the destination see?
HasPublished(w) == IF Staged(w) THEN wr[w].position > 0 ELSE wr[w].bytes > 0

\* What a commit reports is what happened: success and `Published` only after
\* this writer installed its staging entry, or appended something;
\* `NotPublished`, in the error of a commit as in failure_state, only if it never
\* did, whatever the other writers did meanwhile.  Only a failed flush of an
\* appending writer may leave the answer open.  Required durability is either
\* achieved and reported, or the commit fails.
CommitReportsTruthfully ==
    \A w \in Writers :
      /\ wr[w].result.ok /\ Staged(w) => HasPublished(w)
      /\ wr[w].result.ok /\ wr[w].durability = "Required" => wr[w].result.durable
      /\ ~wr[w].result.ok /\ wr[w].result.publication = "Published" => HasPublished(w)
      /\ wr[w].result # NoResult /\ wr[w].pc = "idle" /\ ~wr[w].result.ok
           /\ wr[w].result.publication = "NotPublished" /\ ~wr[w].result.retained
           => ~HasPublished(w)
      /\ wr[w].failure = "Published" => HasPublished(w)
      /\ wr[w].failure = "NotPublished" => ~HasPublished(w)
      /\ wr[w].result.publication = "Indeterminate" => ~Staged(w)

\* A writer in the caller's hands that is open and not poisoned owns an open
\* handle and an armed staging entry and has published nothing: the next write,
\* flush, commit or abort finds what `expect` in StagedFile takes for granted,
\* also after a commit that failed and gave the writer back.
OpenWriterIsUsable ==
    \A w \in Writers :
      wr[w].holder = "caller" /\ wr[w].pc = "idle" /\ Usable(w) /\ Staged(w)
      => wr[w].handle = w /\ wr[w].armed /\ wr[w].position = 0

\* A writer that is gone leaves no staging file behind, unless a cleanup of it
\* was tried and failed (StagedFile::cleanup, Drop).
StagingReclaimed ==
    \A w \in Writers :
      wr[w].holder = "gone" /\ wr[w].pc = "idle" /\ ~wr[w].stuck => stage[w] # w

\* After a crash the destination is what was promised of it.  A commit that reported
\* `durable` survives: the destination is no older than its installation, and its
\* bytes are complete.  And if the writer required its file to be synchronised, a
\* reader never finds a truncated version of it, because the file is synchronised
\* before it is installed.
CrashKeepsPromises ==
    crashed =>
      \A w \in Writers :
        /\ wr[w].result.durable => Len(history) >= wr[w].position /\ content[w] = wr[w].bytes
        /\ Staged(w) /\ Target = w /\ "Required" \in {wr[w].durability, wr[w].fileSync}
             => content[w] = wr[w].bytes

-----------------------------------------------------------------------------
(* The staged writers as publishers of the destination. *)

\* What the caller knows of a staged writer's attempt: nothing while commit runs.
Verdict(w) == IF Staged(w) /\ wr[w].pc \in {"idle", "drop"} THEN wr[w].result.publication ELSE "open"

Pub == INSTANCE Publication WITH
    Publishers <- Writers, Nothing <- None,
    shown   <- Target,
    staged  <- stage,
    kept    <- [w \in Writers |-> None],
    fresh   <- {w \in Writers : ~wr[w].existed},
    effect  <- [w \in Writers |-> IF wr[w].position > 0 THEN "installed" ELSE "none"],
    verdict <- [w \in Writers |-> Verdict(w)],
    world   <- <<others, crashed>>

\* Every set of writers implements Publication: the destination changes only in the
\* one step of a commit that installs the writer's staging entry; a writer whose
\* destination was absent when it was opened fills an empty name and never replaces
\* what another writer or process put there since; an error that says NotPublished
\* leaves the destination to a retry and no other ever follows it; and nothing that
\* abort, Drop or a failed commit does is visible.  (install_and_sync_parent,
\* commit_recoverably, LocalWriteFailureState)
ImplementsPublication == Pub!Spec

=============================================================================
