# Verification of rs-local-files

`rs-local-files` is a synchronous Rust library for local file operations: one
`LocalFileSystem` value, either *Host* (the process's own namespace) or *Rooted*
(confined to a directory), with readers, writers, conditional writers, temporary
resources, deletion, listing, copying, renaming and staged directory trees.
Nothing in it runs concurrently by itself. What makes it hard is everything
around it: other processes act on the same names between any two system calls,
every system call may fail, some report a failure after they took effect, and
the machine may stop. The library's central promise is about exactly that: it
tells its caller *what happened* (published or not, changed or not, durable or
not, what is left behind), and never touches what is not its own.

This directory models that promise in TLA+, checks it with TLC on small
instances, and proves parts of it with TLAPS for all instances. The models follow
the Unix build, and the Windows build where a module names it as an option; line
numbers of the definitions are in `PROJECT.json` (`map`).

## 1. Inventory

| Part | State | Operations | What is hard about it |
|---|---|---|---|
| Digest-conditional writer (`writer/local_conditional_writer.rs`, `local/internal/conditional/`) | private candidate and its copy, the target, recovery entries, the commit's stage | open, write, abort, drop, commit (copy, verify, sync, precheck, exchange, inspect, verify, roll back, sync, clean up) | the target may be replaced before, during and after the exchange; an exchange may fail and still have happened; a failed commit must hand out everything it leaves |
| File writer (`writer/local_file_writer.rs`, `local/local_atomic_writer.rs`, `local/local_root_atomic_writer.rs`) | writer state, staging file, byte count, poisoned flag | open, write, flush, commit, abort, drop, for CreateNew, CreateOrReplace and Append | two writers for one name; commit that fails and gives the writer back; synchronization before and after installation |
| Temporary resources (`temp/`) | source state, access state, content handle, sandbox directory | write, seal, persist, keep, cleanup, drop, recovery | identity checked before a removal by name; rename with unknown effect; seal that fails half way |
| Creation of temporary resources (`host_local_file_system/temp.rs`, `rooted_local_file_system/temp.rs`, `temp/internal/privacy_*`) | allocated names, sandbox, privacy state | create file, create directory, recover | retries on taken names, creation that fails after the sandbox exists |
| Deletion (`local/internal/delete_tree.rs` and backends) | work stack, budget, `changed` | delete_file, delete_directory | entries come and go during the deletion; what an error says was changed |
| Directory walker (`walk/`) | stack of frames, open readers, followed identities, seen names, budgets | next | readers closed and reopened under a limit, links and cycles, entries replaced between inspection and opening |
| Rename (`host_local_file_system/rename.rs`, `file_move.rs`) | none between calls | rename | effect of a failed rename, durability after the fact |
| Copy (`host_local_file_system/copy.rs`, `copy_dir/`, `rooted/copy/`) | stack of frames, budget, statistics, staged file | copy of file, link, tree | overlap, destination races, partial results |
| Creation of directories | none between calls | create_directory | races of creators, partial recursive creation |
| Staged trees (`directory/local_staged_directory/`) | staged tree, access and sync progress | open, write files, apply access, sync, publish | a tree published by one rename after its identity was checked; crash after publication |
| Retained trees (`directory/tree_recovery/`) | what a failed publication kept | verify, cleanup, drop | cleanup of what may have changed owner |
| Directory handles and bindings (`directory/local_directory_handle.rs`) | a pinned directory and the path that led to it | open relative to it, verify | path and handle drift apart |
| Link resolution (`resolution/`, `rooted/rooted_resolution_cursor.rs`, `rooted_local_file_system/support.rs`) | pending and resolved components, active links, hop count | resolve | cycles, limits, confinement |
| Observed readers (`observation/`) | reader, first observation, bindings | open, observe, read limited, verify | stale observation, exact limits |
| Paths, names, codec (`path/`) | none | encode, decode, compose, resolve | canonical form, truncated sequences |
| File-system value (`file_system/`, `local_file_system/configuration.rs`) | virtual current directory, defaults | getters and setters | snapshot of the current directory per call |
| Windows backends, metadata copying, capability probes, test support | | | translation of platform structures |

Interactions: the facade (`local_file_system/`) resolves paths, validates
options and calls one of the backends above; the conditional writer, the file
writer, persist and publication of trees all end in *one native namespace
operation* (exchange, rename or link) followed by inspection, synchronization and
cleanup; deletion is used by temporary directories, copies that replace a
directory and retained trees; the walker and the recursive operations share the
native directory readers.

Hard behaviours, and the properties wanted of them, are listed line by line under
`hazards` in `PROJECT.json`.

## 2. How the parts are covered

Most important behaviour first: what is published, then what is removed, then
what is read, then what is computed.

| What | Modules | Means |
|---|---|---|
| Publication of a file | `Publication` (abstract), `ConditionalCommit`, `FileWriter`, `TempResource` | TLC; every property proved, the refinement of `Publication` by both writers included |
| Publication of a tree | `StagePublish`, `StageLifetime` | TLC; every property that holds proved |
| Removal | `TreeDelete` | TLC; its report proved |
| Change of one name, copying | `NamespaceCall`, `TreeCopy` | TLC |
| Listing, reading, resolution | `DirectoryWalker`, `PathResolve`, `ObservedRead` | TLC, against reference definitions |

What would come next: the report of `NamespaceCall`, whose invariant has the shape
of those already proved, the conditional writer on Windows, and the path codec.

## 3. The modules

Each component has one module. Its variables are the fields of the Rust values
plus the part of the file system the operation can see; its actions are the
calls of the public interface or, inside a call, the pieces between two native
calls, because that is where other processes get in. `pc` names the place in the
code. Other processes are actions of their own with a bound on their number.
A native call may fail at the places the constant `FaultPoints` or the bound
`MaxFaults` allows. Variables and definitions marked *history* record what
happened, for the properties; no action of the program reads them.

### ConditionalCommit

`LocalConditionalWriter` and `commit_conditional_with_directory` over the Unix
backend. One directory with three names (`target`, `candidate`, `copy`); files
are identities that may be reused once they have no name and no open descriptor;
contents stand for their digests. `Open`, `Write`, `Abort`, `Drop`, `Commit` are
the caller's operations; `CreateCopy` to `Report` follow `commit.rs` from top to
bottom, one action per stage, with `PublishAbsent`/`PublishContent`, `Inspect`
and `RollbackExchange`/`RollbackReceipt` taken from `unix.rs`. `pdirs` is the set
of directory states a crash may leave: a namespace change adds a state, a
directory synchronization keeps the last one only. Other processes replace,
overwrite and delete the target; in the *rough* environment they also write
through a descriptor they hold and delete the private names. What the writer
destroys and hands out is stated for the *gentle* environment, where only it acts
on its private names; everything else is stated for both.

### FileWriter

`LocalFileWriter` on one name: several writers at a time, each staged or
appending. `Commit*` actions follow `LocalAtomicWriter::commit` and
`LocalRootAtomicWriter`: open parent, prepare (metadata, synchronization), verify
that the destination is still the one that was seen, install (rename, or link and
unlink), recover from a lost race, synchronize the parent. `history` is the list
of objects the destination has named, `settled` how much of it is on disk.
Assumed of the environment: a rename or link that reports an error had no effect
(the Unix build's `replacement_error_state` answers `Unchanged`); the identity
check of a staging file and its removal are one step; no symbolic link is at the
destination.

### TempResource

One `LocalTempFile` or `LocalTempDirectory` guard from the moment it was created:
writing, `seal` and the recovery it returns on failure, `persist` in its steps,
cleanup and `Drop`, with a sandbox directory that must go too. Names hold `own`,
`foreign` or `none`. A crash forgets what was not synchronized.

### TreeDelete

`delete_file`, `delete_directory` and `remove_directory_tree`, one native call per
action. A path is a sequence of names; the work stack, the budget and `changed`
are the variables of the scheduler. The open reader returns every entry that was
there throughout and may return one that came or went. Assumed of the
environment: no process puts a link in the place of a directory between its
inspection and its opening. Every non-directory is a `file`.

### DirectoryWalker

`LocalDirectoryWalker::next` for both scopes, which differ in what a link leads
to, in the identity check after opening and in the report of a cycle.
Directories are identities; a frame holds its path, its identity, its reader and
the names it has seen. Assumed of the environment: other processes create no
links; a link holds a path without further links; the two metadata calls of the
Host scope are one step.

### Publication

The abstract specification of what the writers promise. A published name shows
one file; each publisher has a staged file, what it displaced and could put back,
what it has done to the name (`effect`) and what its caller was told (`verdict`).
The name changes only in `Install` or `Withdraw`, each one step; a publisher in
`fresh` fills an empty name only; a verdict is final unless it says that nothing
was published, and never misstates the effect. `ConditionalCommit` implements it
with one publisher (`ImplementsPublication`, with `Kept`, `Effect` and `Verdict`
as the refinement mapping: the exchange is `Install`, the exchange back is
`Withdraw`, all else is `Prepare`), `FileWriter` with one publisher per writer.

### StagePublish

`sync_tree_with_options` and `publish_new` of a staged directory. Objects have
identities; a walk sees what a path names now, a pinned handle stays on what it
opened. The actions follow `publish.rs`, `sync.rs` and `access.rs`: checks of
options and names, collection of the tree, synchronization file by file and
directory by directory, access changes entry by entry with the verification walk,
validation against the manifest, the two identity checks, the rename without
replacement, the synchronization of the parent, and every early return with the
stage it gives back or gives up. A crash keeps what was synchronized. What a pass
has still to do is a set of path and object, in the order that `ShallowFirst` gives
the paths. The history
variable `quiet` holds one mark per interval in which no other process has moved
("since the collection", "since the check", ...); a property that a disturbance
defeats is stated where its mark is still there. The mark `intact` says in the same
way that nothing has touched the files since they were synchronized.

### StageLifetime

The life of a stage around its publication: `create_staged_directory` with its
attempts and each access kind, `write_file_new`, leaving it in place, reopening by
name, cleanup through `LocalTreeRetainedResource` (collect, recheck, remove,
release the handle, remove the directory, reopen on failure), `Drop`, and the
`LocalTempRecovery` an error carries. A write into a private stage creates its file
under the path and hands out a recovery when it fails. A write into a default stage
goes through `LocalAtomicWriter`: the `Atomic*` actions open a staging file under a
path of `StagingPaths`, fill it, install it by rename or by link and unlink, and
abandon it by a check of identity and an unlink by name, either of which may fail;
such a failure is reported as the cleanup error. `StagingPaths` are names nobody
else gives to a file of the caller.

### TreeCopy

One call of `copy` on a file, a link or a tree in both scopes, which share the
scheduler and differ in when an entry is charged, how a file is installed and what
is removed first. Frames, budgets, conflict decisions, staging, installation and
the failure's state follow `copy_dir/` and `rooted/copy/`. The removal of a
conflicting tree is one step whose effects are those that `TreeDelete` shows a
deletion to report. The source does not change during the call.

### NamespaceCall

The calls that change one name at a time: `create_directory`, `rename` and the
creation of a temporary file or directory, in both scopes and on both systems.
Host functions name a path again at every native call, Rooted ones work below an
opened parent, so entries have identities and a handle is an identity. Native
calls may fail before or after they took effect where the code distinguishes
that. A crash after a rename keeps of every directory at least what was last
synchronised.

### PathResolve and ObservedRead

`PathResolve` is a resolution session: the link-free walk, the queue of steps with
end markers of links, the set of active links and every limit, and the Host's walk
that asks the system component by component. Its reference definition is the
kernel's recursive walk. `ObservedRead` uses it, one native step at a time, for a
client that reads with a limit, takes snapshots between two observations, opens
directory handles and bound readers and asks later whether their name still leads
to them, while another process relinks names and rewrites files. Assumed of the
environment: a write leaves a timestamp of its own.

### Proof modules

A proof module extends the module it is about; section 5 describes the arguments.

| Module | About | Builds on |
|---|---|---|
| `ConditionalCommit_proofs` | the report and the refinement of the conditional writer | `ConditionalCommit` |
| `ConditionalRecovery_proofs` | its reasons, recovery entries, what it destroys, crashes | `ConditionalCommit_proofs` |
| `FileWriter_proofs` | everything the run `writer` checks | `FileWriter` |
| `TempResource_proofs` | everything the run `temp` checks | `TempResource` |
| `TreeDelete_proofs` | the report of a deletion | `TreeDelete` |
| `PublishCalls_proofs` | lemmas: calls, walks and access of a publication | `StagePublish` |
| `StagePublish_proofs` | everything the run `publish` checks | `PublishCalls_proofs` |
| `StageLifetime_proofs` | everything the run `lifetime` checks | `StageLifetime` |

### MC modules

`MC_*` give model values, the sets of options and trees explored and the
symmetry sets.

## 4. The runs

| Run | What it shows | Bounds | Distinct states |
|---|---|---|---|
| `conditional` | The conditional writer implements `Publication` (`ImplementsPublication`); its reason fits the attempt (`ReasonFitsAttempt`); the copy of the candidate and every leftover are among the recovery entries (`RecoveryIsComplete`); only own files and the one the precondition names are destroyed (`DestroysOnlyOwnOrExpected`); no crash shows a torn file or loses B where synchronization was required or reported (`CrashKeepsSave`) | 4 files, 3 contents, preconditions "content A" and Absent, 2 steps of others, any number of failures (in the gentle environment not of the lookups that find a leftover), one requirement varied at a time | 3.95 million |
| `writer` | The writers implement `Publication` (`ImplementsPublication`); a commit's report is true (`CommitReportsTruthfully`); a writer that is handed back works (`OpenWriterIsUsable`); no staging file is forgotten (`StagingReclaimed`); what was durable survives a crash and required synchronization leaves nothing torn (`CrashKeepsPromises`) | two workloads: 2 writers of 1 byte and 1 step of others; or 1 writer of 2 bytes in every mode and with every requirement, 2 steps of others and a crash; 2 failures; rename and link fallback | 2.17 million |
| `temp` | A guard's source state is what its names hold (`SourceStateTruthful`), `persist` reports what happened (`PersistReportTruthful`), a crash keeps what was promised (`CrashKeepsPersist`), and it acts only with authority (`GuardKeepsToItsAuthority`): after an indeterminate persist nothing is published or removed, only its own entry is ever removed, a sealed file is not written | 1 write, 2 descendants, 2 steps of others, 2 failures, a crash | 1.82 million |
| `delete` | The result of a deletion says what it did (`ReportTruthful`), an undisturbed deletion is complete or stops at a limit (`UndisturbedDeletionCompletes`), the budget is exact and at most one removal follows the deadline (`LimitsHold`), the call returns (`CallReturns`) | every tree on 7 paths (two names, depth two), every combination of options, eight limits, 2 steps of others, 1 failure | 1.04 million |
| `walk` | Identities on the stack, the number of readers and the directory of a Rooted reader (`FramesAreSound`); no path twice after reopening and, undisturbed, exactly the paths of a reference definition (`EachEntryOnce`); the end of the walk (`WalkEnds`) | alone: 549 trees of 3 directories with links up, across and dangling, with 1 or 2 readers; disturbed: 3 trees, each policy and limit, 1 step of others, 1 failure; both scopes | 1.18 million |
| `publish` | The result of `publish_new` says what happened to names and access (`PublishReportTruthful`); a published tree was valid when it was checked (`PublishedTreeIsValid`); a tree synchronized and then published durably is complete after a crash, unless an access change came in between and the files were not synchronized again (`SyncedTreeSurvivesCrash`) | 4 trees of 3 paths, 11 option sets chosen to reach every branch, 2 calls, 1 step of others, 1 failure | 3.70 million |
| `lifetime` | What creation and writing return and hand back is what they made, the staging file of an atomic write included (`StageReportTruthful`); a cleanup that fails makes its retry possible (`CleanupMakesProgress`); nothing is removed without identity and check (`RemovesOnlyWhatItChecked`) | 2 names, 5 paths, two of them for staging files, 6 option sets, 3 calls, 2 steps of others, 1 failure | 6.77 million |
| `lifetime_reopen` (violated) | `CleanupIsIdentityBound`, see the findings | the same | |
| `copy` | A failure tells the state of the destination (`CopyFailureTruthful`), nothing is destroyed against the policies (`CopyDestroysOnlyByPolicy`), an undisturbed copy gives exactly the tree and statistics of a reference definition (`UndisturbedCopyIsExact`), the call returns (`CopyReturns`) | trees of 5 paths with 4 kinds of link, each conflict policy, limits around their edges, both scopes, 1 step of others, 1 failure | 0.19 million |
| `namespace` | `CreateReportTruthful`: what create_directory says it made, and that racing creators all succeed; `RenameReportTruthful`; `DurableRenameSurvivesCrash`; `TempCreationTruthful`: nothing made is lost track of and the attempts are exact | every combination of options in both scopes and on both systems, 2 steps of others, 1 failure | 0.37 million |
| `observed` | A resolution equals the kernel's walk within its limits (`ResolutionExact`); a call reaches what its path names (`OpensWhatWasNamed`); a verification is right about the present (`VerifyTruthful`); a snapshot is one state of the file (`SnapshotIsOneState`); a limited read is exact at its limit (`LimitedReadExact`) | about 200 namespaces of 9 inodes with 3 links, 1-byte names, blocks of 2 bytes, 3 steps of others | 0.39 million |
| `observed_links` (violated) | `UntouchedIsUnchanged`, see the findings | one namespace, undisturbed | |

Each run takes about three minutes or less with two workers. File identities and
writers are symmetric in the runs `conditional` and `writer`, which check safety
only; the other runs use no symmetry.

Why the bounds are enough. Four files are the target before, the candidate, its
copy and one file of another process, with identities that may be reused. Two
steps of others suffice to change a name and change it back, the shortest
disturbance that a comparison of identities can miss; where one step is the bound
(`publish`, `copy`, `walk`) the properties are about what a name meant at one check
and the step can fall between any two of them. Failures are unbounded in
`ConditionalCommit`; two of them cover a failure and the failure of its cleanup,
and where one is the bound a change by another process makes the cleanup fail as
well. Trees of depth two have an operand, an inner directory and leaves, so that
an entry below another can fail or vanish. Three directories make a cycle of two
links and a directory reached by two ways. Three links make a chain, a cycle and a
diamond, and each limit takes the values at which one of these just fits.

Deadlock is checked in `conditional`, `copy`, `observed` and their companions,
where a finished call stutters explicitly. The other systems really stop: a guard
or writer that is gone, a call that has returned, a walk that has ended.

Fairness. `ConditionalCommit`, `FileWriter`, `TempResource`, `StagePublish`,
`StageLifetime`, `NamespaceCall` and `ObservedRead` state safety only; that an
undisturbed cleanup can be repeated to success is stated as an invariant of the
state a failed one leaves, because the code promises nothing about a caller who
does not retry. `TreeDelete` and `TreeCopy` assume weak fairness of the call's own
steps: a synchronous call keeps running until it returns. `DirectoryWalker` assumes
weak fairness of `next`: the property is about a caller that keeps asking. Nothing
is assumed of other processes or of the clock.

### Findings

- `lifetime_reopen`: after the removal of the root directory failed, the cleanup of
  a retained tree opens the recorded name again without a comparison of identity
  (`local_tree_retained_resource.rs:486`). If another directory had the name at
  that moment and the recorded one has it later, the next cleanup, although nobody
  disturbs it, compares the recorded identity with the name and then removes the
  entries of the handle, which are the other directory's. The type is documented as
  "identity-bound" and its cleanup as "identity-checked".
- `observed_links`: verification of a bound Rooted reader reopens its last anchor
  by a recipe that is resolved from the host root, so a directory link with a
  virtual absolute target makes an untouched name `Missing`
  (`directory_path_binding.rs`).

Observations made while modelling, which no run states on its own:

- A Rooted copy of a regular file over a symbolic link unlinks the link before it
  installs the staged file, yet reports an atomic publication, and does not refuse a
  request that requires atomicity (`rooted/copy/file.rs:251` and `:329`). No
  property speaks of `is_atomic`.
- The replacing rename of `FileWriter` acts after the last identity check of the
  destination; only the conditional writer detects a replacement in between.
- Removals by name after an identity check (temporary resources, recovery) leave a
  window between the two calls; the properties are stated for what the check saw.
- `rename` synchronizes the parent of the source before that of the target, and
  reports definite native errors of some kinds as `Indeterminate`, which is
  conservative.

What the properties leave open, where a reader might expect more:

- `RecoveryIsComplete` and `DestroysOnlyOwnOrExpected` speak of the *gentle*
  environment: nobody else deletes the private names or writes through a descriptor
  they hold, and no lookup that finds a leftover fails (such a failure leaves the
  code without knowledge of the file). The clause that no
  recovery entry opens on a partial copy holds in every environment.
- `VerifyTruthful` speaks of a verification during which nothing moves: a binding is
  verified in several native steps, and no answer can be right about all of them if
  names change in between.
- `ResolutionExact` speaks of resolutions that end; that each one does is not a
  property of its own.
- The byte count of a writer is checked and recorded in one call. The model keeps
  the check as the guard of `Write`; a property would only repeat it.
- `RemovesOnlyWhatItChecked` says that an entry is removed from the directory the
  resource has open. That this need not be the recorded one is the finding above.

Every property of every passing run has a mutant in `PROJECT.json`: a plausible bug in
one definition (a dropped guard, an off-by-one, a missing reset) with which TLC
finds the property violated.

## 5. The proofs

The theorems hold for all values of the constants that satisfy the named
assumptions of the modules: any sets of files, contents, names, paths, options and
fault points, any depth, any number of calls, failures and steps of other
processes. The assumptions are these, and TLC evaluates them on every run:

- `ConstantsAssumption` of each module: the sets of different things are disjoint,
  options are records of the right type, bounds are naturals. In `StagePublish` also
  that `ShallowFirst` lists each path once, that the parent of a path is a path, that
  the initial trees are trees and that `None` is no option set.
- `GentleAssumption` of `ConditionalCommit`: in the gentle environment the lookups
  that find a leftover do not fail (`FaultPoints["gentle"]` has none of
  `LeftoverLookups`). It restricts what may happen: where such a lookup fails the code
  does lose track of a file. Only what is stated for the gentle environment depends on
  it (`WriterDestroysOnlyItsOwn`, all of `RecoveryEntriesAreComplete` but its first
  clause, the copy in `CrashesKeepSaves`); the rough environment has no such
  restriction, and the theorems of `ConditionalCommit_proofs` do not use it.
- `PathsAssumption` of `StageLifetime`: with a path its parents are paths, and
  nothing lies below a staging file.

Each invariant theorem has the same frame: `Init => IInv`, one lemma per layer of
`IInv` with one step per action, and a last step by PTL. The invariants were checked
by TLC as invariants of the runs before they were proved. Every proof module sets a
longer time limit for Zenon, which most leaves use; leaves with arithmetic, sequences
or nested updates name the SMT solver.

**ConditionalCommit_proofs.** `WriterImplementsPublication` is
`Spec => ImplementsPublication`, the refinement of `Publication`. It rests on
`CommitReportsTruthfully`, which is `Spec => []PublicationIsTruthful`;
`WriterChangesTargetAtomically` (an action property) and the type invariant follow
from the same inductive invariant,

    IInv == TypeOK /\ PublicationIsTruthful /\ NativeInv /\ CandidateInv /\ EntryInv

`PublicationIsTruthful` speaks of the report only and is not inductive. What makes
it so is knowing, at each `pc`, what the native calls have done and what the commit
has recorded of it (`NativeInv`): before the exchange nothing, at the inspection
that an exchange without effect was reported as an error, afterwards that the
candidate was installed, at the receipt of a rollback without error that it was
restored. The inspection concludes from two identities, so the invariant must also
know that the candidate is under its own name before the exchange and not
afterwards (`CandidateInv`); the rollback exchanges by name, so it must know that
the file it puts back is the one under the candidate's name (`EntryInv`). The
proof has one lemma per group of actions (writer, staging, inspection,
verification, receipt of the rollback, outcome, other processes) with one step per
action and conjunct. `ExchangeStateSound` is the heart: from what the two lookups
saw, "not published" is concluded only if the exchange had no effect and
"published" only if it had one, and everything else is indeterminate. For the
action property, `QuietSteps` shows that no other step of the writer touches the
target, `NativeSteps` that a native call leaves it alone or binds it to one
complete file. The refinement adds what the mapping must know: a writer that
takes a step has told its caller nothing yet (`RunningWriter`), the quiet steps keep or
give up the displaced file and never gain one (`QuietKeeps`), and the two native
calls are `Install` and `Withdraw` on the mapped state (`NativeEffect`). With the
truth of the report after the step, every step of the writer is a `Step` of
`Publication` (`WriterStepRefines`), and every step of another process a step of
its environment (`OthersRefine`).

**ConditionalRecovery_proofs** extends that invariant by five layers, each of which
relies on the ones before it. `ReasonInv` ties the reason of a failure to the
precondition and to what the exchange did: `ReasonsFitTheAttempt`. `CopyInv` says that
one entry names the copy of the candidate, that no other name and no descriptor of
others does, and that nobody writes to it once it was verified. `PrivateInv` says what
the private names hold at each `pc` in the gentle environment; the two give
`RecoveryEntriesAreComplete`. `BytesInv` says that a displaced file that passed the
verification still has the expected content, from which `WriterDestroysOnlyItsOwn`, an
action property, follows. `SyncInv` describes `pdirs`, the directory states a crash may
leave, and gives `CrashesKeepSaves`.

**FileWriter_proofs.** `IInv == Typed /\ \A w \in Writers : WriterInv(w)`, in five
layers: who holds a writer and what its last call said (`LifeInv`), what it owns
(`OwnerInv`), when the destination showed its file (`PositionInv`), what is on disk
(`DiskInv`), and the report (`ReportInv`). A step of one writer must be shown to leave
the others' layers alone; that works because a writer installs no file but its own, so
`history` never names the file of a writer that has not installed
(the last conjunct of `PositionInv`). `CommitsReportTruthfully`,
`OpenWritersAreUsable`, `StagingIsReclaimed` and `CrashesKeepPromises` follow from the
layers, and `WritersImplementPublication` is the refinement with one publisher per
writer.

**TempResource_proofs.** The three state properties are part of `IInv`; what makes them
inductive is what a running call knows (`CallInv`: the state it saw when it began is
still the state, the entry it checked is still there unless `raced`), what a finished
one leaves (`FinishedInv`) and when bytes and names reached the disk (`DurableInv`).
`SourceStateIsTruthful`, `PersistReportsTruthfully` and `PersistSurvivesCrash` are its
consequences, `GuardNeverExceedsItsAuthority` an action property from it.

**TreeDelete_proofs.** `DeleteResultTruthful` is `Spec => []ReportTruthful`, put
together from `DeleteReportsTruthfully` (`EffectTruthful`) and
`FalseOnlyWhenAbsent` (`FalseMeansOperandAbsent`). The invariant adds three facts.
While the call runs, `changed` is set exactly if it has removed something
(`HistoryInv`), which is what the effects of `fail` and `fail_during_removal` are
computed from. The operand is at the bottom of the work stack until it is in hand, and
removed when the stack is empty (`BottomInv`), so that the `Ok(true)` at the end of the
loop is right. `Typed` is the part of the type invariant the argument needs; the budget
has no part in it.

**PublishCalls_proofs and StagePublish_proofs.** The first shows what each place of the
two calls runs with and has changed and renamed (`CallInv`), that a walk nobody
disturbed has seen only what is there (`WalkInv`) and which objects have been given
their access (`PolicyInv`). The second adds `ValidInv`, what the verification walk has
established so far, and `SyncInv`, what is flushed and settled and what of it a crash
leaves. From these follow `PublicationsReportTruthfully`, `PublishedTreesAreValid` and
`SyncedTreesSurviveCrashes`. The lemmas on steps assume three facts of the walk
(`WalkFacts`: there is a next entry while one is due, a walk with nothing due has seen
the whole tree, link counts are numbers), which `WalkFactsHold` proves last. That a
finished walk has seen everything is an induction over the paths, which the provers
cannot take from the library; it is proved by the least path the walk could have missed
(`LeastMember`, from facts about finite sets), whose parent it has seen. The library's
`Cardinality` and the one of the model are different symbols to the prover;
`CardinalityHere` and `CardinalityThere` reduce both to one definition.

**StageLifetime_proofs.** `IInv` has, after the types, `PlaceInv` (the locals of a
running call and what the caller holds), `CreateInv` (the handle and the name agree
with the directory made as long as nobody moved), `WriteInv` and `AtomicInv` (the file
a write made, or the staging file of an atomic write, is at one place only, and a write
that returned accounts for it), and `CleanInv` (what the last look of a cleanup showed).
`StageReportsTruthfully` needs `Only`, that a file has one place: without it an unlink of
the staging file could leave it under another path. `CleanupsMakeProgress` needs that,
undisturbed, the work list is exactly the listing of the directory and the children come
before their parents, so that a removal of a directory finds it empty.
`RemovalsAreChecked` is an action property: the few actions that remove something are
singled out (`StepRemovesEntry` for entries), all others are shown to remove nothing.

Only model-checked:

- Liveness under fairness (`CallReturns`, `CopyReturns`, `WalkEnds`), which the prover
  does not reach.
- What a recursion over data computes for every input: `LimitsHold` and
  `UndisturbedDeletionCompletes` of `TreeDelete` (sums over the work stack, a fold over
  the tree), `EachEntryOnce`, `UndisturbedCopyIsExact` and `ResolutionExact` (reference
  definitions of a walk, a copy and a resolution).
- The other properties of `DirectoryWalker`, `TreeCopy`, `NamespaceCall` and
  `ObservedRead`, which are within reach but have not been proved.

## 6. What is not modelled

- The path codec: a pure function on bytes without state, for which the crate has
  property tests.
- On Windows, the conditional writer (replacement with a backup) and the handling
  of reparse points; both rest on behaviour of system calls that the code cannot
  observe afterwards. Where one module covers both systems (creation of temporary
  resources, rename, directories, staged trees) the Windows branch is modelled.
- Copying of metadata, ranges and sparse files, the encoding of owners and access
  lists, capability probes: translation of platform structures without a state of
  their own. They appear as one step that can fail.
- The caller's operations on a conditional writer's recovery files: single native
  calls guarded by the entry's identity.
- The wording of errors; only stage, kind, effect and the paths they are about are
  kept, where a property speaks of them.
- The kernel. Rename, link, exchange, unlink and directory streams are taken at
  their documented behaviour: atomic, a stream returns each entry that is there
  throughout once. A data synchronization that returns success is believed.
- Bytes. Content is a model value with a digest that has no collisions, or a short
  sequence or number of bytes where a property is about reading or counting.
