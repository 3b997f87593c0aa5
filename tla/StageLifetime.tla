---------------------------- MODULE StageLifetime ----------------------------
(***************************************************************************)
(* The life of a staged directory (LocalStagedDirectory) around its        *)
(* publication: creating it under a fresh name, writing files into it,     *)
(* cleaning it up through the LocalTreeRetainedResource that owns it,      *)
(* leaving it in place, reopening it by name, and what the errors of these *)
(* calls hand back to the caller.                                          *)
(*                                                                         *)
(* The parent directory maps names to directories, a directory maps paths  *)
(* to objects, and every object has an identity.  A handle stays on the    *)
(* directory it opened; a name is looked up again at every use.  Another   *)
(* process may exchange the names, and add, replace or remove entries,     *)
(* between any two steps; native calls fail and cleanup limits run out.    *)
(***************************************************************************)
EXTENDS Naturals, Sequences, FiniteSets

CONSTANTS
  Names,              \* names of the parent directory
  Mine, Foreign,      \* the directory the call creates, and another one
  FileIds, DirIds,    \* identities of the entries inside them
  TheirIds,           \* those of entries that another process makes
  None,
  Paths,              \* paths inside a directory
  StagingPaths,       \* those with a name that only the atomic writer gives
  ForeignEntries,     \* what Foreign holds at first
  StageOptions,       \* LocalStagedDirectoryOptions to create with
  MaxCalls,           \* bound: calls after the creation
  MaxMoves,           \* bound: changes another process makes
  MaxFaults           \* bound: native calls that fail

Roots == {Mine, Foreign}
Ids == FileIds \cup DirIds
ParentOf(p) == SubSeq(p, 1, Len(p) - 1)
Below(d, p) == Len(p) > Len(d) /\ SubSeq(p, 1, Len(d)) = d
NoEntries == [p \in Paths |-> None]

ASSUME ConstantsAssumption ==
  /\ Mine # Foreign /\ "parent" \notin Roots
  /\ None \notin Roots \cup Ids /\ None \notin Names /\ None \notin Paths
  /\ Roots \cap Ids = {}
  /\ TheirIds \subseteq Ids /\ ForeignEntries \in [Paths -> TheirIds \cup {None}]
  /\ {MaxCalls, MaxMoves, MaxFaults} \subseteq Nat

\* With a path its parents are paths; nothing is below a staging file.
ASSUME PathsAssumption ==
  /\ \A p \in Paths :
       /\ Len(p) \in Nat \ {0}
       /\ IF Len(p) = 1 THEN ParentOf(p) \notin Paths
          ELSE ParentOf(p) \in Paths /\ Below(ParentOf(p), p)
  /\ StagingPaths \subseteq Paths /\ \A s \in StagingPaths, p \in Paths : ~Below(s, p)

\* LocalStagedDirectoryOptions: who may use the stage, and the attempts at a
\* fresh name; `os` is the platform the crate was built for.
Options(o) ==
  /\ DOMAIN o = {"kind", "os", "attempts"}
  /\ o.kind \in {"default", "private", "owner", "ownerBad"}
  /\ o.os \in {"unix", "windows"} /\ o.attempts \in Nat

\* LocalTreeRetainedResource, inside a stage or handed out by an error: its
\* recorded name and identity, the handle on the directory, and the entries
\* whose identity was recorded.
NoOwner == [armed |-> FALSE, name |-> None, id |-> None, child |-> None, owned |-> NoEntries]
Retained(name, id, child) ==
  [armed |-> TRUE, name |-> name, id |-> id, child |-> child, owned |-> NoEntries]

\* LocalTempRecovery for one native entry: in the parent under a name, or in
\* the directory `at` under a path; `id` and `file` may be missing.
NoRecovery == [at |-> None, where |-> None, id |-> None, partial |-> None]
Recovery(at, where, id, obj) == [at |-> at, where |-> where, id |-> id, partial |-> obj]

\* LocalTreeCreateError, and the results of the other calls; `cleanup` says that
\* the error, or the LocalAtomicWriteError inside it, has a cleanup_error.
CreateError(mutation) == [op |-> "create", ok |-> FALSE, mutation |-> mutation, cleanup |-> FALSE]
Outcome(op, ok) == [op |-> op, ok |-> ok, mutation |-> "NotStarted", cleanup |-> FALSE]
CleanupError == [Outcome("write", FALSE) EXCEPT !.cleanup = TRUE]
NoOutcome == Outcome("none", TRUE)

VARIABLES
  parent,   \* what each name of the parent directory names
  inside,   \* what each path inside a directory names
  full,     \* files whose content is complete
  pc,       \* place in the running call
  opts,     \* options of the stage
  life,     \* what the caller holds: "none", "stage", "retained"
  owner,    \* its LocalTreeRetainedResource
  recov,    \* LocalTempRecovery the last error carries
  tried,    \* attempts at a name so far
  name,     \* name the running create or reopen uses, staging path of a write
  handle,   \* directory the running call has open
  path,     \* path the running write uses
  file,     \* file the running write has open
  todo,     \* entries the running cleanup has still to remove
  dropping, \* the running cleanup is that of Drop
  outcome,  \* what the last call returned
  expected, \* identity a LocalTreeRecoveryLocation kept, None before
  calls, moves, faults,
  made,     \* history: objects the running call created
  quiet     \* history: marks passed since the last move or fault

fsVars == <<parent, inside, full>>
heldVars == <<life, owner, recov, expected>>
callVars == <<tried, name, handle, path, file, todo, dropping>>
vars == <<fsVars, pc, opts, heldVars, callVars, outcome, calls, moves, faults, made, quiet>>

Init ==
  /\ \E n \in Names : parent = [m \in Names |-> IF m = n THEN Foreign ELSE None]
  /\ inside = [r \in Roots |-> IF r = Foreign THEN ForeignEntries ELSE NoEntries]
  /\ full = FileIds /\ pc = "start" /\ opts \in StageOptions
  /\ life = "none" /\ owner = NoOwner /\ recov = NoRecovery /\ expected = None
  /\ tried = 0 /\ name = None /\ handle = None /\ path = None /\ file = None
  /\ todo = {} /\ dropping = FALSE /\ outcome = NoOutcome
  /\ calls = 0 /\ moves = 0 /\ faults = 0 /\ made = {} /\ quiet = {}

-----------------------------------------------------------------------------
\* Steps and results.

Same == UNCHANGED fsVars
Keep == UNCHANGED <<heldVars, outcome>>
Fixed == UNCHANGED <<opts, moves>>
NoFault == UNCHANGED <<faults, quiet>>

\* A native call fails, or a limit the code checks here is used up.
Fault == faults < MaxFaults /\ faults' = faults + 1 /\ quiet' = {}

Goto(to) == pc' = to /\ Fixed /\ UNCHANGED calls

\* The call returns: its locals are gone.
Return(result) ==
  /\ pc' = "idle" /\ outcome' = result /\ Fixed /\ UNCHANGED calls
  /\ tried' = 0 /\ name' = None /\ handle' = None /\ path' = None /\ file' = None
  /\ todo' = {} /\ dropping' = FALSE

Begin(to) ==
  /\ pc = "idle" /\ calls < MaxCalls /\ calls' = calls + 1 /\ pc' = to
  /\ made' = {} /\ quiet' = {"call"} /\ outcome' = NoOutcome /\ Fixed /\ UNCHANGED faults /\ Same

Fresh(S) == S \ UNION {{inside[r][p] : p \in Paths} : r \in Roots}
Put(r, p, id) == inside' = [inside EXCEPT ![r][p] = id]

Holds(r, p) == \E q \in Paths : Below(p, q) /\ inside[r][q] # None
Place(r, p) == IF Len(p) = 1 THEN TRUE ELSE inside[r][ParentOf(p)] \in DirIds

-----------------------------------------------------------------------------
\* create_staged_directory.

\* The attempt limit and the owner policy, checked before anything is created.
CreateRefused ==
  /\ pc = "start" /\ (opts.attempts = 0 \/ opts.kind = "ownerBad")
  /\ Return(CreateError("NotStarted")) /\ Same
  /\ UNCHANGED <<heldVars, made>> /\ NoFault

CreateStart ==
  /\ pc = "start" /\ opts.attempts > 0 /\ opts.kind # "ownerBad"
  /\ Goto("mkdir") /\ Same /\ Keep /\ UNCHANGED <<callVars, made>> /\ NoFault

Plain == opts.kind = "default"

\* stage_name collides: the next attempt, or AlreadyExists after the last.
NameTaken ==
  /\ pc = "mkdir" /\ \E n \in Names : parent[n] # None
  /\ IF tried + 1 < opts.attempts
     THEN /\ Goto("mkdir") /\ tried' = tried + 1
          /\ UNCHANGED <<outcome, name, handle, path, file, todo, dropping>>
     ELSE Return(CreateError("NotStarted"))
  /\ Same /\ UNCHANGED <<heldVars, made>> /\ NoFault

\* The directory is created.  NtCreateFile returns its handle at once; on Unix
\* the name has to be opened afterwards.
MakeDirectory ==
  /\ pc = "mkdir"
  /\ \E n \in Names :
       /\ parent[n] = None
       /\ parent' = [parent EXCEPT ![n] = Mine] /\ name' = n
  /\ handle' = IF ~Plain /\ opts.os = "windows" THEN Mine ELSE None
  /\ Goto(IF Plain THEN "openDir" ELSE IF opts.os = "windows" THEN "verify" ELSE "openAt")
  /\ made' = {Mine} /\ quiet' = {"made"}
  /\ Keep /\ UNCHANGED <<inside, full, tried, path, file, todo, dropping, faults>>

\* The native call fails.  A private creation then has no retained entry.  The
\* errors of create_directory for a single entry carry no effect state (only a
\* recursive creation reports one), so a default stage never learns more.
MakeFails ==
  /\ pc = "mkdir" /\ Fault /\ Same /\ UNCHANGED <<heldVars, made>>
  /\ Return(CreateError(IF Plain THEN "Indeterminate" ELSE "NotStarted"))

\* create_directory reports an error after the directory came to be.
MakeFailsLate ==
  /\ pc = "mkdir" /\ Plain /\ Fault
  /\ \E n \in Names : parent[n] = None /\ parent' = [parent EXCEPT ![n] = Mine]
  /\ made' = {Mine} /\ Return(CreateError("Indeterminate"))
  /\ UNCHANGED <<inside, full, heldVars>>

\* openat of the private directory just made.
OpenAt ==
  /\ pc = "openAt" /\ parent[name] # None
  /\ handle' = parent[name] /\ Goto("verify")
  /\ Same /\ Keep /\ UNCHANGED <<tried, name, path, file, todo, dropping, made>> /\ NoFault

OpenAtFails ==
  /\ pc = "openAt" /\ (IF parent[name] = None THEN NoFault ELSE Fault)
  /\ recov' = Recovery("parent", name, None, None)
  /\ Return(CreateError("Started"))
  /\ Same /\ UNCHANGED <<life, owner, expected, made>>

\* Mode, owner, type and, on Unix, the identity the name shows are verified.
Verified == opts.os = "windows" \/ parent[name] = handle

VerifyDirectory ==
  /\ pc = "verify" /\ Verified /\ Goto("created")
  /\ Same /\ Keep /\ UNCHANGED <<callVars, made>> /\ NoFault

\* The native entry with its identity becomes both a retained resource and the
\* recovery of the error.
VerifyDirectoryFails ==
  /\ pc = "verify" /\ (IF Verified THEN Fault ELSE NoFault)
  /\ recov' = Recovery("parent", name, handle, handle)
  /\ life' = "retained" /\ owner' = Retained(name, handle, None)
  /\ Return(CreateError("Started"))
  /\ Same /\ UNCHANGED <<expected, made>>

\* The error hands out a resource.
CreateRetains(mutation, id, child) ==
  /\ life' = "retained" /\ owner' = Retained(name, id, child)
  /\ Return(CreateError(mutation)) /\ Same /\ UNCHANGED <<recov, expected, made>>

\* query_observation of the handle a private creation returned.
CreatedIdentity ==
  /\ pc = "created"
  /\ \/ Goto("openDir") /\ Same /\ Keep /\ UNCHANGED <<callVars, made>> /\ NoFault
     \/ Fault /\ CreateRetains("Started", None, None)

\* The stage is opened by name; a default stage knows no identity before that.
OpenDirectory ==
  /\ pc = "openDir" /\ parent[name] # None
  /\ handle' = (IF Plain THEN parent[name] ELSE handle)
  /\ file' = parent[name]
  /\ Goto("observe")
  /\ Same /\ Keep /\ UNCHANGED <<tried, name, path, todo, dropping, made>> /\ NoFault

OpenDirectoryFails ==
  /\ pc = "openDir" /\ (IF parent[name] = None THEN NoFault ELSE Fault)
  /\ CreateRetains("Started", IF Plain THEN None ELSE handle, None)

\* The opened directory is observed, and must be the one that was created.  A
\* default stage is observed twice: the first time its identity is not known yet.
ObserveDirectory ==
  /\ pc = "observe"
  /\ \/ /\ file = handle /\ Goto("named")
        /\ Same /\ Keep /\ UNCHANGED <<callVars, made>> /\ NoFault
     \/ file # handle /\ NoFault /\ CreateRetains("Indeterminate", handle, None)
     \/ Fault /\ Plain /\ CreateRetains("Started", None, handle)
     \/ Fault /\ CreateRetains("Started", handle, None)

\* The name is observed, and must still show it.
ObserveName ==
  /\ pc = "named"
  /\ \/ /\ parent[name] = handle /\ NoFault
        /\ life' = "stage" /\ owner' = Retained(name, handle, handle)
        /\ Return(Outcome("create", TRUE)) /\ Same /\ UNCHANGED <<recov, expected, made>>
     \/ parent[name] # handle /\ NoFault /\ CreateRetains("Indeterminate", handle, None)
     \/ Fault /\ CreateRetains("Indeterminate", handle, None)

-----------------------------------------------------------------------------
\* write_file_new.

WriteBegin ==
  /\ life = "stage" /\ Begin(IF Plain THEN "wAtomic" ELSE "wParent")
  /\ \E p \in Paths \ StagingPaths : path' = p
  /\ recov' = NoRecovery
  /\ UNCHANGED <<life, owner, expected, tried, name, handle, file, todo, dropping>>

WriteFails ==
  Return(Outcome("write", FALSE)) /\ UNCHANGED <<life, owner, expected, made>>

\* A default stage writes through LocalFileWriter.  Opening it finds the path
\* free and creates a staging file beside it.
AtomicOpen ==
  /\ pc = "wAtomic" /\ Place(owner.child, path) /\ inside[owner.child][path] = None
  /\ \E s \in StagingPaths, f \in Fresh(FileIds \ TheirIds) :
       /\ ParentOf(s) = ParentOf(path) /\ inside[owner.child][s] = None
       /\ Put(owner.child, s, f) /\ name' = s /\ file' = f
       /\ made' = made \cup {f} /\ full' = full \ {f}
  /\ Goto("wFill") /\ NoFault /\ Keep /\ UNCHANGED <<parent, tried, handle, path, todo, dropping>>

AtomicOpenFails ==
  /\ pc = "wAtomic" /\ WriteFails /\ Same /\ UNCHANGED recov
  /\ IF Place(owner.child, path) /\ inside[owner.child][path] = None THEN Fault ELSE NoFault

\* The input is copied; the caller's reader fails, or has more than max_bytes,
\* or the native write does.
AtomicFill ==
  /\ pc = "wFill" /\ UNCHANGED <<parent, inside, made>> /\ Keep /\ UNCHANGED callVars
  /\ \/ full' = full \cup {file} /\ Goto("wCommit")
     \/ UNCHANGED full /\ Goto("wAbort")
  /\ NoFault

StagingShown == IF Place(owner.child, name) THEN inside[owner.child][name] ELSE None

AtomicReady ==
  Place(owner.child, path) /\ inside[owner.child][path] = None /\ StagingShown # None

\* The path gets the entry, and `left` is what the staging name keeps.
Install(entry, left) ==
  inside' = [inside EXCEPT ![owner.child][path] = entry, ![owner.child][name] = left]

\* The staging entry, whatever shows under its name now, gets the free path.
AtomicCommit ==
  /\ pc = "wCommit" /\ AtomicReady /\ Install(StagingShown, None)
  /\ Goto("wObserve") /\ NoFault /\ Keep /\ UNCHANGED <<parent, full, callVars, made>>

\* Where installing is a link and the staging name cannot be removed, commit
\* fails although the file is there; Drop may remove the name after all.
AtomicCommitLinked ==
  /\ pc = "wCommit" /\ AtomicReady /\ StagingShown \in FileIds /\ Fault
  /\ \E left \in {None, StagingShown} : Install(StagingShown, left)
  /\ Return(CleanupError) /\ UNCHANGED <<parent, full, heldVars, made>>

AtomicCommitFails ==
  /\ pc = "wCommit" /\ (IF AtomicReady THEN Fault ELSE NoFault)
  /\ Goto("wAbort") /\ Same /\ Keep /\ UNCHANGED <<callVars, made>>

AbortEnds ==
  /\ Return(IF dropping THEN CleanupError ELSE Outcome("write", FALSE)) /\ UNCHANGED heldVars

\* The error says so and carries no recovery.  Drop of the writer tries once
\* more, and may fail like the first attempt: the staging file stays.
AbortFails ==
  \/ Return(CleanupError) /\ UNCHANGED heldVars
  \/ /\ ~dropping /\ dropping' = TRUE /\ Goto("wAbort") /\ Keep
     /\ UNCHANGED <<tried, name, handle, path, file, todo>>

\* RootedStagedFile::cleanup, for abort_failed_stage_write, the failed commit or
\* Drop: a missing entry is as good as removed, another's is left alone.
AtomicAbort ==
  /\ pc = "wAbort" /\ Same /\ UNCHANGED made
  /\ \/ StagingShown = None /\ NoFault /\ AbortEnds
     \/ /\ StagingShown = file /\ Goto("wUnlink") /\ quiet' = quiet \cup {"checked"}
        /\ Keep /\ UNCHANGED <<faults, callVars>>
     \/ StagingShown \notin {None, file} /\ NoFault /\ AbortFails
     \/ Fault /\ AbortFails

\* Its unlink, by name.
AtomicUnlink ==
  /\ pc = "wUnlink" /\ UNCHANGED <<parent, full, made>>
  /\ \/ StagingShown \in FileIds /\ Put(owner.child, name, None) /\ NoFault /\ AbortEnds
     \/ StagingShown \notin FileIds /\ UNCHANGED inside /\ NoFault /\ AbortFails
     \/ Fault /\ UNCHANGED inside /\ AbortFails

\* ensure_owner_parent_directories: a missing parent is created with the
\* policy, one that is there is opened and must comply with it.  A private
\* stage only opens the parent.
WriteParent ==
  /\ pc = "wParent" /\ Place(owner.child, path)
  /\ Goto("wCreate") /\ Same /\ Keep /\ UNCHANGED <<callVars, made>> /\ NoFault

WriteParentMade ==
  /\ pc = "wParent" /\ opts.kind = "owner" /\ Len(path) > 1
  /\ inside[owner.child][ParentOf(path)] = None
  /\ \E d \in Fresh(DirIds \ TheirIds) :
       /\ Put(owner.child, ParentOf(path), d) /\ UNCHANGED <<parent, full>>
       /\ \/ Goto("wCreate") /\ NoFault /\ Keep /\ UNCHANGED <<callVars, made>>
          \/ Fault /\ WriteFails /\ UNCHANGED recov

WriteParentFails ==
  /\ pc = "wParent" /\ WriteFails /\ Same /\ UNCHANGED recov
  /\ IF Place(owner.child, path) THEN Fault ELSE NoFault

\* create_stage_file: O_EXCL in the parent that is open.
WriteCreate ==
  /\ pc = "wCreate" /\ Place(owner.child, path) /\ inside[owner.child][path] = None
  /\ \E f \in Fresh(FileIds \ TheirIds) :
       /\ Put(owner.child, path, f) /\ made' = made \cup {f} /\ full' = full \ {f}
       /\ UNCHANGED parent
       /\ \/ /\ Goto("wIdentity") /\ file' = f /\ NoFault /\ Keep
             /\ UNCHANGED <<tried, name, handle, path, todo, dropping>>
          \/ /\ Fault /\ recov' = Recovery(owner.child, path, f, f)
             /\ Return(Outcome("write", FALSE)) /\ UNCHANGED <<life, owner, expected>>

WriteCreateFails ==
  /\ pc = "wCreate" /\ WriteFails /\ Same /\ UNCHANGED recov
  /\ IF Place(owner.child, path) /\ inside[owner.child][path] = None THEN Fault ELSE NoFault

\* Mutant: the error without identity loses the recovery.
WriteIdentityForgotten ==
  /\ pc = "wIdentity" /\ Same
  /\ \/ Goto("wStream") /\ Keep /\ UNCHANGED <<callVars, made>> /\ NoFault
     \/ Fault /\ WriteFails /\ UNCHANGED recov

\* query_observation of the new file; without an identity the partial file
\* cannot be removed and stays with the recovery.
WriteIdentity ==
  /\ pc = "wIdentity" /\ Same
  /\ \/ Goto("wStream") /\ Keep /\ UNCHANGED <<callVars, made>> /\ NoFault
     \/ /\ Fault /\ WriteFails /\ recov' = Recovery(owner.child, path, None, file)

\* The input is copied; reading, writing or the size limit may fail.
WriteStream ==
  /\ pc = "wStream" /\ UNCHANGED <<parent, inside, made>>
  /\ \/ full' = full \cup {file} /\ Goto("wObserve") /\ Keep /\ UNCHANGED callVars /\ NoFault
     \/ /\ Fault /\ UNCHANGED full /\ Goto("rCheck")
        /\ recov' = Recovery(owner.child, path, file, file)
        /\ UNCHANGED <<life, owner, expected, outcome, callVars>>

\* The private write observes its open file; the default one observes the path.
\* record_entry refuses a path recorded with another identity.
WriteObserve ==
  /\ pc = "wObserve" /\ Same
  /\ LET id == IF Plain THEN inside[owner.child][path] ELSE file IN
     \/ /\ id # None /\ owner.owned[path] \in {None, id} /\ NoFault
        /\ owner' = [owner EXCEPT !.owned[path] = id]
        /\ Return(Outcome("write", TRUE)) /\ UNCHANGED <<life, recov, expected, made>>
     \/ /\ (IF id # None /\ owner.owned[path] \in {None, id} THEN Fault ELSE NoFault)
        /\ WriteFails /\ UNCHANGED recov

-----------------------------------------------------------------------------
\* LocalTempRecovery::cleanup of one native entry: after a failed private
\* write, or when the caller retries or drops what an error handed back.

Shown(r) == IF r.at = "parent" THEN parent[r.where]
            ELSE IF Place(r.at, r.where) THEN inside[r.at][r.where] ELSE None

\* On Windows the open handle is removed, whatever its name is now.
ByHandle == opts.os = "windows"

RecoveryBegin ==
  /\ recov # NoRecovery /\ Begin("rCheck") /\ dropping' \in BOOLEAN
  /\ UNCHANGED <<heldVars, tried, name, handle, path, file, todo>>

\* The failed write, or the recovery call, ends.  A dropped or emptied recovery
\* is gone.
RecoveryEnds(ok) ==
  /\ recov' = IF ok \/ dropping THEN NoRecovery ELSE recov
  /\ Return(Outcome(IF path # None THEN "write" ELSE "recovery", ok /\ path = None))
  /\ UNCHANGED <<life, owner, expected, made>>

RecoveryCheck ==
  /\ pc = "rCheck" /\ Same
  /\ LET ready == recov.id # None /\ recov.partial = recov.id
                  /\ (ByHandle \/ Shown(recov) = recov.id) IN
     \/ /\ ready /\ Goto("rDelete") /\ quiet' = quiet \cup {"checked"} /\ UNCHANGED faults
        /\ Keep /\ UNCHANGED <<callVars, made>>
     \/ (IF ready THEN Fault ELSE NoFault) /\ RecoveryEnds(FALSE)

RemoveRoot(n) == parent' = [parent EXCEPT ![n] = None] /\ UNCHANGED <<inside, full>>
RemoveEntry(r, p) == Put(r, p, None) /\ UNCHANGED <<parent, full>>
Empty(r) == inside[r] = NoEntries

\* unlinkat of the name: an entry of the recorded kind, and for a directory an
\* empty one.
Unlinkable(r) ==
  IF r.at = "parent" THEN Shown(r) # None /\ Empty(Shown(r)) ELSE Shown(r) \in FileIds

RecoveryDelete ==
  /\ pc = "rDelete"
  /\ \/ /\ ~ByHandle /\ Unlinkable(recov) /\ NoFault /\ RecoveryEnds(TRUE)
        /\ IF recov.at = "parent" THEN RemoveRoot(recov.where) ELSE RemoveEntry(recov.at, recov.where)
     \/ /\ ByHandle /\ NoFault
        /\ IF recov.at = "parent"
           THEN /\ Empty(recov.id) /\ RecoveryEnds(TRUE) /\ UNCHANGED <<inside, full>>
                /\ parent' = [n \in Names |-> IF parent[n] = recov.id THEN None ELSE parent[n]]
           ELSE /\ RecoveryEnds(TRUE) /\ UNCHANGED <<parent, full>>
                /\ inside' = [r \in Roots |-> [p \in Paths |->
                                IF inside[r][p] = recov.id THEN None ELSE inside[r][p]]]
     \/ /\ Same /\ RecoveryEnds(FALSE)
        /\ IF (IF ByHandle THEN recov.at = "parent" => Empty(recov.id) ELSE Unlinkable(recov))
           THEN Fault ELSE NoFault

-----------------------------------------------------------------------------
\* LocalTreeRetainedResource::cleanup, and the cleanup of Drop.

CleanupBegin ==
  /\ life # "none" /\ dropping' \in BOOLEAN
  /\ pc = "idle" /\ calls < MaxCalls /\ calls' = calls + 1 /\ pc' = "cStart"
  /\ made' = {} /\ quiet' = {"call"} \cup (IF owner.child = owner.id THEN {"child"} ELSE {})
  /\ outcome' = NoOutcome
  /\ Fixed /\ Same /\ UNCHANGED <<faults, heldVars, tried, name, handle, path, file, todo>>

\* A cleaned resource is disarmed; a failed explicit call hands the resource
\* back inside LocalTreeCleanupError; Drop forgets it.
CleanupEnds(ok, resource) ==
  /\ owner' = [resource EXCEPT !.armed = ~ok]
  /\ life' = IF ok \/ dropping THEN "none" ELSE "retained"
  /\ Return(Outcome(IF pc = "cStart" /\ ~owner.armed THEN "reopen" ELSE "cleanup",
                    ok /\ owner.armed))
  /\ UNCHANGED <<recov, expected, made>>

CleanupFails == CleanupEnds(FALSE, owner)

\* Mutant: cleanup does not look at cleanup_armed.
CleanupStartUnarmed ==
  /\ pc = "cStart" /\ Same
  /\ \/ /\ owner.id # None /\ parent[owner.name] = owner.id
        /\ Goto(IF owner.child # None THEN "cList" ELSE "cRoot")
        /\ NoFault /\ Keep /\ UNCHANGED <<callVars, made>>
     \/ /\ CleanupFails
        /\ IF owner.id # None /\ parent[owner.name] = owner.id THEN Fault ELSE NoFault

\* A disarmed resource does nothing; otherwise the name must show the recorded
\* identity, which must be known.
CleanupStart ==
  /\ pc = "cStart" /\ Same
  /\ \/ ~owner.armed /\ NoFault /\ CleanupEnds(TRUE, owner)
     \/ /\ owner.armed /\ owner.id # None /\ parent[owner.name] = owner.id
        /\ Goto(IF owner.child # None THEN "cList" ELSE "cRoot")
        /\ NoFault /\ Keep /\ UNCHANGED <<callVars, made>>
     \/ /\ owner.armed /\ CleanupFails
        /\ IF owner.id # None /\ parent[owner.name] = owner.id THEN Fault ELSE NoFault

\* Everything below the open directory, with its identity.
CleanupList ==
  /\ pc = "cList" /\ Same
  /\ \/ /\ todo' = {<<p, inside[owner.child][p]>> : p \in {q \in Paths : inside[owner.child][q] # None}}
        /\ Goto("cEntry") /\ NoFault /\ Keep
        /\ UNCHANGED <<tried, name, handle, path, file, dropping, made>>
     \/ Fault /\ CleanupFails

\* The deepest entry left: it must still show the identity it was listed with,
\* and the one recorded for it.
CleanupEntry ==
  /\ pc = "cEntry" /\ Same
  /\ \E e \in todo :
       /\ \A other \in todo : Len(other[1]) <= Len(e[1])
       /\ LET unchanged == inside[owner.child][e[1]] = e[2] /\ owner.owned[e[1]] \in {None, e[2]} IN
          \/ /\ unchanged /\ path' = e[1] /\ file' = e[2] /\ Goto("cDelete")
             /\ quiet' = quiet \cup {"checked"} /\ UNCHANGED faults
             /\ Keep /\ UNCHANGED <<tried, name, handle, todo, dropping, made>>
          \/ (IF unchanged THEN Fault ELSE NoFault) /\ CleanupFails

\* delete_file or delete_directory, whichever the listed kind was, by path.
Deletable(r, p, id) ==
  IF id \in DirIds THEN inside[r][p] \in DirIds /\ ~Holds(r, p) ELSE inside[r][p] \in FileIds

CleanupDelete ==
  /\ pc = "cDelete"
  /\ \/ /\ Deletable(owner.child, path, file) /\ RemoveEntry(owner.child, path)
        /\ todo' = todo \ {<<path, file>>} /\ path' = None /\ file' = None
        /\ Goto("cEntry") /\ NoFault /\ Keep /\ UNCHANGED <<tried, name, handle, dropping, made>>
     \/ /\ (IF Deletable(owner.child, path, file) THEN Fault ELSE NoFault)
        /\ Same /\ CleanupFails

\* The handle is released before the directory itself is removed.
CleanupListed ==
  /\ pc = "cEntry" /\ todo = {} /\ owner' = [owner EXCEPT !.child = None] /\ Goto("cRoot")
  /\ Same /\ NoFault /\ UNCHANGED <<life, recov, expected, outcome, callVars, made>>

CleanupRoot ==
  /\ pc = "cRoot" /\ Same
  /\ \/ /\ parent[owner.name] = owner.id /\ Goto("cRootDelete")
        /\ quiet' = quiet \cup {"checked"} /\ UNCHANGED faults /\ Keep /\ UNCHANGED <<callVars, made>>
     \/ (IF parent[owner.name] = owner.id THEN Fault ELSE NoFault) /\ CleanupFails

\* delete_directory, not recursive, by name.
CleanupRootDelete ==
  /\ pc = "cRootDelete"
  /\ LET there == parent[owner.name] IN
     \/ /\ there # None /\ Empty(there) /\ NoFault
        /\ RemoveRoot(owner.name) /\ CleanupEnds(TRUE, owner)
     \/ /\ (IF there # None /\ Empty(there) THEN Fault ELSE NoFault)
        /\ Goto("cReopen") /\ Same /\ Keep /\ UNCHANGED <<callVars, made>>

\* Mutant: a failed removal does not open the directory again.
CleanupReopenSkipped == pc = "cReopen" /\ CleanupFails /\ Same /\ NoFault

\* After a failed removal the name is opened again, without a look at identity;
\* if that fails too, the resource goes back without a handle.
CleanupReopen ==
  /\ pc = "cReopen" /\ Same
  /\ \/ NoFault /\ CleanupEnds(FALSE, [owner EXCEPT !.child = parent[owner.name]])
     \/ Fault /\ CleanupFails

-----------------------------------------------------------------------------
\* Leaving the tree in place, the end of the process, and reopening by name.

\* retain_in_place keeps path and identity for the caller and deletes nothing.
RetainInPlace ==
  /\ life # "none" /\ Begin("idle") /\ expected' = owner.id
  /\ life' = "none" /\ owner' = NoOwner /\ UNCHANGED <<recov, callVars>>

\* The process ends between two steps; the caller had saved name and identity.
ProcessEnds ==
  /\ pc # "start" /\ life = "stage" /\ calls < MaxCalls /\ calls' = calls + 1
  /\ pc' = "idle" /\ life' = "none" /\ owner' = NoOwner /\ recov' = NoRecovery
  /\ expected' = owner.id /\ outcome' = NoOutcome /\ made' = {} /\ quiet' = {}
  /\ tried' = 0 /\ name' = None /\ handle' = None /\ path' = None /\ file' = None
  /\ todo' = {} /\ dropping' = FALSE
  /\ Same /\ UNCHANGED <<opts, moves, faults>>

ReopenBegin ==
  /\ life = "none" /\ expected # None /\ recov = NoRecovery /\ Begin("oOpen")
  /\ name' \in Names /\ UNCHANGED <<heldVars, tried, handle, path, file, todo, dropping>>

ReopenFails == Return(Outcome("reopen", FALSE)) /\ UNCHANGED <<heldVars, made>>

\* open_directory by name, then observe: the identity must be the expected one.
ReopenOpen ==
  /\ pc = "oOpen" /\ Same
  /\ \/ /\ parent[name] = expected /\ handle' = expected /\ Goto("oVerify") /\ NoFault /\ Keep
        /\ UNCHANGED <<tried, name, path, file, todo, dropping, made>>
     \/ (IF parent[name] = expected THEN Fault ELSE NoFault) /\ ReopenFails

\* The access is checked, then a disarmed resource is made and the tree is
\* verified.
ReopenVerify ==
  /\ pc = "oVerify" /\ Same
  /\ \/ /\ owner' = [Retained(name, handle, handle) EXCEPT !.armed = FALSE]
        /\ Goto("oArm") /\ NoFault /\ UNCHANGED <<life, recov, expected, outcome, callVars, made>>
     \/ Fault /\ ReopenFails

\* A verified stage is armed; a failed one drops the disarmed resource.
ReopenArm ==
  /\ pc = "oArm" /\ Same
  /\ \/ /\ owner' = [owner EXCEPT !.armed = TRUE] /\ life' = "stage"
        /\ Return(Outcome("reopen", TRUE)) /\ NoFault /\ UNCHANGED <<recov, expected, made>>
     \/ /\ Fault /\ Goto("cStart") /\ dropping' = TRUE /\ Keep
        /\ UNCHANGED <<tried, name, handle, path, file, todo, made>>

-----------------------------------------------------------------------------
\* Another process.

OtherMoves ==
  /\ moves < MaxMoves /\ moves' = moves + 1 /\ quiet' = {} /\ pc # "start"
  /\ UNCHANGED <<pc, opts, heldVars, callVars, outcome, calls, faults, made>>

OtherExchangesNames ==
  /\ OtherMoves /\ UNCHANGED <<inside, full>>
  /\ \E m, n \in Names :
       parent[m] # parent[n] /\ parent' = [parent EXCEPT ![m] = parent[n], ![n] = parent[m]]

OtherAddsEntry ==
  /\ OtherMoves /\ UNCHANGED <<parent, full>>
  /\ \E r \in Roots, p \in Paths, id \in Fresh(TheirIds) :
       Place(r, p) /\ inside[r][p] = None /\ Put(r, p, id)

OtherRemovesEntry ==
  /\ OtherMoves
  /\ \E r \in Roots, p \in Paths : inside[r][p] # None /\ ~Holds(r, p) /\ RemoveEntry(r, p)

CreateNext ==
  \/ CreateRefused \/ CreateStart \/ NameTaken \/ MakeDirectory \/ MakeFails \/ MakeFailsLate
  \/ OpenAt \/ OpenAtFails \/ VerifyDirectory \/ VerifyDirectoryFails \/ CreatedIdentity
  \/ OpenDirectory \/ OpenDirectoryFails \/ ObserveDirectory \/ ObserveName
WriteNext ==
  \/ WriteBegin \/ AtomicOpen \/ AtomicOpenFails \/ AtomicFill \/ AtomicCommit
  \/ AtomicCommitLinked \/ AtomicCommitFails \/ AtomicAbort \/ AtomicUnlink
  \/ WriteParent \/ WriteParentMade \/ WriteParentFails \/ WriteCreate \/ WriteCreateFails \/ WriteIdentity \/ WriteStream
  \/ WriteObserve \/ RecoveryBegin \/ RecoveryCheck \/ RecoveryDelete
CleanupNext ==
  \/ CleanupBegin \/ CleanupStart \/ CleanupList \/ CleanupEntry \/ CleanupDelete
  \/ CleanupListed \/ CleanupRoot \/ CleanupRootDelete \/ CleanupReopen
  \/ RetainInPlace \/ ProcessEnds \/ ReopenBegin \/ ReopenOpen \/ ReopenVerify \/ ReopenArm
Next ==
  \/ CreateNext \/ WriteNext \/ CleanupNext
  \/ OtherExchangesNames \/ OtherAddsEntry \/ OtherRemovesEntry

Spec == Init /\ [][Next]_vars

-----------------------------------------------------------------------------
\* Properties.

Created == outcome.op = "create" /\ pc = "idle"

\* What create_staged_directory and write_file_new report is what they did.
\* "NotStarted" means no directory was made; a directory that was made and is not
\* returned is named by a resource or a recovery of the error, or the report says
\* "Indeterminate"; and the stage that is returned is the directory that was made:
\* a private one on Windows always, any other if nobody moved since mkdir.
\* A write into a private stage leaves no partial file unless its error carries
\* the recovery for it.  One into a default stage never shows a partial file
\* under the path; it leaves its staging file only when removing it failed, which
\* cleanup_error of the error, or of the LocalAtomicWriteError inside it, says:
\* there is no recovery for it.  The file a write reports is its own, complete,
\* and recorded with the identity that cleanup will ask for; a default stage
\* looks at the path once more, so there this holds if nobody moved.
StageReportTruthful ==
  /\ Created =>
       /\ ~outcome.ok /\ outcome.mutation = "NotStarted" => made = {}
       /\ ~outcome.ok /\ made # {} =>
            owner.name # None \/ recov.where # None \/ outcome.mutation = "Indeterminate"
       /\ outcome.ok =>
            /\ owner.id = owner.child /\ owner.armed
            /\ "made" \in quiet \/ (opts.os = "windows" /\ ~Plain) => owner.id = Mine
       /\ outcome.mutation = "Started" => made # {}
       /\ owner.id # None /\ "made" \in quiet => owner.id = Mine
  /\ outcome.op = "write" /\ pc = "idle" =>
       /\ \A r \in Roots, p \in Paths : inside[r][p] \in made \cap FileIds =>
            \/ inside[r][p] \in full /\ p \notin StagingPaths
            \/ ~Plain /\ ~outcome.ok /\ recov.partial = inside[r][p]
            \/ Plain /\ ~outcome.ok /\ outcome.cleanup /\ p \in StagingPaths
       /\ outcome.ok /\ (~Plain \/ "call" \in quiet) =>
            \E p \in Paths : /\ owner.owned[p] \in made \cap full
                             /\ "call" \in quiet => inside[owner.child][p] = owner.owned[p]

NotOwned == \E p \in Paths : owner.owned[p] # None /\ inside[owner.id][p] \notin {None, owner.owned[p]}

\* A cleanup that succeeds undisturbed has removed the tree.  One that fails
\* although nobody moved and no native call failed was refused for a reason
\* that holds (identity unknown, name or recorded entry replaced), or has just
\* opened the directory it needs for the next attempt to succeed.  The
\* exception: its handle is on another directory, which an earlier failed
\* removal opened under the name while somebody else's directory had it; such a
\* retry may be refused for a reason that does not hold of its own tree.
CleanupMakesProgress ==
  outcome.op = "cleanup" /\ pc = "idle" /\ "call" \in quiet =>
    /\ outcome.ok => parent[owner.name] = None
    /\ ~outcome.ok =>
         \/ owner.id = None \/ parent[owner.name] # owner.id \/ NotOwned
         \/ "child" \notin quiet /\ owner.child = owner.id
         \/ owner.child \notin {None, owner.id}

Ours == moves' = moves
RootGone(n) == parent[n] # None /\ parent'[n] = None
EntryGone(r, p) == inside[r][p] # None /\ inside'[r][p] = None

\* The program removes something only for an armed resource or a recovery that
\* knows an identity, so a reopen that failed and a resource without identity
\* delete nothing; a failed write removes only its own staging file.  What it
\* removes, if nobody moved since it looked, is the recorded directory itself,
\* or an entry of the directory the resource has open, with the identity it was
\* listed with and, where write_file_new recorded one, the recorded identity.
\* Whether that directory is the recorded one, CleanupIsIdentityBound says.
RemovesOnlyWhatItChecked ==
  [][Ours =>
       /\ \A n \in Names : RootGone(n) =>
            \/ pc = "cRootDelete" /\ owner.armed /\ owner.id # None
               /\ ("checked" \in quiet => parent[n] = owner.id)
            \/ pc = "rDelete" /\ recov.id # None
               /\ ("checked" \in quiet \/ ByHandle => parent[n] = recov.id)
       /\ \A r \in Roots, p \in Paths : EntryGone(r, p) =>
            \/ /\ pc = "cDelete" /\ owner.armed /\ owner.id # None /\ r = owner.child
               /\ "checked" \in quiet => <<p, inside[r][p]>> \in todo
                                         /\ owner.owned[p] \in {None, inside[r][p]}
            \/ /\ pc = "rDelete" /\ recov.id # None
               /\ "checked" \in quiet \/ ByHandle => inside[r][p] = recov.id
            \/ /\ pc = "wUnlink" /\ r = owner.child /\ p = name
               /\ "checked" \in quiet => inside[r][p] = file
            \/ pc = "wCommit" /\ p = name /\ inside'[r][path] = inside[r][p]]_vars

\* Cleanup is bound to the identity the resource recorded: a cleanup that nobody
\* disturbs removes entries of the directory with that identity and of no other,
\* as the documentation of LocalTreeRetainedResource has it.  It does not hold:
\* after a failed removal the code opens whatever has the name then, and the next
\* cleanup compares the recorded identity with the name, not with that handle.
CleanupIsIdentityBound ==
  [][Ours /\ pc = "cDelete" /\ "call" \in quiet =>
       \A r \in Roots, p \in Paths : EntryGone(r, p) => r = owner.id]_vars

=============================================================================
