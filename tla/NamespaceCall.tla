---------------------------- MODULE NamespaceCall ----------------------------
(***************************************************************************)
(* The calls that change one name at a time: create_directory, rename, and *)
(* the creation of a temporary file or directory, on the host file system  *)
(* and on a rooted one, built for Unix and for Windows.                    *)
(*                                                                         *)
(* The host functions name a path again at every native call; the rooted   *)
(* ones open the parent directory and then work below that handle.  An     *)
(* object therefore has an identity and at most one place, a handle is an  *)
(* identity, and another process may create and remove entries between any *)
(* two native calls.  Native calls fail; a crash keeps of every directory  *)
(* what was last written back, at least what was last synchronised.        *)
(***************************************************************************)
EXTENDS Naturals, Sequences, SequencesExt, FiniteSets, Functions

CONSTANTS
  DirectoryCalls,     \* calls of create_directory to start with
  RenameCalls,        \* calls of rename
  TempCalls,          \* calls of create_temp_file and create_temp_directory
  MaxFaults,          \* bound: native calls that fail
  MaxMoves            \* bound: changes another process makes

MaxDraws == 3                    \* bound: names a call draws, see Colliding

Boxes == <<"B1", "B2", "B3">>    \* the sandboxes and
Children == <<"C1", "C2", "C3">> \* the entries inside that draw k creates
BoxNames == <<"b1", "b2", "b3">>
ChildNames == <<"c1", "c2", "c3">>
Theirs == {"Od1", "Od2", "Of1", "Of2"}
Objects == {"root", "P", "L", "S", "T", "D"} \cup Range(Boxes) \cup Range(Children) \cup Theirs
Names == {"p", "s", "t"} \cup Range(BoxNames) \cup Range(ChildNames)
Nowhere == <<"Nowhere", "Nowhere">>
None == "None"
NoLimit == 99
LookupErrors == {"NotFound", "NotDirectory"}

\* LocalCreateDirectoryOptions; `parent` says what the first component of
\* the path is at first.
IsDirectoryCall(c) ==
  /\ c.op = "CreateDirectory"
  /\ c.recursive \in BOOLEAN /\ c.existsOk \in BOOLEAN
  /\ c.parent \in {"Missing", "Dir", "File"} /\ c.target \in {"Missing", "Dir", "File"}

\* LocalRenameOptions; `same` says that both names are in one directory,
\* `supported` whether the authority can make a rename durable, `legacy`
\* whether the volume refuses the Windows call that replaces.
IsRenameCall(c) ==
  /\ c.op = "Rename"
  /\ c.overwrite \in BOOLEAN /\ c.durability \in {"NotRequired", "Preferred", "Required"}
  /\ {c.same, c.supported, c.legacy} \subseteq BOOLEAN
  /\ c.source \in {"Dir", "File"} /\ c.target \in {"Missing", "Dir", "File"}

\* LocalTempFileOptions and LocalTempDirectoryOptions.
IsTempCall(c) ==
  /\ c.op \in {"TempFile", "TempDirectory"}
  /\ {c.private, c.createsParent} \subseteq BOOLEAN
  /\ c.max \in 0 .. 2 \cup {NoLimit} /\ c.parent \in {"Missing", "Dir", "File"}

ASSUME ConstantsAssumption ==
  /\ \A c \in DirectoryCalls : IsDirectoryCall(c)
  /\ \A c \in RenameCalls : IsRenameCall(c)
  /\ \A c \in TempCalls : IsTempCall(c)
  /\ \A c \in DirectoryCalls \cup RenameCalls \cup TempCalls :
       c.scope \in {"Host", "Rooted"} /\ c.os \in {"Unix", "Windows"}
  /\ {MaxFaults, MaxMoves} \subseteq Nat
  /\ MaxMoves < MaxDraws   \* every collision takes one entry of another process

VARIABLES
  at,         \* the place of every object: a directory and a name
  disk,       \* the entries of every directory when it was last synchronised
  call,       \* the call and its options
  pc,         \* where the call is
  handle,     \* the parent directory a rooted call opened
  index,      \* the component a recursive create_directory is at
  createdAny, createdTarget,   \* what create_directory believes it created
  draws, tries,       \* sandbox names drawn; host child names drawn
  box, child,         \* what the sandbox and child handles are on
  known,              \* whether the identity of the sandbox was read
  recovery,   \* the entries of the LocalTempRecovery, to clean up in order
  then,       \* what the call does after a cleanup
  out,        \* its outcome
  faults, moves,
  created,    \* history: the objects the call created
  moved, displaced,   \* history: what its rename moved and replaced
  collided,   \* history: names that were taken in the loop the call is in
  swept,      \* history: another process removed a directory
  after       \* the entries found after a crash

vars == <<at, disk, call, pc, handle, index, createdAny, createdTarget, draws, tries, box, child,
          known, recovery, then, out, faults, moves, created, moved, displaced, collided, swept, after>>
tempVars == <<draws, tries, box, child, known, recovery, then, collided>>
directoryVars == <<index, createdAny, createdTarget>>
renameVars == <<moved, displaced, disk>>

-----------------------------------------------------------------------------
(* The tree *)

Kind(o) ==
  CASE o \in {"Of1", "Of2"} -> "File"
    [] o = "S" -> call.source
    [] o = "T" -> call.target
    [] o = "D" -> call.parent
    [] o \in Range(Children) -> IF call.op = "TempFile" THEN "File" ELSE "Dir"
    [] OTHER -> "Dir"

Child(d, n) == {o \in Objects : at[o] = <<d, n>>}
Linked(d) == d = "root" \/ at[d] # Nowhere
Inside(d) == {o \in Objects : at[o][1] = d}
IsEmpty(d) == Inside(d) = {}

\* One component of a lookup: the entry, or the error of the native call.
Lookup(d, n) ==
  IF d \in LookupErrors THEN d
  ELSE IF Kind(d) # "Dir" THEN "NotDirectory"
  ELSE IF Child(d, n) = {} THEN "NotFound"
  ELSE CHOOSE o \in Child(d, n) : TRUE

Walk(path) == FoldLeft(Lookup, "root", path)
IsDirectory(o) == o \notin LookupErrors /\ Kind(o) = "Dir"

\* The error of a native call that creates name n in directory d.
CreateError(d, n) ==
  IF d \in LookupErrors THEN d
  ELSE IF Kind(d) # "Dir" THEN "NotDirectory"
  ELSE IF ~Linked(d) THEN "NotFound"
  ELSE IF Child(d, n) # {} THEN "AlreadyExists"
  ELSE "None"

Place(o, d, n) == at' = [at EXCEPT ![o] = <<d, n>>] /\ created' = created \cup {o}
Entries(d) == {<<at[o][2], o>> : o \in Inside(d)}
Fault == faults < MaxFaults /\ faults' = faults + 1
NoFault == UNCHANGED faults

NotRunning == [res |-> "Running"]

-----------------------------------------------------------------------------
(* create_directory *)

DirectoryPath == <<"p", "t">>
Component(k) == <<"P", "L">>[k]    \* the object that creating component k makes

Returns(o) == out' = o /\ pc' = "Returned"
DirectoryDone(target) == Returns([res |-> "Ok", created |-> target])

\* directory_mutation_error: an error after something was created says so.
DirectoryError(any) ==
  Returns([res |-> "Err", effect |-> IF any THEN "PartiallyApplied" ELSE "Unknown"])

\* open_rooted_parent in front of every native call of a rooted function: a
\* handle on the directory above the name, which later calls work below.
OpenRootedParent(path) ==
  /\ call.scope = "Rooted" /\ handle = None
  /\ handle' = Walk(SubSeq(path, 1, Len(path) - 1))
  /\ UNCHANGED <<at, disk, call, pc, out, faults, moves, created, moved, displaced, swept, after>>
  /\ UNCHANGED <<tempVars, directoryVars>>

OpenParentForDirectory ==
  /\ call.op = "CreateDirectory" /\ pc \notin {"Returned"}
  /\ OpenRootedParent(SubSeq(DirectoryPath, 1, index))

\* The directory a native call on component k works in: by path on the host,
\* below the handle on a rooted file system.
DirectoryOf(k) ==
  IF call.scope = "Rooted" THEN handle ELSE Walk(SubSeq(DirectoryPath, 1, k - 1))
Ready == call.scope = "Host" \/ handle # None

\* What a native call on component k leaves alone, and the handle it closes.
DirectoryStep ==
  /\ call.op = "CreateDirectory" /\ Ready
  /\ handle' = None
  /\ UNCHANGED <<call, disk, moves, moved, displaced, swept, after>> /\ UNCHANGED tempVars

\* The first look at the whole path, whose last component is `index` here.
InspectTarget ==
  /\ pc = "Inspect" /\ DirectoryStep
  /\ UNCHANGED <<at, created, createdAny, createdTarget>>
  /\ \/ Fault /\ DirectoryError(FALSE) /\ UNCHANGED index
     \/ /\ NoFault
        /\ LET found == Lookup(DirectoryOf(2), "t") IN
           \/ /\ found = "NotFound"
              /\ pc' = IF call.recursive THEN "Component" ELSE "Create"
              /\ index' = IF call.recursive THEN 1 ELSE 2
              /\ UNCHANGED out
           \/ /\ found # "NotFound" /\ ~IsDirectory(found)
              /\ DirectoryError(FALSE) /\ UNCHANGED index
           \/ /\ IsDirectory(found) /\ ~call.existsOk
              /\ DirectoryError(FALSE) /\ UNCHANGED index
           \/ /\ IsDirectory(found) /\ call.existsOk
              /\ DirectoryDone(FALSE) /\ UNCHANGED index

HostCreateDirectory == call.scope = "Host" /\ InspectTarget
RootedCreateDirectory == call.scope = "Rooted" /\ InspectTarget

\* The Windows rooted call creates and opens a directory at once and may then
\* fail to verify what it opened.
VerifiesCreated == call.scope = "Rooted" /\ call.os = "Windows"

\* create_dir of the target alone.
CreateTarget ==
  /\ pc = "Create" /\ DirectoryStep /\ UNCHANGED <<index, createdAny, createdTarget>>
  /\ LET d == DirectoryOf(2)  error == CreateError(d, "t") IN
     \/ Fault /\ DirectoryError(FALSE) /\ UNCHANGED <<at, created>>
     \/ error = "None" /\ Place("L", d, "t") /\ NoFault /\ DirectoryDone(TRUE)
     \/ /\ error = "None" /\ VerifiesCreated
        /\ Place("L", d, "t") /\ Fault /\ DirectoryError(FALSE)
     \/ /\ error = "AlreadyExists" /\ call.existsOk
        /\ pc' = "Recheck" /\ NoFault /\ UNCHANGED <<at, created, out>>
     \/ /\ error \notin {"None"} /\ ~(error = "AlreadyExists" /\ call.existsOk)
        /\ DirectoryError(FALSE) /\ NoFault /\ UNCHANGED <<at, created>>

\* Someone else made the target first: is it a directory?
RecheckTarget ==
  /\ pc = "Recheck" /\ DirectoryStep
  /\ UNCHANGED <<at, created, index, createdAny, createdTarget>>
  /\ \/ Fault /\ DirectoryError(FALSE)
     \/ /\ NoFault
        /\ IF IsDirectory(Lookup(DirectoryOf(2), "t")) THEN DirectoryDone(FALSE)
           ELSE DirectoryError(FALSE)

-----------------------------------------------------------------------------
(* create_host_directory_tree and create_rooted_directory_tree *)

IsLast == index = Len(DirectoryPath)

\* Go on below the component, or return what is known of the target.
Advance(target) ==
  IF IsLast THEN DirectoryDone(target) /\ UNCHANGED index
  ELSE index' = index + 1 /\ pc' = "Component" /\ UNCHANGED out

InspectComponent ==
  /\ pc = "Component" /\ DirectoryStep /\ UNCHANGED <<at, created, createdAny, createdTarget>>
  /\ LET found == Lookup(DirectoryOf(index), DirectoryPath[index]) IN
     \/ Fault /\ DirectoryError(createdAny) /\ UNCHANGED index
     \/ /\ NoFault /\ IsDirectory(found)
        /\ IF IsLast /\ ~call.existsOk THEN DirectoryError(createdAny) /\ UNCHANGED index
           ELSE Advance(createdTarget)
     \/ NoFault /\ found = "NotFound" /\ pc' = "CreateComponent" /\ UNCHANGED <<index, out>>
     \/ /\ NoFault /\ found # "NotFound" /\ ~IsDirectory(found)
        /\ DirectoryError(createdAny) /\ UNCHANGED index

CreateComponent ==
  /\ pc = "CreateComponent" /\ DirectoryStep
  /\ LET d == DirectoryOf(index)  n == DirectoryPath[index]  error == CreateError(d, n) IN
     \/ Fault /\ DirectoryError(createdAny) /\ UNCHANGED <<at, created, directoryVars>>
     \/ /\ error = "None" /\ NoFault /\ Place(Component(index), d, n)
        /\ createdAny' = TRUE /\ createdTarget' = IsLast
        /\ Advance(createdTarget')
     \/ /\ error = "None" /\ VerifiesCreated /\ Fault
        /\ Place(Component(index), d, n)
        /\ DirectoryError(createdAny) /\ UNCHANGED directoryVars
     \/ /\ error = "AlreadyExists" /\ NoFault /\ pc' = "RecheckComponent"
        /\ UNCHANGED <<at, created, out, directoryVars>>
     \/ /\ error \notin {"None", "AlreadyExists"} /\ NoFault
        /\ DirectoryError(createdAny) /\ UNCHANGED <<at, created, directoryVars>>

\* Mutant: a component someone else made is an error, directory or not.
RecheckComponentStrict ==
  /\ pc = "RecheckComponent" /\ DirectoryStep
  /\ UNCHANGED <<at, created, createdAny, createdTarget>>
  /\ NoFault /\ DirectoryError(createdAny) /\ UNCHANGED index

RecheckComponent ==
  /\ pc = "RecheckComponent" /\ DirectoryStep
  /\ UNCHANGED <<at, created, createdAny, createdTarget>>
  /\ LET raced == IsDirectory(Lookup(DirectoryOf(index), DirectoryPath[index])) IN
     \/ Fault /\ DirectoryError(createdAny) /\ UNCHANGED index
     \/ /\ NoFault
        /\ IF ~raced \/ (IsLast /\ ~call.existsOk) THEN DirectoryError(createdAny) /\ UNCHANGED index
           ELSE Advance(createdTarget)

HostDirectoryTree ==
  call.scope = "Host" /\ (InspectComponent \/ CreateComponent \/ RecheckComponent)
RootedDirectoryTree ==
  call.scope = "Rooted" /\ (InspectComponent \/ CreateComponent \/ RecheckComponent)

-----------------------------------------------------------------------------
(* rename *)

TargetPath == IF call.same THEN <<"t">> ELSE <<"p", "t">>
RenameError(state) == Returns([res |-> "Err", state |-> state])
Renamed(durable) == Returns([res |-> "Ok", durable |-> durable])

RenameStep ==
  /\ call.op = "Rename"
  /\ UNCHANGED <<call, moves, created, swept, after>> /\ UNCHANGED <<directoryVars, draws, tries, box>>
  /\ UNCHANGED <<known, recovery, then, collided>>

\* ensure_required_directory_durability.
DurabilityRefused == call.durability = "Required" /\ ~call.supported

\* The host function looks at the source before it renames it.
HostRenameCheck ==
  /\ pc = "Check" /\ call.scope = "Host" /\ RenameStep
  /\ UNCHANGED <<at, handle, child, renameVars>>
  /\ \/ DurabilityRefused /\ RenameError("Unchanged") /\ NoFault
     \/ ~DurabilityRefused /\ Fault /\ RenameError("Unchanged")
     \/ /\ ~DurabilityRefused /\ NoFault
        /\ IF Walk(<<"s">>) \in LookupErrors THEN RenameError("Unchanged")
           ELSE pc' = "Native" /\ UNCHANGED out

\* Mutant: a native error is taken to mean that nothing changed.
NativeStateHopeful(error) == IF error = "Renamed" THEN "Renamed" ELSE "Unchanged"

\* rename_failure_after_native_attempt: three errors say that nothing changed.
NativeState(error) ==
  IF error \in {"AlreadyExists", "CrossesDevices", "NotFound"} THEN "Unchanged" ELSE "Indeterminate"

\* The rooted function opens the parents, and on Windows the source itself.
RootedRenameOpen ==
  /\ pc = "Check" /\ call.scope = "Rooted" /\ RenameStep
  /\ UNCHANGED <<at, renameVars>>
  /\ LET source == Walk(<<"s">>)
         parent == Walk(SubSeq(TargetPath, 1, Len(TargetPath) - 1))
         error == IF call.os = "Windows" /\ source \in LookupErrors THEN source
                  ELSE IF parent \in LookupErrors THEN parent
                  ELSE IF ~IsDirectory(parent) THEN "NotDirectory"
                  ELSE "None" IN
     \/ DurabilityRefused /\ RenameError("Unchanged") /\ NoFault /\ UNCHANGED <<handle, child>>
     \/ ~DurabilityRefused /\ Fault /\ RenameError(NativeState("Other")) /\ UNCHANGED <<handle, child>>
     \/ /\ ~DurabilityRefused /\ NoFault /\ error # "None"
        /\ RenameError(NativeState(error)) /\ UNCHANGED <<handle, child>>
     \/ /\ ~DurabilityRefused /\ NoFault /\ error = "None"
        /\ handle' = parent /\ child' = IF call.os = "Windows" THEN source ELSE None
        /\ pc' = "Native" /\ UNCHANGED out

\* What a native call that replaces lets take the place of what.
MayReplace(o, d) ==
  \A t \in Child(d, "t") :
    /\ Kind(t) = Kind(o)
    /\ Kind(t) = "Dir" => IsEmpty(t) /\ call.os = "Unix"

\* The error of renaming object o to "t" in directory d: the calls without
\* replacement find the name taken, the others whether it can be replaced.
NoReplaceError(d) == CreateError(d, "t")
ReplaceError(o, d) ==
  IF CreateError(d, "t") # "AlreadyExists" THEN CreateError(d, "t")
  ELSE IF MayReplace(o, d) THEN "None" ELSE "Other"
RenameNativeError(o, d) ==
  IF o \in LookupErrors THEN o
  ELSE IF ~Linked(o) THEN "Other"
  ELSE IF call.overwrite THEN ReplaceError(o, d) ELSE NoReplaceError(d)

Apply(o, d) ==
  /\ at' = [x \in Objects |-> IF x = o THEN <<d, "t">>
                              ELSE IF x \in Child(d, "t") THEN Nowhere ELSE at[x]]
  /\ moved' = o /\ displaced' = Child(d, "t")

\* One native rename: the source by name or by its handle, the target below
\* the parent found by path or by its handle.  A fault may strike after the
\* file system applied the rename.
Attempt ==
  LET o == IF child # None THEN child ELSE Walk(<<"s">>)
      d == IF call.scope = "Rooted" THEN handle ELSE Walk(SubSeq(TargetPath, 1, Len(TargetPath) - 1))
      error == RenameNativeError(o, d) IN
  /\ UNCHANGED <<disk, handle, child>>
  /\ \/ Fault /\ RenameError(NativeState("Other")) /\ UNCHANGED <<at, moved, displaced>>
     \/ Fault /\ RenameError(NativeState("CrossesDevices")) /\ UNCHANGED <<at, moved, displaced>>
     \/ Fault /\ error = "None" /\ RenameError(NativeState("Other")) /\ Apply(o, d)
     \/ NoFault /\ error # "None" /\ RenameError(NativeState(error)) /\ UNCHANGED <<at, moved, displaced>>
     \/ /\ NoFault /\ error = "None" /\ Apply(o, d)
        /\ IF call.durability = "NotRequired" THEN Renamed(FALSE)
           ELSE pc' = "SyncSource" /\ UNCHANGED out

RefusesReplacement ==
  call.scope = "Rooted" /\ call.os = "Windows" /\ call.overwrite /\ call.legacy

HostRenameNative == pc = "Native" /\ call.scope = "Host" /\ RenameStep /\ Attempt
RootedRenameUnix == pc = "Native" /\ call.scope = "Rooted" /\ call.os = "Unix" /\ RenameStep /\ Attempt

\* rename_open_entry: a volume that does not know the replacing call gets the
\* older one.
RootedRenameWindows ==
  /\ pc \in {"Native", "Legacy"} /\ call.scope = "Rooted" /\ call.os = "Windows" /\ RenameStep
  /\ IF pc = "Native" /\ RefusesReplacement
     THEN pc' = "Legacy" /\ UNCHANGED <<at, handle, child, out, faults, renameVars>>
     ELSE Attempt

\* published_durability: what a failed synchronisation means.
SyncFailed == IF call.durability = "Preferred" THEN Renamed(FALSE) ELSE RenameError("Renamed")

\* One parent is opened by its path and synchronised, the source's first.
SyncParent(path) ==
  LET d == Walk(path) IN
  /\ UNCHANGED <<at, handle, child, moved, displaced>>
  /\ \/ Fault /\ SyncFailed /\ UNCHANGED disk
     \/ NoFault /\ ~IsDirectory(d) /\ SyncFailed /\ UNCHANGED disk
     \/ /\ NoFault /\ IsDirectory(d)
        /\ disk' = [disk EXCEPT ![d] = Entries(d)]
        /\ IF pc = "SyncSource" /\ ~call.same THEN pc' = "SyncTarget" /\ UNCHANGED out
           ELSE Renamed(TRUE)

\* Mutant: the parent of the target is taken for that of the source.
SyncParentsSourceOnly ==
  pc \in {"SyncSource", "SyncTarget"} /\ RenameStep /\ SyncParent(<<>>)

SyncParents ==
  /\ pc \in {"SyncSource", "SyncTarget"} /\ RenameStep
  /\ SyncParent(IF pc = "SyncTarget" THEN <<"p">> ELSE <<>>)

HostSyncRenameParents == call.scope = "Host" /\ SyncParents
RootedSyncRenameParents == call.scope = "Rooted" /\ SyncParents

\* A crash after the return: of every directory either its last synchronised
\* entries are found, or those it had.
Crash ==
  /\ call.op = "Rename" /\ pc = "Returned"
  /\ \E written \in SUBSET {"root", "D"} :
       after' = UNION {{<<d, e>> : e \in IF d \in written THEN Entries(d) ELSE disk[d]}
                         : d \in {"root", "D"}}
  /\ pc' = "Crashed"
  /\ UNCHANGED <<at, disk, call, handle, out, faults, moves, created, moved, displaced, swept>>
  /\ UNCHANGED <<tempVars, directoryVars>>

-----------------------------------------------------------------------------
(* create_temp_file and create_temp_directory: an entry of a random name in *)
(* a sandbox directory of a random name below the parent                    *)

IsTemp == call.op \in {"TempFile", "TempDirectory"}
HostDefault == call.scope = "Host" /\ ~call.private      \* works by path
MakesFile == call.op = "TempFile"

\* NativePrivateEntry: a name below a handle, the object's own handle if it
\* was opened, and whether its identity is known.
Entry(parent, name, file, identity, directory) ==
  [parent |-> parent, name |-> name, file |-> file, identity |-> identity, directory |-> directory]

TempStep ==
  /\ IsTemp
  /\ UNCHANGED <<call, disk, moves, moved, displaced, swept, after>> /\ UNCHANGED directoryVars

\* A failure: a platform-default creation cleans up what it made before it
\* returns, a private one hands it to the caller.
TempFails(entries, why) ==
  /\ recovery' = entries
  /\ IF call.private \/ entries = <<>>
     THEN Returns([res |-> "Err", why |-> why]) /\ UNCHANGED then
     ELSE pc' = "Cleanup" /\ then' = why /\ UNCHANGED out

Exhausted(attempts) == call.max # NoLimit /\ attempts >= call.max

\* create_host_temp_parent, create_dir_all.
TempParent ==
  LET found == Walk(<<"p">>) IN
  /\ pc = "Parent" /\ TempStep
  /\ UNCHANGED <<handle, draws, tries, box, child, known, collided>>
  /\ \/ ~call.createsParent /\ pc' = "Validate" /\ NoFault /\ UNCHANGED <<at, created, out, recovery, then>>
     \/ call.createsParent /\ Fault /\ TempFails(<<>>, "Failed") /\ UNCHANGED <<at, created>>
     \/ /\ call.createsParent /\ found = "NotFound" /\ NoFault
        /\ Place("P", "root", "p") /\ pc' = "Validate" /\ UNCHANGED <<out, recovery, then>>
     \/ /\ call.createsParent /\ found # "NotFound" /\ NoFault /\ UNCHANGED <<at, created>>
        /\ IF IsDirectory(found) \/ call.scope = "Host"
           THEN pc' = "Validate" /\ UNCHANGED <<out, recovery, then>>
           ELSE TempFails(<<>>, "Failed")

\* validate_host_temp_parent, validate_rooted_temp_parent, validate_max_tries.
TempValidate ==
  /\ pc = "Validate" /\ TempStep
  /\ UNCHANGED <<at, created, handle, draws, tries, box, child, known, collided>>
  /\ \/ Fault /\ TempFails(<<>>, "Failed")
     \/ /\ NoFault
        /\ IF IsDirectory(Walk(<<"p">>)) /\ call.max # 0 THEN pc' = "Open" /\ UNCHANGED <<out, recovery, then>>
           ELSE TempFails(<<>>, "Failed")

\* open_host_temp_parent_directory, open_host_directory_handle, open_probe_file.
TempOpenParent ==
  /\ pc = "Open" /\ TempStep
  /\ UNCHANGED <<at, created, draws, tries, box, child, known, collided>>
  /\ \/ Fault /\ TempFails(<<>>, "Failed") /\ UNCHANGED handle
     \/ /\ NoFault
        /\ IF IsDirectory(Walk(<<"p">>))
           THEN handle' = Walk(<<"p">>) /\ pc' = "Box" /\ UNCHANGED <<out, recovery, then>>
           ELSE TempFails(<<>>, "Failed") /\ UNCHANGED handle

\* Native calls that create a directory and open it in one step.
CreatesOpen == call.os = "Windows" /\ ~HostDefault
BoxName == BoxNames[draws]
BoxEntry == Entry(handle, BoxName, box, known, TRUE)

\* A draw of a sandbox name.  The private loops test the limit before they
\* draw, the others after a collision.
CreateBox ==
  LET k == draws + 1
      d == IF HostDefault THEN Walk(<<"p">>) ELSE handle
      error == CreateError(d, BoxNames[k]) IN
  /\ pc = "Box" /\ TempStep /\ UNCHANGED <<handle, tries, child, known>>
  /\ \/ /\ call.private /\ Exhausted(draws) /\ TempFails(<<>>, "Exhausted") /\ NoFault
        /\ UNCHANGED <<at, created, draws, box, collided>>
     \/ /\ ~(call.private /\ Exhausted(draws)) /\ draws' = k
        /\ \/ Fault /\ TempFails(<<>>, "Failed") /\ UNCHANGED <<at, created, box, collided>>
           \/ /\ NoFault /\ error = "None" /\ Place(Boxes[k], d, BoxNames[k])
              /\ box' = IF CreatesOpen THEN Boxes[k] ELSE None
              /\ pc' = IF ~CreatesOpen THEN "OpenBox" ELSE IF call.private THEN "VerifyBox" ELSE "Guard"
              /\ UNCHANGED <<out, recovery, then, collided>>
           \/ /\ NoFault /\ error = "AlreadyExists" /\ collided' = collided + 1
              /\ UNCHANGED <<at, created, box>>
              /\ IF ~call.private /\ Exhausted(k) THEN TempFails(<<>>, "Exhausted")
                 ELSE UNCHANGED <<pc, out, recovery, then>>
           \/ /\ NoFault /\ error \in LookupErrors /\ TempFails(<<>>, "Failed")
              /\ UNCHANGED <<at, created, box, collided>>

\* Opening the directory just made, by path or below the parent's handle.  A
\* failure keeps its name, without a handle.
OpenBox ==
  LET found == IF HostDefault THEN Walk(<<"p", BoxName>>) ELSE Lookup(handle, BoxName)
      opens == found \notin LookupErrors /\ (HostDefault \/ Kind(found) = "Dir") IN
  /\ pc = "OpenBox" /\ TempStep /\ UNCHANGED <<at, created, handle, draws, tries, child, known, collided>>
  /\ \/ Fault /\ TempFails(<<Entry(handle, BoxName, None, FALSE, TRUE)>>, "Failed") /\ UNCHANGED box
     \/ NoFault /\ ~opens /\ TempFails(<<Entry(handle, BoxName, None, FALSE, TRUE)>>, "Failed") /\ UNCHANGED box
     \/ /\ NoFault /\ opens /\ box' = found
        /\ pc' = IF call.private THEN "VerifyBox" ELSE "Guard"
        /\ UNCHANGED <<out, recovery, then>>

\* identity_for_name: on Unix the name of a private directory must still lead
\* to the one that was opened.
StillNamed(d, n, o) == call.os = "Unix" => Lookup(d, n) = o

\* The private backends check the opened directory again, its name and its
\* access rights.
VerifyBox ==
  /\ pc = "VerifyBox" /\ TempStep
  /\ UNCHANGED <<at, created, handle, draws, tries, box, child, known, collided>>
  /\ \/ Fault /\ TempFails(<<Entry(handle, BoxName, box, TRUE, TRUE)>>, "Failed")
     \/ /\ NoFault
        /\ IF ~StillNamed(handle, BoxName, box)
           THEN TempFails(<<Entry(handle, BoxName, box, TRUE, TRUE)>>, "Failed")
           ELSE pc' = "Guard" /\ UNCHANGED <<out, recovery, then>>

\* Handles are duplicated for a later cleanup, and the identity is read if it
\* can be.
GuardBox ==
  /\ pc = "Guard" /\ TempStep /\ UNCHANGED <<at, created, handle, draws, tries, box, child>>
  /\ collided' = IF HostDefault THEN 0 ELSE collided
  /\ \/ /\ ~HostDefault /\ Fault
        /\ TempFails(<<Entry(handle, BoxName, box, TRUE, TRUE)>>, "Failed") /\ UNCHANGED known
     \/ /\ \/ NoFault /\ known' = TRUE
           \/ Fault /\ known' = FALSE
        /\ pc' = "Child" /\ UNCHANGED <<out, recovery, then>>

-----------------------------------------------------------------------------
(* The entry inside the sandbox *)

ChildIndex == IF HostDefault THEN tries ELSE draws
ChildName == ChildNames[ChildIndex]
ChildEntry(file, identity) == Entry(box, ChildName, file, identity, ~MakesFile)

\* The host function draws more names in one sandbox; the others give the
\* sandbox up and start again.
CreateChild ==
  LET k == IF HostDefault THEN tries + 1 ELSE draws
      d == IF HostDefault THEN Walk(<<"p", BoxName>>) ELSE box
      error == CreateError(d, ChildNames[k]) IN
  /\ pc = "Child" /\ TempStep /\ UNCHANGED <<handle, draws, box, known>>
  /\ tries' = IF HostDefault THEN k ELSE tries
  /\ \/ Fault /\ TempFails(<<BoxEntry>>, "Failed") /\ UNCHANGED <<at, created, child, collided>>
     \/ /\ NoFault /\ error = "None" /\ Place(Children[k], d, ChildNames[k])
        /\ child' = IF MakesFile \/ CreatesOpen THEN Children[k] ELSE None
        /\ pc' = IF ~(MakesFile \/ CreatesOpen) THEN "OpenChild"
                 ELSE IF call.private THEN "VerifyChild" ELSE "Owner"
        /\ UNCHANGED <<out, recovery, then, collided>>
     \/ /\ NoFault /\ error = "AlreadyExists" /\ collided' = collided + 1
        /\ UNCHANGED <<at, created, child>>
        /\ IF HostDefault /\ ~Exhausted(k) THEN UNCHANGED <<pc, out, recovery, then>>
           ELSE IF HostDefault THEN TempFails(<<BoxEntry>>, "Exhausted")
           ELSE recovery' = <<BoxEntry>> /\ pc' = "Cleanup" /\ then' = "Retry" /\ UNCHANGED out
     \/ /\ NoFault /\ error \in LookupErrors /\ TempFails(<<BoxEntry>>, "Failed")
        /\ UNCHANGED <<at, created, child, collided>>

OpenChild ==
  LET found == IF HostDefault THEN Walk(<<"p", BoxName, ChildName>>) ELSE Lookup(box, ChildName)
      opens == found \notin LookupErrors /\ (HostDefault \/ Kind(found) = "Dir") IN
  /\ pc = "OpenChild" /\ TempStep
  /\ UNCHANGED <<at, created, handle, draws, tries, box, known, collided>>
  /\ \/ Fault /\ TempFails(<<ChildEntry(None, FALSE), BoxEntry>>, "Failed") /\ UNCHANGED child
     \/ NoFault /\ ~opens /\ TempFails(<<ChildEntry(None, FALSE), BoxEntry>>, "Failed") /\ UNCHANGED child
     \/ /\ NoFault /\ opens /\ child' = found
        /\ pc' = IF call.private THEN "VerifyChild" ELSE "Owner"
        /\ UNCHANGED <<out, recovery, then>>

VerifyChild ==
  /\ pc = "VerifyChild" /\ TempStep
  /\ UNCHANGED <<at, created, handle, draws, tries, box, child, known, collided>>
  /\ \/ Fault /\ TempFails(<<ChildEntry(child, TRUE), BoxEntry>>, "Failed")
     \/ /\ NoFault
        /\ IF ~MakesFile /\ ~StillNamed(box, ChildName, child)
           THEN TempFails(<<ChildEntry(child, TRUE), BoxEntry>>, "Failed")
           ELSE pc' = "Owner" /\ UNCHANGED <<out, recovery, then>>

\* The LocalTempFile or LocalTempDirectory is made: a file, and a directory of
\* a rooted platform-default call, from the handle, other directories from
\* their path.
ByPath == ~MakesFile /\ (call.scope = "Host" \/ call.private)

\* Mutant: the sandbox is left out of the recovery of a failed owner.
MakeOwnerForgetsBox ==
  LET found == IF ByPath THEN Walk(<<"p", BoxName, ChildName>>) ELSE child IN
  /\ pc = "Owner" /\ TempStep
  /\ UNCHANGED <<at, created, handle, draws, tries, box, child, known, collided>>
  /\ \/ Fault /\ TempFails(<<ChildEntry(child, TRUE)>>, "Failed")
     \/ NoFault /\ found \in LookupErrors /\ TempFails(<<ChildEntry(child, TRUE)>>, "Failed")
     \/ /\ NoFault /\ found \notin LookupErrors
        /\ Returns([res |-> "Ok", owner |-> found]) /\ UNCHANGED <<recovery, then>>

MakeOwner ==
  LET found == IF ByPath THEN Walk(<<"p", BoxName, ChildName>>) ELSE child IN
  /\ pc = "Owner" /\ TempStep
  /\ UNCHANGED <<at, created, handle, draws, tries, box, child, known, collided>>
  /\ \/ Fault /\ TempFails(<<ChildEntry(child, TRUE), BoxEntry>>, "Failed")
     \/ NoFault /\ found \in LookupErrors /\ TempFails(<<ChildEntry(child, TRUE), BoxEntry>>, "Failed")
     \/ /\ NoFault /\ found \notin LookupErrors
        /\ Returns([res |-> "Ok", owner |-> found]) /\ UNCHANGED <<recovery, then>>

-----------------------------------------------------------------------------
(* LocalTempRecovery *)

\* cleanup_native_entry: only an entry with a handle and a known identity is
\* removed; on Unix its name must still lead to it, on Windows the handle is
\* deleted.
Removable(e) ==
  /\ e.file # None /\ e.identity
  /\ (Kind(e.file) = "Dir") = e.directory
  /\ IF call.os = "Unix" THEN at[e.file] = <<e.parent, e.name>> ELSE at[e.file] # Nowhere
  /\ IsEmpty(e.file)

\* What follows a cleanup that removed everything.
Continue ==
  CASE then = "Drop" -> pc' = "Dropped" /\ UNCHANGED out
    [] then = "Retry" -> IF ~call.private /\ Exhausted(draws)
                         THEN Returns([res |-> "Err", why |-> "Exhausted"])
                         ELSE pc' = "Box" /\ UNCHANGED out
    [] OTHER -> Returns([res |-> "Err", why |-> then])

\* LocalTempRecovery::cleanup: entries in order, up to the first that fails.
CleanupEntry ==
  LET e == Head(recovery) IN
  /\ pc = "Cleanup" /\ TempStep
  /\ UNCHANGED <<created, handle, draws, tries, box, child, known, collided, then>>
  /\ \/ /\ NoFault /\ Removable(e)
        /\ at' = [at EXCEPT ![e.file] = Nowhere] /\ recovery' = Tail(recovery)
        /\ IF Len(recovery) = 1 THEN Continue ELSE UNCHANGED <<pc, out>>
     \/ /\ IF Removable(e) THEN Fault ELSE NoFault
        /\ UNCHANGED <<at, recovery>>
        /\ IF then = "Drop" THEN pc' = "Dropped" /\ UNCHANGED out
           ELSE Returns([res |-> "Err", why |-> IF then = "Retry" THEN "Failed" ELSE then])

\* The caller drops an error that carries a recovery, which cleans up again.
DropRecovery ==
  /\ pc = "Returned" /\ TempStep /\ recovery # <<>>
  /\ pc' = "Cleanup" /\ then' = "Drop"
  /\ UNCHANGED <<at, created, handle, draws, tries, box, child, known, recovery, collided, out, faults>>

-----------------------------------------------------------------------------
(* The functions that create temporary entries, as the steps they take *)

Prepare == TempParent \/ TempValidate
Call(op, scope, private) == call.op = op /\ call.scope = scope /\ call.private = private

HostTempFile ==
  /\ Call("TempFile", "Host", FALSE)
  /\ Prepare \/ TempOpenParent \/ CreateBox \/ OpenBox \/ GuardBox \/ CreateChild \/ MakeOwner \/ CleanupEntry

HostTempDirectory ==
  /\ Call("TempDirectory", "Host", FALSE)
  /\ \/ Prepare \/ TempOpenParent \/ CreateBox \/ OpenBox \/ GuardBox
     \/ CreateChild \/ OpenChild \/ MakeOwner \/ CleanupEntry

PrivateSteps ==
  \/ Prepare \/ TempOpenParent \/ CreateBox \/ OpenBox \/ VerifyBox \/ GuardBox
  \/ CreateChild \/ VerifyChild \/ MakeOwner \/ CleanupEntry

PrivateHostTempFile == Call("TempFile", "Host", TRUE) /\ PrivateSteps
PrivateHostTempDirectory ==
  Call("TempDirectory", "Host", TRUE) /\ (PrivateSteps \/ OpenChild)
PrivateRootedTempFile == Call("TempFile", "Rooted", TRUE) /\ PrivateSteps
PrivateRootedTempDirectory ==
  Call("TempDirectory", "Rooted", TRUE) /\ (PrivateSteps \/ OpenChild)

RootedSteps ==
  \/ Prepare \/ TempOpenParent \/ CreateBox \/ OpenBox \/ GuardBox
  \/ CreateChild \/ MakeOwner \/ CleanupEntry

RootedTempFile == Call("TempFile", "Rooted", FALSE) /\ RootedSteps
RootedTempDirectory ==
  Call("TempDirectory", "Rooted", FALSE) /\ (RootedSteps \/ OpenChild)

-----------------------------------------------------------------------------
(* Another process *)

\* The places it may touch: those the call names.
Watched(d, n) ==
  CASE n \in {"p", "s"} -> d = "root"
    [] n = "t" -> IF call.op = "Rename" /\ call.same THEN d = "root" ELSE at[d] = <<"root", "p">>
    [] n \in Range(BoxNames) -> at[d] = <<"root", "p">>
    [] OTHER -> at[d][2] \in Range(BoxNames)

TouchedNames ==
  CASE call.op = "CreateDirectory" -> {"p", "t"}
    [] call.op = "Rename" -> IF call.same THEN {"s", "t"} ELSE {"p", "s", "t"}
    [] OTHER -> {"p"} \cup {BoxNames[k] : k \in 1 .. draws + 1}
                      \cup {ChildNames[k] : k \in 1 .. IF tries >= draws THEN tries + 1 ELSE draws}

Running == pc \notin {"Returned", "Crashed", "Dropped"}

OthersLeave ==
  /\ moves < MaxMoves /\ moves' = moves + 1
  /\ UNCHANGED <<disk, call, pc, handle, out, faults, created, moved, displaced, after>>
  /\ UNCHANGED <<tempVars, directoryVars>>

OtherCreates ==
  /\ Running /\ OthersLeave
  /\ \E n \in TouchedNames, d \in Objects, o \in {<<"Od1", "Od2">>, <<"Of1", "Of2">>} :
       /\ Watched(d, n) /\ CreateError(d, n) = "None"
       /\ at' = [at EXCEPT ![o[moves + 1]] = <<d, n>>]
  /\ UNCHANGED swept

OtherRemoves ==
  /\ Running /\ OthersLeave
  /\ \E o \in Objects :
       /\ at[o][2] \in TouchedNames
       /\ IsEmpty(o)
       /\ at' = [at EXCEPT ![o] = Nowhere]
       /\ swept' = (swept \/ Kind(o) = "Dir")

-----------------------------------------------------------------------------
InitialPlaces(c) ==
  [o \in Objects |->
     CASE o = "D" /\ c.parent # "Missing" -> <<"root", "p">>
       [] o = "S" /\ c.op = "Rename" -> <<"root", "s">>
       [] /\ o = "T" /\ c.op \in {"CreateDirectory", "Rename"} /\ c.target # "Missing"
          /\ c.op = "Rename" \/ c.parent = "Dir" ->
            IF c.op = "Rename" /\ c.same THEN <<"root", "t">> ELSE <<"D", "t">>
       [] OTHER -> Nowhere]

Init ==
  /\ call \in DirectoryCalls \cup RenameCalls \cup TempCalls
  /\ at = InitialPlaces(call) /\ disk = [d \in Objects |-> Entries(d)]
  /\ pc = CASE call.op = "CreateDirectory" -> "Inspect" [] call.op = "Rename" -> "Check" [] OTHER -> "Parent"
  /\ handle = None /\ index = 2 /\ createdAny = FALSE /\ createdTarget = FALSE
  /\ draws = 0 /\ tries = 0 /\ box = None /\ child = None /\ known = FALSE
  /\ recovery = <<>> /\ then = None /\ out = NotRunning
  /\ faults = 0 /\ moves = 0
  /\ created = {} /\ moved = None /\ displaced = {} /\ collided = 0 /\ swept = FALSE /\ after = {}

CreateDirectory ==
  \/ OpenParentForDirectory
  \/ HostCreateDirectory \/ RootedCreateDirectory \/ CreateTarget \/ RecheckTarget
  \/ HostDirectoryTree \/ RootedDirectoryTree

Rename ==
  \/ HostRenameCheck \/ HostRenameNative \/ HostSyncRenameParents
  \/ RootedRenameOpen \/ RootedRenameUnix \/ RootedRenameWindows \/ RootedSyncRenameParents

CreateTemp ==
  \/ HostTempFile \/ HostTempDirectory \/ PrivateHostTempFile \/ PrivateHostTempDirectory
  \/ RootedTempFile \/ RootedTempDirectory \/ PrivateRootedTempFile \/ PrivateRootedTempDirectory
  \/ DropRecovery

Next == CreateDirectory \/ Rename \/ CreateTemp \/ Crash \/ OtherCreates \/ OtherRemoves

Spec == Init /\ [][Next]_vars

-----------------------------------------------------------------------------
(* Properties *)

Returned(op) == call.op = op /\ pc = "Returned"

\* create_directory tells the truth about what it changed: it reports the
\* target as created exactly when this very call created it, it says
\* PartiallyApplied only after it created something, and an error without
\* that mark leaves at most the component whose own creation failed (the
\* Windows call creates before it verifies).  And callers that race to create
\* the same directories all succeed: with exists_ok, and with every component a
\* directory that some other process only created, it returns Ok however the
\* two interleave.
CreateReportTruthful ==
  Returned("CreateDirectory") =>
    /\ IF out.res = "Ok"
       THEN /\ out.created <=> "L" \in created
            /\ moves = 0 => IsDirectory(Walk(DirectoryPath))
       ELSE IF out.effect = "PartiallyApplied" THEN created # {}
       ELSE created \subseteq {Component(index)}
    /\ /\ call.existsOk /\ faults = 0
       /\ call.recursive \/ call.parent = "Dir"
       /\ "File" \notin {call.parent, call.target}
       /\ Cardinality({o \in {"Od1", "Od2"} : at[o] # Nowhere}) = moves
       => out.res = "Ok"

\* rename's report: Unchanged means its native call moved nothing, Ok and
\* Renamed mean it moved the source; without overwrite nothing was replaced;
\* and a quiet Ok leaves the source at the target and nowhere else.
RenameReportTruthful ==
  Returned("Rename") =>
    /\ out.res = "Ok" => moved # None
    /\ out.res = "Err" => /\ out.state = "Unchanged" => moved = None
                          /\ out.state = "Renamed" => moved # None
    /\ ~call.overwrite => displaced = {}
    /\ out.res = "Ok" /\ moves = 0 => moved = "S" /\ Walk(TargetPath) = "S" /\ Child("root", "s") = {}

\* A rename reported durable survives a crash: both parents were synchronised
\* after the native call, so the target names the moved entry and the source
\* name is gone, whatever else was not written back.
DurableRenameSurvivesCrash ==
  /\ call.op = "Rename" /\ pc = "Crashed" /\ moves = 0
  /\ out.res = "Ok"
  => (out.durable => /\ <<IF call.same THEN "root" ELSE "D", <<"t", moved>>>> \in after
                     /\ <<"root", <<"s", moved>>>> \notin after)

\* The creation of a temporary entry loses track of nothing: whatever sandbox
\* or entry a failed one made and that is still in its place is named by the
\* recovery of the error, under the directory it is in; a successful one left
\* the entry and its sandbox and nothing else.  (The host's platform-default
\* functions name paths, so this holds for them when no directory on the path
\* was removed.)  And max_attempts is exact: it gives up for want of a free name
\* only after max_attempts names in a row were taken, and no loop draws more.
TempCreationTruthful ==
  LET litter == {o \in created \ {"P"} : at[o] # Nowhere} IN
  IsTemp =>
    /\ pc = "Returned" /\ ~(HostDefault /\ swept) =>
         IF out.res = "Ok" THEN litter \subseteq {Boxes[draws], Children[ChildIndex]}
         ELSE \A o \in litter : \E i \in 1 .. Len(recovery) : at[o] = <<recovery[i].parent, recovery[i].name>>
    /\ call.max # NoLimit => collided <= call.max /\ draws <= call.max /\ tries <= call.max
    /\ (pc = "Returned" /\ out.res = "Err") => (out.why = "Exhausted" => collided = call.max)
==============================================================================
