------------------------ MODULE PublishCalls_proofs ------------------------
(***************************************************************************)
(* The calls and the walks of StagePublish, for every set of paths, objects*)
(* and options: what a place of publish_new and sync_tree runs with, what  *)
(* it has changed and renamed so far, that a walk nobody disturbed sees    *)
(* the tree as it is, and the access that the objects have been given.     *)
(* StagePublish_proofs builds on these lemmas.                             *)
(***************************************************************************)
EXTENDS StagePublish, Integers, TLAPS

USE ZenonT(30)

-----------------------------------------------------------------------------
(***************************************************************************)
(* The part of the invariant that stands on its own.  Typed says what the  *)
(* variables hold and that the tree is one; CallInv which options a place  *)
(* of the code runs with and what it has changed and renamed so far;       *)
(* WalkInv that an undisturbed walk sees the tree as it is; PolicyInv      *)
(* which access the objects have by then.                                  *)
(***************************************************************************)

Modes == {"initial", "policy", "writable", "theirs"}
Parents == [{"stage", "target"} -> {Root, Alien, None}]

FsTyped ==
  /\ tree \in Entries /\ IsTree(tree)
  /\ mode \in [Ids \cup {Root} -> Modes] /\ outside \subseteq FileIds
  /\ names \in Parents /\ onDisk \in Parents
LocalsTyped ==
  /\ visited \in Entries /\ todo \subseteq Paths \X Ids
  /\ opts \in OptionSets \cup {None} /\ synced \in BOOLEAN
Typed == FsTyped /\ LocalsTyped

Syncing   == {"dirs", "dirSync", "parentSync"}
Verifying == {"verifyRoot", "verify"}
Early     == {"refuse", "observe", "access", "synced"} \cup Verifying
Pinning   == {"ownerCollect", "ownerPin"}
Owning    == {"ownerApply", "ownerRebind", "ownerRoot", "ownerRootRebind"}
Checking  == {"ownerVerify", "ownerRecheck"}
UserSteps == {"collect", "userApply", "userConfirm", "userRootConfirm"}
Renaming  == {"writable", "rename", "renameSync", "restore"}
Ending    == {"final"} \cup Renaming
Publishing == Early \cup Pinning \cup Owning \cup Checking \cup {"ownerSync"} \cup UserSteps \cup Ending
UserAccess == {"CurrentUserOnly", "ReadOnlyCurrentUser"}

\* The running call: its options, and what it has changed and renamed.
CallInv ==
  /\ pc \in Publishing \cup Syncing \cup {"files", "idle", "down"}
  /\ pc \notin {"idle", "down"} => outcome = NoOutcome
  /\ pc \in Publishing => opts \in OptionSets
  /\ pc \in Syncing => opts = None
  /\ pc \in Verifying => opts.validation # None
  /\ pc \in (Publishing \ {"refuse"}) \cup {"files"} /\ opts # None => ~OptionsRefused(opts)
  /\ pc \in {"files", "synced"} /\ opts # None => opts.access = "Preserve"
  /\ pc \in Pinning \cup Owning \cup Checking \cup {"ownerSync"} =>
       opts.owner # None /\ opts.access = "Preserve"
  /\ pc \in UserSteps => opts.access \in UserAccess
  /\ pc \in Early \cup Pinning \cup {"collect"} \/ (pc = "files" /\ opts # None) =>
       changed = {} /\ ~applied
  /\ pc \in Early \cup Pinning \cup Owning \cup Checking \cup UserSteps \/ (pc = "files" /\ opts # None) =>
       access = "Preserved"
  /\ pc \in Publishing \ {"renameSync", "restore"} \/ (pc = "files" /\ opts # None) => moved = None
  /\ pc \in {"ownerApply", "ownerRoot"} => (applied <=> changed # {})
  /\ pc \in {"userApply"} => (applied => changed # {})
  /\ pc \in {"ownerRebind", "userConfirm"} => changed # {}
  /\ pc = "ownerSync" => access = "OwnerPolicyApplied"
  /\ pc \in Ending =>
       \/ access = "Preserved" /\ changed = {} /\ opts.owner = None /\ opts.access = "Preserve"
       \/ access = "OwnerPolicyApplied" /\ opts.owner # None /\ opts.access = "Preserve"
       \/ access \in UserAccess /\ access = opts.access
  /\ pc = "writable" => NeedsWritableRoot
  /\ pc \in {"writable", "rename"} /\ "final" \in quiet => names["stage"] = Root
  /\ pc \in {"renameSync", "restore"} /\ "final" \in quiet =>
       moved = None \/ (moved = Root /\ names["target"] = Root)
  /\ pc = "renameSync" => renamed = "ok" /\ moved # None
  /\ pc = "restore" =>
       /\ renamed \in {"ok", "durable", "Renamed", "Unchanged", "Indeterminate"}
       /\ renamed \in {"ok", "durable", "Renamed"} => moved # None
       /\ renamed = "Unchanged" => moved = None
  /\ Returned =>
       /\ (outcome.publication = "NotPublished") = (outcome.keeps = "stage")
       /\ outcome.publication = "NotPublished" => moved = None
       /\ outcome.publication = "Published" => moved # None
       /\ outcome.publication = "Published" /\ "final" \in quiet => moved = Root /\ names["target"] = Root
       /\ outcome.access = "Preserved" => changed = {}
       /\ outcome.mutation = "NotStarted" => changed = {} /\ moved = None
       /\ outcome.access = "Mixed" => changed # {}

\* A walk that nobody disturbed has seen what the tree holds.
Sound == \A p \in Paths : visited[p] \in {None, tree[p]}
Vacant == \A p \in Paths : tree[p] = None
Shut == opts.owner = "ownerShut"

Working == {"files", "dirSync", "ownerPin", "ownerApply", "ownerRebind", "ownerRecheck", "ownerSync",
            "userApply", "userConfirm"}
WalkInv ==
  /\ pc \notin Working => todo = {}
  /\ pc = "files" => \A e, f \in todo : e = f
  /\ pc \in {"refuse", "observe", "verifyRoot"} => visited = NoEntries
  /\ pc = "verify" /\ "verify" \in quiet => Sound
  /\ pc \in {"files", "dirs"} /\ "call" \in quiet => Sound
  /\ pc = "dirSync" /\ "call" \in quiet => visited = tree
  /\ pc \in {"ownerCollect", "collect"} /\ "collect" \in quiet => Sound
  /\ pc \in {"userApply", "userConfirm"} /\ "collect" \in quiet => visited = tree
  /\ pc \in {"ownerPin"} \cup Owning \cup Checking \cup {"ownerSync"} /\ Shut =>
       /\ pinned = {} /\ ("collect" \in quiet => Vacant)
       /\ pc \in {"ownerPin", "ownerApply", "ownerRebind"} => todo = {}
       /\ pc = "ownerPin" => Found = {}
  /\ pc = "ownerVerify" /\ "recheck" \in quiet => Sound
  /\ pc \in {"ownerRecheck", "ownerSync"} /\ "recheck" \in quiet /\ ~Shut => visited = tree
  /\ pc \in UserSteps \cup Owning \cup Checking \cup Pinning \cup {"ownerSync"} /\ "call" \in quiet =>
       "collect" \in quiet
  /\ pc \in Checking \cup {"ownerSync"} /\ "call" \in quiet => "recheck" \in quiet

\* The objects that have the access that was asked for.
Left == {e[2] : e \in todo}
PolicyMark == IF Shut THEN "collect" ELSE "recheck"
PolicyInv ==
  /\ pc = "ownerRecheck" /\ PolicyMark \in quiet =>
       \A o \in Objects : o \in Left \/ mode[o] = "policy"
  /\ pc \in {"ownerSync"} \cup Ending /\ access = "OwnerPolicyApplied" /\ PolicyMark \in quiet =>
       \A o \in Objects \cup {Root} : mode[o] = "policy"
  /\ pc \in {"userApply", "userConfirm"} /\ "collect" \in quiet =>
       \A o \in Objects : o \in Left \/ mode[o] = "policy"
  /\ pc = "userConfirm" /\ "collect" \in quiet => \A e \in todo : First(e) => mode[e[2]] = "policy"
  /\ pc \in {"userRootConfirm"} \cup Ending /\ opts.access \in UserAccess /\ "collect" \in quiet =>
       \A o \in Objects : mode[o] = "policy"
  /\ pc \in {"userRootConfirm", "final", "writable"} /\ opts.access \in UserAccess /\ "collect" \in quiet =>
       mode[Root] = "policy"
  /\ pc \in Renaming /\ ~NeedsWritableRoot /\ opts.access \in UserAccess /\ "collect" \in quiet =>
       mode[Root] = "policy"
  /\ Returned =>
       /\ outcome.access = "OwnerPolicyApplied" /\ PolicyMark \in quiet
            => \A o \in Objects \cup {Root} : mode[o] = "policy"
       /\ outcome.access \in UserAccess /\ "collect" \in quiet => \A o \in Objects : mode[o] = "policy"
       /\ outcome.ok /\ outcome.access \in UserAccess /\ "collect" \in quiet => mode[Root] = "policy"

BaseInv == Typed /\ CallInv /\ WalkInv /\ PolicyInv

\* What the preservation lemmas use of the walks; WalkFactsHold proves it.
WalkFacts ==
  /\ Due # {} => NextEntry \in Due
  /\ Typed /\ Sound /\ Due = {} => visited = tree
  /\ \A id : Cardinality({p \in Paths : tree[p] = id}) \in Nat

-----------------------------------------------------------------------------
(* The tree and the walk over it. *)

\* The paths are sequences, and each has its place in the order.
LEMMA PathFacts ==
    /\ Len(ShallowFirst) \in Nat
    /\ \A p \in Paths : p \in Seq(STRING) /\ Len(p) \in Nat /\ Len(p) > 0
    /\ \A p \in Paths : Len(p) > 1 => ParentOf(p) \in Paths /\ Len(ParentOf(p)) = Len(p) - 1
    /\ \A p \in Paths : Rank(p) \in 1..Len(ShallowFirst) /\ ShallowFirst[Rank(p)] = p
  <1> USE ConstantsAssumption
  <1>1. Len(ShallowFirst) \in Nat
    BY SMTT(30), Z3T(30)
  <1>3. \A p \in Paths : p \in Seq(STRING) /\ Len(p) \in Nat /\ Len(p) > 0
    BY SMTT(30), Z3T(30) DEF Paths
  <1>4. \A p \in Paths : Len(p) > 1 => ParentOf(p) \in Paths /\ Len(ParentOf(p)) = Len(p) - 1
    BY <1>3, SMTT(30), Z3T(30) DEF ParentOf
  <1>5. \A p \in Paths : Rank(p) \in 1..Len(ShallowFirst) /\ ShallowFirst[Rank(p)] = p
    BY DEF Paths, Rank
  <1> QED
    BY <1>1, <1>3, <1>4, <1>5

\* The identities are told apart, and every option set has its fields.
LEMMA IdFacts ==
    /\ Root \notin Ids /\ None \notin Ids /\ Root # None /\ Alien # Root /\ None \notin OptionSets
    /\ FileIds \subseteq Ids /\ DirIds \subseteq Ids /\ LinkIds \subseteq Ids
    /\ FileIds \cap DirIds = {} /\ LinkIds \cap FileIds = {} /\ LinkIds \cap DirIds = {}
  BY ConstantsAssumption DEF Ids
LEMMA OptionFacts ==
    ASSUME NEW o \in OptionSets
    PROVE  /\ o.access \in FinalAccess /\ o.owner \in OwnerPolicies \cup {None}
           /\ o.sync \in Requirement /\ o.durability \in Requirement /\ Validation(o.validation)
  BY ConstantsAssumption DEF Options

\* The walk returns an entry of the tree that it has not returned before, an
\* undisturbed walk with nothing left to return has returned the tree, and an
\* object has a count of entries (WalkFactsHold).
LEMMA NextIsDue ==
    ASSUME WalkFacts, Due # {}
    PROVE  NextEntry \in Due /\ NextEntry \in Paths /\ tree[NextEntry] # None
  BY DEF WalkFacts, Due
LEMMA WalkComplete ==
    ASSUME WalkFacts, Typed, Sound, Due = {}
    PROVE  visited = tree
  BY DEF WalkFacts

\* Returning an entry keeps the walk sound.
LEMMA ObserveKeepsSound ==
    ASSUME WalkFacts, Typed, Sound, Due # {}, Observe(NextEntry), UNCHANGED tree
    PROVE  Sound'
  BY NextIsDue DEF Typed, LocalsTyped, Entries, Observe, Sound

\* A walk that begins is sound.
LEMMA RestartIsSound ==
    ASSUME Restart
    PROVE  Sound'
  BY DEF Restart, NoEntries, Sound

\* What a walk returned are entries; a complete one has found every object.
LEMMA FoundFacts ==
    ASSUME Typed
    PROVE  /\ Found \subseteq Paths \X Ids
           /\ visited = tree => \A p \in Paths : tree[p] # None => <<p, tree[p]>> \in Found
           /\ visited = tree => \A o \in Objects : o \in {e[2] : e \in Found}
  <1>1. visited \in Entries /\ tree \in Entries
    BY DEF Typed, FsTyped, LocalsTyped
  <1>2. Found \subseteq Paths \X Ids
    BY <1>1, SMTT(30), Z3T(30) DEF Found, Collected, Entries
  <1>3. ASSUME visited = tree, NEW p \in Paths, tree[p] # None
        PROVE  <<p, tree[p]>> \in Found
    BY <1>3 DEF Found, Collected
  <1>4. ASSUME visited = tree, NEW o \in Objects
        PROVE  o \in {e[2] : e \in Found}
    <2>1. PICK p \in Paths : tree[p] = o
      BY DEF Objects
    <2>2. o # None
      BY ConstantsAssumption DEF Objects, Ids
    <2>3. <<p, o>> \in Found
      BY <1>3, <1>4, <2>1, <2>2
    <2> QED
      BY <2>3, SMTT(30), Z3T(30)
  <1> QED
    BY <1>2, <1>3, <1>4

\* The sort has one first entry.
LEMMA FirstIsUnique ==
    ASSUME Typed, NEW e \in todo, NEW f \in todo, First(e), First(f)
    PROVE  e = f
  <1> SUFFICES ASSUME e # f PROVE FALSE
    OBVIOUS
  <1>1. Before(e, f) /\ Before(f, e)
    BY DEF First
  <1>2. Rank(e[1]) \in 1..Len(ShallowFirst) /\ Rank(f[1]) \in 1..Len(ShallowFirst)
    BY PathFacts DEF Typed, LocalsTyped
  <1>3. Rank(e[1]) \in Int /\ Rank(f[1]) \in Int
    BY <1>2, PathFacts, SMTT(30), Z3T(30)
  <1> QED
    BY <1>1, <1>3, SMTT(30), Z3T(30) DEF Before

\* The tree stays one when another process changes an entry: what was below a
\* removed entry goes with it.
LEMMA ChangeKeepsTree ==
    ASSUME FsTyped, NEW p \in Paths, NEW x \in Ids \cup {None}, OthersChangeEntry(p, x)
    PROVE  tree' \in Entries /\ IsTree(tree')
  <1>1. tree' \in Entries
    BY DEF FsTyped, OthersChangeEntry, Entries
  <1>2. ASSUME NEW q \in Paths, tree'[q] # None, Len(q) > 1
        PROVE  tree'[ParentOf(q)] \in DirIds
    <2>1. /\ ParentOf(q) \in Paths /\ q \in Seq(STRING) /\ p \in Seq(STRING) /\ Len(p) > 0
          /\ Len(ParentOf(q)) = Len(q) - 1
      BY <1>2, PathFacts
    <2>2. CASE q = p
      <3>1. tree[ParentOf(p)] \in Ids \cup {None} /\ Root \notin Ids \cup {None}
        BY <2>1, <2>2, ConstantsAssumption DEF FsTyped, Entries
      <3>2. tree[ParentOf(p)] \in DirIds
        <4>1. Len(p) # 1
          BY <1>2, <2>1, <2>2, SMTT(30), Z3T(30)
        <4> QED
          BY <3>1, <4>1 DEF OthersChangeEntry, Holder
      <3>3. ParentOf(p) # p /\ ~Below(p, ParentOf(p))
        BY <2>1, <2>2, SMTT(30), Z3T(30) DEF Below
      <3> QED
        BY <2>1, <2>2, <3>2, <3>3 DEF OthersChangeEntry
    <2>3. CASE q # p
      <3>1. ~Below(p, q) /\ tree[q] # None
        BY <1>2, <2>3 DEF OthersChangeEntry
      <3>2. tree[ParentOf(q)] \in DirIds
        BY <1>2, <3>1 DEF FsTyped, IsTree
      <3>3. ParentOf(q) # p
        BY <1>2, <2>1, <3>1, SMTT(30), Z3T(30) DEF Below, ParentOf
      <3>4. ~Below(p, ParentOf(q))
        <4> SUFFICES ASSUME Below(p, ParentOf(q)) PROVE FALSE
          OBVIOUS
        <4>1. SubSeq(ParentOf(q), 1, Len(p)) = SubSeq(q, 1, Len(p))
          BY <1>2, <2>1, SMTT(30), Z3T(30) DEF Below, ParentOf
        <4> QED
          BY <1>2, <2>1, <3>1, <4>1, SMTT(30), Z3T(30) DEF Below
      <3> QED
        BY <2>1, <3>2, <3>3, <3>4 DEF OthersChangeEntry
    <2> QED
      BY <2>2, <2>3
  <1> QED
    BY <1>1, <1>2 DEF IsTree

\* Every step keeps the types of the file system, and the tree a tree.
LEMMA FsTypedPreserved ==
    ASSUME BaseInv, Next
    PROVE  FsTyped'
  <1>0. Typed /\ FsTyped /\ LocalsTyped /\ CallInv
    BY DEF BaseInv, Typed
  <1>m. \A o \in Ids \cup {Root}, v \in Modes : [mode EXCEPT ![o] = v] \in [Ids \cup {Root} -> Modes]
    BY <1>0 DEF FsTyped
  <1>p. {"policy", "writable", "theirs"} \subseteq Modes
    BY DEF Modes
  <1>t. \A e \in todo : e[2] \in Ids
    BY <1>0 DEF LocalsTyped
  <1>1. CASE Beginning
    <2>1. CASE CallPublish \/ RefuseOptions \/ ObserveStage \/ VerifyRoot
      BY <1>0, <2>1 DEF CallPublish, RefuseOptions, ObserveStage, VerifyRoot, Same, FsTyped,
         fsVars
    <2>2. CASE VerifyEntry \/ VerifyEnd \/ StartAccess \/ FilesObserve
      BY <1>0, <2>2 DEF VerifyEntry, VerifyEnd, StartAccess, FilesObserve, Same, FsTyped, fsVars
    <2>3. CASE FileSync \/ FilesEnd \/ SkipFiles
      BY <1>0, <2>3 DEF FileSync, FilesEnd, SkipFiles, FsTyped, Same, fsVars
    <2> QED
      BY <1>1, <2>1, <2>2, <2>3 DEF Beginning
  <1>2. CASE TreeSync
    <2>1. CASE CallSyncTree \/ CollectDirectories \/ DirectorySync \/ RootSync
      BY <1>0, <2>1 DEF CallSyncTree, CollectDirectories, DirectorySync, RootSync, Same, FsTyped,
         fsVars
    <2>2. CASE ParentSync
      BY <1>0, <2>2 DEF ParentSync, FsTyped
    <2> QED
      BY <1>2, <2>1, <2>2 DEF TreeSync
  <1>3. CASE OwnerAccess
    <2>1. CASE OwnerCollect \/ OwnerCollected \/ OwnerPin \/ OwnerPinned
      BY <1>0, <2>1 DEF OwnerCollect, OwnerCollected, OwnerPin, OwnerPinned, Same, FsTyped, fsVars
    <2>2. CASE OwnerApply
      BY <1>0, <1>m, <1>p, <1>t, <2>2, SMTT(30), Z3T(30) DEF OwnerApply, SetMode, MaybeSetMode,
         FsTyped
    <2>3. CASE OwnerRebind \/ OwnerRootCheck \/ OwnerRootRebind \/ OwnerVerify
      BY <1>0, <2>3 DEF OwnerRebind, OwnerRootCheck, OwnerRootRebind, OwnerVerify, Same, FsTyped,
         fsVars
    <2>4. CASE OwnerRootApply
      BY <1>0, <1>m, <1>p, <2>4, SMTT(30), Z3T(30) DEF OwnerRootApply, SetMode, MaybeSetMode,
         FsTyped
    <2>5. CASE OwnerVerified \/ OwnerRecheck \/ OwnerRootRecheck \/ OwnerSync
      BY <1>0, <2>5 DEF OwnerVerified, OwnerRecheck, OwnerRootRecheck, OwnerSync, Same, FsTyped,
         fsVars
    <2>6. CASE OwnerDone
      BY <1>0, <2>6 DEF OwnerDone, Same, FsTyped, fsVars
    <2> QED
      BY <1>3, <2>1, <2>2, <2>3, <2>4, <2>5, <2>6 DEF OwnerAccess
  <1>4. CASE CurrentUserAccess
    <2>1. CASE UserCollect \/ UserConfirm \/ UserRootConfirm
      BY <1>0, <2>1 DEF UserCollect, UserConfirm, UserRootConfirm, Same, FsTyped, fsVars
    <2>2. CASE UserApply
      BY <1>0, <1>m, <1>p, <1>t, <2>2, SMTT(30), Z3T(30) DEF UserApply, SetMode, MaybeSetMode,
         FsTyped
    <2>3. CASE UserRoot
      BY <1>0, <1>m, <1>p, <2>3, SMTT(30), Z3T(30) DEF UserRoot, SetMode, MaybeSetMode, FsTyped
    <2> QED
      BY <1>4, <2>1, <2>2, <2>3 DEF CurrentUserAccess
  <1>5. CASE RenameToTarget
    <2>1. CASE FinalCheck \/ RenameSync
      BY <1>0, <2>1 DEF FinalCheck, RenameSync, Same, FsTyped, fsVars
    <2>2. CASE MakeRootWritable
      BY <1>0, <1>m, <1>p, <2>2, SMTT(30), Z3T(30) DEF MakeRootWritable, SetMode, MaybeSetMode,
         FsTyped
    <2>3. CASE Rename
      <3>1. names["stage"] \in {Root, Alien, None}
        BY <1>0 DEF FsTyped, Parents
      <3> QED
        BY <1>0, <2>3, <3>1 DEF Rename, MoveName, FsTyped, Parents
    <2>4. CASE RestoreAndReturn
      <3>1. mode' = mode \/ mode' = [mode EXCEPT ![Root] = "policy"]
        BY <2>4 DEF RestoreAndReturn, SetMode, MaybeSetMode
      <3>2. mode' \in [Ids \cup {Root} -> Modes]
        BY <1>0, <1>m, <1>p, <3>1 DEF FsTyped
      <3> QED
        BY <1>0, <2>4, <3>2 DEF RestoreAndReturn, FsTyped
    <2> QED
      BY <1>5, <2>1, <2>2, <2>3, <2>4 DEF RenameToTarget
  <1>6. CASE \E p \in Paths, x \in Ids \cup {None} : OthersChangeEntry(p, x)
    <2>1. PICK p \in Paths, x \in Ids \cup {None} : OthersChangeEntry(p, x)
      BY <1>6
    <2>2. tree' \in Entries /\ IsTree(tree')
      BY <1>0, <2>1, ChangeKeepsTree
    <2> QED
      BY <1>0, <2>1, <2>2 DEF OthersChangeEntry, FsTyped
  <1>7. CASE \E n \in {"stage", "target"}, x \in {Root, Alien, None} : OthersChangeName(n, x)
    BY <1>0, <1>7 DEF OthersChangeName, FsTyped, Parents
  <1>8. CASE \E o \in Ids \cup {Root} : OthersChangeMode(o)
    BY <1>0, <1>m, <1>p, <1>8 DEF OthersChangeMode, FsTyped
  <1>9. CASE \E o \in FileIds : OthersLink(o)
    BY <1>0, <1>9 DEF OthersLink, FsTyped
  <1>10. CASE Crash
    BY <1>0, <1>10 DEF Crash, FsTyped, fsVars
  <1> QED
    BY <1>1, <1>2, <1>3, <1>4, <1>5, <1>6, <1>7, <1>8, <1>9, <1>10 DEF Next, Owner, Others

\* Every step keeps the types of the locals of a call.
LEMMA LocalsTypedPreserved ==
    ASSUME WalkFacts, BaseInv, Next
    PROVE  LocalsTyped'
  <1>0. Typed /\ FsTyped /\ LocalsTyped /\ CallInv
    BY DEF BaseInv, Typed
  <1>n. NoEntries \in Entries
    BY DEF NoEntries, Entries
  <1>d. Due # {} => NextEntry \in Paths
    BY NextIsDue
  <1>t. \A p \in Paths : tree[p] # None => tree[p] \in Ids
    BY <1>0 DEF FsTyped, Entries
  <1>v. \A p : p \in Paths => [visited EXCEPT ![p] = tree[p]] \in Entries
    BY <1>0 DEF FsTyped, LocalsTyped, Entries
  <1>f. Found \subseteq Paths \X Ids /\ DirectoriesFound \subseteq Paths \X Ids
    BY <1>0, FoundFacts DEF DirectoriesFound
  <1>1. CASE Beginning
    <2>1. CASE CallPublish \/ RefuseOptions \/ ObserveStage \/ VerifyRoot
      BY <1>0, <1>n, <1>d, <1>v, <1>f, <2>1 DEF CallPublish, RefuseOptions, ObserveStage,
         VerifyRoot, Restart, Same, LocalsTyped, PublishFails, Finish, Step
    <2>2. CASE VerifyEntry \/ VerifyEnd \/ StartAccess \/ FileSync
      BY <1>0, <1>n, <1>d, <1>v, <1>f, <2>2 DEF VerifyEntry, VerifyEnd, StartAccess, FileSync,
         Observe, Step, PublishFails, Same, Finish, LocalsTyped, Restart, FilesFail
    <2>3. CASE FilesObserve
      <3>1. NextEntry \in Paths /\ tree[NextEntry] \in Ids
        BY <1>t, <2>3, NextIsDue DEF FilesObserve
      <3>2. visited' \in Entries
        BY <1>0, <1>v, <2>3, <3>1 DEF FilesObserve, LocalsTyped, Observe, FilesFail,
           PublishFails, Finish
      <3>3. todo' \in {{}, {<<NextEntry, tree[NextEntry]>>}}
        BY <2>3 DEF FilesObserve, FilesFail, PublishFails, Finish
      <3>4. UNCHANGED <<opts, synced>>
        BY <2>3 DEF FilesObserve, Step, FilesFail, PublishFails, Finish
      <3> QED
        BY <1>0, <3>1, <3>2, <3>3, <3>4, SMTT(30), Z3T(30) DEF LocalsTyped
    <2>4. CASE FilesEnd \/ SkipFiles
      BY <1>0, <1>n, <1>d, <1>v, <1>f, <2>4 DEF FilesEnd, SkipFiles, Restart, Step, Same,
         LocalsTyped
    <2> QED
      BY <1>1, <2>1, <2>2, <2>3, <2>4 DEF Beginning
  <1>2. CASE TreeSync
    <2>1. CASE CallSyncTree \/ CollectDirectories \/ DirectorySync \/ RootSync
      BY <1>0, <1>n, <1>d, <1>v, <1>f, <2>1 DEF CallSyncTree, CollectDirectories, DirectorySync,
         RootSync, Restart, Same, LocalsTyped, Observe, Step, Finish
    <2>2. CASE ParentSync
      BY <1>0, <1>n, <1>d, <1>v, <1>f, <2>2 DEF ParentSync, Finish, LocalsTyped
    <2> QED
      BY <1>2, <2>1, <2>2 DEF TreeSync
  <1>3. CASE OwnerAccess
    <2>1. CASE OwnerCollect \/ OwnerCollected \/ OwnerPin \/ OwnerPinned
      BY <1>0, <1>n, <1>d, <1>v, <1>f, <2>1 DEF OwnerCollect, OwnerCollected, OwnerPin,
         OwnerPinned, Observe, Step, AccessFails, Same, PublishFails, Finish, LocalsTyped
    <2>2. CASE OwnerApply \/ OwnerRebind \/ OwnerRootCheck \/ OwnerRootApply
      BY <1>0, <1>n, <1>d, <1>v, <1>f, <2>2 DEF OwnerApply, OwnerRebind, OwnerRootCheck,
         OwnerRootApply, SetMode, Step, AccessFails, MaybeSetMode, PublishFails, Finish,
         LocalsTyped, Same
    <2>3. CASE OwnerRootRebind \/ OwnerVerify \/ OwnerVerified \/ OwnerRecheck
      BY <1>0, <1>n, <1>d, <1>v, <1>f, <2>3 DEF OwnerRootRebind, OwnerVerify, OwnerVerified,
         OwnerRecheck, Step, Restart, AccessFails, Same, PublishFails, Finish, LocalsTyped,
         Observe
    <2>4. CASE OwnerRootRecheck \/ OwnerSync \/ OwnerDone
      BY <1>0, <1>n, <1>d, <1>v, <1>f, <2>4 DEF OwnerRootRecheck, OwnerSync, OwnerDone, Step,
         AccessFails, Same, PublishFails, Finish, LocalsTyped
    <2> QED
      BY <1>3, <2>1, <2>2, <2>3, <2>4 DEF OwnerAccess
  <1>4. CASE CurrentUserAccess
    <2>1. CASE UserCollect \/ UserApply \/ UserConfirm \/ UserRoot
      BY <1>0, <1>n, <1>d, <1>v, <1>f, <2>1 DEF UserCollect, UserApply, UserConfirm, UserRoot,
         Observe, Step, AccessFails, Same, PublishFails, Finish, LocalsTyped, SetMode,
         MaybeSetMode
    <2>2. CASE UserRootConfirm
      BY <1>0, <1>n, <1>d, <1>v, <1>f, <2>2 DEF UserRootConfirm, Step, AccessFails, Same,
         PublishFails, Finish, LocalsTyped
    <2> QED
      BY <1>4, <2>1, <2>2 DEF CurrentUserAccess
  <1>5. CASE RenameToTarget
    <2>1. CASE FinalCheck \/ MakeRootWritable \/ Rename \/ RenameSync
      BY <1>0, <1>n, <1>d, <1>v, <1>f, <2>1 DEF FinalCheck, MakeRootWritable, Rename, RenameSync,
         Step, PublishFails, Same, Finish, LocalsTyped, SetMode, MaybeSetMode, MoveName,
         RenameReturns
    <2>2. CASE RestoreAndReturn
      BY <1>0, <1>n, <1>d, <1>v, <1>f, <2>2 DEF RestoreAndReturn, Finish, SetMode, MaybeSetMode,
         LocalsTyped
    <2> QED
      BY <1>5, <2>1, <2>2 DEF RenameToTarget
  <1>6. CASE \E p \in Paths, x \in Ids \cup {None} : OthersChangeEntry(p, x)
    BY <1>0, <1>n, <1>d, <1>v, <1>f, <1>6 DEF OthersChangeEntry, Disturb, LocalsTyped, callVars
  <1>7. CASE \E n \in {"stage", "target"}, x \in {Root, Alien, None} : OthersChangeName(n, x)
    BY <1>0, <1>n, <1>d, <1>v, <1>f, <1>7 DEF OthersChangeName, Disturb, LocalsTyped, callVars
  <1>8. CASE \E o \in Ids \cup {Root} : OthersChangeMode(o)
    BY <1>0, <1>n, <1>d, <1>v, <1>f, <1>8 DEF OthersChangeMode, Disturb, LocalsTyped, callVars
  <1>9. CASE \E o \in FileIds : OthersLink(o)
    BY <1>0, <1>n, <1>d, <1>v, <1>f, <1>9 DEF OthersLink, Disturb, LocalsTyped, callVars
  <1>10. CASE Crash
    BY <1>0, <1>n, <1>d, <1>v, <1>f, <1>10 DEF Crash, LocalsTyped
  <1> QED
    BY <1>1, <1>2, <1>3, <1>4, <1>5, <1>6, <1>7, <1>8, <1>9, <1>10 DEF Next, Owner, Others

\* A publication that fails while the caller keeps the stage.
LEMMA FailureReport ==
    ASSUME NEW mut, NEW acc, PublishFails(mut, acc), moved' = None,
           acc = "Preserved" => changed' = {}, mut = "NotStarted" => changed' = {},
           acc = "Mixed" => changed' # {}
    PROVE  CallInv'
  <1>1. /\ pc' = "idle" /\ outcome'.op = "publish" /\ outcome'.publication = "NotPublished"
        /\ outcome'.keeps = "stage" /\ outcome'.access = acc /\ outcome'.mutation = mut
    BY DEF PublishFails, Finish, PublishError
  <1> QED
    BY <1>1 DEF CallInv, Returned, Publishing, Early, Verifying, Pinning, Owning, Checking,
       UserSteps, Ending, Renaming, Syncing

\* The options, the changes and the renames of the running call.
LEMMA CallPreserved ==
    ASSUME BaseInv, Next
    PROVE  CallInv'
  <1>0. Typed /\ FsTyped /\ LocalsTyped /\ CallInv
    BY DEF BaseInv, Typed
  <1>1. CASE Beginning
    <2>1. CASE CallPublish
      BY <1>0, <2>1 DEF CallPublish, NoOutcome, Same, CallInv, Publishing, Syncing, Verifying,
         Pinning, Owning, Checking, UserSteps, UserAccess, Early, Ending, NeedsWritableRoot,
         Returned, Renaming, fsVars
    <2>2. CASE RefuseOptions
      BY <1>0, <2>2 DEF RefuseOptions, PublishFails, Same, Finish, PublishError, CallInv,
         Publishing, Syncing, NoOutcome, Verifying, Pinning, Owning, Checking, UserSteps,
         UserAccess, Early, Ending, NeedsWritableRoot, Returned, Renaming, histVars, fsVars
    <2>3. CASE ObserveStage
      BY <1>0, <2>3, SMTT(30), Z3T(30) DEF ObserveStage, Step, Mark, PublishFails, Unmarked,
         Same, Finish, PublishError, CallInv, Publishing, Syncing, NoOutcome, Verifying, Pinning,
         Owning, Checking, UserSteps, UserAccess, Early, Ending, NeedsWritableRoot, Returned,
         Renaming, fsVars
    <2>4. CASE VerifyRoot
      BY <1>0, <2>4, SMTT(30), Z3T(30) DEF VerifyRoot, Step, PublishFails, Same, Finish,
         PublishError, CallInv, Publishing, Syncing, NoOutcome, Verifying, Pinning, Owning,
         Checking, UserSteps, UserAccess, Early, Ending, NeedsWritableRoot, Returned, Renaming,
         histVars, fsVars
    <2>5. CASE VerifyEntry
      BY <1>0, <2>5, SMTT(30), Z3T(30) DEF VerifyEntry, Step, PublishFails, Same, Finish,
         PublishError, CallInv, Publishing, Syncing, NoOutcome, Verifying, Pinning, Owning,
         Checking, UserSteps, UserAccess, Early, Ending, NeedsWritableRoot, Returned, Renaming,
         histVars, fsVars
    <2>6. CASE VerifyEnd
      BY <1>0, <2>6, SMTT(30), Z3T(30) DEF VerifyEnd, PublishFails, Step, Same, Finish,
         PublishError, CallInv, Publishing, Syncing, NoOutcome, Verifying, Pinning, Owning,
         Checking, UserSteps, UserAccess, Early, Ending, NeedsWritableRoot, Returned, Renaming,
         histVars, fsVars
    <2>7. CASE StartAccess
      <3>1. /\ pc = "access" /\ UNCHANGED <<opts, outcome, changed, applied, access, moved>>
            /\ \/ pc' = "collect" /\ opts.access # "Preserve"
               \/ pc' \in {"synced", "files"} /\ opts.access = "Preserve"
        BY <2>7 DEF StartAccess, Step
      <3>2. opts \in OptionSets /\ opts.access \in FinalAccess
        BY <1>0, <3>1, OptionFacts DEF CallInv, Publishing, Early, Verifying, Pinning, Owning,
           Checking, UserSteps, Ending, Renaming, Syncing
      <3>3. CASE pc' = "collect"
        BY <1>0, <3>1, <3>2, <3>3 DEF CallInv, Returned, FinalAccess, UserAccess, Publishing,
           Early, Verifying, Pinning, Owning, Checking, UserSteps, Ending, Renaming, Syncing
      <3>4. CASE pc' \in {"synced", "files"}
        BY <1>0, <3>1, <3>2, <3>4 DEF CallInv, Returned, Publishing, Early, Verifying, Pinning,
           Owning, Checking, UserSteps, Ending, Renaming, Syncing
      <3> QED
        BY <3>1, <3>3, <3>4
    <2>8. CASE FilesObserve
      BY <1>0, <2>8, SMTT(30), Z3T(30) DEF FilesObserve, Step, FilesFail, Same, Finish,
         SyncOutcome, PublishFails, PublishError, CallInv, Publishing, Syncing, NoOutcome,
         Verifying, Pinning, Owning, Checking, UserSteps, UserAccess, Early, Ending,
         NeedsWritableRoot, Returned, Renaming, histVars, fsVars
    <2>9. CASE FileSync
      BY <1>0, <2>9, SMTT(30), Z3T(30) DEF FileSync, Step, FilesFail, Finish, SyncOutcome,
         PublishFails, PublishError, CallInv, Publishing, Syncing, NoOutcome, Verifying, Pinning,
         Owning, Checking, UserSteps, UserAccess, Early, Ending, NeedsWritableRoot, Returned,
         Renaming, histVars
    <2>10. CASE FilesEnd
      <3>1. /\ pc = "files" /\ UNCHANGED <<opts, outcome, changed, applied, access, moved>>
            /\ \/ pc' = "dirs" /\ opts = None
               \/ pc' = "ownerCollect" /\ opts # None /\ opts.owner # None
               \/ pc' = "final" /\ opts # None /\ opts.owner = None
        BY <2>10 DEF FilesEnd, Step
      <3>0. pc = "files"
        BY <3>1
      <3>2. /\ outcome = NoOutcome
            /\ opts # None => /\ opts \in OptionSets /\ ~OptionsRefused(opts) /\ opts.access = "Preserve"
                             /\ changed = {} /\ ~applied /\ access = "Preserved" /\ moved = None
        BY <1>0, <3>0 DEF LocalsTyped, CallInv, Publishing, Early, Verifying, Pinning, Owning,
           Checking, UserSteps, Ending, Renaming, Syncing
      <3>3. CASE pc' = "ownerCollect"
        BY <3>1, <3>2, <3>3 DEF CallInv, Returned, Publishing, Early, Verifying, Pinning, Owning,
           Checking, UserSteps, Ending, Renaming, Syncing
      <3>4. CASE pc' = "final"
        BY <3>1, <3>2, <3>4 DEF CallInv, Returned, Publishing, Early, Verifying, Pinning, Owning,
           Checking, UserSteps, Ending, Renaming, Syncing
      <3>5. CASE pc' = "dirs"
        BY <3>1, <3>2, <3>5 DEF CallInv, Returned, Publishing, Early, Verifying, Pinning, Owning,
           Checking, UserSteps, Ending, Renaming, Syncing
      <3> QED
        BY <3>1, <3>3, <3>4, <3>5
    <2>11. CASE SkipFiles
      <3>1. /\ pc = "synced" /\ UNCHANGED <<opts, outcome, changed, applied, access, moved>>
            /\ \/ pc' = "ownerCollect" /\ opts.owner # None
               \/ pc' = "final" /\ opts.owner = None
        BY <2>11 DEF SkipFiles, Step
      <3>0. pc = "synced"
        BY <3>1
      <3>2. /\ outcome = NoOutcome
            /\ opts # None /\ opts \in OptionSets /\ ~OptionsRefused(opts)
            /\ opts.access = "Preserve"
            /\ changed = {} /\ ~applied /\ access = "Preserved" /\ moved = None
        BY <1>0, <3>0, IdFacts DEF LocalsTyped, CallInv, Publishing, Early, Verifying, Pinning,
           Owning, Checking, UserSteps, Ending, Renaming, Syncing
      <3>3. CASE pc' = "ownerCollect"
        BY <3>1, <3>2, <3>3 DEF CallInv, Returned, Publishing, Early, Verifying, Pinning, Owning,
           Checking, UserSteps, Ending, Renaming, Syncing
      <3>4. CASE pc' = "final"
        BY <3>1, <3>2, <3>4 DEF CallInv, Returned, Publishing, Early, Verifying, Pinning, Owning,
           Checking, UserSteps, Ending, Renaming, Syncing
      <3> QED
        BY <3>1, <3>3, <3>4
    <2> QED
      BY <1>1, <2>1, <2>2, <2>3, <2>4, <2>5, <2>6, <2>7, <2>8, <2>9, <2>10, <2>11 DEF Beginning
  <1>2. CASE TreeSync
    <2>1. CASE CallSyncTree
      BY <1>0, <2>1, SMTT(30), Z3T(30) DEF CallSyncTree, NoOutcome, SyncOutcome, Same, CallInv,
         Publishing, Syncing, Verifying, Pinning, Owning, Checking, UserSteps, UserAccess, Early,
         Ending, NeedsWritableRoot, Returned, Renaming, fsVars
    <2>2. CASE CollectDirectories
      BY <1>0, <2>2, SMTT(30), Z3T(30) DEF CollectDirectories, Step, SyncOutcome, Same, CallInv,
         Publishing, Syncing, NoOutcome, Verifying, Pinning, Owning, Checking, UserSteps,
         UserAccess, Early, Ending, NeedsWritableRoot, Returned, Renaming, histVars, fsVars
    <2>3. CASE DirectorySync
      BY <1>0, <2>3, SMTT(30), Z3T(30) DEF DirectorySync, Step, Finish, SyncOutcome, CallInv,
         Publishing, Syncing, NoOutcome, Verifying, Pinning, Owning, Checking, UserSteps,
         UserAccess, Early, Ending, NeedsWritableRoot, Returned, Renaming, histVars
    <2>4. CASE RootSync
      BY <1>0, <2>4, SMTT(30), Z3T(30) DEF RootSync, Step, Finish, SyncOutcome, CallInv,
         Publishing, Syncing, NoOutcome, Verifying, Pinning, Owning, Checking, UserSteps,
         UserAccess, Early, Ending, NeedsWritableRoot, Returned, Renaming, histVars
    <2>5. CASE ParentSync
      BY <1>0, <2>5, SMTT(30), Z3T(30) DEF ParentSync, Finish, SyncOutcome, Unmarked, CallInv,
         Publishing, Syncing, NoOutcome, Verifying, Pinning, Owning, Checking, UserSteps,
         UserAccess, Early, Ending, NeedsWritableRoot, Returned, Renaming
    <2> QED
      BY <1>2, <2>1, <2>2, <2>3, <2>4, <2>5 DEF TreeSync
  <1>3. CASE OwnerAccess
    <2>1. CASE OwnerCollect
      BY <1>0, <2>1, SMTT(30), Z3T(30) DEF OwnerCollect, Step, AccessFails, Same, PublishFails,
         MutationOf, Finish, PublishError, CallInv, Publishing, Syncing, NoOutcome, Verifying,
         Pinning, Owning, Checking, UserSteps, UserAccess, Early, Ending, NeedsWritableRoot,
         Returned, Renaming, histVars, fsVars
    <2>2. CASE OwnerCollected
      BY <1>0, <2>2, SMTT(30), Z3T(30) DEF OwnerCollected, AccessFails, Step, Same, PublishFails,
         MutationOf, Finish, PublishError, CallInv, Publishing, Syncing, NoOutcome, Verifying,
         Pinning, Owning, Checking, UserSteps, UserAccess, Early, Ending, NeedsWritableRoot,
         Returned, Renaming, histVars, fsVars
    <2>3. CASE OwnerPin
      BY <1>0, <2>3, SMTT(30), Z3T(30) DEF OwnerPin, Step, AccessFails, Same, PublishFails,
         MutationOf, Finish, PublishError, CallInv, Publishing, Syncing, NoOutcome, Verifying,
         Pinning, Owning, Checking, UserSteps, UserAccess, Early, Ending, NeedsWritableRoot,
         Returned, Renaming, histVars, fsVars
    <2>4. CASE OwnerPinned
      BY <1>0, <2>4, SMTT(30), Z3T(30) DEF OwnerPinned, Step, AccessFails, Same, PublishFails,
         MutationOf, Finish, PublishError, CallInv, Publishing, Syncing, NoOutcome, Verifying,
         Pinning, Owning, Checking, UserSteps, UserAccess, Early, Ending, NeedsWritableRoot,
         Returned, Renaming, histVars, fsVars
    <2>5. CASE OwnerApply
      BY <1>0, <2>5, SMTT(30), Z3T(30) DEF OwnerApply, SetMode, Step, AccessFails, CheckFailure,
         MaybeSetMode, ChangeFailure, PublishFails, MutationOf, Finish, PublishError, CallInv,
         Publishing, Syncing, NoOutcome, Verifying, Pinning, Owning, Checking, UserSteps,
         UserAccess, Early, Ending, NeedsWritableRoot, Returned, Renaming
    <2>6. CASE OwnerRebind
      BY <1>0, <2>6, SMTT(30), Z3T(30) DEF OwnerRebind, Step, AccessFails, Same, PublishFails,
         MutationOf, Finish, PublishError, CallInv, Publishing, Syncing, NoOutcome, Verifying,
         Pinning, Owning, Checking, UserSteps, UserAccess, Early, Ending, NeedsWritableRoot,
         Returned, Renaming, histVars, fsVars
    <2>7. CASE OwnerRootCheck
      BY <1>0, <2>7, SMTT(30), Z3T(30) DEF OwnerRootCheck, Step, AccessFails, CheckFailure,
         ChangeFailure, Same, PublishFails, MutationOf, Finish, PublishError, CallInv,
         Publishing, Syncing, NoOutcome, Verifying, Pinning, Owning, Checking, UserSteps,
         UserAccess, Early, Ending, NeedsWritableRoot, Returned, Renaming, histVars, fsVars
    <2>8. CASE OwnerRootApply
      BY <1>0, <2>8, SMTT(30), Z3T(30) DEF OwnerRootApply, SetMode, Step, MaybeSetMode,
         AccessFails, ChangeFailure, PublishFails, MutationOf, Finish, PublishError, CallInv,
         Publishing, Syncing, NoOutcome, Verifying, Pinning, Owning, Checking, UserSteps,
         UserAccess, Early, Ending, NeedsWritableRoot, Returned, Renaming
    <2>9. CASE OwnerRootRebind
      BY <1>0, <2>9, SMTT(30), Z3T(30) DEF OwnerRootRebind, Step, Mark, AccessFails, Unmarked,
         Same, PublishFails, MutationOf, Finish, PublishError, CallInv, Publishing, Syncing,
         NoOutcome, Verifying, Pinning, Owning, Checking, UserSteps, UserAccess, Early, Ending,
         NeedsWritableRoot, Returned, Renaming, fsVars
    <2>10. CASE OwnerVerify
      BY <1>0, <2>10, SMTT(30), Z3T(30) DEF OwnerVerify, Step, AccessFails, Same, PublishFails,
         MutationOf, Finish, PublishError, CallInv, Publishing, Syncing, NoOutcome, Verifying,
         Pinning, Owning, Checking, UserSteps, UserAccess, Early, Ending, NeedsWritableRoot,
         Returned, Renaming, histVars, fsVars
    <2>11. CASE OwnerVerified
      BY <1>0, <2>11, SMTT(30), Z3T(30) DEF OwnerVerified, AccessFails, Step, Same, PublishFails,
         MutationOf, Finish, PublishError, CallInv, Publishing, Syncing, NoOutcome, Verifying,
         Pinning, Owning, Checking, UserSteps, UserAccess, Early, Ending, NeedsWritableRoot,
         Returned, Renaming, histVars, fsVars
    <2>12. CASE OwnerRecheck
      BY <1>0, <2>12, SMTT(30), Z3T(30) DEF OwnerRecheck, Step, AccessFails, Same, PublishFails,
         MutationOf, Finish, PublishError, CallInv, Publishing, Syncing, NoOutcome, Verifying,
         Pinning, Owning, Checking, UserSteps, UserAccess, Early, Ending, NeedsWritableRoot,
         Returned, Renaming, histVars, fsVars
    <2>13. CASE OwnerRootRecheck
      BY <1>0, <2>13, SMTT(30), Z3T(30) DEF OwnerRootRecheck, Step, AccessFails, Same,
         PublishFails, MutationOf, Finish, PublishError, CallInv, Publishing, Syncing, NoOutcome,
         Verifying, Pinning, Owning, Checking, UserSteps, UserAccess, Early, Ending,
         NeedsWritableRoot, Returned, Renaming, histVars, fsVars
    <2>14. CASE OwnerSync
      BY <1>0, <2>14, SMTT(30), Z3T(30) DEF OwnerSync, Step, AccessFails, PublishFails,
         MutationOf, Finish, PublishError, CallInv, Publishing, Syncing, NoOutcome, Verifying,
         Pinning, Owning, Checking, UserSteps, UserAccess, Early, Ending, NeedsWritableRoot,
         Returned, Renaming, histVars
    <2>15. CASE OwnerDone
      BY <1>0, <2>15 DEF OwnerDone, Step, Same, CallInv, Publishing, Syncing, NoOutcome,
         Verifying, Pinning, Owning, Checking, UserSteps, UserAccess, Early, Ending,
         NeedsWritableRoot, Returned, Renaming, histVars, fsVars
    <2> QED
      BY <1>3, <2>1, <2>2, <2>3, <2>4, <2>5, <2>6, <2>7, <2>8, <2>9, <2>10, <2>11, <2>12, <2>13,
         <2>14, <2>15 DEF OwnerAccess
  <1>4. CASE CurrentUserAccess
    <2>1. CASE UserCollect
      BY <1>0, <2>1, SMTT(30), Z3T(30) DEF UserCollect, Step, AccessFails, Same, PublishFails,
         MutationOf, Finish, PublishError, CallInv, Publishing, Syncing, NoOutcome, Verifying,
         Pinning, Owning, Checking, UserSteps, UserAccess, Early, Ending, NeedsWritableRoot,
         Returned, Renaming, histVars, fsVars
    <2>2. CASE UserApply
      <3>1. /\ pc = "userApply" /\ UNCHANGED <<opts, moved, quiet, renamed, names>>
            /\ \/ pc' = "userApply" /\ UNCHANGED <<outcome, changed, applied, access>>
               \/ pc' = "userConfirm" /\ changed' # {} /\ UNCHANGED <<outcome, applied, access>>
               \/ AccessFails(ChangeFailure) /\ (changed # {} => changed' # {})
        BY <2>2 DEF UserApply, Step, SetMode, MaybeSetMode, AccessFails, PublishFails, Finish
      <3>2. moved = None /\ (applied => changed # {}) /\ opts \in OptionSets
        BY <1>0, <3>1 DEF CallInv, Publishing, Early, Verifying, Pinning, Owning, Checking,
           UserSteps, Ending, Renaming, Syncing
      <3>3. CASE AccessFails(ChangeFailure) /\ (changed # {} => changed' # {})
        BY <3>1, <3>2, <3>3, FailureReport DEF AccessFails, ChangeFailure, MutationOf
      <3>4. CASE pc' \in {"userApply", "userConfirm"}
        BY <1>0, <3>1, <3>2, <3>4, SMTT(30), Z3T(30) DEF CallInv, Returned, AccessFails,
           PublishFails, Finish, Publishing, Early, Verifying, Pinning, Owning, Checking,
           UserSteps, Ending, Renaming, Syncing
      <3> QED
        BY <3>1, <3>3, <3>4
    <2>3. CASE UserConfirm
      <3>1. /\ pc = "userConfirm" /\ UNCHANGED <<opts, changed, moved, quiet, renamed, names>>
            /\ \/ pc' = "userApply" /\ UNCHANGED <<outcome, access>>
               \/ AccessFails("Mixed") \/ AccessFails("Indeterminate")
        BY <2>3 DEF UserConfirm, Step, AccessFails, PublishFails, Finish, histVars
      <3>2. moved = None /\ changed # {}
        BY <1>0, <3>1 DEF CallInv, Publishing, Early, Verifying, Pinning, Owning, Checking,
           UserSteps, Ending, Renaming, Syncing
      <3>3. CASE AccessFails("Mixed") \/ AccessFails("Indeterminate")
        BY <3>1, <3>2, <3>3, FailureReport DEF AccessFails, MutationOf
      <3>4. CASE pc' = "userApply"
        BY <1>0, <3>1, <3>2, <3>4 DEF CallInv, Returned, AccessFails, PublishFails, Finish,
           Publishing, Early, Verifying, Pinning, Owning, Checking, UserSteps, Ending, Renaming,
           Syncing
      <3> QED
        BY <3>1, <3>3, <3>4
    <2>4. CASE UserRoot
      BY <1>0, <2>4, SMTT(30), Z3T(30) DEF UserRoot, SetMode, Step, AccessFails, ChangeFailure,
         MaybeSetMode, PublishFails, MutationOf, Finish, PublishError, CallInv, Publishing,
         Syncing, NoOutcome, Verifying, Pinning, Owning, Checking, UserSteps, UserAccess, Early,
         Ending, NeedsWritableRoot, Returned, Renaming
    <2>5. CASE UserRootConfirm
      BY <1>0, <2>5, SMTT(30), Z3T(30) DEF UserRootConfirm, Step, AccessFails, Same,
         PublishFails, MutationOf, Finish, PublishError, CallInv, Publishing, Syncing, NoOutcome,
         Verifying, Pinning, Owning, Checking, UserSteps, UserAccess, Early, Ending,
         NeedsWritableRoot, Returned, Renaming, histVars, fsVars
    <2> QED
      BY <1>4, <2>1, <2>2, <2>3, <2>4, <2>5 DEF CurrentUserAccess
  <1>5. CASE RenameToTarget
    <2>1. CASE FinalCheck
      BY <1>0, <2>1, SMTT(30), Z3T(30) DEF FinalCheck, Mark, Step, NeedsWritableRoot,
         PublishFails, Unmarked, Same, Finish, PublishError, CallInv, Publishing, Syncing,
         NoOutcome, Verifying, Pinning, Owning, Checking, UserSteps, UserAccess, Early, Ending,
         Returned, Renaming, fsVars
    <2>2. CASE MakeRootWritable
      BY <1>0, <2>2, SMTT(30), Z3T(30) DEF MakeRootWritable, SetMode, Step, PublishFails,
         MaybeSetMode, Finish, PublishError, CallInv, Publishing, Syncing, NoOutcome, Verifying,
         Pinning, Owning, Checking, UserSteps, UserAccess, Early, Ending, NeedsWritableRoot,
         Returned, Renaming
    <2>3. CASE Rename
      <3>0. pc = "rename" /\ UNCHANGED <<opts, outcome, changed, applied, access, quiet>>
        BY <2>3 DEF Rename, RenameReturns
      <3>1. \/ /\ pc' = "renameSync" /\ renamed' = "ok" /\ moved' = names["stage"] /\ moved' # None
               /\ names' = [names EXCEPT !["target"] = names["stage"], !["stage"] = None]
            \/ /\ pc' = "restore" /\ renamed' = "Indeterminate" /\ moved' = names["stage"]
               /\ names' = [names EXCEPT !["target"] = names["stage"], !["stage"] = None]
            \/ pc' = "restore" /\ renamed' \in {"Unchanged", "Indeterminate"} /\ moved' = moved
        BY <2>3 DEF Rename, RenameReturns, MoveName, CanRename
      <3>2. (moved' = names["stage"] /\ names'["target"] = names["stage"]) \/ moved' = moved
        BY <1>0, <3>1 DEF FsTyped, Parents
      <3>3. /\ opts \in OptionSets /\ ~OptionsRefused(opts) /\ outcome = NoOutcome /\ moved = None
            /\ \/ access = "Preserved" /\ changed = {} /\ opts.owner = None /\ opts.access = "Preserve"
               \/ access = "OwnerPolicyApplied" /\ opts.owner # None /\ opts.access = "Preserve"
               \/ access \in UserAccess /\ access = opts.access
        BY <1>0, <3>0, IdFacts DEF CallInv, Publishing, Early, Verifying, Pinning, Owning,
           Checking, UserSteps, Ending, Renaming, Syncing
      <3>5. "final" \in quiet => names["stage"] = Root
        BY <1>0, <3>0 DEF CallInv, Publishing, Early, Verifying, Pinning, Owning, Checking,
           UserSteps, Ending, Renaming, Syncing
      <3>4. "final" \in quiet => (moved' = Root /\ names'["target"] = Root) \/ moved' = None
        BY <3>2, <3>3, <3>5
      <3>6. pc' \in {"renameSync", "restore"} /\ renamed' \in {"ok", "Unchanged", "Indeterminate"}
            /\ (pc' = "renameSync" => renamed' = "ok") /\ (renamed' = "ok" => moved' # None)
            /\ (renamed' = "Unchanged" => moved' = None)
        BY <3>1, <3>3
      <3> QED
        BY <3>0, <3>3, <3>4, <3>6 DEF CallInv, Returned, Publishing, Early, Verifying, Pinning,
           Owning, Checking, UserSteps, Ending, Renaming, Syncing
    <2>4. CASE RenameSync
      BY <1>0, <2>4 DEF RenameSync, CallInv, Publishing, Syncing, NoOutcome, Verifying, Pinning,
         Owning, Checking, UserSteps, UserAccess, Early, Ending, NeedsWritableRoot, Returned,
         Renaming, histVars
    <2>5. CASE RestoreAndReturn
      BY <1>0, <2>5, SMTT(30), Z3T(30) DEF RestoreAndReturn, Finish, PublishResult,
         NeedsWritableRoot, SetMode, MaybeSetMode, PublishOutcome, PublishError, AccessMutation,
         CallInv, Publishing, Syncing, NoOutcome, Verifying, Pinning, Owning, Checking,
         UserSteps, UserAccess, Early, Ending, Returned, Renaming
    <2> QED
      BY <1>5, <2>1, <2>2, <2>3, <2>4, <2>5 DEF RenameToTarget
  <1>6. CASE \E p \in Paths, x \in Ids \cup {None} : OthersChangeEntry(p, x)
    BY <1>0, <1>6, SMTT(30), Z3T(30) DEF OthersChangeEntry, Disturb, CallInv, Publishing,
       Syncing, NoOutcome, Verifying, Pinning, Owning, Checking, UserSteps, UserAccess, Early,
       Ending, NeedsWritableRoot, Returned, Renaming, callVars
  <1>7. CASE \E n \in {"stage", "target"}, x \in {Root, Alien, None} : OthersChangeName(n, x)
    BY <1>0, <1>7, SMTT(30), Z3T(30) DEF OthersChangeName, Disturb, CallInv, Publishing, Syncing,
       NoOutcome, Verifying, Pinning, Owning, Checking, UserSteps, UserAccess, Early, Ending,
       NeedsWritableRoot, Returned, Renaming, callVars
  <1>8. CASE \E o \in Ids \cup {Root} : OthersChangeMode(o)
    BY <1>0, <1>8, SMTT(30), Z3T(30) DEF OthersChangeMode, Disturb, CallInv, Publishing, Syncing,
       NoOutcome, Verifying, Pinning, Owning, Checking, UserSteps, UserAccess, Early, Ending,
       NeedsWritableRoot, Returned, Renaming, callVars
  <1>9. CASE \E o \in FileIds : OthersLink(o)
    BY <1>0, <1>9, SMTT(30), Z3T(30) DEF OthersLink, Disturb, CallInv, Publishing, Syncing,
       NoOutcome, Verifying, Pinning, Owning, Checking, UserSteps, UserAccess, Early, Ending,
       NeedsWritableRoot, Returned, Renaming, callVars
  <1>10. CASE Crash
    BY <1>0, <1>10 DEF Crash, CallInv, Publishing, Syncing, NoOutcome, Verifying, Pinning,
       Owning, Checking, UserSteps, UserAccess, Early, Ending, NeedsWritableRoot, Returned,
       Renaming, fsVars, histVars
  <1> QED
    BY <1>1, <1>2, <1>3, <1>4, <1>5, <1>6, <1>7, <1>8, <1>9, <1>10 DEF Next, Owner, Others

\* A call that is over has no walk.
LEMMA OverIsQuiet ==
    ASSUME pc' \in {"idle", "down"}, todo' = {}
    PROVE  WalkInv'
  BY DEF WalkInv, Working, Owning, Checking, UserSteps, Pinning

\* An undisturbed walk keeps seeing the tree as it is.
LEMMA WalkPreserved ==
    ASSUME WalkFacts, BaseInv, Next
    PROVE  WalkInv'
  <1>0. Typed /\ CallInv /\ WalkInv
    BY DEF BaseInv
  <1>c. Sound /\ Due = {} => visited = tree
    BY <1>0, WalkComplete
  <1>s. Sound /\ Due # {} /\ Observe(NextEntry) /\ UNCHANGED tree => Sound'
    BY <1>0, ObserveKeepsSound
  <1>r. Restart => Sound' /\ visited' = NoEntries
    BY RestartIsSound DEF Restart
  <1>z. visited = NoEntries /\ UNCHANGED visited => Sound'
    BY DEF NoEntries, Sound
  <1>k. UNCHANGED <<tree, visited>> => (Sound <=> Sound')
    BY DEF Sound
  <1>v. UNCHANGED tree => (Vacant <=> Vacant')
    BY DEF Vacant
  <1>e. visited = tree /\ Collected = {} => Vacant
    BY DEF Collected, Vacant
  <1>f. (Found = {} <=> Collected = {}) /\ (UNCHANGED visited => Found' = Found)
    BY DEF Found, Collected
  <1>1. CASE Beginning
    <2>1. CASE CallPublish \/ StartAccess \/ FilesEnd \/ SkipFiles
      BY <1>0, <1>r, <2>1 DEF CallPublish, StartAccess, FilesEnd, SkipFiles, Same, WalkInv,
         Working, Owning, Checking, Shut, UserSteps, Pinning, fsVars, Step, Unmarked, Mark
    <2>2. CASE RefuseOptions
      BY <1>0, <2>2, OverIsQuiet DEF RefuseOptions, PublishFails, Finish
    <2>3. CASE ObserveStage \/ FileSync
      BY <1>0, <1>k, <1>v, <1>f, <2>3 DEF ObserveStage, FileSync, Step, Mark, PublishFails,
         Unmarked, Same, Finish, WalkInv, Working, Owning, Checking, Shut, UserSteps, Pinning,
         fsVars, FilesFail, histVars
    <2>4. CASE VerifyRoot
      BY <1>0, <1>z, <2>4 DEF VerifyRoot, Step, PublishFails, Same, Finish, WalkInv, Working,
         Owning, Checking, Shut, UserSteps, Pinning, histVars, fsVars
    <2>5. CASE VerifyEntry
      BY <1>0, <1>s, <1>k, <2>5 DEF VerifyEntry, Step, PublishFails, Same, Finish, WalkInv,
         Working, Owning, Checking, Shut, UserSteps, Pinning, histVars, fsVars
    <2>6. CASE VerifyEnd
      BY <1>0, <2>6 DEF VerifyEnd, PublishFails, Step, Same, Finish, WalkInv, Working, Owning,
         Checking, Shut, UserSteps, Pinning, histVars, fsVars
    <2>7. CASE FilesObserve
      BY <1>0, <1>s, <2>7 DEF FilesObserve, Step, FilesFail, Same, Finish, PublishFails, WalkInv,
         Working, Owning, Checking, Shut, UserSteps, Pinning, histVars, fsVars
    <2> QED
      BY <1>1, <2>1, <2>2, <2>3, <2>4, <2>5, <2>6, <2>7 DEF Beginning
  <1>2. CASE TreeSync
    <2>1. CASE CallSyncTree
      BY <1>0, <1>r, <2>1 DEF CallSyncTree, Same, WalkInv, Working, Owning, Checking, Shut,
         UserSteps, Pinning, fsVars
    <2>2. CASE CollectDirectories
      BY <1>0, <1>s, <1>c, <2>2 DEF CollectDirectories, Step, Same, WalkInv, Working, Owning,
         Checking, Shut, UserSteps, Pinning, histVars, fsVars
    <2>3. CASE DirectorySync \/ RootSync
      BY <1>0, <1>k, <1>v, <1>f, <2>3 DEF DirectorySync, RootSync, Step, Finish, WalkInv,
         Working, Owning, Checking, Shut, UserSteps, Pinning, histVars
    <2>4. CASE ParentSync
      BY <1>0, <2>4, OverIsQuiet DEF ParentSync, Finish
    <2> QED
      BY <1>2, <2>1, <2>2, <2>3, <2>4 DEF TreeSync
  <1>3. CASE OwnerAccess
    <2>1. CASE OwnerCollect
      BY <1>0, <1>s, <1>k, <2>1 DEF OwnerCollect, Step, AccessFails, Same, PublishFails, Finish,
         WalkInv, Working, Owning, Checking, Shut, UserSteps, Pinning, histVars, fsVars
    <2>2. CASE OwnerCollected
      BY <1>0, <1>c, <1>k, <1>v, <1>e, <1>f, <2>2 DEF OwnerCollected, AccessFails, Step, Same,
         PublishFails, Finish, WalkInv, Working, Owning, Checking, Shut, UserSteps, Pinning,
         histVars, fsVars
    <2>3. CASE OwnerPin \/ OwnerPinned \/ OwnerApply \/ OwnerRebind
      BY <1>0, <1>k, <1>v, <1>f, <2>3 DEF OwnerPin, OwnerPinned, OwnerApply, OwnerRebind, Step,
         AccessFails, Same, PublishFails, Finish, WalkInv, Working, Owning, Checking, Shut,
         UserSteps, Pinning, histVars, fsVars
    <2>4. CASE OwnerRootCheck \/ OwnerRootApply \/ OwnerRecheck \/ OwnerRootRecheck
      BY <1>0, <1>k, <1>v, <1>f, <2>4 DEF OwnerRootCheck, OwnerRootApply, OwnerRecheck,
         OwnerRootRecheck, Step, AccessFails, Same, PublishFails, Finish, WalkInv, Working,
         Owning, Checking, Shut, UserSteps, Pinning, histVars, fsVars
    <2>5. CASE OwnerRootRebind
      BY <1>0, <1>r, <1>v, <2>5 DEF OwnerRootRebind, Step, Mark, AccessFails, Unmarked, Same,
         PublishFails, Finish, WalkInv, Working, Owning, Checking, Shut, UserSteps, Pinning,
         fsVars
    <2>6. CASE OwnerVerify
      BY <1>0, <1>s, <1>v, <2>6 DEF OwnerVerify, SkipsVerifyWalk, Step, AccessFails, Same,
         PublishFails, Finish, WalkInv, Working, Owning, Checking, Shut, UserSteps, Pinning,
         histVars, fsVars
    <2>7. CASE OwnerVerified
      BY <1>0, <1>c, <1>v, <1>f, <2>7 DEF OwnerVerified, SkipsVerifyWalk, AccessFails, Step,
         Same, PublishFails, Finish, WalkInv, Working, Owning, Checking, Shut, UserSteps,
         Pinning, histVars, fsVars
    <2>8. CASE OwnerSync \/ OwnerDone
      BY <1>0, <1>k, <1>v, <1>f, <2>8 DEF OwnerSync, OwnerDone, Step, AccessFails, PublishFails,
         Finish, WalkInv, Working, Owning, Checking, Shut, UserSteps, Pinning, histVars, Same,
         fsVars
    <2> QED
      BY <1>3, <2>1, <2>2, <2>3, <2>4, <2>5, <2>6, <2>7, <2>8 DEF OwnerAccess
  <1>4. CASE CurrentUserAccess
    <2>1. CASE UserCollect
      BY <1>0, <1>s, <1>c, <2>1 DEF UserCollect, Step, AccessFails, Same, PublishFails, Finish,
         WalkInv, Working, Owning, Checking, Shut, UserSteps, Pinning, histVars, fsVars
    <2>2. CASE UserApply \/ UserConfirm \/ UserRoot \/ UserRootConfirm
      BY <1>0, <1>k, <1>v, <1>f, <2>2 DEF UserApply, UserConfirm, UserRoot, UserRootConfirm,
         Step, AccessFails, PublishFails, Finish, WalkInv, Working, Owning, Checking, Shut,
         UserSteps, Pinning, histVars, Same, fsVars
    <2> QED
      BY <1>4, <2>1, <2>2 DEF CurrentUserAccess
  <1>5. CASE RenameToTarget
    <2>1. CASE FinalCheck \/ MakeRootWritable \/ Rename \/ RenameSync
      BY <1>0, <1>k, <1>v, <1>f, <2>1 DEF FinalCheck, MakeRootWritable, Rename, RenameSync, Mark,
         Step, PublishFails, Unmarked, Same, Finish, WalkInv, Working, Owning, Checking, Shut,
         UserSteps, Pinning, fsVars, RenameReturns, histVars
    <2>2. CASE RestoreAndReturn
      BY <1>0, <2>2, OverIsQuiet DEF RestoreAndReturn, Finish
    <2> QED
      BY <1>5, <2>1, <2>2 DEF RenameToTarget
  <1>6. CASE \E p \in Paths, x \in Ids \cup {None} : OthersChangeEntry(p, x)
    BY <1>0, <1>k, <1>v, <1>f, <1>6 DEF OthersChangeEntry, Disturb, WalkInv, Working, Owning,
       Checking, Shut, UserSteps, Pinning, callVars
  <1>7. CASE \E n \in {"stage", "target"}, x \in {Root, Alien, None} : OthersChangeName(n, x)
    BY <1>0, <1>k, <1>v, <1>f, <1>7 DEF OthersChangeName, Disturb, WalkInv, Working, Owning,
       Checking, Shut, UserSteps, Pinning, callVars
  <1>8. CASE \E o \in Ids \cup {Root} : OthersChangeMode(o)
    BY <1>0, <1>k, <1>v, <1>f, <1>8 DEF OthersChangeMode, Disturb, WalkInv, Working, Owning,
       Checking, Shut, UserSteps, Pinning, callVars
  <1>9. CASE \E o \in FileIds : OthersLink(o)
    BY <1>0, <1>k, <1>v, <1>f, <1>9 DEF OthersLink, Disturb, WalkInv, Working, Owning, Checking,
       Shut, UserSteps, Pinning, callVars
  <1>10. CASE Crash
    BY <1>0, <1>10, OverIsQuiet DEF Crash
  <1> QED
    BY <1>1, <1>2, <1>3, <1>4, <1>5, <1>6, <1>7, <1>8, <1>9, <1>10 DEF Next, Owner, Others

-----------------------------------------------------------------------------
(* The access. *)

\* A call that fails before it has applied a policy claims none.
LEMMA NoPolicyClaimed ==
    ASSUME \/ pc' \in {"down", "files"}
           \/ pc' = "idle" /\ outcome'.op = "sync"
           \/ pc' = "idle" /\ outcome'.access \notin {"OwnerPolicyApplied"} \cup UserAccess
    PROVE  PolicyInv'
  BY DEF PolicyInv, Returned, Ending, Renaming

\* The objects keep the access that the call has given them.
LEMMA PolicyPreserved ==
    ASSUME WalkFacts, BaseInv, Next
    PROVE  PolicyInv'
  <1>0. Typed /\ CallInv /\ WalkInv /\ PolicyInv
    BY DEF BaseInv
  <1>o. UNCHANGED tree => Objects' = Objects
    BY DEF Objects
  <1>l. UNCHANGED todo => Left' = Left
    BY DEF Left
  <1>i. UNCHANGED todo => \A e \in todo : First(e)' <=> First(e)
    BY DEF First
  <1>1. CASE Beginning
    <2>1. CASE CallPublish \/ RefuseOptions \/ ObserveStage \/ VerifyRoot
      BY <1>0, <1>o, <1>l, <2>1, SMTT(30), Z3T(30) DEF CallPublish, RefuseOptions, ObserveStage,
         VerifyRoot, Same, PolicyInv, PolicyMark, Ending, UserAccess, Renaming,
         NeedsWritableRoot, Returned, Shut, fsVars, PublishFails, Finish, PublishError, histVars,
         Step, Mark, Unmarked
    <2>2. CASE VerifyEntry \/ VerifyEnd \/ StartAccess \/ FilesObserve
      BY <1>0, <1>o, <1>l, <2>2, SMTT(30), Z3T(30) DEF VerifyEntry, VerifyEnd, StartAccess,
         FilesObserve, Step, PublishFails, Same, Finish, PublishError, PolicyInv, PolicyMark,
         Ending, UserAccess, Renaming, NeedsWritableRoot, Returned, Shut, histVars, fsVars,
         Unmarked, Mark, FilesFail, SyncOutcome
    <2>3. CASE FileSync
      BY <1>0, <1>o, <1>l, <2>3, SMTT(30), Z3T(30) DEF FileSync, Step, FilesFail, Finish,
         SyncOutcome, PublishFails, PublishError, PolicyInv, PolicyMark, Ending, UserAccess,
         Renaming, NeedsWritableRoot, Returned, Shut, histVars
    <2>4. CASE FilesEnd
      <3>1. pc \in {"files", "synced"} /\ pc' \in {"dirs", "ownerCollect", "final"}
            /\ (pc' = "final" => opts # None \/ pc = "synced") /\ UNCHANGED <<access, opts>>
        BY <2>4 DEF FilesEnd, Step
      <3>2. pc' = "final" => access = "Preserved" /\ opts.access = "Preserve"
        BY <1>0, <3>1, IdFacts DEF CallInv, Publishing, Early
      <3> QED
        BY <3>1, <3>2 DEF PolicyInv, Returned, Ending, Renaming, UserAccess
    <2>5. CASE SkipFiles
      <3>1. pc \in {"files", "synced"} /\ pc' \in {"dirs", "ownerCollect", "final"}
            /\ (pc' = "final" => opts # None \/ pc = "synced") /\ UNCHANGED <<access, opts>>
        BY <2>5 DEF SkipFiles, Step
      <3>2. pc' = "final" => access = "Preserved" /\ opts.access = "Preserve"
        BY <1>0, <3>1, IdFacts DEF CallInv, Publishing, Early
      <3> QED
        BY <3>1, <3>2 DEF PolicyInv, Returned, Ending, Renaming, UserAccess
    <2> QED
      BY <1>1, <2>1, <2>2, <2>3, <2>4, <2>5 DEF Beginning
  <1>2. CASE TreeSync
    <2>1. CASE CallSyncTree \/ CollectDirectories \/ DirectorySync \/ RootSync
      BY <1>0, <1>o, <1>l, <2>1, SMTT(30), Z3T(30) DEF CallSyncTree, CollectDirectories,
         DirectorySync, RootSync, SyncOutcome, Same, PolicyInv, PolicyMark, Ending, UserAccess,
         Renaming, NeedsWritableRoot, Returned, Shut, fsVars, Step, histVars, Finish
    <2>2. CASE ParentSync
      BY <1>0, <1>o, <1>l, <2>2, SMTT(30), Z3T(30) DEF ParentSync, Finish, SyncOutcome, Unmarked,
         PolicyInv, PolicyMark, Ending, UserAccess, Renaming, NeedsWritableRoot, Returned, Shut
    <2> QED
      BY <1>2, <2>1, <2>2 DEF TreeSync
  <1>3. CASE OwnerAccess
    <2>1. CASE OwnerCollect \/ OwnerCollected \/ OwnerPin \/ OwnerPinned
      BY <1>0, <1>o, <1>l, <2>1, SMTT(30), Z3T(30) DEF OwnerCollect, OwnerCollected, OwnerPin,
         OwnerPinned, Step, AccessFails, Same, PublishFails, MutationOf, Finish, PublishError,
         PolicyInv, PolicyMark, Ending, UserAccess, Renaming, NeedsWritableRoot, Returned, Shut,
         histVars, fsVars
    <2>2. CASE OwnerApply \/ OwnerRebind \/ OwnerRootCheck \/ OwnerRootApply
      BY <1>0, <1>o, <1>l, <2>2, SMTT(30), Z3T(30) DEF OwnerApply, OwnerRebind, OwnerRootCheck,
         OwnerRootApply, SetMode, Step, AccessFails, CheckFailure, MaybeSetMode, ChangeFailure,
         PublishFails, MutationOf, Finish, PublishError, PolicyInv, PolicyMark, Ending,
         UserAccess, Renaming, NeedsWritableRoot, Returned, Shut, Same, histVars, fsVars
    <2>3. CASE OwnerRootRebind \/ OwnerVerify
      BY <1>0, <1>o, <1>l, <2>3, SMTT(30), Z3T(30) DEF OwnerRootRebind, OwnerVerify, Step, Mark,
         AccessFails, Unmarked, Same, PublishFails, MutationOf, Finish, PublishError, PolicyInv,
         PolicyMark, Ending, UserAccess, Renaming, NeedsWritableRoot, Returned, Shut, fsVars,
         histVars
    <2>4. CASE OwnerVerified
      <3>1. CASE AccessFails("Indeterminate")
        BY <3>1, NoPolicyClaimed DEF AccessFails, PublishFails, Finish, PublishError, UserAccess
      <3>2. CASE /\ Step("ownerVerify", "ownerRecheck") /\ todo' = Found
                 /\ UNCHANGED <<tree, mode, quiet>>
                 /\ Due = {} \/ SkipsVerifyWalk
        <4>1. ASSUME PolicyMark \in quiet, NEW o \in Objects
              PROVE  o \in {e[2] : e \in Found}
          <5>1. ~Shut
            BY <1>0, <3>2, <4>1, IdFacts DEF WalkInv, Checking, PolicyMark, Step, Vacant, Objects
          <5>2. visited = tree
            BY <1>0, <3>2, <4>1, <5>1, WalkComplete DEF WalkInv, PolicyMark, Step,
               SkipsVerifyWalk, Shut
          <5> QED
            BY <1>0, <5>2, FoundFacts
        <4> QED
          BY <1>o, <3>2, <4>1 DEF Step, PolicyInv, Returned, Ending, Renaming, PolicyMark, Shut,
             Left
      <3> QED
        BY <2>4, <3>1, <3>2 DEF OwnerVerified, Same, fsVars, histVars
    <2>5. CASE OwnerRecheck
      <3>1. CASE AccessFails("Indeterminate")
        BY <3>1, NoPolicyClaimed DEF AccessFails, PublishFails, Finish, PublishError, UserAccess
      <3>2. CASE \E e \in todo : /\ mode[e[2]] = "policy" /\ Step("ownerRecheck", "ownerRecheck")
                                /\ todo' = todo \ {e} /\ UNCHANGED <<tree, mode, quiet>>
        <4>1. PICK e \in todo : /\ mode[e[2]] = "policy" /\ Step("ownerRecheck", "ownerRecheck")
                               /\ todo' = todo \ {e} /\ UNCHANGED <<tree, mode, quiet>>
          BY <3>2
        <4>2. \A o \in Left : o = e[2] \/ o \in Left'
          BY <4>1 DEF Left
        <4> QED
          BY <1>0, <1>o, <4>1, <4>2 DEF Step, PolicyInv, Returned, Ending, Renaming, PolicyMark,
             Shut
      <3> QED
        BY <2>5, <3>1, <3>2 DEF OwnerRecheck, Same, fsVars, histVars
    <2>6. CASE OwnerRootRecheck
      <3>1. CASE AccessFails("Indeterminate")
        BY <3>1, NoPolicyClaimed DEF AccessFails, PublishFails, Finish, PublishError, UserAccess
      <3>2. CASE /\ Step("ownerRecheck", "ownerSync") /\ access' = "OwnerPolicyApplied"
                 /\ mode[Root] = "policy" /\ todo = {} /\ UNCHANGED <<tree, mode, quiet>>
        <4>1. Left = {}
          BY <3>2 DEF Left
        <4> QED
          BY <1>0, <1>o, <3>2, <4>1 DEF Step, PolicyInv, Returned, Ending, Renaming, PolicyMark,
             Shut
      <3> QED
        BY <2>6, <3>1, <3>2 DEF OwnerRootRecheck, Same, fsVars, histVars
    <2>7. CASE OwnerSync
      <3>0. /\ pc = "ownerSync" /\ UNCHANGED <<tree, mode, quiet, opts>>
            /\ \/ pc' = "ownerSync" /\ access' = access
               \/ pc' = "idle" /\ outcome'.access = "OwnerPolicyApplied"
        BY <2>7, SMTT(30), Z3T(30) DEF OwnerSync, Step, AccessFails, PublishFails, Finish,
           PublishError, UserAccess, histVars
      <3>1. access = "OwnerPolicyApplied"
        BY <1>0, <3>0 DEF CallInv
      <3> QED
        BY <1>0, <1>o, <3>0, <3>1 DEF PolicyInv, Returned, Ending, Renaming, PolicyMark, Shut,
           UserAccess
    <2>8. CASE OwnerDone
      <3>0. pc = "ownerSync" /\ pc' = "final" /\ UNCHANGED <<tree, mode, quiet, opts, access>>
        BY <2>8 DEF OwnerDone, Step, Same, fsVars, histVars
      <3>1. opts.access = "Preserve"
        BY <1>0, <3>0 DEF CallInv
      <3> QED
        BY <1>0, <1>o, <3>0, <3>1 DEF PolicyInv, Returned, Ending, Renaming, PolicyMark, Shut,
           UserAccess
    <2> QED
      BY <1>3, <2>1, <2>2, <2>3, <2>4, <2>5, <2>6, <2>7, <2>8 DEF OwnerAccess
  <1>4. CASE CurrentUserAccess
    <2>1. CASE UserCollect
      <3>1. CASE AccessFails("Indeterminate")
        BY <3>1, NoPolicyClaimed DEF AccessFails, PublishFails, Finish, PublishError, UserAccess
      <3>2. CASE Step("collect", "collect") /\ UNCHANGED access
        BY <3>2 DEF Step, PolicyInv, Returned, Ending, Renaming
      <3>3. CASE Step("collect", "userApply") /\ todo' = Found /\ UNCHANGED <<tree, mode, quiet>> /\ Due = {}
        <4>1. ASSUME "collect" \in quiet, NEW o \in Objects
              PROVE  o \in {e[2] : e \in Found}
          <5>1. visited = tree
            BY <1>0, <3>3, <4>1, WalkComplete DEF WalkInv, Step
          <5> QED
            BY <1>0, <5>1, FoundFacts
        <4> QED
          BY <1>o, <3>3, <4>1 DEF Step, PolicyInv, Returned, Ending, Renaming, Left
      <3> QED
        BY <2>1, <3>1, <3>2, <3>3 DEF UserCollect, Same, fsVars, histVars
    <2>2. CASE UserApply
      <3>0. PICK e \in todo : First(e) /\
              \/ /\ KindOf(e[2]) = "link" /\ todo' = todo \ {e} /\ Step("userApply", "userApply")
                 /\ UNCHANGED mode
              \/ /\ mode' = [mode EXCEPT ![e[2]] = "policy"] /\ Step("userApply", "userConfirm")
                 /\ UNCHANGED todo
              \/ AccessFails(ChangeFailure)
        BY <2>2 DEF UserApply, SetMode
      <3>t. e[2] \in Ids /\ mode \in [Ids \cup {Root} -> Modes] /\ UNCHANGED <<tree, quiet>>
        BY <1>0, <2>2 DEF Typed, LocalsTyped, FsTyped, UserApply
      <3>1. CASE AccessFails(ChangeFailure)
        BY <3>1, NoPolicyClaimed DEF ChangeFailure, AccessFails, PublishFails, Finish,
           PublishError, UserAccess
      <3>2. CASE /\ KindOf(e[2]) = "link" /\ todo' = todo \ {e} /\ Step("userApply", "userApply")
                 /\ UNCHANGED mode
        <4>1. \A o \in Left : o = e[2] \/ o \in Left'
          BY <3>2 DEF Left
        <4>2. e[2] \notin Objects
          BY <3>2 DEF Objects, KindOf
        <4> QED
          BY <1>0, <1>o, <3>2, <3>t, <4>1, <4>2 DEF Step, PolicyInv, Returned, Ending, Renaming
      <3>3. CASE /\ mode' = [mode EXCEPT ![e[2]] = "policy"] /\ Step("userApply", "userConfirm")
                 /\ UNCHANGED todo
        <4>1. mode'[e[2]] = "policy" /\ \A o \in Objects : mode'[o] = mode[o] \/ mode'[o] = "policy"
          BY <3>3, <3>t DEF Objects, Ids
        <4>2. \A f \in todo : First(f)' => f = e
          BY <1>0, <1>i, <3>0, <3>3, FirstIsUnique
        <4> QED
          BY <1>0, <1>o, <1>l, <3>3, <3>t, <4>1, <4>2 DEF Step, PolicyInv, Returned, Ending,
             Renaming
      <3> QED
        BY <3>0, <3>1, <3>2, <3>3
    <2>3. CASE UserConfirm
      <3>0. PICK e \in todo : First(e) /\
              \/ todo' = todo \ {e} /\ Step("userConfirm", "userApply")
              \/ AccessFails("Mixed") \/ AccessFails("Indeterminate")
        BY <2>3 DEF UserConfirm
      <3>t. pc = "userConfirm" /\ UNCHANGED <<tree, quiet, mode>>
        BY <2>3 DEF UserConfirm, histVars
      <3>1. CASE AccessFails("Mixed") \/ AccessFails("Indeterminate")
        BY <3>1, NoPolicyClaimed, SMTT(30), Z3T(30) DEF AccessFails, PublishFails, Finish,
           PublishError, UserAccess
      <3>2. CASE todo' = todo \ {e} /\ Step("userConfirm", "userApply")
        <4>1. \A o \in Left : o = e[2] \/ o \in Left'
          BY <3>2 DEF Left
        <4>2. "collect" \in quiet => mode[e[2]] = "policy"
          BY <1>0, <3>0, <3>t DEF PolicyInv
        <4> QED
          BY <1>0, <1>o, <3>2, <3>t, <4>1, <4>2 DEF Step, PolicyInv, Returned, Ending, Renaming
      <3> QED
        BY <3>0, <3>1, <3>2
    <2>4. CASE UserRoot
      <3>1. CASE AccessFails(ChangeFailure)
        BY <3>1, NoPolicyClaimed DEF ChangeFailure, AccessFails, PublishFails, Finish,
           PublishError, UserAccess
      <3>2. CASE mode' = [mode EXCEPT ![Root] = "policy"] /\ Step("userApply", "userRootConfirm")
        <4>0. mode \in [Ids \cup {Root} -> Modes] /\ UNCHANGED <<tree, quiet>> /\ todo = {}
          BY <1>0, <2>4 DEF Typed, FsTyped, UserRoot
        <4>1. mode'[Root] = "policy" /\ \A o \in Objects : mode'[o] = mode[o]
          BY <3>2, <4>0, IdFacts DEF Objects
        <4>2. Left = {}
          BY <4>0 DEF Left
        <4> QED
          BY <1>0, <1>o, <3>2, <4>0, <4>1, <4>2 DEF Step, PolicyInv, Returned, Ending, Renaming
      <3> QED
        BY <2>4, <3>1, <3>2 DEF UserRoot, SetMode
    <2>5. CASE UserRootConfirm
      <3>1. CASE AccessFails("Indeterminate")
        BY <3>1, NoPolicyClaimed DEF AccessFails, PublishFails, Finish, PublishError, UserAccess
      <3>2. CASE /\ Step("userRootConfirm", "final") /\ access' = opts.access
                 /\ UNCHANGED <<tree, mode, quiet>>
        <4>1. opts.access \in UserAccess
          BY <1>0, <3>2 DEF CallInv, UserSteps, Step
        <4> QED
          BY <1>0, <1>o, <3>2, <4>1 DEF Step, PolicyInv, Returned, Ending, Renaming, UserAccess
      <3> QED
        BY <2>5, <3>1, <3>2 DEF UserRootConfirm, Same, fsVars, histVars
    <2> QED
      BY <1>4, <2>1, <2>2, <2>3, <2>4, <2>5 DEF CurrentUserAccess
  <1>5. CASE RenameToTarget
    <2>1. CASE FinalCheck
      <3>0. /\ pc = "final" /\ UNCHANGED <<tree, mode, opts>>
            /\ \/ pc' \in {"writable", "rename"} /\ access' = access /\ quiet' = quiet \cup {"final"}
               \/ pc' = "idle" /\ outcome'.access = access /\ ~outcome'.ok /\ quiet' = quiet
        BY <2>1, SMTT(30), Z3T(30) DEF FinalCheck, Step, AccessFails, PublishFails, Finish,
           PublishError, UserAccess, Mark, Unmarked, Same, fsVars
      <3>1. access \in UserAccess => opts.access \in UserAccess
        BY <1>0, <3>0 DEF CallInv, Ending, UserAccess
      <3> QED
        BY <1>0, <1>o, <3>0, <3>1 DEF PolicyInv, Returned, Ending, Renaming, PolicyMark, Shut,
           NeedsWritableRoot, UserAccess
    <2>2. CASE MakeRootWritable
      <3>0. /\ pc = "writable" /\ UNCHANGED <<tree, opts, quiet>>
            /\ mode' = mode \/ mode' = [mode EXCEPT ![Root] = "writable"]
            /\ \/ pc' = "rename" /\ access' = access
               \/ pc' = "idle" /\ outcome'.access \in {access, "Indeterminate"} /\ ~outcome'.ok
        BY <2>2, SMTT(30), Z3T(30) DEF MakeRootWritable, SetMode, MaybeSetMode, Step,
           AccessFails, PublishFails, Finish, PublishError, UserAccess
      <3>1. NeedsWritableRoot /\ access \in UserAccess /\ opts.access \in UserAccess
        BY <1>0, <3>0 DEF CallInv, Ending, Renaming, UserAccess, NeedsWritableRoot
      <3>2. \A o \in Objects : mode'[o] = mode[o]
        BY <1>0, <3>0, IdFacts DEF Typed, FsTyped, Objects
      <3> QED
        BY <1>0, <1>o, <3>0, <3>1, <3>2 DEF PolicyInv, Returned, Ending, Renaming, UserAccess,
           NeedsWritableRoot
    <2>3. CASE Rename \/ RenameSync
      BY <1>0, <1>o, <1>l, <2>3 DEF Rename, RenameSync, RenameReturns, PolicyInv, PolicyMark,
         Ending, UserAccess, Renaming, NeedsWritableRoot, Returned, Shut, histVars
    <2>4. CASE RestoreAndReturn
      <3>0. /\ pc = "restore" /\ pc' = "idle" /\ UNCHANGED <<tree, opts, quiet>>
            /\ \/ /\ outcome' = PublishResult(renamed, TRUE)
                  /\ IF NeedsWritableRoot THEN mode' = [mode EXCEPT ![Root] = "policy"] ELSE mode' = mode
               \/ outcome' = PublishResult(renamed, FALSE)
        BY <2>4 DEF RestoreAndReturn, SetMode, Finish
      <3>1. /\ access \in UserAccess => opts.access \in UserAccess
            /\ access = "OwnerPolicyApplied" => ~NeedsWritableRoot
            /\ renamed \in {"ok", "durable", "Renamed", "Unchanged", "Indeterminate"}
        BY <1>0, <3>0 DEF CallInv, Ending, Renaming, UserAccess, NeedsWritableRoot
      <3>2. CASE outcome' = PublishResult(renamed, FALSE)
        <4>1. outcome'.access = "Indeterminate"
          BY <3>1, <3>2 DEF PublishResult, PublishError
        <4> QED
          BY <3>0, <4>1, NoPolicyClaimed DEF UserAccess
      <3>3. CASE /\ outcome' = PublishResult(renamed, TRUE)
                 /\ IF NeedsWritableRoot THEN mode' = [mode EXCEPT ![Root] = "policy"] ELSE mode' = mode
        <4>1. outcome'.access = access
          BY <3>1, <3>3 DEF PublishResult, PublishError, PublishOutcome
        <4>2. /\ \A o \in Objects : mode'[o] = mode[o]
              /\ IF NeedsWritableRoot THEN mode'[Root] = "policy" ELSE mode' = mode
          BY <1>0, <3>3, IdFacts DEF Typed, FsTyped, Objects
        <4> QED
          BY <1>0, <1>o, <3>0, <3>1, <4>1, <4>2 DEF PolicyInv, Returned, Ending, Renaming,
             PolicyMark, Shut, UserAccess
      <3> QED
        BY <3>0, <3>2, <3>3
    <2> QED
      BY <1>5, <2>1, <2>2, <2>3, <2>4 DEF RenameToTarget
  <1>6. CASE \E p \in Paths, x \in Ids \cup {None} : OthersChangeEntry(p, x)
    BY <1>0, <1>o, <1>l, <1>6 DEF OthersChangeEntry, Disturb, PolicyInv, PolicyMark, Ending,
       UserAccess, Renaming, NeedsWritableRoot, Returned, Shut, callVars
  <1>7. CASE \E n \in {"stage", "target"}, x \in {Root, Alien, None} : OthersChangeName(n, x)
    BY <1>0, <1>o, <1>l, <1>7 DEF OthersChangeName, Disturb, PolicyInv, PolicyMark, Ending,
       UserAccess, Renaming, NeedsWritableRoot, Returned, Shut, callVars
  <1>8. CASE \E o \in Ids \cup {Root} : OthersChangeMode(o)
    BY <1>0, <1>o, <1>l, <1>8 DEF OthersChangeMode, Disturb, PolicyInv, PolicyMark, Ending,
       UserAccess, Renaming, NeedsWritableRoot, Returned, Shut, callVars
  <1>9. CASE \E o \in FileIds : OthersLink(o)
    BY <1>0, <1>o, <1>l, <1>9 DEF OthersLink, Disturb, PolicyInv, PolicyMark, Ending, UserAccess,
       Renaming, NeedsWritableRoot, Returned, Shut, callVars
  <1>10. CASE Crash
    BY <1>0, <1>o, <1>l, <1>10 DEF Crash, PolicyInv, PolicyMark, Ending, UserAccess, Renaming,
       NeedsWritableRoot, Returned, Shut, fsVars, histVars
  <1> QED
    BY <1>1, <1>2, <1>3, <1>4, <1>5, <1>6, <1>7, <1>8, <1>9, <1>10 DEF Next, Owner, Others

-----------------------------------------------------------------------------
(* The calls and the walks keep their invariant. *)

\* A stage that was just created.
LEMMA InitBaseInv == Init => BaseInv
  <1> SUFFICES ASSUME Init PROVE BaseInv
    OBVIOUS
  <1>1. tree \in Entries /\ IsTree(tree)
    BY ConstantsAssumption DEF Init, Entries
  <1>2. mode \in [Ids \cup {Root} -> Modes] /\ outside \subseteq FileIds
    BY DEF Init, Modes
  <1>3. names \in Parents /\ onDisk \in Parents
    BY DEF Init, Parents
  <1>4. LocalsTyped
    BY DEF Init, LocalsTyped, Entries, NoEntries
  <1>5. CallInv
    BY DEF Init, CallInv, NoOutcome, Returned, Publishing, Early, Verifying, Pinning, Owning,
       Checking, UserSteps, Ending, Renaming, Syncing
  <1>6. WalkInv
    BY DEF Init, WalkInv, Owning, Checking, UserSteps, Pinning
  <1>7. PolicyInv
    BY DEF Init, PolicyInv, NoOutcome, Returned, Ending, Renaming
  <1> QED
    BY <1>1, <1>2, <1>3, <1>4, <1>5, <1>6, <1>7 DEF BaseInv, Typed, FsTyped

\* Every step of a call, of another process and of a crash.
LEMMA NextBaseInv ==
    ASSUME WalkFacts, BaseInv, Next
    PROVE  BaseInv'
  BY FsTypedPreserved, LocalsTypedPreserved, CallPreserved, WalkPreserved, PolicyPreserved
     DEF BaseInv, Typed

LEMMA StutterBaseInv ==
    ASSUME BaseInv, UNCHANGED vars
    PROVE  BaseInv'
  <1> USE DEF vars, fsVars, callVars, histVars
  <1>0. Typed /\ CallInv /\ WalkInv /\ PolicyInv
    BY DEF BaseInv
  <1>1. Typed'
    BY <1>0 DEF Typed, FsTyped, LocalsTyped
  <1>2. CallInv'
    BY <1>0, SMTT(30), Z3T(30) DEF CallInv, Returned, NeedsWritableRoot
  <1>3. WalkInv'
    BY <1>0 DEF WalkInv, Sound, Vacant, Shut, Found, Collected
  <1>4. PolicyInv'
    BY <1>0 DEF PolicyInv, Returned, Objects, Left, PolicyMark, Shut, First, NeedsWritableRoot
  <1> QED
    BY <1>1, <1>2, <1>3, <1>4 DEF BaseInv

=============================================================================
