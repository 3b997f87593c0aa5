------------------------- MODULE StagePublish_proofs -------------------------
(***************************************************************************)
(* What synchronizing and publishing a staged directory promise, for every *)
(* set of paths, objects and options, and any number of calls, moves of    *)
(* other processes and failing native calls.                               *)
(***************************************************************************)
EXTENDS PublishCalls_proofs

USE ZenonT(30)

-----------------------------------------------------------------------------
(***************************************************************************)
(* The invariant.  To BaseInv it adds ValidInv, what the verification has  *)
(* found, and SyncInv, what the calls have put on disk and what of it a    *)
(* crash leaves.                                                           *)
(***************************************************************************)

\* The validation that the walk has passed so far, and all of it.
Valid(v) ==
  /\ v.exact # None => {<<p, KindOf(tree[p])>> : p \in {q \in Paths : tree[q] # None}} = v.exact
  /\ v.noLinks => \A p \in Paths : tree[p] \notin LinkIds
  /\ v.noOutside => \A p \in Paths : tree[p] \notin outside
  /\ v.private => \A o \in Objects \cup {Root} : mode[o] # "theirs"
Verified == (Publishing \ ({"refuse", "observe"} \cup Verifying)) \cup {"files"}
ValidInv ==
  /\ pc = "verify" => ~TwiceExpected(opts.validation)
  /\ pc = "verify" /\ "verify" \in quiet =>
       /\ opts.validation.private => mode[Root] # "theirs"
       /\ \A p \in Paths : visited[p] # None => ~Refused(opts.validation, p)
  /\ pc \in Verified /\ opts # None /\ "verify" \in quiet /\ opts.validation # None => Valid(opts.validation)
  /\ Returned /\ outcome.publication = "Published" /\ "verify" \in quiet /\ opts.validation # None =>
       Valid(opts.validation)

\* The files and directories that are on disk.
Settled == Root \in settled /\ \A p \in Paths : tree[p] \in DirIds => tree[p] \in settled
Flushed == \A p \in Paths : tree[p] \in FileIds => tree[p] \in flushed
FlushInv ==
  /\ pc = "files" /\ "call" \in quiet /\ (opts = None \/ synced) =>
       \A p \in Paths : visited[p] \in FileIds => visited[p] \in flushed \cup Left
  /\ pc \in Syncing /\ "call" \in quiet => Flushed
  /\ pc \in {"userApply", "userConfirm", "ownerSync"} /\ "call" \in quiet /\ synced =>
       \A p \in Paths : tree[p] \in FileIds => tree[p] \in flushed \cup Left
  /\ pc \in {"userRootConfirm"} \cup Ending /\ "call" \in quiet /\ synced => Flushed
  /\ "intact" \in quiet /\ changed = {} => Flushed
  /\ pc \in Verified \ {"access"} /\ opts # None /\ synced => opts.sync # "NotRequired"
  /\ pc = "synced" => ~synced
  /\ Returned /\ outcome.ok /\ outcome.synced /\ "treeSynced" \in quiet => Flushed
SettleInv ==
  /\ pc = "dirSync" /\ "call" \in quiet => \A p \in Paths : tree[p] \in DirIds => tree[p] \in settled \cup Left
  /\ pc = "parentSync" /\ "call" \in quiet => Settled
  /\ "treeSynced" \in quiet => Settled /\ "call" \in quiet
DurableInv ==
  /\ pc \in Renaming /\ "call" \in quiet => "final" \in quiet
  /\ pc = "restore" /\ renamed = "durable" /\ "call" \in quiet =>
       names["target"] = Root /\ onDisk["target"] = Root
  /\ Returned /\ outcome.ok /\ outcome.durable /\ "treeSynced" \in quiet =>
       names["target"] = Root /\ onDisk["target"] = Root
CrashInv == (pc # "down" => crash = None) /\ SyncedTreeSurvivesCrash
SyncInv == FlushInv /\ SettleInv /\ DurableInv /\ CrashInv

IInv == BaseInv /\ ValidInv /\ SyncInv

-----------------------------------------------------------------------------
(* The synchronization and the validation. *)

\* The directories are on disk before the call that synchronizes them returns.
LEMMA SettlePreserved ==
    ASSUME WalkFacts, IInv, Next
    PROVE  SettleInv'
  <1>0. Typed /\ CallInv /\ WalkInv /\ SettleInv
    BY DEF IInv, BaseInv, SyncInv
  <1>k. UNCHANGED <<tree, settled>> => (Settled <=> Settled')
    BY DEF Settled
  <1>l. UNCHANGED todo => Left' = Left
    BY DEF Left
  <1>1. CASE Beginning
    <2>1. CASE CallPublish \/ RefuseOptions \/ ObserveStage \/ VerifyRoot
      BY <1>0, <1>k, <2>1 DEF CallPublish, RefuseOptions, ObserveStage, VerifyRoot, Same,
         SettleInv, fsVars, PublishFails, Finish, histVars, Step, Mark, Unmarked
    <2>2. CASE VerifyEntry
      BY <1>0, <1>k, <2>2 DEF VerifyEntry, Step, PublishFails, Same, Finish, SettleInv, histVars,
         fsVars
    <2>3. CASE VerifyEnd
      BY <1>0, <1>k, <2>3 DEF VerifyEnd, PublishFails, Step, Same, Finish, SettleInv, histVars,
         fsVars
    <2>4. CASE StartAccess
      BY <1>0, <1>k, <2>4, SMTT(30), Z3T(30) DEF StartAccess, Step, Unmarked, Mark, Same,
         SettleInv, fsVars
    <2>5. CASE FilesObserve
      BY <1>0, <1>k, <2>5 DEF FilesObserve, Step, FilesFail, Same, Finish, PublishFails,
         SettleInv, histVars, fsVars
    <2>6. CASE FileSync
      BY <1>0, <1>k, <2>6 DEF FileSync, Step, FilesFail, Finish, PublishFails, SettleInv, histVars
    <2>7. CASE FilesEnd
      BY <1>0, <1>k, <2>7, SMTT(30), Z3T(30) DEF FilesEnd, Step, Mark, Same, SettleInv, fsVars
    <2>8. CASE SkipFiles
      BY <1>0, <1>k, <2>8 DEF SkipFiles, Step, Mark, Same, SettleInv, fsVars
    <2> QED
      BY <1>1, <2>1, <2>2, <2>3, <2>4, <2>5, <2>6, <2>7, <2>8 DEF Beginning
  <1>2. CASE TreeSync
    <2>1. CASE CallSyncTree \/ ParentSync
      BY <1>0, <1>k, <2>1 DEF CallSyncTree, ParentSync, Same, SettleInv, fsVars, Finish, Unmarked
    <2>2. CASE CollectDirectories
      <3>0. UNCHANGED <<tree, settled, quiet>> /\ pc = "dirs"
        BY <2>2 DEF CollectDirectories, Same, fsVars, histVars
      <3>1. CASE pc' # "dirSync"
        BY <1>0, <1>k, <2>2, <3>0, <3>1 DEF CollectDirectories, Step, SettleInv
      <3>2. CASE pc' = "dirSync"
        <4>1. Due = {} /\ todo' = DirectoriesFound
          BY <2>2, <3>2 DEF CollectDirectories, Step
        <4>2. ASSUME "call" \in quiet, NEW p \in Paths, tree[p] \in DirIds
              PROVE  tree[p] \in Left'
          <5>1. visited = tree
            BY <1>0, <3>0, <4>1, <4>2, WalkComplete DEF WalkInv
          <5>2. <<p, tree[p]>> \in Found
            BY <1>0, <4>2, <5>1, FoundFacts, IdFacts
          <5>3. <<p, tree[p]>> \in todo'
            BY <4>1, <4>2, <5>2, IdFacts DEF DirectoriesFound, KindOf
          <5> QED
            BY <5>3, SMTT(30), Z3T(30) DEF Left
        <4> QED
          BY <1>0, <1>k, <3>0, <3>2, <4>2 DEF SettleInv
      <3> QED
        BY <3>1, <3>2
    <2>3. CASE DirectorySync
      <3>1. PICK e \in todo :
              /\ pc = "dirSync" /\ UNCHANGED <<tree, quiet>>
              /\ \/ settled' = settled \cup {e[2]} /\ todo' = todo \ {e} /\ pc' = "dirSync"
                 \/ settled' = settled /\ pc' = "idle"
        BY <2>3 DEF DirectorySync, Step, Finish, histVars
      <3>2. todo' = todo \ {e} => \A o \in Left : o = e[2] \/ o \in Left'
        BY DEF Left
      <3>3. "treeSynced" \in quiet => Settled'
        BY <1>0, <3>1 DEF SettleInv, Settled
      <3> QED
        BY <1>0, <3>1, <3>2, <3>3 DEF SettleInv
    <2>4. CASE RootSync
      <3>1. /\ pc = "dirSync" /\ todo = {} /\ UNCHANGED <<tree, quiet>>
            /\ \/ settled' = settled \cup {Root} /\ pc' = "parentSync"
               \/ settled' = settled /\ pc' = "idle"
        BY <2>4 DEF RootSync, Step, Finish, histVars
      <3>2. Left = {}
        BY <3>1 DEF Left
      <3> QED
        BY <1>0, <3>1, <3>2 DEF SettleInv, Settled
    <2> QED
      BY <1>2, <2>1, <2>2, <2>3, <2>4 DEF TreeSync
  <1>3. CASE OwnerAccess
    <2>1. CASE OwnerCollect \/ OwnerCollected \/ OwnerPin \/ OwnerPinned
      BY <1>0, <1>k, <2>1 DEF OwnerCollect, OwnerCollected, OwnerPin, OwnerPinned, Step,
         AccessFails, Same, PublishFails, Finish, SettleInv, histVars, fsVars
    <2>2. CASE OwnerApply \/ OwnerRebind \/ OwnerRootCheck \/ OwnerRootApply
      BY <1>0, <1>k, <2>2 DEF OwnerApply, OwnerRebind, OwnerRootCheck, OwnerRootApply, Step,
         AccessFails, PublishFails, Finish, SettleInv, Same, histVars, fsVars
    <2>3. CASE OwnerRootRebind \/ OwnerVerify \/ OwnerVerified \/ OwnerRecheck
      BY <1>0, <1>k, <2>3 DEF OwnerRootRebind, OwnerVerify, OwnerVerified, OwnerRecheck, Step,
         Mark, AccessFails, Unmarked, Same, PublishFails, Finish, SettleInv, fsVars,
         SkipsVerifyWalk, histVars
    <2>4. CASE OwnerRootRecheck \/ OwnerSync \/ OwnerDone
      BY <1>0, <1>k, <2>4 DEF OwnerRootRecheck, OwnerSync, OwnerDone, Step, AccessFails, Same,
         PublishFails, Finish, SettleInv, histVars, fsVars
    <2> QED
      BY <1>3, <2>1, <2>2, <2>3, <2>4 DEF OwnerAccess
  <1>4. CASE CurrentUserAccess
    <2>1. CASE UserCollect \/ UserApply \/ UserConfirm \/ UserRoot
      BY <1>0, <1>k, <2>1 DEF UserCollect, UserApply, UserConfirm, UserRoot, Step, AccessFails,
         Same, PublishFails, Finish, SettleInv, histVars, fsVars
    <2>2. CASE UserRootConfirm
      BY <1>0, <1>k, <2>2 DEF UserRootConfirm, Step, AccessFails, Same, PublishFails, Finish,
         SettleInv, histVars, fsVars
    <2> QED
      BY <1>4, <2>1, <2>2 DEF CurrentUserAccess
  <1>5. CASE RenameToTarget
    <2>1. CASE FinalCheck \/ MakeRootWritable \/ Rename \/ RenameSync
      BY <1>0, <1>k, <2>1 DEF FinalCheck, MakeRootWritable, Rename, RenameSync, Mark, Step,
         PublishFails, Unmarked, Same, Finish, SettleInv, fsVars, RenameReturns, histVars
    <2>2. CASE RestoreAndReturn
      BY <1>0, <1>k, <2>2 DEF RestoreAndReturn, Finish, SettleInv
    <2> QED
      BY <1>5, <2>1, <2>2 DEF RenameToTarget
  <1>6. CASE \E p \in Paths, x \in Ids \cup {None} : OthersChangeEntry(p, x)
    BY <1>0, <1>6 DEF OthersChangeEntry, Disturb, SettleInv
  <1>7. CASE \E n \in {"stage", "target"}, x \in {Root, Alien, None} : OthersChangeName(n, x)
    BY <1>0, <1>7 DEF OthersChangeName, Disturb, SettleInv
  <1>8. CASE \E o \in Ids \cup {Root} : OthersChangeMode(o)
    BY <1>0, <1>8 DEF OthersChangeMode, Disturb, SettleInv
  <1>9. CASE \E o \in FileIds : OthersLink(o)
    BY <1>0, <1>9 DEF OthersLink, Disturb, SettleInv
  <1>10. CASE Crash
    BY <1>0, <1>k, <1>10 DEF Crash, SettleInv, fsVars, histVars
  <1> QED
    BY <1>1, <1>2, <1>3, <1>4, <1>5, <1>6, <1>7, <1>8, <1>9, <1>10 DEF Next, Owner, Others

\* A durable publication has put the root under its final name on disk.
LEMMA DurablePreserved ==
    ASSUME IInv, Next
    PROVE  DurableInv'
  <1>0. Typed /\ CallInv /\ SettleInv /\ DurableInv
    BY DEF IInv, BaseInv, SyncInv
  <1>1. CASE Beginning
    <2>1. CASE CallPublish
      BY <1>0, <2>1 DEF CallPublish, Same, DurableInv, Renaming, Returned, fsVars
    <2>2. CASE RefuseOptions
      BY <1>0, <2>2 DEF RefuseOptions, PublishFails, Same, Finish, PublishError, DurableInv,
         Renaming, Returned, histVars, fsVars
    <2>3. CASE ObserveStage
      BY <1>0, <2>3, SMTT(30), Z3T(30) DEF ObserveStage, Step, Mark, PublishFails, Unmarked,
         Same, Finish, PublishError, DurableInv, Renaming, Returned, fsVars
    <2>4. CASE VerifyRoot
      BY <1>0, <2>4, SMTT(30), Z3T(30) DEF VerifyRoot, Step, PublishFails, Same, Finish,
         PublishError, DurableInv, Renaming, Returned, histVars, fsVars
    <2>5. CASE VerifyEntry
      BY <1>0, <2>5, SMTT(30), Z3T(30) DEF VerifyEntry, Step, PublishFails, Same, Finish,
         PublishError, DurableInv, Renaming, Returned, histVars, fsVars
    <2>6. CASE VerifyEnd
      BY <1>0, <2>6, SMTT(30), Z3T(30) DEF VerifyEnd, PublishFails, Step, Same, Finish,
         PublishError, DurableInv, Renaming, Returned, histVars, fsVars
    <2>7. CASE StartAccess
      BY <1>0, <2>7 DEF StartAccess, Step, Unmarked, Mark, Same, DurableInv, Renaming, Returned,
         fsVars
    <2>8. CASE FilesObserve
      BY <1>0, <2>8, SMTT(30), Z3T(30) DEF FilesObserve, Step, FilesFail, Same, Finish,
         SyncOutcome, PublishFails, PublishError, DurableInv, Renaming, Returned, histVars, fsVars
    <2>9. CASE FileSync
      BY <1>0, <2>9, SMTT(30), Z3T(30) DEF FileSync, Step, FilesFail, Finish, SyncOutcome,
         PublishFails, PublishError, DurableInv, Renaming, Returned, histVars
    <2>10. CASE FilesEnd
      BY <1>0, <2>10 DEF FilesEnd, Step, Mark, Same, DurableInv, Renaming, Returned, fsVars
    <2>11. CASE SkipFiles
      BY <1>0, <2>11 DEF SkipFiles, Step, Mark, Same, DurableInv, Renaming, Returned, fsVars
    <2> QED
      BY <1>1, <2>1, <2>2, <2>3, <2>4, <2>5, <2>6, <2>7, <2>8, <2>9, <2>10, <2>11 DEF Beginning
  <1>2. CASE TreeSync
    <2>1. CASE CallSyncTree
      BY <1>0, <2>1 DEF CallSyncTree, SyncOutcome, Same, DurableInv, Renaming, Returned, fsVars
    <2>2. CASE CollectDirectories
      BY <1>0, <2>2, SMTT(30), Z3T(30) DEF CollectDirectories, Step, SyncOutcome, Same,
         DurableInv, Renaming, Returned, histVars, fsVars
    <2>3. CASE DirectorySync
      BY <1>0, <2>3, SMTT(30), Z3T(30) DEF DirectorySync, Step, Finish, SyncOutcome, DurableInv,
         Renaming, Returned, histVars
    <2>4. CASE RootSync
      BY <1>0, <2>4, SMTT(30), Z3T(30) DEF RootSync, Step, Finish, SyncOutcome, DurableInv,
         Renaming, Returned, histVars
    <2>5. CASE ParentSync
      BY <1>0, <2>5, SMTT(30), Z3T(30) DEF ParentSync, Finish, SyncOutcome, Unmarked, DurableInv,
         Renaming, Returned
    <2> QED
      BY <1>2, <2>1, <2>2, <2>3, <2>4, <2>5 DEF TreeSync
  <1>3. CASE OwnerAccess
    <2>1. CASE OwnerCollect
      BY <1>0, <2>1, SMTT(30), Z3T(30) DEF OwnerCollect, Step, AccessFails, Same, PublishFails,
         Finish, PublishError, DurableInv, Renaming, Returned, histVars, fsVars
    <2>2. CASE OwnerCollected
      BY <1>0, <2>2, SMTT(30), Z3T(30) DEF OwnerCollected, AccessFails, Step, Same, PublishFails,
         Finish, PublishError, DurableInv, Renaming, Returned, histVars, fsVars
    <2>3. CASE OwnerPin
      BY <1>0, <2>3, SMTT(30), Z3T(30) DEF OwnerPin, Step, AccessFails, Same, PublishFails,
         Finish, PublishError, DurableInv, Renaming, Returned, histVars, fsVars
    <2>4. CASE OwnerPinned
      BY <1>0, <2>4, SMTT(30), Z3T(30) DEF OwnerPinned, Step, AccessFails, Same, PublishFails,
         Finish, PublishError, DurableInv, Renaming, Returned, histVars, fsVars
    <2>5. CASE OwnerApply
      BY <1>0, <2>5, SMTT(30), Z3T(30) DEF OwnerApply, Step, AccessFails, PublishFails, Finish,
         PublishError, DurableInv, Renaming, Returned
    <2>6. CASE OwnerRebind
      BY <1>0, <2>6, SMTT(30), Z3T(30) DEF OwnerRebind, Step, AccessFails, Same, PublishFails,
         Finish, PublishError, DurableInv, Renaming, Returned, histVars, fsVars
    <2>7. CASE OwnerRootCheck
      BY <1>0, <2>7, SMTT(30), Z3T(30) DEF OwnerRootCheck, Step, AccessFails, Same, PublishFails,
         Finish, PublishError, DurableInv, Renaming, Returned, histVars, fsVars
    <2>8. CASE OwnerRootApply
      BY <1>0, <2>8, SMTT(30), Z3T(30) DEF OwnerRootApply, Step, AccessFails, PublishFails,
         Finish, PublishError, DurableInv, Renaming, Returned
    <2>9. CASE OwnerRootRebind
      BY <1>0, <2>9, SMTT(30), Z3T(30) DEF OwnerRootRebind, Step, Mark, AccessFails, Unmarked,
         Same, PublishFails, Finish, PublishError, DurableInv, Renaming, Returned, fsVars
    <2>10. CASE OwnerVerify
      BY <1>0, <2>10, SMTT(30), Z3T(30) DEF OwnerVerify, Step, AccessFails, Same, PublishFails,
         Finish, PublishError, DurableInv, Renaming, Returned, histVars, fsVars
    <2>11. CASE OwnerVerified
      BY <1>0, <2>11, SMTT(30), Z3T(30) DEF OwnerVerified, AccessFails, Step, Same, PublishFails,
         Finish, PublishError, DurableInv, Renaming, Returned, histVars, fsVars
    <2>12. CASE OwnerRecheck
      BY <1>0, <2>12, SMTT(30), Z3T(30) DEF OwnerRecheck, Step, AccessFails, Same, PublishFails,
         Finish, PublishError, DurableInv, Renaming, Returned, histVars, fsVars
    <2>13. CASE OwnerRootRecheck
      BY <1>0, <2>13, SMTT(30), Z3T(30) DEF OwnerRootRecheck, Step, AccessFails, Same,
         PublishFails, Finish, PublishError, DurableInv, Renaming, Returned, histVars, fsVars
    <2>14. CASE OwnerSync
      BY <1>0, <2>14, SMTT(30), Z3T(30) DEF OwnerSync, Step, AccessFails, PublishFails, Finish,
         PublishError, DurableInv, Renaming, Returned, histVars
    <2>15. CASE OwnerDone
      BY <1>0, <2>15 DEF OwnerDone, Step, Same, DurableInv, Renaming, Returned, histVars, fsVars
    <2> QED
      BY <1>3, <2>1, <2>2, <2>3, <2>4, <2>5, <2>6, <2>7, <2>8, <2>9, <2>10, <2>11, <2>12, <2>13,
         <2>14, <2>15 DEF OwnerAccess
  <1>4. CASE CurrentUserAccess
    <2>1. CASE UserCollect
      BY <1>0, <2>1, SMTT(30), Z3T(30) DEF UserCollect, Step, AccessFails, Same, PublishFails,
         Finish, PublishError, DurableInv, Renaming, Returned, histVars, fsVars
    <2>2. CASE UserApply
      BY <1>0, <2>2, SMTT(30), Z3T(30) DEF UserApply, Step, AccessFails, PublishFails, Finish,
         PublishError, DurableInv, Renaming, Returned
    <2>3. CASE UserConfirm
      BY <1>0, <2>3, SMTT(30), Z3T(30) DEF UserConfirm, Step, AccessFails, PublishFails, Finish,
         PublishError, DurableInv, Renaming, Returned, histVars
    <2>4. CASE UserRoot
      BY <1>0, <2>4, SMTT(30), Z3T(30) DEF UserRoot, Step, AccessFails, PublishFails, Finish,
         PublishError, DurableInv, Renaming, Returned
    <2>5. CASE UserRootConfirm
      BY <1>0, <2>5, SMTT(30), Z3T(30) DEF UserRootConfirm, Step, AccessFails, Same,
         PublishFails, Finish, PublishError, DurableInv, Renaming, Returned, histVars, fsVars
    <2> QED
      BY <1>4, <2>1, <2>2, <2>3, <2>4, <2>5 DEF CurrentUserAccess
  <1>5. CASE RenameToTarget
    <2>1. CASE FinalCheck
      BY <1>0, <2>1, SMTT(30), Z3T(30) DEF FinalCheck, Mark, Step, NeedsWritableRoot,
         PublishFails, Unmarked, Same, Finish, PublishError, DurableInv, Renaming, Returned,
         fsVars
    <2>2. CASE MakeRootWritable
      BY <1>0, <2>2, SMTT(30), Z3T(30) DEF MakeRootWritable, Step, PublishFails, Finish,
         PublishError, DurableInv, Renaming, Returned
    <2>3. CASE Rename
      BY <1>0, <2>3 DEF Rename, MoveName, RenameReturns, DurableInv, Renaming, Returned
    <2>4. CASE RenameSync
      <3>0. /\ pc = "renameSync" /\ pc' = "restore" /\ UNCHANGED <<names, quiet>>
            /\ \/ onDisk' = names
               \/ renamed' \in {renamed, "Renamed"}
        BY <2>4 DEF RenameSync, histVars
      <3>1. renamed = "ok" /\ moved # None /\ ("call" \in quiet => "final" \in quiet)
        BY <1>0, <3>0 DEF CallInv, DurableInv, Renaming
      <3>2. "final" \in quiet => names["target"] = Root
        BY <1>0, <3>0, <3>1 DEF CallInv
      <3> QED
        BY <3>0, <3>1, <3>2 DEF DurableInv, Returned, Renaming
    <2>5. CASE RestoreAndReturn
      <3>0. /\ pc = "restore" /\ pc' = "idle" /\ UNCHANGED <<names, onDisk, quiet>>
            /\ outcome' = PublishResult(renamed, TRUE) \/ outcome' = PublishResult(renamed, FALSE)
        BY <2>5 DEF RestoreAndReturn, Finish
      <3>1. renamed \in {"ok", "durable", "Renamed", "Unchanged", "Indeterminate"}
        BY <1>0, <3>0 DEF CallInv
      <3>2. CASE renamed \notin {"ok", "durable"}
        <4>1. ~outcome'.ok
          BY <3>0, <3>1, <3>2, SMTT(30), Z3T(30) DEF PublishResult, PublishError
        <4> QED
          BY <3>0, <4>1 DEF DurableInv, Renaming
      <3>3. CASE renamed = "ok"
        <4>1. \/ outcome' = PublishOutcome("ok" = "durable", synced, access)
              \/ \E a : outcome' = PublishError("Published", "Started", a, "none")
          BY <3>0, <3>3 DEF PublishResult
        <4>3. ("ok" = "durable") = FALSE
          OBVIOUS
        <4>4. \/ outcome' = PublishOutcome(FALSE, synced, access)
              \/ \E a : outcome' = PublishError("Published", "Started", a, "none")
          BY <4>1, <4>3, Zenon
        <4>2. ~(outcome'.ok /\ outcome'.durable)
          BY <4>4, SMTT(30), Z3T(30) DEF PublishError, PublishOutcome
        <4> QED
          BY <3>0, <4>2 DEF DurableInv, Renaming
      <3>4. CASE renamed = "durable"
        BY <1>0, <3>0, <3>4 DEF DurableInv, SettleInv, Renaming
      <3> QED
        BY <3>1, <3>2, <3>3, <3>4
    <2> QED
      BY <1>5, <2>1, <2>2, <2>3, <2>4, <2>5 DEF RenameToTarget
  <1>6. CASE \E p \in Paths, x \in Ids \cup {None} : OthersChangeEntry(p, x)
    BY <1>0, <1>6 DEF OthersChangeEntry, Disturb, DurableInv
  <1>7. CASE \E n \in {"stage", "target"}, x \in {Root, Alien, None} : OthersChangeName(n, x)
    BY <1>0, <1>7 DEF OthersChangeName, Disturb, DurableInv
  <1>8. CASE \E o \in Ids \cup {Root} : OthersChangeMode(o)
    BY <1>0, <1>8 DEF OthersChangeMode, Disturb, DurableInv
  <1>9. CASE \E o \in FileIds : OthersLink(o)
    BY <1>0, <1>9 DEF OthersLink, Disturb, DurableInv
  <1>10. CASE Crash
    BY <1>0, <1>10 DEF Crash, DurableInv, Renaming, Returned, fsVars, histVars
  <1> QED
    BY <1>1, <1>2, <1>3, <1>4, <1>5, <1>6, <1>7, <1>8, <1>9, <1>10 DEF Next, Owner, Others

\* A call that ends without success promises nothing about the files; what was
\* promised before it holds unless it changed an access.
LEMMA FailureKeepsFlushed ==
    ASSUME FlushInv, pc' \in {"idle", "down"}, UNCHANGED <<tree, quiet>>,
           pc' = "down" \/ outcome'.op # "publish" \/ ~outcome'.ok,
           changed' = {} => changed = {} /\ flushed \subseteq flushed'
    PROVE  FlushInv'
  <1>1. "intact" \in quiet' /\ changed' = {} => Flushed'
    BY DEF FlushInv, Flushed
  <1> QED
    BY <1>1 DEF Returned, FlushInv, Syncing, Ending, Renaming, Verified, Publishing, Early,
       Verifying, Pinning, Owning, Checking, UserSteps

\* The files that a call counts as synchronized are on disk as they are.
LEMMA FlushPreserved ==
    ASSUME WalkFacts, IInv, Next
    PROVE  FlushInv'
  <1>0. Typed /\ CallInv /\ WalkInv /\ SettleInv /\ FlushInv
    BY DEF IInv, BaseInv, SyncInv
  <1>k. UNCHANGED <<tree, flushed>> => (Flushed <=> Flushed')
    BY DEF Flushed
  <1>l. UNCHANGED todo => Left' = Left
    BY DEF Left
  <1>1. CASE Beginning
    <2>1. CASE CallPublish
      BY <1>0, <1>k, <2>1 DEF CallPublish, Same, FlushInv, Syncing, Ending, Verified, Returned,
         Renaming, Publishing, Verifying, Early, Pinning, Owning, Checking, UserSteps, fsVars
    <2>2. CASE RefuseOptions
      BY <1>0, <2>2, FailureKeepsFlushed DEF RefuseOptions, Same, fsVars, histVars, AccessFails,
         PublishFails, Finish, PublishError
    <2>3. CASE ObserveStage
      BY <1>0, <1>k, <2>3, SMTT(30), Z3T(30) DEF ObserveStage, Step, Mark, PublishFails,
         Unmarked, Same, Finish, PublishError, FlushInv, Syncing, Ending, Verified, Returned,
         Renaming, Publishing, Verifying, Early, Pinning, Owning, Checking, UserSteps, fsVars
    <2>4. CASE VerifyRoot
      BY <1>0, <1>k, <2>4, SMTT(30), Z3T(30) DEF VerifyRoot, Step, PublishFails, Same, Finish,
         PublishError, FlushInv, Syncing, Ending, Verified, Returned, Renaming, Publishing,
         Verifying, Early, Pinning, Owning, Checking, UserSteps, histVars, fsVars
    <2>5. CASE VerifyEntry
      BY <1>0, <1>k, <2>5, SMTT(30), Z3T(30) DEF VerifyEntry, Step, PublishFails, Same, Finish,
         PublishError, FlushInv, Syncing, Ending, Verified, Returned, Renaming, Publishing,
         Verifying, Early, Pinning, Owning, Checking, UserSteps, histVars, fsVars
    <2>6. CASE VerifyEnd
      BY <1>0, <1>k, <2>6, SMTT(30), Z3T(30) DEF VerifyEnd, PublishFails, Step, Same, Finish,
         PublishError, FlushInv, Syncing, Ending, Verified, Returned, Renaming, Publishing,
         Verifying, Early, Pinning, Owning, Checking, UserSteps, histVars, fsVars
    <2>7. CASE StartAccess
      <3>0. /\ pc = "access" /\ pc' \in {"collect", "synced", "files"} /\ Restart
            /\ UNCHANGED <<tree, flushed, changed, opts>>
            /\ quiet' \in {quiet, quiet \cup {"collect"}}
            /\ synced' = (opts.sync # "NotRequired") /\ (pc' = "synced" => opts.sync = "NotRequired")
        BY <2>7 DEF StartAccess, Step, Mark, Unmarked, Same, fsVars
      <3>1. \A p \in Paths : visited'[p] \notin FileIds
        BY <3>0, IdFacts DEF Restart, NoEntries
      <3>2. synced' <=> opts.sync # "NotRequired"
        BY <3>0
      <3> QED
        BY <1>0, <1>k, <3>0, <3>1, <3>2 DEF Returned, FlushInv, Syncing, Ending, Renaming,
           Verified, Publishing, Early, Verifying, Pinning, Owning, Checking, UserSteps
    <2>8. CASE FilesObserve
      <3>0. pc = "files" /\ Due # {} /\ todo = {} /\ UNCHANGED <<tree, flushed, quiet, changed, synced, opts>>
        BY <2>8 DEF FilesObserve, Same, fsVars, histVars, Step, FilesFail, PublishFails, Finish
      <3>1. CASE pc' = "idle" /\ (outcome'.op # "publish" \/ ~outcome'.ok)
        BY <1>0, <3>0, <3>1, FailureKeepsFlushed
      <3>2. CASE /\ pc' = "files" /\ Observe(NextEntry)
                 /\ todo' = IF KindOf(tree[NextEntry]) = "file" THEN {<<NextEntry, tree[NextEntry]>>} ELSE {}
        <4>1. /\ visited'[NextEntry] = tree[NextEntry]
              /\ \A p \in Paths : p # NextEntry => visited'[p] = visited[p]
          BY <1>0, <3>0, <3>2, NextIsDue DEF Typed, LocalsTyped, Entries, Observe
        <4>2. tree[NextEntry] \in FileIds => tree[NextEntry] \in Left'
          BY <3>2 DEF KindOf, Left
        <4>3. Left = {}
          BY <3>0 DEF Left
        <4>4. "call" \in quiet /\ (opts = None \/ synced) =>
                \A p \in Paths : visited'[p] \in FileIds => visited'[p] \in flushed \cup Left'
          BY <1>0, <3>0, <4>1, <4>2, <4>3 DEF FlushInv
        <4> QED
          BY <1>0, <1>k, <3>0, <3>2, <4>4 DEF Returned, FlushInv, Syncing, Ending, Renaming,
             Verified, Publishing, Early, Verifying, Pinning, Owning, Checking, UserSteps
      <3> QED
        BY <2>8, <3>1, <3>2, SMTT(30), Z3T(30) DEF FilesObserve, Step, FilesFail, PublishFails,
           Finish, PublishError, SyncOutcome
    <2>9. CASE FileSync
      <3>0. PICK e \in todo :
              /\ pc = "files" /\ UNCHANGED <<tree, quiet, changed, opts>>
              /\ \/ /\ pc' = "files" /\ todo' = {} /\ UNCHANGED <<visited, synced>> /\ flushed' = flushed \cup {e[2]}
                 \/ pc' = "files" /\ todo' = {} /\ synced' = FALSE /\ opts # None /\ UNCHANGED <<flushed, visited>>
                 \/ pc' = "idle" /\ UNCHANGED flushed /\ (outcome'.op # "publish" \/ ~outcome'.ok)
        BY <2>9, SMTT(30), Z3T(30) DEF FileSync, Step, FilesFail, PublishFails, Finish,
           PublishError, SyncOutcome, SyncRequired, histVars
      <3>1. CASE pc' = "idle" /\ UNCHANGED flushed /\ (outcome'.op # "publish" \/ ~outcome'.ok)
        BY <1>0, <3>0, <3>1, FailureKeepsFlushed
      <3>2. CASE /\ pc' = "files" /\ todo' = {} /\ UNCHANGED <<visited, synced>>
                 /\ flushed' = flushed \cup {e[2]}
        <4>1. Left = {e[2]} /\ Left' = {}
          BY <1>0, <3>0, <3>2 DEF WalkInv, Left
        <4>2. "intact" \in quiet /\ changed = {} => Flushed'
          BY <1>0, <3>0, <3>2 DEF FlushInv, Flushed
        <4> QED
          BY <1>0, <3>0, <3>2, <4>1, <4>2 DEF Returned, FlushInv, Syncing, Ending, Renaming,
             Verified, Publishing, Early, Verifying, Pinning, Owning, Checking, UserSteps
      <3>3. CASE pc' = "files" /\ todo' = {} /\ synced' = FALSE /\ opts # None /\ UNCHANGED <<flushed, visited>>
        BY <1>0, <1>k, <3>0, <3>3 DEF Returned, FlushInv, Syncing, Ending, Renaming, Verified,
           Publishing, Early, Verifying, Pinning, Owning, Checking, UserSteps
      <3> QED
        BY <3>0, <3>1, <3>2, <3>3
    <2>10. CASE FilesEnd
      <3>0. /\ pc = "files" /\ todo = {} /\ Due = {}
            /\ UNCHANGED <<tree, flushed, changed, synced, opts>>
            /\ quiet' \in {quiet \cup {"dirs"}, quiet \cup {"collect"}}
            /\ \/ opts = None /\ pc' = "dirs"
               \/ opts # None /\ pc' \in {"ownerCollect", "final"}
        BY <2>10 DEF FilesEnd, Step, Mark, Same, fsVars
      <3>1. "call" \in quiet /\ (opts = None \/ synced) => Flushed
        <4>1. "call" \in quiet => visited = tree
          BY <1>0, <3>0, WalkComplete DEF WalkInv
        <4>2. Left = {}
          BY <3>0 DEF Left
        <4> QED
          BY <1>0, <3>0, <4>1, <4>2 DEF FlushInv, Flushed
      <3> QED
        BY <1>0, <1>k, <3>0, <3>1 DEF Returned, FlushInv, Syncing, Ending, Renaming, Verified,
           Publishing, Early, Verifying, Pinning, Owning, Checking, UserSteps
    <2>11. CASE SkipFiles
      BY <1>0, <1>k, <2>11 DEF SkipFiles, Step, Mark, Same, FlushInv, Syncing, Ending, Verified,
         Returned, Renaming, Publishing, Verifying, Early, Pinning, Owning, Checking, UserSteps,
         fsVars
    <2> QED
      BY <1>1, <2>1, <2>2, <2>3, <2>4, <2>5, <2>6, <2>7, <2>8, <2>9, <2>10, <2>11 DEF Beginning
  <1>2. CASE TreeSync
    <2>1. CASE CallSyncTree
      <3>0. /\ Restart /\ quiet' = {"call"} /\ opts' = None
            /\ pc' = "files" \/ (pc' = "idle" /\ outcome'.op = "sync")
        BY <2>1, SMTT(30), Z3T(30) DEF CallSyncTree, SyncOutcome
      <3>1. \A p \in Paths : visited'[p] \notin FileIds
        BY <3>0, IdFacts DEF Restart, NoEntries
      <3> QED
        BY <3>0, <3>1 DEF Returned, FlushInv, Syncing, Ending, Renaming, Verified, Publishing,
           Early, Verifying, Pinning, Owning, Checking, UserSteps
    <2>2. CASE CollectDirectories
      BY <1>0, <1>k, <2>2, SMTT(30), Z3T(30) DEF CollectDirectories, Step, SyncOutcome, Same,
         FlushInv, Syncing, Ending, Verified, Returned, Renaming, Publishing, Verifying, Early,
         Pinning, Owning, Checking, UserSteps, histVars, fsVars
    <2>3. CASE DirectorySync
      BY <1>0, <1>k, <2>3, SMTT(30), Z3T(30) DEF DirectorySync, Step, Finish, SyncOutcome,
         FlushInv, Syncing, Ending, Verified, Returned, Renaming, Publishing, Verifying, Early,
         Pinning, Owning, Checking, UserSteps, histVars
    <2>4. CASE RootSync
      BY <1>0, <1>k, <2>4, SMTT(30), Z3T(30) DEF RootSync, Step, Finish, SyncOutcome, FlushInv,
         Syncing, Ending, Verified, Returned, Renaming, Publishing, Verifying, Early, Pinning,
         Owning, Checking, UserSteps, histVars
    <2>5. CASE ParentSync
      BY <1>0, <1>k, <2>5, SMTT(30), Z3T(30) DEF ParentSync, Finish, SyncOutcome, Unmarked,
         FlushInv, Syncing, Ending, Verified, Returned, Renaming, Publishing, Verifying, Early,
         Pinning, Owning, Checking, UserSteps
    <2> QED
      BY <1>2, <2>1, <2>2, <2>3, <2>4, <2>5 DEF TreeSync
  <1>3. CASE OwnerAccess
    <2>1. CASE OwnerCollect
      BY <1>0, <1>k, <2>1, SMTT(30), Z3T(30) DEF OwnerCollect, Step, AccessFails, Same,
         PublishFails, Finish, PublishError, FlushInv, Syncing, Ending, Verified, Returned,
         Renaming, Publishing, Verifying, Early, Pinning, Owning, Checking, UserSteps, histVars,
         fsVars
    <2>2. CASE OwnerCollected
      BY <1>0, <1>k, <2>2, SMTT(30), Z3T(30) DEF OwnerCollected, AccessFails, Step, Same,
         PublishFails, Finish, PublishError, FlushInv, Syncing, Ending, Verified, Returned,
         Renaming, Publishing, Verifying, Early, Pinning, Owning, Checking, UserSteps, histVars,
         fsVars
    <2>3. CASE OwnerPin
      BY <1>0, <1>k, <2>3, SMTT(30), Z3T(30) DEF OwnerPin, Step, AccessFails, Same, PublishFails,
         Finish, PublishError, FlushInv, Syncing, Ending, Verified, Returned, Renaming,
         Publishing, Verifying, Early, Pinning, Owning, Checking, UserSteps, histVars, fsVars
    <2>4. CASE OwnerPinned
      BY <1>0, <1>k, <2>4, SMTT(30), Z3T(30) DEF OwnerPinned, Step, AccessFails, Same,
         PublishFails, Finish, PublishError, FlushInv, Syncing, Ending, Verified, Returned,
         Renaming, Publishing, Verifying, Early, Pinning, Owning, Checking, UserSteps, histVars,
         fsVars
    <2>5. CASE OwnerApply
      <3>0. /\ pc = "ownerApply" /\ UNCHANGED <<tree, quiet, opts, synced>>
            /\ \/ pc' = "ownerRebind" /\ changed' # {}
               \/ pc' = "idle" /\ ~outcome'.ok /\ (changed' = {} => changed = {} /\ flushed' = flushed)
        BY <2>5, SMTT(30), Z3T(30) DEF OwnerApply, Step, SetMode, MaybeSetMode, AccessFails,
           PublishFails, Finish, PublishError
      <3>1. CASE pc' = "idle" /\ ~outcome'.ok /\ (changed' = {} => changed = {} /\ flushed' = flushed)
        BY <1>0, <3>0, <3>1, FailureKeepsFlushed
      <3>2. CASE pc' = "ownerRebind" /\ changed' # {}
        BY <1>0, <3>0, <3>2 DEF Returned, FlushInv, Syncing, Ending, Renaming, Verified,
           Publishing, Early, Verifying, Pinning, Owning, Checking, UserSteps
      <3> QED
        BY <3>0, <3>1, <3>2
    <2>6. CASE OwnerRebind
      BY <1>0, <1>k, <2>6, SMTT(30), Z3T(30) DEF OwnerRebind, Step, AccessFails, Same,
         PublishFails, Finish, PublishError, FlushInv, Syncing, Ending, Verified, Returned,
         Renaming, Publishing, Verifying, Early, Pinning, Owning, Checking, UserSteps, histVars,
         fsVars
    <2>7. CASE OwnerRootCheck
      BY <1>0, <1>k, <2>7, SMTT(30), Z3T(30) DEF OwnerRootCheck, Step, AccessFails, Same,
         PublishFails, Finish, PublishError, FlushInv, Syncing, Ending, Verified, Returned,
         Renaming, Publishing, Verifying, Early, Pinning, Owning, Checking, UserSteps, histVars,
         fsVars
    <2>8. CASE OwnerRootApply
      <3>0. /\ pc = "ownerRoot" /\ UNCHANGED <<tree, quiet, opts, synced>>
            /\ \/ pc' = "ownerRootRebind" /\ changed' # {}
               \/ pc' = "idle" /\ ~outcome'.ok /\ (changed' = {} => changed = {} /\ flushed' = flushed)
        BY <2>8, SMTT(30), Z3T(30) DEF OwnerRootApply, Step, SetMode, MaybeSetMode, AccessFails,
           PublishFails, Finish, PublishError
      <3>1. CASE pc' = "idle" /\ ~outcome'.ok /\ (changed' = {} => changed = {} /\ flushed' = flushed)
        BY <1>0, <3>0, <3>1, FailureKeepsFlushed
      <3>2. CASE pc' = "ownerRootRebind" /\ changed' # {}
        BY <1>0, <3>0, <3>2 DEF Returned, FlushInv, Syncing, Ending, Renaming, Verified,
           Publishing, Early, Verifying, Pinning, Owning, Checking, UserSteps
      <3> QED
        BY <3>0, <3>1, <3>2
    <2>9. CASE OwnerRootRebind
      BY <1>0, <1>k, <2>9, SMTT(30), Z3T(30) DEF OwnerRootRebind, Step, Mark, AccessFails,
         Unmarked, Same, PublishFails, Finish, PublishError, FlushInv, Syncing, Ending, Verified,
         Returned, Renaming, Publishing, Verifying, Early, Pinning, Owning, Checking, UserSteps,
         fsVars
    <2>10. CASE OwnerVerify
      BY <1>0, <1>k, <2>10, SMTT(30), Z3T(30) DEF OwnerVerify, Step, AccessFails, Same,
         PublishFails, Finish, PublishError, FlushInv, Syncing, Ending, Verified, Returned,
         Renaming, Publishing, Verifying, Early, Pinning, Owning, Checking, UserSteps, histVars,
         fsVars
    <2>11. CASE OwnerVerified
      BY <1>0, <1>k, <2>11, SMTT(30), Z3T(30) DEF OwnerVerified, AccessFails, Step, Same,
         PublishFails, Finish, PublishError, FlushInv, Syncing, Ending, Verified, Returned,
         Renaming, Publishing, Verifying, Early, Pinning, Owning, Checking, UserSteps, histVars,
         fsVars
    <2>12. CASE OwnerRecheck
      BY <1>0, <1>k, <2>12, SMTT(30), Z3T(30) DEF OwnerRecheck, Step, AccessFails, Same,
         PublishFails, Finish, PublishError, FlushInv, Syncing, Ending, Verified, Returned,
         Renaming, Publishing, Verifying, Early, Pinning, Owning, Checking, UserSteps, histVars,
         fsVars
    <2>13. CASE OwnerRootRecheck
      <3>0. /\ pc = "ownerRecheck" /\ UNCHANGED <<tree, flushed, quiet, changed, synced, opts>>
            /\ \/ pc' = "ownerSync" /\ todo' = Found
               \/ pc' = "idle" /\ ~outcome'.ok
        BY <2>13, SMTT(30), Z3T(30) DEF OwnerRootRecheck, Step, Same, fsVars, histVars,
           AccessFails, PublishFails, Finish, PublishError
      <3>1. CASE pc' = "idle" /\ ~outcome'.ok
        BY <1>0, <3>0, <3>1, FailureKeepsFlushed
      <3>2. CASE pc' = "ownerSync" /\ todo' = Found
        <4>1. ASSUME "call" \in quiet, NEW p \in Paths, tree[p] \in FileIds
              PROVE  tree[p] \in Left'
          <5>1. "recheck" \in quiet /\ "collect" \in quiet
            BY <1>0, <3>0, <4>1 DEF WalkInv, Checking
          <5>2. visited = tree
            BY <1>0, <3>0, <4>1, <5>1, IdFacts DEF WalkInv, Checking, Vacant
          <5>3. <<p, tree[p]>> \in todo'
            BY <1>0, <3>2, <4>1, <5>2, FoundFacts, IdFacts
          <5> QED
            BY <5>3, SMTT(30), Z3T(30) DEF Left
        <4> QED
          BY <1>0, <1>k, <3>0, <3>2, <4>1 DEF Returned, FlushInv, Syncing, Ending, Renaming,
             Verified, Publishing, Early, Verifying, Pinning, Owning, Checking, UserSteps
      <3> QED
        BY <3>0, <3>1, <3>2
    <2>14. CASE OwnerSync
      <3>0. PICK e \in todo :
              /\ pc = "ownerSync" /\ UNCHANGED <<tree, quiet, changed, opts>>
              /\ \/ /\ pc' = "ownerSync" /\ todo' = todo \ {e} /\ synced' = synced /\ flushed \subseteq flushed'
                    /\ e[2] \in FileIds /\ opts.sync # "NotRequired" => e[2] \in flushed'
                 \/ pc' = "ownerSync" /\ todo' = todo \ {e} /\ synced' = FALSE /\ flushed' = flushed
                 \/ pc' = "idle" /\ ~outcome'.ok /\ flushed' = flushed
        BY <2>14, SMTT(30), Z3T(30) DEF OwnerSync, Step, histVars, KindOf, AccessFails,
           PublishFails, Finish, PublishError
      <3>1. CASE pc' = "idle" /\ ~outcome'.ok /\ flushed' = flushed
        BY <1>0, <3>0, <3>1, FailureKeepsFlushed
      <3>2. CASE pc' = "ownerSync" /\ todo' = todo \ {e} /\ synced' = FALSE /\ flushed' = flushed
        BY <1>0, <1>k, <3>0, <3>2 DEF Returned, FlushInv, Syncing, Ending, Renaming, Verified,
           Publishing, Early, Verifying, Pinning, Owning, Checking, UserSteps
      <3>3. CASE /\ pc' = "ownerSync" /\ todo' = todo \ {e} /\ synced' = synced
                 /\ flushed \subseteq flushed'
                 /\ e[2] \in FileIds /\ opts.sync # "NotRequired" => e[2] \in flushed'
        <4>1. \A o \in Left : o = e[2] \/ o \in Left'
          BY <3>3 DEF Left
        <4>2. synced => opts.sync # "NotRequired"
          BY <1>0, <3>0, IdFacts DEF CallInv, FlushInv, Verified, Verifying, Publishing
        <4>3. "call" \in quiet /\ synced =>
                \A p \in Paths : tree[p] \in FileIds => tree[p] \in flushed' \cup Left'
          BY <1>0, <3>0, <3>3, <4>1, <4>2 DEF FlushInv
        <4>4. "intact" \in quiet /\ changed = {} => Flushed'
          BY <1>0, <3>0, <3>3 DEF FlushInv, Flushed
        <4> QED
          BY <3>0, <3>3, <4>2, <4>3, <4>4 DEF Returned, FlushInv, Syncing, Ending, Renaming,
             Verified, Publishing, Early, Verifying, Pinning, Owning, Checking, UserSteps
      <3> QED
        BY <3>0, <3>1, <3>2, <3>3
    <2>15. CASE OwnerDone
      <3>0. /\ pc = "ownerSync" /\ pc' = "final" /\ todo = {}
            /\ UNCHANGED <<tree, flushed, quiet, changed, synced, opts>>
        BY <2>15 DEF OwnerDone, Step, Same, fsVars, histVars
      <3>1. "call" \in quiet /\ synced => Flushed
        BY <1>0, <3>0 DEF FlushInv, Flushed, Left
      <3> QED
        BY <1>0, <1>k, <3>0, <3>1 DEF Returned, FlushInv, Syncing, Ending, Renaming, Verified,
           Publishing, Early, Verifying, Pinning, Owning, Checking, UserSteps
    <2> QED
      BY <1>3, <2>1, <2>2, <2>3, <2>4, <2>5, <2>6, <2>7, <2>8, <2>9, <2>10, <2>11, <2>12, <2>13,
         <2>14, <2>15 DEF OwnerAccess
  <1>4. CASE CurrentUserAccess
    <2>1. CASE UserCollect
      <3>0. /\ pc = "collect" /\ UNCHANGED <<tree, flushed, quiet, changed, synced, opts>>
            /\ \/ pc' = "collect"
               \/ pc' = "userApply" /\ todo' = Found /\ Due = {}
               \/ pc' = "idle" /\ ~outcome'.ok
        BY <2>1, SMTT(30), Z3T(30) DEF UserCollect, Step, Same, fsVars, histVars, AccessFails,
           PublishFails, Finish, PublishError
      <3>1. CASE pc' = "idle" /\ ~outcome'.ok
        BY <1>0, <3>0, <3>1, FailureKeepsFlushed
      <3>2. CASE pc' = "collect"
        BY <1>0, <1>k, <3>0, <3>2 DEF Returned, FlushInv, Syncing, Ending, Renaming, Verified,
           Publishing, Early, Verifying, Pinning, Owning, Checking, UserSteps
      <3>3. CASE pc' = "userApply" /\ todo' = Found /\ Due = {}
        <4>1. ASSUME "call" \in quiet, NEW p \in Paths, tree[p] \in FileIds
              PROVE  tree[p] \in Left'
          <5>1. "collect" \in quiet
            BY <1>0, <3>0, <4>1 DEF WalkInv, UserSteps
          <5>2. visited = tree
            BY <1>0, <3>0, <3>3, <5>1, WalkComplete DEF WalkInv
          <5>3. <<p, tree[p]>> \in todo'
            BY <1>0, <3>3, <4>1, <5>2, FoundFacts, IdFacts
          <5> QED
            BY <5>3, SMTT(30), Z3T(30) DEF Left
        <4> QED
          BY <1>0, <1>k, <3>0, <3>3, <4>1 DEF Returned, FlushInv, Syncing, Ending, Renaming,
             Verified, Publishing, Early, Verifying, Pinning, Owning, Checking, UserSteps
      <3> QED
        BY <3>0, <3>1, <3>2, <3>3
    <2>2. CASE UserApply
      <3>0. PICK e \in todo :
              /\ pc = "userApply" /\ UNCHANGED <<tree, quiet, opts, synced>>
              /\ \/ /\ pc' = "userApply" /\ todo' = todo \ {e} /\ e[2] \notin FileIds
                    /\ UNCHANGED <<flushed, changed>>
                 \/ pc' = "userConfirm" /\ UNCHANGED todo /\ flushed' = flushed \ {e[2]} /\ changed' # {}
                 \/ pc' = "idle" /\ ~outcome'.ok /\ (changed' = {} => changed = {} /\ flushed' = flushed)
        BY <2>2, SMTT(30), Z3T(30) DEF UserApply, Step, SetMode, MaybeSetMode, KindOf,
           AccessFails, PublishFails, Finish, PublishError
      <3>1. CASE pc' = "idle" /\ ~outcome'.ok /\ (changed' = {} => changed = {} /\ flushed' = flushed)
        BY <1>0, <3>0, <3>1, FailureKeepsFlushed
      <3>2. CASE pc' = "userApply" /\ todo' = todo \ {e} /\ e[2] \notin FileIds /\ UNCHANGED <<flushed, changed>>
        <4>1. \A o \in Left : o = e[2] \/ o \in Left'
          BY <3>2 DEF Left
        <4> QED
          BY <1>0, <1>k, <3>0, <3>2, <4>1 DEF Returned, FlushInv, Syncing, Ending, Renaming,
             Verified, Publishing, Early, Verifying, Pinning, Owning, Checking, UserSteps
      <3>3. CASE pc' = "userConfirm" /\ UNCHANGED todo /\ flushed' = flushed \ {e[2]} /\ changed' # {}
        <4>1. Left' = Left /\ e[2] \in Left
          BY <3>3 DEF Left
        <4> QED
          BY <1>0, <3>0, <3>3, <4>1 DEF Returned, FlushInv, Syncing, Ending, Renaming, Verified,
             Publishing, Early, Verifying, Pinning, Owning, Checking, UserSteps
      <3> QED
        BY <3>0, <3>1, <3>2, <3>3
    <2>3. CASE UserConfirm
      <3>0. PICK e \in todo :
              /\ pc = "userConfirm" /\ UNCHANGED <<tree, quiet, opts, changed>>
              /\ \/ /\ pc' = "userApply" /\ todo' = todo \ {e} /\ synced' = synced /\ flushed \subseteq flushed'
                    /\ e[2] \in FileIds /\ opts.sync # "NotRequired" => e[2] \in flushed'
                 \/ pc' = "userApply" /\ todo' = todo \ {e} /\ synced' = FALSE /\ flushed' = flushed
                 \/ pc' = "idle" /\ ~outcome'.ok /\ flushed' = flushed
        BY <2>3, SMTT(30), Z3T(30) DEF UserConfirm, Step, histVars, KindOf, AccessFails,
           PublishFails, Finish, PublishError
      <3>1. CASE pc' = "idle" /\ ~outcome'.ok /\ flushed' = flushed
        BY <1>0, <3>0, <3>1, FailureKeepsFlushed
      <3>2. CASE pc' = "userApply" /\ todo' = todo \ {e} /\ synced' = FALSE /\ flushed' = flushed
        BY <1>0, <1>k, <3>0, <3>2 DEF Returned, FlushInv, Syncing, Ending, Renaming, Verified,
           Publishing, Early, Verifying, Pinning, Owning, Checking, UserSteps
      <3>3. CASE /\ pc' = "userApply" /\ todo' = todo \ {e} /\ synced' = synced
                 /\ flushed \subseteq flushed'
                 /\ e[2] \in FileIds /\ opts.sync # "NotRequired" => e[2] \in flushed'
        <4>1. \A o \in Left : o = e[2] \/ o \in Left'
          BY <3>3 DEF Left
        <4>2. synced => opts.sync # "NotRequired"
          BY <1>0, <3>0, IdFacts DEF CallInv, FlushInv, Verified, Verifying, Publishing, UserSteps
        <4>3. "call" \in quiet /\ synced =>
                \A p \in Paths : tree[p] \in FileIds => tree[p] \in flushed' \cup Left'
          BY <1>0, <3>0, <3>3, <4>1, <4>2 DEF FlushInv
        <4>4. "intact" \in quiet /\ changed = {} => Flushed'
          BY <1>0, <3>0, <3>3 DEF FlushInv, Flushed
        <4> QED
          BY <3>0, <3>3, <4>2, <4>3, <4>4 DEF Returned, FlushInv, Syncing, Ending, Renaming,
             Verified, Publishing, Early, Verifying, Pinning, Owning, Checking, UserSteps
      <3> QED
        BY <3>0, <3>1, <3>2, <3>3
    <2>4. CASE UserRoot
      <3>0. /\ pc = "userApply" /\ todo = {} /\ UNCHANGED <<tree, quiet, opts, synced>>
            /\ \/ pc' = "userRootConfirm" /\ flushed' = flushed \ {Root} /\ changed' # {}
               \/ pc' = "idle" /\ ~outcome'.ok /\ (changed' = {} => changed = {} /\ flushed' = flushed)
        BY <2>4, SMTT(30), Z3T(30) DEF UserRoot, Step, SetMode, MaybeSetMode, AccessFails,
           PublishFails, Finish, PublishError
      <3>1. CASE pc' = "idle" /\ ~outcome'.ok /\ (changed' = {} => changed = {} /\ flushed' = flushed)
        BY <1>0, <3>0, <3>1, FailureKeepsFlushed
      <3>2. CASE pc' = "userRootConfirm" /\ flushed' = flushed \ {Root} /\ changed' # {}
        <4>1. "call" \in quiet /\ synced => Flushed'
          BY <1>0, <3>0, <3>2, IdFacts DEF FlushInv, Flushed, Left
        <4> QED
          BY <1>0, <3>0, <3>2, <4>1 DEF Returned, FlushInv, Syncing, Ending, Renaming, Verified,
             Publishing, Early, Verifying, Pinning, Owning, Checking, UserSteps
      <3> QED
        BY <3>0, <3>1, <3>2
    <2>5. CASE UserRootConfirm
      BY <1>0, <1>k, <2>5, SMTT(30), Z3T(30) DEF UserRootConfirm, Step, AccessFails, Same,
         PublishFails, Finish, PublishError, FlushInv, Syncing, Ending, Verified, Returned,
         Renaming, Publishing, Verifying, Early, Pinning, Owning, Checking, UserSteps, histVars,
         fsVars
    <2> QED
      BY <1>4, <2>1, <2>2, <2>3, <2>4, <2>5 DEF CurrentUserAccess
  <1>5. CASE RenameToTarget
    <2>1. CASE FinalCheck
      BY <1>0, <1>k, <2>1, SMTT(30), Z3T(30) DEF FinalCheck, Mark, Step, NeedsWritableRoot,
         PublishFails, Unmarked, Same, Finish, PublishError, FlushInv, Syncing, Ending, Verified,
         Returned, Renaming, Publishing, Verifying, Early, Pinning, Owning, Checking, UserSteps,
         fsVars
    <2>2. CASE MakeRootWritable
      <3>0. /\ pc = "writable" /\ UNCHANGED <<tree, quiet, opts, synced>>
            /\ \/ pc' = "rename" /\ flushed' = flushed \ {Root} /\ changed' # {}
               \/ pc' = "idle" /\ ~outcome'.ok /\ (changed' = {} => changed = {} /\ flushed' = flushed)
        BY <2>2, SMTT(30), Z3T(30) DEF MakeRootWritable, Step, SetMode, MaybeSetMode,
           AccessFails, PublishFails, Finish, PublishError
      <3>1. CASE pc' = "idle" /\ ~outcome'.ok /\ (changed' = {} => changed = {} /\ flushed' = flushed)
        BY <1>0, <3>0, <3>1, FailureKeepsFlushed
      <3>2. CASE pc' = "rename" /\ flushed' = flushed \ {Root} /\ changed' # {}
        <4>1. Flushed => Flushed'
          BY <3>0, <3>2, IdFacts DEF Flushed
        <4> QED
          BY <1>0, <3>0, <3>2, <4>1 DEF Returned, FlushInv, Syncing, Ending, Renaming, Verified,
             Publishing, Early, Verifying, Pinning, Owning, Checking, UserSteps
      <3> QED
        BY <3>0, <3>1, <3>2
    <2>3. CASE Rename
      BY <1>0, <1>k, <2>3 DEF Rename, RenameReturns, FlushInv, Syncing, Ending, Verified,
         Returned, Renaming, Publishing, Verifying, Early, Pinning, Owning, Checking, UserSteps
    <2>4. CASE RenameSync
      BY <1>0, <1>k, <2>4 DEF RenameSync, FlushInv, Syncing, Ending, Verified, Returned,
         Renaming, Publishing, Verifying, Early, Pinning, Owning, Checking, UserSteps, histVars
    <2>5. CASE RestoreAndReturn
      <3>0. /\ pc = "restore" /\ pc' = "idle" /\ UNCHANGED <<tree, quiet>>
            /\ outcome' = PublishResult(renamed, TRUE) \/ outcome' = PublishResult(renamed, FALSE)
            /\ \/ UNCHANGED <<flushed, changed>>
               \/ flushed' = flushed \ {Root} /\ changed' # {}
        BY <2>5 DEF RestoreAndReturn, Finish, SetMode, MaybeSetMode
      <3>1. renamed \in {"ok", "durable", "Renamed", "Unchanged", "Indeterminate"}
        BY <1>0, <3>0 DEF CallInv
      <3>2. outcome'.ok /\ outcome'.synced => synced
        BY <3>0, <3>1, SMTT(30), Z3T(30) DEF PublishResult, PublishError, PublishOutcome
      <3>3. Flushed => Flushed'
        BY <3>0, IdFacts DEF Flushed
      <3>4. /\ "call" \in quiet /\ synced => Flushed
            /\ "treeSynced" \in quiet => "call" \in quiet
            /\ "intact" \in quiet /\ changed = {} => Flushed
        BY <1>0, <3>0 DEF FlushInv, SettleInv, Ending, Renaming
      <3> QED
        BY <3>0, <3>2, <3>3, <3>4 DEF Returned, FlushInv, Syncing, Ending, Renaming, Verified,
           Publishing, Early, Verifying, Pinning, Owning, Checking, UserSteps
    <2> QED
      BY <1>5, <2>1, <2>2, <2>3, <2>4, <2>5 DEF RenameToTarget
  <1>6. CASE \E p \in Paths, x \in Ids \cup {None} : OthersChangeEntry(p, x)
    BY <1>0, <1>6, SMTT(30), Z3T(30) DEF OthersChangeEntry, Disturb, callVars, Returned,
       FlushInv, Syncing, Ending, Renaming, Verified, Publishing, Early, Verifying, Pinning,
       Owning, Checking, UserSteps
  <1>7. CASE \E n \in {"stage", "target"}, x \in {Root, Alien, None} : OthersChangeName(n, x)
    BY <1>0, <1>7, SMTT(30), Z3T(30) DEF OthersChangeName, Disturb, callVars, Returned, FlushInv,
       Syncing, Ending, Renaming, Verified, Publishing, Early, Verifying, Pinning, Owning,
       Checking, UserSteps
  <1>8. CASE \E o \in Ids \cup {Root} : OthersChangeMode(o)
    BY <1>0, <1>8, SMTT(30), Z3T(30) DEF OthersChangeMode, Disturb, callVars, Returned, FlushInv,
       Syncing, Ending, Renaming, Verified, Publishing, Early, Verifying, Pinning, Owning,
       Checking, UserSteps
  <1>9. CASE \E o \in FileIds : OthersLink(o)
    BY <1>0, <1>9, SMTT(30), Z3T(30) DEF OthersLink, Disturb, callVars, Returned, FlushInv,
       Syncing, Ending, Renaming, Verified, Publishing, Early, Verifying, Pinning, Owning,
       Checking, UserSteps
  <1>10. CASE Crash
    BY <1>0, <1>10, FailureKeepsFlushed DEF Crash, fsVars, histVars
  <1> QED
    BY <1>1, <1>2, <1>3, <1>4, <1>5, <1>6, <1>7, <1>8, <1>9, <1>10 DEF Next, Owner, Others

\* Before a crash there is nothing to survive; a crash spares what is on disk.
LEMMA CrashPreserved ==
    ASSUME IInv, Next
    PROVE  CrashInv'
  <1>0. Typed /\ CallInv /\ SyncInv /\ CrashInv
    BY DEF IInv, BaseInv, SyncInv
  <1>c. crash' = None => SyncedTreeSurvivesCrash'
    BY DEF SyncedTreeSurvivesCrash
  <1>1. CASE Beginning
    <2>1. CASE CallPublish \/ RefuseOptions \/ ObserveStage \/ VerifyRoot
      BY <1>0, <1>c, <2>1 DEF CallPublish, RefuseOptions, ObserveStage, VerifyRoot, CrashInv,
         PublishFails, Finish, Step
    <2>2. CASE VerifyEntry \/ VerifyEnd \/ StartAccess \/ FilesObserve
      BY <1>0, <1>c, <2>2 DEF VerifyEntry, VerifyEnd, StartAccess, FilesObserve, Step,
         PublishFails, Finish, CrashInv, FilesFail
    <2>3. CASE FileSync \/ FilesEnd \/ SkipFiles
      BY <1>0, <1>c, <2>3 DEF FileSync, FilesEnd, SkipFiles, Step, FilesFail, Finish,
         PublishFails, CrashInv
    <2> QED
      BY <1>1, <2>1, <2>2, <2>3 DEF Beginning
  <1>2. CASE TreeSync
    <2>1. CASE CallSyncTree \/ CollectDirectories \/ DirectorySync \/ RootSync
      BY <1>0, <1>c, <2>1 DEF CallSyncTree, CollectDirectories, DirectorySync, RootSync,
         CrashInv, Step, Finish
    <2>2. CASE ParentSync
      BY <1>0, <1>c, <2>2 DEF ParentSync, Finish, CrashInv
    <2> QED
      BY <1>2, <2>1, <2>2 DEF TreeSync
  <1>3. CASE OwnerAccess
    <2>1. CASE OwnerCollect \/ OwnerCollected \/ OwnerPin \/ OwnerPinned
      BY <1>0, <1>c, <2>1 DEF OwnerCollect, OwnerCollected, OwnerPin, OwnerPinned, Step,
         AccessFails, PublishFails, Finish, CrashInv
    <2>2. CASE OwnerApply \/ OwnerRebind \/ OwnerRootCheck \/ OwnerRootApply
      BY <1>0, <1>c, <2>2 DEF OwnerApply, OwnerRebind, OwnerRootCheck, OwnerRootApply, Step,
         AccessFails, PublishFails, Finish, CrashInv
    <2>3. CASE OwnerRootRebind \/ OwnerVerify \/ OwnerVerified \/ OwnerRecheck
      BY <1>0, <1>c, <2>3 DEF OwnerRootRebind, OwnerVerify, OwnerVerified, OwnerRecheck, Step,
         AccessFails, PublishFails, Finish, CrashInv
    <2>4. CASE OwnerRootRecheck \/ OwnerSync \/ OwnerDone
      BY <1>0, <1>c, <2>4 DEF OwnerRootRecheck, OwnerSync, OwnerDone, Step, AccessFails,
         PublishFails, Finish, CrashInv
    <2> QED
      BY <1>3, <2>1, <2>2, <2>3, <2>4 DEF OwnerAccess
  <1>4. CASE CurrentUserAccess
    <2>1. CASE UserCollect \/ UserApply \/ UserConfirm \/ UserRoot
      BY <1>0, <1>c, <2>1 DEF UserCollect, UserApply, UserConfirm, UserRoot, Step, AccessFails,
         PublishFails, Finish, CrashInv
    <2>2. CASE UserRootConfirm
      BY <1>0, <1>c, <2>2 DEF UserRootConfirm, Step, AccessFails, PublishFails, Finish, CrashInv
    <2> QED
      BY <1>4, <2>1, <2>2 DEF CurrentUserAccess
  <1>5. CASE RenameToTarget
    <2>1. CASE FinalCheck \/ MakeRootWritable \/ Rename \/ RenameSync
      BY <1>0, <1>c, <2>1 DEF FinalCheck, MakeRootWritable, Rename, RenameSync, Step,
         PublishFails, Finish, CrashInv, RenameReturns
    <2>2. CASE RestoreAndReturn
      BY <1>0, <1>c, <2>2 DEF RestoreAndReturn, Finish, CrashInv
    <2> QED
      BY <1>5, <2>1, <2>2 DEF RenameToTarget
  <1>6. CASE \E p \in Paths, x \in Ids \cup {None} : OthersChangeEntry(p, x)
    BY <1>0, <1>c, <1>6 DEF OthersChangeEntry, Disturb, CrashInv, callVars
  <1>7. CASE \E n \in {"stage", "target"}, x \in {Root, Alien, None} : OthersChangeName(n, x)
    BY <1>0, <1>c, <1>7 DEF OthersChangeName, Disturb, CrashInv, callVars
  <1>8. CASE \E o \in Ids \cup {Root} : OthersChangeMode(o)
    BY <1>0, <1>c, <1>8 DEF OthersChangeMode, Disturb, CrashInv, callVars
  <1>9. CASE \E o \in FileIds : OthersLink(o)
    BY <1>0, <1>c, <1>9 DEF OthersLink, Disturb, CrashInv, callVars
  <1>10. CASE Crash
    <2>0. PICK n \in {names, onDisk}, lost \in {{}, AtRisk}, torn \in {{}, Unflushed} :
            crash' = [names |-> n, lost |-> lost, torn |-> torn]
      BY <1>10 DEF Crash
    <2>1. pc # "down" /\ pc' = "down" /\ UNCHANGED <<outcome, quiet, names, onDisk>>
      BY <1>10 DEF Crash, fsVars, histVars
    <2>3. ASSUME outcome.op = "publish", outcome.ok, outcome.durable, "treeSynced" \in quiet,
                 outcome.synced \/ (outcome.access = "Preserved" /\ "intact" \in quiet)
          PROVE  n["target"] = Root /\ AtRisk = {} /\ Unflushed = {}
      <3>1. Returned
        BY <1>0, <2>1, <2>3, SMTT(30), Z3T(30) DEF CallInv, CrashInv, NoOutcome, Returned
      <3>2. names["target"] = Root /\ onDisk["target"] = Root
        BY <1>0, <2>3, <3>1 DEF SyncInv, DurableInv
      <3>3. Settled
        BY <1>0, <2>3 DEF SyncInv, SettleInv
      <3>4. Flushed
        BY <1>0, <2>3, <3>1 DEF SyncInv, FlushInv, CallInv
      <3>5. AtRisk = {}
        <4> SUFFICES ASSUME NEW p \in Paths, tree[p] # None, Holder(p) \notin settled PROVE FALSE
          BY DEF AtRisk
        <4>1. Len(p) \in Nat /\ Len(p) > 0 /\ (Len(p) > 1 => ParentOf(p) \in Paths)
          BY PathFacts
        <4>2. Len(p) > 1 => tree[ParentOf(p)] \in DirIds
          BY <1>0 DEF Typed, FsTyped, IsTree
        <4>3. CASE Len(p) = 1
          BY <3>3, <4>3 DEF Settled, Holder
        <4>4. CASE Len(p) > 1
          BY <3>3, <4>1, <4>2, <4>4 DEF Settled, Holder
        <4>5. Len(p) = 1 \/ Len(p) > 1
          BY <4>1, SMTT(30), Z3T(30)
        <4> QED
          BY <4>3, <4>4, <4>5
      <3>6. Unflushed = {}
        BY <3>4 DEF Flushed, Unflushed
      <3> QED
        BY <3>2, <3>5, <3>6
    <2> QED
      BY <2>0, <2>1, <2>3 DEF CrashInv, SyncedTreeSurvivesCrash
  <1> QED
    BY <1>1, <1>2, <1>3, <1>4, <1>5, <1>6, <1>7, <1>8, <1>9, <1>10 DEF Next, Owner, Others

\* What was verified stays so while the entries, their outside names and the
\* options stay, and no object's access becomes foreign.
LEMMA ValidKept ==
    ASSUME Valid(opts.validation), UNCHANGED <<tree, outside, opts>>,
           \A o \in Objects \cup {Root} : mode'[o] \in {mode[o], "policy", "writable"}
    PROVE  Valid(opts.validation)'
  <1>1. Objects' = Objects
    BY DEF Objects
  <1> QED
    BY <1>1 DEF Valid, KindOf

\* A call that published nothing claims nothing about the tree.
LEMMA NothingClaimed ==
    ASSUME \/ pc' \in {"down", "refuse", "observe", "verifyRoot", "dirs", "dirSync", "parentSync"}
           \/ pc' = "files" /\ opts' = None
           \/ pc' = "idle" /\ (outcome'.op = "sync" \/ outcome'.publication # "Published")
    PROVE  ValidInv'
  BY DEF ValidInv, Returned, Verified, Publishing, Early, Verifying, Pinning, Owning, Checking,
     UserSteps, Ending, Renaming

\* A step that fails publishes nothing, and has kept the options.
LEMMA FailuresPublishNothing ==
    \A mut, acc : PublishFails(mut, acc) \/ AccessFails(acc) =>
      pc' = "idle" /\ outcome'.publication = "NotPublished" /\ UNCHANGED opts
  BY SMTT(30), Z3T(30) DEF AccessFails, PublishFails, Finish, PublishError

\* A step after the verification that changes neither the entries nor an access
\* leaves what was verified, or publishes nothing.
LEMMA StepKeepsValid ==
    ASSUME ValidInv, pc \in Verified, UNCHANGED <<tree, outside, opts, mode>>,
           "verify" \in quiet' => "verify" \in quiet,
           pc' \in Verified \/ (pc' = "idle" /\ outcome'.publication = "NotPublished")
    PROVE  ValidInv'
  <1>1. Valid(opts.validation) => Valid(opts.validation)'
    BY ValidKept
  <1>2. CASE pc' \in Verified
    BY <1>1, <1>2 DEF ValidInv, Returned, Verified, Publishing, Verifying, Early, Pinning,
       Owning, Checking, UserSteps, Ending, Renaming
  <1>3. CASE pc' = "idle" /\ outcome'.publication = "NotPublished"
    BY <1>3, NothingClaimed
  <1> QED
    BY <1>2, <1>3

\* An undisturbed verification that ends has verified the tree as it is.
LEMMA VerifiedIsValid ==
    ASSUME WalkFacts, Typed, opts \in OptionSets, opts.validation # None, visited = tree,
           ~TwiceExpected(opts.validation), ~Missing(opts.validation), ~OutsideLinked(opts.validation),
           opts.validation.private => mode[Root] # "theirs",
           \A p \in Paths : visited[p] # None => ~Refused(opts.validation, p)
    PROVE  Valid(opts.validation)
  <1>0. /\ tree \in Entries /\ outside \subseteq FileIds
        /\ opts.validation.exact = None \/ opts.validation.exact \subseteq Paths \X {"file", "dir", "link"}
    BY OptionFacts DEF Typed, FsTyped, Validation
  <1>1. ASSUME opts.validation.exact # None
        PROVE  {<<p, KindOf(tree[p])>> : p \in {q \in Paths : tree[q] # None}} = opts.validation.exact
    <2>1. \A p \in Paths : tree[p] # None => <<p, KindOf(tree[p])>> \in opts.validation.exact
      BY <1>1 DEF Refused
    <2>2. ASSUME NEW e \in opts.validation.exact
          PROVE  e[1] \in Paths /\ tree[e[1]] # None /\ e = <<e[1], KindOf(tree[e[1]])>>
      <3>1. e[1] \in Paths /\ tree[e[1]] # None
        BY <1>0, <1>1 DEF Missing
      <3>2. <<e[1], KindOf(tree[e[1]])>> \in opts.validation.exact
        BY <2>1, <3>1
      <3> QED
        BY <1>1, <3>1, <3>2 DEF TwiceExpected
    <2> QED
      BY <2>1, <2>2
  <1>2. ASSUME opts.validation.noLinks, NEW p \in Paths, tree[p] \in LinkIds
        PROVE  FALSE
    BY <1>2, IdFacts DEF Refused, KindOf
  <1>3. ASSUME opts.validation.noOutside, NEW p \in Paths, tree[p] \in outside
        PROVE  FALSE
    <2> DEFINE Here == {q \in Paths : tree[q] = tree[p]}
    <2>2. Cardinality(Here) \in Nat
      BY DEF WalkFacts
    <2>3. LinkCount(tree[p]) > Occurrences(visited[p])
      BY <1>3, <2>2, SMTT(30), Z3T(30) DEF LinkCount, Occurrences
    <2>4. p \in Collected /\ KindOf(visited[p]) = "file"
      BY <1>0, <1>3, IdFacts DEF Collected, KindOf
    <2> QED
      BY <1>3, <2>3, <2>4 DEF OutsideLinked
  <1>4. ASSUME opts.validation.private, NEW o \in Objects, mode[o] = "theirs"
        PROVE  FALSE
    BY <1>4, IdFacts DEF Refused, KindOf, Objects
  <1> QED
    BY <1>1, <1>2, <1>3, <1>4 DEF Valid

\* What the verification found stays true until another process moves.
LEMMA ValidPreserved ==
    ASSUME WalkFacts, IInv, Next
    PROVE  ValidInv'
  <1>0. Typed /\ CallInv /\ WalkInv /\ ValidInv
    BY DEF IInv, BaseInv
  <1>k. Valid(opts.validation) /\ UNCHANGED <<tree, outside, opts, mode>> => Valid(opts.validation)'
    BY ValidKept
  <1>m. ASSUME Valid(opts.validation), UNCHANGED <<tree, outside, opts>>,
               NEW x \in Ids \cup {Root}, NEW w \in {"policy", "writable"},
               mode' = mode \/ mode' = [mode EXCEPT ![x] = w]
        PROVE  Valid(opts.validation)'
    <2>1. \A o \in Objects \cup {Root} : mode'[o] \in {mode[o], "policy", "writable"}
      BY <1>0, <1>m, IdFacts DEF Typed, FsTyped, Objects
    <2> QED
      BY <1>m, <2>1, ValidKept
  <1>1. CASE Beginning
    <2>1. CASE CallPublish
      BY <2>1, NothingClaimed DEF CallPublish
    <2>2. CASE RefuseOptions
      BY <2>2, NothingClaimed DEF RefuseOptions, AccessFails, PublishFails, Finish, PublishError
    <2>3. CASE ObserveStage
      BY <1>0, <1>k, <2>3, SMTT(30), Z3T(30) DEF ObserveStage, Step, Mark, PublishFails,
         Unmarked, Same, Finish, PublishError, ValidInv, Verified, Returned, Publishing,
         Verifying, Early, Pinning, Owning, Checking, UserSteps, Ending, Renaming, fsVars
    <2>4. CASE VerifyRoot
      <3>1. CASE PublishFails("NotStarted", "Preserved")
        BY <3>1, NothingClaimed DEF AccessFails, PublishFails, Finish, PublishError
      <3>2. CASE /\ Step("verifyRoot", "verify") /\ UNCHANGED <<visited, mode>>
                 /\ ~(opts.validation.private /\ mode[Root] = "theirs")
                 /\ ~TwiceExpected(opts.validation)
        <4>1. visited = NoEntries /\ \A p \in Paths : visited'[p] = None
          BY <1>0, <3>2 DEF WalkInv, Step, NoEntries
        <4>2. ~TwiceExpected(opts.validation)'
          BY <3>2 DEF Step, TwiceExpected
        <4> QED
          BY <3>2, <4>1, <4>2 DEF ValidInv, Returned, Step, Verified, Publishing, Early,
             Verifying, Pinning, Owning, Checking, UserSteps, Ending, Renaming
      <3> QED
        BY <2>4, <3>1, <3>2 DEF VerifyRoot, Same, fsVars
    <2>5. CASE VerifyEntry
      <3>1. CASE PublishFails("NotStarted", "Preserved")
        BY <3>1, NothingClaimed DEF AccessFails, PublishFails, Finish, PublishError
      <3>2. CASE /\ Step("verify", "verify") /\ UNCHANGED <<tree, mode, quiet>> /\ Due # {}
                 /\ Observe(NextEntry) /\ ~Refused(opts.validation, NextEntry)
        <4>1. \A p \in Paths : visited'[p] = visited[p] \/ p = NextEntry
          BY <1>0, <3>2, NextIsDue DEF Typed, LocalsTyped, Entries, Observe
        <4>2. \A p \in Paths : Refused(opts.validation, p)' <=> Refused(opts.validation, p)
          BY <3>2 DEF Step, Refused, KindOf
        <4>3. TwiceExpected(opts.validation)' <=> TwiceExpected(opts.validation)
          BY <3>2 DEF Step, TwiceExpected
        <4> QED
          BY <1>0, <3>2, <4>1, <4>2, <4>3 DEF ValidInv, Returned, Step, Verified, Publishing,
             Early, Verifying, Pinning, Owning, Checking, UserSteps, Ending, Renaming
      <3> QED
        BY <2>5, <3>1, <3>2 DEF VerifyEntry, Same, fsVars, histVars
    <2>6. CASE VerifyEnd
      <3>1. CASE PublishFails("NotStarted", "Preserved")
        BY <3>1, NothingClaimed DEF AccessFails, PublishFails, Finish, PublishError
      <3>2. CASE /\ Step("verify", "access") /\ UNCHANGED <<tree, mode, outside, quiet>>
                 /\ Due = {}
                 /\ ~Missing(opts.validation) /\ ~OutsideLinked(opts.validation)
        <4>0. pc = "verify" /\ pc' = "access" /\ UNCHANGED opts
          BY <3>2 DEF Step
        <4>1. opts \in OptionSets /\ opts.validation # None
          BY <1>0, <4>0 DEF CallInv, Publishing, Early, Verifying
        <4>2. "verify" \in quiet => visited = tree
          BY <1>0, <3>2, <4>0, WalkComplete DEF WalkInv
        <4>3. /\ ~TwiceExpected(opts.validation)
              /\ "verify" \in quiet =>
                   /\ opts.validation.private => mode[Root] # "theirs"
                   /\ \A p \in Paths : visited[p] # None => ~Refused(opts.validation, p)
          BY <1>0, <4>0 DEF ValidInv
        <4>4. "verify" \in quiet => Valid(opts.validation)
          BY <1>0, <3>2, <4>1, <4>2, <4>3, VerifiedIsValid
        <4> QED
          BY <1>k, <3>2, <4>0, <4>4 DEF ValidInv, Returned
      <3> QED
        BY <2>6, <3>1, <3>2 DEF VerifyEnd, Same, fsVars, histVars
    <2>7. CASE StartAccess
      BY <1>0, <1>k, <2>7 DEF StartAccess, Step, Unmarked, Mark, Same, ValidInv, Verified,
         Returned, Publishing, Verifying, Early, Pinning, Owning, Checking, UserSteps, Ending,
         Renaming, fsVars
    <2>8. CASE FilesObserve
      BY <1>0, <1>k, <2>8, SMTT(30), Z3T(30) DEF FilesObserve, Step, FilesFail, Same, Finish,
         SyncOutcome, PublishFails, PublishError, ValidInv, Verified, Returned, Publishing,
         Verifying, Early, Pinning, Owning, Checking, UserSteps, Ending, Renaming, histVars,
         fsVars
    <2>9. CASE FileSync
      BY <1>0, <1>k, <2>9, SMTT(30), Z3T(30) DEF FileSync, Step, FilesFail, Finish, SyncOutcome,
         PublishFails, PublishError, ValidInv, Verified, Returned, Publishing, Verifying, Early,
         Pinning, Owning, Checking, UserSteps, Ending, Renaming, histVars
    <2>10. CASE FilesEnd
      BY <1>0, <1>k, <2>10 DEF FilesEnd, Step, Mark, Same, ValidInv, Verified, Returned,
         Publishing, Verifying, Early, Pinning, Owning, Checking, UserSteps, Ending, Renaming,
         fsVars
    <2>11. CASE SkipFiles
      BY <1>0, <1>k, <2>11 DEF SkipFiles, Step, Mark, Same, ValidInv, Verified, Returned,
         Publishing, Verifying, Early, Pinning, Owning, Checking, UserSteps, Ending, Renaming,
         fsVars
    <2> QED
      BY <1>1, <2>1, <2>2, <2>3, <2>4, <2>5, <2>6, <2>7, <2>8, <2>9, <2>10, <2>11 DEF Beginning
  <1>2. CASE TreeSync
    <2>1. CASE CallSyncTree
      BY <2>1, NothingClaimed, SMTT(30), Z3T(30) DEF CallSyncTree, SyncOutcome
    <2>2. CASE CollectDirectories
      BY <2>2, NothingClaimed, SMTT(30), Z3T(30) DEF CollectDirectories, Step, SyncOutcome
    <2>3. CASE DirectorySync
      BY <2>3, NothingClaimed, SMTT(30), Z3T(30) DEF DirectorySync, Step, Finish, SyncOutcome
    <2>4. CASE RootSync
      BY <2>4, NothingClaimed, SMTT(30), Z3T(30) DEF RootSync, Step, Finish, SyncOutcome
    <2>5. CASE ParentSync
      BY <2>5, NothingClaimed, SMTT(30), Z3T(30) DEF ParentSync, Finish, SyncOutcome
    <2> QED
      BY <1>2, <2>1, <2>2, <2>3, <2>4, <2>5 DEF TreeSync
  <1>3. CASE OwnerAccess
    <2>1. CASE OwnerCollect
      <3>0. /\ pc = "ownerCollect" /\ UNCHANGED <<tree, outside, opts, mode>> /\ UNCHANGED quiet
            /\ pc' = "ownerCollect" \/ (pc' = "idle" /\ outcome'.publication = "NotPublished")
        BY <2>1, FailuresPublishNothing DEF OwnerCollect, Step, histVars, Same, fsVars
      <3> QED
        BY <1>0, <3>0, StepKeepsValid DEF Verified, Publishing, Early, Verifying, Pinning,
           Owning, Checking, UserSteps, Ending, Renaming
    <2>2. CASE OwnerCollected
      <3>0. /\ pc = "ownerCollect" /\ UNCHANGED <<tree, outside, opts, mode>> /\ UNCHANGED quiet
            /\ pc' = "ownerPin" \/ (pc' = "idle" /\ outcome'.publication = "NotPublished")
        BY <2>2, FailuresPublishNothing DEF OwnerCollected, Step, histVars, Same, fsVars
      <3> QED
        BY <1>0, <3>0, StepKeepsValid DEF Verified, Publishing, Early, Verifying, Pinning,
           Owning, Checking, UserSteps, Ending, Renaming
    <2>3. CASE OwnerPin
      <3>0. /\ pc = "ownerPin" /\ UNCHANGED <<tree, outside, opts, mode>> /\ UNCHANGED quiet
            /\ pc' = "ownerPin" \/ (pc' = "idle" /\ outcome'.publication = "NotPublished")
        BY <2>3, FailuresPublishNothing DEF OwnerPin, Step, histVars, Same, fsVars
      <3> QED
        BY <1>0, <3>0, StepKeepsValid DEF Verified, Publishing, Early, Verifying, Pinning,
           Owning, Checking, UserSteps, Ending, Renaming
    <2>4. CASE OwnerPinned
      <3>0. /\ pc = "ownerPin" /\ UNCHANGED <<tree, outside, opts, mode>> /\ UNCHANGED quiet
            /\ pc' = "ownerApply" \/ (pc' = "idle" /\ outcome'.publication = "NotPublished")
        BY <2>4, FailuresPublishNothing DEF OwnerPinned, Step, histVars, Same, fsVars
      <3> QED
        BY <1>0, <3>0, StepKeepsValid DEF Verified, Publishing, Early, Verifying, Pinning,
           Owning, Checking, UserSteps, Ending, Renaming
    <2>5. CASE OwnerApply
      <3>0. PICK e \in todo :
              /\ pc = "ownerApply" /\ UNCHANGED <<tree, outside, opts, quiet>>
              /\ mode' = mode \/ mode' = [mode EXCEPT ![e[2]] = "policy"]
              /\ pc' = "ownerRebind" \/ (pc' = "idle" /\ outcome'.publication = "NotPublished")
        BY <2>5, SMTT(30), Z3T(30) DEF OwnerApply, SetMode, MaybeSetMode, Step, AccessFails,
           PublishFails, Finish, PublishError
      <3>1. e[2] \in Ids
        BY <1>0 DEF Typed, LocalsTyped
      <3> QED
        BY <1>0, <1>m, <3>0, <3>1 DEF ValidInv, Returned, Verified, Publishing, Early, Verifying,
           Pinning, Owning, Checking, UserSteps, Ending, Renaming
    <2>6. CASE OwnerRebind
      <3>0. /\ pc = "ownerRebind" /\ UNCHANGED <<tree, outside, opts, mode>> /\ UNCHANGED quiet
            /\ pc' = "ownerApply" \/ (pc' = "idle" /\ outcome'.publication = "NotPublished")
        BY <2>6, FailuresPublishNothing DEF OwnerRebind, Step, histVars, Same, fsVars
      <3> QED
        BY <1>0, <3>0, StepKeepsValid DEF Verified, Publishing, Early, Verifying, Pinning,
           Owning, Checking, UserSteps, Ending, Renaming
    <2>7. CASE OwnerRootCheck
      <3>0. /\ pc = "ownerApply" /\ UNCHANGED <<tree, outside, opts, mode>> /\ UNCHANGED quiet
            /\ pc' = "ownerRoot" \/ (pc' = "idle" /\ outcome'.publication = "NotPublished")
        BY <2>7, FailuresPublishNothing DEF OwnerRootCheck, Step, histVars, Same, fsVars
      <3> QED
        BY <1>0, <3>0, StepKeepsValid DEF Verified, Publishing, Early, Verifying, Pinning,
           Owning, Checking, UserSteps, Ending, Renaming
    <2>8. CASE OwnerRootApply
      <3>0. /\ pc = "ownerRoot" /\ UNCHANGED <<tree, outside, opts, quiet>>
            /\ mode' = mode \/ mode' = [mode EXCEPT ![Root] = "policy"]
            /\ pc' = "ownerRootRebind" \/ (pc' = "idle" /\ outcome'.publication = "NotPublished")
        BY <2>8, SMTT(30), Z3T(30) DEF OwnerRootApply, SetMode, MaybeSetMode, Step, AccessFails,
           PublishFails, Finish, PublishError
      <3> QED
        BY <1>0, <1>m, <3>0 DEF ValidInv, Returned, Verified, Publishing, Early, Verifying,
           Pinning, Owning, Checking, UserSteps, Ending, Renaming
    <2>9. CASE OwnerRootRebind
      <3>0. /\ pc = "ownerRootRebind" /\ UNCHANGED <<tree, outside, opts, mode>> /\ ("verify" \in quiet' => "verify" \in quiet)
            /\ pc' = "ownerVerify" \/ (pc' = "idle" /\ outcome'.publication = "NotPublished")
        BY <2>9, FailuresPublishNothing DEF OwnerRootRebind, Step, Mark, Unmarked, Same, fsVars
      <3> QED
        BY <1>0, <3>0, StepKeepsValid DEF Verified, Publishing, Early, Verifying, Pinning,
           Owning, Checking, UserSteps, Ending, Renaming
    <2>10. CASE OwnerVerify
      <3>0. /\ pc = "ownerVerify" /\ UNCHANGED <<tree, outside, opts, mode>> /\ UNCHANGED quiet
            /\ pc' = "ownerVerify" \/ (pc' = "idle" /\ outcome'.publication = "NotPublished")
        BY <2>10, FailuresPublishNothing DEF OwnerVerify, Step, histVars, Same, fsVars
      <3> QED
        BY <1>0, <3>0, StepKeepsValid DEF Verified, Publishing, Early, Verifying, Pinning,
           Owning, Checking, UserSteps, Ending, Renaming
    <2>11. CASE OwnerVerified
      <3>0. /\ pc = "ownerVerify" /\ UNCHANGED <<tree, outside, opts, mode>> /\ UNCHANGED quiet
            /\ pc' = "ownerRecheck" \/ (pc' = "idle" /\ outcome'.publication = "NotPublished")
        BY <2>11, FailuresPublishNothing DEF OwnerVerified, Step, histVars, Same, fsVars
      <3> QED
        BY <1>0, <3>0, StepKeepsValid DEF Verified, Publishing, Early, Verifying, Pinning,
           Owning, Checking, UserSteps, Ending, Renaming
    <2>12. CASE OwnerRecheck
      <3>0. /\ pc = "ownerRecheck" /\ UNCHANGED <<tree, outside, opts, mode>> /\ UNCHANGED quiet
            /\ pc' = "ownerRecheck" \/ (pc' = "idle" /\ outcome'.publication = "NotPublished")
        BY <2>12, FailuresPublishNothing DEF OwnerRecheck, Step, histVars, Same, fsVars
      <3> QED
        BY <1>0, <3>0, StepKeepsValid DEF Verified, Publishing, Early, Verifying, Pinning,
           Owning, Checking, UserSteps, Ending, Renaming
    <2>13. CASE OwnerRootRecheck
      <3>0. /\ pc = "ownerRecheck" /\ UNCHANGED <<tree, outside, opts, mode>> /\ UNCHANGED quiet
            /\ pc' = "ownerSync" \/ (pc' = "idle" /\ outcome'.publication = "NotPublished")
        BY <2>13, FailuresPublishNothing DEF OwnerRootRecheck, Step, histVars, Same, fsVars
      <3> QED
        BY <1>0, <3>0, StepKeepsValid DEF Verified, Publishing, Early, Verifying, Pinning,
           Owning, Checking, UserSteps, Ending, Renaming
    <2>14. CASE OwnerSync
      <3>0. /\ pc = "ownerSync" /\ UNCHANGED <<tree, outside, opts, mode>> /\ UNCHANGED quiet
            /\ pc' = "ownerSync" \/ (pc' = "idle" /\ outcome'.publication = "NotPublished")
        BY <2>14, FailuresPublishNothing DEF OwnerSync, Step, histVars
      <3> QED
        BY <1>0, <3>0, StepKeepsValid DEF Verified, Publishing, Early, Verifying, Pinning,
           Owning, Checking, UserSteps, Ending, Renaming
    <2>15. CASE OwnerDone
      <3>0. /\ pc = "ownerSync" /\ UNCHANGED <<tree, outside, opts, mode>> /\ UNCHANGED quiet
            /\ pc' = "final" \/ (pc' = "idle" /\ outcome'.publication = "NotPublished")
        BY <2>15, FailuresPublishNothing DEF OwnerDone, Step, histVars, Same, fsVars
      <3> QED
        BY <1>0, <3>0, StepKeepsValid DEF Verified, Publishing, Early, Verifying, Pinning,
           Owning, Checking, UserSteps, Ending, Renaming
    <2> QED
      BY <1>3, <2>1, <2>2, <2>3, <2>4, <2>5, <2>6, <2>7, <2>8, <2>9, <2>10, <2>11, <2>12, <2>13,
         <2>14, <2>15 DEF OwnerAccess
  <1>4. CASE CurrentUserAccess
    <2>1. CASE UserCollect
      <3>0. /\ pc = "collect" /\ UNCHANGED <<tree, outside, opts, mode>> /\ UNCHANGED quiet
            /\ pc' \in {"collect", "userApply"} \/ (pc' = "idle" /\ outcome'.publication = "NotPublished")
        BY <2>1, FailuresPublishNothing DEF UserCollect, Step, histVars, Same, fsVars
      <3> QED
        BY <1>0, <3>0, StepKeepsValid DEF Verified, Publishing, Early, Verifying, Pinning,
           Owning, Checking, UserSteps, Ending, Renaming
    <2>2. CASE UserApply
      <3>0. PICK e \in todo :
              /\ pc = "userApply" /\ UNCHANGED <<tree, outside, opts, quiet>>
              /\ mode' = mode \/ mode' = [mode EXCEPT ![e[2]] = "policy"]
              /\ pc' \in {"userApply", "userConfirm"} \/ (pc' = "idle" /\ outcome'.publication = "NotPublished")
        BY <2>2, SMTT(30), Z3T(30) DEF UserApply, SetMode, MaybeSetMode, Step, AccessFails,
           PublishFails, Finish, PublishError
      <3>1. e[2] \in Ids
        BY <1>0 DEF Typed, LocalsTyped
      <3> QED
        BY <1>0, <1>m, <3>0, <3>1 DEF ValidInv, Returned, Verified, Publishing, Early, Verifying,
           Pinning, Owning, Checking, UserSteps, Ending, Renaming
    <2>3. CASE UserConfirm
      <3>0. /\ pc = "userConfirm" /\ UNCHANGED <<tree, outside, opts, mode>> /\ UNCHANGED quiet
            /\ pc' = "userApply" \/ (pc' = "idle" /\ outcome'.publication = "NotPublished")
        BY <2>3, FailuresPublishNothing DEF UserConfirm, Step, histVars
      <3> QED
        BY <1>0, <3>0, StepKeepsValid DEF Verified, Publishing, Early, Verifying, Pinning,
           Owning, Checking, UserSteps, Ending, Renaming
    <2>4. CASE UserRoot
      <3>0. /\ pc = "userApply" /\ UNCHANGED <<tree, outside, opts, quiet>>
            /\ mode' = mode \/ mode' = [mode EXCEPT ![Root] = "policy"]
            /\ pc' = "userRootConfirm" \/ (pc' = "idle" /\ outcome'.publication = "NotPublished")
        BY <2>4, SMTT(30), Z3T(30) DEF UserRoot, SetMode, MaybeSetMode, Step, AccessFails,
           PublishFails, Finish, PublishError
      <3> QED
        BY <1>0, <1>m, <3>0 DEF ValidInv, Returned, Verified, Publishing, Early, Verifying,
           Pinning, Owning, Checking, UserSteps, Ending, Renaming
    <2>5. CASE UserRootConfirm
      <3>0. /\ pc = "userRootConfirm" /\ UNCHANGED <<tree, outside, opts, mode>>
            /\ UNCHANGED quiet
            /\ pc' = "final" \/ (pc' = "idle" /\ outcome'.publication = "NotPublished")
        BY <2>5, FailuresPublishNothing DEF UserRootConfirm, Step, histVars, Same, fsVars
      <3> QED
        BY <1>0, <3>0, StepKeepsValid DEF Verified, Publishing, Early, Verifying, Pinning,
           Owning, Checking, UserSteps, Ending, Renaming
    <2> QED
      BY <1>4, <2>1, <2>2, <2>3, <2>4, <2>5 DEF CurrentUserAccess
  <1>5. CASE RenameToTarget
    <2>1. CASE FinalCheck
      <3>0. /\ pc = "final" /\ UNCHANGED <<tree, outside, opts, mode>> /\ ("verify" \in quiet' => "verify" \in quiet)
            /\ pc' \in {"writable", "rename"} \/ (pc' = "idle" /\ outcome'.publication = "NotPublished")
        BY <2>1, FailuresPublishNothing DEF FinalCheck, Step, Mark, Unmarked, Same, fsVars
      <3> QED
        BY <1>0, <3>0, StepKeepsValid DEF Verified, Publishing, Early, Verifying, Pinning,
           Owning, Checking, UserSteps, Ending, Renaming
    <2>2. CASE MakeRootWritable
      <3>0. /\ pc = "writable" /\ UNCHANGED <<tree, outside, opts, quiet>>
            /\ mode' = mode \/ mode' = [mode EXCEPT ![Root] = "writable"]
            /\ pc' = "rename" \/ (pc' = "idle" /\ outcome'.publication = "NotPublished")
        BY <2>2, SMTT(30), Z3T(30) DEF MakeRootWritable, SetMode, MaybeSetMode, Step,
           AccessFails, PublishFails, Finish, PublishError
      <3> QED
        BY <1>0, <1>m, <3>0 DEF ValidInv, Returned, Verified, Publishing, Early, Verifying,
           Pinning, Owning, Checking, UserSteps, Ending, Renaming
    <2>3. CASE Rename
      BY <1>0, <1>k, <2>3 DEF Rename, RenameReturns, ValidInv, Verified, Returned, Publishing,
         Verifying, Early, Pinning, Owning, Checking, UserSteps, Ending, Renaming
    <2>4. CASE RenameSync
      BY <1>0, <1>k, <2>4 DEF RenameSync, ValidInv, Verified, Returned, Publishing, Verifying,
         Early, Pinning, Owning, Checking, UserSteps, Ending, Renaming, histVars
    <2>5. CASE RestoreAndReturn
      <3>0. /\ pc = "restore" /\ pc' = "idle" /\ UNCHANGED <<tree, outside, opts, quiet>>
            /\ mode' = mode \/ mode' = [mode EXCEPT ![Root] = "policy"]
        BY <2>5 DEF RestoreAndReturn, SetMode, MaybeSetMode, Finish
      <3>1. opts # None
        BY <1>0, <3>0, IdFacts DEF CallInv, Publishing, Ending, Renaming
      <3> QED
        BY <1>0, <1>m, <3>0, <3>1 DEF ValidInv, Returned, Verified, Publishing, Early, Verifying,
           Pinning, Owning, Checking, UserSteps, Ending, Renaming
    <2> QED
      BY <1>5, <2>1, <2>2, <2>3, <2>4, <2>5 DEF RenameToTarget
  <1>6. CASE \E p \in Paths, x \in Ids \cup {None} : OthersChangeEntry(p, x)
    BY <1>0, <1>6 DEF OthersChangeEntry, Disturb, ValidInv, Verified, Returned, Publishing,
       Verifying, Early, Pinning, Owning, Checking, UserSteps, Ending, Renaming, callVars
  <1>7. CASE \E n \in {"stage", "target"}, x \in {Root, Alien, None} : OthersChangeName(n, x)
    BY <1>0, <1>7 DEF OthersChangeName, Disturb, ValidInv, Verified, Returned, Publishing,
       Verifying, Early, Pinning, Owning, Checking, UserSteps, Ending, Renaming, callVars
  <1>8. CASE \E o \in Ids \cup {Root} : OthersChangeMode(o)
    BY <1>0, <1>8 DEF OthersChangeMode, Disturb, ValidInv, Verified, Returned, Publishing,
       Verifying, Early, Pinning, Owning, Checking, UserSteps, Ending, Renaming, callVars
  <1>9. CASE \E o \in FileIds : OthersLink(o)
    BY <1>0, <1>9 DEF OthersLink, Disturb, ValidInv, Verified, Returned, Publishing, Verifying,
       Early, Pinning, Owning, Checking, UserSteps, Ending, Renaming, callVars
  <1>10. CASE Crash
    BY <1>10, NothingClaimed DEF Crash
  <1> QED
    BY <1>1, <1>2, <1>3, <1>4, <1>5, <1>6, <1>7, <1>8, <1>9, <1>10 DEF Next, Owner, Others

-----------------------------------------------------------------------------
(* The walks, by induction over the order and the depth of the paths. *)

\* The number that FiniteSets defines Cardinality to be.  The instance below
\* brings a Cardinality of its own, which is the same number.
Count(S) ==
  LET CS[T \in SUBSET S] == IF T = {} THEN 0 ELSE 1 + CS[T \ {CHOOSE x : x \in T}]
  IN  CS[S]

\* The Cardinality that LinkCount and Occurrences of StagePublish use.
LEMMA CardinalityHere == \A S : Cardinality(S) = Count(S)
  BY DEF Cardinality, Count

LOCAL INSTANCE FiniteSetTheorems

\* The Cardinality that FiniteSetTheorems is about.
LEMMA CardinalityThere == \A S : Cardinality(S) = Count(S)
  BY DEF Cardinality, Count

\* A set of naturals that is not empty has a least member: otherwise what lies
\* below all its members would be a finite set that the successor maps into
\* itself without reaching zero.
LEMMA LeastMember ==
    ASSUME NEW T, T \subseteq Nat, T # {}
    PROVE  \E x \in T : \A y \in T : x <= y
  <1> SUFFICES ASSUME \A x \in T : \E y \in T : y < x PROVE FALSE
    BY SMTT(30), Z3T(30)
  <1> DEFINE Under == {x \in Nat : \A y \in T : x < y}
  <1> DEFINE f == [x \in Under |-> x + 1]
  <1>1. PICK t \in T : TRUE
    OBVIOUS
  <1>2. IsFiniteSet(Under)
    BY <1>1, FS_BoundedSetOfNaturals, SMTT(30), Z3T(30)
  <1>3. 0 \in Under
    BY SMTT(30), Z3T(30)
  <1>4. \A x \in Under : x + 1 \in Under
    BY SMTT(30), Z3T(30)
  <1>5. f \in Injection(Under, Under)
    BY <1>4, SMTT(30), Z3T(30) DEF Injection, IsInjective
  <1>6. f \in Surjection(Under, Under)
    BY <1>2, <1>5, FS_Injection
  <1>7. PICK x \in Under : f[x] = 0
    BY <1>3, <1>6 DEF Surjection
  <1> QED
    BY <1>7, SMTT(30), Z3T(30)

\* The paths are finitely many.
LEMMA FinitePaths == IsFiniteSet(Paths)
  <1> USE ConstantsAssumption
  <1> DEFINE place == [i \in 1..Len(ShallowFirst) |-> ShallowFirst[i]]
  <1>1. Len(ShallowFirst) \in Nat
    BY SMTT(30), Z3T(30)
  <1>2. IsFiniteSet(1..Len(ShallowFirst))
    BY <1>1, FS_Interval, SMTT(30), Z3T(30)
  <1>3. place \in Surjection(1..Len(ShallowFirst), Paths)
    BY <1>1 DEF Surjection, Paths
  <1> QED
    BY <1>2, <1>3, FS_Surjection

\* The walk returns an entry of the tree that it has not returned before.
LEMMA WalkReturnsDue ==
    ASSUME Due # {}
    PROVE  NextEntry \in Due /\ NextEntry \in Paths /\ tree[NextEntry] # None
  <1> DEFINE T == {i \in 1..Len(ShallowFirst) : ShallowFirst[i] \in Due}
  <1>1. Len(ShallowFirst) \in Nat /\ Due \subseteq Paths
    BY PathFacts DEF Due
  <1>2. T \subseteq Nat /\ T # {}
    BY <1>1, SMTT(30), Z3T(30) DEF Paths
  <1>3. PICK i \in T : \A j \in T : i <= j
    BY <1>2, LeastMember
  <1>4. /\ i \in 1..Len(ShallowFirst) /\ ShallowFirst[i] \in Due
        /\ \A j \in 1..(i - 1) : ShallowFirst[j] \notin Due
    BY <1>1, <1>3, SMTT(30), Z3T(30)
  <1> HIDE DEF T
  <1>5. NextEntry \in Due
    BY <1>4 DEF NextEntry
  <1> QED
    BY <1>1, <1>5 DEF Due

\* An undisturbed walk that has nothing left to return has returned the tree:
\* a missed entry that is least deep would be due.
LEMMA WalkSeesAll ==
    ASSUME Typed, Sound, Due = {}
    PROVE  visited = tree
  <1>0. visited \in Entries /\ tree \in Entries /\ IsTree(tree)
    BY DEF Typed, FsTyped, LocalsTyped
  <1> DEFINE Missed == {p \in Paths : visited[p] # tree[p]}
  <1>1. Missed = {}
    <2> SUFFICES ASSUME Missed # {} PROVE FALSE
      OBVIOUS
    <2> DEFINE Depths == {Len(p) : p \in Missed}
    <2>1. Depths \subseteq Nat /\ Depths # {}
      BY PathFacts
    <2>2. PICK d \in Depths : \A x \in Depths : d <= x
      BY <2>1, LeastMember
    <2>3. PICK p \in Missed : d = Len(p)
      OBVIOUS
    <2>4. \A q \in Missed : Len(p) <= Len(q)
      BY <2>2, <2>3
    <2>5. p \in Paths /\ tree[p] # None /\ visited[p] = None
      BY DEF Sound
    <2>6. ASSUME Len(p) > 1
          PROVE  /\ visited[ParentOf(p)] = tree[ParentOf(p)]
                 /\ visited[ParentOf(p)] \in DirIds
      <3>1. ParentOf(p) \in Paths /\ Len(ParentOf(p)) = Len(p) - 1 /\ Len(p) \in Nat
        BY <2>5, <2>6, PathFacts
      <3>2. ParentOf(p) \notin Missed
        <4>1. ParentOf(p) \in Missed => Len(p) <= Len(ParentOf(p))
          BY <2>4
        <4>2. ~(Len(p) <= Len(ParentOf(p)))
          BY <3>1, SMTT(30), Z3T(30)
        <4> QED
          BY <4>1, <4>2
      <3>3. tree[ParentOf(p)] \in DirIds
        BY <1>0, <2>5, <2>6 DEF IsTree
      <3> QED
        BY <3>1, <3>2, <3>3
    <2>7. p \in Due
      BY <2>5, <2>6 DEF Due
    <2> QED
      BY <2>7
  <1> QED
    BY <1>0, <1>1, SMTT(30), Z3T(30) DEF Entries

\* What the layers assumed of the walks.
LEMMA WalkFactsHold == WalkFacts
  <1>1. \A id : Cardinality({p \in Paths : tree[p] = id}) \in Nat
    <2> SUFFICES ASSUME NEW id PROVE Cardinality({p \in Paths : tree[p] = id}) \in Nat
      OBVIOUS
    <2>1. IsFiniteSet({p \in Paths : tree[p] = id})
      BY FinitePaths, FS_Subset
    <2> QED
      BY <2>1, FS_CardinalityType
  <1>2. Due # {} => NextEntry \in Due
    BY WalkReturnsDue
  <1>3. Typed /\ Sound /\ Due = {} => visited = tree
    BY WalkSeesAll
  <1>4. \A id : Count({p \in Paths : tree[p] = id}) \in Nat
    BY <1>1, CardinalityThere
  <1> QED
    BY <1>2, <1>3, <1>4, CardinalityHere DEF WalkFacts

-----------------------------------------------------------------------------
(* The theorems. *)

\* A stage that was just created.
LEMMA InitIInv == Init => IInv
  <1> SUFFICES ASSUME Init PROVE IInv
    OBVIOUS
  <1>1. BaseInv
    BY InitBaseInv
  <1>2. FlushInv
    BY DEF Init, NoOutcome, Returned, FlushInv, Verified, Publishing, Early, Verifying, Pinning,
       Owning, Checking, UserSteps, Ending, Renaming, Syncing
  <1>3. SettleInv /\ DurableInv /\ CrashInv
    BY DEF Init, NoOutcome, Returned, SettleInv, DurableInv, CrashInv, SyncedTreeSurvivesCrash,
       Renaming
  <1>4. ValidInv
    BY DEF Init, ValidInv, NoOutcome, Returned, Verified, Publishing, Early, Verifying, Pinning,
       Owning, Checking, UserSteps, Ending, Renaming
  <1> QED
    BY <1>1, <1>2, <1>3, <1>4 DEF IInv, SyncInv

LEMMA StutterIInv ==
    ASSUME IInv, UNCHANGED vars
    PROVE  IInv'
  <1> USE DEF vars, fsVars, callVars, histVars
  <1>0. ValidInv /\ FlushInv /\ SettleInv /\ DurableInv /\ CrashInv
    BY DEF IInv, SyncInv
  <1>1. BaseInv'
    BY StutterBaseInv DEF IInv
  <1>2. FlushInv'
    BY <1>0 DEF FlushInv, Returned, Flushed, Left
  <1>3. SettleInv' /\ DurableInv' /\ CrashInv'
    BY <1>0 DEF SettleInv, DurableInv, CrashInv, Returned, Settled, Left, SyncedTreeSurvivesCrash
  <1>4. ValidInv'
    BY <1>0 DEF ValidInv, Returned, Valid, Objects, Refused
  <1> QED
    BY <1>1, <1>2, <1>3, <1>4 DEF IInv, SyncInv

\* Every step keeps the invariant.
LEMMA NextIInv == IInv /\ [Next]_vars => IInv'
  <1>1. ASSUME IInv, Next PROVE IInv'
    <2>1. BaseInv'
      BY <1>1, WalkFactsHold, NextBaseInv DEF IInv
    <2>2. SyncInv'
      BY <1>1, WalkFactsHold, FlushPreserved, SettlePreserved, DurablePreserved,
         CrashPreserved DEF SyncInv
    <2>3. ValidInv'
      BY <1>1, WalkFactsHold, ValidPreserved
    <2> QED
      BY <2>1, <2>2, <2>3 DEF IInv
  <1> QED
    BY <1>1, StutterIInv

\* The invariant holds in every state of every execution.
THEOREM PublishInvariant == Spec => []IInv
  BY InitIInv, NextIInv, PTL DEF Spec

\* What publish_new returns tells what happened to the names and to the access
\* of the objects, whichever step failed and whoever moved in between
\* (publish.rs, access.rs).
THEOREM PublicationsReportTruthfully == Spec => []PublishReportTruthful
  <1> SUFFICES ASSUME IInv PROVE PublishReportTruthful
    BY PublishInvariant, PTL
  <1>1. CallInv /\ PolicyInv
    BY DEF IInv, BaseInv
  <1> QED
    BY <1>1 DEF CallInv, PolicyInv, PublishReportTruthful, PolicyMark, Shut, UserAccess

\* A published tree that nobody touched since verify_tree began is what the
\* validation options asked for (tree_verification.rs).
THEOREM PublishedTreesAreValid == Spec => []PublishedTreeIsValid
  <1> SUFFICES ASSUME IInv PROVE PublishedTreeIsValid
    BY PublishInvariant, PTL
  <1>1. ValidInv
    BY DEF IInv
  <1> QED
    BY <1>1 DEF ValidInv, PublishedTreeIsValid, Valid

\* A tree that was synchronized and then published durably is whole after a
\* crash at any later moment (sync.rs, publish.rs).
THEOREM SyncedTreesSurviveCrashes == Spec => []SyncedTreeSurvivesCrash
  <1>1. IInv => SyncedTreeSurvivesCrash
    BY DEF IInv, SyncInv, CrashInv
  <1> QED
    BY <1>1, PublishInvariant, PTL

=============================================================================
