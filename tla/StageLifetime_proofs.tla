------------------------ MODULE StageLifetime_proofs ------------------------
(***************************************************************************)
(* What creating, filling, cleaning up and reopening a staged directory    *)
(* promise, for every set of names, paths, entries and options and any     *)
(* number of calls, moves of other processes and failing native calls.     *)
(***************************************************************************)
EXTENDS StageLifetime, TLAPS

USE ZenonT(30)

-----------------------------------------------------------------------------
(***************************************************************************)
(* The invariant.  Typed says what the variables hold, PlaceInv which      *)
(* locals a running call has and what the caller holds; CreateInv, WriteInv*)
(* and CleanInv follow the three kinds of calls, AtomicInv the staging file*)
(* of a write into a default stage.                                        *)
(***************************************************************************)

Owners == [armed : BOOLEAN, name : Names \cup {None}, id : Roots \cup {None},
           child : Roots \cup {None}, owned : [Paths -> Ids \cup {None}]]
RootRecoveries  == [at : {"parent"}, where : Names, id : Roots \cup {None},
                    partial : Roots \cup {None}]
EntryRecoveries == [at : Roots, where : Paths, id : FileIds \cup {None},
                    partial : FileIds \cup {None}]

FsTyped ==
  /\ parent \in [Names -> Roots \cup {None}]
  /\ inside \in [Roots -> [Paths -> Ids \cup {None}]]
  /\ full \subseteq FileIds
HeldTyped ==
  owner \in Owners /\ recov \in RootRecoveries \cup EntryRecoveries \cup {NoRecovery}
LocalsTyped ==
  /\ path \in Paths \cup {None}
  /\ handle \in Roots \cup {None} /\ file \in Roots \cup Ids \cup {None}
  /\ expected \in Roots \cup {None} /\ todo \subseteq Paths \X Ids
  /\ moves \in Nat
Typed == FsTyped /\ HeldTyped /\ LocalsTyped

Making    == {"openAt", "verify", "created", "openDir", "observe", "named"}
Staging   == {"wFill", "wCommit", "wAbort", "wUnlink"}
Writing   == {"wAtomic", "wFill", "wCommit", "wAbort", "wUnlink",
              "wParent", "wCreate", "wIdentity", "wStream", "wObserve"}
Listing   == {"cList", "cEntry", "cDelete"}
Rooting   == {"cRoot", "cRootDelete", "cReopen"}
Reopening == {"oOpen", "oVerify", "oArm"}

\* The locals of the running call, and what the caller holds.
PlaceInv ==
  /\ pc \in {"start", "mkdir"} \cup Making =>
       owner = NoOwner /\ recov = NoRecovery /\ life = "none" /\ outcome = NoOutcome
  /\ pc \in Making \cup Reopening => name \in Names
  /\ pc \in {"start", "mkdir", "idle"} \cup Making \cup Reopening => path = None
  /\ pc \in {"start", "mkdir", "idle"} \cup Making \cup Reopening \cup Writing =>
       dropping = FALSE \/ pc \in {"wAbort", "wUnlink"}
  /\ pc \in {"start", "mkdir", "idle"} => file = None
  /\ pc \in Writing => path \in Paths /\ life = "stage"
  /\ life # "none" => owner.name \in Names
  /\ life = "stage" /\ pc \notin Listing \cup Rooting \cup {"cStart"} => owner.child \in Roots
  /\ pc \in {"rCheck", "rDelete"} => recov # NoRecovery /\ (path # None => life = "stage" /\ ~dropping)
  /\ pc = "cStart" => owner.name \in Names
  /\ pc \in Listing => owner.child \in Roots
  /\ pc \in Listing \cup Rooting => owner.armed /\ owner.id \in Roots /\ owner.name \in Names
  /\ pc = "cDelete" => path \in Paths /\ file \in Ids
  /\ pc \in {"verify", "created", "observe", "named", "oVerify"} \/ (pc = "openDir" /\ ~Plain) =>
       handle \in Roots
  /\ pc = "oOpen" => expected \in Roots
  /\ pc = "oArm" => owner.name \in Names /\ owner.child \in Roots

\* create_staged_directory: the handle and the name, as long as nobody moved.
CreateInv ==
  /\ pc \in {"start", "mkdir"} => made = {}
  /\ pc \in Making => made = {Mine}
  /\ pc = "openAt" => opts.os # "windows"
  /\ pc \in Making /\ "made" \in quiet => parent[name] = Mine
  /\ pc \in {"verify", "created", "observe", "named"} \/ (pc = "openDir" /\ ~Plain) =>
       ("made" \in quiet \/ (opts.os = "windows" /\ ~Plain) => handle = Mine)
  /\ pc \in {"openAt", "verify", "created"} => ~Plain
  /\ pc = "observe" /\ "made" \in quiet => file = Mine
  /\ Created =>
       /\ ~outcome.ok /\ outcome.mutation = "NotStarted" => made = {}
       /\ ~outcome.ok /\ made # {} =>
            owner.name # None \/ recov.where # None \/ outcome.mutation = "Indeterminate"
       /\ outcome.ok =>
            /\ owner.id = owner.child /\ owner.armed
            /\ "made" \in quiet \/ (opts.os = "windows" /\ ~Plain) => owner.id = Mine
       /\ outcome.mutation = "Started" => made # {}
       /\ owner.id # None /\ "made" \in quiet => owner.id = Mine

\* The only place of a file.
Only(f, r, p) == \A s \in Roots, q \in Paths : inside[s][q] = f => s = r /\ q = p

\* What a write that returned owes for a file of its own that shows at a path.
Accounted(p, f) ==
  \/ f \in full /\ p \notin StagingPaths
  \/ ~Plain /\ ~outcome.ok /\ recov.partial = f
  \/ Plain /\ ~outcome.ok /\ outcome.cleanup /\ p \in StagingPaths

\* write_file_new: the file it makes and where it is.
WriteInv ==
  /\ pc \in {"wAtomic", "wParent", "wCreate"} => made = {}
  /\ pc \in {"wCreate", "wParent", "wIdentity", "wStream"} => ~Plain
  /\ pc = "wAtomic" => Plain
  /\ pc \in Writing => path \notin StagingPaths
  /\ pc \in {"wIdentity", "wStream", "wObserve"} \/ (pc \in {"rCheck", "rDelete"} /\ path # None) =>
       file \in FileIds \ TheirIds /\ made = {file} /\ Only(file, owner.child, path)
  /\ pc \in {"wIdentity", "wStream", "wObserve"} /\ "call" \in quiet =>
       inside[owner.child][path] = file
  /\ pc = "wObserve" => file \in full
  /\ pc \in {"rCheck", "rDelete"} /\ path # None =>
       ~Plain /\ recov = Recovery(owner.child, path, file, file)
  /\ outcome.op = "write" /\ pc = "idle" =>
       /\ made \subseteq FileIds \ TheirIds
       /\ \A r \in Roots, p \in Paths : inside[r][p] \in made => Accounted(p, inside[r][p])
       /\ outcome.ok /\ (~Plain \/ "call" \in quiet) =>
            \E p \in Paths : /\ owner.owned[p] \in made \cap full
                             /\ "call" \in quiet => inside[owner.child][p] = owner.owned[p]

\* A write into a default stage: where its staging file is.
AtomicInv ==
  pc \in Staging =>
    /\ Plain /\ name \in StagingPaths
    /\ file \in FileIds \ TheirIds /\ made = {file} /\ Only(file, owner.child, name)
    /\ inside[owner.child][name] = file => Place(owner.child, name)
    /\ pc = "wCommit" => file \in full
    /\ pc \in {"wFill", "wCommit"} /\ "call" \in quiet => inside[owner.child][name] = file
    /\ pc = "wUnlink" /\ "checked" \in quiet => inside[owner.child][name] = file

ListingOf(r) == {<<p, inside[r][p]>> : p \in {q \in Paths : inside[r][q] # None}}

\* The cleanups: what the last look showed, as long as nobody moved.
CleanInv ==
  /\ pc = "rDelete" =>
       recov.id # None /\ ("checked" \in quiet /\ ~ByHandle => Shown(recov) = recov.id)
  /\ pc = "cDelete" =>
       /\ \A o \in todo : Len(o[1]) <= Len(path)
       /\ "checked" \in quiet => /\ inside[owner.child][path] = file /\ <<path, file>> \in todo
                                 /\ owner.owned[path] \in {None, file}
  /\ pc \in {"cEntry", "cDelete"} /\ "call" \in quiet => todo = ListingOf(owner.child)
  /\ pc = "cDelete" /\ "call" \in quiet => inside[owner.child][path] = file
  /\ pc \in {"cStart"} \cup Listing /\ "child" \in quiet => owner.child = owner.id
  /\ pc = "cRootDelete" /\ quiet \cap {"call", "checked"} # {} => parent[owner.name] = owner.id
  /\ pc \in {"cRoot", "cRootDelete"} /\ {"call", "child"} \subseteq quiet =>
       Empty(owner.id)
  /\ pc = "cReopen" /\ "call" \in quiet =>
       parent[owner.name] = owner.id /\ "child" \notin quiet
  /\ CleanupMakesProgress

IInv == Typed /\ PlaceInv /\ CreateInv /\ WriteInv /\ AtomicInv /\ CleanInv

-----------------------------------------------------------------------------
(* The layers. *)

\* The records that name a retained directory or an entry have their types.
LEMMA RecordsTyped ==
    /\ \A n \in Names, i \in Roots \cup {None}, c \in Roots \cup {None} : Retained(n, i, c) \in Owners
    /\ \A o \in Owners, c \in Roots \cup {None}, a \in BOOLEAN :
         [o EXCEPT !.child = c] \in Owners /\ [o EXCEPT !.armed = a] \in Owners
    /\ \A o \in Owners, p \in Paths, i \in Ids : [o EXCEPT !.owned[p] = i] \in Owners
    /\ NoOwner \in Owners
    /\ \A n \in Names, i \in Roots \cup {None} :
         Recovery("parent", n, i, i) \in RootRecoveries
    /\ \A r \in Roots, p \in Paths, i \in FileIds \cup {None}, f \in FileIds :
         Recovery(r, p, i, f) \in EntryRecoveries
  BY ConstantsAssumption DEF Retained, Owners, NoOwner, NoEntries, Recovery, RootRecoveries,
     EntryRecoveries

\* An entry is put, replaced or removed.
LEMMA PutTyped ==
    ASSUME FsTyped, NEW r \in Roots, NEW p \in Paths, NEW i \in Ids \cup {None}, Put(r, p, i)
    PROVE  inside' \in [Roots -> [Paths -> Ids \cup {None}]]
  BY DEF FsTyped, Put

\* The staging entry of a default write is installed under its path.
LEMMA InstallTyped ==
    ASSUME IInv, pc = "wCommit", NEW left \in {None, StagingShown}, Install(StagingShown, left)
    PROVE  inside' \in [Roots -> [Paths -> Ids \cup {None}]]
  <1>1. FsTyped /\ path \in Paths /\ owner.child \in Roots
    BY DEF IInv, Typed, PlaceInv, Writing, Staging, Listing, Rooting
  <1>2. name \in Paths
    BY PathsAssumption DEF IInv, AtomicInv, Staging
  <1>3. StagingShown \in Ids \cup {None}
    BY <1>1, <1>2 DEF StagingShown, FsTyped
  <1> QED
    BY <1>1, <1>2, <1>3 DEF Install, FsTyped

\* Every step keeps the types of the directories.
LEMMA FsTypedPreserved ==
    ASSUME IInv, Next
    PROVE  FsTyped'
  <1> USE ConstantsAssumption
  <1>0. FsTyped /\ HeldTyped /\ LocalsTyped /\ PlaceInv /\ Mine \in Roots
    BY DEF IInv, Typed, Roots
  <1>f. pc \in {"wIdentity", "wStream"} => file \in FileIds
    BY DEF IInv, WriteInv
  <1>s. StagingPaths \subseteq Paths /\ (pc \in Staging => name \in Paths /\ file \in FileIds)
    BY PathsAssumption DEF IInv, AtomicInv
  <1>i. \A S : Fresh(S) \subseteq S
    BY DEF Fresh
  <1>j. FileIds \subseteq Ids /\ DirIds \subseteq Ids /\ TheirIds \subseteq Ids
    BY ConstantsAssumption DEF Ids
  <1>w. pc \in Writing => owner.child \in Roots /\ path \in Paths
    BY <1>0 DEF PlaceInv, Writing, Listing, Rooting
  <1>1. CASE CreateNext
    <2>1. CASE CreateRefused
      BY <1>0, <2>1 DEF CreateRefused, Same, FsTyped, fsVars
    <2>2. CASE CreateStart
      BY <1>0, <2>2 DEF CreateStart, Same, FsTyped, fsVars
    <2>3. CASE NameTaken
      BY <1>0, <2>3 DEF NameTaken, Same, FsTyped, fsVars
    <2>4. CASE MakeDirectory
      BY <1>0, <2>4 DEF MakeDirectory, FsTyped
    <2>5. CASE MakeFails
      BY <1>0, <2>5 DEF MakeFails, Same, FsTyped, fsVars
    <2>6. CASE MakeFailsLate
      BY <1>0, <2>6 DEF MakeFailsLate, FsTyped
    <2>7. CASE OpenAt
      BY <1>0, <2>7 DEF OpenAt, Same, FsTyped, fsVars
    <2>8. CASE OpenAtFails
      BY <1>0, <2>8 DEF OpenAtFails, Same, FsTyped, fsVars
    <2>9. CASE VerifyDirectory
      BY <1>0, <2>9 DEF VerifyDirectory, Same, FsTyped, fsVars
    <2>10. CASE VerifyDirectoryFails
      BY <1>0, <2>10 DEF VerifyDirectoryFails, Same, FsTyped, fsVars
    <2>11. CASE CreatedIdentity
      BY <1>0, <2>11 DEF CreatedIdentity, Same, CreateRetains, FsTyped, fsVars
    <2>12. CASE OpenDirectory
      BY <1>0, <2>12 DEF OpenDirectory, Same, FsTyped, fsVars
    <2>13. CASE OpenDirectoryFails
      BY <1>0, <2>13 DEF OpenDirectoryFails, CreateRetains, Same, FsTyped, fsVars
    <2>14. CASE ObserveDirectory
      BY <1>0, <2>14 DEF ObserveDirectory, Same, CreateRetains, FsTyped, fsVars
    <2>15. CASE ObserveName
      BY <1>0, <2>15 DEF ObserveName, Same, CreateRetains, FsTyped, fsVars
    <2> QED
      BY <1>1, <2>1, <2>2, <2>3, <2>4, <2>5, <2>6, <2>7, <2>8, <2>9, <2>10, <2>11, <2>12, <2>13,
         <2>14, <2>15 DEF CreateNext
  <1>2. CASE WriteNext
    <2>1. CASE WriteBegin
      BY <1>0, <2>1 DEF WriteBegin, Begin, Same, FsTyped, fsVars
    <2>2. CASE AtomicOpen
      <3>1. owner.child \in Roots
        BY <1>w, <2>2 DEF AtomicOpen, Writing
      <3>2. PICK s \in StagingPaths, f \in Fresh(FileIds \ TheirIds) :
               Put(owner.child, s, f) /\ full' = full \ {f}
        BY <2>2 DEF AtomicOpen
      <3>3. s \in Paths /\ f \in Ids
        BY <1>i, <1>j, <1>s, <3>2
      <3>4. inside' \in [Roots -> [Paths -> Ids \cup {None}]]
        BY <1>0, <3>1, <3>2, <3>3, PutTyped
      <3> QED
        BY <1>0, <2>2, <3>2, <3>4 DEF AtomicOpen, FsTyped
    <2>3. CASE AtomicOpenFails
      BY <1>0, <2>3 DEF AtomicOpenFails, Same, FsTyped, fsVars
    <2>4. CASE AtomicFill
      <3>1. file \in FileIds
        BY <1>s, <2>4 DEF AtomicFill, Staging
      <3> QED
        BY <1>0, <2>4, <3>1 DEF AtomicFill, FsTyped
    <2>5. CASE AtomicCommit
      <3>1. pc = "wCommit" /\ Install(StagingShown, None) /\ UNCHANGED <<parent, full>>
        BY <2>5 DEF AtomicCommit
      <3> QED
        BY <1>0, <3>1, InstallTyped DEF FsTyped
    <2>6. CASE AtomicCommitLinked
      <3>1. PICK left \in {None, StagingShown} : Install(StagingShown, left)
        BY <2>6 DEF AtomicCommitLinked
      <3>2. pc = "wCommit" /\ UNCHANGED <<parent, full>>
        BY <2>6 DEF AtomicCommitLinked
      <3> QED
        BY <1>0, <3>1, <3>2, InstallTyped DEF FsTyped
    <2>7. CASE AtomicCommitFails
      BY <1>0, <2>7 DEF AtomicCommitFails, Same, FsTyped, fsVars
    <2>8. CASE AtomicAbort
      BY <1>0, <2>8 DEF AtomicAbort, Same, FsTyped, fsVars
    <2>9. CASE AtomicUnlink
      <3>1. name \in Paths /\ owner.child \in Roots
        BY <1>s, <1>w, <2>9 DEF AtomicUnlink, Staging, Writing
      <3>2. CASE Put(owner.child, name, None)
        BY <1>0, <2>9, <3>1, <3>2, PutTyped DEF AtomicUnlink, FsTyped
      <3>3. CASE UNCHANGED inside
        BY <1>0, <2>9, <3>3 DEF AtomicUnlink, FsTyped
      <3> QED
        BY <2>9, <3>2, <3>3 DEF AtomicUnlink
    <2>10. CASE WriteParent
      BY <1>0, <2>10 DEF WriteParent, Same, FsTyped, fsVars
    <2>11. CASE WriteParentMade
      <3>1. ParentOf(path) \in Paths /\ owner.child \in Roots
        <4>1. path \in Paths /\ owner.child \in Roots /\ Len(path) > 1
          BY <1>w, <2>11 DEF WriteParentMade, Writing
        <4>2. Len(path) \in Nat
          BY <4>1, PathsAssumption
        <4>3. \A n \in Nat : n > 1 => n # 1
          BY SMTT(30), Z3T(30)
        <4> QED
          BY <4>1, <4>2, <4>3, PathsAssumption
      <3>2. \E f \in Ids : Put(owner.child, ParentOf(path), f)
        BY <1>i, <1>j, <2>11 DEF WriteParentMade
      <3>3. inside' \in [Roots -> [Paths -> Ids \cup {None}]]
        BY <1>0, <3>1, <3>2, PutTyped
      <3> QED
        BY <1>0, <2>11, <3>3 DEF WriteParentMade, FsTyped
    <2>12. CASE WriteParentFails
      BY <1>0, <2>12 DEF WriteParentFails, Same, FsTyped, fsVars
    <2>13. CASE WriteCreate
      <3>1. path \in Paths /\ owner.child \in Roots
        BY <1>w, <2>13, ConstantsAssumption DEF WriteCreate, Writing
      <3>2. \E f \in Ids : Put(owner.child, path, f)
        BY <1>i, <1>j, <2>13 DEF WriteCreate
      <3>3. inside' \in [Roots -> [Paths -> Ids \cup {None}]]
        BY <1>0, <3>1, <3>2, PutTyped
      <3> QED
        BY <1>0, <2>13, <3>3 DEF WriteCreate, FsTyped
    <2>14. CASE WriteCreateFails
      BY <1>0, <2>14 DEF WriteCreateFails, Same, FsTyped, fsVars
    <2>15. CASE WriteIdentity
      BY <1>0, <2>15 DEF WriteIdentity, Same, FsTyped, fsVars
    <2>16. CASE WriteStream
      <3>1. file \in FileIds
        BY <1>f, <2>16 DEF WriteStream
      <3> QED
        BY <1>0, <2>16, <3>1 DEF WriteStream, FsTyped
    <2>17. CASE WriteObserve
      BY <1>0, <2>17 DEF WriteObserve, Same, FsTyped, fsVars
    <2>18. CASE RecoveryBegin
      BY <1>0, <2>18 DEF RecoveryBegin, Begin, Same, FsTyped, fsVars
    <2>19. CASE RecoveryCheck
      BY <1>0, <2>19 DEF RecoveryCheck, Same, FsTyped, fsVars
    <2>20. CASE RecoveryDelete
      <3>1. CASE /\ recov.at = "parent"
                 /\ parent' = [n \in Names |->
                                 IF parent[n] = recov.id THEN None ELSE parent[n]]
                 /\ UNCHANGED <<inside, full>>
        BY <1>0, <3>1 DEF FsTyped
      <3>2. CASE UNCHANGED <<parent, full>>
                 /\ inside' = [r \in Roots |-> [p \in Paths |->
                                 IF inside[r][p] = recov.id THEN None ELSE inside[r][p]]]
        BY <1>0, <3>2 DEF FsTyped
      <3>3. CASE \E n : RemoveRoot(n)
        BY <1>0, <3>3 DEF FsTyped, RemoveRoot
      <3>4. CASE recov.at # "parent" /\ RemoveEntry(recov.at, recov.where)
        <4>1. recov.at \in Roots /\ recov.where \in Paths
          BY <1>0, <2>20, <3>4 DEF RecoveryDelete, HeldTyped, PlaceInv, RootRecoveries,
             EntryRecoveries
        <4> QED
          BY <1>0, <3>4, <4>1, PutTyped DEF FsTyped, RemoveEntry
      <3>5. CASE Same
        BY <1>0, <3>5 DEF FsTyped, Same, fsVars
      <3> QED
        BY <2>20, <3>1, <3>2, <3>3, <3>4, <3>5 DEF RecoveryDelete
    <2> QED
      BY <1>2, <2>1, <2>2, <2>3, <2>4, <2>5, <2>6, <2>7, <2>8, <2>9, <2>10, <2>11, <2>12, <2>13,
         <2>14, <2>15, <2>16, <2>17, <2>18, <2>19, <2>20 DEF WriteNext
  <1>3. CASE CleanupNext
    <2>1. CASE CleanupBegin
      BY <1>0, <2>1 DEF CleanupBegin, Same, FsTyped, fsVars
    <2>2. CASE CleanupStart
      BY <1>0, <2>2 DEF CleanupStart, Same, FsTyped, fsVars
    <2>3. CASE CleanupList
      BY <1>0, <2>3 DEF CleanupList, Same, FsTyped, fsVars
    <2>4. CASE CleanupEntry
      BY <1>0, <2>4 DEF CleanupEntry, Same, FsTyped, fsVars
    <2>5. CASE CleanupDelete
      <3>1. owner.child \in Roots /\ path \in Paths
        BY <1>0, <2>5 DEF CleanupDelete, PlaceInv, Listing
      <3>2. CASE RemoveEntry(owner.child, path)
        BY <1>0, <3>1, <3>2, PutTyped DEF FsTyped, RemoveEntry
      <3>3. CASE Same
        BY <1>0, <3>3 DEF FsTyped, Same, fsVars
      <3> QED
        BY <2>5, <3>2, <3>3 DEF CleanupDelete
    <2>6. CASE CleanupListed
      BY <1>0, <2>6 DEF CleanupListed, Same, FsTyped, fsVars
    <2>7. CASE CleanupRoot
      BY <1>0, <2>7 DEF CleanupRoot, Same, FsTyped, fsVars
    <2>8. CASE CleanupRootDelete
      BY <1>0, <2>8 DEF CleanupRootDelete, RemoveRoot, Same, FsTyped, fsVars
    <2>9. CASE CleanupReopen
      BY <1>0, <2>9 DEF CleanupReopen, Same, FsTyped, fsVars
    <2>10. CASE RetainInPlace
      BY <1>0, <2>10 DEF RetainInPlace, Begin, Same, FsTyped, fsVars
    <2>11. CASE ProcessEnds
      BY <1>0, <2>11 DEF ProcessEnds, Same, FsTyped, fsVars
    <2>12. CASE ReopenBegin
      BY <1>0, <2>12 DEF ReopenBegin, Begin, Same, FsTyped, fsVars
    <2>13. CASE ReopenOpen
      BY <1>0, <2>13 DEF ReopenOpen, Same, FsTyped, fsVars
    <2>14. CASE ReopenVerify
      BY <1>0, <2>14 DEF ReopenVerify, Same, FsTyped, fsVars
    <2>15. CASE ReopenArm
      BY <1>0, <2>15 DEF ReopenArm, Same, FsTyped, fsVars
    <2> QED
      BY <1>3, <2>1, <2>2, <2>3, <2>4, <2>5, <2>6, <2>7, <2>8, <2>9, <2>10, <2>11, <2>12, <2>13,
         <2>14, <2>15 DEF CleanupNext
  <1>4. CASE OtherExchangesNames
    BY <1>0, <1>4 DEF OtherExchangesNames, OtherMoves, FsTyped
  <1>5. CASE OtherAddsEntry
    <2>1. PICK r \in Roots, p \in Paths, i \in Ids : Put(r, p, i)
      BY <1>i, <1>j, <1>5 DEF OtherAddsEntry
    <2> QED
      BY <1>0, <1>5, <2>1, PutTyped DEF OtherAddsEntry, FsTyped
  <1>6. CASE OtherRemovesEntry
    <2>1. PICK r \in Roots, p \in Paths : RemoveEntry(r, p)
      BY <1>6 DEF OtherRemovesEntry
    <2> QED
      BY <1>0, <2>1, PutTyped DEF RemoveEntry, FsTyped
  <1> QED
    BY <1>1, <1>2, <1>3, <1>4, <1>5, <1>6 DEF Next

\* Every step keeps the types of what the caller holds.
LEMMA HeldTypedPreserved ==
    ASSUME IInv, Next
    PROVE  HeldTyped'
  <1> USE ConstantsAssumption
  <1>0. FsTyped /\ HeldTyped /\ LocalsTyped /\ PlaceInv /\ Mine \in Roots
    BY DEF IInv, Typed, Roots
  <1>f. pc \in {"wIdentity", "wStream"} => file \in FileIds
    BY DEF IInv, WriteInv
  <1>w. pc = "wObserve" => file \in Ids
    BY DEF IInv, WriteInv, Ids
  <1>i. \A f : f \in Fresh(FileIds \ TheirIds) => f \in FileIds
    BY DEF Fresh
  <1>a. [owner EXCEPT !.armed = ~TRUE] \in Owners /\ [owner EXCEPT !.armed = ~FALSE] \in Owners
    BY <1>0, RecordsTyped DEF HeldTyped
  <1>1. CASE CreateNext
    <2>1. CASE CreateRefused
      BY <1>0, RecordsTyped, <2>1 DEF CreateRefused, Return, CreateError, Same, NoFault, Fixed,
         HeldTyped, PlaceInv, NoRecovery, Making, NoOutcome, Reopening, Writing, Listing,
         Rooting, heldVars
    <2>2. CASE CreateStart
      BY <1>0, RecordsTyped, <2>2 DEF CreateStart, Goto, Same, Keep, NoFault, Fixed, HeldTyped,
         PlaceInv, NoRecovery, Making, NoOutcome, Reopening, Writing, Listing, Rooting, callVars,
         heldVars
    <2>3. CASE NameTaken
      BY <1>0, RecordsTyped, <2>3 DEF NameTaken, Goto, Return, CreateError, Same, NoFault, Fixed,
         HeldTyped, PlaceInv, NoRecovery, Making, NoOutcome, Reopening, Writing, Listing,
         Rooting, heldVars
    <2>4. CASE MakeDirectory
      BY <1>0, RecordsTyped, <2>4 DEF MakeDirectory, Goto, Keep, Fixed, HeldTyped, PlaceInv,
         NoRecovery, Making, NoOutcome, Reopening, Writing, Listing, Rooting, heldVars
    <2>5. CASE MakeFails
      BY <1>0, RecordsTyped, <2>5 DEF MakeFails, Fault, Same, Return, CreateError, Fixed,
         HeldTyped, PlaceInv, NoRecovery, Making, NoOutcome, Reopening, Writing, Listing,
         Rooting, heldVars
    <2>6. CASE MakeFailsLate
      BY <1>0, RecordsTyped, <2>6 DEF MakeFailsLate, Fault, Return, CreateError, Fixed,
         HeldTyped, PlaceInv, NoRecovery, Making, NoOutcome, Reopening, Writing, Listing,
         Rooting, heldVars
    <2>7. CASE OpenAt
      BY <1>0, RecordsTyped, <2>7 DEF OpenAt, Goto, Same, Keep, NoFault, Fixed, HeldTyped,
         PlaceInv, NoRecovery, Making, NoOutcome, Reopening, Writing, Listing, Rooting, heldVars
    <2>8. CASE OpenAtFails
      BY <1>0, RecordsTyped, <2>8 DEF OpenAtFails, NoFault, Fault, Return, CreateError, Same,
         Fixed, HeldTyped, PlaceInv, NoRecovery, Making, NoOutcome, Reopening, Writing, Listing,
         Rooting
    <2>9. CASE VerifyDirectory
      BY <1>0, RecordsTyped, <2>9 DEF VerifyDirectory, Goto, Same, Keep, NoFault, Fixed,
         HeldTyped, PlaceInv, NoRecovery, Making, NoOutcome, Reopening, Writing, Listing,
         Rooting, callVars, heldVars
    <2>10. CASE VerifyDirectoryFails
      BY <1>0, RecordsTyped, <2>10 DEF VerifyDirectoryFails, Fault, NoFault, Return, CreateError,
         Same, Fixed, HeldTyped, PlaceInv, LocalsTyped, NoRecovery, Making, NoOutcome, Reopening,
         Writing, Listing, Rooting
    <2>11. CASE CreatedIdentity
      <3>1. Retained(name, None, None) \in Owners
        BY <1>0, <2>11, RecordsTyped DEF CreatedIdentity, PlaceInv, Making
      <3> QED
        BY <1>0, <2>11, <3>1 DEF CreatedIdentity, Keep, CreateRetains, heldVars, HeldTyped
    <2>12. CASE OpenDirectory
      BY <1>0, RecordsTyped, <2>12 DEF OpenDirectory, Goto, Same, Keep, NoFault, Fixed,
         HeldTyped, PlaceInv, NoRecovery, Making, NoOutcome, Reopening, Writing, Listing,
         Rooting, heldVars
    <2>13. CASE OpenDirectoryFails
      BY <1>0, RecordsTyped, <2>13 DEF OpenDirectoryFails, NoFault, Fault, CreateRetains, Return,
         CreateError, Same, Fixed, HeldTyped, PlaceInv, LocalsTyped, NoRecovery, Making,
         NoOutcome, Reopening, Writing, Listing, Rooting
    <2>14. CASE ObserveDirectory
      <3>1. Retained(name, handle, None) \in Owners /\ Retained(name, None, handle) \in Owners
        BY <1>0, <2>14, RecordsTyped DEF ObserveDirectory, PlaceInv, LocalsTyped, Making
      <3> QED
        BY <1>0, <2>14, <3>1 DEF ObserveDirectory, Keep, CreateRetains, heldVars, HeldTyped
    <2>15. CASE ObserveName
      BY <1>0, RecordsTyped, <2>15, SMTT(30), Z3T(30) DEF ObserveName, NoFault, Return, Outcome,
         Same, CreateRetains, Fault, Fixed, CreateError, HeldTyped, PlaceInv, LocalsTyped,
         NoRecovery, Making, NoOutcome, Reopening, Writing, Listing, Rooting
    <2> QED
      BY <1>1, <2>1, <2>2, <2>3, <2>4, <2>5, <2>6, <2>7, <2>8, <2>9, <2>10, <2>11, <2>12, <2>13,
         <2>14, <2>15 DEF CreateNext
  <1>2. CASE WriteNext
    <2>1. CASE WriteBegin
      BY <1>0, RecordsTyped, <2>1 DEF WriteBegin, Begin, NoRecovery, NoOutcome, Fixed, Same,
         HeldTyped, PlaceInv, Making, Reopening, Writing, Listing, Rooting
    <2>2. CASE AtomicOpen
      BY <1>0, <2>2 DEF AtomicOpen, Keep, heldVars, HeldTyped
    <2>3. CASE AtomicOpenFails
      BY <1>0, <2>3 DEF AtomicOpenFails, WriteFails, heldVars, HeldTyped
    <2>4. CASE AtomicFill
      BY <1>0, <2>4 DEF AtomicFill, Keep, heldVars, HeldTyped
    <2>5. CASE AtomicCommit
      BY <1>0, <2>5 DEF AtomicCommit, Keep, heldVars, HeldTyped
    <2>6. CASE AtomicCommitLinked
      BY <1>0, <2>6 DEF AtomicCommitLinked, Return, heldVars, HeldTyped
    <2>7. CASE AtomicCommitFails
      BY <1>0, <2>7 DEF AtomicCommitFails, Keep, heldVars, HeldTyped
    <2>8. CASE AtomicAbort
      BY <1>0, <2>8 DEF AtomicAbort, AbortEnds, AbortFails, Keep, heldVars, HeldTyped
    <2>9. CASE AtomicUnlink
      BY <1>0, <2>9 DEF AtomicUnlink, AbortEnds, AbortFails, Keep, heldVars, HeldTyped
    <2>10. CASE WriteParent
      BY <1>0, RecordsTyped, <2>10 DEF WriteParent, Goto, Same, Keep, NoFault, Fixed, HeldTyped,
         PlaceInv, NoRecovery, Making, NoOutcome, Reopening, Writing, Listing, Rooting, callVars,
         heldVars
    <2>11. CASE WriteParentMade
      BY <1>0, RecordsTyped, <2>11 DEF WriteParentMade, Put, Goto, NoFault, Keep, Fault,
         WriteFails, Fixed, Return, Outcome, HeldTyped, PlaceInv, NoRecovery, Making, NoOutcome,
         Reopening, Writing, Listing, Rooting, callVars, heldVars
    <2>12. CASE WriteParentFails
      BY <1>0, RecordsTyped, <2>12 DEF WriteParentFails, WriteFails, Same, Fault, NoFault,
         Return, Outcome, Fixed, HeldTyped, PlaceInv, NoRecovery, Making, NoOutcome, Reopening,
         Writing, Listing, Rooting
    <2>13. CASE WriteCreate
      BY <1>0, <1>i, RecordsTyped, <2>13, SMTT(30), Z3T(30) DEF WriteCreate, Put, Goto, NoFault,
         Keep, Fault, Return, Outcome, Fixed, HeldTyped, PlaceInv, NoRecovery, Making, NoOutcome,
         Reopening, Writing, Listing, Rooting, heldVars
    <2>14. CASE WriteCreateFails
      BY <1>0, RecordsTyped, <2>14 DEF WriteCreateFails, WriteFails, Same, Fault, NoFault,
         Return, Outcome, Fixed, HeldTyped, PlaceInv, NoRecovery, Making, NoOutcome, Reopening,
         Writing, Listing, Rooting
    <2>15. CASE WriteIdentity
      <3>1. owner.child \in Roots /\ path \in Paths /\ file \in FileIds
        BY <1>0, <1>f, <2>15 DEF WriteIdentity, PlaceInv, Writing, Listing, Rooting
      <3>2. Recovery(owner.child, path, None, file) \in EntryRecoveries
        BY <3>1, RecordsTyped
      <3> QED
        BY <1>0, <2>15, <3>2 DEF WriteIdentity, Keep, WriteFails, heldVars, HeldTyped
    <2>16. CASE WriteStream
      BY <1>0, <1>f, <1>w, RecordsTyped, <2>16, SMTT(30), Z3T(30) DEF WriteStream, Goto, Keep,
         NoFault, Fault, Fixed, HeldTyped, PlaceInv, FsTyped, NoRecovery, Making, NoOutcome,
         Reopening, Writing, Listing, Rooting, callVars, heldVars
    <2>17. CASE WriteObserve
      <3>1. owner.child \in Roots /\ path \in Paths /\ file \in Ids
        BY <1>0, <1>w, <2>17 DEF WriteObserve, PlaceInv, Writing, Listing, Rooting
      <3>2. \A i \in Ids : [owner EXCEPT !.owned[path] = i] \in Owners
        BY <1>0, <3>1, RecordsTyped DEF HeldTyped
      <3>3. inside[owner.child][path] \in Ids \cup {None}
        BY <1>0, <3>1, SMTT(30), Z3T(30) DEF FsTyped
      <3> QED
        BY <1>0, <2>17, <3>1, <3>2, <3>3 DEF WriteObserve, WriteFails, heldVars, HeldTyped
    <2>18. CASE RecoveryBegin
      BY <1>0, RecordsTyped, <2>18 DEF RecoveryBegin, NoRecovery, Begin, NoOutcome, Fixed, Same,
         HeldTyped, PlaceInv, Making, Reopening, Writing, Listing, Rooting, heldVars
    <2>19. CASE RecoveryCheck
      BY <1>0, RecordsTyped, <2>19 DEF RecoveryCheck, Same, Goto, Keep, Fault, NoFault,
         RecoveryEnds, Fixed, NoRecovery, Return, Outcome, HeldTyped, PlaceInv, Making,
         NoOutcome, Reopening, Writing, Listing, Rooting, callVars, heldVars
    <2>20. CASE RecoveryDelete
      BY <1>0, RecordsTyped, <2>20 DEF RecoveryDelete, NoFault, RecoveryEnds, RemoveRoot,
         RemoveEntry, Same, Fault, NoRecovery, Return, Outcome, Put, Fixed, HeldTyped, PlaceInv,
         Making, NoOutcome, Reopening, Writing, Listing, Rooting
    <2> QED
      BY <1>2, <2>1, <2>2, <2>3, <2>4, <2>5, <2>6, <2>7, <2>8, <2>9, <2>10, <2>11, <2>12, <2>13,
         <2>14, <2>15, <2>16, <2>17, <2>18, <2>19, <2>20 DEF WriteNext
  <1>3. CASE CleanupNext
    <2>1. CASE CleanupBegin
      BY <1>0, RecordsTyped, <2>1 DEF CleanupBegin, NoOutcome, Fixed, Same, HeldTyped, PlaceInv,
         NoRecovery, Making, Reopening, Writing, Listing, Rooting, heldVars
    <2>2. CASE CleanupStart
      BY <1>0, <1>a, <2>2 DEF CleanupStart, Same, NoFault, CleanupEnds, Goto, Keep, CleanupFails,
         Fault, Return, Outcome, Fixed, HeldTyped, PlaceInv, NoRecovery, Making, NoOutcome,
         Reopening, Writing, Listing, Rooting, callVars, heldVars
    <2>3. CASE CleanupList
      BY <1>0, <1>a, <2>3 DEF CleanupList, Same, Goto, NoFault, Keep, Fault, CleanupFails, Fixed,
         CleanupEnds, Return, Outcome, HeldTyped, PlaceInv, NoRecovery, Making, NoOutcome,
         Reopening, Writing, Listing, Rooting, heldVars
    <2>4. CASE CleanupEntry
      BY <1>0, <1>a, <2>4 DEF CleanupEntry, Same, Goto, Keep, Fault, NoFault, CleanupFails,
         Fixed, CleanupEnds, Return, Outcome, HeldTyped, PlaceInv, NoRecovery, Making, NoOutcome,
         Reopening, Writing, Listing, Rooting, heldVars
    <2>5. CASE CleanupDelete
      BY <1>0, <1>a, <2>5 DEF CleanupDelete, RemoveEntry, Goto, NoFault, Keep, Fault, Same,
         CleanupFails, Put, Fixed, CleanupEnds, Return, Outcome, HeldTyped, PlaceInv, NoRecovery,
         Making, NoOutcome, Reopening, Writing, Listing, Rooting, heldVars
    <2>6. CASE CleanupListed
      BY <1>0, RecordsTyped, <2>6 DEF CleanupListed, Goto, Same, NoFault, Fixed, HeldTyped,
         PlaceInv, NoRecovery, Making, NoOutcome, Reopening, Writing, Listing, Rooting, callVars
    <2>7. CASE CleanupRoot
      BY <1>0, <1>a, <2>7 DEF CleanupRoot, Same, Goto, Keep, Fault, NoFault, CleanupFails, Fixed,
         CleanupEnds, Return, Outcome, HeldTyped, PlaceInv, NoRecovery, Making, NoOutcome,
         Reopening, Writing, Listing, Rooting, callVars, heldVars
    <2>8. CASE CleanupRootDelete
      BY <1>0, <1>a, <2>8 DEF CleanupRootDelete, NoFault, RemoveRoot, CleanupEnds, Fault, Goto,
         Same, Keep, Return, Outcome, Fixed, HeldTyped, PlaceInv, NoRecovery, Making, NoOutcome,
         Reopening, Writing, Listing, Rooting, callVars, heldVars
    <2>9. CASE CleanupReopen
      <3>1. parent[owner.name] \in Roots \cup {None}
        BY <1>0, <2>9 DEF CleanupReopen, PlaceInv, Rooting, FsTyped
      <3>2. [owner EXCEPT !.child = parent[owner.name]] \in Owners
        BY <1>0, <3>1, RecordsTyped DEF HeldTyped
      <3>3. [[owner EXCEPT !.child = parent[owner.name]] EXCEPT !.armed = ~FALSE] \in Owners
        BY <3>2, RecordsTyped
      <3> QED
        BY <1>0, <1>a, <2>9, <3>3 DEF CleanupReopen, CleanupFails, CleanupEnds, HeldTyped
    <2>10. CASE RetainInPlace
      BY <1>0, RecordsTyped, <2>10 DEF RetainInPlace, Begin, NoOutcome, Fixed, Same, HeldTyped,
         PlaceInv, NoRecovery, Making, Reopening, Writing, Listing, Rooting, callVars
    <2>11. CASE ProcessEnds
      BY <1>0, RecordsTyped, <2>11 DEF ProcessEnds, NoRecovery, NoOutcome, Same, HeldTyped,
         PlaceInv, Making, Reopening, Writing, Listing, Rooting
    <2>12. CASE ReopenBegin
      BY <1>0, RecordsTyped, <2>12 DEF ReopenBegin, NoRecovery, Begin, NoOutcome, Fixed, Same,
         HeldTyped, PlaceInv, Making, Reopening, Writing, Listing, Rooting, heldVars
    <2>13. CASE ReopenOpen
      BY <1>0, RecordsTyped, <2>13 DEF ReopenOpen, Same, Goto, NoFault, Keep, Fault, ReopenFails,
         Fixed, Return, Outcome, HeldTyped, PlaceInv, NoRecovery, Making, NoOutcome, Reopening,
         Writing, Listing, Rooting, heldVars
    <2>14. CASE ReopenVerify
      <3>1. Retained(name, handle, handle) \in Owners
        BY <1>0, <2>14, RecordsTyped DEF ReopenVerify, PlaceInv, Reopening
      <3>2. [Retained(name, handle, handle) EXCEPT !.armed = FALSE] \in Owners
        BY <3>1, RecordsTyped
      <3> QED
        BY <1>0, <2>14, <3>2 DEF ReopenVerify, ReopenFails, heldVars, HeldTyped
    <2>15. CASE ReopenArm
      BY <1>0, RecordsTyped, <2>15 DEF ReopenArm, Same, Return, Outcome, NoFault, Fault, Goto,
         Keep, Fixed, HeldTyped, PlaceInv, NoRecovery, Making, NoOutcome, Reopening, Writing,
         Listing, Rooting, heldVars
    <2> QED
      BY <1>3, <2>1, <2>2, <2>3, <2>4, <2>5, <2>6, <2>7, <2>8, <2>9, <2>10, <2>11, <2>12, <2>13,
         <2>14, <2>15 DEF CleanupNext
  <1>4. CASE OtherExchangesNames
    BY <1>0, RecordsTyped, <1>4 DEF OtherExchangesNames, OtherMoves, HeldTyped, PlaceInv,
       NoRecovery, Making, NoOutcome, Reopening, Writing, Listing, Rooting, heldVars, callVars
  <1>5. CASE OtherAddsEntry
    BY <1>0, RecordsTyped, <1>5 DEF OtherAddsEntry, OtherMoves, Put, HeldTyped, PlaceInv,
       NoRecovery, Making, NoOutcome, Reopening, Writing, Listing, Rooting, heldVars, callVars
  <1>6. CASE OtherRemovesEntry
    BY <1>0, RecordsTyped, <1>6 DEF OtherRemovesEntry, OtherMoves, RemoveEntry, Put, HeldTyped,
       PlaceInv, NoRecovery, Making, NoOutcome, Reopening, Writing, Listing, Rooting, heldVars,
       callVars
  <1> QED
    BY <1>1, <1>2, <1>3, <1>4, <1>5, <1>6 DEF Next

\* Every step keeps the types of the locals.
LEMMA LocalsTypedPreserved ==
    ASSUME IInv, Next
    PROVE  LocalsTyped'
  <1> USE ConstantsAssumption
  <1>0. FsTyped /\ HeldTyped /\ LocalsTyped /\ PlaceInv /\ Mine \in Roots
    BY DEF IInv, Typed, Roots
  <1>i. \A f : f \in Fresh(FileIds \ TheirIds) => f \in Ids
    BY DEF Fresh, Ids
  <1>1. CASE CreateNext
    <2>1. CASE CreateRefused
      BY <1>0, <2>1 DEF CreateRefused, Return, CreateError, Same, NoFault, Fixed, LocalsTyped,
         PlaceInv, Making, NoRecovery, NoOutcome, Reopening, Writing, Listing, Rooting, heldVars
    <2>2. CASE CreateStart
      BY <1>0, <2>2 DEF CreateStart, Goto, Same, Keep, NoFault, Fixed, LocalsTyped, PlaceInv,
         Making, NoRecovery, NoOutcome, Reopening, Writing, Listing, Rooting, callVars, heldVars
    <2>3. CASE NameTaken
      BY <1>0, <2>3 DEF NameTaken, Goto, Return, CreateError, Same, NoFault, Fixed, LocalsTyped,
         PlaceInv, Making, NoRecovery, NoOutcome, Reopening, Writing, Listing, Rooting, heldVars
    <2>4. CASE MakeDirectory
      BY <1>0, <2>4 DEF MakeDirectory, Goto, Keep, Fixed, LocalsTyped, PlaceInv, Making,
         NoRecovery, NoOutcome, Reopening, Writing, Listing, Rooting, heldVars
    <2>5. CASE MakeFails
      BY <1>0, <2>5 DEF MakeFails, Fault, Same, Return, CreateError, Fixed, LocalsTyped,
         PlaceInv, Making, NoRecovery, NoOutcome, Reopening, Writing, Listing, Rooting, heldVars
    <2>6. CASE MakeFailsLate
      BY <1>0, <2>6 DEF MakeFailsLate, Fault, Return, CreateError, Fixed, LocalsTyped, PlaceInv,
         Making, NoRecovery, NoOutcome, Reopening, Writing, Listing, Rooting, heldVars
    <2>7. CASE OpenAt
      BY <1>0, <2>7 DEF OpenAt, Goto, Same, Keep, NoFault, Fixed, LocalsTyped, PlaceInv, FsTyped,
         Making, NoRecovery, NoOutcome, Reopening, Writing, Listing, Rooting, fsVars, heldVars
    <2>8. CASE OpenAtFails
      BY <1>0, <2>8 DEF OpenAtFails, NoFault, Fault, Return, CreateError, Same, Fixed,
         LocalsTyped, PlaceInv, Making, NoRecovery, NoOutcome, Reopening, Writing, Listing,
         Rooting
    <2>9. CASE VerifyDirectory
      BY <1>0, <2>9 DEF VerifyDirectory, Goto, Same, Keep, NoFault, Fixed, LocalsTyped, PlaceInv,
         Making, NoRecovery, NoOutcome, Reopening, Writing, Listing, Rooting, callVars, heldVars
    <2>10. CASE VerifyDirectoryFails
      BY <1>0, <2>10 DEF VerifyDirectoryFails, Fault, NoFault, Return, CreateError, Same, Fixed,
         LocalsTyped, PlaceInv, Making, NoRecovery, NoOutcome, Reopening, Writing, Listing,
         Rooting
    <2>11. CASE CreatedIdentity
      BY <1>0, <2>11 DEF CreatedIdentity, Goto, Same, Keep, NoFault, Fault, CreateRetains, Fixed,
         Return, CreateError, LocalsTyped, PlaceInv, Making, NoRecovery, NoOutcome, Reopening,
         Writing, Listing, Rooting, callVars, heldVars
    <2>12. CASE OpenDirectory
      BY <1>0, <2>12 DEF OpenDirectory, Goto, Same, Keep, NoFault, Fixed, LocalsTyped, PlaceInv,
         FsTyped, Making, NoRecovery, NoOutcome, Reopening, Writing, Listing, Rooting, fsVars,
         heldVars
    <2>13. CASE OpenDirectoryFails
      BY <1>0, <2>13 DEF OpenDirectoryFails, NoFault, Fault, CreateRetains, Return, CreateError,
         Same, Fixed, LocalsTyped, PlaceInv, Making, NoRecovery, NoOutcome, Reopening, Writing,
         Listing, Rooting
    <2>14. CASE ObserveDirectory
      BY <1>0, <2>14 DEF ObserveDirectory, Goto, Same, Keep, NoFault, CreateRetains, Fault,
         Fixed, Return, CreateError, LocalsTyped, PlaceInv, Making, NoRecovery, NoOutcome,
         Reopening, Writing, Listing, Rooting, callVars, heldVars
    <2>15. CASE ObserveName
      BY <1>0, <2>15 DEF ObserveName, NoFault, Return, Outcome, Same, CreateRetains, Fault,
         Fixed, CreateError, LocalsTyped, PlaceInv, Making, NoRecovery, NoOutcome, Reopening,
         Writing, Listing, Rooting
    <2> QED
      BY <1>1, <2>1, <2>2, <2>3, <2>4, <2>5, <2>6, <2>7, <2>8, <2>9, <2>10, <2>11, <2>12, <2>13,
         <2>14, <2>15 DEF CreateNext
  <1>2. CASE WriteNext
    <2>1. CASE WriteBegin
      BY <1>0, <2>1 DEF WriteBegin, Begin, NoRecovery, NoOutcome, Fixed, Same, LocalsTyped,
         PlaceInv, Making, Reopening, Writing, Listing, Rooting
    <2>2. CASE AtomicOpen
      BY <1>0, <1>i, <2>2 DEF AtomicOpen, Goto, Fixed, Keep, heldVars, callVars, LocalsTyped
    <2>3. CASE AtomicOpenFails
      BY <1>0, <2>3 DEF AtomicOpenFails, WriteFails, Return, Fixed, heldVars, callVars,
         LocalsTyped
    <2>4. CASE AtomicFill
      BY <1>0, <2>4 DEF AtomicFill, Goto, Fixed, Keep, heldVars, callVars, LocalsTyped
    <2>5. CASE AtomicCommit
      BY <1>0, <2>5 DEF AtomicCommit, Goto, Fixed, Keep, heldVars, callVars, LocalsTyped
    <2>6. CASE AtomicCommitLinked
      BY <1>0, <2>6 DEF AtomicCommitLinked, Return, Fixed, heldVars, callVars, LocalsTyped
    <2>7. CASE AtomicCommitFails
      BY <1>0, <2>7 DEF AtomicCommitFails, Goto, Fixed, Keep, heldVars, callVars, LocalsTyped
    <2>8. CASE AtomicAbort
      BY <1>0, <2>8 DEF AtomicAbort, AbortEnds, AbortFails, Return, Goto, Fixed, Keep, heldVars,
         callVars, LocalsTyped
    <2>9. CASE AtomicUnlink
      BY <1>0, <2>9 DEF AtomicUnlink, AbortEnds, AbortFails, Return, Goto, Fixed, Keep, heldVars,
         callVars, LocalsTyped
    <2>10. CASE WriteParent
      BY <1>0, <2>10 DEF WriteParent, Goto, Same, Keep, NoFault, Fixed, LocalsTyped, PlaceInv,
         Making, NoRecovery, NoOutcome, Reopening, Writing, Listing, Rooting, callVars, heldVars
    <2>11. CASE WriteParentMade
      BY <1>0, <2>11 DEF WriteParentMade, Put, Goto, NoFault, Keep, Fault, WriteFails, Fixed,
         Return, Outcome, LocalsTyped, PlaceInv, Making, NoRecovery, NoOutcome, Reopening,
         Writing, Listing, Rooting, callVars, heldVars
    <2>12. CASE WriteParentFails
      BY <1>0, <2>12 DEF WriteParentFails, WriteFails, Same, Fault, NoFault, Return, Outcome,
         Fixed, LocalsTyped, PlaceInv, Making, NoRecovery, NoOutcome, Reopening, Writing,
         Listing, Rooting
    <2>13. CASE WriteCreate
      BY <1>0, <1>i, <2>13, SMTT(30), ZenonT(60) DEF WriteCreate, Put, Goto, NoFault, Keep,
         Fault, Return, Outcome, Fixed, LocalsTyped, PlaceInv, Making, NoRecovery, NoOutcome,
         Reopening, Writing, Listing, Rooting, heldVars
    <2>14. CASE WriteCreateFails
      BY <1>0, <2>14 DEF WriteCreateFails, WriteFails, Same, Fault, NoFault, Return, Outcome,
         Fixed, LocalsTyped, PlaceInv, Making, NoRecovery, NoOutcome, Reopening, Writing,
         Listing, Rooting
    <2>15. CASE WriteIdentity
      BY <1>0, <2>15 DEF WriteIdentity, Same, Goto, Keep, NoFault, Fault, WriteFails, Fixed,
         Return, Outcome, LocalsTyped, PlaceInv, Making, NoRecovery, NoOutcome, Reopening,
         Writing, Listing, Rooting, callVars, heldVars
    <2>16. CASE WriteStream
      BY <1>0, <2>16 DEF WriteStream, Goto, Keep, NoFault, Fault, Fixed, LocalsTyped, PlaceInv,
         Making, NoRecovery, NoOutcome, Reopening, Writing, Listing, Rooting, callVars, heldVars
    <2>17. CASE WriteObserve
      BY <1>0, <2>17 DEF WriteObserve, Same, NoFault, Return, Outcome, Fault, WriteFails, Fixed,
         LocalsTyped, PlaceInv, Making, NoRecovery, NoOutcome, Reopening, Writing, Listing,
         Rooting
    <2>18. CASE RecoveryBegin
      BY <1>0, <2>18 DEF RecoveryBegin, NoRecovery, Begin, NoOutcome, Fixed, Same, LocalsTyped,
         PlaceInv, Making, Reopening, Writing, Listing, Rooting, heldVars
    <2>19. CASE RecoveryCheck
      BY <1>0, <2>19 DEF RecoveryCheck, Same, Goto, Keep, Fault, NoFault, RecoveryEnds, Fixed,
         NoRecovery, Return, Outcome, LocalsTyped, PlaceInv, Making, NoOutcome, Reopening,
         Writing, Listing, Rooting, callVars, heldVars
    <2>20. CASE RecoveryDelete
      BY <1>0, <2>20 DEF RecoveryDelete, NoFault, RecoveryEnds, RemoveRoot, RemoveEntry, Same,
         Fault, NoRecovery, Return, Outcome, Put, Fixed, LocalsTyped, PlaceInv, Making,
         NoOutcome, Reopening, Writing, Listing, Rooting
    <2> QED
      BY <1>2, <2>1, <2>2, <2>3, <2>4, <2>5, <2>6, <2>7, <2>8, <2>9, <2>10, <2>11, <2>12, <2>13,
         <2>14, <2>15, <2>16, <2>17, <2>18, <2>19, <2>20 DEF WriteNext
  <1>3. CASE CleanupNext
    <2>1. CASE CleanupBegin
      BY <1>0, <2>1 DEF CleanupBegin, NoOutcome, Fixed, Same, LocalsTyped, PlaceInv, Making,
         NoRecovery, Reopening, Writing, Listing, Rooting, heldVars
    <2>2. CASE CleanupStart
      BY <1>0, <2>2 DEF CleanupStart, Same, NoFault, CleanupEnds, Goto, Keep, CleanupFails,
         Fault, Return, Outcome, Fixed, LocalsTyped, PlaceInv, Making, NoRecovery, NoOutcome,
         Reopening, Writing, Listing, Rooting, callVars, heldVars
    <2>3. CASE CleanupList
      <3>1. ListingOf(owner.child) \subseteq Paths \X Ids
        BY <1>0, <2>3, SMTT(30), Z3T(30) DEF CleanupList, ListingOf, FsTyped, PlaceInv, Listing
      <3> QED
        BY <1>0, <2>3, <3>1 DEF CleanupList, ListingOf, Same, Goto, Keep, NoFault, Fault,
           CleanupFails, CleanupEnds, Return, Fixed, LocalsTyped, fsVars, heldVars
    <2>4. CASE CleanupEntry
      BY <1>0, <2>4, SMTT(30), Z3T(30) DEF CleanupEntry, Same, Goto, Keep, Fault, NoFault,
         CleanupFails, Fixed, CleanupEnds, Return, Outcome, LocalsTyped, PlaceInv, Making,
         NoRecovery, NoOutcome, Reopening, Writing, Listing, Rooting, heldVars
    <2>5. CASE CleanupDelete
      BY <1>0, <2>5 DEF CleanupDelete, RemoveEntry, Goto, NoFault, Keep, Fault, Same,
         CleanupFails, Put, Fixed, CleanupEnds, Return, Outcome, LocalsTyped, PlaceInv, Making,
         NoRecovery, NoOutcome, Reopening, Writing, Listing, Rooting, heldVars
    <2>6. CASE CleanupListed
      BY <1>0, <2>6 DEF CleanupListed, Goto, Same, NoFault, Fixed, LocalsTyped, PlaceInv, Making,
         NoRecovery, NoOutcome, Reopening, Writing, Listing, Rooting, callVars
    <2>7. CASE CleanupRoot
      BY <1>0, <2>7 DEF CleanupRoot, Same, Goto, Keep, Fault, NoFault, CleanupFails, Fixed,
         CleanupEnds, Return, Outcome, LocalsTyped, PlaceInv, Making, NoRecovery, NoOutcome,
         Reopening, Writing, Listing, Rooting, callVars, heldVars
    <2>8. CASE CleanupRootDelete
      BY <1>0, <2>8 DEF CleanupRootDelete, NoFault, RemoveRoot, CleanupEnds, Fault, Goto, Same,
         Keep, Return, Outcome, Fixed, LocalsTyped, PlaceInv, Making, NoRecovery, NoOutcome,
         Reopening, Writing, Listing, Rooting, callVars, heldVars
    <2>9. CASE CleanupReopen
      BY <1>0, <2>9 DEF CleanupReopen, CleanupFails, CleanupEnds, Return, Fixed, LocalsTyped
    <2>10. CASE RetainInPlace
      BY <1>0, <2>10 DEF RetainInPlace, Begin, NoOutcome, Fixed, Same, LocalsTyped, PlaceInv,
         HeldTyped, Making, NoRecovery, Reopening, Writing, Listing, Rooting, Owners, callVars
    <2>11. CASE ProcessEnds
      BY <1>0, <2>11 DEF ProcessEnds, NoRecovery, NoOutcome, Same, LocalsTyped, PlaceInv,
         HeldTyped, Making, Reopening, Writing, Listing, Rooting, Owners
    <2>12. CASE ReopenBegin
      BY <1>0, <2>12 DEF ReopenBegin, NoRecovery, Begin, NoOutcome, Fixed, Same, LocalsTyped,
         PlaceInv, Making, Reopening, Writing, Listing, Rooting, heldVars
    <2>13. CASE ReopenOpen
      BY <1>0, <2>13 DEF ReopenOpen, Same, Goto, NoFault, Keep, Fault, ReopenFails, Fixed,
         Return, Outcome, LocalsTyped, PlaceInv, Making, NoRecovery, NoOutcome, Reopening,
         Writing, Listing, Rooting, heldVars
    <2>14. CASE ReopenVerify
      BY <1>0, <2>14 DEF ReopenVerify, Same, Goto, NoFault, Fault, ReopenFails, Fixed, Return,
         Outcome, LocalsTyped, PlaceInv, Making, NoRecovery, NoOutcome, Reopening, Writing,
         Listing, Rooting, callVars, heldVars
    <2>15. CASE ReopenArm
      BY <1>0, <2>15 DEF ReopenArm, Same, Return, Outcome, NoFault, Fault, Goto, Keep, Fixed,
         LocalsTyped, PlaceInv, Making, NoRecovery, NoOutcome, Reopening, Writing, Listing,
         Rooting, heldVars
    <2> QED
      BY <1>3, <2>1, <2>2, <2>3, <2>4, <2>5, <2>6, <2>7, <2>8, <2>9, <2>10, <2>11, <2>12, <2>13,
         <2>14, <2>15 DEF CleanupNext
  <1>4. CASE OtherExchangesNames
    BY <1>0, <1>4, SMTT(30), Z3T(30) DEF OtherExchangesNames, OtherMoves, LocalsTyped, PlaceInv,
       Making, NoRecovery, NoOutcome, Reopening, Writing, Listing, Rooting, heldVars, callVars
  <1>5. CASE OtherAddsEntry
    BY <1>0, <1>5, SMTT(30), Z3T(30) DEF OtherAddsEntry, OtherMoves, Put, LocalsTyped, PlaceInv,
       Making, NoRecovery, NoOutcome, Reopening, Writing, Listing, Rooting, heldVars, callVars
  <1>6. CASE OtherRemovesEntry
    BY <1>0, <1>6, SMTT(30), Z3T(30) DEF OtherRemovesEntry, OtherMoves, RemoveEntry, Put,
       LocalsTyped, PlaceInv, Making, NoRecovery, NoOutcome, Reopening, Writing, Listing,
       Rooting, heldVars, callVars
  <1> QED
    BY <1>1, <1>2, <1>3, <1>4, <1>5, <1>6 DEF Next

\* A call that returns and leaves the caller what it holds.
LEMMA ReturnKeepsPlace ==
    ASSUME PlaceInv, NEW r, Return(r), UNCHANGED <<life, owner>>,
           pc \notin Listing \cup Rooting \cup {"cStart"}
    PROVE  PlaceInv'
  <1>1. pc' = "idle" /\ path' = None /\ file' = None /\ dropping' = FALSE
    BY DEF Return
  <1>2. /\ life # "none" => owner.name \in Names
        /\ life = "stage" => owner.child \in Roots
    BY DEF PlaceInv
  <1> QED
    BY <1>1, <1>2 DEF PlaceInv, Making, Writing, Listing, Rooting, Reopening

\* An error of create_staged_directory that hands out a resource.
LEMMA RetainKeepsPlace ==
    ASSUME NEW m, NEW i, NEW c, CreateRetains(m, i, c), name \in Names
    PROVE  PlaceInv'
  <1>1. pc' = "idle" /\ path' = None /\ file' = None /\ dropping' = FALSE /\ life' = "retained"
    BY DEF CreateRetains, Return
  <1>2. owner'.name = name /\ owner'.id = i /\ owner'.child = c
    BY DEF CreateRetains, Retained
  <1> QED
    BY <1>1, <1>2 DEF PlaceInv, Making, Writing, Listing, Rooting, Reopening

\* A step inside write_file_new.
LEMMA WritingKeepsPlace ==
    ASSUME PlaceInv, pc \in Writing, pc' \in Writing, UNCHANGED <<life, owner, path>>,
           \/ pc \notin {"wAbort", "wUnlink"} /\ dropping' = dropping
           \/ pc' \in {"wAbort", "wUnlink"}
    PROVE  PlaceInv'
  BY DEF PlaceInv, Making, Writing, Staging, Listing, Rooting, Reopening

\* The locals of the calls and what the caller holds.
LEMMA PlacePreserved ==
    ASSUME IInv, Next
    PROVE  PlaceInv'
  <1> USE ConstantsAssumption
  <1>0. FsTyped /\ HeldTyped /\ LocalsTyped /\ PlaceInv /\ Mine \in Roots
    BY DEF IInv, Typed, Roots
  <1>1. CASE CreateNext
    <2>1. CASE CreateRefused
      BY <1>0, <2>1 DEF CreateRefused, Return, CreateError, Same, NoFault, Fixed, FsTyped,
         HeldTyped, LocalsTyped, PlaceInv, Owners, NoRecovery, Making, NoOwner, NoOutcome,
         Reopening, Writing, Listing, Rooting, Plain, NoEntries, heldVars, fsVars
    <2>2. CASE CreateStart
      BY <1>0, <2>2 DEF CreateStart, Goto, Same, Keep, NoFault, Fixed, FsTyped, HeldTyped,
         LocalsTyped, PlaceInv, Owners, NoRecovery, Making, NoOwner, NoOutcome, Reopening,
         Writing, Listing, Rooting, Plain, NoEntries, callVars, fsVars, heldVars
    <2>3. CASE NameTaken
      BY <1>0, <2>3 DEF NameTaken, Goto, Return, CreateError, Same, NoFault, Fixed, FsTyped,
         HeldTyped, LocalsTyped, PlaceInv, Owners, NoRecovery, Making, NoOwner, NoOutcome,
         Reopening, Writing, Listing, Rooting, Plain, NoEntries, heldVars, fsVars
    <2>4. CASE MakeDirectory
      BY <1>0, <2>4 DEF MakeDirectory, Plain, Goto, Keep, Fixed, FsTyped, HeldTyped, LocalsTyped,
         PlaceInv, Owners, NoRecovery, Making, NoOwner, NoOutcome, Reopening, Writing, Listing,
         Rooting, NoEntries, heldVars
    <2>5. CASE MakeFails
      BY <1>0, <2>5, ReturnKeepsPlace DEF MakeFails, heldVars, Listing, Rooting
    <2>6. CASE MakeFailsLate
      BY <1>0, <2>6 DEF MakeFailsLate, Plain, Fault, Return, CreateError, Fixed, FsTyped,
         HeldTyped, LocalsTyped, PlaceInv, Owners, NoRecovery, Making, NoOwner, NoOutcome,
         Reopening, Writing, Listing, Rooting, NoEntries, heldVars
    <2>7. CASE OpenAt
      BY <1>0, <2>7 DEF OpenAt, Goto, Same, Keep, NoFault, Fixed, FsTyped, HeldTyped,
         LocalsTyped, PlaceInv, Owners, NoRecovery, Making, NoOwner, NoOutcome, Reopening,
         Writing, Listing, Rooting, Plain, NoEntries, fsVars, heldVars
    <2>8. CASE OpenAtFails
      BY <1>0, <2>8 DEF OpenAtFails, NoFault, Fault, Recovery, Return, CreateError, Same, Fixed,
         FsTyped, HeldTyped, LocalsTyped, PlaceInv, Owners, NoRecovery, Making, NoOwner,
         NoOutcome, Reopening, Writing, Listing, Rooting, Plain, NoEntries, fsVars
    <2>9. CASE VerifyDirectory
      BY <1>0, <2>9 DEF VerifyDirectory, Goto, Same, Keep, NoFault, Fixed, FsTyped, HeldTyped,
         LocalsTyped, PlaceInv, Owners, NoRecovery, Making, NoOwner, NoOutcome, Reopening,
         Writing, Listing, Rooting, Plain, NoEntries, callVars, fsVars, heldVars
    <2>10. CASE VerifyDirectoryFails
      BY <1>0, <2>10 DEF VerifyDirectoryFails, Fault, NoFault, Recovery, Retained, Return,
         CreateError, Same, NoEntries, Fixed, FsTyped, HeldTyped, LocalsTyped, PlaceInv, Owners,
         NoRecovery, Making, NoOwner, NoOutcome, Reopening, Writing, Listing, Rooting, Plain,
         fsVars
    <2>11. CASE CreatedIdentity
      <3>1. CASE CreateRetains("Started", None, None)
        BY <1>0, <2>11, <3>1, RetainKeepsPlace DEF CreatedIdentity, PlaceInv, Making
      <3>2. CASE Goto("openDir") /\ Keep /\ UNCHANGED callVars
        BY <1>0, <2>11, <3>2 DEF CreatedIdentity, Goto, Fixed, Keep, heldVars, callVars,
           PlaceInv, Plain, Making, Writing, Listing, Rooting, Reopening
      <3> QED
        BY <2>11, <3>1, <3>2 DEF CreatedIdentity, callVars
    <2>12. CASE OpenDirectory
      BY <1>0, <2>12 DEF OpenDirectory, Plain, Goto, Same, Keep, NoFault, Fixed, FsTyped,
         HeldTyped, LocalsTyped, PlaceInv, Owners, NoRecovery, Making, NoOwner, NoOutcome,
         Reopening, Writing, Listing, Rooting, NoEntries, fsVars, heldVars
    <2>13. CASE OpenDirectoryFails
      BY <1>0, <2>13 DEF OpenDirectoryFails, NoFault, Fault, CreateRetains, Plain, Retained,
         Return, CreateError, Same, NoEntries, Fixed, FsTyped, HeldTyped, LocalsTyped, PlaceInv,
         Owners, NoRecovery, Making, NoOwner, NoOutcome, Reopening, Writing, Listing, Rooting,
         fsVars
    <2>14. CASE ObserveDirectory
      <3>0. pc = "observe" /\ name \in Names
        BY <1>0, <2>14 DEF ObserveDirectory, PlaceInv, Making
      <3>1. CASE \E m : CreateRetains(m, handle, None) \/ CreateRetains(m, None, handle)
        BY <3>0, <3>1, RetainKeepsPlace
      <3>2. CASE Goto("named") /\ Keep /\ UNCHANGED callVars
        BY <1>0, <3>0, <3>2 DEF Goto, Fixed, Keep, heldVars, callVars, PlaceInv, Plain, Making,
           Writing, Listing, Rooting, Reopening
      <3> QED
        BY <2>14, <3>1, <3>2 DEF ObserveDirectory, callVars
    <2>15. CASE ObserveName
      <3>0. pc = "named" /\ name \in Names /\ handle \in Roots
        BY <1>0, <2>15 DEF ObserveName, PlaceInv, Making
      <3>1. CASE \E m : CreateRetains(m, handle, None)
        BY <3>0, <3>1, RetainKeepsPlace
      <3>2. CASE /\ life' = "stage" /\ owner' = Retained(name, handle, handle)
                 /\ Return(Outcome("create", TRUE))
        <4>1. owner'.name = name /\ owner'.id = handle /\ owner'.child = handle
          BY <3>2 DEF Retained
        <4>2. pc' = "idle" /\ path' = None /\ file' = None /\ dropping' = FALSE
          BY <3>2 DEF Return
        <4> QED
          BY <3>0, <4>1, <4>2 DEF PlaceInv, Making, Writing, Listing, Rooting, Reopening
      <3> QED
        BY <2>15, <3>1, <3>2 DEF ObserveName
    <2> QED
      BY <1>1, <2>1, <2>2, <2>3, <2>4, <2>5, <2>6, <2>7, <2>8, <2>9, <2>10, <2>11, <2>12, <2>13,
         <2>14, <2>15 DEF CreateNext
  <1>2. CASE WriteNext
    <2>1. CASE WriteBegin
      BY <1>0, <2>1 DEF WriteBegin, Begin, Plain, NoRecovery, NoOutcome, Fixed, Same, FsTyped,
         HeldTyped, LocalsTyped, PlaceInv, Owners, Making, NoOwner, Reopening, Writing, Listing,
         Rooting, NoEntries, fsVars
    <2>2. CASE AtomicOpen
      BY <1>0, <2>2, WritingKeepsPlace DEF AtomicOpen, Goto, Keep, heldVars, callVars, Writing,
         Staging
    <2>3. CASE AtomicOpenFails
      BY <1>0, <2>3, ReturnKeepsPlace DEF AtomicOpenFails, WriteFails, heldVars, Listing, Rooting
    <2>4. CASE AtomicFill
      BY <1>0, <2>4, WritingKeepsPlace DEF AtomicFill, Goto, Keep, heldVars, callVars, Writing,
         Staging
    <2>5. CASE AtomicCommit
      BY <1>0, <2>5, WritingKeepsPlace DEF AtomicCommit, Goto, Keep, heldVars, callVars, Writing,
         Staging
    <2>6. CASE AtomicCommitLinked
      BY <1>0, <2>6, ReturnKeepsPlace DEF AtomicCommitLinked, heldVars, Listing, Rooting
    <2>7. CASE AtomicCommitFails
      BY <1>0, <2>7, WritingKeepsPlace DEF AtomicCommitFails, Goto, Keep, heldVars, callVars,
         Writing, Staging
    <2>8. CASE AtomicAbort
      <3>1. pc \in {"wAbort", "wUnlink"}
        BY <2>8 DEF AtomicAbort
      <3>2. CASE Return(CleanupError) \/ Return(Outcome("write", FALSE))
        BY <1>0, <2>8, <3>1, <3>2, ReturnKeepsPlace DEF AtomicAbort, AbortEnds, AbortFails, Keep,
           heldVars, Listing, Rooting
      <3>3. CASE pc' \in {"wAbort", "wUnlink"} /\ UNCHANGED <<heldVars, path>>
        BY <1>0, <3>1, <3>3, WritingKeepsPlace DEF heldVars, Writing, Staging
      <3> QED
        BY <2>8, <3>2, <3>3 DEF AtomicAbort, AbortEnds, AbortFails, Goto, Keep, callVars
    <2>9. CASE AtomicUnlink
      <3>1. pc \in {"wAbort", "wUnlink"}
        BY <2>9 DEF AtomicUnlink
      <3>2. CASE Return(CleanupError) \/ Return(Outcome("write", FALSE))
        BY <1>0, <2>9, <3>1, <3>2, ReturnKeepsPlace DEF AtomicUnlink, AbortEnds, AbortFails,
           Keep, heldVars, Listing, Rooting
      <3>3. CASE pc' \in {"wAbort", "wUnlink"} /\ UNCHANGED <<heldVars, path>>
        BY <1>0, <3>1, <3>3, WritingKeepsPlace DEF heldVars, Writing, Staging
      <3> QED
        BY <2>9, <3>2, <3>3 DEF AtomicUnlink, AbortEnds, AbortFails, Goto, Keep, callVars
    <2>10. CASE WriteParent
      BY <1>0, <2>10 DEF WriteParent, Goto, Same, Keep, NoFault, Fixed, FsTyped, HeldTyped,
         LocalsTyped, PlaceInv, Owners, NoRecovery, Making, NoOwner, NoOutcome, Reopening,
         Writing, Listing, Rooting, Plain, NoEntries, callVars, fsVars, heldVars
    <2>11. CASE WriteParentMade
      <3>1. CASE Goto("wCreate") /\ Keep /\ UNCHANGED <<path, dropping>>
        BY <1>0, <2>11, <3>1, WritingKeepsPlace DEF WriteParentMade, Goto, Fixed, Keep, heldVars,
           Writing
      <3>2. CASE WriteFails
        BY <1>0, <2>11, <3>2, ReturnKeepsPlace DEF WriteParentMade, WriteFails, heldVars,
           Listing, Rooting
      <3> QED
        BY <2>11, <3>1, <3>2 DEF WriteParentMade, callVars
    <2>12. CASE WriteParentFails
      BY <1>0, <2>12 DEF WriteParentFails, WriteFails, Same, Fault, NoFault, Return, Outcome,
         Fixed, FsTyped, HeldTyped, LocalsTyped, PlaceInv, Owners, NoRecovery, Making, NoOwner,
         NoOutcome, Reopening, Writing, Listing, Rooting, Plain, NoEntries, fsVars
    <2>13. CASE WriteCreate
      <3>1. CASE Goto("wIdentity") /\ Keep /\ UNCHANGED <<path, dropping>>
        BY <1>0, <2>13, <3>1, WritingKeepsPlace DEF WriteCreate, Goto, Fixed, Keep, heldVars,
           Writing
      <3>2. CASE Return(Outcome("write", FALSE)) /\ UNCHANGED <<life, owner>>
        BY <1>0, <2>13, <3>2, ReturnKeepsPlace DEF WriteCreate, WriteFails, heldVars, Listing,
           Rooting
      <3> QED
        BY <2>13, <3>1, <3>2 DEF WriteCreate, callVars
    <2>14. CASE WriteCreateFails
      BY <1>0, <2>14 DEF WriteCreateFails, WriteFails, Same, Fault, NoFault, Return, Outcome,
         Fixed, FsTyped, HeldTyped, LocalsTyped, PlaceInv, Owners, NoRecovery, Making, NoOwner,
         NoOutcome, Reopening, Writing, Listing, Rooting, Plain, NoEntries, fsVars
    <2>15. CASE WriteIdentity
      BY <1>0, <2>15 DEF WriteIdentity, Same, Goto, Keep, NoFault, Fault, WriteFails, Recovery,
         Fixed, Return, Outcome, FsTyped, HeldTyped, LocalsTyped, PlaceInv, Owners, NoRecovery,
         Making, NoOwner, NoOutcome, Reopening, Writing, Listing, Rooting, Plain, NoEntries,
         callVars, fsVars, heldVars
    <2>16. CASE WriteStream
      <3>1. CASE Goto("wObserve") /\ Keep /\ UNCHANGED callVars
        BY <1>0, <2>16, <3>1, WritingKeepsPlace DEF WriteStream, Goto, Fixed, Keep, heldVars,
           callVars, Writing
      <3>2. CASE /\ Goto("rCheck") /\ recov' = Recovery(owner.child, path, file, file)
                 /\ UNCHANGED <<life, owner, callVars>>
        <4>1. recov' # NoRecovery
          BY <1>0, <2>16, <3>2 DEF WriteStream, PlaceInv, Writing, Recovery, NoRecovery
        <4> QED
          BY <1>0, <2>16, <3>2, <4>1 DEF WriteStream, Goto, Fixed, callVars, PlaceInv, Making,
             Writing, Listing, Rooting, Reopening
      <3> QED
        BY <2>16, <3>1, <3>2 DEF WriteStream
    <2>17. CASE WriteObserve
      BY <1>0, <2>17 DEF WriteObserve, Same, Plain, NoFault, Return, Outcome, Fault, WriteFails,
         Fixed, FsTyped, HeldTyped, LocalsTyped, PlaceInv, Owners, NoRecovery, Making, NoOwner,
         NoOutcome, Reopening, Writing, Listing, Rooting, NoEntries, fsVars
    <2>18. CASE RecoveryBegin
      BY <1>0, <2>18 DEF RecoveryBegin, NoRecovery, Begin, NoOutcome, Fixed, Same, FsTyped,
         HeldTyped, LocalsTyped, PlaceInv, Owners, Making, NoOwner, Reopening, Writing, Listing,
         Rooting, Plain, NoEntries, heldVars, fsVars
    <2>19. CASE RecoveryCheck
      <3>1. CASE RecoveryEnds(FALSE)
        BY <1>0, <2>19, <3>1, ReturnKeepsPlace DEF RecoveryCheck, RecoveryEnds, Listing, Rooting
      <3>2. CASE Goto("rDelete") /\ Keep /\ UNCHANGED callVars
        BY <1>0, <2>19, <3>2 DEF RecoveryCheck, Goto, Fixed, Keep, heldVars, callVars, PlaceInv,
           Making, Writing, Listing, Rooting, Reopening
      <3> QED
        BY <2>19, <3>1, <3>2 DEF RecoveryCheck
    <2>20. CASE RecoveryDelete
      BY <1>0, <2>20 DEF RecoveryDelete, NoFault, RecoveryEnds, RemoveRoot, RemoveEntry, Same,
         Fault, NoRecovery, Return, Outcome, Put, Fixed, FsTyped, HeldTyped, LocalsTyped,
         PlaceInv, Owners, Making, NoOwner, NoOutcome, Reopening, Writing, Listing, Rooting,
         Plain, NoEntries, fsVars
    <2> QED
      BY <1>2, <2>1, <2>2, <2>3, <2>4, <2>5, <2>6, <2>7, <2>8, <2>9, <2>10, <2>11, <2>12, <2>13,
         <2>14, <2>15, <2>16, <2>17, <2>18, <2>19, <2>20 DEF WriteNext
  <1>3. CASE CleanupNext
    <2>1. CASE CleanupBegin
      BY <1>0, <2>1 DEF CleanupBegin, NoOutcome, Fixed, Same, FsTyped, HeldTyped, LocalsTyped,
         PlaceInv, Owners, NoRecovery, Making, NoOwner, Reopening, Writing, Listing, Rooting,
         Plain, NoEntries, heldVars, fsVars
    <2>2. CASE CleanupStart
      BY <1>0, <2>2 DEF CleanupStart, Same, NoFault, CleanupEnds, Goto, Keep, CleanupFails,
         Fault, Return, Outcome, Fixed, FsTyped, HeldTyped, LocalsTyped, PlaceInv, Owners,
         NoRecovery, Making, NoOwner, NoOutcome, Reopening, Writing, Listing, Rooting, Plain,
         NoEntries, callVars, fsVars, heldVars
    <2>3. CASE CleanupList
      BY <1>0, <2>3 DEF CleanupList, Same, Goto, NoFault, Keep, Fault, CleanupFails, Fixed,
         CleanupEnds, Return, Outcome, FsTyped, HeldTyped, LocalsTyped, PlaceInv, Owners,
         NoRecovery, Making, NoOwner, NoOutcome, Reopening, Writing, Listing, Rooting, Plain,
         NoEntries, fsVars, heldVars
    <2>4. CASE CleanupEntry
      BY <1>0, <2>4, SMTT(30), Z3T(30) DEF CleanupEntry, Same, Goto, Keep, Fault, NoFault,
         CleanupFails, Fixed, CleanupEnds, Return, Outcome, FsTyped, HeldTyped, LocalsTyped,
         PlaceInv, Owners, NoRecovery, Making, NoOwner, NoOutcome, Reopening, Writing, Listing,
         Rooting, Plain, NoEntries, fsVars, heldVars
    <2>5. CASE CleanupDelete
      BY <1>0, <2>5 DEF CleanupDelete, RemoveEntry, Goto, NoFault, Keep, Fault, Same,
         CleanupFails, Put, Fixed, CleanupEnds, Return, Outcome, FsTyped, HeldTyped, LocalsTyped,
         PlaceInv, Owners, NoRecovery, Making, NoOwner, NoOutcome, Reopening, Writing, Listing,
         Rooting, Plain, NoEntries, heldVars, fsVars
    <2>6. CASE CleanupListed
      BY <1>0, <2>6 DEF CleanupListed, Goto, Same, NoFault, Fixed, FsTyped, HeldTyped,
         LocalsTyped, PlaceInv, Owners, NoRecovery, Making, NoOwner, NoOutcome, Reopening,
         Writing, Listing, Rooting, Plain, NoEntries, callVars, fsVars
    <2>7. CASE CleanupRoot
      BY <1>0, <2>7 DEF CleanupRoot, Same, Goto, Keep, Fault, NoFault, CleanupFails, Fixed,
         CleanupEnds, Return, Outcome, FsTyped, HeldTyped, LocalsTyped, PlaceInv, Owners,
         NoRecovery, Making, NoOwner, NoOutcome, Reopening, Writing, Listing, Rooting, Plain,
         NoEntries, callVars, fsVars, heldVars
    <2>8. CASE CleanupRootDelete
      BY <1>0, <2>8 DEF CleanupRootDelete, NoFault, RemoveRoot, CleanupEnds, Fault, Goto, Same,
         Keep, Return, Outcome, Fixed, FsTyped, HeldTyped, LocalsTyped, PlaceInv, Owners,
         NoRecovery, Making, NoOwner, NoOutcome, Reopening, Writing, Listing, Rooting, Plain,
         NoEntries, callVars, fsVars, heldVars
    <2>9. CASE CleanupReopen
      <3>1. /\ pc' = "idle" /\ path' = None /\ file' = None /\ dropping' = FALSE
            /\ life' \in {"none", "retained"}
        BY <2>9 DEF CleanupReopen, CleanupFails, CleanupEnds, Return
      <3>2. owner'.name = owner.name /\ owner.name \in Names
        BY <1>0, <2>9 DEF CleanupReopen, CleanupFails, CleanupEnds, PlaceInv, Rooting, HeldTyped,
           Owners
      <3> QED
        BY <3>1, <3>2 DEF PlaceInv, Making, Writing, Listing, Rooting, Reopening
    <2>10. CASE RetainInPlace
      BY <1>0, <2>10 DEF RetainInPlace, Begin, NoOwner, NoOutcome, Fixed, Same, NoEntries,
         FsTyped, HeldTyped, LocalsTyped, PlaceInv, Owners, NoRecovery, Making, Reopening,
         Writing, Listing, Rooting, Plain, callVars, fsVars
    <2>11. CASE ProcessEnds
      BY <1>0, <2>11 DEF ProcessEnds, NoOwner, NoRecovery, NoOutcome, Same, NoEntries, FsTyped,
         HeldTyped, LocalsTyped, PlaceInv, Owners, Making, Reopening, Writing, Listing, Rooting,
         Plain, fsVars
    <2>12. CASE ReopenBegin
      BY <1>0, <2>12 DEF ReopenBegin, NoRecovery, Begin, NoOutcome, Fixed, Same, FsTyped,
         HeldTyped, LocalsTyped, PlaceInv, Owners, Making, NoOwner, Reopening, Writing, Listing,
         Rooting, Plain, NoEntries, heldVars, fsVars
    <2>13. CASE ReopenOpen
      BY <1>0, <2>13 DEF ReopenOpen, Same, Goto, NoFault, Keep, Fault, ReopenFails, Fixed,
         Return, Outcome, FsTyped, HeldTyped, LocalsTyped, PlaceInv, Owners, NoRecovery, Making,
         NoOwner, NoOutcome, Reopening, Writing, Listing, Rooting, Plain, NoEntries, fsVars,
         heldVars
    <2>14. CASE ReopenVerify
      BY <1>0, <2>14 DEF ReopenVerify, Same, Retained, Goto, NoFault, Fault, ReopenFails,
         NoEntries, Fixed, Return, Outcome, FsTyped, HeldTyped, LocalsTyped, PlaceInv, Owners,
         NoRecovery, Making, NoOwner, NoOutcome, Reopening, Writing, Listing, Rooting, Plain,
         callVars, fsVars, heldVars
    <2>15. CASE ReopenArm
      BY <1>0, <2>15 DEF ReopenArm, Same, Return, Outcome, NoFault, Fault, Goto, Keep, Fixed,
         FsTyped, HeldTyped, LocalsTyped, PlaceInv, Owners, NoRecovery, Making, NoOwner,
         NoOutcome, Reopening, Writing, Listing, Rooting, Plain, NoEntries, fsVars, heldVars
    <2> QED
      BY <1>3, <2>1, <2>2, <2>3, <2>4, <2>5, <2>6, <2>7, <2>8, <2>9, <2>10, <2>11, <2>12, <2>13,
         <2>14, <2>15 DEF CleanupNext
  <1>4. CASE OtherExchangesNames
    <2>1. UNCHANGED <<pc, opts, heldVars, callVars, outcome>>
      BY <1>4 DEF OtherExchangesNames, OtherMoves
    <2> QED
      BY <1>0, <2>1, SMTT(30), Z3T(30) DEF PlaceInv, Plain, heldVars, callVars
  <1>5. CASE OtherAddsEntry
    <2>1. UNCHANGED <<pc, opts, heldVars, callVars, outcome>>
      BY <1>5 DEF OtherAddsEntry, OtherMoves
    <2> QED
      BY <1>0, <2>1, SMTT(30), Z3T(30) DEF PlaceInv, Plain, heldVars, callVars
  <1>6. CASE OtherRemovesEntry
    <2>1. UNCHANGED <<pc, opts, heldVars, callVars, outcome>>
      BY <1>6 DEF OtherRemovesEntry, OtherMoves
    <2> QED
      BY <1>0, <2>1, SMTT(30), Z3T(30) DEF PlaceInv, Plain, heldVars, callVars
  <1> QED
    BY <1>1, <1>2, <1>3, <1>4, <1>5, <1>6 DEF Next

\* An error of create_staged_directory that hands out a resource reports the directory it made.
LEMMA RetainsReports ==
    ASSUME IInv, pc \in Making, NEW m \in {"Started", "Indeterminate"},
           NEW i \in Roots \cup {None}, NEW c \in Roots \cup {None}, CreateRetains(m, i, c),
           i # None /\ "made" \in quiet' => i = Mine
    PROVE  CreateInv'
  <1>1. /\ pc' = "idle" /\ outcome'.op = "create" /\ outcome'.ok = FALSE /\ outcome'.mutation = m
        /\ owner' = Retained(name, i, c) /\ made' = made
    BY DEF CreateRetains, Return, CreateError
  <1>2. name \in Names /\ made = {Mine}
    BY DEF IInv, PlaceInv, CreateInv
  <1>3. Retained(name, i, c).name = name /\ Retained(name, i, c).id = i
    BY DEF Retained
  <1> QED
    BY <1>1, <1>2, <1>3, ConstantsAssumption DEF CreateInv, Created, Making

\* A call that fails before anything was made.
LEMMA NothingMade ==
    ASSUME IInv, pc \in {"start", "mkdir"}, NEW m, m # "Started", Return(CreateError(m)),
           UNCHANGED <<heldVars, made>>
    PROVE  CreateInv'
  <1>1. pc' = "idle" /\ outcome'.op = "create" /\ outcome'.ok = FALSE /\ outcome'.mutation = m
    BY DEF Return, CreateError
  <1>2. made' = {} /\ owner'.id = None
    BY SMTT(30), Z3T(30) DEF IInv, PlaceInv, CreateInv, NoOwner, heldVars
  <1> QED
    BY <1>1, <1>2 DEF CreateInv, Created, Making

\* The steps of the other calls.
LEMMA FarFromCreate ==
    ASSUME pc' \notin {"start", "mkdir"} \cup Making, pc' = "idle" => outcome'.op # "create"
    PROVE  CreateInv'
  BY DEF CreateInv, Created, Making

\* What create_staged_directory has made, opened and reported.
LEMMA CreatePreserved ==
    ASSUME IInv, Next
    PROVE  CreateInv'
  <1> USE ConstantsAssumption
  <1>0. /\ FsTyped /\ HeldTyped /\ LocalsTyped /\ PlaceInv /\ CreateInv /\ WriteInv /\ CleanInv
        /\ Mine \in Roots
    BY DEF IInv, Typed, Roots
  <1>1. CASE CreateNext
    <2>1. CASE CreateRefused
      BY <2>1, NothingMade DEF CreateRefused
    <2>2. CASE CreateStart
      BY <1>0, <2>2 DEF CreateStart, Goto, Same, Keep, NoFault, Fixed, CreateInv, PlaceInv,
         FsTyped, Making, Plain, Created, NoOwner, NoRecovery, NoOutcome, Reopening, Writing,
         Listing, Rooting, callVars, fsVars, heldVars
    <2>3. CASE NameTaken
      <3>1. CASE Return(CreateError("NotStarted"))
        BY <2>3, <3>1, NothingMade DEF NameTaken
      <3>2. CASE Goto("mkdir") /\ UNCHANGED outcome
        BY <1>0, <2>3, <3>2 DEF NameTaken, Goto, CreateInv, Created, Making
      <3> QED
        BY <2>3, <3>1, <3>2 DEF NameTaken
    <2>4. CASE MakeDirectory
      BY <1>0, <2>4 DEF MakeDirectory, Plain, Goto, Keep, Fixed, CreateInv, PlaceInv, FsTyped,
         Making, Created, NoOwner, NoRecovery, NoOutcome, Reopening, Writing, Listing, Rooting,
         heldVars
    <2>5. CASE MakeFails
      <3>1. PICK m \in {"NotStarted", "Indeterminate"} : Return(CreateError(m))
        BY <2>5 DEF MakeFails
      <3> QED
        BY <2>5, <3>1, NothingMade DEF MakeFails
    <2>6. CASE MakeFailsLate
      BY <1>0, <2>6 DEF MakeFailsLate, Plain, Fault, Return, CreateError, Fixed, CreateInv,
         PlaceInv, FsTyped, Making, Created, NoOwner, NoRecovery, NoOutcome, Reopening, Writing,
         Listing, Rooting, heldVars
    <2>7. CASE OpenAt
      BY <1>0, <2>7 DEF OpenAt, Goto, Same, Keep, NoFault, Fixed, CreateInv, PlaceInv, FsTyped,
         Making, Plain, Created, NoOwner, NoRecovery, NoOutcome, Reopening, Writing, Listing,
         Rooting, fsVars, heldVars
    <2>8. CASE OpenAtFails
      BY <1>0, <2>8 DEF OpenAtFails, NoFault, Fault, Recovery, Return, CreateError, Same, Fixed,
         CreateInv, PlaceInv, FsTyped, Making, Plain, Created, NoOwner, NoRecovery, NoOutcome,
         Reopening, Writing, Listing, Rooting, fsVars
    <2>9. CASE VerifyDirectory
      BY <1>0, <2>9 DEF VerifyDirectory, Verified, Goto, Same, Keep, NoFault, Fixed, CreateInv,
         PlaceInv, FsTyped, Making, Plain, Created, NoOwner, NoRecovery, NoOutcome, Reopening,
         Writing, Listing, Rooting, callVars, fsVars, heldVars
    <2>10. CASE VerifyDirectoryFails
      BY <1>0, <2>10 DEF VerifyDirectoryFails, Verified, Fault, NoFault, Recovery, Retained,
         Return, CreateError, Same, Fixed, CreateInv, PlaceInv, FsTyped, Making, Plain, Created,
         NoOwner, NoRecovery, NoOutcome, Reopening, Writing, Listing, Rooting, fsVars
    <2>11. CASE CreatedIdentity
      <3>1. CASE Goto("openDir") /\ Same /\ UNCHANGED <<callVars, made>> /\ NoFault
        BY <1>0, <2>11, <3>1 DEF CreatedIdentity, Goto, Same, NoFault, Fixed, CreateInv, Plain,
           Created, Making, fsVars, callVars
      <3>2. CASE CreateRetains("Started", None, None)
        BY <2>11, <3>2, RetainsReports DEF CreatedIdentity, Making
      <3> QED
        BY <2>11, <3>1, <3>2 DEF CreatedIdentity
    <2>12. CASE OpenDirectory
      BY <1>0, <2>12 DEF OpenDirectory, Plain, Goto, Same, Keep, NoFault, Fixed, CreateInv,
         PlaceInv, FsTyped, Making, Created, NoOwner, NoRecovery, NoOutcome, Reopening, Writing,
         Listing, Rooting, fsVars, heldVars
    <2>13. CASE OpenDirectoryFails
      BY <1>0, <2>13 DEF OpenDirectoryFails, NoFault, Fault, CreateRetains, Plain, Retained,
         Return, CreateError, Same, Fixed, CreateInv, PlaceInv, FsTyped, Making, Created,
         NoOwner, NoRecovery, NoOutcome, Reopening, Writing, Listing, Rooting, fsVars
    <2>14. CASE ObserveDirectory
      <3>0. pc = "observe" /\ handle \in Roots
        BY <1>0, <2>14 DEF ObserveDirectory, PlaceInv
      <3>1. CASE file = handle /\ Goto("named") /\ Same /\ UNCHANGED <<callVars, made>> /\ NoFault
        BY <1>0, <3>0, <3>1 DEF Goto, Same, NoFault, Fixed, CreateInv, Plain, Created, Making,
           fsVars, callVars
      <3>2. CASE file # handle /\ NoFault /\ CreateRetains("Indeterminate", handle, None)
        <4>1. "made" \in quiet' => handle = Mine
          BY <1>0, <3>0, <3>2 DEF NoFault, CreateInv
        <4> QED
          BY <3>0, <3>2, <4>1, RetainsReports DEF Making
      <3>3. CASE \/ Fault /\ CreateRetains("Started", None, handle)
                 \/ Fault /\ CreateRetains("Started", handle, None)
        <4>1. "made" \notin quiet'
          BY <3>3 DEF Fault
        <4> QED
          BY <3>0, <3>3, <4>1, RetainsReports DEF Making
      <3> QED
        BY <2>14, <3>1, <3>2, <3>3 DEF ObserveDirectory
    <2>15. CASE ObserveName
      <3>0. pc = "named" /\ handle \in Roots
        BY <1>0, <2>15 DEF ObserveName, PlaceInv
      <3>1. CASE /\ NoFault /\ owner' = Retained(name, handle, handle)
                 /\ Return(Outcome("create", TRUE)) /\ UNCHANGED made
        <4>1. owner'.id = handle /\ owner'.child = handle /\ owner'.armed
          BY <3>1 DEF Retained
        <4>2. /\ pc' = "idle" /\ outcome'.ok = TRUE /\ outcome'.mutation # "Started"
              /\ UNCHANGED <<quiet, opts>>
          BY <3>1 DEF Return, Outcome, NoFault, Fixed
        <4> QED
          BY <1>0, <3>0, <4>1, <4>2 DEF CreateInv, Created, Making, Plain
      <3>2. CASE CreateRetains("Indeterminate", handle, None) /\ (NoFault \/ Fault)
        <4>1. "made" \in quiet' => handle = Mine
          BY <1>0, <3>0, <3>2 DEF NoFault, Fault, CreateInv
        <4> QED
          BY <3>0, <3>2, <4>1, RetainsReports DEF Making
      <3> QED
        BY <2>15, <3>1, <3>2 DEF ObserveName
    <2> QED
      BY <1>1, <2>1, <2>2, <2>3, <2>4, <2>5, <2>6, <2>7, <2>8, <2>9, <2>10, <2>11, <2>12, <2>13,
         <2>14, <2>15 DEF CreateNext
  <1>2. CASE WriteNext
    <2>1. CASE WriteBegin
      <3>1. pc' \notin {"start", "mkdir"} \cup Making /\ (pc' = "idle" => outcome'.op # "create")
        BY <2>1 DEF WriteBegin, Begin, NoOutcome, Making
      <3> QED
        BY <3>1, FarFromCreate
    <2>2. CASE AtomicOpen
      <3>1. pc' \notin {"start", "mkdir"} \cup Making /\ (pc' = "idle" => outcome'.op # "create")
        BY <2>2 DEF AtomicOpen, Goto, Making
      <3> QED
        BY <3>1, FarFromCreate
    <2>3. CASE AtomicOpenFails
      <3>1. pc' \notin {"start", "mkdir"} \cup Making /\ (pc' = "idle" => outcome'.op # "create")
        BY <2>3 DEF AtomicOpenFails, WriteFails, Return, Outcome, Making
      <3> QED
        BY <3>1, FarFromCreate
    <2>4. CASE AtomicFill
      <3>1. pc' \notin {"start", "mkdir"} \cup Making /\ (pc' = "idle" => outcome'.op # "create")
        BY <2>4 DEF AtomicFill, Goto, Making
      <3> QED
        BY <3>1, FarFromCreate
    <2>5. CASE AtomicCommit
      <3>1. pc' \notin {"start", "mkdir"} \cup Making /\ (pc' = "idle" => outcome'.op # "create")
        BY <2>5 DEF AtomicCommit, Goto, Making
      <3> QED
        BY <3>1, FarFromCreate
    <2>6. CASE AtomicCommitLinked
      <3>1. pc' \notin {"start", "mkdir"} \cup Making /\ (pc' = "idle" => outcome'.op # "create")
        BY <2>6 DEF AtomicCommitLinked, Return, CleanupError, Outcome, Making
      <3> QED
        BY <3>1, FarFromCreate
    <2>7. CASE AtomicCommitFails
      <3>1. pc' \notin {"start", "mkdir"} \cup Making /\ (pc' = "idle" => outcome'.op # "create")
        BY <2>7 DEF AtomicCommitFails, Goto, Making
      <3> QED
        BY <3>1, FarFromCreate
    <2>8. CASE AtomicAbort
      <3>1. pc' \notin {"start", "mkdir"} \cup Making /\ (pc' = "idle" => outcome'.op # "create")
        BY <2>8, SMTT(30), Z3T(30) DEF AtomicAbort, AbortEnds, AbortFails, Goto, Return,
           CleanupError, Outcome, Making
      <3> QED
        BY <3>1, FarFromCreate
    <2>9. CASE AtomicUnlink
      <3>1. pc' \notin {"start", "mkdir"} \cup Making /\ (pc' = "idle" => outcome'.op # "create")
        BY <2>9, SMTT(30), Z3T(30) DEF AtomicUnlink, AbortEnds, AbortFails, Goto, Return,
           CleanupError, Outcome, Making
      <3> QED
        BY <3>1, FarFromCreate
    <2>10. CASE WriteParent
      <3>1. pc' \notin {"start", "mkdir"} \cup Making /\ (pc' = "idle" => outcome'.op # "create")
        BY <2>10 DEF WriteParent, Goto, Making
      <3> QED
        BY <3>1, FarFromCreate
    <2>11. CASE WriteParentMade
      <3>1. pc' \notin {"start", "mkdir"} \cup Making /\ (pc' = "idle" => outcome'.op # "create")
        BY <2>11, SMTT(30), Z3T(30) DEF WriteParentMade, Goto, WriteFails, Return, Outcome, Making
      <3> QED
        BY <3>1, FarFromCreate
    <2>12. CASE WriteParentFails
      <3>1. pc' \notin {"start", "mkdir"} \cup Making /\ (pc' = "idle" => outcome'.op # "create")
        BY <2>12 DEF WriteParentFails, WriteFails, Return, Outcome, Making
      <3> QED
        BY <3>1, FarFromCreate
    <2>13. CASE WriteCreate
      <3>1. pc' \notin {"start", "mkdir"} \cup Making /\ (pc' = "idle" => outcome'.op # "create")
        BY <2>13, SMTT(30), Z3T(30) DEF WriteCreate, Goto, Return, Outcome, Making
      <3> QED
        BY <3>1, FarFromCreate
    <2>14. CASE WriteCreateFails
      <3>1. pc' \notin {"start", "mkdir"} \cup Making /\ (pc' = "idle" => outcome'.op # "create")
        BY <2>14 DEF WriteCreateFails, WriteFails, Return, Outcome, Making
      <3> QED
        BY <3>1, FarFromCreate
    <2>15. CASE WriteIdentity
      <3>1. pc' \notin {"start", "mkdir"} \cup Making /\ (pc' = "idle" => outcome'.op # "create")
        BY <2>15, SMTT(30), Z3T(30) DEF WriteIdentity, Goto, WriteFails, Return, Outcome, Making
      <3> QED
        BY <3>1, FarFromCreate
    <2>16. CASE WriteStream
      <3>1. pc' \notin {"start", "mkdir"} \cup Making /\ (pc' = "idle" => outcome'.op # "create")
        BY <2>16 DEF WriteStream, Goto, Making
      <3> QED
        BY <3>1, FarFromCreate
    <2>17. CASE WriteObserve
      <3>1. pc' \notin {"start", "mkdir"} \cup Making /\ (pc' = "idle" => outcome'.op # "create")
        BY <2>17, SMTT(30), Z3T(30) DEF WriteObserve, Return, Outcome, WriteFails, Making
      <3> QED
        BY <3>1, FarFromCreate
    <2>18. CASE RecoveryBegin
      <3>1. pc' \notin {"start", "mkdir"} \cup Making /\ (pc' = "idle" => outcome'.op # "create")
        BY <2>18 DEF RecoveryBegin, Begin, NoOutcome, Making
      <3> QED
        BY <3>1, FarFromCreate
    <2>19. CASE RecoveryCheck
      <3>1. pc' \notin {"start", "mkdir"} \cup Making /\ (pc' = "idle" => outcome'.op # "create")
        BY <2>19, SMTT(30), Z3T(30) DEF RecoveryCheck, Goto, RecoveryEnds, Return, Outcome, Making
      <3> QED
        BY <3>1, FarFromCreate
    <2>20. CASE RecoveryDelete
      <3>1. pc' \notin {"start", "mkdir"} \cup Making /\ (pc' = "idle" => outcome'.op # "create")
        BY <2>20, SMTT(30), Z3T(30) DEF RecoveryDelete, RecoveryEnds, Return, Outcome, Making
      <3> QED
        BY <3>1, FarFromCreate
    <2> QED
      BY <1>2, <2>1, <2>2, <2>3, <2>4, <2>5, <2>6, <2>7, <2>8, <2>9, <2>10, <2>11, <2>12, <2>13,
         <2>14, <2>15, <2>16, <2>17, <2>18, <2>19, <2>20 DEF WriteNext
  <1>3. CASE CleanupNext
    <2>1. CASE CleanupBegin
      <3>1. pc' \notin {"start", "mkdir"} \cup Making /\ (pc' = "idle" => outcome'.op # "create")
        BY <2>1 DEF CleanupBegin, NoOutcome, Making
      <3> QED
        BY <3>1, FarFromCreate
    <2>2. CASE CleanupStart
      <3>1. pc' \notin {"start", "mkdir"} \cup Making /\ (pc' = "idle" => outcome'.op # "create")
        BY <2>2, SMTT(30), Z3T(30) DEF CleanupStart, CleanupEnds, Goto, CleanupFails, Return,
           Outcome, Making
      <3> QED
        BY <3>1, FarFromCreate
    <2>3. CASE CleanupList
      <3>1. pc' \notin {"start", "mkdir"} \cup Making /\ (pc' = "idle" => outcome'.op # "create")
        BY <2>3, SMTT(30), Z3T(30) DEF CleanupList, Goto, CleanupFails, CleanupEnds, Return,
           Outcome, Making
      <3> QED
        BY <3>1, FarFromCreate
    <2>4. CASE CleanupEntry
      <3>1. pc' \notin {"start", "mkdir"} \cup Making /\ (pc' = "idle" => outcome'.op # "create")
        BY <2>4, SMTT(30), Z3T(30) DEF CleanupEntry, Goto, CleanupFails, CleanupEnds, Return,
           Outcome, Making
      <3> QED
        BY <3>1, FarFromCreate
    <2>5. CASE CleanupDelete
      <3>1. pc' \notin {"start", "mkdir"} \cup Making /\ (pc' = "idle" => outcome'.op # "create")
        BY <2>5, SMTT(30), Z3T(30) DEF CleanupDelete, Goto, CleanupFails, CleanupEnds, Return,
           Outcome, Making
      <3> QED
        BY <3>1, FarFromCreate
    <2>6. CASE CleanupListed
      <3>1. pc' \notin {"start", "mkdir"} \cup Making /\ (pc' = "idle" => outcome'.op # "create")
        BY <2>6 DEF CleanupListed, Goto, Making
      <3> QED
        BY <3>1, FarFromCreate
    <2>7. CASE CleanupRoot
      <3>1. pc' \notin {"start", "mkdir"} \cup Making /\ (pc' = "idle" => outcome'.op # "create")
        BY <2>7, SMTT(30), Z3T(30) DEF CleanupRoot, Goto, CleanupFails, CleanupEnds, Return,
           Outcome, Making
      <3> QED
        BY <3>1, FarFromCreate
    <2>8. CASE CleanupRootDelete
      <3>1. pc' \notin {"start", "mkdir"} \cup Making /\ (pc' = "idle" => outcome'.op # "create")
        BY <2>8, SMTT(30), Z3T(30) DEF CleanupRootDelete, CleanupEnds, Goto, Return, Outcome,
           Making
      <3> QED
        BY <3>1, FarFromCreate
    <2>9. CASE CleanupReopen
      <3>1. pc' \notin {"start", "mkdir"} \cup Making /\ (pc' = "idle" => outcome'.op # "create")
        BY <2>9, SMTT(30), Z3T(30) DEF CleanupReopen, CleanupFails, CleanupEnds, Return, Outcome,
           Making
      <3> QED
        BY <3>1, FarFromCreate
    <2>10. CASE RetainInPlace
      <3>1. pc' \notin {"start", "mkdir"} \cup Making /\ (pc' = "idle" => outcome'.op # "create")
        BY <2>10 DEF RetainInPlace, Begin, NoOutcome, Outcome, Making
      <3> QED
        BY <3>1, FarFromCreate
    <2>11. CASE ProcessEnds
      <3>1. pc' \notin {"start", "mkdir"} \cup Making /\ (pc' = "idle" => outcome'.op # "create")
        BY <2>11 DEF ProcessEnds, NoOutcome, Outcome, Making
      <3> QED
        BY <3>1, FarFromCreate
    <2>12. CASE ReopenBegin
      <3>1. pc' \notin {"start", "mkdir"} \cup Making /\ (pc' = "idle" => outcome'.op # "create")
        BY <2>12 DEF ReopenBegin, Begin, NoOutcome, Making
      <3> QED
        BY <3>1, FarFromCreate
    <2>13. CASE ReopenOpen
      <3>1. pc' \notin {"start", "mkdir"} \cup Making /\ (pc' = "idle" => outcome'.op # "create")
        BY <2>13, SMTT(30), Z3T(30) DEF ReopenOpen, Goto, ReopenFails, Return, Outcome, Making
      <3> QED
        BY <3>1, FarFromCreate
    <2>14. CASE ReopenVerify
      <3>1. pc' \notin {"start", "mkdir"} \cup Making /\ (pc' = "idle" => outcome'.op # "create")
        BY <2>14, SMTT(30), Z3T(30) DEF ReopenVerify, Goto, ReopenFails, Return, Outcome, Making
      <3> QED
        BY <3>1, FarFromCreate
    <2>15. CASE ReopenArm
      <3>1. pc' \notin {"start", "mkdir"} \cup Making /\ (pc' = "idle" => outcome'.op # "create")
        BY <2>15, SMTT(30), Z3T(30) DEF ReopenArm, Return, Outcome, Goto, Making
      <3> QED
        BY <3>1, FarFromCreate
    <2> QED
      BY <1>3, <2>1, <2>2, <2>3, <2>4, <2>5, <2>6, <2>7, <2>8, <2>9, <2>10, <2>11, <2>12, <2>13,
         <2>14, <2>15 DEF CleanupNext
  <1>4. CASE OtherExchangesNames
    <2>1. UNCHANGED <<pc, opts, heldVars, callVars, outcome, made>> /\ quiet' = {}
      BY <1>4 DEF OtherExchangesNames, OtherMoves
    <2> QED
      BY <1>0, <2>1 DEF CreateInv, Created, Plain, heldVars, callVars
  <1>5. CASE OtherAddsEntry
    <2>1. UNCHANGED <<pc, opts, heldVars, callVars, outcome, made>> /\ quiet' = {}
      BY <1>5 DEF OtherAddsEntry, OtherMoves
    <2> QED
      BY <1>0, <2>1 DEF CreateInv, Created, Plain, heldVars, callVars
  <1>6. CASE OtherRemovesEntry
    <2>1. UNCHANGED <<pc, opts, heldVars, callVars, outcome, made>> /\ quiet' = {}
      BY <1>6 DEF OtherRemovesEntry, OtherMoves
    <2> QED
      BY <1>0, <2>1 DEF CreateInv, Created, Plain, heldVars, callVars
  <1> QED
    BY <1>1, <1>2, <1>3, <1>4, <1>5, <1>6 DEF Next

\* The steps of the other calls.
LEMMA FarFromWrite ==
    ASSUME pc' \notin Writing \cup {"rCheck", "rDelete"}, pc' = "idle" => outcome'.op # "write"
    PROVE  WriteInv'
  BY DEF WriteInv, Writing

\* A write that ends before it made the file.
LEMMA NothingWritten ==
    ASSUME made' = {}, pc' = "idle", ~outcome'.ok
    PROVE  WriteInv'
  BY DEF WriteInv, Writing, Staging

\* A default write that is still busy with its staging file.
LEMMA StagingKeepsWrite ==
    ASSUME WriteInv, pc \in Writing, pc' \in Staging, path' = path
    PROVE  WriteInv'
  BY DEF WriteInv, Writing, Staging

\* What shows after the staging entry was installed.
LEMMA InstallShows ==
    ASSUME IInv, pc = "wCommit", AtomicReady, NEW left \in {None, StagingShown},
           Install(StagingShown, left)
    PROVE  /\ inside'[owner.child][path] = inside[owner.child][name]
           /\ inside'[owner.child][name] = left
           /\ \A r \in Roots, p \in Paths :
                inside'[r][p] = file => r = owner.child /\ (p = path \/ (p = name /\ left # None))
  <1> USE ConstantsAssumption
  <1>1. FsTyped /\ path \in Paths \ StagingPaths /\ owner.child \in Roots
    BY DEF IInv, Typed, PlaceInv, WriteInv, Writing, Staging, Listing, Rooting
  <1>2. name \in StagingPaths /\ name \in Paths /\ file # None /\ Only(file, owner.child, name)
    BY PathsAssumption DEF IInv, AtomicInv, Staging, Ids
  <1>3. StagingShown = inside[owner.child][name]
    BY DEF AtomicReady, StagingShown
  <1>4. inside' = [inside EXCEPT ![owner.child][path] = inside[owner.child][name],
                                 ![owner.child][name] = left]
    BY <1>3 DEF Install
  <1>5. \A r \in Roots, p \in Paths :
          inside'[r][p] = IF r = owner.child /\ p = name THEN left
                          ELSE IF r = owner.child /\ p = path THEN inside[owner.child][name]
                          ELSE inside[r][p]
    BY <1>1, <1>2, <1>4 DEF FsTyped
  <1> QED
    BY <1>1, <1>2, <1>5, SMTT(30), Z3T(30) DEF Only

\* An abort that returns: the staging file is gone, or the error says that it stayed.
LEMMA AbortReports ==
    ASSUME IInv, pc \in {"wAbort", "wUnlink"}, UNCHANGED <<full, opts, made>>, pc' = "idle",
           outcome'.ok = FALSE,
           \A r \in Roots, p \in Paths : inside'[r][p] = file => p = name /\ outcome'.cleanup
    PROVE  WriteInv'
  <1>1. /\ Plain' /\ name \in StagingPaths /\ file \in FileIds \ TheirIds /\ made' = {file}
    BY DEF IInv, AtomicInv, Staging, Plain
  <1>2. \A r \in Roots, p \in Paths : inside'[r][p] \in made' => Accounted(p, inside[r][p])'
    BY <1>1 DEF Accounted
  <1> QED
    BY <1>1, <1>2 DEF WriteInv, Writing, Staging

\* The other processes put their own objects and remove; they make no file of the call show.
LEMMA OthersKeepFiles ==
    ASSUME IInv, OtherAddsEntry \/ OtherRemovesEntry
    PROVE  \A r \in Roots, p \in Paths :
             inside'[r][p] \in FileIds \ TheirIds => inside'[r][p] = inside[r][p]
  <1>1. FsTyped /\ None \notin FileIds
    BY ConstantsAssumption DEF IInv, Typed, Ids
  <1>2. CASE OtherAddsEntry
    BY <1>1, <1>2, SMTT(30), Z3T(30) DEF OtherAddsEntry, Put, Fresh, FsTyped
  <1>3. CASE OtherRemovesEntry
    BY <1>1, <1>3, SMTT(30), Z3T(30) DEF OtherRemovesEntry, RemoveEntry, Put, FsTyped
  <1> QED
    BY <1>2, <1>3

\* What write_file_new has made, written and reported.
LEMMA WritePreserved ==
    ASSUME IInv, Next
    PROVE  WriteInv'
  <1> USE ConstantsAssumption
  <1>0. /\ FsTyped /\ HeldTyped /\ LocalsTyped /\ PlaceInv /\ CreateInv /\ WriteInv /\ AtomicInv
        /\ Mine \in Roots
    BY DEF IInv, Typed, Roots
  <1>1. CASE CreateNext
    <2>1. CASE CreateRefused
      <3>1. /\ pc' \notin Writing \cup {"rCheck", "rDelete"}
            /\ pc' = "idle" => outcome'.op # "write"
        BY <2>1 DEF CreateRefused, Return, CreateError, Same, Fixed, fsVars, Writing
      <3> QED
        BY <3>1, FarFromWrite
    <2>2. CASE CreateStart
      <3>1. /\ pc' \notin Writing \cup {"rCheck", "rDelete"}
            /\ pc' = "idle" => outcome'.op # "write"
        BY <2>2 DEF CreateStart, Goto, Same, Fixed, fsVars, Writing
      <3> QED
        BY <3>1, FarFromWrite
    <2>3. CASE NameTaken
      <3>1. /\ pc' \notin Writing \cup {"rCheck", "rDelete"}
            /\ pc' = "idle" => outcome'.op # "write"
        BY <2>3, SMTT(30), Z3T(30) DEF NameTaken, Goto, Return, CreateError, Same, Fixed, fsVars,
           Writing
      <3> QED
        BY <3>1, FarFromWrite
    <2>4. CASE MakeDirectory
      <3>1. /\ pc' \notin Writing \cup {"rCheck", "rDelete"}
            /\ pc' = "idle" => outcome'.op # "write"
        BY <2>4 DEF MakeDirectory, Goto, Fixed, Writing
      <3> QED
        BY <3>1, FarFromWrite
    <2>5. CASE MakeFails
      <3>1. /\ pc' \notin Writing \cup {"rCheck", "rDelete"}
            /\ pc' = "idle" => outcome'.op # "write"
        BY <2>5, SMTT(30), Z3T(30) DEF MakeFails, Same, Return, CreateError, fsVars, Fixed,
           Writing
      <3> QED
        BY <3>1, FarFromWrite
    <2>6. CASE MakeFailsLate
      <3>1. /\ pc' \notin Writing \cup {"rCheck", "rDelete"}
            /\ pc' = "idle" => outcome'.op # "write"
        BY <2>6 DEF MakeFailsLate, Return, CreateError, Fixed, Writing
      <3> QED
        BY <3>1, FarFromWrite
    <2>7. CASE OpenAt
      <3>1. /\ pc' \notin Writing \cup {"rCheck", "rDelete"}
            /\ pc' = "idle" => outcome'.op # "write"
        BY <2>7 DEF OpenAt, Goto, Same, Fixed, fsVars, Writing
      <3> QED
        BY <3>1, FarFromWrite
    <2>8. CASE OpenAtFails
      <3>1. /\ pc' \notin Writing \cup {"rCheck", "rDelete"}
            /\ pc' = "idle" => outcome'.op # "write"
        BY <2>8 DEF OpenAtFails, Return, CreateError, Same, Fixed, fsVars, Writing
      <3> QED
        BY <3>1, FarFromWrite
    <2>9. CASE VerifyDirectory
      <3>1. /\ pc' \notin Writing \cup {"rCheck", "rDelete"}
            /\ pc' = "idle" => outcome'.op # "write"
        BY <2>9 DEF VerifyDirectory, Goto, Same, Fixed, fsVars, Writing
      <3> QED
        BY <3>1, FarFromWrite
    <2>10. CASE VerifyDirectoryFails
      <3>1. /\ pc' \notin Writing \cup {"rCheck", "rDelete"}
            /\ pc' = "idle" => outcome'.op # "write"
        BY <2>10 DEF VerifyDirectoryFails, Return, CreateError, Same, Fixed, fsVars, Writing
      <3> QED
        BY <3>1, FarFromWrite
    <2>11. CASE CreatedIdentity
      <3>1. /\ pc' \notin Writing \cup {"rCheck", "rDelete"}
            /\ pc' = "idle" => outcome'.op # "write"
        BY <2>11, SMTT(30), Z3T(30) DEF CreatedIdentity, Goto, Same, CreateRetains, Fixed,
           fsVars, Return, CreateError, Writing
      <3> QED
        BY <3>1, FarFromWrite
    <2>12. CASE OpenDirectory
      <3>1. /\ pc' \notin Writing \cup {"rCheck", "rDelete"}
            /\ pc' = "idle" => outcome'.op # "write"
        BY <2>12 DEF OpenDirectory, Goto, Same, Fixed, fsVars, Writing
      <3> QED
        BY <3>1, FarFromWrite
    <2>13. CASE OpenDirectoryFails
      <3>1. /\ pc' \notin Writing \cup {"rCheck", "rDelete"}
            /\ pc' = "idle" => outcome'.op # "write"
        BY <2>13 DEF OpenDirectoryFails, CreateRetains, Return, CreateError, Same, Fixed, fsVars,
           Writing
      <3> QED
        BY <3>1, FarFromWrite
    <2>14. CASE ObserveDirectory
      <3>1. /\ pc' \notin Writing \cup {"rCheck", "rDelete"}
            /\ pc' = "idle" => outcome'.op # "write"
        BY <2>14, SMTT(30), Z3T(30) DEF ObserveDirectory, Goto, Same, CreateRetains, Fixed,
           fsVars, Return, CreateError, Writing
      <3> QED
        BY <3>1, FarFromWrite
    <2>15. CASE ObserveName
      <3>1. /\ pc' \notin Writing \cup {"rCheck", "rDelete"}
            /\ pc' = "idle" => outcome'.op # "write"
        BY <2>15, SMTT(30), Z3T(30) DEF ObserveName, Return, Outcome, Same, CreateRetains, Fixed,
           fsVars, CreateError, Writing
      <3> QED
        BY <3>1, FarFromWrite
    <2> QED
      BY <1>1, <2>1, <2>2, <2>3, <2>4, <2>5, <2>6, <2>7, <2>8, <2>9, <2>10, <2>11, <2>12, <2>13,
         <2>14, <2>15 DEF CreateNext
  <1>2. CASE WriteNext
    <2>1. CASE WriteBegin
      <3>1. /\ pc' = (IF Plain THEN "wAtomic" ELSE "wParent") /\ made' = {} /\ Plain' = Plain
            /\ path' \notin StagingPaths
        BY <2>1 DEF WriteBegin, Begin, Fixed, Plain
      <3> QED
        BY <3>1 DEF WriteInv, Writing, Staging
    <2>2. CASE AtomicOpen
      <3>1. pc \in Writing /\ pc' \in Staging /\ path' = path
        BY <2>2 DEF AtomicOpen, Goto, callVars, Writing, Staging
      <3> QED
        BY <1>0, <3>1, StagingKeepsWrite
    <2>3. CASE AtomicOpenFails
      <3>1. pc' = "idle" /\ ~outcome'.ok /\ UNCHANGED made
        BY <2>3 DEF AtomicOpenFails, WriteFails, Return, Outcome
      <3> QED
        BY <1>0, <2>3, <3>1, NothingWritten DEF AtomicOpenFails, WriteInv
    <2>4. CASE AtomicFill
      <3>1. pc \in Writing /\ pc' \in Staging /\ path' = path
        BY <2>4 DEF AtomicFill, Goto, callVars, Writing, Staging
      <3> QED
        BY <1>0, <3>1, StagingKeepsWrite
    <2>5. CASE AtomicCommit
      <3>1. /\ pc = "wCommit" /\ AtomicReady /\ Install(StagingShown, None) /\ pc' = "wObserve"
            /\ UNCHANGED <<full, owner, path, file, quiet, made>>
        BY <2>5 DEF AtomicCommit, Goto, NoFault, Keep, heldVars, callVars
      <3>2. /\ inside'[owner.child][path] = inside[owner.child][name]
            /\ \A r \in Roots, p \in Paths : inside'[r][p] = file => r = owner.child /\ p = path
        BY <3>1, InstallShows
      <3>3. /\ file \in FileIds \ TheirIds /\ made = {file} /\ file \in full
            /\ "call" \in quiet => inside[owner.child][name] = file
            /\ path \notin StagingPaths
        BY <1>0, <3>1 DEF AtomicInv, WriteInv, Staging, Writing
      <3> QED
        BY <3>1, <3>2, <3>3 DEF WriteInv, Only
    <2>6. CASE AtomicCommitLinked
      <3>1. PICK left \in {None, StagingShown} : Install(StagingShown, left)
        BY <2>6 DEF AtomicCommitLinked
      <3>2. /\ pc = "wCommit" /\ AtomicReady /\ pc' = "idle" /\ outcome'.ok = FALSE
            /\ outcome'.cleanup /\ UNCHANGED <<full, opts, made>>
        BY <2>6 DEF AtomicCommitLinked, Return, CleanupError, Outcome, Fixed
      <3>3. /\ file \in FileIds \ TheirIds /\ made = {file} /\ file \in full /\ Plain
            /\ path \notin StagingPaths /\ name \in StagingPaths
        BY <1>0, <3>2 DEF AtomicInv, WriteInv, Staging, Writing
      <3>4. \A r \in Roots, p \in Paths : inside'[r][p] = file => p = path \/ p = name
        BY <3>1, <3>2, InstallShows
      <3>5. Plain'
        BY <3>2, <3>3 DEF Plain
      <3>6. /\ made' \subseteq FileIds \ TheirIds
            /\ \A r \in Roots, p \in Paths : inside'[r][p] \in made' => Accounted(p, inside[r][p])'
        BY <3>2, <3>3, <3>4, <3>5 DEF Accounted
      <3> QED
        BY <3>2, <3>6 DEF WriteInv, Writing
    <2>7. CASE AtomicCommitFails
      <3>1. pc \in Writing /\ pc' \in Staging /\ path' = path
        BY <2>7 DEF AtomicCommitFails, Goto, callVars, Writing, Staging
      <3> QED
        BY <1>0, <3>1, StagingKeepsWrite
    <2>8. CASE AtomicAbort
      <3>1. pc = "wAbort" /\ UNCHANGED <<inside, full, made>>
        BY <2>8 DEF AtomicAbort, Same, fsVars
      <3>2. Only(file, owner.child, name) /\ (StagingShown = None => inside[owner.child][name] # file)
        BY <1>0, <3>1 DEF AtomicInv, Staging, StagingShown, Ids
      <3>3. CASE pc' \in Staging /\ path' = path
        BY <1>0, <3>1, <3>3, StagingKeepsWrite DEF Staging, Writing
      <3>4. CASE StagingShown = None /\ AbortEnds
        <4>1. /\ pc' = "idle" /\ outcome'.ok = FALSE /\ UNCHANGED opts
          BY <3>4 DEF AbortEnds, Return, CleanupError, Outcome, Fixed
        <4>2. \A r \in Roots, p \in Paths : inside'[r][p] # file
          BY <3>1, <3>2, <3>4 DEF Only
        <4> QED
          BY <3>1, <4>1, <4>2, AbortReports
      <3>5. CASE Return(CleanupError)
        <4>1. /\ pc' = "idle" /\ outcome'.ok = FALSE /\ outcome'.cleanup /\ UNCHANGED opts
          BY <3>5 DEF Return, CleanupError, Outcome, Fixed
        <4>2. \A r \in Roots, p \in Paths : inside'[r][p] = file => p = name
          BY <3>1, <3>2 DEF Only
        <4> QED
          BY <3>1, <4>1, <4>2, AbortReports
      <3> QED
        BY <2>8, <3>3, <3>4, <3>5 DEF AtomicAbort, AbortFails, Goto, callVars, Staging
    <2>9. CASE AtomicUnlink
      <3>1. pc = "wUnlink" /\ UNCHANGED <<full, made>>
        BY <2>9 DEF AtomicUnlink
      <3>2. /\ Only(file, owner.child, name) /\ owner.child \in Roots /\ name \in Paths
            /\ file # None
        BY <1>0, <3>1, PathsAssumption DEF AtomicInv, PlaceInv, Staging, Writing, Listing,
           Rooting, Ids
      <3>3. CASE pc' \in Staging /\ path' = path
        BY <1>0, <3>1, <3>3, StagingKeepsWrite DEF Staging, Writing
      <3>4. CASE Put(owner.child, name, None) /\ AbortEnds
        <4>1. /\ pc' = "idle" /\ outcome'.ok = FALSE /\ UNCHANGED opts
          BY <3>4 DEF AbortEnds, Return, CleanupError, Outcome, Fixed
        <4>2. \A r \in Roots, p \in Paths : inside'[r][p] # file
          BY <1>0, <3>2, <3>4 DEF Only, Put, FsTyped
        <4> QED
          BY <3>1, <4>1, <4>2, AbortReports
      <3>5. CASE UNCHANGED inside /\ Return(CleanupError)
        <4>1. /\ pc' = "idle" /\ outcome'.ok = FALSE /\ outcome'.cleanup /\ UNCHANGED opts
          BY <3>5 DEF Return, CleanupError, Outcome, Fixed
        <4>2. \A r \in Roots, p \in Paths : inside'[r][p] = file => p = name
          BY <3>2, <3>5 DEF Only
        <4> QED
          BY <3>1, <4>1, <4>2, AbortReports
      <3> QED
        BY <2>9, <3>3, <3>4, <3>5 DEF AtomicUnlink, AbortFails, Goto, callVars, Staging
    <2>10. CASE WriteParent
      <3>1. pc = "wParent" /\ pc' = "wCreate" /\ UNCHANGED <<opts, path, made>>
        BY <2>10 DEF WriteParent, Goto, Fixed, callVars
      <3> QED
        BY <1>0, <3>1 DEF WriteInv, Plain, Writing, Staging
    <2>11. CASE WriteParentMade
      <3>1. CASE WriteFails
        <4>1. pc' = "idle" /\ ~outcome'.ok /\ UNCHANGED made
          BY <3>1 DEF WriteFails, Return, Outcome
        <4> QED
          BY <1>0, <2>11, <4>1, NothingWritten DEF WriteParentMade, WriteInv
      <3>2. CASE Goto("wCreate") /\ UNCHANGED <<callVars, made>>
        <4>1. pc = "wParent" /\ pc' = "wCreate" /\ UNCHANGED <<opts, path, made>>
          BY <2>11, <3>2 DEF WriteParentMade, Goto, Fixed, callVars
        <4> QED
          BY <1>0, <4>1 DEF WriteInv, Plain, Writing, Staging
      <3> QED
        BY <2>11, <3>1, <3>2 DEF WriteParentMade
    <2>12. CASE WriteParentFails
      <3>1. pc' = "idle" /\ ~outcome'.ok /\ UNCHANGED made
        BY <2>12 DEF WriteParentFails, WriteFails, Return, Outcome
      <3> QED
        BY <1>0, <2>12, <3>1, NothingWritten DEF WriteParentFails, WriteInv
    <2>13. CASE WriteCreate
      <3>1. /\ pc = "wCreate" /\ made = {} /\ ~Plain /\ UNCHANGED <<parent, opts>>
            /\ owner.child \in Roots /\ path \in Paths \ StagingPaths
        BY <1>0, <2>13 DEF WriteCreate, WriteInv, PlaceInv, Writing, Listing, Rooting, Goto,
           Return, Fixed
      <3>2. PICK f \in Fresh(FileIds \ TheirIds) :
               /\ Put(owner.child, path, f) /\ made' = made \cup {f} /\ full' = full \ {f}
               /\ \/ Goto("wIdentity") /\ file' = f /\ NoFault /\ Keep /\ UNCHANGED path
                  \/ /\ recov' = Recovery(owner.child, path, f, f) /\ Return(Outcome("write", FALSE))
        BY <2>13 DEF WriteCreate
      <3>3. /\ f \in FileIds \ TheirIds /\ made' = {f} /\ ~Plain'
            /\ inside'[owner.child][path] = f
            /\ \A s \in Roots, q \in Paths : inside'[s][q] = f => s = owner.child /\ q = path
        <4>1. \A s \in Roots, q \in Paths : inside[s][q] # f
          BY <3>2, SMTT(30), Z3T(30) DEF Fresh
        <4> QED
          BY <1>0, <3>1, <3>2, <4>1 DEF Fresh, Put, FsTyped, Plain
      <3>4. CASE Goto("wIdentity") /\ file' = f /\ NoFault /\ Keep /\ UNCHANGED path
        BY <3>1, <3>3, <3>4 DEF WriteInv, Goto, Keep, heldVars, Only
      <3>5. CASE recov' = Recovery(owner.child, path, f, f) /\ Return(Outcome("write", FALSE))
        <4>1. pc' = "idle" /\ ~outcome'.ok /\ recov'.partial = f
          BY <3>5 DEF Return, Outcome, Recovery
        <4> QED
          BY <3>3, <4>1 DEF WriteInv, Accounted, Writing, Staging
      <3> QED
        BY <3>2, <3>4, <3>5
    <2>14. CASE WriteCreateFails
      <3>1. pc' = "idle" /\ ~outcome'.ok /\ UNCHANGED made
        BY <2>14 DEF WriteCreateFails, WriteFails, Return, Outcome
      <3> QED
        BY <1>0, <2>14, <3>1, NothingWritten DEF WriteCreateFails, WriteInv
    <2>15. CASE WriteIdentity
      <3>1. /\ pc = "wIdentity" /\ ~Plain /\ file \in FileIds \ TheirIds /\ made = {file}
            /\ UNCHANGED <<inside, full, opts, owner, made>> /\ Only(file, owner.child, path)
            /\ path \notin StagingPaths
        BY <1>0, <2>15 DEF WriteIdentity, WriteInv, Writing, Same, Goto, Keep, WriteFails,
           Return, Fixed, fsVars, heldVars
      <3>2. CASE Goto("wStream") /\ UNCHANGED <<callVars, quiet>>
        BY <1>0, <3>1, <3>2 DEF WriteInv, Goto, callVars, Plain, Only
      <3>3. CASE WriteFails /\ recov' = Recovery(owner.child, path, None, file)
        <4>1. pc' = "idle" /\ ~outcome'.ok /\ recov'.partial = file
          BY <3>3 DEF WriteFails, Return, Outcome, Recovery
        <4> QED
          BY <3>1, <4>1 DEF WriteInv, Accounted, Plain, Writing, Staging
      <3> QED
        BY <2>15, <3>2, <3>3 DEF WriteIdentity, NoFault
    <2>16. CASE WriteStream
      <3>1. /\ pc = "wStream" /\ ~Plain /\ file \in FileIds \ TheirIds /\ made = {file}
            /\ UNCHANGED <<inside, opts, owner, path, file, made>>
            /\ Only(file, owner.child, path)
            /\ path \notin StagingPaths
        BY <1>0, <2>16 DEF WriteStream, WriteInv, Writing, Goto, Keep, Fixed, heldVars, callVars
      <3>2. CASE Goto("wObserve") /\ full' = full \cup {file} /\ NoFault
        BY <1>0, <3>1, <3>2 DEF WriteInv, Goto, NoFault, Only
      <3>3. CASE Goto("rCheck") /\ recov' = Recovery(owner.child, path, file, file)
        BY <3>1, <3>3 DEF WriteInv, Goto, Plain, Only, Writing, Staging
      <3> QED
        BY <2>16, <3>2, <3>3 DEF WriteStream
    <2>17. CASE WriteObserve
      <3>1. /\ pc = "wObserve" /\ pc' = "idle"
            /\ UNCHANGED <<parent, inside, full, opts, recov, made>>
        BY <2>17 DEF WriteObserve, Same, Return, WriteFails, Fixed, fsVars
      <3>2. /\ file \in FileIds \ TheirIds /\ made = {file} /\ file \in full
            /\ "call" \in quiet => inside[owner.child][path] = file
            /\ path \in Paths \ StagingPaths /\ owner.child \in Roots
            /\ Only(file, owner.child, path)
        BY <1>0, <3>1 DEF WriteInv, PlaceInv, Writing, Listing, Rooting
      <3>3. ASSUME outcome'.ok, ~Plain \/ "call" \in quiet'
            PROVE  /\ owner'.owned[path] = file /\ owner'.child = owner.child
                   /\ "call" \in quiet' => inside[owner.child][path] = file
        <4>1. /\ quiet' = quiet
              /\ owner' = [owner EXCEPT !.owned[path] =
                             IF Plain THEN inside[owner.child][path] ELSE file]
          BY <2>17, <3>3, SMTT(30), Z3T(30) DEF WriteObserve, NoFault, WriteFails, Return, Outcome
        <4> QED
          BY <1>0, <3>2, <3>3, <4>1 DEF HeldTyped, Owners
      <3>4. Plain' = Plain
        BY <3>1 DEF Plain
      <3>5. outcome'.ok /\ (~Plain' \/ "call" \in quiet') =>
              \E p \in Paths : /\ owner'.owned[p] \in made' \cap full'
                               /\ "call" \in quiet' => inside'[owner'.child][p] = owner'.owned[p]
        BY <3>1, <3>2, <3>3, <3>4
      <3>6. /\ made' \subseteq FileIds \ TheirIds
            /\ \A r \in Roots, p \in Paths : inside'[r][p] \in made' => Accounted(p, inside[r][p])'
        BY <3>1, <3>2 DEF Only, Accounted
      <3> QED
        BY <3>1, <3>5, <3>6 DEF WriteInv, Writing, Staging
    <2>18. CASE RecoveryBegin
      <3>1. pc' = "rCheck" /\ path' = None
        BY <1>0, <2>18 DEF RecoveryBegin, Begin, PlaceInv
      <3> QED
        BY <3>1 DEF WriteInv, Writing, Staging
    <2>19. CASE RecoveryCheck
      <3>1. /\ pc = "rCheck" /\ UNCHANGED <<inside, full, opts, owner, made>>
        BY <2>19 DEF RecoveryCheck, Same, Goto, RecoveryEnds, Return, Fixed, Keep, fsVars,
           heldVars
      <3>2. CASE pc' = "rDelete" /\ UNCHANGED <<path, file, recov>>
        BY <1>0, <3>1, <3>2 DEF WriteInv, Plain, Only, Writing, Staging
      <3>3. CASE RecoveryEnds(FALSE)
        <4>1. /\ pc' = "idle" /\ outcome'.op = (IF path # None THEN "write" ELSE "recovery")
              /\ outcome'.ok = FALSE /\ (~dropping => recov' = recov)
          BY <3>3 DEF RecoveryEnds, Return, Outcome
        <4>2. path # None =>
                ~Plain /\ file \in FileIds \ TheirIds /\ made = {file} /\ recov'.partial = file
          BY <1>0, <3>1, <4>1, SMTT(30), Z3T(30) DEF WriteInv, PlaceInv, Recovery
        <4> QED
          BY <3>1, <4>1, <4>2 DEF WriteInv, Accounted, Plain, Writing, Staging
      <3> QED
        BY <2>19, <3>2, <3>3 DEF RecoveryCheck, Goto, Keep, callVars, heldVars
    <2>20. CASE RecoveryDelete
      <3>0. RecoveryEnds(TRUE) \/ RecoveryEnds(FALSE)
        BY <2>20 DEF RecoveryDelete
      <3>1. /\ pc = "rDelete" /\ UNCHANGED <<full, opts, owner, made>> /\ pc' = "idle"
            /\ outcome'.op = (IF path # None THEN "write" ELSE "recovery")
            /\ path # None => ~outcome'.ok
        <4>1. pc = "rDelete" /\ full' = full
          BY <2>20 DEF RecoveryDelete, RemoveRoot, RemoveEntry, Same, fsVars
        <4>2. /\ UNCHANGED <<opts, owner, made>> /\ pc' = "idle"
              /\ outcome'.op = (IF path # None THEN "write" ELSE "recovery")
          BY <3>0, SMTT(30), Z3T(30) DEF RecoveryEnds, Return, Outcome, Fixed
        <4>3. ASSUME path # None PROVE ~outcome'.ok
          <5>1. outcome'.ok = (TRUE /\ path = None) \/ outcome'.ok = (FALSE /\ path = None)
            BY <3>0, SMTT(30), Z3T(30) DEF RecoveryEnds, Return, Outcome
          <5> QED
            BY <4>3, <5>1
        <4> QED
          BY <4>1, <4>2, <4>3
      <3>2. CASE path = None
        BY <3>1, <3>2 DEF WriteInv, Writing, Staging
      <3>3. CASE path # None
        <4>1. /\ recov = Recovery(owner.child, path, file, file) /\ owner.child \in Roots
              /\ path \in Paths /\ ~Plain
              /\ file \in FileIds \ TheirIds /\ made = {file} /\ Only(file, owner.child, path)
              /\ ~dropping
          BY <1>0, <3>1, <3>3 DEF WriteInv, PlaceInv, LocalsTyped, Listing, Rooting
        <4>2. /\ recov.at = owner.child /\ recov.at # "parent" /\ recov.where = path
              /\ recov.id = file
              /\ recov.partial = file
          BY <4>1 DEF Recovery
        <4>3. CASE RecoveryEnds(FALSE) /\ Same
          <5>1. recov' = recov /\ ~Plain' /\ outcome'.ok = FALSE
            BY <4>1, <4>3 DEF RecoveryEnds, Return, Outcome, Fixed, Plain
          <5> QED
            BY <3>1, <4>1, <4>2, <5>1 DEF WriteInv, Accounted, Writing, Staging
        <4>4. CASE RemoveEntry(recov.at, recov.where)
          <5>1. \A s \in Roots, q \in Paths : inside'[s][q] # file
            BY <1>0, <4>1, <4>2, <4>4, ConstantsAssumption DEF RemoveEntry, Put, Only, FsTyped,
               Ids
          <5> QED
            BY <3>1, <3>3, <4>1, <5>1 DEF WriteInv, Writing, Staging
        <4>5. CASE inside' = [r \in Roots |-> [p \in Paths |->
                                IF inside[r][p] = recov.id THEN None ELSE inside[r][p]]]
          <5>1. \A s \in Roots, q \in Paths : inside'[s][q] # file
            BY <4>1, <4>2, <4>5, ConstantsAssumption DEF Ids
          <5> QED
            BY <3>1, <3>3, <4>1, <5>1 DEF WriteInv, Writing, Staging
        <4> QED
          BY <2>20, <4>2, <4>3, <4>4, <4>5 DEF RecoveryDelete
      <3> QED
        BY <3>2, <3>3
    <2> QED
      BY <1>2, <2>1, <2>2, <2>3, <2>4, <2>5, <2>6, <2>7, <2>8, <2>9, <2>10, <2>11, <2>12, <2>13,
         <2>14, <2>15, <2>16, <2>17, <2>18, <2>19, <2>20 DEF WriteNext
  <1>3. CASE CleanupNext
    <2>1. CASE CleanupBegin
      <3>1. /\ pc' \notin Writing \cup {"rCheck", "rDelete"}
            /\ pc' = "idle" => outcome'.op # "write"
        BY <2>1 DEF CleanupBegin, NoOutcome, Fixed, Same, fsVars, Writing
      <3> QED
        BY <3>1, FarFromWrite
    <2>2. CASE CleanupStart
      <3>1. /\ pc' \notin Writing \cup {"rCheck", "rDelete"}
            /\ pc' = "idle" => outcome'.op # "write"
        BY <2>2, SMTT(30), Z3T(30) DEF CleanupStart, Same, CleanupEnds, Goto, CleanupFails,
           fsVars, Return, Outcome, Fixed, Writing
      <3> QED
        BY <3>1, FarFromWrite
    <2>3. CASE CleanupList
      <3>1. /\ pc' \notin Writing \cup {"rCheck", "rDelete"}
            /\ pc' = "idle" => outcome'.op # "write"
        BY <2>3, SMTT(30), Z3T(30) DEF CleanupList, Same, Goto, CleanupFails, fsVars, Fixed,
           CleanupEnds, Return, Outcome, Writing
      <3> QED
        BY <3>1, FarFromWrite
    <2>4. CASE CleanupEntry
      <3>1. /\ pc' \notin Writing \cup {"rCheck", "rDelete"}
            /\ pc' = "idle" => outcome'.op # "write"
        BY <2>4, SMTT(30), Z3T(30) DEF CleanupEntry, Same, Goto, CleanupFails, fsVars, Fixed,
           CleanupEnds, Return, Outcome, Writing
      <3> QED
        BY <3>1, FarFromWrite
    <2>5. CASE CleanupDelete
      <3>1. /\ pc' \notin Writing \cup {"rCheck", "rDelete"}
            /\ pc' = "idle" => outcome'.op # "write"
        BY <2>5, SMTT(30), Z3T(30) DEF CleanupDelete, Goto, Same, CleanupFails, Fixed, fsVars,
           CleanupEnds, Return, Outcome, Writing, RemoveEntry
      <3> QED
        BY <3>1, FarFromWrite
    <2>6. CASE CleanupListed
      <3>1. /\ pc' \notin Writing \cup {"rCheck", "rDelete"}
            /\ pc' = "idle" => outcome'.op # "write"
        BY <2>6 DEF CleanupListed, Goto, Same, Fixed, fsVars, Writing
      <3> QED
        BY <3>1, FarFromWrite
    <2>7. CASE CleanupRoot
      <3>1. /\ pc' \notin Writing \cup {"rCheck", "rDelete"}
            /\ pc' = "idle" => outcome'.op # "write"
        BY <2>7, SMTT(30), Z3T(30) DEF CleanupRoot, Same, Goto, CleanupFails, fsVars, Fixed,
           CleanupEnds, Return, Outcome, Writing
      <3> QED
        BY <3>1, FarFromWrite
    <2>8. CASE CleanupRootDelete
      <3>1. /\ pc' \notin Writing \cup {"rCheck", "rDelete"}
            /\ pc' = "idle" => outcome'.op # "write"
        BY <2>8, SMTT(30), Z3T(30) DEF CleanupRootDelete, CleanupEnds, Goto, Same, Return,
           Outcome, Fixed, fsVars, Writing, RemoveRoot
      <3> QED
        BY <3>1, FarFromWrite
    <2>9. CASE CleanupReopen
      <3>1. /\ pc' \notin Writing \cup {"rCheck", "rDelete"}
            /\ pc' = "idle" => outcome'.op # "write"
        BY <2>9, SMTT(30), Z3T(30) DEF CleanupReopen, CleanupFails, CleanupEnds, Return, Outcome,
           Writing
      <3> QED
        BY <3>1, FarFromWrite
    <2>10. CASE RetainInPlace
      <3>1. /\ pc' \notin Writing \cup {"rCheck", "rDelete"}
            /\ pc' = "idle" => outcome'.op # "write"
        BY <2>10 DEF RetainInPlace, Begin, NoOutcome, Outcome, Writing
      <3> QED
        BY <3>1, FarFromWrite
    <2>11. CASE ProcessEnds
      <3>1. /\ pc' \notin Writing \cup {"rCheck", "rDelete"}
            /\ pc' = "idle" => outcome'.op # "write"
        BY <2>11 DEF ProcessEnds, NoOutcome, Outcome, Writing
      <3> QED
        BY <3>1, FarFromWrite
    <2>12. CASE ReopenBegin
      <3>1. /\ pc' \notin Writing \cup {"rCheck", "rDelete"}
            /\ pc' = "idle" => outcome'.op # "write"
        BY <2>12 DEF ReopenBegin, Begin, NoOutcome, Fixed, Same, fsVars, Writing
      <3> QED
        BY <3>1, FarFromWrite
    <2>13. CASE ReopenOpen
      <3>1. /\ pc' \notin Writing \cup {"rCheck", "rDelete"}
            /\ pc' = "idle" => outcome'.op # "write"
        BY <2>13, SMTT(30), Z3T(30) DEF ReopenOpen, Same, Goto, ReopenFails, fsVars, Fixed,
           Return, Outcome, Writing
      <3> QED
        BY <3>1, FarFromWrite
    <2>14. CASE ReopenVerify
      <3>1. /\ pc' \notin Writing \cup {"rCheck", "rDelete"}
            /\ pc' = "idle" => outcome'.op # "write"
        BY <2>14, SMTT(30), Z3T(30) DEF ReopenVerify, Same, Goto, ReopenFails, fsVars, Fixed,
           Return, Outcome, Writing
      <3> QED
        BY <3>1, FarFromWrite
    <2>15. CASE ReopenArm
      <3>1. /\ pc' \notin Writing \cup {"rCheck", "rDelete"}
            /\ pc' = "idle" => outcome'.op # "write"
        BY <2>15, SMTT(30), Z3T(30) DEF ReopenArm, Same, Return, Outcome, Goto, fsVars, Fixed,
           Writing
      <3> QED
        BY <3>1, FarFromWrite
    <2> QED
      BY <1>3, <2>1, <2>2, <2>3, <2>4, <2>5, <2>6, <2>7, <2>8, <2>9, <2>10, <2>11, <2>12, <2>13,
         <2>14, <2>15 DEF CleanupNext
  <1>4. CASE OtherExchangesNames
    <2>1. UNCHANGED <<inside, full, pc, opts, heldVars, callVars, outcome, made>> /\ quiet' = {}
      BY <1>4 DEF OtherExchangesNames, OtherMoves
    <2> QED
      BY <1>0, <2>1 DEF WriteInv, Only, Accounted, Plain, heldVars, callVars
  <1>5. CASE OtherAddsEntry \/ OtherRemovesEntry
    <2>1. UNCHANGED <<full, pc, opts, owner, recov, path, file, outcome, made>> /\ "call" \notin quiet'
      BY <1>5 DEF OtherAddsEntry, OtherRemovesEntry, RemoveEntry, OtherMoves, heldVars, callVars
    <2>2. Plain' = Plain /\ \A p, f : Accounted(p, f)' = Accounted(p, f)
      BY <2>1 DEF Plain, Accounted
    <2>3. ASSUME file \in FileIds \ TheirIds, Only(file, owner.child, path)
          PROVE  Only(file, owner.child, path)'
      BY <1>5, <2>1, <2>3, OthersKeepFiles DEF Only
    <2>4. ASSUME outcome.op = "write", pc = "idle"
          PROVE  \A r \in Roots, p \in Paths : inside'[r][p] \in made => Accounted(p, inside'[r][p])
      <3>1. made \subseteq FileIds \ TheirIds
        BY <1>0, <2>4 DEF WriteInv
      <3>2. \A r \in Roots, p \in Paths : inside'[r][p] \in made => inside'[r][p] = inside[r][p]
        BY <1>5, <3>1, OthersKeepFiles
      <3> QED
        BY <1>0, <2>4, <3>2 DEF WriteInv
    <2>5. ASSUME outcome.op = "write", pc = "idle", outcome.ok, ~Plain
          PROVE  \E p \in Paths : owner'.owned[p] \in made' \cap full'
      BY <1>0, <2>1, <2>5 DEF WriteInv
    <2>6. ASSUME outcome.op = "write", pc = "idle"
          PROVE  \A r \in Roots, p \in Paths :
                   inside'[r][p] \in made' => Accounted(p, inside[r][p])'
      BY <2>1, <2>2, <2>4, <2>6
    <2> QED
      BY <1>0, <2>1, <2>2, <2>3, <2>5, <2>6 DEF WriteInv
  <1> QED
    BY <1>1, <1>2, <1>3, <1>4, <1>5 DEF Next

\* The steps after which a default write has a staging file.
LEMMA StagingSteps ==
    ASSUME Next, pc' \in Staging
    PROVE  \/ AtomicOpen \/ AtomicFill \/ AtomicCommitFails \/ AtomicAbort \/ AtomicUnlink
           \/ OtherExchangesNames \/ OtherAddsEntry \/ OtherRemovesEntry
  <1>1. CASE CreateNext
    BY <1>1 DEF CreateNext, CreateRefused, CreateStart, NameTaken, MakeDirectory, MakeFails,
       MakeFailsLate, OpenAt, OpenAtFails, VerifyDirectory, VerifyDirectoryFails,
       CreatedIdentity, OpenDirectory, OpenDirectoryFails, ObserveDirectory, ObserveName,
       CreateRetains, Goto, Return, Staging
  <1>2. CASE WriteNext
    BY <1>2 DEF WriteNext, WriteBegin, AtomicOpenFails, AtomicCommit, AtomicCommitLinked,
       WriteParent, WriteParentMade, WriteParentFails, WriteCreate, WriteCreateFails,
       WriteIdentity, WriteStream, WriteObserve, WriteFails, RecoveryBegin, RecoveryCheck,
       RecoveryDelete, RecoveryEnds, Begin, Goto, Return, Staging
  <1>3. CASE CleanupNext
    BY <1>3 DEF CleanupNext, CleanupBegin, CleanupStart, CleanupList, CleanupEntry,
       CleanupDelete, CleanupListed, CleanupRoot, CleanupRootDelete, CleanupReopen, CleanupFails,
       CleanupEnds, RetainInPlace, ProcessEnds, ReopenBegin, ReopenOpen, ReopenVerify, ReopenArm,
       ReopenFails, Begin, Goto, Return, Staging
  <1> QED
    BY <1>1, <1>2, <1>3 DEF Next

\* Where the staging file of a default write is.
LEMMA AtomicPreserved ==
    ASSUME IInv, Next
    PROVE  AtomicInv'
  <1> USE ConstantsAssumption
  <1>0. FsTyped /\ LocalsTyped /\ PlaceInv /\ WriteInv /\ AtomicInv
    BY DEF IInv, Typed
  <1> SUFFICES ASSUME pc' \in Staging PROVE AtomicInv'
    BY DEF AtomicInv
  <1>1. CASE AtomicOpen
    <2>1. /\ pc = "wAtomic" /\ pc' = "wFill" /\ made = {} /\ Plain /\ Place(owner.child, path)
          /\ owner.child \in Roots /\ path \in Paths /\ UNCHANGED <<opts, owner>>
      BY <1>0, <1>1 DEF AtomicOpen, WriteInv, PlaceInv, Writing, Listing, Rooting, Goto, Fixed,
         Keep, heldVars
    <2>2. PICK s \in StagingPaths, f \in Fresh(FileIds \ TheirIds) :
             /\ ParentOf(s) = ParentOf(path) /\ inside[owner.child][s] = None
             /\ Put(owner.child, s, f) /\ name' = s /\ file' = f /\ made' = made \cup {f}
      BY <1>1 DEF AtomicOpen
    <2>3. /\ f \in FileIds \ TheirIds /\ made' = {f} /\ inside'[owner.child][s] = f
          /\ \A r \in Roots, q \in Paths : inside'[r][q] = f => r = owner.child /\ q = s
      <3>1. \A r \in Roots, q \in Paths : inside[r][q] # f
        BY <2>2, SMTT(30), Z3T(30) DEF Fresh
      <3> QED
        BY <1>0, <2>1, <2>2, <3>1, PathsAssumption, SMTT(30), Z3T(30) DEF Fresh, Put, FsTyped
    <2>4. Place(owner.child, s)'
      <3>1. CASE Len(s) = 1
        BY <2>1, <3>1 DEF Place
      <3>2. CASE Len(s) # 1
        <4>1. ParentOf(s) \in Paths /\ ParentOf(s) # s /\ Len(path) # 1
          BY <2>1, <2>2, <3>2, PathsAssumption DEF Below
        <4>2. inside[owner.child][ParentOf(s)] \in DirIds
          BY <2>1, <2>2, <4>1 DEF Place
        <4>3. inside'[owner.child][ParentOf(s)] = inside[owner.child][ParentOf(s)]
          BY <1>0, <2>1, <2>2, <4>1 DEF Put, FsTyped
        <4> QED
          BY <2>1, <3>2, <4>2, <4>3 DEF Place
      <3> QED
        BY <3>1, <3>2
    <2>5. Plain'
      BY <2>1 DEF Plain
    <2> QED
      BY <2>1, <2>2, <2>3, <2>4, <2>5 DEF AtomicInv, Only
  <1>2. CASE AtomicFill
    <2>1. /\ pc = "wFill" /\ UNCHANGED <<inside, opts, owner, name, file, made, quiet>>
          /\ (pc' = "wCommit" /\ full' = full \cup {file}) \/ pc' = "wAbort"
      BY <1>2 DEF AtomicFill, Goto, Fixed, NoFault, Keep, heldVars, callVars
    <2> QED
      BY <1>0, <2>1 DEF AtomicInv, Plain, Only, Place, Staging
  <1>3. CASE AtomicCommitFails
    <2>1. pc = "wCommit" /\ pc' = "wAbort" /\ UNCHANGED <<inside, opts, owner, name, file, made>>
      BY <1>3 DEF AtomicCommitFails, Same, Goto, Fixed, Keep, fsVars, heldVars, callVars
    <2> QED
      BY <1>0, <2>1 DEF AtomicInv, Plain, Only, Place, Staging
  <1>4. CASE AtomicAbort \/ AtomicUnlink
    <2>1. /\ pc \in {"wAbort", "wUnlink"} /\ UNCHANGED <<inside, opts, owner, name, file, made>>
          /\ pc' = "wAbort" \/ (pc' = "wUnlink" /\ StagingShown = file)
      BY <1>4 DEF AtomicAbort, AtomicUnlink, AbortEnds, AbortFails, Return, Same, Goto, Fixed,
         Keep, fsVars, heldVars, callVars, Staging
    <2>2. pc' = "wUnlink" => inside[owner.child][name] = file
      BY <1>0, <2>1 DEF AtomicInv, StagingShown, Staging, Ids
    <2> QED
      BY <1>0, <2>1, <2>2 DEF AtomicInv, Plain, Only, Place, Staging
  <1>5. CASE OtherExchangesNames
    <2>1. UNCHANGED <<inside, full, pc, opts, owner, name, file, made>> /\ quiet' = {}
      BY <1>5 DEF OtherExchangesNames, OtherMoves, heldVars, callVars
    <2> QED
      BY <1>0, <2>1 DEF AtomicInv, Plain, Only, Place
  <1>6. CASE OtherAddsEntry \/ OtherRemovesEntry
    <2>1. UNCHANGED <<full, pc, opts, owner, name, file, made>> /\ quiet' = {}
      BY <1>6 DEF OtherAddsEntry, OtherRemovesEntry, RemoveEntry, OtherMoves, heldVars, callVars
    <2>2. /\ Plain /\ name \in StagingPaths /\ name \in Paths /\ owner.child \in Roots
          /\ file \in FileIds \ TheirIds /\ made = {file} /\ Only(file, owner.child, name)
          /\ inside[owner.child][name] = file => Place(owner.child, name)
          /\ pc = "wCommit" => file \in full
      BY <1>0, <2>1, PathsAssumption DEF AtomicInv, PlaceInv, Writing, Staging, Listing, Rooting
    <2>3. Only(file, owner.child, name)'
      BY <1>6, <2>1, <2>2, OthersKeepFiles DEF Only
    <2>4. ASSUME inside'[owner.child][name] = file PROVE Place(owner.child, name)'
      <3>1. inside[owner.child][name] = file /\ file # None
        BY <1>6, <2>2, <2>4, OthersKeepFiles DEF Ids
      <3>2. CASE Len(name) = 1
        BY <2>1, <3>2 DEF Place
      <3>3. CASE Len(name) # 1
        <4>1. /\ inside[owner.child][ParentOf(name)] \in DirIds /\ ParentOf(name) \in Paths
              /\ Below(ParentOf(name), name)
          BY <2>2, <3>1, <3>3, PathsAssumption DEF Place
        <4>2. Holds(owner.child, ParentOf(name))
          BY <2>2, <3>1, <4>1 DEF Holds
        <4>3. inside'[owner.child][ParentOf(name)] = inside[owner.child][ParentOf(name)]
          <5>1. inside[owner.child][ParentOf(name)] # None
            BY <4>1 DEF Ids
          <5>2. PICK r \in Roots, p \in Paths, f \in Ids \cup {None} :
                  Put(r, p, f) /\ ~(r = owner.child /\ p = ParentOf(name))
            BY <1>6, <4>2, <5>1 DEF OtherAddsEntry, OtherRemovesEntry, RemoveEntry, Fresh
          <5> QED
            BY <1>0, <2>2, <4>1, <5>2, SMTT(30), Z3T(30) DEF Put, FsTyped
        <4> QED
          BY <2>1, <3>3, <4>1, <4>3 DEF Place
      <3> QED
        BY <3>2, <3>3
    <2> QED
      BY <2>1, <2>2, <2>3, <2>4 DEF AtomicInv, Plain
  <1> QED
    BY <1>1, <1>2, <1>3, <1>4, <1>5, <1>6, StagingSteps

\* A cleanup that fails keeps the resource as it is.
LEMMA CleanupFailure ==
    ASSUME HeldTyped, CleanupFails, owner.armed
    PROVE  /\ pc' = "idle" /\ outcome'.op = "cleanup" /\ outcome'.ok = FALSE
           /\ owner'.id = owner.id /\ owner'.name = owner.name /\ owner'.child = owner.child
           /\ owner'.owned = owner.owned
  BY DEF HeldTyped, Owners, CleanupFails, CleanupEnds, Return, Outcome

\* The steps of the other calls.
LEMMA FarFromCleanup ==
    ASSUME pc' \notin {"rDelete", "cStart", "cReopen"} \cup Listing \cup Rooting,
           pc' = "idle" => outcome'.op # "cleanup"
    PROVE  CleanInv'
  BY DEF CleanInv, CleanupMakesProgress, Listing, Rooting

\* What the cleanups have looked at and reported.
LEMMA CleanPreserved ==
    ASSUME IInv, Next
    PROVE  CleanInv'
  <1> USE ConstantsAssumption
  <1>0. /\ FsTyped /\ HeldTyped /\ LocalsTyped /\ PlaceInv /\ CreateInv /\ WriteInv /\ CleanInv
        /\ Mine \in Roots
    BY DEF IInv, Typed, Roots
  <1>1. CASE CreateNext
    <2>1. CASE CreateRefused
      <3>1. /\ pc' \notin {"rDelete", "cStart", "cReopen"} \cup Listing \cup Rooting
            /\ pc' = "idle" => outcome'.op # "cleanup"
        BY <2>1 DEF CreateRefused, Return, CreateError, Listing, Rooting
      <3> QED
        BY <3>1, FarFromCleanup
    <2>2. CASE CreateStart
      <3>1. /\ pc' \notin {"rDelete", "cStart", "cReopen"} \cup Listing \cup Rooting
            /\ pc' = "idle" => outcome'.op # "cleanup"
        BY <2>2 DEF CreateStart, Goto, Listing, Rooting
      <3> QED
        BY <3>1, FarFromCleanup
    <2>3. CASE NameTaken
      <3>1. /\ pc' \notin {"rDelete", "cStart", "cReopen"} \cup Listing \cup Rooting
            /\ pc' = "idle" => outcome'.op # "cleanup"
        BY <2>3, SMTT(30), Z3T(30) DEF NameTaken, Goto, Return, CreateError, Listing, Rooting
      <3> QED
        BY <3>1, FarFromCleanup
    <2>4. CASE MakeDirectory
      <3>1. /\ pc' \notin {"rDelete", "cStart", "cReopen"} \cup Listing \cup Rooting
            /\ pc' = "idle" => outcome'.op # "cleanup"
        BY <2>4 DEF MakeDirectory, Goto, Listing, Rooting
      <3> QED
        BY <3>1, FarFromCleanup
    <2>5. CASE MakeFails
      <3>1. /\ pc' \notin {"rDelete", "cStart", "cReopen"} \cup Listing \cup Rooting
            /\ pc' = "idle" => outcome'.op # "cleanup"
        BY <2>5, SMTT(30), Z3T(30) DEF MakeFails, Return, CreateError, Listing, Rooting
      <3> QED
        BY <3>1, FarFromCleanup
    <2>6. CASE MakeFailsLate
      <3>1. /\ pc' \notin {"rDelete", "cStart", "cReopen"} \cup Listing \cup Rooting
            /\ pc' = "idle" => outcome'.op # "cleanup"
        BY <2>6 DEF MakeFailsLate, Return, CreateError, Listing, Rooting
      <3> QED
        BY <3>1, FarFromCleanup
    <2>7. CASE OpenAt
      <3>1. /\ pc' \notin {"rDelete", "cStart", "cReopen"} \cup Listing \cup Rooting
            /\ pc' = "idle" => outcome'.op # "cleanup"
        BY <2>7 DEF OpenAt, Goto, Listing, Rooting
      <3> QED
        BY <3>1, FarFromCleanup
    <2>8. CASE OpenAtFails
      <3>1. /\ pc' \notin {"rDelete", "cStart", "cReopen"} \cup Listing \cup Rooting
            /\ pc' = "idle" => outcome'.op # "cleanup"
        BY <2>8 DEF OpenAtFails, Return, CreateError, Listing, Rooting
      <3> QED
        BY <3>1, FarFromCleanup
    <2>9. CASE VerifyDirectory
      <3>1. /\ pc' \notin {"rDelete", "cStart", "cReopen"} \cup Listing \cup Rooting
            /\ pc' = "idle" => outcome'.op # "cleanup"
        BY <2>9 DEF VerifyDirectory, Goto, Listing, Rooting
      <3> QED
        BY <3>1, FarFromCleanup
    <2>10. CASE VerifyDirectoryFails
      <3>1. /\ pc' \notin {"rDelete", "cStart", "cReopen"} \cup Listing \cup Rooting
            /\ pc' = "idle" => outcome'.op # "cleanup"
        BY <2>10 DEF VerifyDirectoryFails, Return, CreateError, Listing, Rooting
      <3> QED
        BY <3>1, FarFromCleanup
    <2>11. CASE CreatedIdentity
      <3>1. /\ pc' \notin {"rDelete", "cStart", "cReopen"} \cup Listing \cup Rooting
            /\ pc' = "idle" => outcome'.op # "cleanup"
        BY <2>11, SMTT(30), Z3T(30) DEF CreatedIdentity, Goto, CreateRetains, Return,
           CreateError, Listing, Rooting
      <3> QED
        BY <3>1, FarFromCleanup
    <2>12. CASE OpenDirectory
      <3>1. /\ pc' \notin {"rDelete", "cStart", "cReopen"} \cup Listing \cup Rooting
            /\ pc' = "idle" => outcome'.op # "cleanup"
        BY <2>12 DEF OpenDirectory, Goto, Listing, Rooting
      <3> QED
        BY <3>1, FarFromCleanup
    <2>13. CASE OpenDirectoryFails
      <3>1. /\ pc' \notin {"rDelete", "cStart", "cReopen"} \cup Listing \cup Rooting
            /\ pc' = "idle" => outcome'.op # "cleanup"
        BY <2>13 DEF OpenDirectoryFails, CreateRetains, Return, CreateError, Listing, Rooting
      <3> QED
        BY <3>1, FarFromCleanup
    <2>14. CASE ObserveDirectory
      <3>1. /\ pc' \notin {"rDelete", "cStart", "cReopen"} \cup Listing \cup Rooting
            /\ pc' = "idle" => outcome'.op # "cleanup"
        BY <2>14, SMTT(30), Z3T(30) DEF ObserveDirectory, Goto, CreateRetains, Return,
           CreateError, Listing, Rooting
      <3> QED
        BY <3>1, FarFromCleanup
    <2>15. CASE ObserveName
      <3>1. /\ pc' \notin {"rDelete", "cStart", "cReopen"} \cup Listing \cup Rooting
            /\ pc' = "idle" => outcome'.op # "cleanup"
        BY <2>15, SMTT(30), Z3T(30) DEF ObserveName, Return, Outcome, CreateRetains, CreateError,
           Listing, Rooting
      <3> QED
        BY <3>1, FarFromCleanup
    <2> QED
      BY <1>1, <2>1, <2>2, <2>3, <2>4, <2>5, <2>6, <2>7, <2>8, <2>9, <2>10, <2>11, <2>12, <2>13,
         <2>14, <2>15 DEF CreateNext
  <1>2. CASE WriteNext
    <2>1. CASE WriteBegin
      <3>1. /\ pc' \notin {"rDelete", "cStart", "cReopen"} \cup Listing \cup Rooting
            /\ pc' = "idle" => outcome'.op # "cleanup"
        BY <2>1 DEF WriteBegin, Begin, NoOutcome, Listing, Rooting
      <3> QED
        BY <3>1, FarFromCleanup
    <2>2. CASE AtomicOpen
      <3>1. /\ pc' \notin {"rDelete", "cStart", "cReopen"} \cup Listing \cup Rooting
            /\ pc' = "idle" => outcome'.op # "cleanup"
        BY <2>2 DEF AtomicOpen, Goto, Listing, Rooting
      <3> QED
        BY <3>1, FarFromCleanup
    <2>3. CASE AtomicOpenFails
      <3>1. /\ pc' \notin {"rDelete", "cStart", "cReopen"} \cup Listing \cup Rooting
            /\ pc' = "idle" => outcome'.op # "cleanup"
        BY <2>3 DEF AtomicOpenFails, WriteFails, Return, Outcome, Listing, Rooting
      <3> QED
        BY <3>1, FarFromCleanup
    <2>4. CASE AtomicFill
      <3>1. /\ pc' \notin {"rDelete", "cStart", "cReopen"} \cup Listing \cup Rooting
            /\ pc' = "idle" => outcome'.op # "cleanup"
        BY <2>4 DEF AtomicFill, Goto, Listing, Rooting
      <3> QED
        BY <3>1, FarFromCleanup
    <2>5. CASE AtomicCommit
      <3>1. /\ pc' \notin {"rDelete", "cStart", "cReopen"} \cup Listing \cup Rooting
            /\ pc' = "idle" => outcome'.op # "cleanup"
        BY <2>5 DEF AtomicCommit, Goto, Listing, Rooting
      <3> QED
        BY <3>1, FarFromCleanup
    <2>6. CASE AtomicCommitLinked
      <3>1. /\ pc' \notin {"rDelete", "cStart", "cReopen"} \cup Listing \cup Rooting
            /\ pc' = "idle" => outcome'.op # "cleanup"
        BY <2>6 DEF AtomicCommitLinked, Return, CleanupError, Outcome, Listing, Rooting
      <3> QED
        BY <3>1, FarFromCleanup
    <2>7. CASE AtomicCommitFails
      <3>1. /\ pc' \notin {"rDelete", "cStart", "cReopen"} \cup Listing \cup Rooting
            /\ pc' = "idle" => outcome'.op # "cleanup"
        BY <2>7 DEF AtomicCommitFails, Goto, Listing, Rooting
      <3> QED
        BY <3>1, FarFromCleanup
    <2>8. CASE AtomicAbort
      <3>1. /\ pc' \notin {"rDelete", "cStart", "cReopen"} \cup Listing \cup Rooting
            /\ pc' = "idle" => outcome'.op # "cleanup"
        BY <2>8, SMTT(30), Z3T(30) DEF AtomicAbort, AbortEnds, AbortFails, Goto, Return,
           CleanupError, Outcome, Listing, Rooting
      <3> QED
        BY <3>1, FarFromCleanup
    <2>9. CASE AtomicUnlink
      <3>1. /\ pc' \notin {"rDelete", "cStart", "cReopen"} \cup Listing \cup Rooting
            /\ pc' = "idle" => outcome'.op # "cleanup"
        BY <2>9, SMTT(30), Z3T(30) DEF AtomicUnlink, AbortEnds, AbortFails, Goto, Return,
           CleanupError, Outcome, Listing, Rooting
      <3> QED
        BY <3>1, FarFromCleanup
    <2>10. CASE WriteParent
      <3>1. /\ pc' \notin {"rDelete", "cStart", "cReopen"} \cup Listing \cup Rooting
            /\ pc' = "idle" => outcome'.op # "cleanup"
        BY <2>10 DEF WriteParent, Goto, Listing, Rooting
      <3> QED
        BY <3>1, FarFromCleanup
    <2>11. CASE WriteParentMade
      <3>1. /\ pc' \notin {"rDelete", "cStart", "cReopen"} \cup Listing \cup Rooting
            /\ pc' = "idle" => outcome'.op # "cleanup"
        BY <2>11, SMTT(30), Z3T(30) DEF WriteParentMade, Goto, WriteFails, Return, Outcome,
           Listing, Rooting
      <3> QED
        BY <3>1, FarFromCleanup
    <2>12. CASE WriteParentFails
      <3>1. /\ pc' \notin {"rDelete", "cStart", "cReopen"} \cup Listing \cup Rooting
            /\ pc' = "idle" => outcome'.op # "cleanup"
        BY <2>12 DEF WriteParentFails, WriteFails, Return, Outcome, Listing, Rooting
      <3> QED
        BY <3>1, FarFromCleanup
    <2>13. CASE WriteCreate
      <3>1. /\ pc' \notin {"rDelete", "cStart", "cReopen"} \cup Listing \cup Rooting
            /\ pc' = "idle" => outcome'.op # "cleanup"
        BY <2>13, SMTT(30), Z3T(30) DEF WriteCreate, Goto, Return, Outcome, Listing, Rooting
      <3> QED
        BY <3>1, FarFromCleanup
    <2>14. CASE WriteCreateFails
      <3>1. /\ pc' \notin {"rDelete", "cStart", "cReopen"} \cup Listing \cup Rooting
            /\ pc' = "idle" => outcome'.op # "cleanup"
        BY <2>14 DEF WriteCreateFails, WriteFails, Return, Outcome, Listing, Rooting
      <3> QED
        BY <3>1, FarFromCleanup
    <2>15. CASE WriteIdentity
      <3>1. /\ pc' \notin {"rDelete", "cStart", "cReopen"} \cup Listing \cup Rooting
            /\ pc' = "idle" => outcome'.op # "cleanup"
        BY <2>15, SMTT(30), Z3T(30) DEF WriteIdentity, Goto, WriteFails, Return, Outcome,
           Listing, Rooting
      <3> QED
        BY <3>1, FarFromCleanup
    <2>16. CASE WriteStream
      <3>1. /\ pc' \notin {"rDelete", "cStart", "cReopen"} \cup Listing \cup Rooting
            /\ pc' = "idle" => outcome'.op # "cleanup"
        BY <2>16 DEF WriteStream, Goto, Listing, Rooting
      <3> QED
        BY <3>1, FarFromCleanup
    <2>17. CASE WriteObserve
      <3>1. /\ pc' \notin {"rDelete", "cStart", "cReopen"} \cup Listing \cup Rooting
            /\ pc' = "idle" => outcome'.op # "cleanup"
        BY <2>17, SMTT(30), Z3T(30) DEF WriteObserve, Return, Outcome, WriteFails, Listing,
           Rooting
      <3> QED
        BY <3>1, FarFromCleanup
    <2>18. CASE RecoveryBegin
      <3>1. /\ pc' \notin {"rDelete", "cStart", "cReopen"} \cup Listing \cup Rooting
            /\ pc' = "idle" => outcome'.op # "cleanup"
        BY <2>18 DEF RecoveryBegin, Begin, NoOutcome, Listing, Rooting
      <3> QED
        BY <3>1, FarFromCleanup
    <2>19. CASE RecoveryCheck
      <3>1. CASE RecoveryEnds(FALSE)
        <4>1. pc' = "idle" /\ outcome'.op # "cleanup"
          BY <3>1 DEF RecoveryEnds, Return, Outcome
        <4> QED
          BY <4>1 DEF CleanInv, CleanupMakesProgress, Listing
      <3>2. CASE /\ recov.id # None /\ (ByHandle \/ Shown(recov) = recov.id)
                 /\ Goto("rDelete") /\ Keep
        <4>1. pc' = "rDelete" /\ UNCHANGED <<parent, inside, recov, opts>>
          BY <2>19, <3>2 DEF RecoveryCheck, Same, Goto, Fixed, Keep, fsVars, heldVars
        <4>2. Shown(recov)' = Shown(recov) /\ ByHandle' = ByHandle
          BY <4>1 DEF Shown, Place, ByHandle
        <4> QED
          BY <3>2, <4>1, <4>2 DEF CleanInv, CleanupMakesProgress, Listing
      <3> QED
        BY <2>19, <3>1, <3>2 DEF RecoveryCheck
    <2>20. CASE RecoveryDelete
      <3>1. pc' \in {"idle"} /\ (pc' = "idle" => outcome'.op # "cleanup")
        BY <2>20, SMTT(30), Z3T(30) DEF RecoveryDelete, RecoveryEnds, Return, Outcome
      <3> QED
        BY <3>1 DEF CleanInv, CleanupMakesProgress, Listing
    <2> QED
      BY <1>2, <2>1, <2>2, <2>3, <2>4, <2>5, <2>6, <2>7, <2>8, <2>9, <2>10, <2>11, <2>12, <2>13,
         <2>14, <2>15, <2>16, <2>17, <2>18, <2>19, <2>20 DEF WriteNext
  <1>3. CASE CleanupNext
    <2>1. CASE CleanupBegin
      BY <1>0, <2>1 DEF CleanupBegin, NoOutcome, Fixed, Same, CleanInv, PlaceInv, FsTyped,
         ByHandle, ListingOf, CleanupMakesProgress, Making, NoOwner, NoRecovery, Reopening,
         Writing, Listing, Rooting, NotOwned, heldVars, fsVars
    <2>2. CASE CleanupStart
      <3>0. pc = "cStart" /\ UNCHANGED <<parent, inside>>
        BY <2>2 DEF CleanupStart, Same, fsVars
      <3>1. CASE ~owner.armed /\ CleanupEnds(TRUE, owner)
        <4>1. pc' = "idle" /\ outcome'.op = "reopen"
          BY <3>0, <3>1 DEF CleanupEnds, Return, Outcome
        <4> QED
          BY <4>1 DEF CleanInv, CleanupMakesProgress, Listing
      <3>2. CASE /\ Goto(IF owner.child # None THEN "cList" ELSE "cRoot") /\ NoFault /\ Keep
                 /\ owner.id # None
        <4>1. /\ UNCHANGED <<owner, quiet>> /\ pc' = IF owner.child # None THEN "cList" ELSE "cRoot"
          BY <3>2 DEF Goto, NoFault, Keep, heldVars
        <4> QED
          BY <1>0, <3>0, <3>2, <4>1 DEF CleanInv, CleanupMakesProgress, Listing
      <3>3. CASE owner.armed /\ CleanupFails /\
                 IF owner.id # None /\ parent[owner.name] = owner.id THEN Fault ELSE NoFault
        BY <1>0, <3>0, <3>3, CleanupFailure DEF Fault, CleanInv, CleanupMakesProgress, Listing
      <3> QED
        BY <2>2, <3>1, <3>2, <3>3 DEF CleanupStart
    <2>3. CASE CleanupList
      BY <1>0, <2>3, SMTT(30), Z3T(30) DEF CleanupList, Same, Goto, NoFault, Keep, Fault,
         CleanupFails, Fixed, CleanupEnds, Return, Outcome, CleanInv, PlaceInv, FsTyped,
         ByHandle, ListingOf, CleanupMakesProgress, Making, NoOwner, NoRecovery, NoOutcome,
         Reopening, Writing, Listing, Rooting, NotOwned, fsVars, heldVars
    <2>4. CASE CleanupEntry
      <3>0. /\ pc = "cEntry" /\ UNCHANGED <<parent, inside>>
            /\ owner.armed /\ owner.id \in Roots /\ owner.child \in Roots
        BY <1>0, <2>4 DEF CleanupEntry, Same, fsVars, PlaceInv, Listing
      <3>1. PICK e \in todo :
               /\ \A other \in todo : Len(other[1]) <= Len(e[1])
               /\ LET unchanged == inside[owner.child][e[1]] = e[2] /\ owner.owned[e[1]] \in {None, e[2]} IN
                  \/ /\ unchanged /\ path' = e[1] /\ file' = e[2] /\ Goto("cDelete")
                     /\ quiet' = quiet \cup {"checked"} /\ Keep /\ UNCHANGED todo
                  \/ (IF unchanged THEN Fault ELSE NoFault) /\ CleanupFails
        BY <2>4 DEF CleanupEntry
      <3>2. e[1] \in Paths /\ e[2] \in Ids /\ e = <<e[1], e[2]>>
        BY <1>0, <3>1, SMTT(30), Z3T(30) DEF LocalsTyped
      <3>3. CASE /\ inside[owner.child][e[1]] = e[2] /\ owner.owned[e[1]] \in {None, e[2]}
                 /\ path' = e[1] /\ file' = e[2] /\ Goto("cDelete")
                 /\ quiet' = quiet \cup {"checked"} /\ Keep /\ UNCHANGED todo
        <4>1. pc' = "cDelete" /\ UNCHANGED owner
          BY <3>3 DEF Goto, Keep, heldVars
        <4>2. ListingOf(owner.child)' = ListingOf(owner.child)
          BY <3>0, <4>1 DEF ListingOf
        <4> QED
          BY <1>0, <3>0, <3>1, <3>2, <3>3, <4>1, <4>2 DEF CleanInv, CleanupMakesProgress, Listing
      <3>4. CASE Fault /\ CleanupFails
        BY <1>0, <3>0, <3>4, CleanupFailure DEF Fault, CleanInv, CleanupMakesProgress, Listing
      <3>5. CASE /\ ~(inside[owner.child][e[1]] = e[2] /\ owner.owned[e[1]] \in {None, e[2]})
                 /\ NoFault /\ CleanupFails
        <4>1. /\ "call" \in quiet => inside[owner.child][e[1]] = e[2]
          BY <1>0, <3>0, <3>1, <3>2, SMTT(30), Z3T(30) DEF CleanInv, ListingOf
        <4>2. "call" \in quiet' /\ owner.child = owner.id =>
                owner'.owned[e[1]] # None /\ inside'[owner'.id][e[1]] \notin {None, owner'.owned[e[1]]}
          BY <1>0, <3>0, <3>2, <3>5, <4>1, CleanupFailure DEF NoFault
        <4>3. "call" \in quiet' /\ owner.child = owner.id => NotOwned'
          BY <3>2, <4>2 DEF NotOwned
        <4> QED
          BY <1>0, <3>0, <3>5, <4>3, CleanupFailure DEF CleanInv, CleanupMakesProgress, Listing
      <3> QED
        BY <3>1, <3>3, <3>4, <3>5
    <2>5. CASE CleanupDelete
      <3>0. /\ pc = "cDelete" /\ owner.armed /\ owner.child \in Roots /\ path \in Paths
            /\ file \in Ids
            /\ "call" \in quiet => inside[owner.child][path] = file /\ todo = ListingOf(owner.child)
            /\ \A o \in todo : Len(o[1]) <= Len(path)
        BY <1>0, <2>5 DEF CleanupDelete, PlaceInv, CleanInv, Listing
      <3>1. CASE /\ RemoveEntry(owner.child, path) /\ todo' = todo \ {<<path, file>>}
                 /\ Goto("cEntry") /\ NoFault /\ Keep
        <4>1. pc' = "cEntry" /\ UNCHANGED <<owner, quiet>>
          BY <3>1 DEF Goto, NoFault, Keep, heldVars
        <4>2. inside'[owner.child] = [inside[owner.child] EXCEPT ![path] = None]
          BY <1>0, <3>0, <3>1 DEF RemoveEntry, Put, FsTyped
        <4>3. "call" \in quiet => todo' = ListingOf(owner.child)'
          BY <1>0, <3>0, <3>1, <4>1, <4>2, SMTT(30), Z3T(30) DEF ListingOf, FsTyped
        <4> QED
          BY <1>0, <3>0, <4>1, <4>3 DEF CleanInv, CleanupMakesProgress, Listing
      <3>2. CASE Fault /\ CleanupFails
        BY <1>0, <3>0, <3>2, CleanupFailure DEF Fault, CleanInv, CleanupMakesProgress, Listing
      <3>3. CASE ~Deletable(owner.child, path, file) /\ NoFault /\ CleanupFails
        <4>1. CASE "call" \in quiet
          <5>1. file \in DirIds /\ Holds(owner.child, path)
            BY <3>0, <3>3, <4>1 DEF Deletable, Ids
          <5>2. PICK q \in Paths : Below(path, q) /\ inside[owner.child][q] # None
            BY <5>1 DEF Holds
          <5>3. <<q, inside[owner.child][q]>> \in todo
            BY <3>0, <4>1, <5>2 DEF ListingOf
          <5>4. Len(q) <= Len(path) /\ Len(q) > Len(path)
            BY <3>0, <5>2, <5>3 DEF Below
          <5> QED
            BY <3>0, <5>2, <5>4, PathsAssumption, SMTT(30), Z3T(30)
        <4>2. CASE "call" \notin quiet
          BY <1>0, <3>0, <3>3, <4>2, CleanupFailure DEF NoFault, CleanInv, CleanupMakesProgress,
             Listing
        <4> QED
          BY <4>1, <4>2
      <3> QED
        BY <2>5, <3>1, <3>2, <3>3 DEF CleanupDelete
    <2>6. CASE CleanupListed
      <3>1. /\ pc = "cEntry" /\ pc' = "cRoot" /\ todo = {}
            /\ UNCHANGED <<parent, inside, quiet>>
            /\ owner' = [owner EXCEPT !.child = None]
        BY <2>6 DEF CleanupListed, Same, NoFault, Goto, Fixed, fsVars
      <3>2. /\ owner'.id = owner.id /\ owner.child \in Roots
            /\ "child" \in quiet => owner.child = owner.id
        BY <1>0, <3>1 DEF HeldTyped, Owners, PlaceInv, CleanInv, Listing
      <3>3. ASSUME "call" \in quiet PROVE Empty(owner.child)
        <4>1. ListingOf(owner.child) = {}
          BY <1>0, <3>1, <3>3 DEF CleanInv
        <4>2. \A q \in Paths : inside[owner.child][q] = None
          <5> SUFFICES ASSUME NEW q \in Paths, inside[owner.child][q] # None PROVE FALSE
            OBVIOUS
          <5>1. <<q, inside[owner.child][q]>> \in ListingOf(owner.child)
            BY DEF ListingOf
          <5> QED
            BY <4>1, <5>1
        <4> QED
          BY <1>0, <3>2, <4>2 DEF Empty, NoEntries, FsTyped
      <3>4. {"call", "child"} \subseteq quiet => Empty(owner.id)'
        BY <3>1, <3>2, <3>3 DEF Empty
      <3> QED
        BY <3>1, <3>4 DEF CleanInv, CleanupMakesProgress, Listing
    <2>7. CASE CleanupRoot
      <3>0. pc = "cRoot" /\ owner.armed /\ UNCHANGED <<parent, inside>>
        BY <1>0, <2>7 DEF CleanupRoot, Same, fsVars, PlaceInv, Rooting
      <3>1. CASE /\ parent[owner.name] = owner.id /\ Goto("cRootDelete")
                 /\ quiet' = quiet \cup {"checked"} /\ Keep
        <4>1. pc' = "cRootDelete" /\ UNCHANGED owner
          BY <3>1 DEF Goto, Fixed, Keep, heldVars
        <4>2. Empty(owner.id)' = Empty(owner.id)
          BY <3>0, <4>1 DEF Empty
        <4> QED
          BY <1>0, <3>0, <3>1, <4>1, <4>2 DEF CleanInv, CleanupMakesProgress, Listing
      <3>2. CASE CleanupFails /\ IF parent[owner.name] = owner.id THEN Fault ELSE NoFault
        BY <1>0, <3>0, <3>2, CleanupFailure DEF Fault, CleanInv, CleanupMakesProgress, Listing
      <3> QED
        BY <2>7, <3>1, <3>2 DEF CleanupRoot
    <2>8. CASE CleanupRootDelete
      <3>0. pc = "cRootDelete" /\ owner.armed /\ owner.name \in Names /\ owner.id \in Roots
        BY <1>0, <2>8 DEF CleanupRootDelete, PlaceInv, Rooting
      <3>1. CASE RemoveRoot(owner.name) /\ CleanupEnds(TRUE, owner)
        <4>1. pc' = "idle" /\ outcome'.ok = (TRUE /\ owner.armed) /\ owner' = [owner EXCEPT !.armed = ~TRUE]
          BY <3>1 DEF CleanupEnds, Return, Outcome
        <4>2. parent'[owner'.name] = None
          BY <1>0, <3>0, <3>1, <4>1 DEF RemoveRoot, FsTyped, HeldTyped, Owners
        <4> QED
          BY <3>0, <4>1, <4>2 DEF CleanInv, CleanupMakesProgress, Listing
      <3>2. CASE /\ Goto("cReopen") /\ Same /\ Keep
                 /\ IF parent[owner.name] # None /\ Empty(parent[owner.name]) THEN Fault ELSE NoFault
        <4>1. pc' = "cReopen" /\ UNCHANGED <<owner, parent>>
          BY <3>2 DEF Goto, Fixed, Keep, heldVars, Same, fsVars
        <4>2. "call" \in quiet' =>
                /\ quiet' = quiet /\ parent[owner.name] = owner.id /\ ~Empty(owner.id)
          BY <1>0, <3>0, <3>2 DEF Fault, NoFault, CleanInv
        <4> QED
          BY <1>0, <3>0, <4>1, <4>2 DEF CleanInv, CleanupMakesProgress, Listing
      <3> QED
        BY <2>8, <3>1, <3>2 DEF CleanupRootDelete
    <2>9. CASE CleanupReopen
      <3>0. pc = "cReopen" /\ owner.armed /\ UNCHANGED parent
        BY <1>0, <2>9 DEF CleanupReopen, Same, fsVars, PlaceInv, Rooting
      <3>1. CASE NoFault /\ CleanupEnds(FALSE, [owner EXCEPT !.child = parent[owner.name]])
        <4>1. pc' = "idle" /\ outcome'.ok = (FALSE /\ owner.armed) /\ quiet' = quiet
          BY <3>1 DEF CleanupEnds, NoFault, Return, Outcome
        <4>2. owner'.id = owner.id /\ owner'.child = parent[owner.name]
          BY <1>0, <3>1 DEF CleanupEnds, HeldTyped, Owners
        <4> QED
          BY <1>0, <3>0, <4>1, <4>2 DEF CleanInv, CleanupMakesProgress, Listing
      <3>2. CASE Fault /\ CleanupFails
        BY <1>0, <3>0, <3>2, CleanupFailure DEF Fault, CleanInv, CleanupMakesProgress, Listing
      <3> QED
        BY <2>9, <3>1, <3>2 DEF CleanupReopen
    <2>10. CASE RetainInPlace
      <3>1. /\ pc' \notin {"rDelete", "cStart", "cReopen"} \cup Listing \cup Rooting
            /\ pc' = "idle" => outcome'.op # "cleanup"
        BY <2>10 DEF RetainInPlace, Begin, NoOutcome, Outcome, Listing, Rooting
      <3> QED
        BY <3>1, FarFromCleanup
    <2>11. CASE ProcessEnds
      <3>1. /\ pc' \notin {"rDelete", "cStart", "cReopen"} \cup Listing \cup Rooting
            /\ pc' = "idle" => outcome'.op # "cleanup"
        BY <2>11 DEF ProcessEnds, NoOutcome, Outcome, Listing, Rooting
      <3> QED
        BY <3>1, FarFromCleanup
    <2>12. CASE ReopenBegin
      <3>1. /\ pc' \notin {"rDelete", "cStart", "cReopen"} \cup Listing \cup Rooting
            /\ pc' = "idle" => outcome'.op # "cleanup"
        BY <2>12 DEF ReopenBegin, Begin, NoOutcome, Listing, Rooting
      <3> QED
        BY <3>1, FarFromCleanup
    <2>13. CASE ReopenOpen
      <3>1. /\ pc' \notin {"rDelete", "cStart", "cReopen"} \cup Listing \cup Rooting
            /\ pc' = "idle" => outcome'.op # "cleanup"
        BY <2>13, SMTT(30), Z3T(30) DEF ReopenOpen, Goto, ReopenFails, Return, Outcome, Listing,
           Rooting
      <3> QED
        BY <3>1, FarFromCleanup
    <2>14. CASE ReopenVerify
      <3>1. /\ pc' \notin {"rDelete", "cStart", "cReopen"} \cup Listing \cup Rooting
            /\ pc' = "idle" => outcome'.op # "cleanup"
        BY <2>14, SMTT(30), Z3T(30) DEF ReopenVerify, Goto, ReopenFails, Return, Outcome,
           Listing, Rooting
      <3> QED
        BY <3>1, FarFromCleanup
    <2>15. CASE ReopenArm
      BY <1>0, <2>15, SMTT(30), Z3T(30) DEF ReopenArm, Same, Return, Outcome, NoFault, Fault,
         Goto, Keep, Fixed, CleanInv, PlaceInv, FsTyped, ByHandle, ListingOf,
         CleanupMakesProgress, Making, NoOwner, NoRecovery, NoOutcome, Reopening, Writing,
         Listing, Rooting, NotOwned, fsVars, heldVars
    <2> QED
      BY <1>3, <2>1, <2>2, <2>3, <2>4, <2>5, <2>6, <2>7, <2>8, <2>9, <2>10, <2>11, <2>12, <2>13,
         <2>14, <2>15 DEF CleanupNext
  <1>4. CASE OtherExchangesNames
    BY <1>0, <1>4 DEF OtherExchangesNames, OtherMoves, CleanInv, PlaceInv, FsTyped, ByHandle,
       ListingOf, CleanupMakesProgress, Making, NoOwner, NoRecovery, NoOutcome, Reopening,
       Writing, Listing, Rooting, NotOwned, heldVars, callVars
  <1>5. CASE OtherAddsEntry
    BY <1>0, <1>5 DEF OtherAddsEntry, OtherMoves, Put, CleanInv, PlaceInv, FsTyped, ByHandle,
       ListingOf, CleanupMakesProgress, Making, NoOwner, NoRecovery, NoOutcome, Reopening,
       Writing, Listing, Rooting, NotOwned, heldVars, callVars
  <1>6. CASE OtherRemovesEntry
    BY <1>0, <1>6 DEF OtherRemovesEntry, OtherMoves, RemoveEntry, Put, CleanInv, PlaceInv,
       FsTyped, ByHandle, ListingOf, CleanupMakesProgress, Making, NoOwner, NoRecovery,
       NoOutcome, Reopening, Writing, Listing, Rooting, NotOwned, heldVars, callVars
  <1> QED
    BY <1>1, <1>2, <1>3, <1>4, <1>5, <1>6 DEF Next

-----------------------------------------------------------------------------
(* What a step of the program removes. *)

\* The steps that touch the parent directory: making the stage, and the two removals.
LEMMA RootSteps ==
    ASSUME IInv, Next, moves' = moves, parent' # parent
    PROVE  MakeDirectory \/ MakeFailsLate \/ RecoveryDelete \/ CleanupRootDelete
  <1>1. moves \in Nat
    BY DEF IInv, Typed, LocalsTyped
  <1>2. ~(OtherExchangesNames \/ OtherAddsEntry \/ OtherRemovesEntry)
    BY <1>1, SMTT(30), Z3T(30) DEF OtherExchangesNames, OtherAddsEntry, OtherRemovesEntry,
       OtherMoves
  <1>3. CASE CreateNext
    BY <1>3 DEF CreateNext, CreateRefused, Same, fsVars, CreateStart, NameTaken, MakeFails,
       OpenAt, OpenAtFails, VerifyDirectory, VerifyDirectoryFails, CreatedIdentity,
       CreateRetains, OpenDirectory, OpenDirectoryFails, ObserveDirectory, ObserveName
  <1>4. CASE WriteNext
    BY <1>4 DEF WriteNext, WriteBegin, Begin, Same, fsVars, AtomicOpen, AtomicOpenFails,
       AtomicFill, AtomicCommit, AtomicCommitLinked, AtomicCommitFails, AtomicAbort,
       AtomicUnlink, WriteParent, WriteParentMade, WriteParentFails, WriteCreate,
       WriteCreateFails, WriteIdentity, WriteStream, WriteObserve, RecoveryBegin, RecoveryCheck
  <1>5. CASE CleanupNext
    BY <1>5 DEF CleanupNext, CleanupBegin, Same, fsVars, CleanupStart, CleanupList, CleanupEntry,
       CleanupDelete, RemoveEntry, CleanupListed, CleanupRoot, CleanupReopen, RetainInPlace,
       Begin, ProcessEnds, ReopenBegin, ReopenOpen, ReopenVerify, ReopenArm
  <1> QED
    BY <1>2, <1>3, <1>4, <1>5 DEF Next

\* The steps that touch what a staged directory holds: the files and the parent that a write
\* makes, the installation and the removal of its staging file, and the two removals.
LEMMA EntrySteps ==
    ASSUME IInv, Next, moves' = moves, inside' # inside
    PROVE  \/ AtomicOpen \/ AtomicCommit \/ AtomicCommitLinked \/ AtomicUnlink
           \/ WriteParentMade \/ WriteCreate \/ RecoveryDelete \/ CleanupDelete
  <1>1. moves \in Nat
    BY DEF IInv, Typed, LocalsTyped
  <1>2. ~(OtherExchangesNames \/ OtherAddsEntry \/ OtherRemovesEntry)
    BY <1>1, SMTT(30), Z3T(30) DEF OtherExchangesNames, OtherAddsEntry, OtherRemovesEntry,
       OtherMoves
  <1>3. CASE CreateNext
    BY <1>3 DEF CreateNext, CreateRefused, Same, fsVars, CreateStart, NameTaken, MakeDirectory,
       MakeFails, MakeFailsLate, OpenAt, OpenAtFails, VerifyDirectory, VerifyDirectoryFails,
       CreatedIdentity, CreateRetains, OpenDirectory, OpenDirectoryFails, ObserveDirectory,
       ObserveName
  <1>4. CASE WriteNext
    BY <1>4 DEF WriteNext, WriteBegin, Begin, Same, fsVars, AtomicOpenFails, AtomicFill,
       AtomicCommitFails, AtomicAbort, WriteParent, WriteParentFails, WriteCreateFails,
       WriteIdentity, WriteStream, WriteObserve, RecoveryBegin, RecoveryCheck
  <1>5. CASE CleanupNext
    BY <1>5 DEF CleanupNext, CleanupBegin, Same, fsVars, CleanupStart, CleanupList, CleanupEntry,
       CleanupListed, CleanupRoot, CleanupRootDelete, RemoveRoot, CleanupReopen, RetainInPlace,
       Begin, ProcessEnds, ReopenBegin, ReopenOpen, ReopenVerify, ReopenArm
  <1> QED
    BY <1>2, <1>3, <1>4, <1>5 DEF Next

\* A directory that leaves the parent is removed by a cleanup for an armed resource with an
\* identity, or by the cleanup of a recovery with one.
LEMMA StepRemovesRoot ==
    ASSUME IInv, Next, moves' = moves, NEW n \in Names, RootGone(n)
    PROVE  \/ /\ pc = "cRootDelete" /\ owner.armed /\ owner.id # None
              /\ "checked" \in quiet => parent[n] = owner.id
           \/ /\ pc = "rDelete" /\ recov.id # None
              /\ "checked" \in quiet \/ ByHandle => parent[n] = recov.id
  <1> USE ConstantsAssumption
  <1>0. /\ FsTyped /\ HeldTyped /\ PlaceInv /\ CleanInv /\ Mine # None
        /\ parent' # parent /\ parent[n] # None /\ parent'[n] = None
    BY DEF IInv, Typed, Roots, RootGone
  <1>1. CASE MakeDirectory \/ MakeFailsLate
    <2>1. PICK m \in Names : parent[m] = None /\ parent' = [parent EXCEPT ![m] = Mine]
      BY <1>1 DEF MakeDirectory, MakeFailsLate
    <2> QED
      BY <1>0, <2>1 DEF FsTyped
  <1>2. CASE RecoveryDelete
    <2>1. /\ pc = "rDelete" /\ recov.id # None
          /\ "checked" \in quiet /\ ~ByHandle => Shown(recov) = recov.id
      BY <1>0, <1>2 DEF RecoveryDelete, CleanInv
    <2>2. CASE ~ByHandle /\ recov.at = "parent" /\ RemoveRoot(recov.where)
      <3>1. n = recov.where
        BY <1>0, <2>2 DEF RemoveRoot, FsTyped
      <3> QED
        BY <2>1, <2>2, <3>1 DEF Shown
    <2>3. CASE parent' = [m \in Names |-> IF parent[m] = recov.id THEN None ELSE parent[m]]
      BY <1>0, <2>1, <2>3, SMTT(30), ZenonT(60)
    <2> QED
      BY <1>0, <1>2, <2>2, <2>3 DEF RecoveryDelete, RemoveEntry, Same, fsVars
  <1>3. CASE CleanupRootDelete
    <2>1. n = owner.name
      BY <1>0, <1>3 DEF CleanupRootDelete, RemoveRoot, Same, fsVars, FsTyped
    <2>2. owner.id \in Roots /\ None \notin Roots
      BY <1>0, <1>3 DEF CleanupRootDelete, PlaceInv, Rooting
    <2> QED
      BY <1>0, <1>3, <2>1, <2>2 DEF CleanupRootDelete, PlaceInv, Rooting, CleanInv
  <1> QED
    BY <1>0, <1>1, <1>2, <1>3, RootSteps

\* The same for an entry of a directory.
LEMMA StepRemovesEntry ==
    ASSUME IInv, Next, moves' = moves, NEW r \in Roots, NEW p \in Paths, EntryGone(r, p)
    PROVE  \/ /\ pc = "cDelete" /\ owner.armed /\ owner.id # None /\ r = owner.child
              /\ "checked" \in quiet => <<p, inside[r][p]>> \in todo
                                        /\ owner.owned[p] \in {None, inside[r][p]}
           \/ /\ pc = "rDelete" /\ recov.id # None
              /\ "checked" \in quiet \/ ByHandle => inside[r][p] = recov.id
           \/ /\ pc = "wUnlink" /\ r = owner.child /\ p = name
              /\ "checked" \in quiet => inside[r][p] = file
           \/ pc = "wCommit" /\ p = name /\ inside'[r][path] = inside[r][p]
  <1> USE ConstantsAssumption
  <1>0. /\ FsTyped /\ HeldTyped /\ PlaceInv /\ AtomicInv /\ CleanInv /\ None \notin Roots \cup Ids
        /\ inside' # inside /\ inside[r][p] # None /\ inside'[r][p] = None
    BY DEF IInv, Typed, EntryGone
  <1>1. CASE AtomicOpen \/ WriteParentMade \/ WriteCreate
    <2>1. PICK s, q, i : i # None /\ inside' = [inside EXCEPT ![s][q] = i]
      BY <1>0, <1>1 DEF AtomicOpen, WriteParentMade, WriteCreate, Put, Fresh, Ids
    <2> QED
      BY <1>0, <2>1 DEF FsTyped
  <1>2. CASE RecoveryDelete
    <2>1. /\ pc = "rDelete" /\ recov.id # None
          /\ "checked" \in quiet /\ ~ByHandle => Shown(recov) = recov.id
      BY <1>0, <1>2 DEF RecoveryDelete, CleanInv
    <2>2. CASE ~ByHandle /\ recov.at # "parent" /\ RemoveEntry(recov.at, recov.where)
      <3>1. r = recov.at /\ p = recov.where
        BY <1>0, <2>2, SMTT(30), Z3T(30) DEF RemoveEntry, Put, FsTyped
      <3> QED
        BY <2>1, <2>2, <3>1 DEF Shown
    <2>3. CASE inside' = [s \in Roots |-> [q \in Paths |->
                            IF inside[s][q] = recov.id THEN None ELSE inside[s][q]]]
      BY <1>0, <2>1, <2>3, SMTT(30), ZenonT(60)
    <2> QED
      BY <1>0, <1>2, <2>2, <2>3 DEF RecoveryDelete, RemoveRoot, Same, fsVars
  <1>3. CASE CleanupDelete
    <2>1. r = owner.child /\ p = path /\ pc = "cDelete"
      BY <1>0, <1>3, SMTT(30), Z3T(30) DEF CleanupDelete, RemoveEntry, Put, Same, fsVars, FsTyped
    <2>2. owner.id \in Roots /\ owner.child \in Roots /\ owner.armed
      BY <1>0, <2>1 DEF PlaceInv, Listing
    <2> QED
      BY <1>0, <2>1, <2>2 DEF CleanInv
  <1>4. CASE AtomicCommit \/ AtomicCommitLinked
    <2>1. PICK left \in {None, StagingShown} : Install(StagingShown, left)
      BY <1>4 DEF AtomicCommit, AtomicCommitLinked
    <2>2. pc = "wCommit" /\ AtomicReady
      BY <1>4 DEF AtomicCommit, AtomicCommitLinked
    <2>3. owner.child \in Roots /\ path \in Paths /\ name \in Paths
      BY <1>0, <2>2, PathsAssumption DEF PlaceInv, AtomicInv, Writing, Staging, Listing, Rooting
    <2>4. r = owner.child /\ p \in {name, path}
      BY <1>0, <2>1, <2>3 DEF Install, FsTyped
    <2>5. inside[owner.child][path] = None
      BY <2>2 DEF AtomicReady
    <2>6. inside'[owner.child][path] = inside[owner.child][name]
      BY <2>1, <2>2, InstallShows
    <2> QED
      BY <1>0, <2>2, <2>4, <2>5, <2>6
  <1>5. CASE AtomicUnlink
    <2>1. pc = "wUnlink" /\ Put(owner.child, name, None)
      BY <1>0, <1>5 DEF AtomicUnlink
    <2>2. r = owner.child /\ p = name
      BY <1>0, <2>1, SMTT(30), Z3T(30) DEF Put, FsTyped
    <2> QED
      BY <1>0, <2>1, <2>2 DEF AtomicInv, Staging
  <1> QED
    BY <1>0, <1>1, <1>2, <1>3, <1>4, <1>5, EntrySteps

-----------------------------------------------------------------------------
(* The theorems. *)

\* Nothing has been created when create_staged_directory is called.
LEMMA InitIInv == Init => IInv
  <1> SUFFICES ASSUME Init PROVE IInv
    OBVIOUS
  <1> USE ConstantsAssumption DEF Init
  <1>1. FsTyped
    BY DEF FsTyped, Roots, NoEntries
  <1>2. HeldTyped
    BY RecordsTyped DEF HeldTyped
  <1>3. LocalsTyped
    BY DEF LocalsTyped
  <1>4. PlaceInv /\ CreateInv
    BY DEF PlaceInv, CreateInv, Making, Writing, Listing, Rooting, Reopening, NoOwner, Created
  <1>5. WriteInv /\ AtomicInv /\ CleanInv
    BY DEF WriteInv, AtomicInv, CleanInv, CleanupMakesProgress, Writing, Staging, Listing,
       NoOutcome
  <1> QED
    BY <1>1, <1>2, <1>3, <1>4, <1>5 DEF IInv, Typed

\* A step of the program or of another process keeps the invariant.
LEMMA NextIInv == IInv /\ [Next]_vars => IInv'
  <1> SUFFICES ASSUME IInv, [Next]_vars PROVE IInv'
    OBVIOUS
  <1>1. CASE Next
    BY <1>1, FsTypedPreserved, HeldTypedPreserved, LocalsTypedPreserved, PlacePreserved,
       CreatePreserved, WritePreserved, AtomicPreserved, CleanPreserved DEF IInv, Typed
  <1>2. CASE UNCHANGED vars
    <2> USE <1>2 DEF vars, fsVars, heldVars, callVars
    <2>1. Typed'
      BY DEF IInv, Typed, FsTyped, HeldTyped, LocalsTyped
    <2>2. PlaceInv'
      BY SMTT(30), Z3T(30) DEF IInv, PlaceInv, Plain
    <2>3. CreateInv'
      BY DEF IInv, CreateInv, Plain, Created
    <2>4. WriteInv'
      BY DEF IInv, WriteInv, Plain, Only, Accounted
    <2>5. AtomicInv'
      BY DEF IInv, AtomicInv, Plain, Only, Place
    <2>6. CleanInv'
      <3>1. /\ Shown(recov)' = Shown(recov) /\ ListingOf(owner.child)' = ListingOf(owner.child)
            /\ Empty(owner.id)' = Empty(owner.id) /\ NotOwned' = NotOwned /\ ByHandle' = ByHandle
        BY DEF Shown, Place, ListingOf, Empty, NotOwned, ByHandle
      <3> QED
        BY <3>1, SMTT(30), ZenonT(60) DEF IInv, CleanInv, CleanupMakesProgress, Listing
    <2> QED
      BY <2>1, <2>2, <2>3, <2>4, <2>5, <2>6 DEF IInv
  <1> QED
    BY <1>1, <1>2

\* The invariant holds in every reachable state of the life of a staged directory.
THEOREM LifetimeInvariant == Spec => []IInv
  BY InitIInv, NextIInv, PTL DEF Spec

\* What create_staged_directory and write_file_new report is what they did, for any number of
\* attempts, calls, moves of other processes and failing native calls: a failed private write
\* leaves no partial file without its recovery, and a failed default write no staging file
\* without a cleanup_error.
THEOREM StageReportsTruthfully == Spec => []StageReportTruthful
  <1>1. IInv => StageReportTruthful
    <2> SUFFICES ASSUME IInv PROVE StageReportTruthful
      OBVIOUS
    <2>2. CreateInv /\ WriteInv
      BY DEF IInv
    <2>3. ASSUME outcome.op = "write", pc = "idle", NEW r \in Roots, NEW p \in Paths,
                 inside[r][p] \in made
          PROVE  Accounted(p, inside[r][p])
      BY <2>2, <2>3 DEF WriteInv
    <2>4. outcome.op = "write" /\ pc = "idle" /\ outcome.ok /\ (~Plain \/ "call" \in quiet) =>
            \E p \in Paths : /\ owner.owned[p] \in made \cap full
                             /\ "call" \in quiet => inside[owner.child][p] = owner.owned[p]
      BY <2>2 DEF WriteInv
    <2> QED
      BY <2>2, <2>3, <2>4 DEF StageReportTruthful, CreateInv, Accounted
  <1> QED
    BY <1>1, LifetimeInvariant, PTL

\* A cleanup that succeeds undisturbed has removed the tree; one that fails undisturbed was
\* refused for a reason that holds, or has opened the directory the next attempt needs.
THEOREM CleanupsMakeProgress == Spec => []CleanupMakesProgress
  <1>1. IInv => CleanupMakesProgress
    BY DEF IInv, CleanInv
  <1> QED
    BY <1>1, LifetimeInvariant, PTL

\* No step of the program removes a directory or an entry unless an armed resource or a
\* recovery with an identity asks for it, or a failed write removes its staging file;
\* undisturbed since the last look, what it removes is what it looked at.
THEOREM RemovalsAreChecked == Spec => RemovesOnlyWhatItChecked
  <1> DEFINE Checked == Ours =>
       /\ \A n \in Names : RootGone(n) =>
            \/ pc = "cRootDelete" /\ owner.armed /\ owner.id # None
               /\ ("checked" \in quiet => parent[n] = owner.id)
            \/ pc = "rDelete" /\ recov.id # None
               /\ ("checked" \in quiet \/ ByHandle => parent[n] = recov.id)
       /\ \A r \in Roots, p \in Paths : EntryGone(r, p) =>
            \/ /\ pc = "cDelete" /\ owner.armed /\ owner.id # None /\ r = owner.child
               /\ "checked" \in quiet => <<p, inside[r][p]>> \in todo
                                         /\ owner.owned[p] \in {None, inside[r][p]}
            \/ /\ pc = "rDelete" /\ recov.id # None
               /\ "checked" \in quiet \/ ByHandle => inside[r][p] = recov.id
            \/ /\ pc = "wUnlink" /\ r = owner.child /\ p = name
               /\ "checked" \in quiet => inside[r][p] = file
            \/ pc = "wCommit" /\ p = name /\ inside'[r][path] = inside[r][p]
  <1>1. IInv /\ [Next]_vars => [Checked]_vars
    BY StepRemovesRoot, StepRemovesEntry DEF Ours
  <1>2. RemovesOnlyWhatItChecked <=> [][Checked]_vars
    BY DEF RemovesOnlyWhatItChecked
  <1> HIDE DEF Checked
  <1>3. Spec => [][Checked]_vars
    BY <1>1, LifetimeInvariant, PTL DEF Spec
  <1> QED
    BY <1>2, <1>3

=============================================================================
