--------------------- MODULE ConditionalRecovery_proofs ---------------------
(***************************************************************************)
(* What a conditional commit reports, keeps and destroys, for every set of *)
(* files, contents, options, fault points and any number of steps of other *)
(* processes: the reason of a failure, the copy of B and the leftovers     *)
(* handed to the caller, what a crash finds, and whose bytes are destroyed.*)
(* The invariant of ConditionalCommit_proofs is extended in layers, each   *)
(* of which relies on the ones before it.                                  *)
(***************************************************************************)
EXTENDS ConditionalCommit_proofs

USE ZenonT(30)

-----------------------------------------------------------------------------
(* The invariants. *)

\* Why a commit failed.
ReasonInv ==
    /\ conflict => native # "untouched"
    /\ pc \in {"report", "err"} =>
         /\ failure.stage = "Precheck" /\ failure.kind \in {"NotFound", "InvalidData"} =>
              opts.cond # Absent /\ native = "untouched" /\ publication = "NotPublished"
         /\ failure.kind = "AlreadyExists" =>
              opts.cond = Absent /\ native = "untouched" /\ publication = "NotPublished"

BeforeCopy   == {"closed", "open", "copy", "aborted"}
CopyAlone    == {"sync", "precheck", "publish", "inspect", "verifyDisplaced", "verifyInstalled",
                 "rollbackPrecheck", "rollbackRecheck", "rollbackVerify", "rollbackExchange",
                 "receipt"}
CopyOfB == CopyEntry("CandidateCopy")

\* The copy of B: one entry names it, no other name and no descriptor of another process does,
\* and nobody writes to it once it was verified.
CopyInv ==
    /\ pc \in BeforeCopy => copyId = NoFile /\ dir["copy"] = NoFile
    /\ pc \in BeforeCopy \cup {"fill", "verifyCopy"} => entries = {}
    /\ pc \in CopyAlone => entries = {CopyOfB}
    /\ pc \in {"syncInstalled", "cleanupOld"} => entries = {CopyOfB} \cup Some(displaced)
    /\ installed.role # "CandidateCopy" /\ displaced.role # "CandidateCopy"
    /\ \A e \in registered : e.role # "CandidateCopy"
    /\ \A e \in entries : e.role = "CandidateCopy" =>
         e = CopyOfB /\ (Verified(e) => Digest(e) = candDigest)
    /\ copyId # NoFile => dir["copy"] \in {copyId, NoFile}
    /\ copyId # NoFile /\ dir["copy"] = copyId =>
         copyId \notin {cand, dir["target"], dir["candidate"], handle}

\* An entry handed to the caller names what a private name still holds.
Listed(n, some) == dir[n] # NoFile => \E e \in some : e.name = n /\ e.id = dir[n]

Holding == {"verifyDisplaced", "verifyInstalled", "rollbackPrecheck", "rollbackRecheck",
            "rollbackVerify", "rollbackExchange", "syncInstalled", "cleanupOld"}

\* Where nobody else touches the private names: what they hold at each point.
PrivateInv ==
    opts.env = "gentle" =>
      /\ handle = NoFile
      /\ pc \in AfterCopy \cup {"cleanupCopy"} \/
         (pc \in {"report", "err"} /\ failure.stage \in AfterCopyStages) =>
           CopyOfB \in entries /\ dir["copy"] = copyId /\ copyId \in Files
      /\ pc \in {"fill", "verifyCopy"} => dir["copy"] = copyId
      /\ pc = "fill" => registered = {NewEntry("copy", copyId)}
      /\ pc \in {"closed", "aborted"} => dir["candidate"] = NoFile
      /\ pc \in Staging => dir["candidate"] = cand
      /\ pc = "inspect" =>
           /\ native = "untouched" => dir["candidate"] = cand
           /\ opts.cond = Absent => dir["candidate"] = IF attemptErr THEN cand ELSE NoFile
      /\ pc \in Holding => dir["candidate"] = displaced.id
      /\ pc \in {"verifyRollback", "cleanupCopy"} => Listed("candidate", entries)
      /\ pc = "report" => /\ dir["candidate"] = cand \/ Listed("candidate", entries)
                          /\ Listed("copy", entries \cup registered)
      /\ pc \in {"cleanupSync", "ok", "err"} => Listed("candidate", entries) /\ Listed("copy", entries)

\* The bytes of the displaced file.
BytesInv ==
    /\ dir["target"] = dir["candidate"] /\ dir["target"] # NoFile => opts.cond = Absent
    /\ opts.env = "gentle" /\ displaced # NoEntry /\
       (pc \in {"syncInstalled", "cleanupOld"} \/ (pc = "verifyInstalled" /\ ~conflict)) =>
         content[displaced.id] = opts.cond

MustSync == "Required" \in {opts.durability, opts.fileSync}
Saved == {"cleanupOld", "cleanupCopy", "cleanupSync", "ok"}

\* What a crash may find.
SyncInv ==
    /\ cand # NoFile /\ native = "untouched" => \A d \in pdirs : d["target"] # cand
    /\ MustSync /\ (pc \in {"precheck", "publish", "inspect"} \/ native # "untouched") =>
         cand \in synced
    /\ opts.durability = "NotRequired" => ~durable
    /\ opts.durability = "Required" => durable
    /\ pc \in Installing \/ (pc = "inspect" /\ opts.cond = Absent /\ ~attemptErr) =>
         dir["candidate"] # cand
    /\ opts.env = "gentle" /\ opts.durability = "Required" /\ pc \in AfterCopy \ {"sync"} =>
         copyId \in synced /\ \A d \in pdirs : d["copy"] = copyId
    /\ pc \in Saved =>
         /\ durable => cand \in synced /\ \A d \in pdirs : d["candidate"] # cand
         /\ fileSynced => cand \in synced

-----------------------------------------------------------------------------
(* The layers. *)

\* What the inspection of a native call concludes: the entries it saw, and either an error that
\* reports them or an installed file to be verified.
LEMMA InspectOutcome ==
    ASSUME IInv, Inspect
    PROVE  \E inst \in Lookup("StagedCandidate", "target"),
              disp \in Lookup(IF opts.cond = Absent THEN "StagedCandidate" ELSE "Displaced",
                              "candidate") :
             LET moved == IF opts.cond = Absent /\ ~attemptErr THEN NoEntry ELSE disp IN
             /\ conflict' => conflict \/ native = "installed"
             /\ \/ /\ pc' = "report" /\ failure'.stage = "Publish"
                   /\ failure'.kind \in {"Other", "InvalidData"}
                   /\ UNCHANGED <<installed, displaced>>
                   /\ entries \subseteq entries'
                   /\ entries' \subseteq entries \cup Some(inst) \cup Some(moved)
                   /\ native = "untouched" \/ Some(moved) \subseteq entries'
                \/ /\ pc' = IF moved # NoEntry THEN "verifyDisplaced" ELSE "verifyInstalled"
                   /\ UNCHANGED <<entries, failure>>
                   /\ installed' = inst /\ inst # NoEntry /\ displaced' = moved
                   /\ native = "installed"
                   /\ IF opts.cond = Absent THEN ~attemptErr ELSE moved # NoEntry
  <1>0. PICK inst \in Lookup("StagedCandidate", "target"),
             disp \in Lookup(IF opts.cond = Absent THEN "StagedCandidate" ELSE "Displaced",
                             "candidate"),
             ic \in SeenAsCandidate("target"), sc \in SeenAsCandidate("candidate") :
          LET state == IF opts.cond # Absent THEN ExchangeState(attemptErr, ic, sc, disp)
                       ELSE IF attemptErr \/ inst # NoEntry THEN "Published" ELSE "Indeterminate"
              moved == IF opts.cond = Absent /\ ~attemptErr THEN NoEntry ELSE disp
          IN  \/ JudgeAttempt(state, inst, moved)
              \/ /\ Faulty("AfterPublish")
                 /\ Fail("Publish", "Other",
                         IF state = "NotPublished" THEN {} ELSE Some(inst) \cup Some(moved), state)
                 /\ UNCHANGED <<conflict, installed, displaced>>
    BY Zenon DEF Inspect
  <1> DEFINE state == IF opts.cond # Absent THEN ExchangeState(attemptErr, ic, sc, disp)
                      ELSE IF attemptErr \/ inst # NoEntry THEN "Published" ELSE "Indeterminate"
             moved == IF opts.cond = Absent /\ ~attemptErr THEN NoEntry ELSE disp
             Told == /\ pc' = "report" /\ failure'.stage = "Publish"
                     /\ failure'.kind \in {"Other", "InvalidData"}
                     /\ UNCHANGED <<installed, displaced>>
                     /\ entries \subseteq entries'
                     /\ entries' \subseteq entries \cup Some(inst) \cup Some(moved)
                     /\ native = "untouched" \/ Some(moved) \subseteq entries'
             Goes == /\ pc' = IF moved # NoEntry THEN "verifyDisplaced" ELSE "verifyInstalled"
                     /\ UNCHANGED <<entries, failure>>
                     /\ installed' = inst /\ inst # NoEntry /\ displaced' = moved
                     /\ native = "installed"
                     /\ IF opts.cond = Absent THEN ~attemptErr ELSE moved # NoEntry
  <1>1. /\ state \in {"NotPublished", "Published", "Indeterminate"}
        /\ state = "NotPublished" => native = "untouched"
        /\ state = "Published" => native = "installed"
        /\ ~attemptErr => native = "installed"
        /\ opts.cond = Absent => state # "NotPublished"
    <2>0. pc = "inspect"
      BY DEF Inspect
    <2>1. CASE opts.cond # Absent
      BY <2>0, <2>1, ExchangeStateSound DEF IInv, TypeOK, OutcomeOK, NativeInv
    <2>2. CASE opts.cond = Absent
      BY <2>0, <2>2 DEF IInv, TypeOK, OutcomeOK, NativeInv
    <2> QED
      BY <2>1, <2>2
  <1>2. conflict \in BOOLEAN /\ attemptErr \in BOOLEAN /\ Some(NoEntry) = {}
    BY DEF IInv, TypeOK, OutcomeOK, Some
  <1>3. \/ JudgeAttempt(state, inst, moved)
        \/ /\ Fail("Publish", "Other",
                   IF state = "NotPublished" THEN {} ELSE Some(inst) \cup Some(moved), state)
           /\ UNCHANGED <<conflict, installed, displaced>>
    BY <1>0
  <1>4. opts.cond = Absent /\ ~attemptErr => moved = NoEntry
    OBVIOUS
  <1> HIDE DEF state, moved
  <1>5. (conflict' => conflict \/ native = "installed") /\ (Told \/ Goes)
    <2>1. CASE /\ Fail("Publish", "Other",
                       IF state = "NotPublished" THEN {} ELSE Some(inst) \cup Some(moved), state)
               /\ UNCHANGED <<conflict, installed, displaced>>
      BY <1>1, <2>1 DEF Fail
    <2>2. CASE JudgeAttempt(state, inst, moved) /\ state = "NotPublished"
      <3>1. /\ pc' = "report" /\ failure'.stage = "Publish"
            /\ failure'.kind \in {"Other", "InvalidData"}
            /\ UNCHANGED <<installed, displaced, entries>> /\ (conflict' => conflict \/ attemptErr)
        BY <1>1, <1>2, <2>2, SMTT(30), Z3T(30) DEF JudgeAttempt, Fail
      <3>2. attemptErr => UNCHANGED conflict
        BY <1>1, <1>2, <2>2 DEF JudgeAttempt, Fail
      <3> QED
        BY <1>1, <1>2, <2>2, <3>1, <3>2, SMTT(30), Z3T(30)
    <2>3. CASE JudgeAttempt(state, inst, moved) /\ state # "NotPublished"
      <3>1. CASE opts.cond # Absent /\ moved = NoEntry
        BY <1>1, <1>2, <2>3, <3>1, SMTT(30), Z3T(30) DEF JudgeAttempt, Fail
      <3>2. CASE /\ ~(opts.cond # Absent /\ moved = NoEntry)
                 /\ attemptErr /\ ~(opts.cond # Absent /\ state = "Published")
        BY <1>1, <1>2, <2>3, <3>2, SMTT(30), Z3T(30) DEF JudgeAttempt, Fail
      <3>3. CASE /\ ~(opts.cond # Absent /\ moved = NoEntry)
                 /\ ~(attemptErr /\ ~(opts.cond # Absent /\ state = "Published"))
        <4>1. native = "installed" /\ (opts.cond = Absent => ~attemptErr)
          BY <1>1, <3>3
        <4>2. CASE inst = NoEntry
          BY <1>1, <1>2, <2>3, <3>3, <4>1, <4>2, SMTT(30), Z3T(30) DEF JudgeAttempt, Fail
        <4>3. CASE inst # NoEntry
          BY <1>1, <1>2, <2>3, <3>3, <4>1, <4>3 DEF JudgeAttempt
        <4> QED
          BY <4>2, <4>3
      <3> QED
        BY <3>1, <3>2, <3>3
    <2> QED
      BY <1>1, <1>3, <2>1, <2>2, <2>3
  <1> QED
    BY <1>5 DEF moved

\* The reasons of a failure stay right.
LEMMA ReasonPreserved ==
    ASSUME IInv, ReasonInv, Next
    PROVE  ReasonInv'
  <1>0. /\ TypeOK /\ NativeInv /\ conflict \in BOOLEAN /\ attemptErr \in BOOLEAN
        /\ native \in {"untouched", "installed", "restored"}
    BY DEF IInv, TypeOK, OutcomeOK
  <1>1. CASE Open
    BY <1>0, <1>1 DEF Open, Allocate, ReasonInv, pubVars
  <1>2. CASE \E c \in Contents : Write(c)
    BY <1>0, <1>2, SMTT(30), Z3T(30) DEF Write, ReasonInv, pubVars
  <1>3. CASE Abort
    BY <1>0, <1>3 DEF Abort, RemoveCandidate, Rebind, ReasonInv, pubVars
  <1>4. CASE Drop
    BY <1>0, <1>4 DEF Drop, RemoveCandidate, Rebind, ReasonInv, writerVars, pubVars
  <1>5. CASE Commit
    BY <1>0, <1>5, SMTT(30), Z3T(30) DEF Commit, Fail, ReasonInv, writerVars
  <1>6. CASE CreateCopy
    BY <1>0, <1>6, SMTT(30), Z3T(30) DEF CreateCopy, Allocate, Fail, ReasonInv, writerVars
  <1>7. CASE FillCopy
    BY <1>0, <1>7, SMTT(30), Z3T(30) DEF FillCopy, Fail, ReasonInv, writerVars
  <1>8. CASE VerifyCopy
    BY <1>0, <1>8, SMTT(30), Z3T(30) DEF VerifyCopy, Fail, ReasonInv, writerVars
  <1>9. CASE SyncStaged
    BY <1>0, <1>9, SMTT(30), Z3T(30) DEF SyncStaged, Fail, ReasonInv, writerVars
  <1>10. CASE Precheck
    BY <1>0, <1>10, SMTT(30), Z3T(30) DEF Precheck, Fail, ReasonInv, NativeInv, Unpublished,
       Installing, Staging, writerVars
  <1>11. CASE PublishAbsent
    BY <1>0, <1>11, SMTT(30), Z3T(30) DEF PublishAbsent, Rebind, Fail, ReasonInv, NativeInv,
       Unpublished, Installing, Staging, writerVars
  <1>12. CASE PublishContent
    BY <1>0, <1>12, SMTT(30), Z3T(30) DEF PublishContent, Rebind, Swap, Fail, ReasonInv,
       writerVars
  <1>13. CASE Inspect
    <2>1. /\ pc = "inspect" /\ UNCHANGED native
          /\ conflict' => conflict \/ native = "installed"
          /\ \/ pc' \in {"verifyDisplaced", "verifyInstalled"}
             \/ failure'.stage = "Publish" /\ failure'.kind \in {"Other", "InvalidData"}
      BY <1>13, InspectOutcome DEF Inspect
    <2> QED
      BY <1>0, <2>1 DEF ReasonInv
  <1>14. CASE VerifyDisplaced
    BY <1>0, <1>14, SMTT(30), Z3T(30) DEF VerifyDisplaced, WithRole, Fail, ReasonInv, NativeInv,
       Unpublished, Installing, Staging, writerVars
  <1>15. CASE VerifyInstalled
    BY <1>0, <1>15, SMTT(30), Z3T(30) DEF VerifyInstalled, Some, Fail, ReasonInv, NativeInv,
       Unpublished, Installing, Staging, writerVars
  <1>16. CASE RollbackPrecheck
    BY <1>0, <1>16, SMTT(30), Z3T(30) DEF RollbackPrecheck, Fail, ReasonInv, writerVars
  <1>17. CASE RollbackRecheck
    BY <1>0, <1>17, SMTT(30), Z3T(30) DEF RollbackRecheck, Fail, ReasonInv, writerVars
  <1>18. CASE RollbackVerify
    BY <1>0, <1>18, SMTT(30), Z3T(30) DEF RollbackVerify, WithRole, Fail, ReasonInv, writerVars
  <1>19. CASE RollbackExchange
    BY <1>0, <1>19 DEF RollbackExchange, Rebind, Swap, ReasonInv, writerVars
  <1>20. CASE RollbackReceipt
    BY <1>0, <1>20, SMTT(30), Z3T(30) DEF RollbackReceipt, Fail, Some, ReasonInv, writerVars
  <1>21. CASE VerifyRollback
    BY <1>0, <1>21, SMTT(30), Z3T(30) DEF VerifyRollback, Fail, ReasonInv, writerVars
  <1>22. CASE SyncInstalled
    BY <1>0, <1>22, SMTT(30), Z3T(30) DEF SyncInstalled, Fail, ReasonInv, writerVars
  <1>23. CASE SaveComplete
    BY <1>0, <1>23 DEF SaveComplete, ReasonInv, writerVars, pubVars
  <1>24. CASE CleanupOld
    BY <1>0, <1>24 DEF CleanupOld, Cleanup, Rebind, ReasonInv, writerVars, pubVars
  <1>25. CASE CleanupCopy
    BY <1>0, <1>25 DEF CleanupCopy, Cleanup, Rebind, ReasonInv, writerVars, pubVars
  <1>26. CASE CleanupSync
    BY <1>0, <1>26 DEF CleanupSync, ReasonInv, writerVars, pubVars
  <1>27. CASE Report
    BY <1>0, <1>27 DEF Report, TakeRecoveryEntries, EntryAt, ReasonInv, writerVars, pubVars
  <1>28. CASE OtherReplace
    BY <1>0, <1>28 DEF OtherReplace, OtherMoves, Allocate, ReasonInv, writerVars, pubVars
  <1>29. CASE OtherOverwrite
    BY <1>0, <1>29 DEF OtherOverwrite, OtherMoves, ReasonInv, writerVars, pubVars
  <1>30. CASE OtherDelete
    BY <1>0, <1>30 DEF OtherDelete, OtherMoves, Rebind, ReasonInv, writerVars, pubVars
  <1>31. CASE OtherOpen
    BY <1>0, <1>31 DEF OtherOpen, OtherMoves, ReasonInv, writerVars, pubVars
  <1>32. CASE OtherWriteHandle
    BY <1>0, <1>32 DEF OtherWriteHandle, OtherMoves, ReasonInv, writerVars, pubVars
  <1>33. CASE OtherSweep
    BY <1>0, <1>33 DEF OtherSweep, OtherMoves, Rebind, ReasonInv, writerVars, pubVars
  <1>34. CASE Finished
    BY <1>0, <1>34 DEF Finished, vars, fsVars, otherVars, writerVars, copyVars, syncVars,
       pubVars, ReasonInv, NativeInv, Unpublished, Staging, Installing, fsVars, otherVars,
       writerVars, copyVars, syncVars, pubVars
  <1> QED
    BY <1>1, <1>2, <1>3, <1>4, <1>5, <1>6, <1>7, <1>8, <1>9, <1>10, <1>11, <1>12, <1>13, <1>14,
       <1>15, <1>16, <1>17, <1>18, <1>19, <1>20, <1>21, <1>22, <1>23, <1>24, <1>25, <1>26, <1>27,
       <1>28, <1>29, <1>30, <1>31, <1>32, <1>33, <1>34 DEF Next, WriterStep, CommitStep, Others

\* The copy of B stays apart and named by one entry.
LEMMA CopyPreserved ==
    ASSUME IInv, CopyInv, Next
    PROVE  CopyInv'
  <1> USE ConstantsAssumption
  <1>0. /\ dir \in [Names -> Files \cup {NoFile}]
        /\ content \in [Files -> Contents \cup {Partial}]
        /\ handle \in Files \cup {NoFile}
        /\ cand \in Files \cup {NoFile} /\ copyId \in Files \cup {NoFile}
        /\ registered \subseteq Entry /\ entries \subseteq Entry
        /\ installed \in Entry \cup {NoEntry} /\ displaced \in Entry \cup {NoEntry}
        /\ pc \in {"fill", "verifyCopy", "sync"} => copyId \in Files
        /\ pc \notin {"closed", "refused"} => cand \in Files
    BY DEF IInv, TypeOK, FsOK, WriterOK, EntriesOK, CandidateInv
  <1>1. CASE Open
    BY <1>0, <1>1 DEF Open, Free, Allocate, Names, CopyInv, BeforeCopy, CopyAlone, CopyOfB, Some,
       Verified, Digest, CopyEntry, NoEntry, fsVars, otherVars, copyVars, pubVars
  <1>2. CASE \E c \in Contents : Write(c)
    BY <1>0, <1>2 DEF Write, CopyInv, BeforeCopy, CopyAlone, CopyOfB, Some, Verified, Digest,
       CopyEntry, NoEntry, otherVars, copyVars, pubVars
  <1>3. CASE Abort
    BY <1>0, <1>3 DEF Abort, RemoveCandidate, Rebind, CopyInv, BeforeCopy, CopyAlone, CopyOfB,
       Some, Verified, Digest, CopyEntry, NoEntry, otherVars, copyVars, pubVars, Names
  <1>4. CASE Drop
    BY <1>0, <1>4 DEF Drop, RemoveCandidate, Rebind, CopyInv, BeforeCopy, CopyAlone, CopyOfB,
       Some, Verified, Digest, CopyEntry, NoEntry, otherVars, writerVars, copyVars, pubVars, Names
  <1>5. CASE Commit
    BY <1>0, <1>5 DEF Commit, Fail, CopyInv, BeforeCopy, CopyAlone, CopyOfB, Some, Verified,
       Digest, CopyEntry, NoEntry, fsVars, otherVars, writerVars
  <1>6. CASE CreateCopy
    BY <1>0, <1>6, SMTT(30), Z3T(30) DEF CreateCopy, Free, Allocate, NewEntry, Fail, Names,
       CopyInv, BeforeCopy, CopyAlone, CopyOfB, Some, Verified, Digest, CopyEntry, NoEntry,
       fsVars, otherVars, writerVars
  <1>7. CASE FillCopy
    BY <1>0, <1>7 DEF FillCopy, Fail, CopyInv, BeforeCopy, CopyAlone, CopyOfB, Some, Verified,
       Digest, CopyEntry, NoEntry, otherVars, writerVars
  <1>8. CASE VerifyCopy
    BY <1>0, <1>8, SMTT(30), Z3T(30) DEF VerifyCopy, CopyEntry, Verified, Digest, Fail, CopyInv,
       BeforeCopy, CopyAlone, CopyOfB, Some, NoEntry, fsVars, otherVars, writerVars, copyVars
  <1>9. CASE SyncStaged
    BY <1>0, <1>9 DEF SyncStaged, Verified, CopyEntry, Fail, CopyInv, BeforeCopy, CopyAlone,
       CopyOfB, Some, Digest, NoEntry, otherVars, writerVars, copyVars, Names
  <1>10. CASE Precheck
    BY <1>0, <1>10 DEF Precheck, Fail, CopyInv, BeforeCopy, CopyAlone, CopyOfB, Some, Verified,
       Digest, CopyEntry, NoEntry, otherVars, writerVars, copyVars
  <1>11. CASE PublishAbsent
    BY <1>0, <1>11, SMTT(30), Z3T(30) DEF PublishAbsent, Rebind, Fail, CopyInv, BeforeCopy,
       CopyAlone, CopyOfB, Some, Verified, Digest, CopyEntry, NoEntry, otherVars, writerVars,
       copyVars, Names
  <1>12. CASE PublishContent
    BY <1>0, <1>12, SMTT(30), Z3T(30) DEF PublishContent, Rebind, Swap, Fail, CopyInv,
       BeforeCopy, CopyAlone, CopyOfB, Some, Verified, Digest, CopyEntry, NoEntry, otherVars,
       writerVars, copyVars, Names
  <1>13. CASE Inspect
    <2>1. /\ pc = "inspect" /\ pc' \in {"report", "verifyDisplaced", "verifyInstalled"}
          /\ UNCHANGED <<dir, content, handle, cand, copyId, candDigest, registered>>
      BY <1>13, InspectOutcome DEF Inspect, fsVars, otherVars, writerVars, copyVars, syncVars,
         pubVars
    <2>2. /\ pc' # "report" => entries' = entries
          /\ \A e \in entries' : e \in entries \/ e.role # "CandidateCopy"
          /\ installed'.role # "CandidateCopy" /\ displaced'.role # "CandidateCopy"
      <3>1. \A r, n : \A e \in Lookup(r, n) : e = NoEntry \/ e.role = r
        BY SMTT(30), Z3T(30) DEF Lookup, EntryAt
      <3>2. NoEntry.role # "CandidateCopy" /\ \A e : Some(e) \subseteq {e}
        BY DEF NoEntry, Some
      <3> QED
        BY <1>13, InspectOutcome, <3>1, <3>2, SMTT(30), Z3T(30) DEF CopyInv
    <2> QED
      BY <1>0, <2>1, <2>2 DEF CopyInv, CopyOfB, CopyEntry, BeforeCopy, CopyAlone, Verified, Digest
  <1>14. CASE VerifyDisplaced
    BY <1>0, <1>14 DEF VerifyDisplaced, Verified, WithRole, Fail, CopyInv, BeforeCopy, CopyAlone,
       CopyOfB, Some, Digest, CopyEntry, NoEntry, fsVars, otherVars, writerVars, copyVars, Names,
       Entry
  <1>15. CASE VerifyInstalled
    BY <1>0, <1>15 DEF VerifyInstalled, Verified, Digest, Some, NoEntry, Fail, CopyInv,
       BeforeCopy, CopyAlone, CopyOfB, CopyEntry, fsVars, otherVars, writerVars, copyVars
  <1>16. CASE RollbackPrecheck
    BY <1>0, <1>16 DEF RollbackPrecheck, Verified, Digest, Fail, CopyInv, BeforeCopy, CopyAlone,
       CopyOfB, Some, CopyEntry, NoEntry, fsVars, otherVars, writerVars, copyVars
  <1>17. CASE RollbackRecheck
    BY <1>0, <1>17 DEF RollbackRecheck, Verified, Digest, Fail, CopyInv, BeforeCopy, CopyAlone,
       CopyOfB, Some, CopyEntry, NoEntry, fsVars, otherVars, writerVars, copyVars
  <1>18. CASE RollbackVerify
    BY <1>0, <1>18 DEF RollbackVerify, Verified, WithRole, Fail, CopyInv, BeforeCopy, CopyAlone,
       CopyOfB, Some, Digest, CopyEntry, NoEntry, fsVars, otherVars, writerVars, copyVars, Names,
       Entry
  <1>19. CASE RollbackExchange
    BY <1>0, <1>19, SMTT(30), Z3T(30) DEF RollbackExchange, Rebind, Swap, CopyInv, BeforeCopy,
       CopyAlone, CopyOfB, Some, Verified, Digest, CopyEntry, NoEntry, otherVars, writerVars,
       copyVars, Names
  <1>20. CASE RollbackReceipt
    <2>1. /\ pc = "receipt" /\ pc' \in {"report", "verifyRollback"}
          /\ UNCHANGED <<dir, content, handle, cand, copyId, candDigest, registered, displaced>>
      BY <1>20 DEF RollbackReceipt, Fail, fsVars, otherVars, writerVars, copyVars, syncVars,
         pubVars
    <2>2. /\ \A e \in entries' : e \in entries \/ e.role # "CandidateCopy"
          /\ installed'.role # "CandidateCopy"
      <3>1. \A r, n : \A e \in Lookup(r, n) : e = NoEntry \/ e.role = r
        BY SMTT(30), Z3T(30) DEF Lookup, EntryAt
      <3>2. /\ NoEntry.role # "CandidateCopy" /\ \A e : Some(e) \subseteq {e}
            /\ WithRole(displaced, "Displaced").role = "Displaced"
        BY <1>0 DEF NoEntry, Some, WithRole, Entry
      <3> QED
        BY <1>20, <3>1, <3>2, SMTT(30), Z3T(30) DEF CopyInv, RollbackReceipt, Fail
    <2> QED
      BY <1>0, <2>1, <2>2 DEF CopyInv, CopyOfB, CopyEntry, BeforeCopy, CopyAlone, Verified, Digest
  <1>21. CASE VerifyRollback
    BY <1>0, <1>21 DEF VerifyRollback, Verified, Fail, Digest, CopyInv, BeforeCopy, CopyAlone,
       CopyOfB, Some, CopyEntry, NoEntry, otherVars, writerVars, copyVars
  <1>22. CASE SyncInstalled
    BY <1>0, <1>22 DEF SyncInstalled, Verified, Fail, CopyInv, BeforeCopy, CopyAlone, CopyOfB,
       Some, Digest, CopyEntry, NoEntry, otherVars, writerVars, copyVars, Names
  <1>23. CASE SaveComplete
    BY <1>0, <1>23 DEF SaveComplete, CopyInv, BeforeCopy, CopyAlone, CopyOfB, Some, Verified,
       Digest, CopyEntry, NoEntry, fsVars, otherVars, writerVars, copyVars, pubVars
  <1>24. CASE CleanupOld
    <2>1. /\ pc = "cleanupOld" /\ pc' = "cleanupCopy"
          /\ UNCHANGED <<content, handle, cand, copyId, candDigest, registered, installed, displaced>>
      BY <1>24 DEF CleanupOld, Cleanup, fsVars, otherVars, writerVars, copyVars, syncVars, pubVars
    <2>2. entries' \subseteq entries /\ \A n \in Names : dir'[n] \in {dir[n], NoFile}
      BY <1>0, <1>24 DEF CleanupOld, Cleanup, Rebind, Entry
    <2> QED
      BY <1>0, <2>1, <2>2, SMTT(30), Z3T(30) DEF CopyInv, CopyOfB, CopyEntry, BeforeCopy,
         CopyAlone, Verified, Digest, Names, Entry
  <1>25. CASE CleanupCopy
    <2>1. /\ pc = "cleanupCopy" /\ pc' = "cleanupSync"
          /\ UNCHANGED <<content, handle, cand, copyId, candDigest, registered, installed, displaced>>
      BY <1>25 DEF CleanupCopy, Cleanup, fsVars, otherVars, writerVars, copyVars, syncVars,
         pubVars
    <2>2. entries' \subseteq entries /\ \A n \in Names : dir'[n] \in {dir[n], NoFile}
      BY <1>0, <1>25 DEF CleanupCopy, Cleanup, Rebind, Entry
    <2> QED
      BY <1>0, <2>1, <2>2, SMTT(30), Z3T(30) DEF CopyInv, CopyOfB, CopyEntry, BeforeCopy,
         CopyAlone, Verified, Digest, Names, Entry
  <1>26. CASE CleanupSync
    BY <1>0, <1>26 DEF CleanupSync, CopyInv, BeforeCopy, CopyAlone, CopyOfB, Some, Verified,
       Digest, CopyEntry, NoEntry, otherVars, writerVars, copyVars, pubVars, Names
  <1>27. CASE Report
    BY <1>0, <1>27, SMTT(30), Z3T(30) DEF Report, TakeRecoveryEntries, EntryAt, CopyInv,
       BeforeCopy, CopyAlone, CopyOfB, Some, Verified, Digest, CopyEntry, NoEntry, fsVars,
       otherVars, writerVars, pubVars
  <1>28. CASE OtherReplace
    BY <1>0, <1>28, SMTT(30), Z3T(30) DEF OtherReplace, OtherMoves, Free, Allocate, Names,
       CopyInv, BeforeCopy, CopyAlone, CopyOfB, Some, Verified, Digest, CopyEntry, NoEntry,
       writerVars, copyVars, pubVars
  <1>29. CASE OtherOverwrite
    BY <1>0, <1>29, SMTT(30), Z3T(30) DEF OtherOverwrite, OtherMoves, CopyInv, BeforeCopy,
       CopyAlone, CopyOfB, Some, Verified, Digest, CopyEntry, NoEntry, writerVars, copyVars,
       pubVars
  <1>30. CASE OtherDelete
    BY <1>0, <1>30, SMTT(30), Z3T(30) DEF OtherDelete, OtherMoves, Rebind, CopyInv, BeforeCopy,
       CopyAlone, CopyOfB, Some, Verified, Digest, CopyEntry, NoEntry, writerVars, copyVars,
       pubVars, Names
  <1>31. CASE OtherOpen
    BY <1>0, <1>31 DEF OtherOpen, OtherMoves, CopyInv, BeforeCopy, CopyAlone, CopyOfB, Some,
       Verified, Digest, CopyEntry, NoEntry, fsVars, writerVars, copyVars, pubVars
  <1>32. CASE OtherWriteHandle
    BY <1>0, <1>32, SMTT(30), Z3T(30) DEF OtherWriteHandle, OtherMoves, CopyInv, BeforeCopy,
       CopyAlone, CopyOfB, Some, Verified, Digest, CopyEntry, NoEntry, writerVars, copyVars,
       pubVars
  <1>33. CASE OtherSweep
    BY <1>0, <1>33, SMTT(30), Z3T(30) DEF OtherSweep, OtherMoves, Names, Rebind, CopyInv,
       BeforeCopy, CopyAlone, CopyOfB, Some, Verified, Digest, CopyEntry, NoEntry, writerVars,
       copyVars, pubVars, Entry
  <1>34. CASE Finished
    BY <1>0, <1>34 DEF Finished, vars, fsVars, otherVars, writerVars, copyVars, syncVars,
       pubVars, CopyInv, CopyOfB, CopyEntry, BeforeCopy, CopyAlone, Verified, Digest, Entry,
       NoEntry, Some, Names, Free, NewEntry, fsVars, otherVars, writerVars, copyVars, syncVars,
       pubVars
  <1> QED
    BY <1>1, <1>2, <1>3, <1>4, <1>5, <1>6, <1>7, <1>8, <1>9, <1>10, <1>11, <1>12, <1>13, <1>14,
       <1>15, <1>16, <1>17, <1>18, <1>19, <1>20, <1>21, <1>22, <1>23, <1>24, <1>25, <1>26, <1>27,
       <1>28, <1>29, <1>30, <1>31, <1>32, <1>33, <1>34 DEF Next, WriterStep, CommitStep, Others

\* Where nobody disturbs the private names, the lookups that find leftovers do not fail.
LEMMA GentleLookups ==
    ASSUME opts.env = "gentle"
    PROVE  /\ \A p \in LeftoverLookups : ~Faulty(p)
           /\ \A r, n : \A e \in Lookup(r, n) : e = IF dir[n] = NoFile THEN NoEntry ELSE EntryAt(r, n)
  <1>1. \A p \in LeftoverLookups : ~Faulty(p)
    BY GentleAssumption DEF Faulty
  <1>2. ~Faulty("inspect")
    BY <1>1 DEF LeftoverLookups
  <1> QED
    BY <1>1, <1>2 DEF Lookup

\* While the displaced file has the candidate's name: a step that leaves the names alone
\* and, when it fails, lists that file.
LEMMA HoldingStep ==
    ASSUME PrivateInv, EntryInv, opts.env = "gentle", pc \in Holding, entries \subseteq entries',
           UNCHANGED <<dir, handle, cand, copyId, registered, opts>>, displaced'.id = displaced.id,
           \/ pc' \in Holding
           \/ /\ pc' = "report" /\ failure'.stage \in AfterCopyStages
              /\ Some(displaced) \subseteq entries'
    PROVE  PrivateInv'
  <1>1. /\ CopyOfB \in entries /\ dir["copy"] = copyId /\ copyId \in Files /\ handle = NoFile
        /\ dir["candidate"] = displaced.id
    BY DEF PrivateInv, AfterCopy, Holding
  <1>2. CopyOfB.name = "copy" /\ CopyOfB.id = copyId /\ CopyOfB' = CopyOfB
    BY DEF CopyOfB, CopyEntry
  <1>3. CASE pc' \in Holding
    BY <1>1, <1>2, <1>3 DEF PrivateInv, Holding, Staging
  <1>4. CASE pc' = "report" /\ Some(displaced) \subseteq entries'
    <2>1. CASE displaced = NoEntry
      <3>1. dir["candidate"] = NoFile
        BY <1>1, <2>1 DEF NoEntry
      <3> QED
        BY <1>1, <1>2, <1>4, <3>1 DEF PrivateInv, Listed, Holding, AfterCopy, Staging
    <2>2. CASE displaced # NoEntry
      <3>1. displaced \in entries' /\ displaced.name = "candidate"
        BY <1>4, <2>2 DEF EntryInv, Some
      <3> QED
        BY <1>1, <1>2, <1>4, <3>1 DEF PrivateInv, Listed, Holding, AfterCopy, Staging
    <2> QED
      BY <2>1, <2>2
  <1> QED
    BY <1>3, <1>4

\* What the private names hold stays listed where nobody else touches them.
LEMMA PrivatePreserved ==
    ASSUME IInv, CopyInv, PrivateInv, Next
    PROVE  PrivateInv'
  <1> USE ConstantsAssumption
  <1>0. /\ dir \in [Names -> Files \cup {NoFile}] /\ handle \in Files \cup {NoFile}
        /\ cand \in Files \cup {NoFile} /\ copyId \in Files \cup {NoFile}
        /\ registered \subseteq Entry /\ entries \subseteq Entry
        /\ installed \in Entry \cup {NoEntry} /\ displaced \in Entry \cup {NoEntry}
        /\ attemptErr \in BOOLEAN /\ CandidateInv /\ EntryInv /\ NativeInv /\ CopyInv
    BY DEF IInv, TypeOK, FsOK, WriterOK, EntriesOK, OutcomeOK
  <1>g. opts.env = "gentle" => /\ ~Faulty("openGuard") /\ ~Faulty("copyGuard")
                               /\ ~Faulty("verifyKept") /\ ~Faulty("report")
    BY GentleLookups DEF LeftoverLookups
  <1>1. CASE Open
    BY <1>0, <1>g, <1>1 DEF Open, Free, Allocate, Names, PrivateInv, AfterCopy, AfterCopyStages,
       CopyOfB, NewEntry, Staging, Holding, Listed, Stages, CopyEntry, fsVars, otherVars,
       copyVars, pubVars
  <1>2. CASE \E c \in Contents : Write(c)
    BY <1>0, <1>g, <1>2 DEF Write, PrivateInv, AfterCopy, AfterCopyStages, CopyOfB, NewEntry,
       Staging, Holding, Listed, Stages, CopyEntry, otherVars, copyVars, pubVars
  <1>3. CASE Abort
    BY <1>0, <1>g, <1>3 DEF Abort, RemoveCandidate, Rebind, PrivateInv, AfterCopy,
       AfterCopyStages, CopyOfB, NewEntry, Staging, Holding, Listed, Stages, CopyEntry,
       otherVars, copyVars, pubVars, Names
  <1>4. CASE Drop
    BY <1>0, <1>g, <1>4 DEF Drop, RemoveCandidate, Rebind, PrivateInv, AfterCopy,
       AfterCopyStages, CopyOfB, NewEntry, Staging, Holding, Listed, Stages, CopyEntry,
       otherVars, writerVars, copyVars, pubVars, Names
  <1>5. CASE Commit
    BY <1>0, <1>g, <1>5, SMTT(30), Z3T(30) DEF Commit, Fail, PrivateInv, CopyInv, AfterCopy,
       AfterCopyStages, CopyOfB, NewEntry, Staging, Holding, Listed, BeforeCopy, CopyAlone, Some,
       Verified, Stages, CopyEntry, NoEntry, fsVars, otherVars, writerVars
  <1>6. CASE CreateCopy
    BY <1>0, <1>g, <1>6, SMTT(30), Z3T(30) DEF CreateCopy, Free, Allocate, NewEntry, Fail, Names,
       PrivateInv, CopyInv, AfterCopy, AfterCopyStages, CopyOfB, Staging, Holding, Listed,
       BeforeCopy, CopyAlone, Some, Verified, Stages, CopyEntry, NoEntry, fsVars, otherVars,
       writerVars
  <1>7. CASE FillCopy
    <2> SUFFICES ASSUME opts.env = "gentle" PROVE PrivateInv'
      BY <1>7 DEF PrivateInv, FillCopy, fsVars, otherVars, writerVars, copyVars, syncVars, pubVars
    <2>1. /\ pc' \in {"report", "verifyCopy"} /\ pc = "fill"
          /\ UNCHANGED <<dir, opts, cand, copyId, handle>> /\ entries' = entries
          /\ pc' = "report" => failure'.stage = "PrepareCandidateCopy" /\ registered' = registered
      BY <1>7, SMTT(30), Z3T(30) DEF FillCopy, Fail, fsVars, otherVars, writerVars, copyVars,
         syncVars, pubVars
    <2>2. NewEntry("copy", copyId) \in registered
      BY <1>0, <2>1 DEF PrivateInv
    <2>3. NewEntry("copy", copyId).name = "copy" /\ NewEntry("copy", copyId).id = copyId
      BY DEF NewEntry
    <2>4. /\ dir["copy"] = copyId /\ dir["candidate"] = cand /\ handle = NoFile
      BY <2>1 DEF PrivateInv, Staging
    <2> QED
      BY <2>1, <2>2, <2>3, <2>4 DEF PrivateInv, Listed, Holding, AfterCopy, AfterCopyStages,
         Stages, Staging
  <1>8. CASE VerifyCopy
    BY <1>0, <1>g, <1>8, SMTT(30), Z3T(30) DEF VerifyCopy, CopyEntry, Verified, Fail, PrivateInv,
       CandidateInv, AfterCopy, AfterCopyStages, CopyOfB, NewEntry, Staging, Holding, Listed,
       Stages, fsVars, otherVars, writerVars, copyVars
  <1>9. CASE SyncStaged
    BY <1>0, <1>g, <1>9 DEF SyncStaged, Verified, CopyEntry, Fail, PrivateInv, AfterCopy,
       AfterCopyStages, CopyOfB, NewEntry, Staging, Holding, Listed, Stages, otherVars,
       writerVars, copyVars, Names
  <1>10. CASE Precheck
    BY <1>0, <1>g, <1>10, SMTT(30), Z3T(30) DEF Precheck, Fail, PrivateInv, AfterCopy,
       AfterCopyStages, CopyOfB, NewEntry, Staging, Holding, Listed, Stages, CopyEntry,
       otherVars, writerVars, copyVars
  <1>11. CASE PublishAbsent
    BY <1>0, <1>g, <1>11, SMTT(30), Z3T(30) DEF PublishAbsent, Rebind, Fail, PrivateInv,
       AfterCopy, AfterCopyStages, CopyOfB, NewEntry, Staging, Holding, Listed, Stages,
       CopyEntry, otherVars, writerVars, copyVars, Names
  <1>12. CASE PublishContent
    BY <1>0, <1>g, <1>12, SMTT(30), Z3T(30) DEF PublishContent, Rebind, Swap, Fail, PrivateInv,
       AfterCopy, AfterCopyStages, CopyOfB, NewEntry, Staging, Holding, Listed, Stages,
       CopyEntry, otherVars, writerVars, copyVars, Names
  <1>13. CASE Inspect
    <2> SUFFICES ASSUME opts.env = "gentle" PROVE PrivateInv'
      BY <1>13 DEF PrivateInv, Inspect, fsVars, otherVars, writerVars, copyVars, syncVars, pubVars
    <2>1. PICK inst \in Lookup("StagedCandidate", "target"),
               disp \in Lookup(IF opts.cond = Absent THEN "StagedCandidate" ELSE "Displaced",
                               "candidate") :
             LET moved == IF opts.cond = Absent /\ ~attemptErr THEN NoEntry ELSE disp IN
             \/ /\ pc' = "report" /\ failure'.stage = "Publish" /\ entries \subseteq entries'
                /\ native = "untouched" \/ Some(moved) \subseteq entries'
             \/ /\ pc' \in {"verifyDisplaced", "verifyInstalled"} /\ entries' = entries
                /\ displaced' = moved
                /\ IF opts.cond = Absent THEN ~attemptErr ELSE moved # NoEntry
      BY <1>13, InspectOutcome
    <2>2. /\ pc = "inspect"
          /\ UNCHANGED <<dir, handle, cand, copyId, registered, opts>>
      BY <1>13 DEF Inspect, fsVars, otherVars, writerVars, copyVars, syncVars, pubVars
    <2>3. disp = IF dir["candidate"] = NoFile THEN NoEntry
                 ELSE [role |-> IF opts.cond = Absent THEN "StagedCandidate" ELSE "Displaced",
                       name |-> "candidate", id |-> dir["candidate"]]
      BY <2>1, GentleLookups DEF EntryAt
    <2>4. /\ CopyOfB \in entries /\ dir["copy"] = copyId /\ copyId \in Files /\ handle = NoFile
          /\ native = "untouched" => dir["candidate"] = cand
          /\ opts.cond = Absent => dir["candidate"] = IF attemptErr THEN cand ELSE NoFile
      BY <2>2 DEF PrivateInv, AfterCopy
    <2>5. CopyOfB.name = "copy" /\ CopyOfB.id = copyId /\ CopyOfB' = CopyOfB
      BY <2>2 DEF CopyOfB, CopyEntry
    <2>6. disp # NoEntry => disp.name = "candidate" /\ disp.id = dir["candidate"] /\ disp \in Some(disp)
      BY <2>3 DEF Some
    <2>7. CASE pc' = "report" /\ failure'.stage = "Publish" /\ entries \subseteq entries'
      <3>1. dir["candidate"] = cand \/ Listed("candidate", entries')
        <4>1. CASE native = "untouched" \/ opts.cond = Absent
          BY <2>4, <4>1 DEF Listed
        <4>2. CASE native # "untouched" /\ opts.cond # Absent
          <5>1. Some(disp) \subseteq entries'
            BY <2>1, <2>7, <4>2
          <5> QED
            BY <2>3, <2>6, <5>1 DEF Listed, NoEntry
        <4> QED
          BY <4>1, <4>2
      <3> QED
        BY <2>2, <2>4, <2>5, <2>7, <3>1 DEF PrivateInv, Listed, Holding, AfterCopy,
           AfterCopyStages, Stages, Staging
    <2>8. CASE pc' \in {"verifyDisplaced", "verifyInstalled"}
      <3>1. dir["candidate"] = displaced'.id /\ entries' = entries
        BY <1>0, <2>1, <2>3, <2>4, <2>6, <2>8, SMTT(30), Z3T(30) DEF NoEntry
      <3> QED
        BY <2>2, <2>4, <2>5, <2>8, <3>1 DEF PrivateInv, Listed, Holding, AfterCopy,
           AfterCopyStages, Stages, Staging
    <2> QED
      BY <2>1, <2>7, <2>8
  <1>14. CASE VerifyDisplaced
    <2> SUFFICES ASSUME opts.env = "gentle" PROVE PrivateInv'
      BY <1>14 DEF PrivateInv, VerifyDisplaced, writerVars
    <2>1. /\ pc \in Holding /\ entries \subseteq entries'
          /\ UNCHANGED <<dir, handle, cand, copyId, registered, opts>>
      BY <1>14 DEF VerifyDisplaced, Fail, Holding, fsVars, otherVars, writerVars, copyVars
    <2>2. displaced'.id = displaced.id
      <3>1. displaced \in Entry
        BY <1>0, <1>14 DEF VerifyDisplaced, EntryInv
      <3>2. displaced' = displaced \/ displaced' = WithRole(displaced, "RollbackDisplaced")
        BY <1>14, SMTT(30), Z3T(30) DEF VerifyDisplaced
      <3> QED
        BY <3>1, <3>2, SMTT(30), Z3T(30) DEF WithRole, Entry
    <2>3. \/ pc' \in Holding
          \/ /\ pc' = "report" /\ failure'.stage \in AfterCopyStages
             /\ Some(displaced) \subseteq entries'
      BY <1>0, <1>14, SMTT(30), Z3T(30) DEF VerifyDisplaced, Fail, Some, Holding,
         AfterCopyStages, Stages, EntryInv, CopyInv
    <2> QED
      BY <1>0, <2>1, <2>2, <2>3, HoldingStep
  <1>15. CASE VerifyInstalled
    <2> SUFFICES ASSUME opts.env = "gentle" PROVE PrivateInv'
      BY <1>15 DEF PrivateInv, VerifyInstalled, writerVars
    <2>1. /\ pc \in Holding /\ entries \subseteq entries'
          /\ UNCHANGED <<dir, handle, cand, copyId, registered, opts>>
      BY <1>15 DEF VerifyInstalled, Fail, Holding, fsVars, otherVars, writerVars, copyVars
    <2>2. displaced'.id = displaced.id
      BY <1>15 DEF VerifyInstalled, WithRole
    <2>3. \/ pc' \in Holding
          \/ /\ pc' = "report" /\ failure'.stage \in AfterCopyStages
             /\ Some(displaced) \subseteq entries'
      BY <1>0, <1>15, SMTT(30), Z3T(30) DEF VerifyInstalled, Fail, Some, Holding,
         AfterCopyStages, Stages, EntryInv, CopyInv
    <2> QED
      BY <1>0, <2>1, <2>2, <2>3, HoldingStep
  <1>16. CASE RollbackPrecheck
    <2> SUFFICES ASSUME opts.env = "gentle" PROVE PrivateInv'
      BY <1>16 DEF PrivateInv, RollbackPrecheck, writerVars
    <2>1. /\ pc \in Holding /\ entries \subseteq entries'
          /\ UNCHANGED <<dir, handle, cand, copyId, registered, opts>>
      BY <1>16 DEF RollbackPrecheck, Fail, Holding, fsVars, otherVars, writerVars, copyVars
    <2>2. displaced'.id = displaced.id
      BY <1>16 DEF RollbackPrecheck, WithRole
    <2>3. \/ pc' \in Holding
          \/ /\ pc' = "report" /\ failure'.stage \in AfterCopyStages
             /\ Some(displaced) \subseteq entries'
      BY <1>0, <1>16, SMTT(30), Z3T(30) DEF RollbackPrecheck, Fail, Some, Holding,
         AfterCopyStages, Stages, EntryInv, CopyInv
    <2> QED
      BY <1>0, <2>1, <2>2, <2>3, HoldingStep
  <1>17. CASE RollbackRecheck
    <2> SUFFICES ASSUME opts.env = "gentle" PROVE PrivateInv'
      BY <1>17 DEF PrivateInv, RollbackRecheck, writerVars
    <2>1. /\ pc \in Holding /\ entries \subseteq entries'
          /\ UNCHANGED <<dir, handle, cand, copyId, registered, opts>>
      BY <1>17 DEF RollbackRecheck, Fail, Holding, fsVars, otherVars, writerVars, copyVars
    <2>2. displaced'.id = displaced.id
      BY <1>17 DEF RollbackRecheck, WithRole
    <2>3. \/ pc' \in Holding
          \/ /\ pc' = "report" /\ failure'.stage \in AfterCopyStages
             /\ Some(displaced) \subseteq entries'
      BY <1>0, <1>17, SMTT(30), Z3T(30) DEF RollbackRecheck, Fail, Some, Holding,
         AfterCopyStages, Stages, EntryInv, CopyInv
    <2> QED
      BY <1>0, <2>1, <2>2, <2>3, HoldingStep
  <1>18. CASE RollbackVerify
    <2> SUFFICES ASSUME opts.env = "gentle" PROVE PrivateInv'
      BY <1>18 DEF PrivateInv, RollbackVerify, fsVars, otherVars, writerVars, copyVars, syncVars,
         pubVars
    <2>1. /\ pc = "rollbackVerify"
          /\ UNCHANGED <<dir, handle, cand, copyId, registered, opts, displaced>>
          /\ \/ pc' = "rollbackExchange" /\ entries' = entries
             \/ /\ pc' = "report" /\ failure'.stage = "Rollback" /\ entries \subseteq entries'
                /\ Verified(displaced) => WithRole(displaced, "Displaced") \in entries'
      BY <1>18, <1>g, SMTT(30), Z3T(30) DEF RollbackVerify, Fail, fsVars, otherVars, writerVars,
         copyVars, syncVars, pubVars
    <2>2. /\ CopyOfB \in entries /\ dir["copy"] = copyId /\ copyId \in Files /\ handle = NoFile
          /\ dir["candidate"] = displaced.id
      BY <2>1 DEF PrivateInv, AfterCopy, Holding
    <2>3. CopyOfB.name = "copy" /\ CopyOfB.id = copyId /\ CopyOfB' = CopyOfB
      BY <2>1 DEF CopyOfB, CopyEntry
    <2>4. /\ Verified(displaced) /\ WithRole(displaced, "Displaced").name = "candidate"
          /\ WithRole(displaced, "Displaced").id = displaced.id
      BY <1>0, <2>1, <2>2 DEF EntryInv, Verified, WithRole, Entry
    <2> QED
      BY <2>1, <2>2, <2>3, <2>4 DEF PrivateInv, Listed, Holding, AfterCopy, AfterCopyStages,
         Stages, Staging
  <1>19. CASE RollbackExchange
    BY <1>0, <1>g, <1>19 DEF RollbackExchange, Rebind, Swap, PrivateInv, AfterCopy,
       AfterCopyStages, CopyOfB, NewEntry, Staging, Holding, Listed, Stages, CopyEntry,
       otherVars, writerVars, copyVars, Names
  <1>20. CASE RollbackReceipt
    <2> SUFFICES ASSUME opts.env = "gentle" PROVE PrivateInv'
      BY <1>20 DEF PrivateInv, RollbackReceipt, fsVars, otherVars, writerVars, copyVars,
         syncVars, pubVars
    <2>1. PICK moved \in Lookup("RollbackDisplaced", "candidate") :
             /\ entries \subseteq entries' /\ Some(moved) \subseteq entries'
             /\ pc' = "verifyRollback" \/ (pc' = "report" /\ failure'.stage = "Rollback")
      BY <1>20, SMTT(30), Z3T(30) DEF RollbackReceipt, Fail
    <2>2. /\ pc = "receipt"
          /\ UNCHANGED <<dir, handle, cand, copyId, registered, opts>>
      BY <1>20 DEF RollbackReceipt, fsVars, otherVars, writerVars, copyVars, syncVars, pubVars
    <2>3. dir["candidate"] # NoFile =>
             /\ moved.name = "candidate" /\ moved.id = dir["candidate"] /\ moved \in Some(moved)
      BY <2>1, GentleLookups, SMTT(30), Z3T(30) DEF EntryAt, NoEntry, Some
    <2>4. /\ CopyOfB \in entries /\ dir["copy"] = copyId /\ copyId \in Files /\ handle = NoFile
      BY <2>2 DEF PrivateInv, AfterCopy
    <2>5. CopyOfB.name = "copy" /\ CopyOfB.id = copyId /\ CopyOfB' = CopyOfB
      BY <2>2 DEF CopyOfB, CopyEntry
    <2> QED
      BY <2>1, <2>2, <2>3, <2>4, <2>5 DEF PrivateInv, Listed, Holding, AfterCopy,
         AfterCopyStages, Stages, Staging
  <1>21. CASE VerifyRollback
    <2> SUFFICES ASSUME opts.env = "gentle" PROVE PrivateInv'
      BY <1>21 DEF PrivateInv, VerifyRollback, writerVars
    <2>1. /\ entries \subseteq entries'
          /\ pc' = "report" /\ failure'.stage \in {"VerifyRollback", "Sync"}
      BY <1>21, SMTT(30), Z3T(30) DEF VerifyRollback, Fail
    <2>2. /\ pc = "verifyRollback"
          /\ UNCHANGED <<dir, handle, cand, copyId, registered, opts, displaced>>
      BY <1>21 DEF VerifyRollback, otherVars, writerVars, copyVars
    <2>3. CopyOfB \in entries /\ dir["copy"] = copyId /\ copyId \in Files /\ handle = NoFile
      BY <2>2 DEF PrivateInv, AfterCopy
    <2>4. CopyOfB.name = "copy" /\ CopyOfB.id = copyId /\ CopyOfB' = CopyOfB
      BY <2>2 DEF CopyOfB, CopyEntry
    <2>5. Listed("candidate", entries)
      BY <2>2 DEF PrivateInv
    <2> QED
      BY <2>1, <2>2, <2>3, <2>4, <2>5 DEF PrivateInv, Listed, Holding, AfterCopy,
         AfterCopyStages, Stages, Staging
  <1>22. CASE SyncInstalled
    <2> SUFFICES ASSUME opts.env = "gentle" PROVE PrivateInv'
      BY <1>22 DEF PrivateInv, SyncInstalled, writerVars
    <2>1. /\ pc \in Holding /\ entries \subseteq entries'
          /\ UNCHANGED <<dir, handle, cand, copyId, registered, opts>>
      BY <1>22 DEF SyncInstalled, Fail, Holding, fsVars, otherVars, writerVars, copyVars
    <2>2. displaced'.id = displaced.id
      BY <1>22 DEF SyncInstalled, WithRole
    <2>3. \/ pc' \in Holding
          \/ /\ pc' = "report" /\ failure'.stage \in AfterCopyStages
             /\ Some(displaced) \subseteq entries'
      BY <1>0, <1>22, SMTT(30), Z3T(30) DEF SyncInstalled, Fail, Some, Holding, AfterCopyStages,
         Stages, EntryInv, CopyInv
    <2> QED
      BY <1>0, <2>1, <2>2, <2>3, HoldingStep
  <1>23. CASE SaveComplete
    BY <1>0, <1>g, <1>23, SMTT(30), Z3T(30) DEF SaveComplete, PrivateInv, CopyInv, EntryInv,
       AfterCopy, AfterCopyStages, CopyOfB, NewEntry, Staging, Holding, Listed, BeforeCopy,
       CopyAlone, Some, Verified, Installing, NoEntry, Stages, CopyEntry, fsVars, otherVars,
       writerVars, copyVars, pubVars
  <1>24. CASE CleanupOld
    <2> SUFFICES ASSUME opts.env = "gentle" PROVE PrivateInv'
      BY <1>24 DEF PrivateInv, CleanupOld, Cleanup, fsVars, otherVars, writerVars, copyVars,
         syncVars, pubVars
    <2>1. /\ pc = "cleanupOld" /\ pc' = "cleanupCopy"
          /\ UNCHANGED <<handle, cand, copyId, registered, opts, displaced>>
      BY <1>24 DEF CleanupOld, Cleanup, fsVars, otherVars, writerVars, copyVars, syncVars, pubVars
    <2>2. /\ entries = {CopyOfB} \cup Some(displaced) /\ dir["copy"] = copyId /\ copyId \in Files
          /\ handle = NoFile /\ dir["candidate"] = displaced.id
      BY <2>1 DEF PrivateInv, CopyInv, AfterCopy, Holding
    <2>3. /\ CopyOfB.role = "CandidateCopy" /\ CopyOfB' = CopyOfB
          /\ displaced = NoEntry \/ (displaced.name = "candidate" /\ displaced.role # "CandidateCopy")
          /\ NoEntry.id = NoFile
      BY <1>0, <2>1 DEF CopyOfB, CopyEntry, CopyInv, EntryInv, NoEntry
    <2>4. \/ /\ displaced # NoEntry /\ entries' = entries \ {displaced}
             /\ dir' = [dir EXCEPT !["candidate"] = NoFile]
          \/ UNCHANGED <<dir, entries>>
      BY <1>24, <2>2, <2>3 DEF CleanupOld, Cleanup, Rebind, Some
    <2>5. CopyOfB \in entries' /\ dir'["copy"] = dir["copy"]
      BY <1>0, <2>2, <2>3, <2>4 DEF Names
    <2>6. Listed("candidate", entries)'
      BY <1>0, <2>2, <2>3, <2>4 DEF Listed, Some, Names
    <2> QED
      BY <2>1, <2>2, <2>3, <2>5, <2>6 DEF PrivateInv, Listed, Holding, AfterCopy,
         AfterCopyStages, Stages, Staging
  <1>25. CASE CleanupCopy
    <2> SUFFICES ASSUME opts.env = "gentle" PROVE PrivateInv'
      BY <1>25 DEF PrivateInv, CleanupCopy, Cleanup, fsVars, otherVars, writerVars, copyVars,
         syncVars, pubVars
    <2>1. /\ pc = "cleanupCopy" /\ pc' = "cleanupSync"
          /\ UNCHANGED <<handle, cand, copyId, registered, opts, displaced>>
      BY <1>25 DEF CleanupCopy, Cleanup, fsVars, otherVars, writerVars, copyVars, syncVars,
         pubVars
    <2>2. /\ CopyOfB \in entries /\ dir["copy"] = copyId /\ Listed("candidate", entries)
          /\ handle = NoFile
      BY <2>1 DEF PrivateInv
    <2>3. /\ CopyOfB.name = "copy" /\ CopyOfB.id = copyId
          /\ \A e \in entries : e.role = "CandidateCopy" => e = CopyOfB
      BY <1>0 DEF CopyOfB, CopyEntry, CopyInv
    <2>4. \/ /\ entries' = entries \ {CopyOfB}
             /\ dir' = [dir EXCEPT !["copy"] = NoFile]
          \/ UNCHANGED <<dir, entries>>
      BY <1>25, <2>2, <2>3 DEF CleanupCopy, Cleanup, Rebind
    <2>5. Listed("candidate", entries)' /\ Listed("copy", entries)'
      BY <1>0, <2>2, <2>3, <2>4 DEF Listed, Names
    <2> QED
      BY <2>1, <2>2, <2>5 DEF PrivateInv, Listed, Holding, AfterCopy, AfterCopyStages, Stages,
         Staging
  <1>26. CASE CleanupSync
    BY <1>0, <1>g, <1>26 DEF CleanupSync, PrivateInv, AfterCopy, AfterCopyStages, CopyOfB,
       NewEntry, Staging, Holding, Listed, Stages, CopyEntry, otherVars, writerVars, copyVars,
       pubVars, Names
  <1>27. CASE Report
    <2> SUFFICES ASSUME opts.env = "gentle" PROVE PrivateInv'
      BY <1>27 DEF PrivateInv, Report, fsVars, otherVars, writerVars, copyVars, syncVars, pubVars
    <2>1. /\ pc = "report" /\ pc' = "err" /\ registered' = {}
          /\ UNCHANGED <<dir, handle, cand, copyId, opts, failure>>
          /\ entries' = entries \cup TakeRecoveryEntries
      BY <1>27, <1>g DEF Report, fsVars, otherVars, writerVars, copyVars, syncVars, pubVars
    <2>2. /\ dir["candidate"] = cand \/ Listed("candidate", entries)
          /\ Listed("copy", entries \cup registered) /\ handle = NoFile
      BY <2>1 DEF PrivateInv
    <2>3. /\ entries \cup registered \subseteq entries' /\ CopyOfB' = CopyOfB
          /\ dir["candidate"] = cand => EntryAt("StagedCandidate", "candidate") \in entries'
      BY <2>1 DEF TakeRecoveryEntries, CopyOfB, CopyEntry
    <2>4. /\ EntryAt("StagedCandidate", "candidate").name = "candidate"
          /\ EntryAt("StagedCandidate", "candidate").id = dir["candidate"]
      BY DEF EntryAt
    <2>5. Listed("candidate", entries)' /\ Listed("copy", entries)'
      BY <2>1, <2>2, <2>3, <2>4 DEF Listed
    <2> QED
      BY <2>1, <2>2, <2>3, <2>5 DEF PrivateInv, Listed, Holding, AfterCopy, AfterCopyStages,
         Stages, Staging
  <1>28. CASE OtherReplace
    BY <1>0, <1>g, <1>28 DEF OtherReplace, OtherMoves, Free, Allocate, Names, PrivateInv,
       AfterCopy, AfterCopyStages, CopyOfB, NewEntry, Staging, Holding, Listed, Stages,
       CopyEntry, writerVars, copyVars, pubVars
  <1>29. CASE OtherOverwrite
    BY <1>0, <1>g, <1>29 DEF OtherOverwrite, OtherMoves, PrivateInv, AfterCopy, AfterCopyStages,
       CopyOfB, NewEntry, Staging, Holding, Listed, Stages, CopyEntry, writerVars, copyVars,
       pubVars
  <1>30. CASE OtherDelete
    BY <1>0, <1>g, <1>30 DEF OtherDelete, OtherMoves, Rebind, PrivateInv, AfterCopy,
       AfterCopyStages, CopyOfB, NewEntry, Staging, Holding, Listed, Stages, CopyEntry,
       writerVars, copyVars, pubVars, Names
  <1>31. CASE OtherOpen
    BY <1>0, <1>g, <1>31 DEF OtherOpen, OtherMoves, PrivateInv, AfterCopy, AfterCopyStages,
       CopyOfB, NewEntry, Staging, Holding, Listed, Stages, CopyEntry, fsVars, writerVars,
       copyVars, pubVars
  <1>32. CASE OtherWriteHandle
    BY <1>0, <1>g, <1>32 DEF OtherWriteHandle, OtherMoves, PrivateInv, AfterCopy,
       AfterCopyStages, CopyOfB, NewEntry, Staging, Holding, Listed, Stages, CopyEntry,
       writerVars, copyVars, pubVars
  <1>33. CASE OtherSweep
    BY <1>0, <1>g, <1>33 DEF OtherSweep, OtherMoves, Names, Rebind, PrivateInv, AfterCopy,
       AfterCopyStages, CopyOfB, NewEntry, Staging, Holding, Listed, Stages, CopyEntry,
       writerVars, copyVars, pubVars
  <1>34. CASE Finished
    BY <1>0, <1>g, <1>34 DEF Finished, vars, fsVars, otherVars, writerVars, copyVars, syncVars,
       pubVars, PrivateInv, Listed, Holding, AfterCopy, AfterCopyStages, Stages, Staging,
       CopyInv, CopyOfB, CopyEntry, BeforeCopy, CopyAlone, Verified, Entry, NoEntry, Some, Names,
       Free, NewEntry, CandidateInv, EntryInv, NativeInv, Unpublished, Installing, fsVars,
       otherVars, writerVars, copyVars, syncVars, pubVars
  <1> QED
    BY <1>1, <1>2, <1>3, <1>4, <1>5, <1>6, <1>7, <1>8, <1>9, <1>10, <1>11, <1>12, <1>13, <1>14,
       <1>15, <1>16, <1>17, <1>18, <1>19, <1>20, <1>21, <1>22, <1>23, <1>24, <1>25, <1>26, <1>27,
       <1>28, <1>29, <1>30, <1>31, <1>32, <1>33, <1>34 DEF Next, WriterStep, CommitStep, Others

\* The displaced file keeps the bytes the caller expected.
LEMMA BytesPreserved ==
    ASSUME IInv, CopyInv, PrivateInv, BytesInv, Next
    PROVE  BytesInv'
  <1> USE ConstantsAssumption
  <1>0. /\ dir \in [Names -> Files \cup {NoFile}] /\ handle \in Files \cup {NoFile}
        /\ content \in [Files -> Contents \cup {Partial}]
        /\ cand \in Files \cup {NoFile} /\ copyId \in Files \cup {NoFile}
        /\ entries \subseteq Entry /\ opts.cond # Partial
        /\ installed \in Entry \cup {NoEntry} /\ displaced \in Entry \cup {NoEntry}
        /\ conflict \in BOOLEAN /\ CandidateInv /\ EntryInv /\ PrivateInv /\ CopyInv
    BY DEF IInv, TypeOK, FsOK, WriterOK, EntriesOK, OutcomeOK, OptionRecord
  <1>n. NoEntry.id = NoFile
    BY DEF NoEntry
  <1>1. CASE Open
    BY <1>0, <1>n, <1>1 DEF Open, Free, Allocate, Names, BytesInv, fsVars, pubVars
  <1>2. CASE \E c \in Contents : Write(c)
    BY <1>0, <1>n, <1>2 DEF Write, BytesInv, pubVars
  <1>3. CASE Abort
    BY <1>0, <1>n, <1>3 DEF Abort, RemoveCandidate, Rebind, BytesInv, pubVars, Names
  <1>4. CASE Drop
    BY <1>0, <1>n, <1>4 DEF Drop, RemoveCandidate, Rebind, BytesInv, writerVars, pubVars, Names
  <1>5. CASE Commit
    BY <1>0, <1>n, <1>5 DEF Commit, Fail, BytesInv, fsVars, writerVars
  <1>6. CASE CreateCopy
    BY <1>0, <1>n, <1>6 DEF CreateCopy, Free, Allocate, Fail, Names, BytesInv, fsVars, writerVars
  <1>7. CASE FillCopy
    BY <1>0, <1>n, <1>7 DEF FillCopy, Fail, BytesInv, writerVars
  <1>8. CASE VerifyCopy
    BY <1>0, <1>n, <1>8 DEF VerifyCopy, Verified, Digest, Fail, BytesInv, fsVars, writerVars
  <1>9. CASE SyncStaged
    BY <1>0, <1>n, <1>9 DEF SyncStaged, Verified, Fail, BytesInv, writerVars, Names
  <1>10. CASE Precheck
    BY <1>0, <1>n, <1>10 DEF Precheck, MatchesPrecondition, Fail, Digest, BytesInv, writerVars
  <1>11. CASE PublishAbsent
    BY <1>0, <1>n, <1>11 DEF PublishAbsent, Rebind, Fail, BytesInv, writerVars, Names
  <1>12. CASE PublishContent
    BY <1>0, <1>n, <1>12 DEF PublishContent, Rebind, Swap, Fail, BytesInv, writerVars, Names
  <1>13. CASE Inspect
    <2>1. /\ pc' \in {"report", "verifyDisplaced", "verifyInstalled"}
          /\ pc' = "verifyInstalled" => displaced' = NoEntry
      BY <1>13, InspectOutcome
    <2> QED
      BY <1>13, <2>1 DEF Inspect, BytesInv, fsVars, writerVars
  <1>14. CASE VerifyDisplaced
    BY <1>0, <1>n, <1>14 DEF VerifyDisplaced, Verified, MatchesPrecondition, WithRole, Fail,
       Digest, BytesInv, fsVars, writerVars
  <1>15. CASE VerifyInstalled
    BY <1>0, <1>n, <1>15 DEF VerifyInstalled, Verified, Digest, Some, Fail, BytesInv, fsVars,
       writerVars
  <1>16. CASE RollbackPrecheck
    BY <1>0, <1>n, <1>16 DEF RollbackPrecheck, Verified, Digest, Fail, BytesInv, fsVars,
       writerVars
  <1>17. CASE RollbackRecheck
    BY <1>0, <1>n, <1>17 DEF RollbackRecheck, Verified, Digest, Fail, BytesInv, fsVars, writerVars
  <1>18. CASE RollbackVerify
    BY <1>0, <1>n, <1>18 DEF RollbackVerify, Verified, WithRole, Fail, BytesInv, fsVars,
       writerVars
  <1>19. CASE RollbackExchange
    BY <1>0, <1>n, <1>19 DEF RollbackExchange, Rebind, Swap, BytesInv, writerVars, Names
  <1>20. CASE RollbackReceipt
    BY <1>0, <1>n, <1>20 DEF RollbackReceipt, Verified, Fail, Some, BytesInv, fsVars, writerVars
  <1>21. CASE VerifyRollback
    BY <1>0, <1>n, <1>21 DEF VerifyRollback, Verified, Fail, Digest, BytesInv, writerVars
  <1>22. CASE SyncInstalled
    BY <1>0, <1>n, <1>22 DEF SyncInstalled, Verified, Fail, BytesInv, writerVars, Names
  <1>23. CASE SaveComplete
    BY <1>0, <1>n, <1>23 DEF SaveComplete, BytesInv, fsVars, writerVars, pubVars
  <1>24. CASE CleanupOld
    BY <1>0, <1>n, <1>24 DEF CleanupOld, Cleanup, Verified, Rebind, BytesInv, writerVars,
       pubVars, Names, Entry
  <1>25. CASE CleanupCopy
    BY <1>0, <1>n, <1>25 DEF CleanupCopy, Cleanup, Verified, Rebind, BytesInv, writerVars,
       pubVars, Names, Entry
  <1>26. CASE CleanupSync
    BY <1>0, <1>n, <1>26 DEF CleanupSync, BytesInv, writerVars, pubVars, Names
  <1>27. CASE Report
    BY <1>0, <1>n, <1>27 DEF Report, TakeRecoveryEntries, EntryAt, BytesInv, fsVars, writerVars,
       pubVars
  <1>28. CASE OtherReplace
    BY <1>0, <1>n, <1>28 DEF OtherReplace, OtherMoves, Free, Allocate, Names, BytesInv,
       PrivateInv, Staging, Holding, writerVars, copyVars, pubVars, Entry
  <1>29. CASE OtherOverwrite
    BY <1>0, <1>n, <1>29, SMTT(30), Z3T(30) DEF OtherOverwrite, OtherMoves, BytesInv, PrivateInv,
       Staging, Holding, writerVars, copyVars, pubVars, Names, Entry
  <1>30. CASE OtherDelete
    BY <1>0, <1>n, <1>30 DEF OtherDelete, OtherMoves, Rebind, BytesInv, writerVars, pubVars, Names
  <1>31. CASE OtherOpen
    BY <1>0, <1>n, <1>31 DEF OtherOpen, OtherMoves, BytesInv, fsVars, writerVars, pubVars
  <1>32. CASE OtherWriteHandle
    BY <1>0, <1>n, <1>32 DEF OtherWriteHandle, OtherMoves, BytesInv, PrivateInv, Staging,
       Holding, writerVars, copyVars, pubVars
  <1>33. CASE OtherSweep
    BY <1>0, <1>n, <1>33 DEF OtherSweep, OtherMoves, Names, Rebind, BytesInv, writerVars, pubVars
  <1>34. CASE Finished
    BY <1>0, <1>n, <1>34 DEF Finished, vars, fsVars, otherVars, writerVars, copyVars, syncVars,
       pubVars, BytesInv, PrivateInv, Holding, Staging, CopyInv, BeforeCopy, Verified, Digest,
       Entry, Some, Names, Free, CandidateInv, EntryInv, Installing, MatchesPrecondition, Swap,
       Rebind, fsVars, otherVars, writerVars, copyVars, syncVars, pubVars
  <1> QED
    BY <1>1, <1>2, <1>3, <1>4, <1>5, <1>6, <1>7, <1>8, <1>9, <1>10, <1>11, <1>12, <1>13, <1>14,
       <1>15, <1>16, <1>17, <1>18, <1>19, <1>20, <1>21, <1>22, <1>23, <1>24, <1>25, <1>26, <1>27,
       <1>28, <1>29, <1>30, <1>31, <1>32, <1>33, <1>34 DEF Next, WriterStep, CommitStep, Others

\* What a crash may find stays enough.
LEMMA SyncPreserved ==
    ASSUME IInv, CopyInv, PrivateInv, SyncInv, Next
    PROVE  SyncInv'
  <1> USE ConstantsAssumption
  <1>0. /\ dir \in [Names -> Files \cup {NoFile}] /\ handle \in Files \cup {NoFile}
        /\ pdirs \subseteq [Names -> Files \cup {NoFile}] /\ dir \in pdirs
        /\ synced \subseteq Files
        /\ cand \in Files \cup {NoFile} /\ copyId \in Files \cup {NoFile}
        /\ entries \subseteq Entry
        /\ installed \in Entry \cup {NoEntry} /\ displaced \in Entry \cup {NoEntry}
        /\ opts.durability \in Requirements /\ opts.fileSync \in Requirements
        /\ attemptErr \in BOOLEAN /\ durable \in BOOLEAN /\ fileSynced \in BOOLEAN
        /\ CandidateInv /\ NativeInv /\ PrivateInv /\ CopyInv
    BY DEF IInv, TypeOK, FsOK, WriterOK, EntriesOK, OutcomeOK, OptionRecord
  <1>1. CASE Open
    BY <1>0, <1>1 DEF Open, Free, Allocate, Names, SyncInv, NativeInv, MustSync, Installing,
       AfterCopy, Saved, Unpublished, Staging, fsVars, copyVars, syncVars, pubVars
  <1>2. CASE \E c \in Contents : Write(c)
    BY <1>0, <1>2, SMTT(30), Z3T(30) DEF Write, SyncInv, NativeInv, MustSync, Installing,
       AfterCopy, Saved, Unpublished, Staging, copyVars, syncVars, pubVars, Names, Entry,
       Requirements
  <1>3. CASE Abort
    BY <1>0, <1>3 DEF Abort, RemoveCandidate, Rebind, SyncInv, MustSync, Installing, AfterCopy,
       Saved, copyVars, syncVars, pubVars, Names
  <1>4. CASE Drop
    BY <1>0, <1>4 DEF Drop, RemoveCandidate, Rebind, SyncInv, MustSync, Installing, AfterCopy,
       Saved, writerVars, copyVars, syncVars, pubVars, Names
  <1>5. CASE Commit
    BY <1>0, <1>5 DEF Commit, Fail, SyncInv, MustSync, Installing, AfterCopy, Saved, fsVars,
       writerVars, syncVars
  <1>6. CASE CreateCopy
    BY <1>0, <1>6 DEF CreateCopy, Free, Allocate, Fail, Names, SyncInv, MustSync, Installing,
       AfterCopy, Saved, fsVars, writerVars, syncVars
  <1>7. CASE FillCopy
    BY <1>0, <1>7 DEF FillCopy, Fail, SyncInv, MustSync, Installing, AfterCopy, Saved,
       writerVars, syncVars
  <1>8. CASE VerifyCopy
    BY <1>0, <1>8 DEF VerifyCopy, CopyEntry, Verified, Fail, SyncInv, MustSync, Installing,
       AfterCopy, Saved, fsVars, writerVars, copyVars, syncVars
  <1>9. CASE SyncStaged
    <2>1. /\ pc = "sync" /\ native = "untouched"
          /\ UNCHANGED <<dir, cand, copyId, opts, native, attemptErr, fileSynced>>
      BY <1>0, <1>9 DEF SyncStaged, NativeInv, Unpublished, Staging, writerVars, copyVars
    <2>2. /\ synced \subseteq synced' /\ pdirs' \subseteq pdirs
          /\ \/ pc' = "report" /\ durable' = durable
             \/ /\ pc' = "precheck"
                /\ MustSync => {cand, copyId} \subseteq synced'
                /\ opts.durability = "NotRequired" => durable' = FALSE
                /\ opts.durability = "Required" => durable' = TRUE /\ pdirs' = {dir}
      <3>1. CASE SyncRequirement = "NotRequired"
        BY <1>0, <1>9, <3>1 DEF SyncStaged, SyncRequirement, MustSync, SyncInv
      <3>2. CASE SyncRequirement # "NotRequired"
        <4>1. PICK fileOk \in BOOLEAN, nsOk \in BOOLEAN :
                /\ synced' = IF fileOk THEN synced \cup StagedFiles ELSE synced
                /\ \/ pc' = "report" /\ UNCHANGED <<durable, pdirs>>
                   \/ /\ ~(~fileOk /\ SyncRequirement = "Required")
                      /\ ~(~nsOk /\ opts.durability = "Required")
                      /\ durable' = (durable /\ nsOk /\ (fileOk \/ opts.durability # "Preferred"))
                      /\ pdirs' = IF nsOk /\ opts.durability # "NotRequired" THEN {dir} ELSE pdirs
                      /\ pc' = "precheck"
          BY <1>9, <3>2 DEF SyncStaged, Fail
        <4>2. MustSync => SyncRequirement = "Required"
          BY DEF MustSync, SyncRequirement
        <4>3. CASE pc' = "report"
          BY <1>0, <4>1, <4>3
        <4>4. CASE pc' = "precheck"
          <5>1. /\ opts.durability = "NotRequired" => durable' = FALSE
                /\ opts.durability = "Required" => durable' = TRUE
            BY <1>0, <4>1, <4>4 DEF SyncInv
          <5> QED
            BY <1>0, <4>1, <4>2, <4>4, <5>1 DEF StagedFiles
        <4> QED
          BY <4>1, <4>3, <4>4
      <3> QED
        BY <3>1, <3>2
    <2>3. opts.env = "gentle" => dir["copy"] = copyId
      BY <1>0, <2>1 DEF PrivateInv, AfterCopy
    <2>4. opts.durability = "Required" => MustSync
      BY DEF MustSync
    <2> QED
      BY <1>0, <2>1, <2>2, <2>3, <2>4, SMTT(30), Z3T(30) DEF SyncInv, MustSync, Saved, AfterCopy,
         Installing
  <1>10. CASE Precheck
    BY <1>0, <1>10, SMTT(30), Z3T(30) DEF Precheck, Fail, SyncRequirement, SyncInv, NativeInv,
       MustSync, Installing, AfterCopy, Saved, Unpublished, Staging, writerVars, copyVars
  <1>11. CASE PublishAbsent
    BY <1>0, <1>11 DEF PublishAbsent, Rebind, Fail, SyncInv, CandidateInv, MustSync, Installing,
       AfterCopy, Saved, Staging, writerVars, copyVars, syncVars, Names
  <1>12. CASE PublishContent
    BY <1>0, <1>12 DEF PublishContent, Rebind, Swap, Fail, SyncInv, MustSync, Installing,
       AfterCopy, Saved, writerVars, copyVars, syncVars, Names
  <1>13. CASE Inspect
    <2>1. /\ pc = "inspect"
          /\ UNCHANGED <<fsVars, otherVars, writerVars, copyVars, syncVars, native>>
          /\ pc' \in {"report", "verifyDisplaced", "verifyInstalled"}
      BY <1>13, InspectOutcome DEF Inspect
    <2>2. pc' # "report" => native = "installed" /\ (opts.cond = Absent => ~attemptErr)
      BY <1>13, InspectOutcome
    <2>3. pc' # "report" => dir["candidate"] # cand
      BY <1>0, <2>1, <2>2 DEF SyncInv, CandidateInv
    <2> QED
      BY <2>1, <2>3 DEF SyncInv, MustSync, Saved, AfterCopy, Installing, fsVars, otherVars,
         writerVars, copyVars, syncVars
  <1>14. CASE VerifyDisplaced
    BY <1>0, <1>14 DEF VerifyDisplaced, Verified, WithRole, Fail, SyncInv, MustSync, Installing,
       AfterCopy, Saved, fsVars, writerVars, copyVars, syncVars
  <1>15. CASE VerifyInstalled
    BY <1>0, <1>15 DEF VerifyInstalled, Verified, Some, Fail, SyncInv, MustSync, Installing,
       AfterCopy, Saved, fsVars, writerVars, copyVars, syncVars
  <1>16. CASE RollbackPrecheck
    BY <1>0, <1>16 DEF RollbackPrecheck, Verified, Fail, SyncInv, MustSync, Installing,
       AfterCopy, Saved, fsVars, writerVars, copyVars, syncVars
  <1>17. CASE RollbackRecheck
    BY <1>0, <1>17 DEF RollbackRecheck, Verified, Fail, SyncInv, MustSync, Installing, AfterCopy,
       Saved, fsVars, writerVars, copyVars, syncVars
  <1>18. CASE RollbackVerify
    BY <1>0, <1>18 DEF RollbackVerify, Verified, WithRole, Fail, SyncInv, MustSync, Installing,
       AfterCopy, Saved, fsVars, writerVars, copyVars, syncVars
  <1>19. CASE RollbackExchange
    BY <1>0, <1>19 DEF RollbackExchange, Rebind, Swap, SyncInv, NativeInv, MustSync, Installing,
       AfterCopy, Saved, Unpublished, Staging, writerVars, copyVars, syncVars, Names
  <1>20. CASE RollbackReceipt
    BY <1>0, <1>20 DEF RollbackReceipt, Verified, Fail, Some, SyncInv, MustSync, Installing,
       AfterCopy, Saved, fsVars, writerVars, copyVars, syncVars
  <1>21. CASE VerifyRollback
    BY <1>0, <1>21 DEF VerifyRollback, Verified, Fail, SyncInv, MustSync, Installing, AfterCopy,
       Saved, writerVars, copyVars, syncVars
  <1>22. CASE SyncInstalled
    <2>1. /\ pc = "syncInstalled" /\ native = "installed" /\ dir["candidate"] # cand
          /\ UNCHANGED <<dir, cand, copyId, opts, native, attemptErr>>
      BY <1>0, <1>22 DEF SyncInstalled, NativeInv, SyncInv, Installing, writerVars, copyVars
    <2>2. PICK fileOk \in BOOLEAN, nsOk \in BOOLEAN :
             /\ synced' = IF fileOk THEN synced \cup {cand} ELSE synced
             /\ \/ pc' = "report" /\ UNCHANGED <<durable, pdirs>>
                \/ /\ pc' = "cleanupOld"
                   /\ ~(opts.durability = "Required" /\ ~nsOk)
                   /\ durable' = DurableAfter(fileOk, nsOk)
                   /\ fileSynced' = fileOk
                   /\ pdirs' = IF nsOk THEN {dir} ELSE pdirs
      BY <1>22 DEF SyncInstalled, Fail
    <2>3. CASE pc' = "report"
      BY <1>0, <2>1, <2>2, <2>3, SMTT(30), Z3T(30) DEF SyncInv, MustSync, Saved, AfterCopy,
         Installing
    <2>4. CASE pc' = "cleanupOld"
      <3>1. /\ synced \subseteq synced' /\ pdirs' \subseteq pdirs
            /\ opts.durability = "NotRequired" => ~durable'
            /\ opts.durability = "Required" => durable'
        BY <1>0, <2>2, <2>4 DEF DurableAfter, SyncInv
      <3>2. durable' => nsOk /\ (opts.durability = "Required" \/ fileOk)
        BY <1>0, <2>2, <2>4 DEF DurableAfter, SyncInv, Requirements
      <3>3. opts.durability = "Required" => cand \in synced
        BY <1>0, <2>1 DEF SyncInv, MustSync
      <3>4. durable' => cand \in synced' /\ \A d \in pdirs' : d["candidate"] # cand
        BY <2>1, <2>2, <2>4, <3>1, <3>2, <3>3
      <3>5. fileSynced' => cand \in synced'
        BY <2>2, <2>4
      <3> QED
        BY <1>0, <2>1, <2>4, <3>1, <3>4, <3>5 DEF SyncInv, MustSync, Saved, AfterCopy, Installing
    <2> QED
      BY <2>2, <2>3, <2>4
  <1>23. CASE SaveComplete
    BY <1>0, <1>23 DEF SaveComplete, SyncInv, MustSync, Installing, AfterCopy, Saved, fsVars,
       writerVars, copyVars, pubVars
  <1>24. CASE CleanupOld
    BY <1>0, <1>24 DEF CleanupOld, Cleanup, Verified, Rebind, SyncInv, CandidateInv, MustSync,
       Installing, AfterCopy, Saved, Staging, writerVars, copyVars, pubVars, Names, Entry,
       Requirements
  <1>25. CASE CleanupCopy
    <2>1. /\ pc = "cleanupCopy" /\ pc' = "cleanupSync" /\ native = "installed"
          /\ UNCHANGED <<cand, copyId, opts, native, attemptErr, synced, durable, fileSynced>>
          /\ cand \in Files
      BY <1>0, <1>25 DEF CleanupCopy, Cleanup, NativeInv, CandidateInv, Installing, writerVars,
         copyVars, pubVars
    <2>2. /\ \A n \in Names : dir'[n] \in {dir[n], NoFile}
          /\ pdirs' \subseteq pdirs \cup {dir'}
      BY <1>0, <1>25 DEF CleanupCopy, Cleanup, Rebind, Entry
    <2>3. dir["candidate"] # cand /\ dir'["candidate"] # cand
      BY <1>0, <2>1, <2>2 DEF SyncInv, Installing, Names
    <2> QED
      BY <1>0, <2>1, <2>2, <2>3 DEF SyncInv, MustSync, Saved, AfterCopy, Installing
  <1>26. CASE CleanupSync
    BY <1>0, <1>26 DEF CleanupSync, SyncInv, MustSync, Installing, AfterCopy, Saved, writerVars,
       copyVars, pubVars, Names
  <1>27. CASE Report
    BY <1>0, <1>27 DEF Report, TakeRecoveryEntries, EntryAt, SyncInv, MustSync, Installing,
       AfterCopy, Saved, fsVars, writerVars, syncVars, pubVars
  <1>28. CASE OtherReplace
    BY <1>0, <1>28 DEF OtherReplace, OtherMoves, Free, Allocate, Names, SyncInv, MustSync,
       Installing, AfterCopy, Saved, writerVars, copyVars, syncVars, pubVars
  <1>29. CASE OtherOverwrite
    BY <1>0, <1>29 DEF OtherOverwrite, OtherMoves, SyncInv, MustSync, Installing, AfterCopy,
       Saved, writerVars, copyVars, syncVars, pubVars
  <1>30. CASE OtherDelete
    BY <1>0, <1>30 DEF OtherDelete, OtherMoves, Rebind, SyncInv, MustSync, Installing, AfterCopy,
       Saved, writerVars, copyVars, syncVars, pubVars, Names
  <1>31. CASE OtherOpen
    BY <1>0, <1>31 DEF OtherOpen, OtherMoves, SyncInv, MustSync, Installing, AfterCopy, Saved,
       fsVars, writerVars, copyVars, syncVars, pubVars
  <1>32. CASE OtherWriteHandle
    BY <1>0, <1>32 DEF OtherWriteHandle, OtherMoves, SyncInv, MustSync, Installing, AfterCopy,
       Saved, writerVars, copyVars, syncVars, pubVars
  <1>33. CASE OtherSweep
    BY <1>0, <1>33 DEF OtherSweep, OtherMoves, Names, Rebind, SyncInv, CandidateInv, MustSync,
       Installing, AfterCopy, Saved, Staging, writerVars, copyVars, syncVars, pubVars
  <1>34. CASE Finished
    BY <1>0, <1>34 DEF Finished, vars, fsVars, otherVars, writerVars, copyVars, syncVars,
       pubVars, SyncInv, MustSync, Saved, SyncRequirement, Requirements, AfterCopy, PrivateInv,
       Holding, CopyInv, BeforeCopy, Verified, CopyEntry, Entry, Names, Free, CandidateInv,
       NativeInv, Staging, Unpublished, Installing, Swap, Rebind, fsVars, otherVars, writerVars,
       copyVars, syncVars, pubVars
  <1> QED
    BY <1>1, <1>2, <1>3, <1>4, <1>5, <1>6, <1>7, <1>8, <1>9, <1>10, <1>11, <1>12, <1>13, <1>14,
       <1>15, <1>16, <1>17, <1>18, <1>19, <1>20, <1>21, <1>22, <1>23, <1>24, <1>25, <1>26, <1>27,
       <1>28, <1>29, <1>30, <1>31, <1>32, <1>33, <1>34 DEF Next, WriterStep, CommitStep, Others

-----------------------------------------------------------------------------
(* The results. *)

RecoveryInv == IInv /\ ReasonInv /\ CopyInv /\ PrivateInv /\ BytesInv /\ SyncInv

\* The layers hold initially.
LEMMA InitRecoveryInv == Init => RecoveryInv
  <1> SUFFICES ASSUME Init PROVE RecoveryInv
    OBVIOUS
  <1> USE ConstantsAssumption
  <1>1. /\ dir \in [Names -> Files \cup {NoFile}] /\ dir["candidate"] = NoFile
        /\ dir["copy"] = NoFile
    BY DEF Init, Names
  <1>2. opts.durability \in Requirements
    BY DEF Init, OptionRecord
  <1>3. ReasonInv
    BY DEF Init, ReasonInv
  <1>4. CopyInv
    BY <1>1 DEF Init, CopyInv, BeforeCopy, CopyAlone, NoEntry
  <1>5. PrivateInv
    BY <1>1 DEF Init, PrivateInv, AfterCopy, Staging, Holding
  <1>6. BytesInv
    BY <1>1 DEF Init, BytesInv
  <1>7. SyncInv
    <2>1. (opts.durability = "NotRequired" => ~durable) /\ (opts.durability = "Required" => durable)
      BY <1>2 DEF Init
    <2> QED
      BY <2>1 DEF Init, SyncInv, Installing, AfterCopy, Saved
  <1> QED
    BY <1>3, <1>4, <1>5, <1>6, <1>7, InitIInv DEF RecoveryInv

\* Every step preserves the layers.
LEMMA NextRecoveryInv == RecoveryInv /\ [Next]_vars => RecoveryInv'
  <1> SUFFICES ASSUME RecoveryInv, [Next]_vars PROVE RecoveryInv'
    OBVIOUS
  <1>1. IInv'
    BY NextPreserves DEF RecoveryInv
  <1>2. CASE Next
    BY <1>1, <1>2, ReasonPreserved, CopyPreserved, PrivatePreserved, BytesPreserved,
       SyncPreserved DEF RecoveryInv
  <1>3. CASE UNCHANGED vars
    <2> USE <1>3 DEF vars, fsVars, otherVars, writerVars, copyVars, syncVars, pubVars, RecoveryInv
    <2>1. ReasonInv'
      BY DEF ReasonInv
    <2>2. CopyInv'
      BY DEF CopyInv, CopyOfB, CopyEntry, Verified, Digest
    <2>3. PrivateInv'
      BY DEF PrivateInv, Listed, CopyOfB, CopyEntry
    <2>4. BytesInv'
      BY DEF BytesInv
    <2>5. SyncInv'
      BY DEF SyncInv, MustSync
    <2> QED
      BY <1>1, <2>1, <2>2, <2>3, <2>4, <2>5
  <1> QED
    BY <1>2, <1>3

\* The layers hold in every reachable state of the conditional writer.
THEOREM RecoveryInvariant == Spec => []RecoveryInv
  BY InitRecoveryInv, NextRecoveryInv, PTL DEF Spec

\* The LocalConditionalFailureReason of a failed commit fits what the attempt did: TargetMissing,
\* PreconditionMismatch and TargetExists only where the target is untouched and the precondition
\* of that kind, PostPublicationConflict only after the target was changed.
THEOREM ReasonsFitTheAttempt == Spec => []ReasonFitsAttempt
  <1>1. RecoveryInv => ReasonFitsAttempt
    BY DEF RecoveryInv, ReasonInv, ReasonFitsAttempt, Reason
  <1> QED
    BY <1>1, RecoveryInvariant, PTL

\* B is never lost and nothing is orphaned: the copy prepare_copy verified, and everything an
\* attempt leaves under its private names, is in the error or the outcome the caller gets, where
\* the environment is gentle; in every environment no entry opens on a partial copy.
THEOREM RecoveryEntriesAreComplete == Spec => []RecoveryIsComplete
  <1> SUFFICES ASSUME RecoveryInv PROVE RecoveryIsComplete
    BY RecoveryInvariant, PTL
  <1>1. \A e \in entries : e.role = "CandidateCopy" /\ Verified(e) => Digest(e) = candDigest
    BY DEF RecoveryInv, CopyInv
  <1>2. ASSUME opts.env = "gentle",
               pc \in AfterCopy \/ (pc \in {"report", "err"} /\ failure.stage \in AfterCopyStages)
        PROVE  \E e \in entries : /\ e.role = "CandidateCopy" /\ Verified(e)
                                  /\ Digest(e) = candDigest
    <2>1. CopyOfB \in entries /\ dir["copy"] = copyId
      BY <1>2 DEF RecoveryInv, PrivateInv
    <2>2. CopyOfB.role = "CandidateCopy" /\ Verified(CopyOfB)
      BY <2>1 DEF CopyOfB, CopyEntry, Verified
    <2> QED
      BY <1>1, <2>1, <2>2
  <1>3. opts.env = "gentle" /\ pc \in {"ok", "err"} =>
          Listed("candidate", entries) /\ Listed("copy", entries)
    BY DEF RecoveryInv, PrivateInv
  <1>4. opts.env = "gentle" /\ pc = "aborted" => dir["candidate"] = NoFile /\ dir["copy"] = NoFile
    BY DEF RecoveryInv, PrivateInv, CopyInv, BeforeCopy
  <1> QED
    BY <1>1, <1>2, <1>3, <1>4 DEF RecoveryIsComplete, Listed

\* Wherever a crash strikes, synchronize_staged and synchronize_installed have put on disk what
\* the commit relies on or has reported.
THEOREM CrashesKeepSaves == Spec => []CrashKeepsSave
  <1> SUFFICES ASSUME RecoveryInv PROVE CrashKeepsSave
    BY RecoveryInvariant, PTL
  <1>1. MustSync => \A d \in pdirs : cand # NoFile /\ d["target"] = cand => cand \in synced
    BY DEF RecoveryInv, SyncInv
  <1>2. opts.env = "gentle" /\ opts.durability = "Required" /\ pc \in AfterCopy \ {"sync"} =>
          copyId \in synced /\ \A d \in pdirs : d["copy"] = copyId
    BY DEF RecoveryInv, SyncInv
  <1>3. pc \in Saved =>
          /\ durable => cand \in synced /\ \A d \in pdirs : d["candidate"] # cand
          /\ fileSynced => cand \in synced
          /\ opts.durability = "Required" => durable
    BY DEF RecoveryInv, SyncInv
  <1> QED
    BY <1>1, <1>2, <1>3 DEF CrashKeepsSave, MustSync, Saved

\* What loses its last name to a step of the writer.
LEMMA StepDestroys ==
    ASSUME RecoveryInv, Next, ProgramStep, opts.env = "gentle",
           NEW f \in Files, Linked(f), ~Linked(f)'
    PROVE  \/ f = copyId
           \/ f = cand /\ native = "untouched"
           \/ content[f] = opts.cond
  <1> USE ConstantsAssumption
  <1>0. /\ dir \in [Names -> Files \cup {NoFile}] /\ others \in Nat
        /\ CandidateInv /\ NativeInv /\ EntryInv /\ CopyInv /\ PrivateInv /\ BytesInv
        /\ displaced \in Entry \cup {NoEntry}
    BY SMTT(30), Z3T(30) DEF RecoveryInv, IInv, TypeOK, FsOK, EntriesOK
  <1>1. f \in {dir["target"], dir["candidate"], dir["copy"]}
    BY DEF Linked, Names
  <1>2. f \notin {dir'["target"], dir'["candidate"], dir'["copy"]}
    BY DEF Linked, Names
  <1>3. dir' # dir
    BY <1>1, <1>2
  <1>4. ~Others
    BY <1>0, SMTT(30), Z3T(30) DEF ProgramStep, Others, OtherReplace, OtherOverwrite,
       OtherDelete, OtherOpen, OtherWriteHandle, OtherSweep, OtherMoves
  <1>5. CASE Open
    <2>1. dir["candidate"] = NoFile /\ \E g \in Files : dir' = [dir EXCEPT !["candidate"] = g]
      BY <1>0, <1>3, <1>5 DEF Open, Allocate, PrivateInv, fsVars
    <2> QED
      BY <1>0, <1>1, <1>2, <2>1 DEF Names
  <1>6. CASE Abort \/ Drop
    BY <1>0, <1>1, <1>2, <1>3, <1>6 DEF Abort, Drop, RemoveCandidate, Rebind, Names, NativeInv,
       Unpublished, Staging
  <1>7. CASE CreateCopy
    <2>1. dir["copy"] = NoFile /\ \E g \in Files : dir' = [dir EXCEPT !["copy"] = g]
      BY <1>0, <1>3, <1>7 DEF CreateCopy, Allocate, CopyInv, BeforeCopy, fsVars
    <2> QED
      BY <1>0, <1>1, <1>2, <2>1 DEF Names
  <1>8. CASE PublishAbsent
    <2>1. /\ dir["target"] = NoFile
          /\ \/ dir' = [dir EXCEPT !["target"] = dir["candidate"], !["candidate"] = NoFile]
             \/ dir' = [dir EXCEPT !["target"] = dir["candidate"]]
      BY <1>3, <1>8 DEF PublishAbsent, NoReplaceAllows, Rebind
    <2> QED
      BY <1>0, <1>1, <1>2, <2>1 DEF Names
  <1>9. CASE PublishContent \/ RollbackExchange
    <2>1. dir' = Swap("target", "candidate")
      BY <1>3, <1>9 DEF PublishContent, RollbackExchange, Rebind
    <2> QED
      BY <1>0, <1>1, <1>2, <2>1 DEF Swap, Names
  <1>10. CASE CleanupOld
    <2>1. PICK e \in entries : /\ e.role # "CandidateCopy" /\ Verified(e)
                               /\ dir' = [dir EXCEPT ![e.name] = NoFile]
      BY <1>3, <1>10 DEF CleanupOld, Cleanup, Rebind
    <2>2. pc = "cleanupOld" /\ entries = {CopyOfB} \cup Some(displaced)
      BY <1>0, <1>10 DEF CleanupOld, Cleanup, CopyInv
    <2>3. e = displaced /\ displaced # NoEntry
      BY <2>1, <2>2, SMTT(30), Z3T(30) DEF CopyOfB, CopyEntry, Some
    <2>4. f = displaced.id
      BY <1>0, <1>1, <1>2, <2>1, <2>3 DEF Verified, EntryInv, Names
    <2> QED
      BY <1>0, <2>2, <2>3, <2>4 DEF BytesInv
  <1>11. CASE CleanupCopy
    <2>1. PICK e \in entries : /\ e.role = "CandidateCopy" /\ Verified(e)
                               /\ dir' = [dir EXCEPT ![e.name] = NoFile]
      BY <1>3, <1>11 DEF CleanupCopy, Cleanup, Rebind
    <2>2. e.name = "copy" /\ e.id = copyId
      BY <1>0, <2>1, SMTT(30), Z3T(30) DEF CopyInv, CopyOfB, CopyEntry
    <2> QED
      BY <1>0, <1>1, <1>2, <2>1, <2>2 DEF Verified, Names
  <1>12. \/ Open \/ Abort \/ Drop \/ CreateCopy \/ PublishAbsent \/ PublishContent
         \/ RollbackExchange \/ CleanupOld \/ CleanupCopy
    BY <1>3, <1>4 DEF Next, WriterStep, CommitStep, Finished, vars, fsVars, Write, Commit,
       FillCopy, VerifyCopy, SyncStaged, Precheck, Inspect, VerifyDisplaced, VerifyInstalled,
       RollbackPrecheck, RollbackRecheck, RollbackVerify, RollbackReceipt, VerifyRollback,
       SyncInstalled, SaveComplete, CleanupSync, Report
  <1> QED
    BY <1>5, <1>6, <1>7, <1>8, <1>9, <1>10, <1>11, <1>12

\* No step of the writer destroys bytes of others: what loses its last name to an abort, an
\* exchange or cleanup_entries is the attempt's own copy, its never published candidate, or a file
\* with exactly the content the caller expected to replace, where the environment is gentle.
THEOREM WriterDestroysOnlyItsOwn == Spec => DestroysOnlyOwnOrExpected
  <1> DEFINE Spares == ProgramStep /\ opts.env = "gentle" =>
                \A f \in Files : Linked(f) /\ ~Linked(f)' =>
                    \/ f = copyId
                    \/ f = cand /\ native = "untouched"
                    \/ content[f] = opts.cond
  <1>1. RecoveryInv /\ [Next]_vars => [Spares]_vars
    BY StepDestroys
  <1>2. DestroysOnlyOwnOrExpected <=> [][Spares]_vars
    BY DEF DestroysOnlyOwnOrExpected
  <1> HIDE DEF Spares
  <1>3. Spec => [][Spares]_vars
    BY <1>1, RecoveryInvariant, PTL DEF Spec
  <1> QED
    BY <1>2, <1>3

=============================================================================
