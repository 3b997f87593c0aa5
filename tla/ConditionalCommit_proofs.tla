---------------------- MODULE ConditionalCommit_proofs ----------------------
(***************************************************************************)
(* What the conditional writer promises, for every set of files, contents, *)
(* options, fault points and any number of steps of other processes.       *)
(***************************************************************************)
EXTENDS ConditionalCommit, TLAPS

USE ZenonT(30)

-----------------------------------------------------------------------------
(***************************************************************************)
(* The inductive invariant behind PublicationIsTruthful,                   *)
(* TargetChangesAtomically and the refinement of Publication: what is      *)
(* known of the target at each point.                                      *)
(***************************************************************************)

Staging == {"open", "copy", "fill", "verifyCopy", "sync", "precheck", "publish"}
Unpublished == Staging \cup {"closed", "aborted", "dropped", "invalid", "refused"}
Installing == {"verifyDisplaced", "verifyInstalled", "rollbackPrecheck", "rollbackRecheck",
               "rollbackVerify", "rollbackExchange", "syncInstalled", "cleanupOld",
               "cleanupCopy", "cleanupSync", "ok"}

\* What the exchanges did, and what the commit has recorded of it so far.
NativeInv ==
    /\ pc \in Unpublished => native = "untouched" /\ publication = "NotPublished"
    /\ pc = "inspect" => /\ native # "restored" /\ publication = "NotPublished"
                         /\ native = "untouched" => attemptErr /\ opts.cond # Absent
    /\ pc \in Installing => native = "installed" /\ publication \in {"Published", "Indeterminate"}
    /\ pc = "receipt" /\ ~attemptErr => native = "restored"
    /\ pc = "verifyRollback" =>
          /\ publication \in {"Restored", "Indeterminate"}
          /\ publication = "Restored" => native = "restored"

\* Where the candidate is: staged under its own name until the native call, at the
\* target and no longer staged after an exchange.
CandidateInv ==
    /\ pc \notin {"closed", "refused"} => cand \in Files
    /\ pc \in {"fill", "verifyCopy", "sync"} => copyId \in Files
    /\ pc \in Staging \cup {"inspect"} /\ native = "untouched" =>
          dir["target"] # cand /\ dir["candidate"] \in {cand, NoFile}
    /\ pc = "inspect" /\ native = "installed" /\ opts.cond # Absent => dir["candidate"] # cand

\* Until the report every entry lies under a private name, and the file that a
\* rollback puts back is the one under the candidate's name.
EntryInv ==
    /\ pc \notin {"report", "err"} => \A e \in entries : e.name # "target"
    /\ pc \in Installing \cup {"receipt", "verifyRollback"} => installed # NoEntry
    /\ displaced # NoEntry => displaced.name = "candidate" /\ opts.cond # Absent
    /\ pc \in {"verifyDisplaced", "rollbackPrecheck", "rollbackRecheck", "rollbackVerify",
               "rollbackExchange", "receipt"} => displaced # NoEntry
    /\ pc = "rollbackExchange" => dir["candidate"] \in {displaced.id, NoFile}

IInv == TypeOK /\ PublicationIsTruthful /\ NativeInv /\ CandidateInv /\ EntryInv

-----------------------------------------------------------------------------
\* The invariant holds initially.
LEMMA InitIInv == Init => IInv
  <1> SUFFICES ASSUME Init PROVE IInv
    OBVIOUS
  <1> USE ConstantsAssumption DEF Init
  <1>1. FsOK
    <2>1. PICK f \in Files, c \in Contents, present \in BOOLEAN :
             /\ dir = [n \in Names |-> IF n = "target" /\ present THEN f ELSE NoFile]
             /\ content = [g \in Files |-> IF g = f /\ present THEN c ELSE Partial]
             /\ synced = IF present THEN {f} ELSE {}
      OBVIOUS
    <2> QED
      BY <2>1, SMTT(30), Z3T(30) DEF FsOK
  <1>2. WriterOK
    BY DEF WriterOK, PcValues, Digests
  <1>3. EntriesOK
    BY DEF EntriesOK
  <1>4. OutcomeOK
    BY DEF OutcomeOK, PublicationStates, Stages, ErrorKinds
  <1>5. PublicationIsTruthful /\ NativeInv
    BY DEF PublicationIsTruthful, NativeInv, Unpublished, Staging, Installing
  <1>6. CandidateInv /\ EntryInv
    BY DEF CandidateInv, EntryInv, Staging, Installing
  <1> QED
    BY <1>1, <1>2, <1>3, <1>4, <1>5, <1>6 DEF IInv, TypeOK

\* Changing the role of an entry leaves an entry.
LEMMA RoleOfEntry == \A e \in Entry, r \in Roles : WithRole(e, r) \in Entry
  BY DEF Entry, WithRole

\* The writer's own calls preserve the invariant.
LEMMA WriterPreserves ==
    ASSUME IInv,
           WriterStep
    PROVE  IInv'
  <1> USE ConstantsAssumption DEF IInv, TypeOK, fsVars, otherVars, writerVars, copyVars,
     syncVars, pubVars
  <1>1. CASE Open
    <2>1. TypeOK'
      BY <1>1, SMTT(30), Z3T(30) DEF Open, Allocate, FsOK, WriterOK, EntriesOK, OutcomeOK,
         PcValues, Final
    <2>2. PublicationIsTruthful' /\ NativeInv'
      BY <1>1 DEF Open, PublicationIsTruthful, NativeInv, Unpublished, Installing
    <2>3. CandidateInv' /\ EntryInv'
      BY <1>1 DEF Open, Allocate, Free, CandidateInv, EntryInv, Staging, Installing, FsOK, Names
    <2> QED
      BY <2>1, <2>2, <2>3
  <1>2. CASE \E c \in Contents : Write(c)
    <2>1. broken' \in BOOLEAN
      BY <1>2, Zenon DEF WriterOK, Write
    <2>2. TypeOK'
      BY <1>2, <2>1, SMTT(30), Z3T(30) DEF Write, FsOK, WriterOK, EntriesOK, OutcomeOK
    <2>3. PublicationIsTruthful' /\ NativeInv'
      BY <1>2 DEF Write, PublicationIsTruthful, NativeInv
    <2>4. CandidateInv' /\ EntryInv'
      BY <1>2 DEF Write, CandidateInv, EntryInv
    <2> QED
      BY <2>2, <2>3, <2>4
  <1>3. CASE Abort
    <2>1. broken' \in BOOLEAN
      BY <1>3, Zenon DEF WriterOK, Abort, RemoveCandidate, Rebind
    <2>2. TypeOK'
      BY <1>3, <2>1, SMTT(30), Z3T(30) DEF Abort, RemoveCandidate, Rebind, FsOK, WriterOK,
         EntriesOK, OutcomeOK, PcValues, Final
    <2>3. PublicationIsTruthful' /\ NativeInv'
      BY <1>3 DEF Abort, PublicationIsTruthful, NativeInv, Unpublished, Staging, Installing
    <2>4. CandidateInv' /\ EntryInv'
      BY <1>3 DEF Abort, CandidateInv, EntryInv, Staging, Installing
    <2> QED
      BY <2>2, <2>3, <2>4
  <1>4. CASE Drop
    <2>1. TypeOK'
      BY <1>4, SMTT(30), Z3T(30) DEF Drop, RemoveCandidate, Rebind, FsOK, WriterOK, EntriesOK,
         OutcomeOK, PcValues, Final
    <2>2. PublicationIsTruthful' /\ NativeInv'
      BY <1>4 DEF Drop, PublicationIsTruthful, NativeInv, Unpublished, Staging, Installing
    <2>3. CandidateInv' /\ EntryInv'
      BY <1>4 DEF Drop, CandidateInv, EntryInv, Staging, Installing
    <2> QED
      BY <2>1, <2>2, <2>3
  <1>5. CASE Commit
    <2>1. TypeOK'
      BY <1>5, SMTT(30), Z3T(30) DEF Commit, Fail, FsOK, WriterOK, EntriesOK, OutcomeOK,
         PcValues, Digests, Stages, ErrorKinds, CandidateInv
    <2>2. PublicationIsTruthful' /\ NativeInv'
      BY <1>5 DEF Commit, Fail, PublicationIsTruthful, NativeInv, Unpublished, Staging, Installing
    <2>3. CandidateInv' /\ EntryInv'
      BY <1>5 DEF Commit, Fail, CandidateInv, EntryInv, Staging, Installing
    <2> QED
      BY <2>1, <2>2, <2>3
  <1> QED
    BY <1>1, <1>2, <1>3, <1>4, <1>5 DEF WriterStep

\* So do the steps before the native call and the call itself,
LEMMA StagingPreserves ==
    ASSUME IInv,
           CreateCopy \/ FillCopy \/ VerifyCopy \/ SyncStaged \/ Precheck \/ PublishAbsent
           \/ PublishContent
    PROVE  IInv'
  <1> USE ConstantsAssumption DEF IInv, TypeOK, fsVars, otherVars, writerVars, copyVars,
     syncVars, pubVars
  <1>1. CASE CreateCopy
    <2>1. TypeOK'
      BY <1>1, SMTT(30), Z3T(30) DEF CreateCopy, Fail, Allocate, NewEntry, FsOK, WriterOK,
         EntriesOK, OutcomeOK, PcValues, Names, Entry, Roles, Stages, ErrorKinds
    <2>2. PublicationIsTruthful' /\ NativeInv'
      BY <1>1 DEF CreateCopy, Fail, PublicationIsTruthful, NativeInv, Unpublished, Staging,
         Installing
    <2>3. CandidateInv' /\ EntryInv'
      BY <1>1 DEF CreateCopy, Fail, Allocate, CandidateInv, EntryInv, Staging, Installing, FsOK,
         Names
    <2> QED
      BY <2>1, <2>2, <2>3
  <1>2. CASE FillCopy
    <2>1. TypeOK'
      BY <1>2, SMTT(30), Z3T(30) DEF FillCopy, Fail, FsOK, WriterOK, EntriesOK, OutcomeOK,
         PcValues, Names, Stages, ErrorKinds
    <2>2. PublicationIsTruthful' /\ NativeInv'
      BY <1>2 DEF FillCopy, Fail, PublicationIsTruthful, NativeInv, Unpublished, Staging,
         Installing
    <2>3. CandidateInv' /\ EntryInv'
      BY <1>2 DEF FillCopy, Fail, CandidateInv, EntryInv, Staging, Installing
    <2> QED
      BY <2>1, <2>2, <2>3
  <1>3. CASE VerifyCopy
    <2>1. TypeOK'
      BY <1>3, SMTT(30), Z3T(30) DEF VerifyCopy, Fail, CopyEntry, FsOK, WriterOK, EntriesOK,
         OutcomeOK, PcValues, Names, Entry, Roles, Stages, ErrorKinds, CandidateInv
    <2>2. PublicationIsTruthful' /\ NativeInv'
      BY <1>3 DEF VerifyCopy, Fail, PublicationIsTruthful, NativeInv, Unpublished, Staging,
         Installing
    <2>3. CandidateInv' /\ EntryInv'
      BY <1>3, SMTT(30), Z3T(30) DEF VerifyCopy, Fail, CopyEntry, CandidateInv, EntryInv,
         Staging, Installing
    <2> QED
      BY <2>1, <2>2, <2>3
  <1>4. CASE SyncStaged
    <2>1. TypeOK'
      BY <1>4, SMTT(30), Z3T(30) DEF SyncStaged, Fail, StagedFiles, FsOK, WriterOK, EntriesOK,
         OutcomeOK, PcValues, Stages, ErrorKinds, CandidateInv, Installing
    <2>2. PublicationIsTruthful' /\ NativeInv'
      BY <1>4 DEF SyncStaged, Fail, PublicationIsTruthful, NativeInv, Unpublished, Staging,
         Installing
    <2>3. CandidateInv' /\ EntryInv'
      BY <1>4 DEF SyncStaged, Fail, CandidateInv, EntryInv, Staging, Installing
    <2> QED
      BY <2>1, <2>2, <2>3
  <1>5. CASE Precheck
    <2>1. TypeOK'
      BY <1>5, SMTT(30), Z3T(30) DEF Precheck, Fail, FsOK, WriterOK, EntriesOK, OutcomeOK,
         PcValues, Stages, ErrorKinds, CandidateInv
    <2>2. PublicationIsTruthful' /\ NativeInv'
      BY <1>5 DEF Precheck, Fail, PublicationIsTruthful, NativeInv, Unpublished, Staging,
         Installing
    <2>3. CandidateInv' /\ EntryInv'
      BY <1>5 DEF Precheck, Fail, CandidateInv, EntryInv, Staging, Installing
    <2> QED
      BY <2>1, <2>2, <2>3
  <1>6. CASE PublishAbsent
    <2>1. attemptErr' \in BOOLEAN
      BY <1>6, Zenon DEF OutcomeOK, PublishAbsent, Fail, Rebind, NoReplaceAllows
    <2>2. TypeOK'
      BY <1>6, <2>1, SMTT(30), Z3T(30) DEF PublishAbsent, Fail, Rebind, FsOK, WriterOK,
         EntriesOK, OutcomeOK, PcValues, Names, PublicationStates, Stages, ErrorKinds
    <2>3. PublicationIsTruthful' /\ NativeInv'
      BY <1>6 DEF PublishAbsent, Fail, PublicationIsTruthful, NativeInv, Unpublished, Staging,
         Installing
    <2>4. CandidateInv' /\ EntryInv'
      BY <1>6 DEF PublishAbsent, Fail, CandidateInv, EntryInv, Staging, Installing
    <2> QED
      BY <2>2, <2>3, <2>4
  <1>7. CASE PublishContent
    <2>1. attemptErr' \in BOOLEAN
      BY <1>7, Zenon DEF OutcomeOK, PublishContent, Fail, Rebind, Swap
    <2>2. TypeOK'
      BY <1>7, <2>1, SMTT(30), Z3T(30) DEF PublishContent, Fail, Rebind, Swap, FsOK, WriterOK,
         EntriesOK, OutcomeOK, PcValues, Names, PublicationStates, Stages, ErrorKinds
    <2>3. PublicationIsTruthful' /\ NativeInv'
      BY <1>7 DEF PublishContent, Fail, Rebind, Swap, PublicationIsTruthful, NativeInv,
         Unpublished, Staging, Installing
    <2>4. CandidateInv' /\ EntryInv'
      BY <1>7 DEF PublishContent, Fail, Rebind, Swap, CandidateInv, EntryInv, NativeInv,
         Unpublished, Staging, Installing, FsOK, EntriesOK, Entry, NoEntry, Names
    <2> QED
      BY <2>2, <2>3, <2>4
  <1> QED
    BY <1>1, <1>2, <1>3, <1>4, <1>5, <1>6, <1>7

\* the verification of what was installed and displaced, and the rollback,
LEMMA VerificationPreserves ==
    ASSUME IInv,
           VerifyDisplaced \/ VerifyInstalled \/ RollbackPrecheck \/ RollbackRecheck \/
           RollbackVerify \/ RollbackExchange \/ VerifyRollback
    PROVE  IInv'
  <1> USE ConstantsAssumption DEF IInv, TypeOK, fsVars, otherVars, writerVars, copyVars,
     syncVars, pubVars
  <1>1. CASE VerifyDisplaced
    <2>1. conflict' \in BOOLEAN
      BY <1>1, Zenon DEF OutcomeOK, VerifyDisplaced, Fail, WithRole
    <2>2. TypeOK'
      BY <1>1, <2>1, SMTT(30), Z3T(30) DEF VerifyDisplaced, Fail, WithRole, FsOK, WriterOK,
         EntriesOK, OutcomeOK, PcValues, Entry, Roles, PublicationStates, Stages, ErrorKinds,
         EntryInv, Installing
    <2>3. PublicationIsTruthful' /\ NativeInv'
      BY <1>1 DEF VerifyDisplaced, Fail, PublicationIsTruthful, NativeInv, Unpublished, Staging,
         Installing
    <2>4. CandidateInv' /\ EntryInv'
      BY <1>1 DEF VerifyDisplaced, Fail, WithRole, CandidateInv, EntryInv, NativeInv, Installing,
         EntriesOK, Entry
    <2> QED
      BY <2>2, <2>3, <2>4
  <1>2. CASE VerifyInstalled
    <2>1. conflict' \in BOOLEAN
      BY <1>2, Zenon DEF OutcomeOK, VerifyInstalled, Fail, Some
    <2>2. TypeOK'
      BY <1>2, <2>1, SMTT(30), Z3T(30) DEF VerifyInstalled, Fail, Some, FsOK, WriterOK,
         EntriesOK, OutcomeOK, PcValues, PublicationStates, Stages, ErrorKinds, EntryInv,
         Installing
    <2>3. PublicationIsTruthful' /\ NativeInv'
      BY <1>2 DEF VerifyInstalled, Fail, PublicationIsTruthful, NativeInv, Unpublished, Staging,
         Installing
    <2>4. CandidateInv' /\ EntryInv'
      BY <1>2 DEF VerifyInstalled, Fail, Some, CandidateInv, EntryInv, NativeInv, Installing
    <2> QED
      BY <2>2, <2>3, <2>4
  <1>3. CASE RollbackPrecheck
    <2>1. TypeOK'
      BY <1>3, SMTT(30), Z3T(30) DEF RollbackPrecheck, Fail, Digest, FsOK, WriterOK, EntriesOK,
         OutcomeOK, PcValues, Digests, Entry, PublicationStates, Stages, ErrorKinds, EntryInv,
         Installing
    <2>2. PublicationIsTruthful' /\ NativeInv'
      BY <1>3 DEF RollbackPrecheck, Fail, PublicationIsTruthful, NativeInv, Unpublished, Staging,
         Installing
    <2>3. CandidateInv' /\ EntryInv'
      BY <1>3 DEF RollbackPrecheck, Fail, CandidateInv, EntryInv, NativeInv, Installing
    <2> QED
      BY <2>1, <2>2, <2>3
  <1>4. CASE RollbackRecheck
    <2>1. TypeOK'
      BY <1>4, SMTT(30), Z3T(30) DEF RollbackRecheck, Fail, FsOK, WriterOK, EntriesOK, OutcomeOK,
         PcValues, PublicationStates, Stages, ErrorKinds, EntryInv, Installing
    <2>2. PublicationIsTruthful' /\ NativeInv'
      BY <1>4 DEF RollbackRecheck, Fail, PublicationIsTruthful, NativeInv, Unpublished, Staging,
         Installing
    <2>3. CandidateInv' /\ EntryInv'
      BY <1>4 DEF RollbackRecheck, Fail, CandidateInv, EntryInv, NativeInv, Installing
    <2> QED
      BY <2>1, <2>2, <2>3
  <1>5. CASE RollbackVerify
    <2>1. TypeOK'
      BY <1>5, SMTT(30), Z3T(30) DEF RollbackVerify, Fail, WithRole, FsOK, WriterOK, EntriesOK,
         OutcomeOK, PcValues, Entry, Roles, PublicationStates, Stages, ErrorKinds, EntryInv
    <2>2. PublicationIsTruthful' /\ NativeInv'
      BY <1>5 DEF RollbackVerify, Fail, PublicationIsTruthful, NativeInv, Unpublished, Staging,
         Installing
    <2>3. CandidateInv' /\ EntryInv'
      BY <1>5 DEF RollbackVerify, Fail, Verified, CandidateInv, EntryInv, NativeInv, Installing
    <2> QED
      BY <2>1, <2>2, <2>3
  <1>6. CASE RollbackExchange
    <2>1. attemptErr' \in BOOLEAN
      BY <1>6, Zenon DEF OutcomeOK, RollbackExchange, Rebind, Swap
    <2>2. TypeOK'
      BY <1>6, <2>1, SMTT(30), Z3T(30) DEF RollbackExchange, Rebind, Swap, FsOK, WriterOK,
         EntriesOK, OutcomeOK, PcValues, Names
    <2>3. PublicationIsTruthful' /\ NativeInv'
      BY <1>6 DEF RollbackExchange, PublicationIsTruthful, NativeInv, Unpublished, Staging,
         Installing
    <2>4. CandidateInv' /\ EntryInv'
      BY <1>6 DEF RollbackExchange, CandidateInv, EntryInv, NativeInv, Installing
    <2> QED
      BY <2>2, <2>3, <2>4
  <1>7. CASE VerifyRollback
    <2>1. TypeOK'
      <3>1. installed \in Entry /\ installed.id \in Files
        BY <1>7 DEF VerifyRollback, EntryInv, EntriesOK, Entry
      <3>2. FsOK' /\ WriterOK'
        BY <1>7, <3>1 DEF VerifyRollback, Fail, FsOK, WriterOK, PcValues
      <3>3. EntriesOK' /\ OutcomeOK'
        BY <1>7, <3>1, SMTT(30), Z3T(30) DEF VerifyRollback, Fail, EntriesOK, OutcomeOK,
           PublicationStates, Stages, ErrorKinds
      <3> QED
        BY <3>2, <3>3
    <2>2. PublicationIsTruthful' /\ NativeInv'
      BY <1>7 DEF VerifyRollback, Fail, PublicationIsTruthful, NativeInv, Unpublished, Staging,
         Installing
    <2>3. CandidateInv' /\ EntryInv'
      BY <1>7 DEF VerifyRollback, Fail, CandidateInv, EntryInv, NativeInv, Unpublished, Staging,
         Installing, FsOK, EntriesOK, Entry, NoEntry, Names
    <2> QED
      BY <2>1, <2>2, <2>3
  <1> QED
    BY <1>1, <1>2, <1>3, <1>4, <1>5, <1>6, <1>7

\* synchronisation, cleanup and the report,
LEMMA OutcomePreserves ==
    ASSUME IInv,
           SyncInstalled \/ CleanupOld \/ CleanupCopy \/ SaveComplete \/ CleanupSync \/
           Report
    PROVE  IInv'
  <1> USE ConstantsAssumption DEF IInv, TypeOK, fsVars, otherVars, writerVars, copyVars,
     syncVars, pubVars
  <1>1. CASE SyncInstalled
    <2>1. TypeOK'
      BY <1>1, SMTT(30), Z3T(30) DEF SyncInstalled, Fail, DurableAfter, FsOK, WriterOK,
         EntriesOK, OutcomeOK, PcValues, Stages, ErrorKinds, CandidateInv, EntryInv, Installing
    <2>2. PublicationIsTruthful' /\ NativeInv'
      BY <1>1 DEF SyncInstalled, Fail, PublicationIsTruthful, NativeInv, Unpublished, Staging,
         Installing
    <2>3. CandidateInv' /\ EntryInv'
      BY <1>1 DEF SyncInstalled, Fail, CandidateInv, EntryInv, NativeInv, Installing
    <2> QED
      BY <2>1, <2>2, <2>3
  <1>2. CASE CleanupOld
    <2>1. cleanupErr' \in BOOLEAN
      BY <1>2, Zenon DEF OutcomeOK, CleanupOld, Cleanup, Rebind
    <2>2. /\ pc = "cleanupOld" /\ pc' = "cleanupCopy"
          /\ UNCHANGED <<content, synced, otherVars, writerVars, copyVars, durable, fileSynced, pubVars, failure>>
      BY <1>2 DEF CleanupOld, Cleanup
    <2>3. entries' \subseteq entries
      BY <1>2, Zenon DEF CleanupOld, Cleanup
    <2>4. UNCHANGED <<dir, pdirs>> \/ \E e \in entries : Rebind([dir EXCEPT ![e.name] = NoFile])
      BY <1>2, Zenon DEF CleanupOld, Cleanup
    <2>5. FsOK'
      <3>1. \A e \in entries : e.name \in Names
        BY DEF EntriesOK, Entry
      <3> QED
        BY <2>2, <2>4, <3>1 DEF FsOK, Rebind
    <2>6. TypeOK'
      BY <2>1, <2>2, <2>3, <2>5 DEF WriterOK, EntriesOK, OutcomeOK, PcValues
    <2>7. PublicationIsTruthful' /\ NativeInv'
      BY <2>2 DEF PublicationIsTruthful, NativeInv, Unpublished, Staging, Installing
    <2>8. CandidateInv' /\ EntryInv'
      BY <2>2, <2>3 DEF CandidateInv, EntryInv, Staging, Installing
    <2> QED
      BY <2>6, <2>7, <2>8
  <1>3. CASE CleanupCopy
    <2>1. cleanupErr' \in BOOLEAN
      BY <1>3, Zenon DEF OutcomeOK, CleanupCopy, Cleanup, Rebind
    <2>2. /\ pc = "cleanupCopy" /\ pc' = "cleanupSync"
          /\ UNCHANGED <<content, synced, otherVars, writerVars, copyVars, durable, fileSynced, pubVars, failure>>
      BY <1>3 DEF CleanupCopy, Cleanup
    <2>3. entries' \subseteq entries
      BY <1>3, Zenon DEF CleanupCopy, Cleanup
    <2>4. UNCHANGED <<dir, pdirs>> \/ \E e \in entries : Rebind([dir EXCEPT ![e.name] = NoFile])
      BY <1>3, Zenon DEF CleanupCopy, Cleanup
    <2>5. FsOK'
      <3>1. \A e \in entries : e.name \in Names
        BY DEF EntriesOK, Entry
      <3> QED
        BY <2>2, <2>4, <3>1 DEF FsOK, Rebind
    <2>6. TypeOK'
      BY <2>1, <2>2, <2>3, <2>5 DEF WriterOK, EntriesOK, OutcomeOK, PcValues
    <2>7. PublicationIsTruthful' /\ NativeInv'
      BY <2>2 DEF PublicationIsTruthful, NativeInv, Unpublished, Staging, Installing
    <2>8. CandidateInv' /\ EntryInv'
      BY <2>2, <2>3 DEF CandidateInv, EntryInv, Staging, Installing
    <2> QED
      BY <2>6, <2>7, <2>8
  <1>4. CASE SaveComplete
    <2>1. TypeOK'
      BY <1>4, SMTT(30), ZenonT(60) DEF SaveComplete, FsOK, WriterOK, EntriesOK, OutcomeOK,
         PcValues
    <2>2. PublicationIsTruthful' /\ NativeInv'
      BY <1>4 DEF SaveComplete, PublicationIsTruthful, NativeInv, Unpublished, Staging, Installing
    <2>3. CandidateInv' /\ EntryInv'
      BY <1>4 DEF SaveComplete, CandidateInv, EntryInv, NativeInv, Installing
    <2> QED
      BY <2>1, <2>2, <2>3
  <1>5. CASE CleanupSync
    <2>1. cleanupErr' \in BOOLEAN
      BY <1>5, Zenon DEF OutcomeOK, CleanupSync
    <2>2. TypeOK'
      BY <1>5, <2>1, SMTT(30), Z3T(30) DEF CleanupSync, FsOK, WriterOK, EntriesOK, OutcomeOK,
         PcValues, Final
    <2>3. PublicationIsTruthful' /\ NativeInv'
      BY <1>5 DEF CleanupSync, PublicationIsTruthful, NativeInv, Unpublished, Staging, Installing
    <2>4. CandidateInv' /\ EntryInv'
      BY <1>5 DEF CleanupSync, CandidateInv, EntryInv, NativeInv, Installing
    <2> QED
      BY <2>2, <2>3, <2>4
  <1>6. CASE Report
    <2>1. TypeOK'
      <3>1. FsOK' /\ WriterOK' /\ OutcomeOK'
        BY <1>6, SMTT(30), Z3T(30) DEF Report, FsOK, WriterOK, OutcomeOK, PcValues, Final
      <3>2. EntriesOK'
        BY <1>6, SMTT(30), Z3T(30) DEF Report, TakeRecoveryEntries, EntryAt, FsOK, EntriesOK,
           Names, Entry, Roles, CandidateInv
      <3> QED
        BY <3>1, <3>2
    <2>2. PublicationIsTruthful' /\ NativeInv'
      BY <1>6 DEF Report, PublicationIsTruthful, NativeInv, Unpublished, Staging, Installing
    <2>3. CandidateInv' /\ EntryInv'
      BY <1>6 DEF Report, CandidateInv, EntryInv, Staging, Installing
    <2> QED
      BY <2>1, <2>2, <2>3
  <1> QED
    BY <1>1, <1>2, <1>3, <1>4, <1>5, <1>6

\* and every step of another process.
LEMMA OthersPreserve ==
    ASSUME IInv,
           Others
    PROVE  IInv'
  <1> USE ConstantsAssumption DEF IInv, TypeOK, fsVars, otherVars, writerVars, copyVars,
     syncVars, pubVars
  <1>1. CASE OtherReplace
    <2>1. TypeOK'
      BY <1>1, SMTT(30), Z3T(30) DEF OtherReplace, OtherMoves, Allocate, FsOK, WriterOK,
         EntriesOK, OutcomeOK, Names
    <2>2. PublicationIsTruthful' /\ NativeInv'
      BY <1>1 DEF OtherReplace, PublicationIsTruthful, NativeInv
    <2>3. PICK f \in Files : f # cand /\ dir' = [dir EXCEPT !["target"] = f]
      BY <1>1 DEF OtherReplace, Allocate, Free
    <2>4. /\ dir'["target"] # cand \/ dir'["target"] = dir["target"]
          /\ dir'["candidate"] = dir["candidate"]
      BY <2>3 DEF FsOK, Names
    <2>5. CandidateInv' /\ EntryInv'
      BY <1>1, <2>4 DEF OtherReplace, CandidateInv, EntryInv
    <2> QED
      BY <2>1, <2>2, <2>5
  <1>2. CASE OtherOverwrite
    <2>1. TypeOK'
      BY <1>2, SMTT(30), Z3T(30) DEF OtherOverwrite, OtherMoves, FsOK, WriterOK, EntriesOK,
         OutcomeOK, Names
    <2>2. PublicationIsTruthful' /\ NativeInv'
      BY <1>2 DEF OtherOverwrite, PublicationIsTruthful, NativeInv
    <2>3. CandidateInv' /\ EntryInv'
      BY <1>2 DEF OtherOverwrite, CandidateInv, EntryInv
    <2> QED
      BY <2>1, <2>2, <2>3
  <1>3. CASE OtherDelete
    <2>1. TypeOK'
      BY <1>3, SMTT(30), Z3T(30) DEF OtherDelete, OtherMoves, Rebind, FsOK, WriterOK, EntriesOK,
         OutcomeOK, Names
    <2>2. PublicationIsTruthful' /\ NativeInv'
      BY <1>3 DEF OtherDelete, PublicationIsTruthful, NativeInv
    <2>3. CandidateInv' /\ EntryInv'
      BY <1>3, SMTT(30), Z3T(30) DEF OtherDelete, Rebind, CandidateInv, EntryInv, Staging
    <2> QED
      BY <2>1, <2>2, <2>3
  <1>4. CASE OtherOpen
    <2>1. TypeOK'
      BY <1>4, SMTT(30), Z3T(30) DEF OtherOpen, OtherMoves, FsOK, WriterOK, EntriesOK, OutcomeOK,
         Names
    <2>2. PublicationIsTruthful' /\ NativeInv'
      BY <1>4 DEF OtherOpen, PublicationIsTruthful, NativeInv
    <2>3. CandidateInv' /\ EntryInv'
      BY <1>4 DEF OtherOpen, CandidateInv, EntryInv
    <2> QED
      BY <2>1, <2>2, <2>3
  <1>5. CASE OtherWriteHandle
    <2>1. TypeOK'
      BY <1>5, SMTT(30), Z3T(30) DEF OtherWriteHandle, OtherMoves, FsOK, WriterOK, EntriesOK,
         OutcomeOK
    <2>2. PublicationIsTruthful' /\ NativeInv'
      BY <1>5 DEF OtherWriteHandle, PublicationIsTruthful, NativeInv
    <2>3. CandidateInv' /\ EntryInv'
      BY <1>5 DEF OtherWriteHandle, CandidateInv, EntryInv
    <2> QED
      BY <2>1, <2>2, <2>3
  <1>6. CASE OtherSweep
    <2>1. TypeOK'
      BY <1>6, SMTT(30), Z3T(30) DEF OtherSweep, OtherMoves, Rebind, FsOK, WriterOK, EntriesOK,
         OutcomeOK
    <2>2. PublicationIsTruthful' /\ NativeInv'
      BY <1>6 DEF OtherSweep, PublicationIsTruthful, NativeInv
    <2>3. CandidateInv' /\ EntryInv'
      BY <1>6, SMTT(30), Z3T(30) DEF OtherSweep, Rebind, CandidateInv, EntryInv
    <2> QED
      BY <2>1, <2>2, <2>3
  <1> QED
    BY <1>1, <1>2, <1>3, <1>4, <1>5, <1>6 DEF Others


\* A lookup sees nothing, or the file the name is bound to.
LEMMA LookupEntry ==
    ASSUME ConstantsAssumption, FsOK, NEW role \in Roles, NEW n \in Names, NEW e \in Lookup(role, n)
    PROVE  e = NoEntry \/ (e \in Entry /\ e.name = n)
  BY SMTT(30), Z3T(30) DEF Lookup, EntryAt, FsOK, Entry

\* The inspection concludes that nothing was published only when the exchange did
\* nothing, and that the candidate was published only when it did.
LEMMA ExchangeStateSound ==
    ASSUME IInv, pc = "inspect", opts.cond # Absent, NEW disp,
           NEW ic \in SeenAsCandidate("target"), NEW sc \in SeenAsCandidate("candidate"),
           NEW state, state = ExchangeState(attemptErr, ic, sc, disp)
    PROVE  /\ state \in {"NotPublished", "Published", "Indeterminate"}
           /\ state = "NotPublished" => native = "untouched"
           /\ state = "Published" => native = "installed"
  <1>1. ic => dir["target"] = cand
    BY DEF SeenAsCandidate
  <1>2. sc => dir["candidate"] = cand
    BY DEF SeenAsCandidate
  <1>3. /\ native \in {"untouched", "installed"}
        /\ native = "untouched" => dir["target"] # cand
        /\ native = "installed" => dir["candidate"] # cand
    BY DEF IInv, TypeOK, OutcomeOK, NativeInv, CandidateInv
  <1> QED
    BY <1>1, <1>2, <1>3 DEF ExchangeState

\* What the inspection concludes leaves the invariant true.
LEMMA InspectPreserves == IInv /\ Inspect => IInv'
  <1> SUFFICES ASSUME IInv, Inspect PROVE IInv'
    OBVIOUS
  <1> USE ConstantsAssumption
  <1>0. PICK inst \in Lookup("StagedCandidate", "target"),
             disp \in Lookup(IF opts.cond = Absent THEN "StagedCandidate" ELSE "Displaced", "candidate"),
             ic \in SeenAsCandidate("target"), sc \in SeenAsCandidate("candidate") :
          LET state == IF opts.cond # Absent THEN ExchangeState(attemptErr, ic, sc, disp)
                       ELSE IF attemptErr \/ inst # NoEntry THEN "Published" ELSE "Indeterminate"
              moved == IF opts.cond = Absent /\ ~attemptErr THEN NoEntry ELSE disp
          IN  \/ JudgeAttempt(state, inst, moved)
              \/ /\ Faulty("AfterPublish")
                 /\ Fail("Publish", "Other",
                         IF state = "NotPublished" THEN {} ELSE Some(inst) \cup Some(moved), state)
                 /\ UNCHANGED <<conflict, installed, displaced>>
    BY Zenon DEF Inspect
  <1> DEFINE state == IF opts.cond # Absent THEN ExchangeState(attemptErr, ic, sc, disp)
                      ELSE IF attemptErr \/ inst # NoEntry THEN "Published" ELSE "Indeterminate"
             moved == IF opts.cond = Absent /\ ~attemptErr THEN NoEntry ELSE disp
  <1>1. \/ JudgeAttempt(state, inst, moved)
        \/ /\ Fail("Publish", "Other",
                   IF state = "NotPublished" THEN {} ELSE Some(inst) \cup Some(moved), state)
           /\ UNCHANGED <<conflict, installed, displaced>>
    BY <1>0
  <1>2. /\ pc = "inspect"
        /\ UNCHANGED <<fsVars, otherVars, writerVars, copyVars, syncVars, attemptErr, oldDigest, native>>
    BY DEF Inspect
  <1>3. /\ inst = NoEntry \/ (inst \in Entry /\ inst.name = "target")
        /\ moved = NoEntry \/ (moved \in Entry /\ moved.name = "candidate")
    <2>1. FsOK /\ {"target", "candidate"} \subseteq Names /\ {"StagedCandidate", "Displaced"} \subseteq Roles
      BY DEF IInv, TypeOK, Names, Roles
    <2> QED
      BY <2>1, LookupEntry
  <1>4. /\ state \in {"NotPublished", "Published", "Indeterminate"}
        /\ state = "NotPublished" => native = "untouched"
        /\ state = "Published" => native = "installed"
        /\ ~attemptErr => native = "installed"
        /\ opts.cond = Absent => state # "NotPublished"
        /\ opts.cond = Absent /\ ~attemptErr => moved = NoEntry
    <2>1. CASE opts.cond # Absent
      BY <1>2, <2>1, ExchangeStateSound DEF IInv, TypeOK, OutcomeOK, NativeInv
    <2>2. CASE opts.cond = Absent
      BY <1>2, <2>2 DEF IInv, TypeOK, OutcomeOK, NativeInv
    <2> QED
      BY <2>1, <2>2
  <1> HIDE DEF state, moved
  <1>5. \/ /\ pc' = "report" /\ failure'.stage = "Publish"
           /\ failure' \in [stage : Stages, kind : ErrorKinds]
           /\ entries' \subseteq Entry
           /\ publication' \in {state, "Indeterminate"}
           /\ UNCHANGED <<installed, displaced>>
        \/ /\ pc' \in {"verifyDisplaced", "verifyInstalled"}
           /\ UNCHANGED <<failure, entries>>
           /\ state \in {"Published", "Indeterminate"} /\ publication' = state
           /\ native = "installed"
           /\ installed' = inst /\ inst # NoEntry
           /\ displaced' = moved /\ (pc' = "verifyDisplaced" => moved # NoEntry)
           /\ moved # NoEntry => opts.cond # Absent
    <2>1. entries \subseteq Entry /\ Some(inst) \subseteq Entry /\ Some(moved) \subseteq Entry
      BY <1>3 DEF IInv, TypeOK, EntriesOK, Some
    <2>2. CASE UNCHANGED <<conflict, installed, displaced>> /\
               Fail("Publish", "Other",
                    IF state = "NotPublished" THEN {} ELSE Some(inst) \cup Some(moved), state)
      BY <2>1, <2>2 DEF Fail, Stages, ErrorKinds
    <2>3. CASE JudgeAttempt(state, inst, moved)
      <3>1. Some(NoEntry) = {}
        BY DEF Some
      <3> DEFINE Stopped(kind, pushed, to) == /\ Fail("Publish", kind, pushed, to)
                                               /\ UNCHANGED <<installed, displaced>>
                 Continued == /\ installed' = inst /\ inst # NoEntry
                              /\ displaced' = moved /\ publication' = state
                              /\ pc' = IF moved # NoEntry THEN "verifyDisplaced" ELSE "verifyInstalled"
                              /\ UNCHANGED <<failure, entries>>
                              /\ ~attemptErr \/ (opts.cond # Absent /\ state = "Published")
      <3>2. CASE state = "NotPublished"
        <4>1. \/ Stopped("Other", {}, state)
              \/ Stopped("InvalidData", {}, "Indeterminate")
          BY <2>3, <3>1, <3>2, Zenon DEF JudgeAttempt
        <4> QED
          BY <2>1, <4>1, SMTT(30), Z3T(30) DEF Fail, Stages, ErrorKinds
      <3>3. CASE state # "NotPublished"
        <4>1. \/ Stopped("Other", Some(inst), "Indeterminate")
              \/ Stopped("InvalidData", Some(inst), "Indeterminate")
              \/ Stopped("Other", Some(inst) \cup Some(moved), state)
              \/ Stopped("InvalidData", Some(moved), "Indeterminate")
              \/ Continued
          BY <2>3, <3>3, Zenon DEF JudgeAttempt
        <4>2. CASE Continued
          BY <1>4, <3>3, <4>2
        <4>3. CASE ~Continued
          BY <2>1, <4>1, <4>3, SMTT(30), Z3T(30) DEF Fail, Stages, ErrorKinds
        <4> QED
          BY <4>2, <4>3
      <3> QED
        BY <3>2, <3>3
    <2> QED
      BY <1>1, <2>2, <2>3
  <1>6. conflict' \in BOOLEAN
    BY <1>1 DEF JudgeAttempt, IInv, TypeOK, OutcomeOK
  <1> USE <1>2 DEF IInv, TypeOK, fsVars, otherVars, writerVars, copyVars, syncVars
  <1>7. FsOK' /\ WriterOK'
    BY <1>5 DEF FsOK, WriterOK, PcValues
  <1>8. EntriesOK'
    BY <1>3, <1>5 DEF EntriesOK
  <1>9. OutcomeOK'
    BY <1>4, <1>5, <1>6 DEF OutcomeOK, PublicationStates
  <1>10. PublicationIsTruthful' /\ NativeInv'
    BY <1>4, <1>5 DEF PublicationIsTruthful, NativeInv, Unpublished, Staging, Installing
  <1>11. CandidateInv'
    BY <1>5 DEF CandidateInv, Staging
  <1>12. EntryInv'
    BY <1>3, <1>5 DEF EntryInv, Installing
  <1> QED
    BY <1>7, <1>8, <1>9, <1>10, <1>11, <1>12


\* The receipt of a rollback counts as restored only what the exchange restored.
LEMMA RollbackReceiptPreserves == IInv /\ RollbackReceipt => IInv'
  <1> SUFFICES ASSUME IInv, RollbackReceipt PROVE IInv'
    OBVIOUS
  <1> USE ConstantsAssumption
  <1>0. PICK back \in Lookup("Displaced", "target"), moved \in Lookup("RollbackDisplaced", "candidate") :
          LET matches == /\ back # NoEntry /\ back.id = displaced.id
                         /\ moved # NoEntry /\ moved.id = cand
                         /\ dir["copy"] = copyId /\ content[cand] = content[copyId]
              state == IF matches /\ ~attemptErr THEN "Restored" ELSE "Indeterminate"
              kept == IF moved = NoEntry /\ Verified(displaced)
                      THEN {WithRole(displaced, "Displaced")} ELSE {}
          IN  \/ /\ Faulty("RollbackCompleted")
                 /\ Fail("Rollback", "Other", Some(back) \cup Some(moved) \cup {displaced}, "Indeterminate")
                 /\ UNCHANGED installed
              \/ /\ attemptErr
                 /\ Fail("Rollback", "Other", kept \cup Some(back) \cup Some(moved), state)
                 /\ UNCHANGED installed
              \/ /\ ~attemptErr /\ back = NoEntry
                 /\ Fail("Rollback", "InvalidData", {installed, displaced} \cup Some(moved), "Indeterminate")
                 /\ UNCHANGED installed
              \/ /\ ~attemptErr /\ back # NoEntry
                 /\ entries' = entries \cup Some(moved)
                 /\ installed' = back /\ publication' = state /\ pc' = "verifyRollback"
                 /\ UNCHANGED failure
    BY Zenon DEF RollbackReceipt
  <1>1. /\ pc = "receipt"
        /\ UNCHANGED <<fsVars, otherVars, writerVars, copyVars, syncVars,
                       conflict, attemptErr, displaced, oldDigest, native>>
    BY DEF RollbackReceipt
  <1>2. /\ back = NoEntry \/ back \in Entry
        /\ moved = NoEntry \/ (moved \in Entry /\ moved.name = "candidate")
    <2>1. FsOK /\ {"target", "candidate"} \subseteq Names /\ {"Displaced", "RollbackDisplaced"} \subseteq Roles
      BY DEF IInv, TypeOK, Names, Roles
    <2> QED
      BY <2>1, LookupEntry
  <1>3. installed \in Entry /\ displaced \in Entry /\ WithRole(displaced, "Displaced") \in Entry
    <2>1. installed \in Entry /\ displaced \in Entry
      BY <1>1 DEF IInv, TypeOK, EntriesOK, EntryInv
    <2> QED
      BY <2>1, RoleOfEntry DEF Roles
  <1>4. \/ /\ pc' = "report"
           /\ failure' \in [stage : Stages, kind : ErrorKinds]
           /\ entries' \subseteq Entry
           /\ publication' = "Indeterminate"
           /\ UNCHANGED installed
        \/ /\ pc' = "verifyRollback" /\ UNCHANGED failure
           /\ entries' = entries \cup Some(moved)
           /\ installed' = back /\ back # NoEntry
           /\ publication' \in {"Restored", "Indeterminate"}
           /\ ~attemptErr
    <2>1. entries \subseteq Entry /\ Some(back) \subseteq Entry /\ Some(moved) \subseteq Entry
      BY <1>2 DEF IInv, TypeOK, EntriesOK, Some
    <2> DEFINE state == IF (/\ back # NoEntry /\ back.id = displaced.id
                            /\ moved # NoEntry /\ moved.id = cand
                            /\ dir["copy"] = copyId
                            /\ content[cand] = content[copyId]) /\ ~attemptErr
                        THEN "Restored" ELSE "Indeterminate"
               kept == IF moved = NoEntry /\ Verified(displaced)
                       THEN {WithRole(displaced, "Displaced")} ELSE {}
    <2>2. /\ state \in {"Restored", "Indeterminate"} /\ (attemptErr => state = "Indeterminate")
          /\ kept \subseteq Entry
      BY <1>3
    <2>3. \/ Fail("Rollback", "Other", Some(back) \cup Some(moved) \cup {displaced}, "Indeterminate")
               /\ UNCHANGED installed
          \/ attemptErr /\ Fail("Rollback", "Other", kept \cup Some(back) \cup Some(moved), state)
               /\ UNCHANGED installed
          \/ Fail("Rollback", "InvalidData", {installed, displaced} \cup Some(moved), "Indeterminate")
               /\ UNCHANGED installed
          \/ /\ ~attemptErr /\ back # NoEntry
             /\ entries' = entries \cup Some(moved)
             /\ installed' = back /\ publication' = state /\ pc' = "verifyRollback"
             /\ UNCHANGED failure
      BY <1>0
    <2> HIDE DEF state, kept
    <2> QED
      BY <1>3, <2>1, <2>2, <2>3, SMTT(30), Z3T(30) DEF Fail, Stages, ErrorKinds
  <1> USE <1>1 DEF IInv, TypeOK, fsVars, otherVars, writerVars, copyVars, syncVars
  <1>5. FsOK' /\ WriterOK'
    BY <1>4 DEF FsOK, WriterOK, PcValues
  <1>6. EntriesOK'
    BY <1>2, <1>4 DEF EntriesOK, Some
  <1>7. OutcomeOK'
    BY <1>4 DEF OutcomeOK, PublicationStates
  <1>8. PublicationIsTruthful' /\ NativeInv'
    BY <1>4 DEF PublicationIsTruthful, NativeInv, Unpublished, Staging, Installing
  <1>9. CandidateInv' /\ EntryInv'
    BY <1>2, <1>4 DEF CandidateInv, EntryInv, Staging, Installing, Some
  <1> QED
    BY <1>5, <1>6, <1>7, <1>8, <1>9

\* A step that changes nothing.
LEMMA StutterPreserves == IInv /\ UNCHANGED vars => IInv'
  <1> SUFFICES ASSUME IInv, UNCHANGED vars PROVE IInv'
    OBVIOUS
  <1> USE DEF IInv, vars, fsVars, otherVars, writerVars, copyVars, syncVars, pubVars
  <1>1. TypeOK'
    BY SMTT(30), Z3T(30) DEF TypeOK, FsOK, WriterOK, EntriesOK, OutcomeOK
  <1>2. PublicationIsTruthful' /\ NativeInv'
    BY DEF PublicationIsTruthful, NativeInv
  <1>3. CandidateInv' /\ EntryInv'
    BY DEF CandidateInv, EntryInv
  <1> QED
    BY <1>1, <1>2, <1>3

\* Every step preserves the inductive invariant.
LEMMA NextPreserves == IInv /\ [Next]_vars => IInv'
  <1> SUFFICES ASSUME IInv, [Next]_vars PROVE IInv'
    OBVIOUS
  <1>1. CASE WriterStep
    BY <1>1, WriterPreserves
  <1>2. CASE CommitStep
    BY <1>2, StagingPreserves, InspectPreserves, VerificationPreserves, RollbackReceiptPreserves,
       OutcomePreserves DEF CommitStep
  <1>3. CASE Others
    BY <1>3, OthersPreserve
  <1>4. CASE Finished \/ UNCHANGED vars
    BY <1>4, StutterPreserves DEF Finished
  <1> QED
    BY <1>1, <1>2, <1>3, <1>4 DEF Next

\* The invariant holds in every state of every behaviour.
THEOREM InductiveInvariant == Spec => []IInv
  BY InitIInv, NextPreserves, PTL DEF Spec

\* Every state of the writer and of the commit is well typed: an entry handed to
\* the caller, for one, has a role, a name and the identity of a file.
THEOREM TypeCorrect == Spec => []TypeOK
  <1>1. IInv => TypeOK
    BY DEF IInv
  <1> QED
    BY <1>1, InductiveInvariant, PTL

\* Whatever fails and whatever other processes do, the publication state that a
\* commit reports is what its native calls did to the target.
THEOREM CommitReportsTruthfully == Spec => []PublicationIsTruthful
  <1>1. IInv => PublicationIsTruthful
    BY DEF IInv
  <1> QED
    BY <1>1, InductiveInvariant, PTL

-----------------------------------------------------------------------------
\* Outside the native calls no step of the writer touches the target.
LEMMA QuietSteps ==
    ASSUME IInv, WriterStep \/ CommitStep, pc \notin {"publish", "rollbackExchange"}
    PROVE  dir'["target"] = dir["target"]
  <1> USE DEF fsVars
  <1>1. /\ dir \in [Names -> Files \cup {NoFile}] /\ "target" \in Names
    BY DEF IInv, TypeOK, FsOK, Names
  <1>2. CASE Open \/ Abort \/ Drop
    BY <1>1, <1>2 DEF Open, Abort, Drop, RemoveCandidate, Rebind, Allocate
  <1>3. CASE Commit \/ \E c \in Contents : Write(c)
    BY <1>3 DEF Commit, Write
  <1>4. CASE CreateCopy
    BY <1>1, <1>4 DEF CreateCopy, Allocate
  <1>9. CASE FillCopy \/ VerifyCopy \/ SyncStaged \/ Precheck
    BY <1>9 DEF FillCopy, VerifyCopy, SyncStaged, Precheck
  <1>5. CASE PublishAbsent \/ PublishContent \/ RollbackExchange
    BY <1>5 DEF PublishAbsent, PublishContent, RollbackExchange
  <1>6. CASE Inspect \/ VerifyDisplaced \/ VerifyInstalled \/ RollbackPrecheck \/ RollbackRecheck
             \/ RollbackVerify \/ RollbackReceipt \/ VerifyRollback \/ SyncInstalled
    BY <1>6 DEF Inspect, VerifyDisplaced, VerifyInstalled, RollbackPrecheck, RollbackRecheck,
       RollbackVerify, RollbackReceipt, VerifyRollback, SyncInstalled
  <1>7. CASE CleanupOld \/ CleanupCopy
    <2>1. \A e \in entries : e.name \in Names \ {"target"}
      BY <1>7 DEF CleanupOld, CleanupCopy, Cleanup, IInv, TypeOK, EntriesOK, Entry, EntryInv
    <2>2. UNCHANGED dir \/ \E e \in entries : dir' = [dir EXCEPT ![e.name] = NoFile]
      BY <1>7 DEF CleanupOld, CleanupCopy, Cleanup, Rebind
    <2> QED
      BY <1>1, <2>1, <2>2
  <1>8. CASE SaveComplete \/ CleanupSync \/ Report
    BY <1>8 DEF SaveComplete, CleanupSync, Report
  <1> QED
    BY <1>2, <1>3, <1>4, <1>5, <1>6, <1>7, <1>8, <1>9 DEF WriterStep, CommitStep

\* A native call leaves the target alone or binds it to one complete file.
LEMMA NativeSteps ==
    ASSUME IInv, WriterStep \/ CommitStep, pc \in {"publish", "rollbackExchange"}
    PROVE  TargetStep
  <1> USE ConstantsAssumption
  <1>1. CASE PublishAbsent
    BY <1>1 DEF PublishAbsent, NoReplaceAllows, Rebind, TargetStep, IInv, TypeOK, FsOK, Names,
       CandidateInv, NativeInv, Unpublished, Staging
  <1>2. CASE PublishContent
    BY <1>2 DEF PublishContent, Swap, Rebind, TargetStep, IInv, TypeOK, FsOK, Names,
       CandidateInv, NativeInv, Unpublished, Staging
  <1>3. CASE RollbackExchange
    BY <1>3 DEF RollbackExchange, Swap, Rebind, TargetStep, IInv, TypeOK, FsOK, Names, EntryInv
  <1>4. PublishAbsent \/ PublishContent \/ RollbackExchange
    BY DEF WriterStep, Open, Write, Abort, Drop, Commit, CommitStep, CreateCopy, FillCopy,
       VerifyCopy, SyncStaged, Precheck, Inspect, VerifyDisplaced, VerifyInstalled,
       RollbackPrecheck, RollbackRecheck, RollbackVerify, RollbackReceipt, VerifyRollback,
       SyncInstalled, SaveComplete, CleanupOld, CleanupCopy, Cleanup, CleanupSync, Report
  <1> QED
    BY <1>1, <1>2, <1>3, <1>4

\* A step of another process is counted and leaves the writer's state alone.
LEMMA OthersMove ==
    ASSUME IInv, Others
    PROVE  others' # others /\ UNCHANGED <<opts, native, pc, publication>>
  <1>1. OtherMoves
    BY DEF Others, OtherReplace, OtherOverwrite, OtherDelete, OtherOpen, OtherWriteHandle,
       OtherSweep
  <1>2. others' # others
    BY <1>1, SMTT(30), Z3T(30) DEF OtherMoves, IInv, TypeOK, FsOK
  <1>3. UNCHANGED <<writerVars, pubVars, pc>>
    BY Zenon DEF Others, OtherReplace, OtherOverwrite, OtherDelete, OtherOpen, OtherWriteHandle,
       OtherSweep
  <1> QED
    BY <1>2, <1>3 DEF writerVars, pubVars

\* No step of the writer changes the target but the two native exchanges, and
\* these install the candidate or put the displaced file back.
THEOREM WriterChangesTargetAtomically == Spec => TargetChangesAtomically
  <1>1. IInv /\ [Next]_vars => [TargetStep]_vars
    <2> SUFFICES ASSUME IInv, Next PROVE TargetStep \/ UNCHANGED vars
      OBVIOUS
    <2>1. CASE WriterStep \/ CommitStep
      BY <2>1, QuietSteps, NativeSteps DEF TargetStep
    <2>2. CASE Others
      <3>1. others' # others
        BY <2>2, OthersMove
      <3> QED
        BY <3>1 DEF TargetStep, ProgramStep
    <2>3. CASE Finished
      BY <2>3 DEF Finished
    <2> QED
      BY <2>1, <2>2, <2>3 DEF Next
  <1> QED
    BY <1>1, InductiveInvariant, PTL DEF Spec, TargetChangesAtomically

-----------------------------------------------------------------------------
(***************************************************************************)
(* The writer implements Publication.                                      *)
(***************************************************************************)

\* A writer that takes a step has not told its caller anything yet, and the step
\* changes neither its options nor what other processes have done.
LEMMA RunningWriter ==
    ASSUME WriterStep \/ CommitStep
    PROVE  Verdict = "open" /\ UNCHANGED <<opts, others>>
  <1> USE DEF Verdict, Final, fsVars, otherVars, writerVars
  <1>1. CASE WriterStep
    BY <1>1 DEF WriterStep, Open, Write, Abort, Drop, Commit
  <1>2. CASE CreateCopy \/ FillCopy \/ VerifyCopy \/ SyncStaged \/ Precheck \/ PublishAbsent
             \/ PublishContent
    BY <1>2 DEF CreateCopy, FillCopy, VerifyCopy, SyncStaged, Precheck, PublishAbsent,
       PublishContent
  <1>3. CASE Inspect \/ VerifyDisplaced \/ VerifyInstalled \/ RollbackPrecheck \/ RollbackRecheck
             \/ RollbackVerify \/ RollbackExchange \/ RollbackReceipt \/ VerifyRollback
    BY <1>3 DEF Inspect, VerifyDisplaced, VerifyInstalled, RollbackPrecheck, RollbackRecheck,
       RollbackVerify, RollbackExchange, RollbackReceipt, VerifyRollback
  <1>4. CASE SyncInstalled \/ SaveComplete \/ CleanupOld \/ CleanupCopy \/ CleanupSync \/ Report
    BY <1>4 DEF SyncInstalled, SaveComplete, CleanupOld, CleanupCopy, Cleanup, CleanupSync, Report
  <1> QED
    BY <1>1, <1>2, <1>3, <1>4 DEF CommitStep

\* Outside the native calls the writer keeps the displaced file or gives it up.
LEMMA QuietKeeps ==
    ASSUME IInv, WriterStep \/ CommitStep, pc \notin {"publish", "rollbackExchange"}
    PROVE  native' = native /\ Kept' \in {Kept, NoFile}
  <1> USE DEF fsVars, pubVars
  <1>1. /\ dir \in [Names -> Files \cup {NoFile}] /\ "candidate" \in Names
        /\ opts' = opts
    BY RunningWriter DEF IInv, TypeOK, FsOK, Names
  <1>2. CASE Open \/ Abort \/ Drop
    <2>1. native = "untouched"
      BY <1>2 DEF Open, Abort, Drop, IInv, NativeInv, Unpublished, Staging
    <2> QED
      BY <1>2, <2>1 DEF Open, Abort, Drop, Kept
  <1>3. CASE Commit \/ \E c \in Contents : Write(c)
    BY <1>1, <1>3 DEF Commit, Write, Kept
  <1>4. CASE CreateCopy
    BY <1>1, <1>4 DEF CreateCopy, Allocate, Kept
  <1>5. CASE FillCopy \/ VerifyCopy \/ SyncStaged \/ Precheck
    BY <1>1, <1>5 DEF FillCopy, VerifyCopy, SyncStaged, Precheck, Kept
  <1>6. CASE PublishAbsent \/ PublishContent \/ RollbackExchange
    BY <1>6 DEF PublishAbsent, PublishContent, RollbackExchange
  <1>7. CASE Inspect \/ VerifyDisplaced \/ VerifyInstalled \/ RollbackPrecheck \/ RollbackRecheck
             \/ RollbackVerify \/ RollbackReceipt \/ VerifyRollback \/ SyncInstalled
    BY <1>1, <1>7 DEF Inspect, VerifyDisplaced, VerifyInstalled, RollbackPrecheck,
       RollbackRecheck, RollbackVerify, RollbackReceipt, VerifyRollback, SyncInstalled, Kept
  <1>8. CASE CleanupOld \/ CleanupCopy
    <2>1. \A e \in entries : e.name \in Names
      BY DEF IInv, TypeOK, EntriesOK, Entry
    <2>2. UNCHANGED dir \/ \E e \in entries : dir' = [dir EXCEPT ![e.name] = NoFile]
      BY <1>8 DEF CleanupOld, CleanupCopy, Cleanup, Rebind
    <2>3. native' = native
      BY <1>8 DEF CleanupOld, CleanupCopy, Cleanup
    <2>4. dir'["candidate"] \in {dir["candidate"], NoFile}
      BY <1>1, <2>1, <2>2
    <2> QED
      BY <1>1, <2>3, <2>4 DEF Kept
  <1>9. CASE SaveComplete \/ CleanupSync \/ Report
    BY <1>1, <1>9 DEF SaveComplete, CleanupSync, Report, Kept
  <1> QED
    BY <1>2, <1>3, <1>4, <1>5, <1>6, <1>7, <1>8, <1>9 DEF WriterStep, CommitStep

\* A native call does nothing visible, or installs what is staged, or withdraws it
\* again.
LEMMA NativeEffect ==
    ASSUME IInv, WriterStep \/ CommitStep, pc \in {"publish", "rollbackExchange"}
    PROVE  \/ /\ UNCHANGED dir /\ native' = native
           \/ /\ native = "untouched" /\ native' = "installed"
              /\ dir["candidate"] # NoFile /\ dir'["target"] = dir["candidate"]
              /\ opts.cond = Absent => dir["target"] = NoFile
              /\ opts.cond # Absent => dir'["candidate"] = dir["target"]
           \/ /\ native = "installed" /\ native' = "restored" /\ opts.cond # Absent
              /\ dir["candidate"] # NoFile /\ dir'["target"] = dir["candidate"]
  <1> USE DEF IInv, TypeOK, FsOK, Names
  <1>1. CASE PublishAbsent
    BY <1>1 DEF PublishAbsent, NoReplaceAllows, Rebind, NativeInv, Unpublished, Staging
  <1>2. CASE PublishContent
    BY <1>2 DEF PublishContent, Swap, Rebind, NativeInv, Unpublished, Staging
  <1>3. CASE RollbackExchange
    BY <1>3 DEF RollbackExchange, Swap, Rebind, NativeInv, Installing, EntryInv
  <1>4. PublishAbsent \/ PublishContent \/ RollbackExchange
    BY DEF WriterStep, Open, Write, Abort, Drop, Commit, CommitStep, CreateCopy, FillCopy,
       VerifyCopy, SyncStaged, Precheck, Inspect, VerifyDisplaced, VerifyInstalled,
       RollbackPrecheck, RollbackRecheck, RollbackVerify, RollbackReceipt, VerifyRollback,
       SyncInstalled, SaveComplete, CleanupOld, CleanupCopy, Cleanup, CleanupSync, Report
  <1> QED
    BY <1>1, <1>2, <1>3, <1>4

\* A step of the writer is a step of the publisher.
LEMMA WriterStepRefines ==
    ASSUME IInv, IInv', WriterStep \/ CommitStep
    PROVE  Pub!Step("writer")
  <1>1. Pub!Truthful(Effect', Verdict')
    BY DEF IInv, PublicationIsTruthful, NativeInv, Unpublished, Staging, Installing, Final,
       Pub!Truthful, Effect, Verdict, TypeOK, OutcomeOK, PublicationStates
  <1>2. Verdict = "open" /\ UNCHANGED <<opts, others>>
    BY RunningWriter
  <1>3. \/ /\ dir'["target"] = dir["target"] /\ Effect' = Effect /\ Kept' \in {Kept, NoFile}
        \/ /\ Effect = "none" /\ Effect' = "installed" /\ dir["candidate"] # NoFile
           /\ opts.cond = Absent => dir["target"] = NoFile
           /\ dir'["target"] = dir["candidate"] /\ Kept' \in {dir["target"], NoFile}
        \/ /\ Effect = "installed" /\ Effect' = "withdrawn" /\ Kept # NoFile
           /\ dir'["target"] = Kept /\ Kept' = NoFile
    <2>1. CASE pc \notin {"publish", "rollbackExchange"}
      BY <2>1, QuietSteps, QuietKeeps DEF Effect
    <2>2. CASE pc \in {"publish", "rollbackExchange"}
      BY <1>2, <2>2, NativeEffect DEF Effect, Kept
    <2> QED
      BY <2>1, <2>2
  <1>4. Pub!Prepare("writer") \/ Pub!Install("writer") \/ Pub!Withdraw("writer")
    BY <1>2, <1>3 DEF Pub!Prepare, Pub!Install, Pub!Withdraw
  <1>5. Pub!Tell("writer")
    BY <1>1, <1>2 DEF Pub!Tell
  <1> QED
    BY <1>2, <1>4, <1>5 DEF Pub!Step

\* A step of another process is a step of the publisher's environment.
LEMMA OthersRefine ==
    ASSUME IInv, Others
    PROVE  Pub!Environment
  <1> USE DEF fsVars, writerVars, pubVars
  <1>1. /\ others' # others /\ UNCHANGED <<opts, native, pc, publication>>
    BY OthersMove
  <1>2. dir'["candidate"] \in {dir["candidate"], NoFile}
    BY DEF Others, OtherReplace, OtherOverwrite, OtherDelete, OtherOpen, OtherWriteHandle,
       OtherSweep, Allocate, Rebind, IInv, TypeOK, FsOK, Names
  <1>3. Kept' \in {Kept, NoFile} /\ Effect' = Effect /\ Verdict' = Verdict
    BY <1>1, <1>2 DEF Kept, Effect, Verdict
  <1> QED
    BY <1>1, <1>3 DEF Pub!Environment

\* The digest-conditional writer implements Publication for every set of files,
\* contents and options, whatever fails and whatever other processes do.
THEOREM WriterImplementsPublication == Spec => ImplementsPublication
  <1>1. Init => Pub!Init
    BY DEF Init, Pub!Init, Effect, Verdict, Final, Kept
  <1>2. IInv /\ IInv' /\ [Next]_vars => [Pub!Next]_(Pub!vars)
    <2> SUFFICES ASSUME IInv, IInv', [Next]_vars PROVE Pub!Next \/ UNCHANGED Pub!vars
      OBVIOUS
    <2>1. CASE WriterStep \/ CommitStep
      BY <2>1, WriterStepRefines DEF Pub!Next
    <2>2. CASE Others
      BY <2>2, OthersRefine DEF Pub!Next
    <2>3. CASE Finished \/ UNCHANGED vars
      BY <2>3 DEF Finished, vars, fsVars, otherVars, writerVars, pubVars, Pub!vars, Kept, Effect,
         Verdict
    <2> QED
      BY <2>1, <2>2, <2>3 DEF Next
  <1> QED
    BY <1>1, <1>2, InductiveInvariant, PTL DEF Spec, ImplementsPublication, Pub!Spec

=============================================================================
