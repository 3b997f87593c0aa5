------------------------ MODULE TempResource_proofs -------------------------
(***************************************************************************)
(* What a temporary guard promises, for both kinds of guard, every set of  *)
(* fault points and any number of writes, failures and steps of other      *)
(* processes.                                                              *)
(***************************************************************************)
EXTENDS TempResource, TLAPS

USE ZenonT(30)

Persisting == {"identity", "syncSource", "parent", "install"}
Published  == {"syncTarget", "release"}
Sealing    == {"sealCheck", "sealAccess", "sealReopen"}

\* What is known of the guard at each point of a call.  The state a call saw when it
\* began is still the state: nobody else can change it.  The entry it checked is
\* still at its path unless another process raced with the call.
CallInv ==
    /\ pc \in Persisting => /\ state = "Owned" /\ access = "Writable" /\ owner = "caller"
                            /\ installed = "none"
    /\ pc \in Published => /\ state = "SandboxPending" /\ owner = "caller" /\ installed # "none"
                           /\ installed = "own" \/ raced
    /\ pc = "syncSource" => kind = "file"
    /\ pc \in Sealing => state = "Owned" /\ owner = "caller" /\ handle # "none"
    /\ pc = "sealReopen" => access = "ReadOnly"
    /\ pc \in {"cleanIdentity", "cleanRemove"} => state = "Owned"
    /\ pc = "cleanRelease" => state = "SandboxPending"
    /\ pc \in {"install", "cleanIdentity", "cleanRemove", "cleanRelease"} \cup Published
         => handle = "none"
    /\ pc \in {"syncSource", "parent", "install", "cleanRemove"} => src = "own" \/ raced

\* A guard that left its sandbox behind is gone; one that installed its entry no
\* longer owns it.
FinishedInv ==
    pc # "crashed" =>
        /\ state = "Released" /\ sandbox => owner = "dropped" /\ pc = "idle"
        /\ report.call = "persist" /\ report.ok => owner = "dropped" /\ pc = "idle"
        /\ installed # "none" => state # "Owned"

\* When the bytes and the names reached the disk.
DurableInv ==
    /\ pc \in Persisting \cup Published /\ kind = "directory" => ~durable
    /\ pc \in {"parent", "install"} \cup Published /\ (durable \/ requirement = "Required")
         => content = pcontent
    /\ pc \in Published /\ durable /\ ~touched /\ ~raced => tgt = "own"
    /\ pc = "release" /\ durable /\ ~touched /\ ~raced => ptgt = "own"
    /\ pc # "crashed" /\ installed = "own" /\ requirement = "Required" => content = pcontent
    /\ pc # "crashed" /\ report.call = "persist" /\ report.ok /\ report.durable =>
         /\ content = pcontent
         /\ ~touched /\ ~raced => tgt = "own" /\ ptgt = "own"

IInv ==
    /\ kind \in {"file", "directory"} /\ others \in Nat
    /\ CallInv /\ FinishedInv /\ DurableInv
    /\ SourceStateTruthful /\ PersistReportTruthful /\ CrashKeepsPersist

-----------------------------------------------------------------------------
\* A guard just created satisfies the invariant.
LEMMA InitIInv == Init => IInv
  BY ConstantsAssumption, SMTT(30), Z3T(30) DEF Init, IInv, Persisting, Published, Sealing,
     CallInv, FinishedInv, DurableInv, SourceStateTruthful, PersistReportTruthful,
     CrashKeepsPersist

\* Writing through the guard and giving its handle away.
LEMMA WritingPreserves ==
    ASSUME IInv, Write \/ SwapHandle \/ CloseHandle
    PROVE  IInv'
  <1> USE DEF IInv, Persisting, Published, Sealing, CallInv, FinishedInv, DurableInv,
     SourceStateTruthful, PersistReportTruthful, CrashKeepsPersist, durableVars, callVars,
     guardVars, fsVars, ghostVars
  <1>1. CASE Write
    BY <1>1 DEF Write, EnsureWritable, EnsurePublishable
  <1>2. CASE SwapHandle
    BY <1>2 DEF SwapHandle, EnsureWritable, EnsurePublishable
  <1>3. CASE CloseHandle
    BY <1>3 DEF CloseHandle, Close
  <1> QED
    BY <1>1, <1>2, <1>3

\* The steps of persist up to the rename.
LEMMA PersistPreserves ==
    ASSUME IInv, Persist \/ PersistIdentity \/ PersistSyncSource \/ PersistParent
    PROVE  IInv'
  <1> USE DEF IInv, Persisting, Published, Sealing, CallInv, FinishedInv, DurableInv,
     SourceStateTruthful, PersistReportTruthful, CrashKeepsPersist, durableVars, callVars,
     guardVars, fsVars, ghostVars
  <1>1. CASE Persist
    BY <1>1, SMTT(30), Z3T(30) DEF Persist, PersistFails, Return, Fault, NoFault, EnsureWritable,
       EnsurePublishable
  <1>2. CASE PersistIdentity
    <2> USE <1>2 DEF PersistIdentity, PersistFails, Return, Fault, NoFault, IdentityLost,
       IdentityMatches, Close
    <2>1. CallInv'
      OBVIOUS
    <2>2. FinishedInv'
      BY SMTT(30), Z3T(30)
    <2>3. DurableInv'
      BY SMTT(30), Z3T(30)
    <2>4. SourceStateTruthful'
      OBVIOUS
    <2>5. PersistReportTruthful' /\ CrashKeepsPersist'
      BY SMTT(30), Z3T(30)
    <2> QED
      BY <2>1, <2>2, <2>3, <2>4, <2>5
  <1>3. CASE PersistSyncSource
    <2> USE <1>3 DEF PersistSyncSource, PersistFails, Return, Fault, NoFault, RightFile,
       SyncedObject
    <2>1. CallInv'
      OBVIOUS
    <2>2. FinishedInv'
      BY SMTT(30), Z3T(30)
    <2>3. DurableInv'
      BY SMTT(30), Z3T(30)
    <2>4. SourceStateTruthful'
      OBVIOUS
    <2>5. PersistReportTruthful' /\ CrashKeepsPersist'
      BY SMTT(30), Z3T(30)
    <2> QED
      BY <2>1, <2>2, <2>3, <2>4, <2>5
  <1>4. CASE PersistParent
    BY <1>4, SMTT(30), Z3T(30) DEF PersistParent, PersistFails, Return, Fault, NoFault, Close
  <1> QED
    BY <1>1, <1>2, <1>3, <1>4

\* The rename and what follows it.
LEMMA InstallPreserves ==
    ASSUME IInv, PersistInstall \/ PersistSyncTarget \/ PersistRelease
    PROVE  IInv'
  <1> USE DEF IInv, Persisting, Published, Sealing, CallInv, FinishedInv, DurableInv,
     SourceStateTruthful, PersistReportTruthful, CrashKeepsPersist, durableVars, callVars,
     guardVars, fsVars, ghostVars
  <1>1. CASE PersistInstall
    <2> USE <1>1 DEF PersistInstall, PersistFails, Return, Fault, NoFault, InstallDone,
       InstallRefused, InstallUnknown, Rename, IdentityMatches, IdentityLost
    <2>1. CallInv'
      OBVIOUS
    <2>2. FinishedInv'
      BY SMTT(30), Z3T(30)
    <2>3. DurableInv'
      BY SMTT(30), Z3T(30)
    <2>4. SourceStateTruthful'
      OBVIOUS
    <2>5. PersistReportTruthful' /\ CrashKeepsPersist'
      BY SMTT(30), Z3T(30)
    <2> QED
      BY <2>1, <2>2, <2>3, <2>4, <2>5
  <1>2. CASE PersistSyncTarget
    <2> USE <1>2 DEF PersistSyncTarget, PersistFails, Return, Fault, NoFault, SyncParents
    <2>1. CallInv'
      OBVIOUS
    <2>2. FinishedInv'
      BY SMTT(30), Z3T(30)
    <2>3. DurableInv'
      BY SMTT(30), Z3T(30)
    <2>4. SourceStateTruthful'
      OBVIOUS
    <2>5. PersistReportTruthful' /\ CrashKeepsPersist'
      BY SMTT(30), Z3T(30)
    <2> QED
      BY <2>1, <2>2, <2>3, <2>4, <2>5
  <1>3. CASE PersistRelease
    <2> USE <1>3 DEF PersistRelease, Return, Fault, NoFault, SandboxRemoved, SandboxKept
    <2>1. CallInv'
      OBVIOUS
    <2>2. FinishedInv'
      OBVIOUS
    <2>3. DurableInv'
      BY SMTT(30), Z3T(30)
    <2>4. SourceStateTruthful'
      BY SMTT(30), Z3T(30)
    <2>5. PersistReportTruthful' /\ CrashKeepsPersist'
      BY SMTT(30), Z3T(30)
    <2> QED
      BY <2>1, <2>2, <2>3, <2>4, <2>5
  <1> QED
    BY <1>1, <1>2, <1>3

\* cleanup and Drop.
LEMMA CleanupPreserves ==
    ASSUME IInv, Cleanup \/ Drop \/ CleanStart \/ CleanIdentity \/ CleanRemove \/ CleanRelease
    PROVE  IInv'
  <1> USE DEF IInv, Persisting, Published, Sealing, CallInv, FinishedInv, DurableInv,
     SourceStateTruthful, PersistReportTruthful, CrashKeepsPersist, durableVars, callVars,
     guardVars, fsVars, ghostVars
  <1>1. CASE Cleanup
    BY <1>1 DEF Cleanup
  <1>2. CASE Drop
    BY <1>2 DEF Drop
  <1>3. CASE CleanStart
    BY <1>3, SMTT(30), Z3T(30) DEF CleanStart, Cleaned, Return, Fault, NoFault, Close
  <1>4. CASE CleanIdentity
    BY <1>4, SMTT(30), Z3T(30) DEF CleanIdentity, Cleaned, Return, Fault, NoFault, IdentityLost,
       IdentityMatches
  <1>5. CASE CleanRemove
    BY <1>5, SMTT(30), Z3T(30) DEF CleanRemove, Cleaned, Return, Fault, NoFault, RemoveChild,
       RemoveEntry, RemoveFails
  <1>6. CASE CleanRelease
    BY <1>6, SMTT(30), Z3T(30) DEF CleanRelease, Cleaned, Return, Fault, NoFault, SandboxRemoved,
       SandboxKept
  <1> QED
    BY <1>1, <1>2, <1>3, <1>4, <1>5, <1>6

\* Sealing, and taking the guard back from a failed seal.
LEMMA SealPreserves ==
    ASSUME IInv, Seal \/ SealCheck \/ SealAccess \/ SealReopen \/ IntoResource
    PROVE  IInv'
  <1> USE DEF IInv, Persisting, Published, Sealing, CallInv, FinishedInv, DurableInv,
     SourceStateTruthful, PersistReportTruthful, CrashKeepsPersist, durableVars, callVars,
     guardVars, fsVars, ghostVars
  <1>1. CASE Seal
    BY <1>1, SMTT(30), Z3T(30) DEF Seal, Sealed, Return, Fault, NoFault
  <1>2. CASE SealCheck
    BY <1>2, SMTT(30), Z3T(30) DEF SealCheck, Sealed, Return, Fault, NoFault
  <1>3. CASE SealAccess
    BY <1>3, SMTT(30), Z3T(30) DEF SealAccess, Sealed, Return, Fault, NoFault
  <1>4. CASE SealReopen
    BY <1>4, SMTT(30), Z3T(30) DEF SealReopen, Sealed, Return, Fault, NoFault
  <1>5. CASE IntoResource
    BY <1>5 DEF IntoResource
  <1> QED
    BY <1>1, <1>2, <1>3, <1>4, <1>5

\* Other processes, and the machine.
LEMMA OthersPreserve ==
    ASSUME IInv, OtherReplaceSource \/ OtherChangeTarget \/ OtherChangeSandbox \/ Crash
    PROVE  IInv'
  <1> USE DEF IInv, Persisting, Published, Sealing, CallInv, FinishedInv, DurableInv,
     SourceStateTruthful, PersistReportTruthful, CrashKeepsPersist, durableVars, callVars,
     guardVars, fsVars, ghostVars
  <1>1. CASE OtherReplaceSource
    <2> USE <1>1 DEF OtherReplaceSource, OtherMoves
    <2>1. CallInv'
      OBVIOUS
    <2>2. FinishedInv'
      OBVIOUS
    <2>3. DurableInv'
      OBVIOUS
    <2>4. SourceStateTruthful'
      BY SMTT(30), Z3T(30)
    <2>5. PersistReportTruthful' /\ CrashKeepsPersist'
      OBVIOUS
    <2> QED
      BY <2>1, <2>2, <2>3, <2>4, <2>5, SMTT(30), Z3T(30)
  <1>2. CASE OtherChangeTarget
    BY <1>2, SMTT(30), Z3T(30) DEF OtherChangeTarget, OtherMoves
  <1>3. CASE OtherChangeSandbox
    BY <1>3, SMTT(30), Z3T(30) DEF OtherChangeSandbox, OtherMoves
  <1>4. CASE Crash
    BY <1>4 DEF Crash
  <1> QED
    BY <1>1, <1>2, <1>3, <1>4

\* Every step preserves the invariant.
LEMMA NextPreserves == IInv /\ [Next]_vars => IInv'
  <1> SUFFICES ASSUME IInv, [Next]_vars PROVE IInv'
    OBVIOUS
  <1>1. CASE GuardStep
    BY <1>1, WritingPreserves, PersistPreserves, InstallPreserves, CleanupPreserves,
       SealPreserves DEF GuardStep
  <1>2. CASE Others \/ Crash
    BY <1>2, OthersPreserve DEF Others
  <1>3. CASE UNCHANGED vars
    BY <1>3, SMTT(30), Z3T(30) DEF vars, IInv, CallInv, FinishedInv, DurableInv,
       SourceStateTruthful, PersistReportTruthful, CrashKeepsPersist, durableVars, callVars,
       guardVars, fsVars, ghostVars
  <1> QED
    BY <1>1, <1>2, <1>3 DEF Next

-----------------------------------------------------------------------------
(* The theorems. *)

\* The invariant holds in every state of a guard's life.
THEOREM GuardInvariant == Spec => []IInv
  BY InitIInv, NextPreserves, PTL DEF Spec

\* source_state() never misleads its caller, whatever calls came before, whatever failed
\* in them and whatever other processes did to the sandbox and the target.
THEOREM SourceStateIsTruthful == Spec => []SourceStateTruthful
  <1>1. IInv => SourceStateTruthful
    BY DEF IInv
  <1> QED
    BY <1>1, GuardInvariant, PTL

\* LocalPersistError::state() and a successful outcome say what persist did to the target,
\* also when the rename failed half-way or the guard is used again after a failure.
THEOREM PersistReportsTruthfully == Spec => []PersistReportTruthful
  <1>1. IInv => PersistReportTruthful
    BY DEF IInv
  <1> QED
    BY <1>1, GuardInvariant, PTL

\* Whenever the machine stops, a persist that reported a durable publication is found again
\* with all its bytes, and one with required durability never leaves a truncated file.
THEOREM PersistSurvivesCrash == Spec => []CrashKeepsPersist
  <1>1. IInv => CrashKeepsPersist
    BY DEF IInv
  <1> QED
    BY <1>1, GuardInvariant, PTL

\* Every step of the guard keeps to what the guard may do in the state it is in.
LEMMA StepKeepsToAuthority == IInv => RemovalStep /\ IndeterminateStep /\ SealStep
  <1> SUFFICES ASSUME IInv, GuardStep PROVE RemovalStep /\ IndeterminateStep /\ SealStep
    BY DEF RemovalStep, IndeterminateStep, SealStep
  <1> USE DEF IInv, CallInv, RemovalStep, IndeterminateStep, SealStep, Persisting, Published,
     fsVars, guardVars
  <1>1. CASE Write \/ SwapHandle \/ CloseHandle \/ IntoResource \/ Cleanup \/ Drop \/ CleanStart
    BY <1>1 DEF Write, SwapHandle, CloseHandle, IntoResource, Cleanup, Drop, CleanStart,
       EnsureWritable, EnsurePublishable
  <1>2. CASE Persist \/ PersistIdentity \/ PersistSyncSource \/ PersistParent
    BY <1>2 DEF Persist, PersistIdentity, PersistSyncSource, PersistParent
  <1>3. CASE PersistInstall
    BY <1>3 DEF PersistInstall, InstallDone, InstallRefused, InstallUnknown, Rename
  <1>4. CASE PersistSyncTarget \/ PersistRelease
    BY <1>4 DEF PersistSyncTarget, PersistRelease
  <1>5. CASE CleanIdentity \/ CleanRelease
    BY <1>5 DEF CleanIdentity, CleanRelease
  <1>6. CASE CleanRemove
    BY <1>6 DEF CleanRemove, RemoveChild, RemoveEntry, RemoveFails
  <1>7. CASE Seal \/ SealCheck \/ SealAccess \/ SealReopen
    BY <1>7 DEF Seal, SealCheck, SealAccess, SealReopen
  <1> QED
    BY <1>1, <1>2, <1>3, <1>4, <1>5, <1>6, <1>7 DEF GuardStep

\* No call, in whatever order the calls come, removes or publishes what the guard has no
\* authority over; an Indeterminate guard never regains it, and sealed bytes are final.
THEOREM GuardNeverExceedsItsAuthority == Spec => GuardKeepsToItsAuthority
  BY StepKeepsToAuthority, GuardInvariant, PTL DEF GuardKeepsToItsAuthority

=============================================================================
