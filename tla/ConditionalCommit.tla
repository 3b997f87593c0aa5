-------------------------- MODULE ConditionalCommit --------------------------
(***************************************************************************)
(* The digest-conditional writer: LocalConditionalWriter (open, write,     *)
(* abort, drop, commit) over the Unix backend, and the commit protocol of  *)
(* commit_conditional_with_directory, while other processes replace,       *)
(* overwrite or delete the target and any native call may fail.            *)
(*                                                                         *)
(* One directory holds three names: the target and the two private names   *)
(* of the attempt.  A file is an identity (device and inode); an identity  *)
(* whose last name is gone may be reused unless a descriptor is open on it.*)
(* A content stands for its digest: digests are taken to be injective.     *)
(***************************************************************************)
EXTENDS Naturals, FiniteSets

CONSTANTS
    Files,          \* file identities
    Contents,       \* complete file contents
    Options,        \* what a caller may pass, and the environment of the attempt: in a rough
                    \* one other processes also hold the target open and delete private names
    FaultPoints,    \* for each environment the native calls and test checkpoints that may fail
    MaxOthers,      \* bound on the steps of the other processes
    NoFile, Absent,
    Empty,          \* the content of a new file
    Partial         \* bytes that are no complete content

Requirements == {"Required", "Preferred", "NotRequired"}

\* The LocalWritePrecondition (the digest of a content, or Absent), the two
\* requirements and the metadata policy of LocalWriteOptions, and what the other
\* processes may do: in a "rough" environment they also hold descriptors and
\* delete private files, and a lookup that finds a leftover to report may fail.
OptionRecord ==
    [cond : Contents \cup {Absent}, durability : Requirements, fileSync : Requirements,
     preserve : BOOLEAN, env : {"gentle", "rough"}]

\* The lookups without which a leftover of the attempt is not found.
LeftoverLookups == {"openGuard", "copyGuard", "inspect", "verifyKept", "report"}

ASSUME ConstantsAssumption ==
    /\ NoFile \notin Files
    /\ Empty \in Contents
    /\ Absent \notin Contents /\ Partial \notin Contents /\ Absent # Partial
    /\ Options \subseteq OptionRecord
    /\ MaxOthers \in Nat

ASSUME GentleAssumption == FaultPoints["gentle"] \cap LeftoverLookups = {}

VARIABLES
    dir,          \* the file each name is bound to
    content,      \* the content of each file
    pdirs,        \* the directory states a crash may leave behind
    synced,       \* files whose bytes and metadata, as their maker left them, are on disk
    pc,           \* where the writer is
    opts,         \* precondition and options of the writer
    broken,       \* write_failed \/ abort_failed
    cand,         \* identity of the staged candidate, held open
    copyId,       \* candidate_copy_identity
    candDigest,   \* digest of the candidate
    registered,   \* backend.recovery_entries
    entries,      \* entries; in the final states, the files handed to the caller
    publication,  \* LocalConditionalPublicationState
    conflict,     \* post_publication_conflict
    attemptErr,   \* the native call reported an error
    installed, displaced, oldDigest,
    durable, fileSynced, cleanupErr,
    failure,      \* stage and error kind of a failed commit
    native,       \* what the exchanges really did to the target
    others, handle

fsVars == <<dir, content, pdirs, synced>>
otherVars == <<others, handle>>
writerVars == <<opts, broken, cand>>
copyVars == <<copyId, candDigest, registered>>
syncVars == <<durable, fileSynced, cleanupErr>>
pubVars == <<publication, conflict, attemptErr, installed, displaced, oldDigest, native>>
vars == <<fsVars, otherVars, writerVars, copyVars, syncVars, pubVars, pc, entries, failure>>

-----------------------------------------------------------------------------
Names == {"target", "candidate", "copy"}
Roles == {"CandidateCopy", "StagedCandidate", "Displaced", "RollbackDisplaced"}
PublicationStates == {"NotPublished", "Published", "Restored", "Indeterminate"}
Stages == {"Prepare", "VerifyCandidate", "PrepareCandidateCopy", "VerifyCandidateCopy",
           "Sync", "Precheck", "Publish", "VerifyDisplaced", "VerifyInstalled",
           "RollbackPrecheck", "Rollback", "VerifyRollback"}
ErrorKinds == {"AlreadyExists", "NotFound", "InvalidData", "Other"}
Digests == Contents \cup {Partial, Absent}
Entry == [role : Roles, name : Names, id : Files]
NoEntry == [role |-> "None", name |-> "None", id |-> NoFile]

\* Namespace::entry: the identity a name has now, recorded under a role.
EntryAt(role, n) == [role |-> role, name |-> n, id |-> dir[n]]

\* EntryAccess::open_reader and Namespace::verify: the name still has the
\* recorded identity.
Verified(e) == dir[e.name] = e.id

\* digest_entry of a verified entry.
Digest(e) == content[e.id]

WithRole(e, role) == [e EXCEPT !.role = role]

Some(e) == IF e = NoEntry THEN {} ELSE {e}

\* The digest of a file equals the caller's Content precondition.
MatchesAnything(e) == TRUE
MatchesPrecondition(e) == Digest(e) = opts.cond

\* The call named p may fail by itself.
Faulty(p) == p \in FaultPoints[opts.env]

\* A file identity the kernel may hand out for a new file.
Free(f) == /\ \A n \in Names : dir[n] # f
           /\ f # cand /\ f # handle

Rebind(d) == dir' = d /\ pdirs' = pdirs \cup {d}

\* A new file: its identity is reused only once the disk has forgotten its last use.
Allocate(n, f) ==
    /\ dir' = [dir EXCEPT ![n] = f]
    /\ pdirs' = {d \in pdirs : \A m \in Names : d[m] # f} \cup {dir'}
Swap(a, b) == [dir EXCEPT ![a] = dir[b], ![b] = dir[a]]

\* sync_requirement of the commit.
SyncRequirement ==
    IF "Required" \in {opts.durability, opts.fileSync} THEN "Required"
    ELSE IF "Preferred" \in {opts.durability, opts.fileSync} THEN "Preferred"
    ELSE "NotRequired"

\* Leaving the commit closure with an error: the stage, the error kind, the
\* entries pushed before returning and the publication state at that point.
Fail(stage, kind, pushed, state) ==
    /\ pc' = "report"
    /\ failure' = [stage |-> stage, kind |-> kind]
    /\ entries' = entries \cup pushed
    /\ publication' = state

-----------------------------------------------------------------------------
(***************************************************************************)
(* The writer before commit.                                               *)
(***************************************************************************)

Init ==
    /\ \E f \in Files, c \in Contents, present \in BOOLEAN :
          /\ dir = [n \in Names |-> IF n = "target" /\ present THEN f ELSE NoFile]
          /\ content = [g \in Files |-> IF g = f /\ present THEN c ELSE Partial]
          /\ synced = IF present THEN {f} ELSE {}
    /\ pdirs = {dir}
    /\ opts \in Options
    /\ pc = "closed" /\ broken = FALSE
    /\ cand = NoFile /\ copyId = NoFile /\ candDigest = Partial
    /\ registered = {} /\ entries = {}
    /\ publication = "NotPublished" /\ conflict = FALSE /\ attemptErr = FALSE
    /\ installed = NoEntry /\ displaced = NoEntry /\ oldDigest = Partial
    /\ durable = (opts.durability # "NotRequired") /\ fileSynced = FALSE /\ cleanupErr = FALSE
    /\ failure = [stage |-> "Prepare", kind |-> "Other"]
    /\ native = "untouched" /\ others = 0 /\ handle = NoFile

\* UnixConditionalBackend::open: create the candidate, record its identity.  A
\* failure after the creation removes the file again, which may fail too and
\* leave it behind.
Open ==
    /\ pc = "closed"
    /\ \/ \E f \in Files :
             /\ Free(f)
             /\ \/ /\ Allocate("candidate", f)
                   /\ cand' = f /\ pc' = "open"
                \/ /\ Faulty("openGuard")
                   /\ Allocate("candidate", f)
                   /\ cand' = cand /\ pc' = "refused"
             /\ content' = [content EXCEPT ![f] = Empty]
             /\ synced' = synced \ {f}
       \/ Faulty("open") /\ pc' = "refused" /\ UNCHANGED <<fsVars, cand>>
    /\ UNCHANGED <<otherVars, opts, broken, copyVars, syncVars, pubVars, entries, failure>>

\* Output::write and flush.  A retryable error changes nothing; any other one
\* makes the stream unusable and may leave part of the bytes.
Write(c) ==
    /\ pc = "open" /\ ~broken
    /\ \/ content' = [content EXCEPT ![cand] = c] /\ broken' = FALSE
       \/ /\ Faulty("write")
          /\ content' = [content EXCEPT ![cand] = Partial] /\ broken' = TRUE
    /\ synced' = synced \ {cand}
    /\ UNCHANGED <<dir, pdirs, otherVars, opts, cand, copyVars, syncVars, pubVars, pc, entries, failure>>

\* UnixConditionalBackend::abort while the guard is armed: the candidate is
\* removed only under its own identity.
RemoveCandidate == dir["candidate"] = cand /\ Rebind([dir EXCEPT !["candidate"] = NoFile])

\* LocalConditionalWriter::abort.
Abort ==
    /\ pc = "open"
    /\ \/ RemoveCandidate /\ pc' = "aborted" /\ UNCHANGED broken
       \/ /\ dir["candidate"] # cand \/ Faulty("abort")
          /\ broken' = TRUE /\ UNCHANGED <<dir, pdirs, pc>>
    /\ UNCHANGED <<content, synced, otherVars, opts, cand, copyVars, syncVars, pubVars, entries, failure>>

\* Drop of an open writer, and commit of a broken one (which fails with
\* InvalidState and drops the writer): one best-effort abort.
Drop ==
    /\ pc = "open"
    /\ \/ RemoveCandidate
       \/ (dir["candidate"] # cand \/ Faulty("abort")) /\ UNCHANGED <<dir, pdirs>>
    /\ \/ pc' = "dropped"
       \/ broken /\ pc' = "invalid"
    /\ UNCHANGED <<content, synced, otherVars, writerVars, copyVars, syncVars, pubVars, entries, failure>>

\* LocalConditionalWriter::commit of a usable writer: flush and digest B.
Commit ==
    /\ pc = "open" /\ ~broken
    /\ \/ /\ dir["candidate"] = cand
          /\ candDigest' = content[cand] /\ pc' = "copy"
          /\ UNCHANGED <<failure, entries, publication>>
       \/ /\ Faulty("flush") /\ Fail("Prepare", "Other", {}, publication)
          /\ UNCHANGED candDigest
       \/ /\ dir["candidate"] # cand \/ Faulty("digestCandidate")
          /\ Fail("VerifyCandidate", "Other", {}, publication)
          /\ UNCHANGED candDigest
    /\ UNCHANGED <<fsVars, otherVars, writerVars, copyId, registered, syncVars,
                   conflict, attemptErr, installed, displaced, oldDigest, native>>

-----------------------------------------------------------------------------
(***************************************************************************)
(* Preparing the independent copy of B and synchronizing before publishing.*)
(***************************************************************************)

\* The registration of a new private file.
NewEntry(n, f) == [role |-> "StagedCandidate", name |-> n, id |-> f]

\* The copy under the role prepare_copy gives it.
CopyEntry(role) == [role |-> role, name |-> "copy", id |-> copyId]

\* What is synchronized before the precheck; the variant forgets the copy.
StagedFilesButCopy == {cand}
StagedFiles == {cand, copyId}

\* create_candidate_copy up to the registration of the new file: a failure
\* before it removes the file again or leaves it behind.
CreateCopy ==
    /\ pc = "copy"
    /\ \/ \E f \in Files :
             /\ Free(f)
             /\ Allocate("copy", f)
             /\ content' = [content EXCEPT ![f] = Empty]
             /\ synced' = synced \ {f}
             /\ \/ /\ copyId' = f /\ pc' = "fill"
                   /\ registered' = {NewEntry("copy", f)}
                   /\ UNCHANGED <<failure, entries, publication>>
                \/ /\ Faulty("copyGuard")
                   /\ Fail("PrepareCandidateCopy", "Other", {}, publication)
                   /\ UNCHANGED <<copyId, registered>>
       \/ /\ Faulty("createCopy")
          /\ Fail("PrepareCandidateCopy", "Other", {}, publication)
          /\ UNCHANGED <<fsVars, copyId, registered>>
    /\ UNCHANGED <<otherVars, writerVars, candDigest, syncVars,
                   conflict, attemptErr, installed, displaced, oldDigest, native>>

\* The rest of create_candidate_copy: the bytes behind the candidate's name go
\* through the copy's descriptor.  The registration is dropped on success only.
FillCopy ==
    /\ pc = "fill"
    /\ \/ /\ dir["candidate"] # NoFile
          /\ content' = [content EXCEPT ![copyId] = content[dir["candidate"]]]
          /\ registered' = {} /\ pc' = "verifyCopy"
          /\ UNCHANGED <<failure, entries, publication>>
       \/ /\ dir["candidate"] = NoFile \/ Faulty("fillCopy")
          /\ content' = [content EXCEPT ![copyId] = Partial]
          /\ Fail("PrepareCandidateCopy", "Other", {}, publication)
          /\ UNCHANGED registered
    /\ UNCHANGED <<dir, pdirs, synced, otherVars, writerVars, copyId, candDigest, syncVars,
                   conflict, attemptErr, installed, displaced, oldDigest, native>>

\* The end of prepare_copy: the copy gets its role only when its digest is B's.
VerifyCopy ==
    /\ pc = "verifyCopy"
    /\ LET copy == CopyEntry("StagedCandidate") IN
       \/ /\ Verified(copy) /\ Digest(copy) = candDigest
          /\ entries' = entries \cup {CopyEntry("CandidateCopy")} /\ pc' = "sync"
          /\ UNCHANGED <<failure, publication>>
       \/ /\ Verified(copy) /\ Digest(copy) # candDigest
          /\ Fail("VerifyCandidateCopy", "InvalidData", {copy}, publication)
       \/ /\ ~Verified(copy) \/ Faulty("digestCopy")
          /\ Fail("VerifyCandidateCopy", "Other", {copy}, publication)
    /\ UNCHANGED <<fsVars, otherVars, writerVars, copyVars, syncVars,
                   conflict, attemptErr, installed, displaced, oldDigest, native>>

\* Synchronization before the precheck: candidate and copy, then the directory.
SyncStaged ==
    /\ pc = "sync"
    /\ IF SyncRequirement = "NotRequired"
       THEN pc' = "precheck" /\ UNCHANGED <<failure, entries, publication, durable, pdirs, synced>>
       ELSE \E fileOk, nsOk \in BOOLEAN :
              /\ fileOk => Verified(CopyEntry("CandidateCopy"))
              /\ ~fileOk => (~Verified(CopyEntry("CandidateCopy")) \/ Faulty("syncFile"))
              /\ ~nsOk => (Faulty("syncNamespace") /\ opts.durability # "NotRequired")
              /\ synced' = IF fileOk THEN synced \cup StagedFiles ELSE synced
              /\ IF ~fileOk /\ SyncRequirement = "Required"
                 THEN Fail("Sync", "Other", {}, publication) /\ UNCHANGED <<durable, pdirs>>
                 ELSE IF ~nsOk /\ opts.durability = "Required"
                 THEN Fail("Sync", "Other", {}, publication) /\ UNCHANGED <<durable, pdirs>>
                 ELSE /\ durable' = (durable /\ nsOk /\ (fileOk \/ opts.durability # "Preferred"))
                      /\ pdirs' = IF nsOk /\ opts.durability # "NotRequired" THEN {dir} ELSE pdirs
                      /\ pc' = "precheck" /\ UNCHANGED <<failure, entries, publication>>
    /\ UNCHANGED <<dir, content, otherVars, writerVars, copyVars, fileSynced, cleanupErr,
                   conflict, attemptErr, installed, displaced, oldDigest, native>>

-----------------------------------------------------------------------------
(***************************************************************************)
(* Precheck, native publication and its inspection.                        *)
(***************************************************************************)

\* The precheck, the metadata policy and the last look at the candidate.  The
\* target may change as soon as this step is over.
Precheck ==
    /\ pc = "precheck"
    /\ LET here == dir["target"] # NoFile
           preserve == opts.cond # Absent /\ opts.preserve
           holds == IF opts.cond = Absent THEN ~here ELSE here /\ MatchesPrecondition(EntryAt("Displaced", "target"))
       IN
       \/ /\ opts.cond = Absent /\ here
          /\ Fail("Precheck", "AlreadyExists", {}, publication) /\ UNCHANGED <<synced, durable>>
       \/ /\ opts.cond # Absent /\ ~here
          /\ Fail("Precheck", "NotFound", {}, publication) /\ UNCHANGED <<synced, durable>>
       \/ /\ opts.cond # Absent /\ here /\ ~holds
          /\ Fail("Precheck", "InvalidData", {}, publication) /\ UNCHANGED <<synced, durable>>
       \/ /\ dir["candidate"] # cand \/ Faulty("precheck")
          /\ Fail("Precheck", "Other", {}, publication) /\ UNCHANGED <<synced, durable>>
       \/ \E ok \in BOOLEAN :
             /\ holds /\ dir["candidate"] = cand
             /\ ~ok => preserve /\ SyncRequirement # "NotRequired" /\ Faulty("resync")
             /\ synced' = IF preserve /\ (~ok \/ SyncRequirement = "NotRequired")
                          THEN synced \ {cand} ELSE synced \cup (IF preserve THEN {cand} ELSE {})
             /\ IF ~ok /\ SyncRequirement = "Required"
                THEN Fail("Precheck", "Other", {}, publication) /\ UNCHANGED durable
                ELSE /\ durable' = (durable /\ (ok \/ opts.durability # "Preferred"))
                     /\ pc' = "publish" /\ UNCHANGED <<failure, entries, publication>>
    /\ UNCHANGED <<dir, content, pdirs, otherVars, writerVars, copyVars, fileSynced, cleanupErr,
                   conflict, attemptErr, installed, displaced, oldDigest, native>>

\* RENAME_NOREPLACE; the variant is a plain rename.
RenameReplaces  == TRUE
NoReplaceAllows == dir["target"] = NoFile

\* publish_absent: the kernel refuses an existing target.  Without a native
\* no-replace rename the file is linked and its staging name unlinked, and a
\* persistent unlink failure leaves both names.
PublishAbsent ==
    /\ pc = "publish" /\ opts.cond = Absent
    /\ \/ /\ NoReplaceAllows /\ dir["candidate"] # NoFile
          /\ \/ /\ Rebind([dir EXCEPT !["target"] = dir["candidate"], !["candidate"] = NoFile])
                /\ attemptErr' = FALSE
             \/ /\ Faulty("unlink")
                /\ Rebind([dir EXCEPT !["target"] = dir["candidate"]])
                /\ attemptErr' = TRUE
          /\ native' = "installed" /\ pc' = "inspect"
          /\ UNCHANGED <<failure, entries, publication>>
       \/ /\ ~NoReplaceAllows
          /\ Fail("Publish", "AlreadyExists", {}, "NotPublished")
          /\ UNCHANGED <<dir, pdirs, attemptErr, native>>
       \/ /\ dir["candidate"] = NoFile \/ Faulty("publish")
          /\ Fail("Publish", "Other", {}, "NotPublished")
          /\ UNCHANGED <<dir, pdirs, attemptErr, native>>
    /\ UNCHANGED <<content, synced, otherVars, writerVars, copyVars, syncVars,
                   conflict, installed, displaced, oldDigest>>

\* publish_content: one native exchange of the two names.  Only EIO leaves
\* open whether the exchange happened.
PublishContent ==
    /\ pc = "publish" /\ opts.cond # Absent
    /\ LET both == dir["target"] # NoFile /\ dir["candidate"] # NoFile IN
       \/ /\ both
          /\ Rebind(Swap("target", "candidate")) /\ native' = "installed"
          /\ \/ attemptErr' = FALSE
             \/ Faulty("publishEio") /\ attemptErr' = TRUE
          /\ pc' = "inspect" /\ UNCHANGED <<failure, entries, publication>>
       \/ /\ Faulty("publishEio")
          /\ attemptErr' = TRUE /\ pc' = "inspect"
          /\ UNCHANGED <<dir, pdirs, native, failure, entries, publication>>
       \/ /\ ~both \/ Faulty("publish")
          /\ Fail("Publish", IF both THEN "Other" ELSE "NotFound", {}, "NotPublished")
          /\ UNCHANGED <<dir, pdirs, attemptErr, native>>
    /\ UNCHANGED <<content, synced, otherVars, writerVars, copyVars, syncVars,
                   conflict, installed, displaced, oldDigest>>

\* What the lookups of attempt_after_exchange and publish_absent may return: the
\* entry behind a name, or nothing.
Lookup(role, n) ==
    (IF dir[n] = NoFile THEN {NoEntry} ELSE {EntryAt(role, n)})
        \cup (IF Faulty("inspect") THEN {NoEntry} ELSE {})

\* Whether a name is seen to hold the candidate; a failed lookup sees nothing.
SeenAsCandidate(n) ==
    {dir[n] = cand} \cup (IF Faulty("inspect") THEN {FALSE} ELSE {})

\* The publication state attempt_after_exchange derives.
ExchangeState(err, installedIsCand, stagedIsCand, disp) ==
    CASE ~err /\ installedIsCand /\ disp # NoEntry -> "Published"
      [] err /\ stagedIsCand -> "NotPublished"
      [] installedIsCand /\ disp # NoEntry -> "Published"
      [] OTHER -> "Indeterminate"

\* The commit's decisions on a native attempt, in the order of the code.
JudgeAttempt(state, inst, disp) ==
    LET unpublished == state = "NotPublished"
        seen == IF unpublished THEN NoEntry ELSE inst
        moved == IF unpublished THEN NoEntry ELSE disp
    IN  IF opts.cond # Absent /\ ~unpublished /\ moved = NoEntry
        THEN /\ Fail("Publish", IF attemptErr THEN "Other" ELSE "InvalidData", Some(seen), "Indeterminate")
             /\ UNCHANGED <<conflict, installed, displaced>>
        ELSE IF attemptErr /\ ~(opts.cond # Absent /\ state = "Published")
        THEN /\ Fail("Publish", "Other", Some(seen) \cup Some(moved), state)
             /\ UNCHANGED <<conflict, installed, displaced>>
        ELSE IF seen = NoEntry
        THEN /\ Fail("Publish", "InvalidData", Some(moved), "Indeterminate")
             /\ conflict' = (conflict \/ attemptErr) /\ UNCHANGED <<installed, displaced>>
        ELSE /\ installed' = seen /\ displaced' = moved
             /\ publication' = state /\ conflict' = (conflict \/ attemptErr)
             /\ pc' = IF moved # NoEntry THEN "verifyDisplaced" ELSE "verifyInstalled"
             /\ UNCHANGED <<failure, entries>>

\* The inspection after the native call, up to the first verification.
Inspect ==
    /\ pc = "inspect"
    /\ \E inst \in Lookup("StagedCandidate", "target"),
          disp \in Lookup(IF opts.cond = Absent THEN "StagedCandidate" ELSE "Displaced", "candidate"),
          ic \in SeenAsCandidate("target"), sc \in SeenAsCandidate("candidate") :
          LET state == IF opts.cond # Absent THEN ExchangeState(attemptErr, ic, sc, disp)
                       ELSE IF attemptErr \/ inst # NoEntry THEN "Published" ELSE "Indeterminate"
              moved == IF opts.cond = Absent /\ ~attemptErr THEN NoEntry ELSE disp
          IN  \/ JudgeAttempt(state, inst, moved)
              \/ /\ Faulty("AfterPublish")
                 /\ Fail("Publish", "Other",
                         IF state = "NotPublished" THEN {} ELSE Some(inst) \cup Some(moved), state)
                 /\ UNCHANGED <<conflict, installed, displaced>>
    /\ UNCHANGED <<fsVars, otherVars, writerVars, copyVars, syncVars, attemptErr, oldDigest, native>>

-----------------------------------------------------------------------------
(***************************************************************************)
(* Verification after publication.                                         *)
(***************************************************************************)

\* The displaced file must still be there and hold the expected content.
VerifyDisplaced ==
    /\ pc = "verifyDisplaced"
    /\ \/ /\ Verified(displaced)
          /\ LET same == MatchesPrecondition(displaced) IN
             /\ displaced' = IF same THEN displaced ELSE WithRole(displaced, "RollbackDisplaced")
             /\ conflict' = (conflict \/ ~same)
          /\ pc' = "verifyInstalled" /\ UNCHANGED <<failure, entries, publication>>
       \/ /\ ~Verified(displaced) \/ Faulty("verifyDisplaced")
          /\ Fail("VerifyDisplaced", "Other", {installed, displaced}, "Indeterminate")
          /\ UNCHANGED <<displaced, conflict>>
    /\ UNCHANGED <<fsVars, otherVars, writerVars, copyVars, syncVars,
                   attemptErr, installed, oldDigest, native>>

\* The installed file must be the candidate with B's bytes; otherwise, or after
\* an earlier conflict, the attempt is rolled back if something was displaced.
VerifyInstalled ==
    /\ pc = "verifyInstalled"
    /\ \/ /\ Verified(installed)
          /\ LET valid == installed.id = cand /\ Digest(installed) = candDigest
                 bad == conflict \/ ~valid
             IN  /\ conflict' = bad
                 /\ IF ~bad
                    THEN /\ pc' = "syncInstalled" /\ entries' = entries \cup Some(displaced)
                         /\ UNCHANGED <<failure, publication>>
                    ELSE IF displaced = NoEntry
                    THEN Fail("VerifyInstalled", "InvalidData", {installed}, publication)
                    ELSE pc' = "rollbackPrecheck" /\ UNCHANGED <<failure, entries, publication>>
       \/ /\ ~Verified(installed) \/ Faulty("verifyInstalled")
          /\ Fail("VerifyInstalled", "Other", {installed} \cup Some(displaced), "Indeterminate")
          /\ UNCHANGED conflict
    /\ UNCHANGED <<fsVars, otherVars, writerVars, copyVars, syncVars,
                   attemptErr, installed, displaced, oldDigest, native>>

-----------------------------------------------------------------------------
(***************************************************************************)
(* The single rollback attempt.                                            *)
(***************************************************************************)

\* Remember what the displaced file holds now.
RollbackPrecheck ==
    /\ pc = "rollbackPrecheck"
    /\ \/ /\ Verified(displaced)
          /\ oldDigest' = Digest(displaced) /\ pc' = "rollbackRecheck"
          /\ UNCHANGED <<failure, entries, publication>>
       \/ /\ ~Verified(displaced) \/ Faulty("RollbackPrecheck")
          /\ Fail("RollbackPrecheck", "Other", {installed, displaced}, "Indeterminate")
          /\ UNCHANGED oldDigest
       \/ /\ Verified(displaced) /\ Faulty("Rollback")
          /\ Fail("Rollback", "Other", {installed, displaced}, publication)
          /\ oldDigest' = Digest(displaced)
    /\ UNCHANGED <<fsVars, otherVars, writerVars, copyVars, syncVars,
                   conflict, attemptErr, installed, displaced, native>>

\* The candidate must still be the installed file and the displaced file in
\* its place.
RollbackRecheck ==
    /\ pc = "rollbackRecheck"
    /\ LET stands == /\ Verified(installed) /\ installed.id = cand
                     /\ Digest(installed) = candDigest /\ Verified(displaced)
       IN  \/ /\ stands /\ pc' = "rollbackVerify"
              /\ UNCHANGED <<failure, entries, publication>>
           \/ /\ ~stands \/ Faulty("rollbackRecheck")
              /\ Fail("RollbackPrecheck", "Other", {installed, displaced}, "Indeterminate")
    /\ UNCHANGED <<fsVars, otherVars, writerVars, copyVars, syncVars,
                   conflict, attemptErr, installed, displaced, oldDigest, native>>

\* backend.rollback up to the exchange: the displaced file, the candidate at the
\* target and its bytes, compared with the verified copy.  A refusal reports no
\* receipt, and the commit keeps the displaced entry if it still verifies.
RollbackVerify ==
    /\ pc = "rollbackVerify"
    /\ LET stands == /\ Verified(displaced) /\ dir["target"] = cand
                     /\ dir["copy"] = copyId /\ content[cand] = content[copyId]
           kept == IF Verified(displaced) THEN {WithRole(displaced, "Displaced")} ELSE {}
       IN  \/ /\ stands /\ pc' = "rollbackExchange"
              /\ UNCHANGED <<failure, entries, publication>>
           \/ /\ ~stands \/ Faulty("rollbackVerify")
              /\ \/ Fail("Rollback", "Other", kept, "Indeterminate")
                 \/ Faulty("verifyKept") /\ Fail("Rollback", "Other", {}, "Indeterminate")
    /\ UNCHANGED <<fsVars, otherVars, writerVars, copyVars, syncVars,
                   conflict, attemptErr, installed, displaced, oldDigest, native>>

\* The exchange that puts the displaced file back; any error leaves open
\* whether it happened.
RollbackExchange ==
    /\ pc = "rollbackExchange"
    /\ LET both == dir["target"] # NoFile /\ dir["candidate"] # NoFile IN
       \/ /\ both
          /\ Rebind(Swap("target", "candidate")) /\ native' = "restored"
          /\ \/ attemptErr' = FALSE
             \/ Faulty("rollbackEio") /\ attemptErr' = TRUE
       \/ /\ ~both \/ Faulty("rollbackEio")
          /\ attemptErr' = TRUE /\ UNCHANGED <<dir, pdirs, native>>
    /\ pc' = "receipt"
    /\ UNCHANGED <<content, synced, otherVars, writerVars, copyVars, syncVars,
                   publication, conflict, installed, displaced, oldDigest, entries, failure>>

\* rollback_receipt and the commit's decisions on it.
RollbackReceipt ==
    /\ pc = "receipt"
    /\ \E back \in Lookup("Displaced", "target"), moved \in Lookup("RollbackDisplaced", "candidate") :
          LET matches == /\ back # NoEntry /\ back.id = displaced.id
                         /\ moved # NoEntry /\ moved.id = cand
                         /\ dir["copy"] = copyId /\ content[cand] = content[copyId]
              state == IF matches /\ ~attemptErr THEN "Restored" ELSE "Indeterminate"
              kept == IF moved = NoEntry /\ Verified(displaced)
                      THEN {WithRole(displaced, "Displaced")} ELSE {}
          IN  \/ /\ Faulty("RollbackCompleted")
                 /\ Fail("Rollback", "Other", Some(back) \cup Some(moved) \cup {displaced}, "Indeterminate")
                 /\ UNCHANGED installed
              \/ /\ attemptErr
                 /\ Fail("Rollback", "Other", kept \cup Some(back) \cup Some(moved), state)
                 /\ UNCHANGED installed
              \/ /\ ~attemptErr /\ back = NoEntry
                 /\ Fail("Rollback", "InvalidData", {installed, displaced} \cup Some(moved), "Indeterminate")
                 /\ UNCHANGED installed
              \/ /\ ~attemptErr /\ back # NoEntry
                 /\ entries' = entries \cup Some(moved)
                 /\ installed' = back /\ publication' = state /\ pc' = "verifyRollback"
                 /\ UNCHANGED failure
    /\ UNCHANGED <<fsVars, otherVars, writerVars, copyVars, syncVars,
                   conflict, attemptErr, displaced, oldDigest, native>>

\* The restored file must hold what was displaced; required synchronization
\* follows.  A rolled back commit fails in every case.
VerifyRollback ==
    /\ pc = "verifyRollback"
    /\ LET required == "Required" \in {opts.durability, opts.fileSync} IN
       \/ /\ ~Verified(installed) \/ Faulty("verifyRollback")
          /\ Fail("VerifyRollback", "Other", {installed}, "Indeterminate")
          /\ UNCHANGED <<pdirs, synced>>
       \/ /\ Verified(installed)
          /\ publication # "Restored" \/ Digest(installed) # oldDigest
          /\ Fail("VerifyRollback", "InvalidData", {installed}, "Indeterminate")
          /\ UNCHANGED <<pdirs, synced>>
       \/ /\ Verified(installed) /\ publication = "Restored" /\ Digest(installed) = oldDigest
          /\ \/ /\ Fail(IF required THEN "Sync" ELSE "VerifyRollback", "InvalidData", {installed}, publication)
                /\ synced' = IF required THEN synced \cup {installed.id} ELSE synced
                /\ pdirs' = IF opts.durability = "Required" THEN {dir} ELSE pdirs
             \/ /\ required /\ Faulty("syncRollback")
                /\ Fail("Sync", "Other", {installed}, publication)
                /\ UNCHANGED <<pdirs, synced>>
    /\ UNCHANGED <<dir, content, otherVars, writerVars, copyVars, syncVars,
                   conflict, attemptErr, installed, displaced, oldDigest, native>>

-----------------------------------------------------------------------------
(***************************************************************************)
(* Success: synchronization, cleanup, outcome.  Failure: the report.       *)
(***************************************************************************)

\* The durability reported after the synchronization of the installed file and
\* of the directory.
DurableAfter(fileOk, nsOk) == durable /\ (opts.durability = "Preferred" => fileOk /\ nsOk)

\* Synchronization of the installed file and of the directory.
SyncInstalled ==
    /\ pc = "syncInstalled"
    /\ \E fileOk, nsOk \in BOOLEAN :
          LET wanted == SyncRequirement # "NotRequired"
              nsWanted == opts.durability # "NotRequired"
          IN  /\ fileOk => wanted /\ Verified(installed)
              /\ ~fileOk => ~wanted \/ ~Verified(installed) \/ Faulty("syncInstalled")
              /\ nsOk => nsWanted
              /\ ~nsOk => ~nsWanted \/ Faulty("syncNamespace")
              /\ synced' = IF fileOk THEN synced \cup {cand} ELSE synced
              /\ IF wanted /\ ~fileOk /\ SyncRequirement = "Required"
                 THEN Fail("Sync", "Other", {installed}, publication) /\ UNCHANGED <<durable, fileSynced, pdirs>>
                 ELSE IF opts.durability = "Required" /\ ~nsOk
                 THEN /\ Fail("Sync", "Other", {installed}, publication)
                      /\ fileSynced' = fileOk /\ UNCHANGED <<durable, pdirs>>
                 ELSE /\ durable' = DurableAfter(fileOk, nsOk)
                      /\ fileSynced' = fileOk
                      /\ pdirs' = IF nsOk THEN {dir} ELSE pdirs
                      /\ pc' = "cleanupOld" /\ UNCHANGED <<failure, entries, publication>>
    /\ UNCHANGED <<dir, content, otherVars, writerVars, copyVars, cleanupErr,
                   conflict, attemptErr, installed, displaced, oldDigest, native>>

\* cleanup_entries: each entry is verified and removed, the candidate copy last;
\* what cannot be removed stays with the outcome.
Cleanup(here, next, isCopy) ==
    /\ pc = here
    /\ \/ \E e \in entries :
             /\ (e.role = "CandidateCopy") = isCopy
             /\ \/ /\ Verified(e)
                   /\ Rebind([dir EXCEPT ![e.name] = NoFile])
                   /\ entries' = entries \ {e} /\ UNCHANGED cleanupErr
                \/ /\ ~Verified(e) \/ Faulty("cleanup")
                   /\ cleanupErr' = TRUE /\ UNCHANGED <<dir, pdirs, entries>>
       \/ /\ \A e \in entries : (e.role = "CandidateCopy") # isCopy
          /\ UNCHANGED <<dir, pdirs, entries, cleanupErr>>
    /\ pc' = next
    /\ UNCHANGED <<content, synced, otherVars, writerVars, copyVars, durable, fileSynced, pubVars, failure>>

CleanupOld == Cleanup("cleanupOld", "cleanupCopy", FALSE)
CleanupCopy == Cleanup("cleanupCopy", "cleanupSync", TRUE)

\* Test checkpoint between the save and its cleanup: everything is retained.
SaveComplete ==
    /\ pc = "cleanupOld" /\ Faulty("SaveComplete")
    /\ pc' = "cleanupSync" /\ cleanupErr' = TRUE
    /\ UNCHANGED <<fsVars, otherVars, writerVars, copyVars, durable, fileSynced, pubVars, entries, failure>>

\* The directory synchronization after the cleanup never undoes the save.
CleanupSync ==
    /\ pc = "cleanupSync" /\ pc' = "ok"
    /\ \/ pdirs' = (IF opts.durability # "NotRequired" THEN {dir} ELSE pdirs) /\ UNCHANGED cleanupErr
       \/ /\ opts.durability # "NotRequired" /\ Faulty("syncNamespace")
          /\ cleanupErr' = TRUE /\ UNCHANGED pdirs
    /\ UNCHANGED <<dir, content, synced, otherVars, writerVars, copyVars, durable, fileSynced,
                   pubVars, entries, failure>>

\* take_recovery_entries: the registered entries, and the candidate if its name
\* still holds it; the variant forgets the candidate.
TakeRegisteredEntries == registered
TakeRecoveryEntries ==
    registered \cup (IF dir["candidate"] = cand THEN {EntryAt("StagedCandidate", "candidate")} ELSE {})

\* What the backend still owns joins the report.
Report ==
    /\ pc = "report" /\ pc' = "err"
    /\ \/ entries' = entries \cup TakeRecoveryEntries
       \/ Faulty("report") /\ entries' = entries \cup registered
    /\ registered' = {}
    /\ UNCHANGED <<fsVars, otherVars, writerVars, copyId, candDigest, syncVars, pubVars, failure>>

\* LocalConditionalFailureReason of a failed commit; the variant looks at the
\* error kind only.
ReasonByKind ==
    CASE failure.kind = "NotFound" -> "TargetMissing"
      [] failure.kind = "InvalidData" -> "PreconditionMismatch"
      [] failure.kind = "AlreadyExists" -> "TargetExists"
      [] OTHER -> "Io"
Reason ==
    CASE failure.stage = "Precheck" /\ failure.kind = "NotFound" -> "TargetMissing"
      [] failure.stage = "Precheck" /\ failure.kind = "InvalidData" -> "PreconditionMismatch"
      [] failure.kind = "AlreadyExists" -> "TargetExists"
      [] OTHER -> IF conflict THEN "PostPublicationConflict" ELSE "Io"

-----------------------------------------------------------------------------
(***************************************************************************)
(* Other processes, as the hooks of the crate's own tests play them.       *)
(***************************************************************************)

OtherMoves == others < MaxOthers /\ others' = others + 1

\* Another file appears at the target, in place of the one there if any.
OtherReplace ==
    /\ OtherMoves
    /\ \E f \in Files, c \in Contents :
          /\ Free(f)
          /\ Allocate("target", f)
          /\ content' = [content EXCEPT ![f] = c]
          /\ synced' = synced \ {f}
    /\ UNCHANGED <<handle, writerVars, copyVars, syncVars, pubVars, pc, entries, failure>>

\* The file at the target is overwritten in place.
OtherOverwrite ==
    /\ OtherMoves /\ dir["target"] # NoFile
    /\ \E c \in Contents : content' = [content EXCEPT ![dir["target"]] = c]
    /\ UNCHANGED <<dir, pdirs, synced, handle, writerVars, copyVars, syncVars, pubVars, pc, entries, failure>>

\* The target is deleted.
OtherDelete ==
    /\ OtherMoves /\ dir["target"] # NoFile
    /\ Rebind([dir EXCEPT !["target"] = NoFile])
    /\ UNCHANGED <<content, synced, handle, writerVars, copyVars, syncVars, pubVars, pc, entries, failure>>

\* A process opens the target and writes through that descriptor later.
OtherOpen ==
    /\ opts.env = "rough" /\ OtherMoves /\ dir["target"] # NoFile /\ handle = NoFile
    /\ handle' = dir["target"]
    /\ UNCHANGED <<fsVars, writerVars, copyVars, syncVars, pubVars, pc, entries, failure>>

OtherWriteHandle ==
    /\ OtherMoves /\ handle # NoFile
    /\ \E c \in Contents : content' = [content EXCEPT ![handle] = c]
    /\ handle' = NoFile
    /\ UNCHANGED <<dir, pdirs, synced, writerVars, copyVars, syncVars, pubVars, pc, entries, failure>>

\* A process that clears leftovers deletes a private name.
OtherSweep ==
    /\ opts.env = "rough" /\ OtherMoves
    /\ \E n \in Names \ {"target"} : dir[n] # NoFile /\ Rebind([dir EXCEPT ![n] = NoFile])
    /\ UNCHANGED <<content, synced, handle, writerVars, copyVars, syncVars, pubVars, pc, entries, failure>>

Others == OtherReplace \/ OtherOverwrite \/ OtherDelete \/ OtherOpen \/ OtherWriteHandle \/ OtherSweep

-----------------------------------------------------------------------------
Final == {"ok", "err", "aborted", "dropped", "invalid", "refused"}

CommitStep ==
    \/ CreateCopy \/ FillCopy \/ VerifyCopy \/ SyncStaged \/ Precheck
    \/ PublishAbsent \/ PublishContent \/ Inspect \/ VerifyDisplaced \/ VerifyInstalled
    \/ RollbackPrecheck \/ RollbackRecheck \/ RollbackVerify \/ RollbackExchange
    \/ RollbackReceipt \/ VerifyRollback \/ SyncInstalled
    \/ SaveComplete \/ CleanupOld \/ CleanupCopy \/ CleanupSync \/ Report

WriterStep == Open \/ (\E c \in Contents : Write(c)) \/ Abort \/ Drop \/ Commit

\* A finished writer stays finished.
Finished == pc \in Final /\ UNCHANGED vars

Next == WriterStep \/ CommitStep \/ Others \/ Finished

Spec == Init /\ [][Next]_vars

-----------------------------------------------------------------------------
(***************************************************************************)
(* Properties.                                                             *)
(***************************************************************************)

PcValues == Final \cup
    {"closed", "open", "copy", "fill", "verifyCopy", "sync", "precheck", "publish", "inspect",
     "verifyDisplaced", "verifyInstalled", "rollbackPrecheck", "rollbackRecheck",
     "rollbackVerify", "rollbackExchange", "receipt", "verifyRollback", "syncInstalled",
     "cleanupOld", "cleanupCopy", "cleanupSync", "report"}

FsOK ==
    /\ dir \in [Names -> Files \cup {NoFile}]
    /\ content \in [Files -> Contents \cup {Partial}]
    /\ pdirs \subseteq [Names -> Files \cup {NoFile}] /\ dir \in pdirs
    /\ synced \subseteq Files
    /\ others \in 0..MaxOthers /\ handle \in Files \cup {NoFile}

WriterOK ==
    /\ pc \in PcValues /\ broken \in BOOLEAN
    /\ opts \in Options
    /\ cand \in Files \cup {NoFile} /\ copyId \in Files \cup {NoFile}
    /\ candDigest \in Digests /\ oldDigest \in Digests

EntriesOK ==
    /\ registered \subseteq Entry /\ entries \subseteq Entry
    /\ installed \in Entry \cup {NoEntry} /\ displaced \in Entry \cup {NoEntry}

OutcomeOK ==
    /\ publication \in PublicationStates
    /\ conflict \in BOOLEAN /\ attemptErr \in BOOLEAN
    /\ durable \in BOOLEAN /\ fileSynced \in BOOLEAN /\ cleanupErr \in BOOLEAN
    /\ failure \in [stage : Stages, kind : ErrorKinds]
    /\ native \in {"untouched", "installed", "restored"}

\* Every variable has the type its comment gives it; in particular every entry
\* handed to the caller names an observed file.
TypeOK == FsOK /\ WriterOK /\ EntriesOK /\ OutcomeOK

\* A failed commit never misstates what it did to the target: NotPublished only
\* if no native call changed it, Published only if B was put there and not taken
\* back, Restored only if the displaced file was put back.  A successful commit
\* did put B there.  (LocalConditionalPublicationState)
PublicationIsTruthful ==
    /\ pc \in {"report", "err"} =>
          /\ publication = "NotPublished" => native = "untouched"
          /\ publication = "Published" => native = "installed"
          /\ publication = "Restored" => native = "restored"
    /\ pc \in {"cleanupOld", "cleanupCopy", "cleanupSync", "ok"} => native = "installed"

\* The reason of a failed commit fits the attempt: precondition reasons mean an
\* untouched target and the right kind of precondition, and a post-publication
\* conflict is reported only after the target was changed.
ReasonFitsAttempt ==
    pc = "err" =>
        /\ Reason \in {"TargetMissing", "PreconditionMismatch"} =>
              opts.cond # Absent /\ native = "untouched" /\ publication = "NotPublished"
        /\ Reason = "TargetExists" =>
              opts.cond = Absent /\ native = "untouched" /\ publication = "NotPublished"
        /\ Reason = "PostPublicationConflict" => native # "untouched"

AfterCopy == {"sync", "precheck", "publish", "inspect", "verifyDisplaced", "verifyInstalled",
              "rollbackPrecheck", "rollbackRecheck", "rollbackVerify", "rollbackExchange",
              "receipt", "verifyRollback", "syncInstalled", "cleanupOld"}
AfterCopyStages == Stages \ {"Prepare", "VerifyCandidate", "PrepareCandidateCopy", "VerifyCandidateCopy"}

\* B is never lost and nothing is orphaned.  From the verification of its copy until
\* the save is decided, and after every failure from then on, the caller gets an entry
\* of role CandidateCopy that opens and holds exactly B; even where others delete
\* private names, an entry of that role never opens on a partial copy.  Whatever the
\* attempt leaves under its private names it hands to the caller, in the error or in
\* the outcome; an abort leaves nothing.  Only the clause on partial copies holds in
\* every environment.  The others hold in a gentle one: nobody else deletes private
\* names, and the lookups that find a leftover (LeftoverLookups) do not fail; the code
\* cannot hand out what it was kept from seeing.
\* (prepare_copy, cleanup_entries, take_recovery_entries)
RecoveryIsComplete ==
    /\ \A e \in entries : e.role = "CandidateCopy" /\ Verified(e) => Digest(e) = candDigest
    /\ opts.env = "gentle" /\
       (pc \in AfterCopy \/ (pc \in {"report", "err"} /\ failure.stage \in AfterCopyStages)) =>
          \E e \in entries : /\ e.role = "CandidateCopy" /\ Verified(e)
                             /\ Digest(e) = candDigest
    /\ opts.env = "gentle" /\ pc \in {"ok", "err"} =>
          \A n \in {"candidate", "copy"} :
              dir[n] # NoFile => \E e \in entries : e.name = n /\ e.id = dir[n]
    /\ opts.env = "gentle" /\ pc = "aborted" => dir["candidate"] = NoFile /\ dir["copy"] = NoFile

\* The order of synchronization makes up for a crash at any point.  With a required
\* synchronization no crash leaves the target bound to a candidate whose bytes or
\* metadata had not reached the disk; with required durability a crash between the
\* precheck and the decision that the save is complete leaves the verified copy of B,
\* if the environment is gentle: nobody else deletes it.
\* A save reported durable survives: B's bytes are on disk and in no directory state a
\* crash may leave is B still only staged.  Required durability is never reported as
\* missing.  (synchronize_staged, synchronize_installed)
CrashKeepsSave ==
    /\ "Required" \in {opts.durability, opts.fileSync} =>
          \A d \in pdirs : cand # NoFile /\ d["target"] = cand => cand \in synced
    /\ opts.env = "gentle" /\ opts.durability = "Required" /\ pc \in AfterCopy \ {"sync"} =>
          copyId \in synced /\ \A d \in pdirs : d["copy"] = copyId
    /\ pc \in {"cleanupOld", "cleanupCopy", "cleanupSync", "ok"} =>
          /\ durable => cand \in synced /\ \A d \in pdirs : d["candidate"] # cand
          /\ fileSynced => cand \in synced
          /\ opts.durability = "Required" => durable

ProgramStep == others' = others

TargetStep ==
    ProgramStep /\ dir'["target"] # dir["target"] =>
        \/ /\ pc = "publish" /\ dir'["target"] = cand
           /\ (opts.cond = Absent) = (dir["target"] = NoFile)
        \/ pc = "rollbackExchange" /\ dir'["target"] = displaced.id

\* A step of the writer changes the target only by installing its candidate,
\* over nothing when the precondition is Absent, or by putting the displaced
\* file back; it never leaves the target missing.
TargetChangesAtomically == [][TargetStep]_vars

Linked(f) == \E n \in Names : dir[n] = f

\* The writer destroys no bytes of others: a file that loses its last name to a
\* step of the writer is its own copy, its never published candidate, or holds
\* exactly the content the caller expected to replace.  This is claimed for a gentle
\* environment only: in a rough one another process can write through a descriptor it
\* holds after the last comparison, or delete the private name of the displaced file.
DestroysOnlyOwnOrExpected ==
    [][ProgramStep /\ opts.env = "gentle" =>
          \A f \in Files : Linked(f) /\ ~Linked(f)' =>
              \/ f = copyId
              \/ f = cand /\ native = "untouched"
              \/ content[f] = opts.cond]_vars

-----------------------------------------------------------------------------
(***************************************************************************)
(* The writer as one publisher of the target.                              *)
(***************************************************************************)

\* The displaced file lies under the candidate's name until it is put back or
\* cleaned up.
Kept == IF opts.cond # Absent /\ native = "installed" THEN dir["candidate"] ELSE NoFile

Verdict ==
    IF pc = "err" THEN publication
    ELSE IF pc = "ok" THEN "Published"
    ELSE IF pc \in Final THEN "NotPublished"
    ELSE "open"

Effect ==
    IF native = "untouched" THEN "none"
    ELSE IF native = "installed" THEN "installed"
    ELSE "withdrawn"

Pub == INSTANCE Publication WITH
    Publishers <- {"writer"}, Nothing <- NoFile,
    shown   <- dir["target"],
    staged  <- [p \in {"writer"} |-> dir["candidate"]],
    kept    <- [p \in {"writer"} |-> Kept],
    fresh   <- IF opts.cond = Absent THEN {"writer"} ELSE {},
    effect  <- [p \in {"writer"} |-> Effect],
    verdict <- [p \in {"writer"} |-> Verdict],
    world   <- others

\* The conditional writer implements Publication: whatever commit, rollback, abort
\* and Drop do and whatever fails, the target goes in one step from what it showed
\* to B, over nothing when the precondition is Absent, or in one step from B back to
\* the displaced file, and the LocalConditionalPublicationState the caller gets never
\* misstates which of the two happened.
ImplementsPublication == Pub!Spec
=============================================================================
