------------------------- MODULE FileWriter_proofs --------------------------
(***************************************************************************)
(* What LocalFileWriter promises, for any number of writers, files and     *)
(* bytes, every workload, and any number of failures and of steps of other *)
(* processes.                                                              *)
(***************************************************************************)
EXTENDS FileWriter, TLAPS

USE ZenonT(30)

-----------------------------------------------------------------------------
(* The inductive invariant. *)

Anything == Writers \cup Files \cup {None}
PcValues == {"idle", "append", "open", "prepare", "verify", "install", "unlink", "recover",
             "parent", "drop"}

CallResult ==
    [ok : BOOLEAN, publication : {"NotPublished", "Published", "Indeterminate"},
     durable : BOOLEAN, retained : BOOLEAN]

Writer ==
    [holder : {"none", "caller", "gone"}, mode : {"CreateNew", "CreateOrReplace", "Append"},
     durability : Requirements, fileSync : Requirements,
     state : {"Open", "Committed", "Aborted"}, failure : {"none", "NotPublished", "Published"},
     bytes : Nat, existed : BOOLEAN, handle : Anything, armed : BOOLEAN, pc : PcValues,
     seen : Anything, synced : BOOLEAN, tries : Nat, replaced : BOOLEAN,
     result : CallResult, position : Nat, stuck : BOOLEAN]

Typed ==
    /\ history \in Seq(Anything) /\ settled \in 1 .. Len(history)
    /\ stage \in [Writers -> Anything]
    /\ content \in [Writers -> Nat] /\ stable \in [Writers -> Nat]
    /\ wr \in [Writers -> Writer]
    /\ load \in Workload /\ others \in Nat /\ crashed \in BOOLEAN

BeforeInstall == {"open", "prepare", "verify", "install"}
AfterVerify   == {"verify", "install", "unlink", "recover", "parent"}
Committing    == BeforeInstall \cup {"unlink", "recover", "parent"}

\* Who holds the writer at each point, and what its last call said.
LifeInv(w) ==
    /\ wr[w].holder = "none" =>
         /\ wr[w].pc = "idle" /\ wr[w].state = "Open" /\ wr[w].failure = "none" /\ wr[w].bytes = 0
         /\ wr[w].position = 0 /\ ~wr[w].armed /\ stage[w] = None
         /\ wr[w].result = NoResult
    /\ wr[w].pc \in Committing \cup {"append"} =>
         wr[w].holder = "caller" /\ wr[w].state = "Open" /\ wr[w].failure = "none"
    /\ wr[w].pc \in Committing => Staged(w)
    /\ wr[w].pc = "append" => ~Staged(w)
    /\ wr[w].pc = "drop" => wr[w].holder = "gone"
    /\ wr[w].holder = "gone" /\ wr[w].pc = "idle" => ~wr[w].armed
    /\ wr[w].state = "Committed" => wr[w].holder = "gone"
    /\ wr[w].result.ok => wr[w].holder = "gone" /\ wr[w].result.publication = "Published"
    /\ wr[w].result.durable => wr[w].result.ok
    /\ wr[w].result.publication # "NotPublished" \/ ~wr[w].result.retained =>
         wr[w].holder = "gone"

\* What a staged writer owns: its handle and its staging entry until the native call that
\* installs the entry, the entry alone until it is gone.
OwnerInv(w) ==
    /\ Staged(w) /\ wr[w].holder = "caller" /\ wr[w].pc = "idle" /\ Usable(w) =>
         wr[w].handle = w /\ wr[w].armed
    /\ wr[w].pc \in BeforeInstall => wr[w].handle = w /\ wr[w].armed
    /\ wr[w].pc \in {"unlink", "recover"} => wr[w].handle = None /\ wr[w].armed
    /\ wr[w].pc = "parent" => wr[w].handle = None /\ ~wr[w].armed
    /\ stage[w] = w => wr[w].armed \/ wr[w].stuck
    /\ stage[w] \in {w, None} \cup Files
    /\ ~Staged(w) => stage[w] = None

\* When the destination shows the writer's file.
PositionInv(w) ==
    /\ ~crashed => wr[w].position <= Len(history)
    /\ ~Staged(w) => wr[w].position = 0
    /\ wr[w].position > 0 => wr[w].pc \in {"unlink", "recover", "parent"} \/ wr[w].holder = "gone"
    /\ wr[w].pc \in {"unlink", "parent"} => wr[w].position > 0
    /\ wr[w].pc = "recover" => (wr[w].replaced <=> wr[w].position > 0)
    /\ \A i \in 1 .. Len(history) : history[i] = w => wr[w].position > 0

\* When its bytes, and the name, reached the disk.
DiskInv(w) ==
    /\ ~crashed => content[w] = wr[w].bytes
    /\ stable[w] <= content[w] /\ content[w] <= wr[w].bytes
    /\ wr[w].bytes <= load.maxBytes
    /\ wr[w].pc \in AfterVerify =>
         /\ wr[w].synced => stable[w] = wr[w].bytes
         /\ SyncRequirement(w) = "Required" => wr[w].synced
    /\ wr[w].position > 0 /\ SyncRequirement(w) = "Required" => stable[w] = wr[w].bytes
    /\ wr[w].result.durable => stable[w] = wr[w].bytes /\ wr[w].position <= settled

\* What the caller is told of the publication.
ReportInv(w) ==
    /\ wr[w].result.ok /\ wr[w].durability = "Required" => wr[w].result.durable
    /\ wr[w].result.ok /\ Staged(w) => HasPublished(w)
    /\ ~wr[w].result.ok /\ wr[w].result.publication = "Published" => HasPublished(w)
    /\ wr[w].result.publication = "Indeterminate" => ~Staged(w)
    /\ ~wr[w].result.ok /\ wr[w].result.publication = "NotPublished" /\ ~wr[w].result.retained
         => ~HasPublished(w)
    /\ /\ Staged(w) /\ wr[w].pc \in {"idle", "drop"}
       /\ wr[w].result.publication = "NotPublished"
       => wr[w].position = 0
    /\ wr[w].failure = "Published" => HasPublished(w)
    /\ wr[w].failure = "NotPublished" => ~HasPublished(w)
    /\ wr[w].state = "Aborted" /\ wr[w].failure = "none" => ~HasPublished(w)

WriterInv(w) == LifeInv(w) /\ OwnerInv(w) /\ PositionInv(w) /\ DiskInv(w) /\ ReportInv(w)

IInv == Typed /\ \A w \in Writers : WriterInv(w)

-----------------------------------------------------------------------------
\* No writer is open at first.
LEMMA InitIInv == Init => IInv
  <1> SUFFICES ASSUME Init PROVE IInv
    OBVIOUS
  <1> USE ConstantsAssumption
  <1>1. PICK f \in Files \cup {None} : history = <<f>>
    BY DEF Init
  <1>2. history \in Seq(Anything) /\ Len(history) = 1
    BY <1>1, SMTT(30), Z3T(30) DEF Anything
  <1>3. load \in Workload
    BY DEF Init
  <1>4. NoResult \in CallResult
    BY DEF NoResult, CallResult
  <1>5. wr \in [Writers -> Writer]
    BY <1>4 DEF Init, Writer, Anything, PcValues, Requirements
  <1>6. Typed
    <2>1. crashed \in BOOLEAN
      BY Zenon DEF Init
    <2>2. stage \in [Writers -> Anything]
      BY DEF Init, Anything
    <2>3. content \in [Writers -> Nat] /\ stable \in [Writers -> Nat]
      BY DEF Init
    <2>4. settled \in 1 .. Len(history) /\ others \in Nat
      BY <1>2, SMTT(30), Z3T(30) DEF Init
    <2> QED
      BY <1>2, <1>3, <1>5, <2>1, <2>2, <2>3, <2>4 DEF Typed
  <1>7. ASSUME NEW w \in Writers PROVE WriterInv(w)
    <2>1. LifeInv(w) /\ OwnerInv(w)
      BY DEF Init, LifeInv, OwnerInv, Committing, BeforeInstall, NoResult
    <2>2. PositionInv(w)
      BY <1>1, <1>2, SMTT(30), Z3T(30) DEF Init, PositionInv
    <2>3. DiskInv(w) /\ ReportInv(w)
      BY <1>3, SMTT(30), Z3T(30) DEF Init, DiskInv, ReportInv, AfterVerify, NoResult,
         HasPublished, Staged, Workload
    <2> QED
      BY <2>1, <2>2, <2>3 DEF WriterInv
  <1> QED
    BY <1>6, <1>7 DEF IInv

\* A step of a writer replaces its own record and no other.
LEMMA BecomesOne ==
    ASSUME wr \in [Writers -> Writer], NEW w \in Writers, NEW r \in Writer, Becomes(w, r)
    PROVE  /\ wr' \in [Writers -> Writer] /\ wr'[w] = r
           /\ \A v \in Writers \ {w} : wr'[v] = wr[v]
  BY DEF Becomes

\* Opening a writer.
LEMMA OpenPreserves ==
    ASSUME IInv, NEW w \in Writers, Open(w)
    PROVE  wr' \in [Writers -> Writer] /\ WriterInv(w)'
  <1>1. Typed /\ WriterInv(w) /\ wr[w] \in Writer
    BY DEF IInv, Typed
  <1>2. PICK mode \in load.modes, durability \in load.durabilities, fileSync \in load.fileSyncs :
          /\ Becomes(w, [wr[w] EXCEPT !.holder = "caller", !.mode = mode,
                                     !.durability = durability, !.fileSync = fileSync,
                                     !.existed = (Target # None),
                                     !.handle = (IF mode = "Append" THEN Target ELSE w),
                                     !.armed = (mode # "Append")])
          /\ stage' = [stage EXCEPT ![w] = IF mode = "Append" THEN None ELSE w]
    BY DEF Open
  <1> DEFINE r == [wr[w] EXCEPT !.holder = "caller", !.mode = mode,
                                     !.durability = durability, !.fileSync = fileSync,
                                     !.existed = (Target # None),
                                     !.handle = (IF mode = "Append" THEN Target ELSE w),
                                     !.armed = (mode # "Append")]
  <1>3. Target \in Anything /\ w \in Anything
    BY <1>1, SMTT(30), Z3T(30) DEF Typed, Target, Anything
  <1>4. /\ mode \in {"CreateNew", "CreateOrReplace", "Append"}
        /\ durability \in Requirements /\ fileSync \in Requirements
    BY <1>1 DEF Typed, Workload
  <1>5. r \in Writer
    BY <1>1, <1>3, <1>4 DEF Writer
  <1>6. wr' \in [Writers -> Writer] /\ wr'[w] = r
    BY <1>1, <1>2, <1>5, BecomesOne DEF Typed
  <1>7. /\ UNCHANGED <<history, settled, content, stable, load, crashed>>
        /\ stage'[w] = (IF mode = "Append" THEN None ELSE w) /\ wr[w].holder = "none"
    BY <1>1, <1>2 DEF Open, Typed
  <1> HIDE DEF r
  <1>a. /\ r.holder = "caller" /\ r.mode = mode /\ r.armed = (mode # "Append")
        /\ r.handle = (IF mode = "Append" THEN Target ELSE w)
        /\ r.state = wr[w].state /\ r.failure = wr[w].failure /\ r.pc = wr[w].pc
        /\ r.bytes = wr[w].bytes
        /\ r.result = wr[w].result /\ r.position = wr[w].position /\ r.stuck = wr[w].stuck
    BY <1>1 DEF r, Writer
  <1>8. LifeInv(w)'
    BY <1>1, <1>4, <1>6, <1>7, <1>a DEF WriterInv, LifeInv, Committing, BeforeInstall, NoResult
  <1>9. OwnerInv(w)'
    BY <1>1, <1>4, <1>6, <1>7, <1>a DEF WriterInv, LifeInv, OwnerInv, BeforeInstall, Staged,
       Usable
  <1>10. PositionInv(w)'
    BY <1>1, <1>4, <1>6, <1>7, <1>a DEF WriterInv, LifeInv, PositionInv, Staged
  <1>11. DiskInv(w)'
    BY <1>1, <1>4, <1>6, <1>7, <1>a, SMTT(30), Z3T(30) DEF WriterInv, LifeInv, DiskInv,
       AfterVerify, NoResult
  <1>12. ReportInv(w)'
    BY <1>1, <1>4, <1>6, <1>7, <1>a DEF WriterInv, LifeInv, ReportInv, NoResult, HasPublished,
       Staged
  <1> QED
    BY <1>6, <1>8, <1>9, <1>10, <1>11, <1>12 DEF WriterInv

\* The destination shows a file or none.
LEMMA TargetTyped == Typed => Target \in Anything
  BY SMTT(30), Z3T(30) DEF Typed, Target

\* The records that the commits of the code build are records of a writer.
LEMMA ResultTyped ==
    ASSUME NEW ok \in BOOLEAN, NEW lasting \in BOOLEAN, NEW kept \in BOOLEAN,
           NEW publication \in {"NotPublished", "Published", "Indeterminate"}
    PROVE  Result(ok, publication, lasting, kept) \in CallResult
  BY DEF Result, CallResult

LEMMA SucceededTyped ==
    ASSUME NEW w \in Writers, wr[w] \in Writer, NEW lasting \in BOOLEAN
    PROVE  Succeeded(w, lasting) \in Writer
  <1>1. Result(TRUE, "Published", lasting, FALSE) \in CallResult
    BY ResultTyped
  <1> QED
    BY <1>1 DEF Succeeded, Writer, PcValues, Anything

LEMMA FailedTyped ==
    ASSUME NEW w \in Writers, wr[w] \in Writer,
           NEW publication \in {"NotPublished", "Published", "Indeterminate"}
    PROVE  Failed(w, publication) \in Writer
  <1>1. Result(FALSE, publication, FALSE, wr[w].handle # None) \in CallResult
    BY ResultTyped
  <1> QED
    BY <1>1 DEF Failed, Writer, PcValues

LEMMA AfterInstallTyped ==
    ASSUME NEW w \in Writers, wr[w] \in Writer
    PROVE  AfterInstall(w) \in Writer
  <1>1. Succeeded(w, FALSE) \in Writer
    BY SucceededTyped
  <1>2. [wr[w] EXCEPT !.pc = "parent", !.handle = None, !.armed = FALSE] \in Writer
    BY DEF Writer, PcValues, Anything
  <1> QED
    BY <1>1, <1>2 DEF AfterInstall

\* What a writer that cannot be committed any more reports.
RefusedAs(w) == IF wr[w].failure = "none" THEN "NotPublished" ELSE wr[w].failure

\* Writing through the writer.
LEMMA WritePreserves ==
    ASSUME IInv, NEW w \in Writers, Write(w)
    PROVE  wr' \in [Writers -> Writer] /\ WriterInv(w)'
  <1>0. Typed /\ WriterInv(w) /\ wr[w] \in Writer
    BY DEF IInv, Typed
  <1>1. /\ wr[w].holder = "caller" /\ wr[w].pc = "idle" /\ Usable(w) /\ ~crashed
        /\ UNCHANGED <<history, settled, stage, stable, load, crashed>>
    BY DEF Write, Ready
  <1>2. PICK requested \in 1 .. load.maxBytes : \E accepted \in 1 .. requested :
          /\ CheckRequest(w, requested)
          /\ Becomes(w, [wr[w] EXCEPT !.bytes = @ + accepted])
          /\ content' = [content EXCEPT ![w] = @ + accepted]
    BY DEF Write
  <1>a. PICK accepted \in 1 .. requested :
          /\ CheckRequest(w, requested)
          /\ Becomes(w, [wr[w] EXCEPT !.bytes = @ + accepted])
          /\ content' = [content EXCEPT ![w] = @ + accepted]
    BY <1>2
  <1>3. wr[w].bytes \in Nat /\ content[w] \in Nat /\ stable[w] \in Nat /\ load.maxBytes \in Nat
    BY <1>0 DEF Typed, Writer, Workload
  <1>4. wr[w].bytes + accepted \in Nat /\ wr[w].bytes + accepted <= load.maxBytes
    BY <1>a, <1>3, SMTT(30), Z3T(30) DEF CheckRequest
  <1>5. [wr[w] EXCEPT !.bytes = @ + accepted] \in Writer
    BY <1>0, <1>4 DEF Writer
  <1>6. wr' \in [Writers -> Writer] /\ wr'[w] = [wr[w] EXCEPT !.bytes = @ + accepted]
    BY <1>0, <1>a, <1>5, BecomesOne DEF Typed
  <1>7. content'[w] = content[w] + accepted
    BY <1>0, <1>a DEF Typed
  <1>8. LifeInv(w)' /\ OwnerInv(w)' /\ PositionInv(w)'
    BY <1>0, <1>1, <1>6 DEF WriterInv, LifeInv, OwnerInv, PositionInv, Committing, BeforeInstall,
       Staged, Usable, Writer
  <1>9. DiskInv(w)'
    BY <1>0, <1>1, <1>3, <1>4, <1>6, <1>7, SMTT(30), Z3T(30) DEF WriterInv, LifeInv, PositionInv,
       DiskInv, AfterVerify, Writer
  <1>10. ReportInv(w)'
    BY <1>0, <1>1, <1>3, <1>4, <1>6 DEF WriterInv, LifeInv, PositionInv, ReportInv, HasPublished,
       Staged, Usable, Writer
  <1> QED
    BY <1>6, <1>8, <1>9, <1>10 DEF WriterInv

\* Writing through the writer fails for good.
LEMMA StreamFailsPreserves ==
    ASSUME IInv, NEW w \in Writers, StreamFails(w)
    PROVE  wr' \in [Writers -> Writer] /\ WriterInv(w)'
  <1>0. /\ Typed /\ WriterInv(w) /\ wr[w] \in Writer /\ w \in Anything /\ None \in Anything
        /\ w # None
    BY ConstantsAssumption DEF IInv, Typed, Anything
  <1>1. /\ wr[w].holder = "caller" /\ wr[w].pc = "idle" /\ Usable(w)
        /\ UNCHANGED <<history, settled, stage, content, stable, load, crashed>>
    BY DEF StreamFails, Ready, Usable
  <1>2. CASE Becomes(w, [wr[w] EXCEPT !.failure = StreamFailure(w)])
    <2>1. [wr[w] EXCEPT !.failure = StreamFailure(w)] \in Writer
      BY <1>0, <1>2 DEF Writer, StreamFailure
    <2>2. wr' \in [Writers -> Writer] /\ wr'[w] = [wr[w] EXCEPT !.failure = StreamFailure(w)]
      BY <1>0, <1>2, <2>1, BecomesOne DEF Typed
    <2> QED
      BY <1>0, <1>1, <1>2, <2>2 DEF WriterInv, LifeInv, OwnerInv, PositionInv, DiskInv,
         ReportInv, Committing, BeforeInstall, AfterVerify, SyncRequirement, Staged, Usable,
         HasPublished, CallResult, Writer, StreamFailure
  <1> QED
    BY <1>2 DEF StreamFails

\* A commit starts, or is refused.
LEMMA CommitPreserves ==
    ASSUME IInv, NEW w \in Writers, Commit(w)
    PROVE  wr' \in [Writers -> Writer] /\ WriterInv(w)'
  <1>0. /\ Typed /\ WriterInv(w) /\ wr[w] \in Writer /\ w \in Anything /\ None \in Anything
        /\ w # None
    BY ConstantsAssumption DEF IInv, Typed, Anything
  <1>1. /\ wr[w].holder = "caller" /\ wr[w].pc = "idle"
        /\ UNCHANGED <<history, settled, stage, content, stable, load, crashed>>
    BY DEF Commit, Ready
  <1>2. CASE /\ ~Usable(w)
             /\ Becomes(w, [wr[w] EXCEPT !.holder = "gone", !.pc = "drop",
                                         !.result = Result(FALSE, RefusedAs(w), FALSE, FALSE)])
    <2> DEFINE r == [wr[w] EXCEPT !.holder = "gone", !.pc = "drop",
                                  !.result = Result(FALSE, RefusedAs(w), FALSE, FALSE)]
    <2>1. r \in Writer
      BY <1>0, <1>2, ResultTyped DEF Writer, PcValues, RefusedAs
    <2>2. wr' \in [Writers -> Writer] /\ wr'[w] = r
      BY <1>0, <1>2, <2>1, BecomesOne DEF Typed
    <2> QED
      BY <1>0, <1>1, <1>2, <2>2, SMTT(30), Z3T(30) DEF WriterInv, LifeInv, OwnerInv, PositionInv,
         DiskInv, ReportInv, Committing, BeforeInstall, AfterVerify, SyncRequirement, Staged,
         Usable, HasPublished, CallResult, Writer, Result, RefusedAs
  <1>3. CASE Usable(w) /\ Becomes(w, [wr[w] EXCEPT !.pc = IF Staged(w) THEN "open" ELSE "append"])
    <2> DEFINE r == [wr[w] EXCEPT !.pc = IF Staged(w) THEN "open" ELSE "append"]
    <2>1. r \in Writer
      BY <1>0, <1>3 DEF Writer, PcValues
    <2>2. wr' \in [Writers -> Writer] /\ wr'[w] = r
      BY <1>0, <1>3, <2>1, BecomesOne DEF Typed
    <2> QED
      BY <1>0, <1>1, <1>3, <2>2, SMTT(30), Z3T(30) DEF WriterInv, LifeInv, OwnerInv, PositionInv,
         DiskInv, ReportInv, Committing, BeforeInstall, AfterVerify, SyncRequirement, Staged,
         Usable, HasPublished, CallResult, Writer
  <1> QED
    BY <1>2, <1>3 DEF Commit, RefusedAs

\* The commit of an appending writer.
LEMMA CommitAppendPreserves ==
    ASSUME IInv, NEW w \in Writers, CommitAppend(w)
    PROVE  wr' \in [Writers -> Writer] /\ WriterInv(w)'
  <1>0. /\ Typed /\ WriterInv(w) /\ wr[w] \in Writer /\ w \in Anything /\ None \in Anything
        /\ w # None
    BY ConstantsAssumption DEF IInv, Typed, Anything
  <1>1. /\ ~crashed /\ wr[w].pc = "append"
        /\ UNCHANGED <<history, settled, stage, content, load, crashed>>
    BY DEF CommitAppend, At
  <1>2. CASE /\ UNCHANGED stable
             /\ Becomes(w, [wr[w] EXCEPT !.holder = "gone", !.pc = "drop",
                                      !.result = Result(FALSE, "Indeterminate", FALSE, FALSE)])
    <2> DEFINE r == [wr[w] EXCEPT !.holder = "gone", !.pc = "drop",
                                  !.result = Result(FALSE, "Indeterminate", FALSE, FALSE)]
    <2>1. r \in Writer
      BY <1>0, <1>2, ResultTyped DEF Writer, PcValues
    <2>2. wr' \in [Writers -> Writer] /\ wr'[w] = r
      BY <1>0, <1>2, <2>1, BecomesOne DEF Typed
    <2> QED
      BY <1>0, <1>1, <1>2, <2>2, SMTT(30), Z3T(30) DEF WriterInv, LifeInv, OwnerInv, PositionInv,
         DiskInv, ReportInv, Committing, BeforeInstall, AfterVerify, SyncRequirement, Staged,
         Usable, HasPublished, CallResult, Writer, Result
  <1>3. CASE /\ SyncRequirement(w) = "NotRequired" /\ UNCHANGED stable
             /\ Becomes(w, Succeeded(w, FALSE))
    <2>1. Succeeded(w, FALSE) \in Writer
      BY <1>0, <1>3, SucceededTyped
    <2>2. wr' \in [Writers -> Writer] /\ wr'[w] = Succeeded(w, FALSE)
      BY <1>0, <1>3, <2>1, BecomesOne DEF Typed
    <2>3. LifeInv(w)'
      BY <1>0, <1>1, <1>3, <2>2, SMTT(30), Z3T(30) DEF WriterInv, LifeInv, PositionInv,
         Committing, BeforeInstall, Staged, CallResult, Writer, Succeeded, Result
    <2>4. OwnerInv(w)'
      BY <1>0, <1>1, <1>3, <2>2, SMTT(30), ZenonT(60) DEF WriterInv, LifeInv, OwnerInv,
         Committing, BeforeInstall, Staged, Usable, CallResult, Writer, Succeeded, Result
    <2>5. PositionInv(w)'
      BY <1>0, <1>1, <1>3, <2>2, SMTT(30), Z3T(30) DEF WriterInv, LifeInv, OwnerInv, PositionInv,
         Committing, BeforeInstall, Staged, CallResult, Writer, Succeeded, Result
    <2>6. DiskInv(w)'
      BY <1>0, <1>1, <1>3, <2>2, SMTT(30), Z3T(30) DEF WriterInv, LifeInv, PositionInv, DiskInv,
         Committing, BeforeInstall, AfterVerify, SyncRequirement, Staged, CallResult, Writer,
         Succeeded, Result
    <2>7. ReportInv(w)'
      BY <1>0, <1>1, <1>3, <2>2, SMTT(30), Z3T(30) DEF WriterInv, LifeInv, PositionInv, DiskInv,
         ReportInv, Committing, BeforeInstall, AfterVerify, SyncRequirement, Staged,
         HasPublished, CallResult, Writer, Succeeded, Result
    <2> QED
      BY <2>2, <2>3, <2>4, <2>5, <2>6, <2>7 DEF WriterInv
  <1>4. CASE /\ stable' = [stable EXCEPT ![w] = content[w]]
             /\ Becomes(w, Succeeded(w, wr[w].durability # "NotRequired"))
    <2> DEFINE r == Succeeded(w, wr[w].durability # "NotRequired")
    <2>1. r \in Writer
      BY <1>0, <1>4, SucceededTyped
    <2>2. wr' \in [Writers -> Writer] /\ wr'[w] = r
      BY <1>0, <1>4, <2>1, BecomesOne DEF Typed
    <2>3. LifeInv(w)'
      BY <1>0, <1>1, <1>4, <2>2, SMTT(30), Z3T(30) DEF WriterInv, LifeInv, PositionInv,
         Committing, BeforeInstall, Staged, CallResult, Writer, Succeeded, Result, Typed,
         Requirements
    <2>4. OwnerInv(w)'
      BY <1>0, <1>1, <1>4, <2>2, SMTT(30), Z3T(30) DEF WriterInv, LifeInv, OwnerInv, Committing,
         BeforeInstall, Staged, Usable, CallResult, Writer, Succeeded, Result, Typed, Requirements
    <2>5. PositionInv(w)'
      BY <1>0, <1>1, <1>4, <2>2, SMTT(30), Z3T(30) DEF WriterInv, LifeInv, OwnerInv, PositionInv,
         Committing, BeforeInstall, Staged, CallResult, Writer, Succeeded, Result, Typed,
         Requirements
    <2>6. DiskInv(w)'
      BY <1>0, <1>1, <1>4, <2>2, SMTT(30), Z3T(30) DEF WriterInv, LifeInv, PositionInv, DiskInv,
         Committing, BeforeInstall, AfterVerify, SyncRequirement, Staged, CallResult, Writer,
         Succeeded, Result, Typed, Requirements
    <2>7. ReportInv(w)'
      BY <1>0, <1>1, <1>4, <2>2, SMTT(30), Z3T(30) DEF WriterInv, LifeInv, PositionInv, DiskInv,
         ReportInv, Committing, BeforeInstall, AfterVerify, SyncRequirement, Staged,
         HasPublished, CallResult, Writer, Succeeded, Result, Typed, Requirements
    <2> QED
      BY <2>2, <2>3, <2>4, <2>5, <2>6, <2>7 DEF WriterInv
  <1>5. CASE /\ SyncRequirement(w) = "Preferred" /\ UNCHANGED stable
             /\ Becomes(w, Succeeded(w, FALSE))
    <2>1. Succeeded(w, FALSE) \in Writer
      BY <1>0, <1>5, SucceededTyped
    <2>2. wr' \in [Writers -> Writer] /\ wr'[w] = Succeeded(w, FALSE)
      BY <1>0, <1>5, <2>1, BecomesOne DEF Typed
    <2>3. LifeInv(w)'
      BY <1>0, <1>1, <1>5, <2>2, SMTT(30), Z3T(30) DEF WriterInv, LifeInv, PositionInv,
         Committing, BeforeInstall, Staged, CallResult, Writer, Succeeded, Result
    <2>4. OwnerInv(w)'
      BY <1>0, <1>1, <1>5, <2>2, SMTT(30), Z3T(30) DEF WriterInv, LifeInv, OwnerInv, Committing,
         BeforeInstall, Staged, Usable, CallResult, Writer, Succeeded, Result
    <2>5. PositionInv(w)'
      BY <1>0, <1>1, <1>5, <2>2, SMTT(30), Z3T(30) DEF WriterInv, LifeInv, OwnerInv, PositionInv,
         Committing, BeforeInstall, Staged, CallResult, Writer, Succeeded, Result
    <2>6. DiskInv(w)'
      BY <1>0, <1>1, <1>5, <2>2, SMTT(30), Z3T(30) DEF WriterInv, LifeInv, PositionInv, DiskInv,
         Committing, BeforeInstall, AfterVerify, SyncRequirement, Staged, CallResult, Writer,
         Succeeded, Result
    <2>7. ReportInv(w)'
      BY <1>0, <1>1, <1>5, <2>2, SMTT(30), Z3T(30) DEF WriterInv, LifeInv, PositionInv, DiskInv,
         ReportInv, Committing, BeforeInstall, AfterVerify, SyncRequirement, Staged,
         HasPublished, CallResult, Writer, Succeeded, Result
    <2> QED
      BY <2>2, <2>3, <2>4, <2>5, <2>6, <2>7 DEF WriterInv
  <1>6. CASE /\ UNCHANGED stable
             /\ Becomes(w, [wr[w] EXCEPT !.holder = "gone", !.pc = "drop",
                                      !.result = Result(FALSE, StreamFailure(w), FALSE, FALSE)])
    <2> DEFINE r == [wr[w] EXCEPT !.holder = "gone", !.pc = "drop",
                                  !.result = Result(FALSE, StreamFailure(w), FALSE, FALSE)]
    <2>1. r \in Writer
      BY <1>0, <1>6, ResultTyped DEF Writer, PcValues, StreamFailure
    <2>2. wr' \in [Writers -> Writer] /\ wr'[w] = r
      BY <1>0, <1>6, <2>1, BecomesOne DEF Typed
    <2> QED
      BY <1>0, <1>1, <1>6, <2>2, SMTT(30), Z3T(30) DEF WriterInv, LifeInv, OwnerInv, PositionInv,
         DiskInv, ReportInv, Committing, BeforeInstall, AfterVerify, SyncRequirement, Staged,
         Usable, HasPublished, CallResult, Writer, Result, StreamFailure
  <1> QED
    BY <1>2, <1>3, <1>4, <1>5, <1>6 DEF CommitAppend, At, AppendFailed

\* The commit looks at the destination.
LEMMA CommitOpenPreserves ==
    ASSUME IInv, NEW w \in Writers, CommitOpen(w)
    PROVE  wr' \in [Writers -> Writer] /\ WriterInv(w)'
  <1>0. /\ Typed /\ WriterInv(w) /\ wr[w] \in Writer /\ w \in Anything /\ None \in Anything
        /\ w # None
    BY ConstantsAssumption DEF IInv, Typed, Anything
  <1>1. /\ ~crashed /\ wr[w].pc = "open"
        /\ UNCHANGED <<history, settled, stage, content, stable, load, crashed>>
    BY DEF CommitOpen, At
  <1>2. CASE Becomes(w, [wr[w] EXCEPT !.pc = "prepare", !.seen = None])
    <2> DEFINE r == [wr[w] EXCEPT !.pc = "prepare", !.seen = None]
    <2>1. r \in Writer
      BY <1>0, <1>2 DEF Writer, PcValues
    <2>2. wr' \in [Writers -> Writer] /\ wr'[w] = r
      BY <1>0, <1>2, <2>1, BecomesOne DEF Typed
    <2> QED
      BY <1>0, <1>1, <1>2, <2>2, SMTT(30), Z3T(30) DEF WriterInv, LifeInv, OwnerInv, PositionInv,
         DiskInv, ReportInv, Committing, BeforeInstall, AfterVerify, SyncRequirement, Staged,
         Usable, HasPublished, CallResult, Writer
  <1>3. CASE Becomes(w, [wr[w] EXCEPT !.pc = "prepare", !.seen = Target])
    <2> DEFINE r == [wr[w] EXCEPT !.pc = "prepare", !.seen = Target]
    <2>1. r \in Writer
      BY <1>0, <1>3, TargetTyped DEF Writer, PcValues
    <2>2. wr' \in [Writers -> Writer] /\ wr'[w] = r
      BY <1>0, <1>3, <2>1, BecomesOne DEF Typed
    <2> QED
      BY <1>0, <1>1, <1>3, <2>2, SMTT(30), Z3T(30) DEF WriterInv, LifeInv, OwnerInv, PositionInv,
         DiskInv, ReportInv, Committing, BeforeInstall, AfterVerify, SyncRequirement, Staged,
         Usable, HasPublished, CallResult, Writer
  <1>4. CASE Becomes(w, Failed(w, "NotPublished"))
    <2>1. Failed(w, "NotPublished") \in Writer
      BY <1>0, <1>4, FailedTyped
    <2>2. wr' \in [Writers -> Writer] /\ wr'[w] = Failed(w, "NotPublished")
      BY <1>0, <1>4, <2>1, BecomesOne DEF Typed
    <2> QED
      BY <1>0, <1>1, <1>4, <2>2, SMTT(30), Z3T(30) DEF WriterInv, LifeInv, OwnerInv, PositionInv,
         DiskInv, ReportInv, Committing, BeforeInstall, AfterVerify, SyncRequirement, Staged,
         Usable, HasPublished, CallResult, Writer, Failed, Result
  <1> QED
    BY <1>2, <1>3, <1>4 DEF CommitOpen

\* The staging file is synchronised as far as required.
LEMMA CommitPreparePreserves ==
    ASSUME IInv, NEW w \in Writers, CommitPrepare(w)
    PROVE  wr' \in [Writers -> Writer] /\ WriterInv(w)'
  <1>0. /\ Typed /\ WriterInv(w) /\ wr[w] \in Writer /\ w \in Anything /\ None \in Anything
        /\ w # None
    BY ConstantsAssumption DEF IInv, Typed, Anything
  <1>1. /\ ~crashed /\ wr[w].pc = "prepare"
        /\ UNCHANGED <<history, settled, stage, content, load, crashed>>
    BY DEF CommitPrepare, At
  <1>2. CASE /\ SyncRequirement(w) # "Required" /\ UNCHANGED stable
             /\ Becomes(w, [wr[w] EXCEPT !.pc = "verify", !.synced = FALSE])
    <2> DEFINE r == [wr[w] EXCEPT !.pc = "verify", !.synced = FALSE]
    <2>1. r \in Writer
      BY <1>0, <1>2 DEF Writer, PcValues
    <2>2. wr' \in [Writers -> Writer] /\ wr'[w] = r
      BY <1>0, <1>2, <2>1, BecomesOne DEF Typed
    <2> QED
      BY <1>0, <1>1, <1>2, <2>2, SMTT(30), Z3T(30) DEF WriterInv, LifeInv, OwnerInv, PositionInv,
         DiskInv, ReportInv, Committing, BeforeInstall, AfterVerify, SyncRequirement, Staged,
         Usable, HasPublished, CallResult, Writer
  <1>3. CASE /\ stable' = [stable EXCEPT ![w] = content[w]]
             /\ Becomes(w, [wr[w] EXCEPT !.pc = "verify", !.synced = TRUE])
    <2> DEFINE r == [wr[w] EXCEPT !.pc = "verify", !.synced = TRUE]
    <2>1. r \in Writer
      BY <1>0, <1>3 DEF Writer, PcValues
    <2>2. wr' \in [Writers -> Writer] /\ wr'[w] = r
      BY <1>0, <1>3, <2>1, BecomesOne DEF Typed
    <2>3. LifeInv(w)'
      BY <1>0, <1>1, <1>3, <2>2 DEF WriterInv, LifeInv, PositionInv, Committing, BeforeInstall,
         Staged, CallResult, Writer, Typed
    <2>4. OwnerInv(w)'
      BY <1>0, <1>1, <1>3, <2>2, SMTT(30), Z3T(30) DEF WriterInv, LifeInv, OwnerInv, Committing,
         BeforeInstall, Staged, Usable, CallResult, Writer, Typed
    <2>5. PositionInv(w)'
      BY <1>0, <1>1, <1>3, <2>2, SMTT(30), ZenonT(60) DEF WriterInv, LifeInv, OwnerInv,
         PositionInv, Committing, BeforeInstall, Staged, CallResult, Writer, Typed
    <2>6. DiskInv(w)'
      BY <1>0, <1>1, <1>3, <2>2, SMTT(30), Z3T(30) DEF WriterInv, LifeInv, PositionInv, DiskInv,
         Committing, BeforeInstall, AfterVerify, SyncRequirement, Staged, CallResult, Writer,
         Typed
    <2>7. ReportInv(w)'
      BY <1>0, <1>1, <1>3, <2>2 DEF WriterInv, LifeInv, PositionInv, DiskInv, ReportInv,
         Committing, BeforeInstall, AfterVerify, SyncRequirement, Staged, HasPublished,
         CallResult, Writer, Typed
    <2> QED
      BY <2>2, <2>3, <2>4, <2>5, <2>6, <2>7 DEF WriterInv
  <1>4. CASE UNCHANGED stable /\ Becomes(w, Failed(w, "NotPublished"))
    <2>1. Failed(w, "NotPublished") \in Writer
      BY <1>0, <1>4, FailedTyped
    <2>2. wr' \in [Writers -> Writer] /\ wr'[w] = Failed(w, "NotPublished")
      BY <1>0, <1>4, <2>1, BecomesOne DEF Typed
    <2> QED
      BY <1>0, <1>1, <1>4, <2>2, SMTT(30), Z3T(30) DEF WriterInv, LifeInv, OwnerInv, PositionInv,
         DiskInv, ReportInv, Committing, BeforeInstall, AfterVerify, SyncRequirement, Staged,
         Usable, HasPublished, CallResult, Writer, Failed, Result
  <1> QED
    BY <1>2, <1>3, <1>4 DEF CommitPrepare

\* The destination is compared with what the commit saw.
LEMMA CommitVerifyPreserves ==
    ASSUME IInv, NEW w \in Writers, CommitVerify(w)
    PROVE  wr' \in [Writers -> Writer] /\ WriterInv(w)'
  <1>0. /\ Typed /\ WriterInv(w) /\ wr[w] \in Writer /\ w \in Anything /\ None \in Anything
        /\ w # None
    BY ConstantsAssumption DEF IInv, Typed, Anything
  <1>1. /\ ~crashed /\ wr[w].pc = "verify"
        /\ UNCHANGED <<history, settled, stage, content, stable, load, crashed>>
    BY DEF CommitVerify, At
  <1>2. CASE Becomes(w, [wr[w] EXCEPT !.pc = "install"])
    <2>1. [wr[w] EXCEPT !.pc = "install"] \in Writer
      BY <1>0, <1>2 DEF Writer, PcValues
    <2>2. wr' \in [Writers -> Writer] /\ wr'[w] = [wr[w] EXCEPT !.pc = "install"]
      BY <1>0, <1>2, <2>1, BecomesOne DEF Typed
    <2> QED
      BY <1>0, <1>1, <1>2, <2>2, SMTT(30), Z3T(30) DEF WriterInv, LifeInv, OwnerInv, PositionInv,
         DiskInv, ReportInv, Committing, BeforeInstall, AfterVerify, SyncRequirement, Staged,
         Usable, HasPublished, CallResult, Writer
  <1>3. CASE Becomes(w, Failed(w, "NotPublished"))
    <2>1. Failed(w, "NotPublished") \in Writer
      BY <1>0, <1>3, FailedTyped
    <2>2. wr' \in [Writers -> Writer] /\ wr'[w] = Failed(w, "NotPublished")
      BY <1>0, <1>3, <2>1, BecomesOne DEF Typed
    <2> QED
      BY <1>0, <1>1, <1>3, <2>2, SMTT(30), Z3T(30) DEF WriterInv, LifeInv, OwnerInv, PositionInv,
         DiskInv, ReportInv, Committing, BeforeInstall, AfterVerify, SyncRequirement, Staged,
         Usable, HasPublished, CallResult, Writer, Failed, Result
  <1> QED
    BY <1>2, <1>3 DEF CommitVerify

\* The native call that installs the staging entry.
LEMMA CommitInstallPreserves ==
    ASSUME IInv, NEW w \in Writers, CommitInstall(w)
    PROVE  wr' \in [Writers -> Writer] /\ WriterInv(w)'
  <1>0. /\ Typed /\ WriterInv(w) /\ wr[w] \in Writer /\ w \in Anything /\ None \in Anything
        /\ w # None
    BY ConstantsAssumption DEF IInv, Typed, Anything
  <1>1. /\ ~crashed /\ wr[w].pc = "install"
        /\ UNCHANGED <<settled, content, stable, load, crashed>>
    BY DEF CommitInstall, At
  <1>2. CASE /\ history' = Append(history, stage[w]) /\ stage' = [stage EXCEPT ![w] = None]
             /\ Becomes(w, [AfterInstall(w) EXCEPT !.position = Len(history) + 1])
    <2> DEFINE r == [AfterInstall(w) EXCEPT !.position = Len(history) + 1]
    <2>0. AfterInstall(w) \in Writer /\ Len(history) + 1 \in Nat
      BY <1>0, AfterInstallTyped, SMTT(30), Z3T(30) DEF Typed
    <2>1. r \in Writer
      BY <1>0, <1>2, <2>0 DEF Writer
    <2>2. wr' \in [Writers -> Writer] /\ wr'[w] = r
      BY <1>0, <1>2, <2>1, BecomesOne DEF Typed
    <2>3. LifeInv(w)'
      BY <1>0, <1>1, <1>2, <2>2, SMTT(30), Z3T(30) DEF WriterInv, LifeInv, PositionInv,
         Committing, BeforeInstall, Staged, CallResult, Writer, AfterInstall, Succeeded, Result,
         Typed
    <2>4. OwnerInv(w)'
      BY <1>0, <1>1, <1>2, <2>2, SMTT(30), Z3T(30) DEF WriterInv, LifeInv, OwnerInv, Committing,
         BeforeInstall, Staged, Usable, CallResult, Writer, AfterInstall, Succeeded, Result, Typed
    <2>5. PositionInv(w)'
      BY <1>0, <1>1, <1>2, <2>2, SMTT(30), Z3T(30) DEF WriterInv, LifeInv, OwnerInv, PositionInv,
         Committing, BeforeInstall, Staged, CallResult, Writer, AfterInstall, Succeeded, Result,
         Typed
    <2>6. DiskInv(w)'
      BY <1>0, <1>1, <1>2, <2>2, SMTT(30), Z3T(30) DEF WriterInv, LifeInv, PositionInv, DiskInv,
         Committing, BeforeInstall, AfterVerify, SyncRequirement, Staged, CallResult, Writer,
         AfterInstall, Succeeded, Result, Typed
    <2>7. ReportInv(w)'
      BY <1>0, <1>1, <1>2, <2>2, SMTT(30), Z3T(30) DEF WriterInv, LifeInv, PositionInv, DiskInv,
         ReportInv, Committing, BeforeInstall, AfterVerify, SyncRequirement, Staged,
         HasPublished, CallResult, Writer, AfterInstall, Succeeded, Result, Typed
    <2> QED
      BY <2>2, <2>3, <2>4, <2>5, <2>6, <2>7 DEF WriterInv
  <1>3. CASE /\ history' = Append(history, stage[w]) /\ UNCHANGED stage
             /\ Becomes(w, [wr[w] EXCEPT !.pc = "unlink", !.handle = None, !.tries = 0,
                                         !.position = Len(history) + 1])
    <2> DEFINE r == [wr[w] EXCEPT !.pc = "unlink", !.handle = None, !.tries = 0,
                                  !.position = Len(history) + 1]
    <2>0. Len(history) + 1 \in Nat
      BY <1>0, SMTT(30), Z3T(30) DEF Typed
    <2>1. r \in Writer
      BY <1>0, <1>3, <2>0 DEF Writer, PcValues
    <2>2. wr' \in [Writers -> Writer] /\ wr'[w] = r
      BY <1>0, <1>3, <2>1, BecomesOne DEF Typed
    <2> QED
      BY <1>0, <1>1, <1>3, <2>2, SMTT(30), Z3T(30) DEF WriterInv, LifeInv, OwnerInv, PositionInv,
         DiskInv, ReportInv, Committing, BeforeInstall, AfterVerify, SyncRequirement, Staged,
         Usable, HasPublished, CallResult, Writer, Typed
  <1>4. CASE /\ UNCHANGED <<history, stage>>
             /\ Becomes(w, [wr[w] EXCEPT !.pc = "recover", !.handle = None, !.replaced = FALSE])
    <2> DEFINE r == [wr[w] EXCEPT !.pc = "recover", !.handle = None, !.replaced = FALSE]
    <2>1. r \in Writer
      BY <1>0, <1>4 DEF Writer, PcValues
    <2>2. wr' \in [Writers -> Writer] /\ wr'[w] = r
      BY <1>0, <1>4, <2>1, BecomesOne DEF Typed
    <2> QED
      BY <1>0, <1>1, <1>4, <2>2, SMTT(30), Z3T(30) DEF WriterInv, LifeInv, OwnerInv, PositionInv,
         DiskInv, ReportInv, Committing, BeforeInstall, AfterVerify, SyncRequirement, Staged,
         Usable, HasPublished, CallResult, Writer
  <1> QED
    BY <1>2, <1>3, <1>4 DEF CommitInstall, ReplaceExisting, RenameNoReplace, LinkNew,
       InstallFails, Install

\* The staging name of a linked destination is removed.
LEMMA CommitUnlinkPreserves ==
    ASSUME IInv, NEW w \in Writers, CommitUnlink(w)
    PROVE  wr' \in [Writers -> Writer] /\ WriterInv(w)'
  <1>0. /\ Typed /\ WriterInv(w) /\ wr[w] \in Writer /\ w \in Anything /\ None \in Anything
        /\ w # None
    BY ConstantsAssumption DEF IInv, Typed, Anything
  <1>1. /\ ~crashed /\ wr[w].pc = "unlink"
        /\ UNCHANGED <<history, settled, content, stable, load, crashed>>
    BY DEF CommitUnlink, At
  <1>2. CASE stage' = [stage EXCEPT ![w] = None] /\ Becomes(w, AfterInstall(w))
    <2>1. AfterInstall(w) \in Writer
      BY <1>0, <1>2, AfterInstallTyped
    <2>2. wr' \in [Writers -> Writer] /\ wr'[w] = AfterInstall(w)
      BY <1>0, <1>2, <2>1, BecomesOne DEF Typed
    <2>3. LifeInv(w)'
      BY <1>0, <1>1, <1>2, <2>2, SMTT(30), Z3T(30) DEF WriterInv, LifeInv, PositionInv,
         Committing, BeforeInstall, Staged, CallResult, Writer, AfterInstall, Succeeded, Result,
         Typed
    <2>4. OwnerInv(w)'
      BY <1>0, <1>1, <1>2, <2>2, SMTT(30), Z3T(30) DEF WriterInv, LifeInv, OwnerInv, Committing,
         BeforeInstall, Staged, Usable, CallResult, Writer, AfterInstall, Succeeded, Result, Typed
    <2>5. PositionInv(w)'
      BY <1>0, <1>1, <1>2, <2>2, SMTT(30), Z3T(30) DEF WriterInv, LifeInv, OwnerInv, PositionInv,
         Committing, BeforeInstall, Staged, CallResult, Writer, AfterInstall, Succeeded, Result,
         Typed
    <2>6. DiskInv(w)'
      BY <1>0, <1>1, <1>2, <2>2, SMTT(30), Z3T(30) DEF WriterInv, LifeInv, PositionInv, DiskInv,
         Committing, BeforeInstall, AfterVerify, SyncRequirement, Staged, CallResult, Writer,
         AfterInstall, Succeeded, Result, Typed
    <2>7. ReportInv(w)'
      BY <1>0, <1>1, <1>2, <2>2, SMTT(30), Z3T(30) DEF WriterInv, LifeInv, PositionInv, DiskInv,
         ReportInv, Committing, BeforeInstall, AfterVerify, SyncRequirement, Staged,
         HasPublished, CallResult, Writer, AfterInstall, Succeeded, Result, Typed
    <2> QED
      BY <2>2, <2>3, <2>4, <2>5, <2>6, <2>7 DEF WriterInv
  <1>3. CASE /\ UNCHANGED stage
             /\ Becomes(w, [wr[w] EXCEPT !.tries = @ + 1, !.replaced = TRUE,
                       !.pc = IF wr[w].tries = 1 THEN "recover" ELSE "unlink"])
    <2> DEFINE r == [wr[w] EXCEPT !.tries = @ + 1, !.replaced = TRUE,
                                  !.pc = IF wr[w].tries = 1 THEN "recover" ELSE "unlink"]
    <2>0. wr[w].tries + 1 \in Nat
      BY <1>0, SMTT(30), Z3T(30) DEF Writer
    <2>1. r \in Writer
      BY <1>0, <1>3, <2>0 DEF Writer, PcValues
    <2>2. wr' \in [Writers -> Writer] /\ wr'[w] = r
      BY <1>0, <1>3, <2>1, BecomesOne DEF Typed
    <2> QED
      BY <1>0, <1>1, <1>3, <2>2, SMTT(30), Z3T(30) DEF WriterInv, LifeInv, OwnerInv, PositionInv,
         DiskInv, ReportInv, Committing, BeforeInstall, AfterVerify, SyncRequirement, Staged,
         Usable, HasPublished, CallResult, Writer
  <1> QED
    BY <1>2, <1>3 DEF CommitUnlink

\* The recovery of an installation that failed or left the staging name.
LEMMA CommitRecoverPreserves ==
    ASSUME IInv, NEW w \in Writers, CommitRecover(w)
    PROVE  wr' \in [Writers -> Writer] /\ WriterInv(w)'
  <1>0. /\ Typed /\ WriterInv(w) /\ wr[w] \in Writer /\ w \in Anything /\ None \in Anything
        /\ w # None
    BY ConstantsAssumption DEF IInv, Typed, Anything
  <1>1. /\ ~crashed /\ wr[w].pc = "recover"
        /\ UNCHANGED <<history, content, stable, load, crashed>>
    BY DEF CommitRecover, At
  <1>2. CASE Cleaned(w) /\ wr[w].replaced /\ UNCHANGED settled /\ Becomes(w, AfterInstall(w))
    <2>1. AfterInstall(w) \in Writer
      BY <1>0, <1>2, AfterInstallTyped
    <2>2. wr' \in [Writers -> Writer] /\ wr'[w] = AfterInstall(w)
      BY <1>0, <1>2, <2>1, BecomesOne DEF Typed
    <2>3. LifeInv(w)'
      BY <1>0, <1>1, <1>2, <2>2, SMTT(30), Z3T(30) DEF WriterInv, LifeInv, PositionInv,
         Committing, BeforeInstall, Staged, CallResult, Writer, AfterInstall, Succeeded, Result,
         Typed, Cleaned
    <2>4. OwnerInv(w)'
      BY <1>0, <1>1, <1>2, <2>2, SMTT(30), Z3T(30) DEF WriterInv, LifeInv, OwnerInv, Committing,
         BeforeInstall, Staged, Usable, CallResult, Writer, AfterInstall, Succeeded, Result,
         Typed, Cleaned
    <2>5. PositionInv(w)'
      BY <1>0, <1>1, <1>2, <2>2, SMTT(30), Z3T(30) DEF WriterInv, LifeInv, OwnerInv, PositionInv,
         Committing, BeforeInstall, Staged, CallResult, Writer, AfterInstall, Succeeded, Result,
         Typed, Cleaned
    <2>6. DiskInv(w)'
      BY <1>0, <1>1, <1>2, <2>2, SMTT(30), Z3T(30) DEF WriterInv, LifeInv, PositionInv, DiskInv,
         Committing, BeforeInstall, AfterVerify, SyncRequirement, Staged, CallResult, Writer,
         AfterInstall, Succeeded, Result, Typed, Cleaned
    <2>7. ReportInv(w)'
      BY <1>0, <1>1, <1>2, <2>2, SMTT(30), Z3T(30) DEF WriterInv, LifeInv, PositionInv, DiskInv,
         ReportInv, Committing, BeforeInstall, AfterVerify, SyncRequirement, Staged,
         HasPublished, CallResult, Writer, AfterInstall, Succeeded, Result, Typed, Cleaned
    <2> QED
      BY <2>2, <2>3, <2>4, <2>5, <2>6, <2>7 DEF WriterInv
  <1>3. CASE /\ Cleaned(w) /\ ~wr[w].replaced /\ UNCHANGED settled
             /\ Becomes(w, [Failed(w, "NotPublished") EXCEPT !.armed = FALSE])
    <2> DEFINE r == [Failed(w, "NotPublished") EXCEPT !.armed = FALSE]
    <2>0. Failed(w, "NotPublished") \in Writer
      BY <1>0, FailedTyped
    <2>1. r \in Writer
      BY <1>0, <1>3, <2>0 DEF Writer
    <2>2. wr' \in [Writers -> Writer] /\ wr'[w] = r
      BY <1>0, <1>3, <2>1, BecomesOne DEF Typed
    <2>3. LifeInv(w)'
      BY <1>0, <1>1, <1>3, <2>2, SMTT(30), Z3T(30) DEF WriterInv, LifeInv, OwnerInv, PositionInv,
         Committing, BeforeInstall, Staged, CallResult, Writer, Failed, Result, Typed, Cleaned
    <2>4. OwnerInv(w)'
      BY <1>0, <1>1, <1>3, <2>2, SMTT(30), Z3T(30) DEF WriterInv, LifeInv, OwnerInv, Committing,
         BeforeInstall, Staged, Usable, CallResult, Writer, Failed, Result, Typed, Cleaned
    <2>5. PositionInv(w)'
      BY <1>0, <1>1, <1>3, <2>2, SMTT(30), Z3T(30) DEF WriterInv, LifeInv, OwnerInv, PositionInv,
         Committing, BeforeInstall, Staged, CallResult, Writer, Failed, Result, Typed, Cleaned
    <2>6. DiskInv(w)'
      BY <1>0, <1>1, <1>3, <2>2, SMTT(30), Z3T(30) DEF WriterInv, LifeInv, OwnerInv, PositionInv,
         DiskInv, Committing, BeforeInstall, AfterVerify, SyncRequirement, Staged, CallResult,
         Writer, Failed, Result, Typed, Cleaned
    <2>7. ReportInv(w)'
      BY <1>0, <1>1, <1>3, <2>2, SMTT(30), Z3T(30) DEF WriterInv, LifeInv, OwnerInv, PositionInv,
         DiskInv, ReportInv, Committing, BeforeInstall, AfterVerify, SyncRequirement, Staged,
         HasPublished, CallResult, Writer, Failed, Result, Typed, Cleaned
    <2> QED
      BY <2>2, <2>3, <2>4, <2>5, <2>6, <2>7 DEF WriterInv
  <1>4. CASE /\ CleanupFails(w) /\ settled' \in {settled, Len(history)}
             /\ Becomes(w, [Failed(w, IF wr[w].replaced THEN "Published" ELSE "NotPublished")
                           EXCEPT !.stuck = TRUE])
    <2> DEFINE r == [Failed(w, IF wr[w].replaced THEN "Published" ELSE "NotPublished")
                                  EXCEPT !.stuck = TRUE]
    <2>0. Failed(w, IF wr[w].replaced THEN "Published" ELSE "NotPublished") \in Writer
      BY <1>0, FailedTyped
    <2>1. r \in Writer
      BY <1>0, <1>4, <2>0 DEF Writer
    <2>2. wr' \in [Writers -> Writer] /\ wr'[w] = r
      BY <1>0, <1>4, <2>1, BecomesOne DEF Typed
    <2>3. LifeInv(w)'
      BY <1>0, <1>1, <1>4, <2>2, SMTT(30), Z3T(30) DEF WriterInv, LifeInv, OwnerInv, PositionInv,
         Committing, BeforeInstall, Staged, CallResult, Writer, Failed, Result, Typed,
         CleanupFails
    <2>4. OwnerInv(w)'
      BY <1>0, <1>1, <1>4, <2>2, SMTT(30), ZenonT(60) DEF WriterInv, LifeInv, OwnerInv,
         Committing, BeforeInstall, Staged, Usable, CallResult, Writer, Failed, Result, Typed,
         CleanupFails
    <2>5. PositionInv(w)'
      BY <1>0, <1>1, <1>4, <2>2, SMTT(30), Z3T(30) DEF WriterInv, LifeInv, OwnerInv, PositionInv,
         Committing, BeforeInstall, Staged, CallResult, Writer, Failed, Result, Typed,
         CleanupFails
    <2>6. DiskInv(w)'
      BY <1>0, <1>1, <1>4, <2>2, SMTT(30), Z3T(30) DEF WriterInv, LifeInv, OwnerInv, PositionInv,
         DiskInv, Committing, BeforeInstall, AfterVerify, SyncRequirement, Staged, CallResult,
         Writer, Failed, Result, Typed, CleanupFails
    <2>7. ReportInv(w)'
      BY <1>0, <1>1, <1>4, <2>2, SMTT(30), Z3T(30) DEF WriterInv, LifeInv, OwnerInv, PositionInv,
         DiskInv, ReportInv, Committing, BeforeInstall, AfterVerify, SyncRequirement, Staged,
         HasPublished, CallResult, Writer, Failed, Result, Typed, CleanupFails
    <2> QED
      BY <2>2, <2>3, <2>4, <2>5, <2>6, <2>7 DEF WriterInv
  <1> QED
    BY <1>2, <1>3, <1>4 DEF CommitRecover

\* The parent directory is synchronised.
LEMMA CommitSyncParentPreserves ==
    ASSUME IInv, NEW w \in Writers, CommitSyncParent(w)
    PROVE  wr' \in [Writers -> Writer] /\ WriterInv(w)'
  <1>0. /\ Typed /\ WriterInv(w) /\ wr[w] \in Writer /\ w \in Anything /\ None \in Anything
        /\ w # None
    BY ConstantsAssumption DEF IInv, Typed, Anything
  <1>1. /\ ~crashed /\ wr[w].pc = "parent"
        /\ UNCHANGED <<history, stage, content, stable, load, crashed>>
    BY DEF CommitSyncParent, At
  <1>2. CASE settled' = Len(history) /\ Becomes(w, Succeeded(w, wr[w].synced))
    <2>1. Succeeded(w, wr[w].synced) \in Writer
      BY <1>0, <1>2, SucceededTyped DEF Writer
    <2>2. wr' \in [Writers -> Writer] /\ wr'[w] = Succeeded(w, wr[w].synced)
      BY <1>0, <1>2, <2>1, BecomesOne DEF Typed
    <2>3. LifeInv(w)'
      BY <1>0, <1>1, <1>2, <2>2, SMTT(30), Z3T(30) DEF WriterInv, LifeInv, PositionInv,
         Committing, BeforeInstall, Staged, CallResult, Writer, Succeeded, Result, Typed
    <2>4. OwnerInv(w)'
      BY <1>0, <1>1, <1>2, <2>2, SMTT(30), ZenonT(60) DEF WriterInv, LifeInv, OwnerInv,
         Committing, BeforeInstall, Staged, Usable, CallResult, Writer, Succeeded, Result, Typed
    <2>5. PositionInv(w)'
      BY <1>0, <1>1, <1>2, <2>2, SMTT(30), Z3T(30) DEF WriterInv, LifeInv, OwnerInv, PositionInv,
         Committing, BeforeInstall, Staged, CallResult, Writer, Succeeded, Result, Typed
    <2>6. DiskInv(w)'
      BY <1>0, <1>1, <1>2, <2>2, SMTT(30), Z3T(30) DEF WriterInv, LifeInv, PositionInv, DiskInv,
         Committing, BeforeInstall, AfterVerify, SyncRequirement, Staged, CallResult, Writer,
         Succeeded, Result, Typed
    <2>7. ReportInv(w)'
      BY <1>0, <1>1, <1>2, <2>2, SMTT(30), Z3T(30) DEF WriterInv, LifeInv, PositionInv, DiskInv,
         ReportInv, Committing, BeforeInstall, AfterVerify, SyncRequirement, Staged,
         HasPublished, CallResult, Writer, Succeeded, Result, Typed
    <2> QED
      BY <2>2, <2>3, <2>4, <2>5, <2>6, <2>7 DEF WriterInv
  <1>3. CASE /\ wr[w].durability = "Preferred" /\ settled' \in {settled, Len(history)}
             /\ Becomes(w, Succeeded(w, FALSE))
    <2>1. Succeeded(w, FALSE) \in Writer
      BY <1>0, <1>3, SucceededTyped
    <2>2. wr' \in [Writers -> Writer] /\ wr'[w] = Succeeded(w, FALSE)
      BY <1>0, <1>3, <2>1, BecomesOne DEF Typed
    <2>3. LifeInv(w)'
      BY <1>0, <1>1, <1>3, <2>2, SMTT(30), Z3T(30) DEF WriterInv, LifeInv, PositionInv,
         Committing, BeforeInstall, Staged, CallResult, Writer, Succeeded, Result, Typed
    <2>4. OwnerInv(w)'
      BY <1>0, <1>1, <1>3, <2>2, SMTT(30), ZenonT(60) DEF WriterInv, LifeInv, OwnerInv,
         Committing, BeforeInstall, Staged, Usable, CallResult, Writer, Succeeded, Result, Typed
    <2>5. PositionInv(w)'
      BY <1>0, <1>1, <1>3, <2>2, SMTT(30), Z3T(30) DEF WriterInv, LifeInv, OwnerInv, PositionInv,
         Committing, BeforeInstall, Staged, CallResult, Writer, Succeeded, Result, Typed
    <2>6. DiskInv(w)'
      BY <1>0, <1>1, <1>3, <2>2, SMTT(30), Z3T(30) DEF WriterInv, LifeInv, PositionInv, DiskInv,
         Committing, BeforeInstall, AfterVerify, SyncRequirement, Staged, CallResult, Writer,
         Succeeded, Result, Typed
    <2>7. ReportInv(w)'
      BY <1>0, <1>1, <1>3, <2>2, SMTT(30), Z3T(30) DEF WriterInv, LifeInv, PositionInv, DiskInv,
         ReportInv, Committing, BeforeInstall, AfterVerify, SyncRequirement, Staged,
         HasPublished, CallResult, Writer, Succeeded, Result, Typed
    <2> QED
      BY <2>2, <2>3, <2>4, <2>5, <2>6, <2>7 DEF WriterInv
  <1>4. CASE settled' \in {settled, Len(history)} /\ Becomes(w, Failed(w, "Published"))
    <2>1. Failed(w, "Published") \in Writer
      BY <1>0, <1>4, FailedTyped
    <2>2. wr' \in [Writers -> Writer] /\ wr'[w] = Failed(w, "Published")
      BY <1>0, <1>4, <2>1, BecomesOne DEF Typed
    <2> QED
      BY <1>0, <1>1, <1>4, <2>2, SMTT(30), Z3T(30) DEF WriterInv, LifeInv, OwnerInv, PositionInv,
         DiskInv, ReportInv, Committing, BeforeInstall, AfterVerify, SyncRequirement, Staged,
         Usable, HasPublished, CallResult, Writer, Failed, Result, Typed
  <1> QED
    BY <1>2, <1>3, <1>4 DEF CommitSyncParent, ParentSynced, ParentUnsynced

\* Abort.
LEMMA AbortPreserves ==
    ASSUME IInv, NEW w \in Writers, Abort(w)
    PROVE  wr' \in [Writers -> Writer] /\ WriterInv(w)'
  <1>0. /\ Typed /\ WriterInv(w) /\ wr[w] \in Writer /\ w \in Anything /\ None \in Anything
        /\ w # None
    BY ConstantsAssumption DEF IInv, Typed, Anything
  <1>1. /\ wr[w].holder = "caller" /\ wr[w].pc = "idle" /\ wr[w].state = "Open" /\ ~crashed
        /\ UNCHANGED <<history, settled, content, stable, load, crashed>>
    BY DEF Abort, Ready
  <1>2. CASE /\ Staged(w) /\ Cleaned(w)
             /\ Becomes(w, [wr[w] EXCEPT !.state = "Aborted", !.handle = None, !.armed = FALSE])
    <2> DEFINE r == [wr[w] EXCEPT !.state = "Aborted", !.handle = None, !.armed = FALSE]
    <2>1. r \in Writer
      BY <1>0, <1>2 DEF Writer
    <2>2. wr' \in [Writers -> Writer] /\ wr'[w] = r
      BY <1>0, <1>2, <2>1, BecomesOne DEF Typed
    <2>3. LifeInv(w)'
      BY <1>0, <1>1, <1>2, <2>2, SMTT(30), Z3T(30) DEF WriterInv, LifeInv, PositionInv,
         Committing, BeforeInstall, Staged, CallResult, Writer, Cleaned, Typed
    <2>4. OwnerInv(w)'
      BY <1>0, <1>1, <1>2, <2>2, SMTT(30), Z3T(30) DEF WriterInv, LifeInv, OwnerInv, Committing,
         BeforeInstall, Staged, Usable, CallResult, Writer, Cleaned, Typed
    <2>5. PositionInv(w)'
      BY <1>0, <1>1, <1>2, <2>2, SMTT(30), Z3T(30) DEF WriterInv, LifeInv, OwnerInv, PositionInv,
         Committing, BeforeInstall, Staged, CallResult, Writer, Cleaned, Typed
    <2>6. DiskInv(w)'
      BY <1>0, <1>1, <1>2, <2>2, SMTT(30), Z3T(30) DEF WriterInv, LifeInv, PositionInv, DiskInv,
         Committing, BeforeInstall, AfterVerify, SyncRequirement, Staged, CallResult, Writer,
         Cleaned, Typed
    <2>7. ReportInv(w)'
      BY <1>0, <1>1, <1>2, <2>2, SMTT(30), Z3T(30) DEF WriterInv, LifeInv, PositionInv, DiskInv,
         ReportInv, Committing, BeforeInstall, AfterVerify, SyncRequirement, Staged,
         HasPublished, CallResult, Writer, Cleaned, Typed
    <2> QED
      BY <2>2, <2>3, <2>4, <2>5, <2>6, <2>7 DEF WriterInv
  <1>3. CASE /\ Staged(w) /\ CleanupFails(w)
             /\ Becomes(w, [wr[w] EXCEPT !.handle = None, !.stuck = TRUE,
                                         !.failure = AbortPoisons(w)])
    <2> DEFINE r == [wr[w] EXCEPT !.handle = None, !.stuck = TRUE,
                                  !.failure = AbortPoisons(w)]
    <2>1. r \in Writer
      BY <1>0, <1>3 DEF Writer, AbortPoisons
    <2>2. wr' \in [Writers -> Writer] /\ wr'[w] = r
      BY <1>0, <1>3, <2>1, BecomesOne DEF Typed
    <2>3. LifeInv(w)'
      BY <1>0, <1>1, <1>3, <2>2 DEF WriterInv, LifeInv, PositionInv, Committing, BeforeInstall,
         Staged, CallResult, Writer, CleanupFails, AbortPoisons
    <2>4. OwnerInv(w)'
      BY <1>0, <1>1, <1>3, <2>2, SMTT(30), ZenonT(60) DEF WriterInv, LifeInv, OwnerInv,
         Committing, BeforeInstall, Staged, Usable, CallResult, Writer, CleanupFails, AbortPoisons
    <2>5. PositionInv(w)'
      BY <1>0, <1>1, <1>3, <2>2, SMTT(30), Z3T(30) DEF WriterInv, LifeInv, OwnerInv, PositionInv,
         Committing, BeforeInstall, Staged, CallResult, Writer, CleanupFails, AbortPoisons
    <2>6. DiskInv(w)'
      BY <1>0, <1>1, <1>3, <2>2, SMTT(30), ZenonT(60) DEF WriterInv, LifeInv, PositionInv,
         DiskInv, Committing, BeforeInstall, AfterVerify, SyncRequirement, Staged, CallResult,
         Writer, CleanupFails, AbortPoisons
    <2>7. ReportInv(w)'
      BY <1>0, <1>1, <1>3, <2>2 DEF WriterInv, LifeInv, PositionInv, DiskInv, ReportInv,
         Committing, BeforeInstall, AfterVerify, SyncRequirement, Staged, HasPublished,
         CallResult, Writer, CleanupFails, AbortPoisons
    <2> QED
      BY <2>2, <2>3, <2>4, <2>5, <2>6, <2>7 DEF WriterInv
  <1>4. CASE /\ ~Staged(w) /\ UNCHANGED stage
             /\ Becomes(w, [wr[w] EXCEPT !.state = "Aborted",
                                         !.failure = IF @ = "none" /\ wr[w].bytes > 0
                                                     THEN "Published" ELSE @])
    <2> DEFINE r == [wr[w] EXCEPT !.state = "Aborted",
                                  !.failure = IF @ = "none" /\ wr[w].bytes > 0
                                  THEN "Published" ELSE @]
    <2>1. r \in Writer
      BY <1>0, <1>4 DEF Writer
    <2>2. wr' \in [Writers -> Writer] /\ wr'[w] = r
      BY <1>0, <1>4, <2>1, BecomesOne DEF Typed
    <2> QED
      BY <1>0, <1>1, <1>4, <2>2, SMTT(30), Z3T(30) DEF WriterInv, LifeInv, OwnerInv, PositionInv,
         DiskInv, ReportInv, Committing, BeforeInstall, AfterVerify, SyncRequirement, Staged,
         Usable, HasPublished, CallResult, Writer
  <1>5. CASE wr' = wr /\ UNCHANGED stage
    BY <1>0, <1>1, <1>5 DEF Typed, WriterInv, LifeInv, OwnerInv, PositionInv, DiskInv, ReportInv,
       Committing, BeforeInstall, AfterVerify, SyncRequirement, Staged, Usable, HasPublished,
       CallResult, Writer
  <1> QED
    BY <1>2, <1>3, <1>4, <1>5 DEF Abort

\* The caller drops the writer.
LEMMA DropPreserves ==
    ASSUME IInv, NEW w \in Writers, Drop(w)
    PROVE  wr' \in [Writers -> Writer] /\ WriterInv(w)'
  <1>0. /\ Typed /\ WriterInv(w) /\ wr[w] \in Writer /\ w \in Anything /\ None \in Anything
        /\ w # None
    BY ConstantsAssumption DEF IInv, Typed, Anything
  <1>1. /\ wr[w].holder = "caller" /\ wr[w].pc = "idle" /\ ~crashed
        /\ UNCHANGED <<history, settled, stage, content, stable, load, crashed>>
    BY DEF Drop, Ready
  <1>2. CASE Becomes(w, [wr[w] EXCEPT !.holder = "gone", !.pc = "drop"])
    <2> DEFINE r == [wr[w] EXCEPT !.holder = "gone", !.pc = "drop"]
    <2>1. r \in Writer
      BY <1>0, <1>2 DEF Writer, PcValues
    <2>2. wr' \in [Writers -> Writer] /\ wr'[w] = r
      BY <1>0, <1>2, <2>1, BecomesOne DEF Typed
    <2> QED
      BY <1>0, <1>1, <1>2, <2>2, SMTT(30), Z3T(30) DEF WriterInv, LifeInv, OwnerInv, PositionInv,
         DiskInv, ReportInv, Committing, BeforeInstall, AfterVerify, SyncRequirement, Staged,
         Usable, HasPublished, CallResult, Writer
  <1> QED
    BY <1>2 DEF Drop

\* What the backend does when it is dropped.
LEMMA DropStagedPreserves ==
    ASSUME IInv, NEW w \in Writers, DropStaged(w)
    PROVE  wr' \in [Writers -> Writer] /\ WriterInv(w)'
  <1>0. /\ Typed /\ WriterInv(w) /\ wr[w] \in Writer /\ w \in Anything /\ None \in Anything
        /\ w # None
    BY ConstantsAssumption DEF IInv, Typed, Anything
  <1>1. /\ ~crashed /\ wr[w].pc = "drop"
        /\ UNCHANGED <<history, settled, content, stable, load, crashed>>
    BY DEF DropStaged, At
  <1>2. CASE /\ Cleaned(w)
             /\ Becomes(w, [wr[w] EXCEPT !.pc = "idle", !.handle = None, !.armed = FALSE])
    <2> DEFINE r == [wr[w] EXCEPT !.pc = "idle", !.handle = None, !.armed = FALSE]
    <2>1. r \in Writer
      BY <1>0, <1>2 DEF Writer, PcValues
    <2>2. wr' \in [Writers -> Writer] /\ wr'[w] = r
      BY <1>0, <1>2, <2>1, BecomesOne DEF Typed
    <2>3. LifeInv(w)'
      BY <1>0, <1>1, <1>2, <2>2, SMTT(30), Z3T(30) DEF WriterInv, LifeInv, PositionInv,
         Committing, BeforeInstall, Staged, CallResult, Writer, Cleaned, Typed
    <2>4. OwnerInv(w)'
      BY <1>0, <1>1, <1>2, <2>2, SMTT(30), Z3T(30) DEF WriterInv, LifeInv, OwnerInv, Committing,
         BeforeInstall, Staged, Usable, CallResult, Writer, Cleaned, Typed
    <2>5. PositionInv(w)'
      BY <1>0, <1>1, <1>2, <2>2, SMTT(30), Z3T(30) DEF WriterInv, LifeInv, OwnerInv, PositionInv,
         Committing, BeforeInstall, Staged, CallResult, Writer, Cleaned, Typed
    <2>6. DiskInv(w)'
      BY <1>0, <1>1, <1>2, <2>2, SMTT(30), Z3T(30) DEF WriterInv, LifeInv, PositionInv, DiskInv,
         Committing, BeforeInstall, AfterVerify, SyncRequirement, Staged, CallResult, Writer,
         Cleaned, Typed
    <2>7. ReportInv(w)'
      BY <1>0, <1>1, <1>2, <2>2, SMTT(30), Z3T(30) DEF WriterInv, LifeInv, PositionInv, DiskInv,
         ReportInv, Committing, BeforeInstall, AfterVerify, SyncRequirement, Staged,
         HasPublished, CallResult, Writer, Cleaned, Typed
    <2> QED
      BY <2>2, <2>3, <2>4, <2>5, <2>6, <2>7 DEF WriterInv
  <1>3. CASE /\ CleanupFails(w)
             /\ Becomes(w, [wr[w] EXCEPT !.pc = "idle", !.handle = None, !.armed = FALSE,
                                         !.stuck = TRUE])
    <2> DEFINE r == [wr[w] EXCEPT !.pc = "idle", !.handle = None, !.armed = FALSE,
                                  !.stuck = TRUE]
    <2>1. r \in Writer
      BY <1>0, <1>3 DEF Writer, PcValues
    <2>2. wr' \in [Writers -> Writer] /\ wr'[w] = r
      BY <1>0, <1>3, <2>1, BecomesOne DEF Typed
    <2>3. LifeInv(w)'
      BY <1>0, <1>1, <1>3, <2>2, SMTT(30), ZenonT(60) DEF WriterInv, LifeInv, PositionInv,
         Committing, BeforeInstall, Staged, CallResult, Writer, CleanupFails
    <2>4. OwnerInv(w)'
      BY <1>0, <1>1, <1>3, <2>2, SMTT(30), Z3T(30) DEF WriterInv, LifeInv, OwnerInv, Committing,
         BeforeInstall, Staged, Usable, CallResult, Writer, CleanupFails
    <2>5. PositionInv(w)'
      BY <1>0, <1>1, <1>3, <2>2, SMTT(30), Z3T(30) DEF WriterInv, LifeInv, OwnerInv, PositionInv,
         Committing, BeforeInstall, Staged, CallResult, Writer, CleanupFails
    <2>6. DiskInv(w)'
      BY <1>0, <1>1, <1>3, <2>2, SMTT(30), Z3T(30) DEF WriterInv, LifeInv, PositionInv, DiskInv,
         Committing, BeforeInstall, AfterVerify, SyncRequirement, Staged, CallResult, Writer,
         CleanupFails
    <2>7. ReportInv(w)'
      BY <1>0, <1>1, <1>3, <2>2, SMTT(30), Z3T(30) DEF WriterInv, LifeInv, PositionInv, DiskInv,
         ReportInv, Committing, BeforeInstall, AfterVerify, SyncRequirement, Staged,
         HasPublished, CallResult, Writer, CleanupFails
    <2> QED
      BY <2>2, <2>3, <2>4, <2>5, <2>6, <2>7 DEF WriterInv
  <1> QED
    BY <1>2, <1>3 DEF DropStaged

-----------------------------------------------------------------------------
(* What a step of one writer leaves alone. *)

\* The other writers and what is theirs, the workload, and what the destination showed so far:
\* at most the writer's own staging entry is shown next.
KeepsToItself(w) ==
    /\ ~crashed /\ UNCHANGED <<load, others, crashed>>
    /\ stage' \in [Writers -> Anything]
    /\ content' \in [Writers -> Nat] /\ stable' \in [Writers -> Nat]
    /\ \A v \in Writers \ {w} :
         /\ wr'[v] = wr[v] /\ stage'[v] = stage[v]
         /\ content'[v] = content[v] /\ stable'[v] = stable[v]
    /\ \/ history' = history
       \/ stage[w] # None /\ history' = Append(history, stage[w])
    /\ settled' \in {settled, Len(history)}

LEMMA StepKeepsToItself ==
    ASSUME IInv, NEW w \in Writers, WriterStep(w)
    PROVE  KeepsToItself(w)
  <1>0. /\ stage \in [Writers -> Anything] /\ w \in Anything /\ None \in Anything
        /\ content \in [Writers -> Nat] /\ stable \in [Writers -> Nat]
        /\ wr \in [Writers -> Writer] /\ load \in Workload
    BY DEF IInv, Typed, Anything
  <1> USE DEF KeepsToItself, Becomes
  <1>1. CASE Open(w)
    BY <1>0, <1>1, SMTT(30), ZenonT(60) DEF Open
  <1>2. CASE Write(w)
    <2>1. PICK requested \in 1 .. load.maxBytes : \E accepted \in 1 .. requested :
            content' = [content EXCEPT ![w] = @ + accepted]
      BY <1>2 DEF Write
    <2>2. PICK accepted \in 1 .. requested : content' = [content EXCEPT ![w] = @ + accepted]
      BY <2>1
    <2>3. content' \in [Writers -> Nat] /\ \A v \in Writers \ {w} : content'[v] = content[v]
      BY <1>0, <2>2, SMTT(30), Z3T(30)
    <2> QED
      BY <1>0, <1>2, <2>3 DEF Write, Ready
  <1>3. CASE StreamFails(w)
    BY <1>0, <1>3 DEF StreamFails, Ready
  <1>4. CASE Commit(w)
    BY <1>0, <1>4 DEF Commit, Ready
  <1>5. CASE CommitAppend(w)
    BY <1>0, <1>5 DEF CommitAppend, At, AppendFailed
  <1>6. CASE CommitOpen(w)
    BY <1>0, <1>6 DEF CommitOpen, At
  <1>7. CASE CommitPrepare(w)
    BY <1>0, <1>7 DEF CommitPrepare, At
  <1>8. CASE CommitVerify(w)
    BY <1>0, <1>8 DEF CommitVerify, At
  <1>9. CASE CommitInstall(w)
    BY <1>0, <1>9 DEF CommitInstall, At, ReplaceExisting, RenameNoReplace, LinkNew, InstallFails,
       Install
  <1>10. CASE CommitUnlink(w)
    BY <1>0, <1>10 DEF CommitUnlink, At
  <1>11. CASE CommitRecover(w)
    BY <1>0, <1>11 DEF CommitRecover, At, Cleaned, CleanupFails
  <1>12. CASE CommitSyncParent(w)
    BY <1>0, <1>12 DEF CommitSyncParent, At, ParentSynced
  <1>13. CASE Abort(w)
    BY <1>0, <1>13 DEF Abort, Ready, Cleaned, CleanupFails
  <1>14. CASE Drop(w)
    BY <1>0, <1>14 DEF Drop, Ready
  <1>15. CASE DropStaged(w)
    BY <1>0, <1>15 DEF DropStaged, At, Cleaned, CleanupFails
  <1> QED
    BY <1>1, <1>2, <1>3, <1>4, <1>5, <1>6, <1>7, <1>8, <1>9, <1>10, <1>11, <1>12, <1>13, <1>14,
       <1>15 DEF WriterStep

\* The writer's own part of the invariant.
LEMMA StepPreservesOwn ==
    ASSUME IInv, NEW w \in Writers, WriterStep(w)
    PROVE  wr' \in [Writers -> Writer] /\ WriterInv(w)'
  BY OpenPreserves, WritePreserves, StreamFailsPreserves, CommitPreserves, CommitAppendPreserves,
     CommitOpenPreserves, CommitPreparePreserves, CommitVerifyPreserves, CommitInstallPreserves,
     CommitUnlinkPreserves, CommitRecoverPreserves, CommitSyncParentPreserves, AbortPreserves,
     DropPreserves, DropStagedPreserves DEF WriterStep

\* The part of every other writer: only the destination, which never shows another writer's
\* file because of this step, and the synchronised parent can change for it.
LEMMA StepPreservesOthers ==
    ASSUME IInv, NEW w \in Writers, KeepsToItself(w), NEW v \in Writers \ {w}
    PROVE  WriterInv(v)'
  <1>1. /\ Typed /\ WriterInv(v) /\ OwnerInv(w)
        /\ wr[v] \in Writer /\ v # None /\ stage[w] # v /\ stage[w] \in Anything
    BY ConstantsAssumption, SMTT(30), Z3T(30) DEF IInv, Typed, WriterInv, OwnerInv
  <1>2. /\ wr'[v] = wr[v] /\ stage'[v] = stage[v]
        /\ content'[v] = content[v] /\ stable'[v] = stable[v]
        /\ load' = load /\ crashed' = crashed
    BY DEF KeepsToItself
  <1>3. /\ Len(history) \in Nat /\ Len(history') \in Nat /\ Len(history) <= Len(history')
        /\ settled' >= settled /\ settled' \in Nat /\ settled \in Nat
        /\ \A i \in 1 .. Len(history') : history'[i] = v => i \in 1 .. Len(history)
        /\ \A i \in 1 .. Len(history) : history'[i] = history[i]
    <2>1. history \in Seq(Anything) /\ settled \in 1 .. Len(history)
      BY <1>1 DEF Typed
    <2>2. settled' \in {settled, Len(history)}
      BY DEF KeepsToItself
    <2>3. CASE history' = history
      BY <2>1, <2>2, <2>3, SMTT(30), Z3T(30)
    <2>4. CASE history' = Append(history, stage[w])
      <3>1. /\ Len(history') = Len(history) + 1
            /\ \A i \in 1 .. Len(history) : history'[i] = history[i]
            /\ history'[Len(history) + 1] = stage[w]
        BY <1>1, <2>1, <2>4, SMTT(30), Z3T(30)
      <3> QED
        BY <1>1, <2>1, <2>2, <3>1, SMTT(30), Z3T(30)
    <2> QED
      BY <2>3, <2>4 DEF KeepsToItself
  <1>4. LifeInv(v)' /\ OwnerInv(v)' /\ ReportInv(v)'
    BY <1>1, <1>2, SMTT(30), Z3T(30) DEF WriterInv, LifeInv, OwnerInv, ReportInv, Staged, Usable,
       HasPublished
  <1>5. PositionInv(v)'
    BY <1>1, <1>2, <1>3, SMTT(30), Z3T(30) DEF WriterInv, PositionInv, Staged, Writer
  <1>6. DiskInv(v)'
    BY <1>1, <1>2, <1>3, SMTT(30), Z3T(30) DEF WriterInv, DiskInv, SyncRequirement, Writer
  <1> QED
    BY <1>4, <1>5, <1>6 DEF WriterInv

LEMMA StepPreserves ==
    ASSUME IInv, NEW w \in Writers, WriterStep(w)
    PROVE  IInv'
  <1>1. KeepsToItself(w) /\ wr' \in [Writers -> Writer] /\ WriterInv(w)'
    BY StepKeepsToItself, StepPreservesOwn
  <1>2. \A v \in Writers : WriterInv(v)'
    BY <1>1, StepPreservesOthers
  <1>3. history' \in Seq(Anything) /\ settled' \in 1 .. Len(history')
    <2>1. history \in Seq(Anything) /\ settled \in 1 .. Len(history) /\ stage[w] \in Anything
      BY DEF IInv, Typed
    <2>2. settled' \in {settled, Len(history)}
      BY <1>1 DEF KeepsToItself
    <2>3. CASE history' = history
      BY <2>1, <2>2, <2>3, SMTT(30), Z3T(30)
    <2>4. CASE history' = Append(history, stage[w])
      <3>1. history' \in Seq(Anything) /\ Len(history') = Len(history) + 1
        BY <2>1, <2>4, SMTT(30), Z3T(30)
      <3> QED
        BY <2>1, <2>2, <3>1, SMTT(30), Z3T(30)
    <2> QED
      BY <1>1, <2>3, <2>4 DEF KeepsToItself
  <1>4. Typed'
    BY <1>1, <1>3 DEF Typed, IInv, KeepsToItself
  <1> QED
    BY <1>2, <1>4 DEF IInv

-----------------------------------------------------------------------------
(* The environment. *)

LEMMA OtherChangesTargetPreserves == IInv /\ OtherChangesTarget => IInv'
  <1> SUFFICES ASSUME IInv, OtherChangesTarget PROVE IInv'
    OBVIOUS
  <1>1. Typed /\ \A w \in Writers : WriterInv(w) /\ wr[w] \in Writer
    BY DEF IInv, Typed
  <1>2. PICK o \in {None} \cup Files : history' = Append(history, o)
    BY DEF OtherChangesTarget
  <1>3. UNCHANGED <<settled, stage, content, stable, wr, load, crashed>> /\ others' = others + 1
    BY DEF OtherChangesTarget, OtherMoves
  <1>4. history \in Seq(Anything) /\ o \in Anything /\ o \notin Writers
    BY <1>1, ConstantsAssumption DEF Typed, Anything
  <1>5. /\ history' \in Seq(Anything) /\ Len(history') = Len(history) + 1
        /\ \A i \in 1 .. Len(history) : history'[i] = history[i]
        /\ history'[Len(history) + 1] = o
    BY <1>2, <1>4, SMTT(30), Z3T(30)
  <1>6. Typed'
    BY <1>1, <1>3, <1>5, SMTT(30), Z3T(30) DEF Typed
  <1>7. ASSUME NEW w \in Writers PROVE WriterInv(w)'
    <2>1. LifeInv(w)' /\ OwnerInv(w)' /\ DiskInv(w)' /\ ReportInv(w)'
      BY <1>1, <1>3 DEF WriterInv, LifeInv, OwnerInv, DiskInv, ReportInv, Staged, Usable,
         SyncRequirement, HasPublished
    <2>2. \A i \in 1 .. Len(history') : history'[i] = w => wr[w].position > 0
      BY <1>1, <1>4, <1>5, SMTT(30), Z3T(30) DEF WriterInv, PositionInv
    <2>3. PositionInv(w)'
      BY <1>1, <1>3, <1>4, <1>5, <2>2, SMTT(30), Z3T(30) DEF WriterInv, PositionInv, Staged,
         Writer
    <2> QED
      BY <2>1, <2>3 DEF WriterInv
  <1> QED
    BY <1>6, <1>7 DEF IInv

LEMMA OtherChangesStagePreserves == IInv /\ OtherChangesStage => IInv'
  <1> SUFFICES ASSUME IInv, OtherChangesStage PROVE IInv'
    OBVIOUS
  <1>1. Typed /\ \A w \in Writers : WriterInv(w) /\ wr[w] \in Writer
    BY DEF IInv, Typed
  <1>2. PICK u \in Writers, o \in {None} \cup Files :
          stage[u] = u /\ stage' = [stage EXCEPT ![u] = o]
    BY DEF OtherChangesStage
  <1>3. UNCHANGED <<history, settled, content, stable, wr, load, crashed>> /\ others' = others + 1
    BY DEF OtherChangesStage, OtherMoves
  <1>4. /\ stage' \in [Writers -> Anything] /\ stage'[u] = o /\ u # None /\ o # u
        /\ \A w \in Writers \ {u} : stage'[w] = stage[w]
    BY <1>1, <1>2, ConstantsAssumption DEF Typed, Anything
  <1>5. Typed'
    BY <1>1, <1>3, <1>4, SMTT(30), Z3T(30) DEF Typed
  <1>6. ASSUME NEW w \in Writers PROVE WriterInv(w)'
    <2>1. PositionInv(w)' /\ DiskInv(w)' /\ ReportInv(w)'
      BY <1>1, <1>3 DEF WriterInv, PositionInv, DiskInv, ReportInv, Staged, SyncRequirement,
         HasPublished
    <2>2. LifeInv(w)' /\ OwnerInv(w)'
      BY <1>1, <1>2, <1>3, <1>4 DEF WriterInv, LifeInv, OwnerInv, Staged, Usable
    <2> QED
      BY <2>1, <2>2 DEF WriterInv
  <1> QED
    BY <1>5, <1>6 DEF IInv

\* What was not synchronised is lost, and nothing else.
LEMMA CrashPreserves == IInv /\ Crash => IInv'
  <1> SUFFICES ASSUME IInv, Crash PROVE IInv'
    OBVIOUS
  <1>1. Typed /\ \A w \in Writers : WriterInv(w) /\ wr[w] \in Writer
    BY DEF IInv, Typed
  <1>2. PICK n \in settled .. Len(history) : history' = SubSeq(history, 1, n)
    BY DEF Crash
  <1>3. PICK kept \in [Writers -> 0 .. load.maxBytes] :
          (\A w \in Writers : kept[w] \in stable[w] .. content[w]) /\ content' = kept
    BY DEF Crash
  <1>4. UNCHANGED <<settled, stage, stable, wr, load, others>> /\ ~crashed /\ crashed'
    BY DEF Crash
  <1>5. /\ history \in Seq(Anything) /\ settled \in 1 .. Len(history) /\ n \in 1 .. Len(history)
        /\ load.maxBytes \in Nat
    BY <1>1, <1>2, SMTT(30), Z3T(30) DEF Typed, Workload
  <1>6. /\ history' \in Seq(Anything) /\ Len(history') = n
        /\ \A i \in 1 .. n : history'[i] = history[i]
    BY <1>2, <1>5, SMTT(30), Z3T(30)
  <1>7. Typed'
    <2>1. content' \in [Writers -> Nat] /\ settled' \in 1 .. Len(history')
      BY <1>2, <1>3, <1>4, <1>5, <1>6, SMTT(30), Z3T(30)
    <2>2. crashed' \in BOOLEAN
      BY DEF Crash
    <2> QED
      BY <1>1, <1>4, <1>6, <2>1, <2>2 DEF Typed
  <1>8. ASSUME NEW w \in Writers PROVE WriterInv(w)'
    <2>1. LifeInv(w)' /\ OwnerInv(w)' /\ ReportInv(w)'
      BY <1>1, <1>4 DEF WriterInv, LifeInv, OwnerInv, ReportInv, Staged, Usable, HasPublished
    <2>2. PositionInv(w)'
      BY <1>1, <1>4, <1>5, <1>6, SMTT(30), Z3T(30) DEF WriterInv, PositionInv, Staged
    <2>3. /\ content'[w] >= stable[w] /\ content'[w] <= content[w] /\ content'[w] \in Nat
          /\ stable[w] \in Nat /\ content[w] \in Nat /\ wr[w].bytes \in Nat
      BY <1>1, <1>3, <1>5, SMTT(30), Z3T(30) DEF Typed, Writer
    <2>4. DiskInv(w)'
      BY <1>1, <1>4, <2>3 DEF WriterInv, DiskInv, SyncRequirement
    <2> QED
      BY <2>1, <2>2, <2>4 DEF WriterInv
  <1> QED
    BY <1>7, <1>8 DEF IInv

LEMMA StutterPreserves == IInv /\ UNCHANGED vars => IInv'
  BY SMTT(30), Z3T(30) DEF IInv, Typed, WriterInv, LifeInv, OwnerInv, PositionInv, DiskInv,
     ReportInv, Staged, Usable, SyncRequirement, HasPublished, vars

-----------------------------------------------------------------------------
(* What holds of every behaviour. *)

\* The invariant holds in every state that any set of writers, under any workload and with any
\* number of failures, can reach.
THEOREM WriterInvariant == Spec => []IInv
  <1>1. IInv /\ [Next]_vars => IInv'
    BY StepPreserves, OtherChangesTargetPreserves, OtherChangesStagePreserves, CrashPreserves,
       StutterPreserves DEF Next
  <1> QED
    BY <1>1, InitIInv, PTL DEF Spec

\* What commit and failure_state report is what happened, whatever the other
\* writers and processes did meanwhile.
THEOREM CommitsReportTruthfully == Spec => []CommitReportsTruthfully
  <1>1. IInv => CommitReportsTruthfully
    BY DEF IInv, WriterInv, DiskInv, ReportInv, CommitReportsTruthfully
  <1> QED
    BY <1>1, WriterInvariant, PTL

\* A writer in the caller's hands has what the next call takes for granted, also after a commit
\* that failed and gave it back (commit_recoverably).
THEOREM OpenWritersAreUsable == Spec => []OpenWriterIsUsable
  <1>1. IInv => OpenWriterIsUsable
    <2> SUFFICES ASSUME IInv, NEW w \in Writers,
                        wr[w].holder = "caller" /\ wr[w].pc = "idle" /\ Usable(w) /\ Staged(w)
                 PROVE  wr[w].handle = w /\ wr[w].armed /\ wr[w].position = 0
      BY DEF OpenWriterIsUsable
    <2>1. WriterInv(w) /\ wr[w].position \in Nat
      BY DEF IInv, Typed, Writer
    <2> QED
      BY <2>1, SMTT(30), Z3T(30) DEF WriterInv, OwnerInv, PositionInv
  <1> QED
    BY <1>1, WriterInvariant, PTL

\* A writer that is gone leaves its staging file only where a cleanup was tried and failed.
THEOREM StagingIsReclaimed == Spec => []StagingReclaimed
  <1>1. IInv => StagingReclaimed
    BY DEF IInv, WriterInv, LifeInv, OwnerInv, StagingReclaimed
  <1> QED
    BY <1>1, WriterInvariant, PTL

\* What a commit reported as durable survives a crash, and a file that had to be synchronised is
\* never found truncated under the destination name.
THEOREM CrashesKeepPromises == Spec => []CrashKeepsPromises
  <1>1. IInv => CrashKeepsPromises
    <2> SUFFICES ASSUME IInv, NEW w \in Writers
                 PROVE  /\ wr[w].result.durable =>
                             Len(history) >= wr[w].position /\ content[w] = wr[w].bytes
                        /\ Staged(w) /\ Target = w
                             /\ "Required" \in {wr[w].durability, wr[w].fileSync}
                           => content[w] = wr[w].bytes
      BY DEF CrashKeepsPromises
    <2>1. /\ WriterInv(w) /\ Len(history) \in Nat /\ settled \in 1 .. Len(history)
          /\ wr[w].position \in Nat /\ wr[w].bytes \in Nat
          /\ stable[w] \in Nat /\ content[w] \in Nat
      BY SMTT(30), Z3T(30) DEF IInv, Typed, Writer
    <2>2. Target = w => wr[w].position > 0
      BY <2>1, SMTT(30), Z3T(30) DEF WriterInv, PositionInv, Target
    <2> QED
      BY <2>1, <2>2, SMTT(30), Z3T(30) DEF WriterInv, DiskInv, SyncRequirement
  <1> QED
    BY <1>1, WriterInvariant, PTL

-----------------------------------------------------------------------------
(* The writers implement Publication. *)

\* The destination changes in the one step that installs the staging entry of a commit that has
\* published nothing; a writer opened without a destination finds none there.
LEMMA StepShows ==
    ASSUME IInv, NEW w \in Writers, WriterStep(w)
    PROVE  \/ history' = history /\ wr'[w].position = wr[w].position
           \/ /\ wr[w].pc = "install" /\ wr[w].position = 0 /\ stage[w] # None
              /\ ~wr[w].existed => Target = None
              /\ history' = Append(history, stage[w])
              /\ wr'[w].position = Len(history) + 1
  <1>1. wr[w] \in Writer /\ WriterInv(w) /\ wr \in [Writers -> Writer] /\ wr[w].position \in Nat
    BY DEF IInv, Typed, Writer
  <1>0. \A r : Becomes(w, r) => wr'[w] = r
    BY <1>1 DEF Becomes
  <1>a. /\ \A lasting \in BOOLEAN : Succeeded(w, lasting).position = wr[w].position
        /\ \A told : Failed(w, told).position = wr[w].position
        /\ AfterInstall(w).position = wr[w].position
        /\ AfterInstall(w) \in Writer
    BY <1>1, AfterInstallTyped DEF Succeeded, Failed, AfterInstall, Writer
  <1>b. \A told : [Failed(w, told) EXCEPT !.armed = FALSE].position = wr[w].position
    BY <1>1, <1>a DEF Failed, Writer
  <1>c. \A told : [Failed(w, told) EXCEPT !.stuck = TRUE].position = wr[w].position
    BY <1>1, <1>a DEF Failed, Writer
  <1>2. CASE Open(w)
    BY <1>0, <1>1, <1>2 DEF Open, Writer
  <1>3. CASE Write(w)
    BY <1>0, <1>1, <1>3 DEF Write, Writer
  <1>4. CASE StreamFails(w)
    BY <1>0, <1>1, <1>4 DEF StreamFails, Writer
  <1>5. CASE Commit(w)
    BY <1>0, <1>1, <1>5 DEF Commit, Writer
  <1>6. CASE CommitAppend(w)
    BY <1>0, <1>1, <1>6, <1>a DEF CommitAppend, AppendFailed, Writer
  <1>7. CASE CommitOpen(w)
    <2>1. ASSUME Becomes(w, [wr[w] EXCEPT !.pc = "prepare", !.seen = None])
          PROVE  wr'[w].position = wr[w].position
      BY <1>0, <1>1, <2>1 DEF Writer
    <2>2. ASSUME Becomes(w, [wr[w] EXCEPT !.pc = "prepare", !.seen = Target])
          PROVE  wr'[w].position = wr[w].position
      BY <1>0, <1>1, <2>2 DEF Writer
    <2>3. ASSUME Becomes(w, Failed(w, "NotPublished"))
          PROVE  wr'[w].position = wr[w].position
      BY <1>0, <1>1, <2>3, <1>a
    <2> QED
      BY <1>7, <2>1, <2>2, <2>3 DEF CommitOpen
  <1>8. CASE CommitPrepare(w)
    <2>1. ASSUME Becomes(w, [wr[w] EXCEPT !.pc = "verify", !.synced = FALSE])
          PROVE  wr'[w].position = wr[w].position
      BY <1>0, <1>1, <2>1 DEF Writer
    <2>2. ASSUME Becomes(w, [wr[w] EXCEPT !.pc = "verify", !.synced = TRUE])
          PROVE  wr'[w].position = wr[w].position
      BY <1>0, <1>1, <2>2 DEF Writer
    <2>3. ASSUME Becomes(w, Failed(w, "NotPublished"))
          PROVE  wr'[w].position = wr[w].position
      BY <1>0, <1>1, <2>3, <1>a
    <2> QED
      BY <1>8, <2>1, <2>2, <2>3 DEF CommitPrepare
  <1>9. CASE CommitVerify(w)
    BY <1>0, <1>1, <1>9, <1>a, SMTT(30), Z3T(30) DEF CommitVerify, Writer
  <1>10. CASE CommitUnlink(w)
    BY <1>0, <1>1, <1>10, <1>a DEF CommitUnlink, Writer
  <1>11. CASE CommitRecover(w)
    <2>1. ASSUME Becomes(w, AfterInstall(w))
          PROVE  wr'[w].position = wr[w].position
      BY <1>0, <1>1, <2>1, <1>a
    <2>2. ASSUME Becomes(w, [Failed(w, "NotPublished") EXCEPT !.armed = FALSE])
          PROVE  wr'[w].position = wr[w].position
      BY <1>0, <1>1, <2>2, <1>b
    <2>3. ASSUME Becomes(w, [Failed(w, IF wr[w].replaced THEN "Published" ELSE "NotPublished")
                                  EXCEPT !.stuck = TRUE])
          PROVE  wr'[w].position = wr[w].position
      BY <1>0, <1>1, <2>3, <1>c
    <2> QED
      BY <1>11, <2>1, <2>2, <2>3 DEF CommitRecover
  <1>12. CASE CommitSyncParent(w)
    <2>1. ASSUME Becomes(w, Succeeded(w, wr[w].synced))
          PROVE  wr'[w].position = wr[w].position
      BY <1>0, <1>1, <2>1, <1>a DEF Writer
    <2>2. ASSUME Becomes(w, ParentUnsynced(w))
          PROVE  wr'[w].position = wr[w].position
      BY <1>0, <1>1, <2>2, <1>a DEF ParentUnsynced
    <2> QED
      BY <1>12, <2>1, <2>2 DEF CommitSyncParent, ParentSynced
  <1>13. CASE Abort(w)
    BY <1>0, <1>1, <1>13 DEF Abort, Writer
  <1>14. CASE Drop(w)
    BY <1>0, <1>1, <1>14 DEF Drop, Writer
  <1>15. CASE DropStaged(w)
    BY <1>0, <1>1, <1>15 DEF DropStaged, Writer
  <1>16. CASE CommitInstall(w)
    <2>1. wr[w].pc = "install" /\ wr[w].position = 0
      BY <1>0, <1>1, <1>16, SMTT(30), Z3T(30) DEF CommitInstall, At, WriterInv, LifeInv,
         PositionInv, Committing, BeforeInstall
    <2>2. CASE InstallFails(w)
      BY <1>0, <1>1, <2>2 DEF InstallFails, Writer
    <2>3. CASE LinkNew(w)
      BY <1>0, <1>1, <2>1, <2>3 DEF LinkNew, Writer
    <2>4. CASE ReplaceExisting(w) \/ RenameNoReplace(w)
      <3>1. AfterInstall(w) \in Writer
        BY <1>1, AfterInstallTyped
      <3> QED
        BY <1>0, <1>1, <2>1, <2>4, <3>1 DEF ReplaceExisting, RenameNoReplace, Install, Writer
    <2> QED
      BY <1>16, <2>2, <2>3, <2>4 DEF CommitInstall
  <1> QED
    BY <1>2, <1>3, <1>4, <1>5, <1>6, <1>7, <1>8, <1>9, <1>10, <1>11, <1>12, <1>13, <1>14, <1>15,
       <1>16 DEF WriterStep

\* A verdict is revised only by a further attempt, and only after `NotPublished`.
LEMMA StepTells ==
    ASSUME IInv, NEW w \in Writers, WriterStep(w)
    PROVE  Verdict(w) \in {"open", "NotPublished"} \/ Verdict(w)' = Verdict(w)
  <1>1. wr[w] \in Writer /\ LifeInv(w) /\ wr \in [Writers -> Writer]
    BY DEF IInv, Typed, WriterInv
  <1>0. \A r : Becomes(w, r) => wr'[w] = r
    BY <1>1 DEF Becomes
  <1>2. CASE wr[w].holder # "gone"
    BY <1>1, <1>2 DEF LifeInv, NoResult, Verdict
  <1>3. CASE wr[w].pc \notin {"idle", "drop"}
    BY <1>3 DEF Verdict
  <1>4. CASE wr[w].holder = "gone" /\ wr[w].pc \in {"idle", "drop"}
    <2>1. DropStaged(w)
      BY <1>4 DEF WriterStep, Open, Write, StreamFails, Commit, CommitAppend, CommitOpen,
         CommitPrepare, CommitVerify, CommitInstall, CommitUnlink, CommitRecover,
         CommitSyncParent, Abort, Drop, Ready, At
    <2>2. /\ wr'[w].result = wr[w].result /\ wr'[w].mode = wr[w].mode
          /\ wr[w].pc = "drop" /\ wr'[w].pc = "idle"
      <3>1. CASE Cleaned(w)
        BY <1>0, <1>1, <2>1, <3>1 DEF DropStaged, At, Writer
      <3>2. CASE CleanupFails(w)
        BY <1>0, <1>1, <2>1, <3>2 DEF DropStaged, At, Writer
      <3> QED
        BY <2>1, <3>1, <3>2 DEF DropStaged
    <2> QED
      BY <2>2 DEF Verdict, Staged
  <1> QED
    BY <1>2, <1>3, <1>4

\* Every step of a writer is a step of the publisher of that name.
LEMMA StepRefines ==
    ASSUME IInv, IInv', NEW w \in Writers, WriterStep(w)
    PROVE  Pub!Step(w)
  <1>1. KeepsToItself(w)
    BY StepKeepsToItself
  <1>2. /\ Typed /\ WriterInv(w) /\ WriterInv(w)'
        /\ wr[w].position \in Nat /\ wr'[w].position \in Nat
        /\ wr'[w].result.publication \in {"NotPublished", "Published", "Indeterminate"}
    BY DEF IInv, Typed, Writer, CallResult
  <1>3. Verdict(w) \in {"open", "NotPublished"} \/ Verdict(w)' = Verdict(w)
    BY StepTells
  <1>4. Pub!Truthful(IF wr'[w].position > 0 THEN "installed" ELSE "none", Verdict(w)')
    BY <1>2, SMTT(30), Z3T(30) DEF Pub!Truthful, Verdict, WriterInv, ReportInv, HasPublished,
       Staged
  <1>5. Pub!Prepare(w) \/ Pub!Install(w)
    <2>1. CASE history' = history /\ wr'[w].position = wr[w].position
      BY <2>1 DEF Pub!Prepare, Target
    <2>2. CASE /\ wr[w].pc = "install" /\ wr[w].position = 0 /\ stage[w] # None
               /\ ~wr[w].existed => Target = None
               /\ history' = Append(history, stage[w])
               /\ wr'[w].position = Len(history) + 1
      <3>1. Target' = stage[w] /\ Len(history) + 1 > 0
        BY <1>2, <2>2, SMTT(30), Z3T(30) DEF Typed, Target
      <3> QED
        BY <2>2, <3>1, SMTT(30), Z3T(30) DEF Pub!Install, Verdict
    <2> QED
      BY <2>1, <2>2, StepShows
  <1>6. Pub!Tell(w)
    BY <1>3, <1>4 DEF Pub!Tell
  <1>7. \A v \in Writers \ {w} :
           wr'[v] = wr[v] /\ stage'[v] = stage[v] /\ Verdict(v)' = Verdict(v)
    BY <1>1 DEF KeepsToItself, Verdict, Staged
  <1>8. UNCHANGED <<others, crashed>>
    BY <1>1 DEF KeepsToItself
  <1> QED
    BY <1>5, <1>6, <1>7, <1>8, SMTT(30), Z3T(30) DEF Pub!Step

\* Every step of another process, and a crash, is a step of the environment of Publication.
LEMMA EnvironmentRefines ==
    ASSUME IInv, OtherChangesTarget \/ OtherChangesStage \/ Crash
    PROVE  Pub!Environment
  <1>1. wr' = wr
    BY DEF OtherChangesTarget, OtherChangesStage, Crash
  <1>2. <<others, crashed>>' # <<others, crashed>>
    <2>1. others \in Nat
      BY DEF IInv, Typed
    <2>2. CASE OtherChangesTarget \/ OtherChangesStage
      BY <2>1, <2>2, SMTT(30), Z3T(30) DEF OtherChangesTarget, OtherChangesStage, OtherMoves
    <2>3. CASE Crash
      <3>1. ~crashed /\ crashed'
        BY <2>3 DEF Crash
      <3> QED
        BY <3>1
    <2> QED
      BY <2>2, <2>3
  <1>3. \A v \in Writers : Verdict(v)' = Verdict(v)
    BY <1>1 DEF Verdict, Staged
  <1> QED
    BY <1>1, <1>2, <1>3 DEF Pub!Environment

\* Any set of writers implements Publication: install_and_sync_parent is the only step that
\* changes the destination, in one native call, and what commit_recoverably reports is final
\* unless it reported that nothing was published.
THEOREM WritersImplementPublication == Spec => ImplementsPublication
  <1>1. Init => Pub!Init
    BY SMTT(30), Z3T(30) DEF Init, Pub!Init, Verdict, Staged, NoResult
  <1>2. IInv /\ IInv' /\ [Next]_vars => [Pub!Next]_(Pub!vars)
    <2> SUFFICES ASSUME IInv, IInv', [Next]_vars PROVE Pub!Next \/ UNCHANGED Pub!vars
      OBVIOUS
    <2>1. CASE \E w \in Writers : WriterStep(w)
      BY <2>1, StepRefines DEF Pub!Next
    <2>2. CASE OtherChangesTarget \/ OtherChangesStage \/ Crash
      BY <2>2, EnvironmentRefines DEF Pub!Next
    <2>3. CASE UNCHANGED vars
      BY <2>3 DEF vars, Pub!vars, Target, Verdict, Staged
    <2> QED
      BY <2>1, <2>2, <2>3 DEF Next
  <1> QED
    BY <1>1, <1>2, WriterInvariant, PTL DEF Spec, ImplementsPublication, Pub!Spec

=============================================================================
