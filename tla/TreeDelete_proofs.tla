------------------------- MODULE TreeDelete_proofs --------------------------
(***************************************************************************)
(* What a deletion reports is what it did, for every tree, every set of    *)
(* calls and any number of failures and of steps of other processes.       *)
(***************************************************************************)
EXTENDS TreeDelete, SequenceTheorems, TLAPS

USE ZenonT(30)

\* What the argument needs of the types.  The budget has no part in it.
Typed ==
    /\ kind \in [Paths -> Kinds] /\ pc \in PcValues
    /\ work \in Seq(Item) /\ current \in Item
    /\ listing \in [due : SUBSET Paths, may : SUBSET Paths, start : Nat]
    /\ changed \in BOOLEAN /\ absent \in BOOLEAN /\ removed \in SUBSET Paths

Entering   == {"idle", "check", "stat", "unlink", "rmdir", "begin"}
Processing == {"inspect", "open", "removeFile", "removeDirectory"}

\* changed is exact until the call fails, and an absent operand has been noticed.
HistoryInv ==
    /\ pc # "done" => (changed <=> removed # {})
    /\ pc \in Entering => removed = {}
    /\ kind[Root] = "none" => absent

\* The operand is at the bottom of the stack until it is the item in hand, and it is in hand
\* until it is removed.
BottomInv ==
    /\ work # <<>> => work[1].path = Root
    /\ pc \in Processing /\ work = <<>> => current.path = Root
    /\ pc = "pop" /\ work = <<>> => Root \in removed
    /\ pc = "list" => listing.start \in 1 .. Len(work)

IInv == Typed /\ HistoryInv /\ BottomInv /\ EffectTruthful /\ FalseMeansOperandAbsent

\* The operand is one of the paths.
LEMMA RootIsPath == Root \in Paths
  <1>1. 0 \in 0 .. MaxLevel
    BY ConstantsAssumption, SMTT(30), Z3T(30)
  <1>2. Root \in [1 .. 0 -> Names]
    BY SMTT(30), Z3T(30) DEF Root
  <1> QED
    BY <1>1, <1>2, Zenon DEF Paths

\* The invariant holds before the call.
LEMMA InitIInv == Init => IInv
  <1> SUFFICES ASSUME Init PROVE IInv
    OBVIOUS
  <1>1. Typed
    <2>1. absent \in BOOLEAN /\ changed \in BOOLEAN
      BY Zenon DEF Init
    <2>2. /\ kind \in [Paths -> Kinds] /\ pc = "idle" /\ work = <<>> /\ removed = {}
          /\ current = [todo |-> "Inspect", path |-> Root]
          /\ listing = [due |-> {}, may |-> {}, start |-> 0]
      BY Zenon DEF Init, NoReader
    <2>3. work \in Seq(Item)
      BY <2>2, SMTT(30), Z3T(30)
    <2>4. current \in Item
      BY <2>2, RootIsPath DEF Item
    <2>5. listing \in [due : SUBSET Paths, may : SUBSET Paths, start : Nat]
      BY <2>2
    <2> QED
      BY <2>1, <2>2, <2>3, <2>4, <2>5 DEF Typed, PcValues
  <1>2. HistoryInv
    BY DEF Init, HistoryInv, Entering
  <1>3. BottomInv /\ EffectTruthful /\ FalseMeansOperandAbsent
    BY DEF Init, BottomInv, Processing, EffectTruthful, FalseMeansOperandAbsent, Done
  <1> QED
    BY <1>1, <1>2, <1>3 DEF IInv

\* A step that returns an error before anything was removed.
LEMMA FailTells ==
    ASSUME IInv, pc # "done", NEW path, NEW cause, Fail(path, cause), UNCHANGED <<kind, removed, absent>>,
           path = Root /\ cause = "NotFound" => absent
    PROVE  pc' = "done" /\ EffectTruthful' /\ FalseMeansOperandAbsent'
  BY DEF IInv, HistoryInv, Fail, FailEffect, TreeFailure, Return, Ok, Err, EffectTruthful,
     FalseMeansOperandAbsent, Done

\* Every step of the call up to the scheduler preserves the invariant.
LEMMA EnteringPreserves ==
    ASSUME IInv, Start \/ CheckDeadline \/ Stat \/ Begin
    PROVE  IInv'
  <1> USE RootIsPath DEF IInv, Typed, treeVars, budgetVars, envVars, historyVars, PcValues
  <1>1. CASE Start
    BY <1>1 DEF Start, GoTo, HistoryInv, BottomInv, EffectTruthful, FalseMeansOperandAbsent,
       Done, Entering, Processing
  <1>2. CASE CheckDeadline
    BY <1>2, SMTT(30), Z3T(30) DEF CheckDeadline, GoTo, Return, Err, HistoryInv, BottomInv,
       EffectTruthful, FalseMeansOperandAbsent, Done, Entering, Processing
  <1>3. CASE Stat
    BY <1>3, SMTT(30), Z3T(30) DEF Stat, NotThere, GoTo, Return, Err, Ok, HistoryInv, BottomInv,
       EffectTruthful, FalseMeansOperandAbsent, Done, Entering, Processing
  <1>4. CASE Begin
    <2>1. \/ /\ pc' = "pop" /\ work' = <<[todo |-> "Inspect", path |-> Root]>>
          \/ /\ Fail(Root, "TimedOut") \/ Fail(Root, "ResourceLimit")
             /\ UNCHANGED work
      BY <1>4 DEF Begin, GoTo
    <2>2. /\ pc = "begin" /\ UNCHANGED <<kind, current, listing, changed, removed, absent>>
      BY <1>4 DEF Begin
    <2>3. CASE pc' = "pop" /\ work' = <<[todo |-> "Inspect", path |-> Root]>>
      BY <2>2, <2>3, SMTT(30), Z3T(30) DEF Item, HistoryInv, BottomInv, EffectTruthful,
         FalseMeansOperandAbsent, Done, Entering, Processing
    <2>4. CASE (Fail(Root, "TimedOut") \/ Fail(Root, "ResourceLimit")) /\ UNCHANGED work
      <3>1. pc' = "done" /\ EffectTruthful' /\ FalseMeansOperandAbsent'
        BY <2>2, <2>4, FailTells
      <3> QED
        BY <2>2, <2>4, <3>1 DEF HistoryInv, BottomInv, Entering, Processing
    <2> QED
      BY <2>1, <2>3, <2>4
  <1> QED
    BY <1>1, <1>2, <1>3, <1>4

\* A removal changes the history and nothing else that the invariant is about.
LEMMA RemovesTells ==
    ASSUME Typed, HistoryInv, NEW path \in Paths, Removes(path)
    PROVE  /\ kind' \in [Paths -> Kinds] /\ removed' \in SUBSET Paths /\ absent' \in BOOLEAN
           /\ kind'[Root] = "none" => absent'
           /\ removed' = removed \cup {path}
  <1>1. absent' \in BOOLEAN
    BY Zenon DEF Removes, Typed
  <1>2. kind'[Root] = "none" => absent'
    BY RootIsPath DEF Removes, Typed, HistoryInv, Kinds
  <1> QED
    BY <1>1, <1>2 DEF Removes, Typed, Kinds

\* The removal of the operand by delete_file or by a delete_directory that is not recursive.
LEMMA RemoveOperandPreserves == IInv /\ RemoveOperand => IInv'
  <1> SUFFICES ASSUME IInv, RemoveOperand PROVE IInv'
    OBVIOUS
  <1>1. /\ pc \in Entering /\ UNCHANGED <<work, current, listing, changed>> /\ pc' = "done"
    BY DEF RemoveOperand, NativeRemoval, NotThere, Return, Entering
  <1>2. \/ Removes(Root) /\ (result' = Ok(TRUE) \/ result' = Err("None", "Other"))
        \/ /\ UNCHANGED <<kind, removed, absent>>
           /\ \/ \E c : result' = Err("None", c)
              \/ result' = Ok(FALSE) /\ kind[Root] = "none"
    BY DEF RemoveOperand, NativeRemoval, NotThere, Return, historyVars, Refusal, Missing
  <1>3. CASE Removes(Root) /\ (result' = Ok(TRUE) \/ result' = Err("None", "Other"))
    BY <1>1, <1>3, RootIsPath, RemovesTells, SMTT(30), Z3T(30) DEF IInv, Typed, HistoryInv,
       BottomInv, EffectTruthful, FalseMeansOperandAbsent, Done, Entering, Processing, PcValues,
       Ok, Err
  <1>4. CASE /\ UNCHANGED <<kind, removed, absent>>
             /\ \/ \E c : result' = Err("None", c)
                \/ result' = Ok(FALSE) /\ kind[Root] = "none"
    BY <1>1, <1>4, SMTT(30), Z3T(30) DEF IInv, Typed, HistoryInv, BottomInv, EffectTruthful,
       FalseMeansOperandAbsent, Done, Entering, Processing, PcValues, Ok, Err
  <1> QED
    BY <1>2, <1>3, <1>4

\* A failure that leaves the tree and the stack alone.
LEMMA FailPreserves ==
    ASSUME IInv, pc # "done", NEW path, NEW cause, Fail(path, cause),
           path = Root /\ cause = "NotFound" => absent,
           UNCHANGED <<kind, current, listing, changed, removed, absent>>,
           work' \in Seq(Item), work' # <<>> => work'[1].path = Root
    PROVE  IInv'
  <1>1. pc' = "done" /\ EffectTruthful' /\ FalseMeansOperandAbsent'
    BY FailTells
  <1> QED
    BY <1>1 DEF IInv, Typed, HistoryInv, BottomInv, Entering, Processing, PcValues

\* What is missing at the operand is the operand.
LEMMA MissingOperand ==
    ASSUME IInv, NEW path, kind[path] = "none"
    PROVE  path = Root /\ Missing(path) = "NotFound" => absent
  BY DEF IInv, HistoryInv

\* Every step of the scheduler that removes nothing.
LEMMA SchedulerPreserves ==
    ASSUME IInv, Pop \/ Finish \/ Inspect \/ OpenDirectory \/ ListChild \/ ListFails \/ ListEnd
    PROVE  IInv'
  <1> USE DEF treeVars, budgetVars, envVars, historyVars
  <1>1. CASE Pop
    <2>1. /\ pc = "pop" /\ work # <<>> /\ work' = SubSeq(work, 1, Len(work) - 1)
          /\ current' = work[Len(work)]
          /\ UNCHANGED <<kind, listing, changed, removed, absent>>
          /\ \/ pc' \in {"inspect", "removeDirectory"}
             \/ pc' = "done" /\ result'.ok = FALSE /\ result'.effect = FailEffect
      BY <1>1, SMTT(30), Z3T(30) DEF Pop, GoTo, Fail, TreeFailure, Return, Err, Ok, FailEffect
    <2>2. /\ work' \in Seq(Item) /\ current' \in Item
          /\ work' # <<>> => work'[1].path = Root
          /\ work' = <<>> => current'.path = Root
      <3>1. work \in Seq(Item) /\ Len(work) \in Nat \ {0} /\ work[1].path = Root
        BY <2>1, SMTT(30), Z3T(30) DEF IInv, Typed, BottomInv
      <3>2. current' \in Item /\ work' \in Seq(Item) /\ Len(work') = Len(work) - 1
        <4> DEFINE n == Len(work) - 1
        <4>1. n \in Nat /\ \A i \in 1 .. Len(work) : work[i] \in Item
          BY <3>1, SMTT(30), Z3T(30)
        <4>2. \A i \in 1 .. n : work[i] \in Item
          BY <3>1, <4>1, SMTT(30), Z3T(30)
        <4> HIDE DEF n
        <4>3. SubSeq(work, 1, n) \in Seq(Item) /\ Len(SubSeq(work, 1, n)) = IF 1 <= n THEN n - 1 + 1 ELSE 0
          BY <4>1, <4>2, SubSeqProperties, SMTT(30), Z3T(30)
        <4>4. work' = SubSeq(work, 1, n)
          BY <2>1, Zenon DEF n
        <4>5. current' \in Item
          BY <2>1, <3>1, <4>1, SMTT(30), Z3T(30)
        <4>6. n = Len(work) - 1 /\ (IF 1 <= n THEN n - 1 + 1 ELSE 0) = n
          BY <4>1, SMTT(30), Z3T(30) DEF n
        <4> QED
          BY <4>3, <4>4, <4>5, <4>6, Zenon
      <3>3. work' # <<>> => work'[1] = work[1]
        BY <2>1, <3>1, <3>2, SMTT(30), Z3T(30)
      <3>4. work' = <<>> => Len(work) = 1
        BY <3>1, <3>2, SMTT(30), Z3T(30)
      <3> QED
        BY <2>1, <3>1, <3>2, <3>3, <3>4
    <2> QED
      BY <2>1, <2>2 DEF IInv, Typed, HistoryInv, BottomInv, EffectTruthful,
         FalseMeansOperandAbsent, Done, Entering, Processing, PcValues, FailEffect
  <1>2. CASE Finish
    BY <1>2 DEF Finish, Return, Ok, IInv, Typed, HistoryInv, BottomInv, EffectTruthful,
       FalseMeansOperandAbsent, Done, Entering, Processing, PcValues
  <1>3. CASE Inspect
    <2>1. /\ pc = "inspect"
          /\ UNCHANGED <<kind, work, current, listing, changed, removed, absent>>
          /\ \/ pc' \in {"open", "removeFile"}
             \/ \E cause : Fail(current.path, cause) /\ (cause = "NotFound" => kind[current.path] = "none")
      BY <1>3, SMTT(30), Z3T(30) DEF Inspect, GoTo
    <2>2. CASE pc' \in {"open", "removeFile"}
      BY <2>1, <2>2 DEF IInv, Typed, HistoryInv, BottomInv, EffectTruthful,
         FalseMeansOperandAbsent, Done, Entering, Processing, PcValues
    <2>3. CASE \E cause : Fail(current.path, cause) /\ (cause = "NotFound" => kind[current.path] = "none")
      BY <2>1, <2>3, FailPreserves DEF IInv, Typed, HistoryInv, BottomInv
    <2> QED
      BY <2>1, <2>2, <2>3
  <1>4. CASE OpenDirectory
    <2>1. /\ pc = "open" /\ UNCHANGED <<kind, current, changed, removed, absent>>
          /\ \/ /\ pc' = "list"
                /\ work' = Append(work, [todo |-> "RemoveDirectory", path |-> current.path])
                /\ listing' = [due |-> Present(current.path), may |-> {}, start |-> Len(work) + 1]
             \/ /\ UNCHANGED <<work, listing>>
                /\ \E cause : Fail(current.path, cause) /\ (cause = "NotFound" => kind[current.path] = "none")
      BY <1>4, SMTT(30), Z3T(30) DEF OpenDirectory, GoTo, QueueRemoval
    <2>2. CASE /\ UNCHANGED <<work, listing>>
               /\ \E cause : Fail(current.path, cause) /\ (cause = "NotFound" => kind[current.path] = "none")
      BY <2>1, <2>2, FailPreserves DEF IInv, Typed, HistoryInv, BottomInv
    <2>3. CASE /\ pc' = "list"
               /\ work' = Append(work, [todo |-> "RemoveDirectory", path |-> current.path])
               /\ listing' = [due |-> Present(current.path), may |-> {}, start |-> Len(work) + 1]
      <3>1. listing' \in [due : SUBSET Paths, may : SUBSET Paths, start : Nat]
        BY <2>3, SMTT(30), Z3T(30) DEF Present, Children, IInv, Typed
      <3>2. /\ work' \in Seq(Item) /\ work' # <<>> /\ work'[1].path = Root
            /\ Len(work') = Len(work) + 1
        BY <2>1, <2>3, SMTT(30), Z3T(30) DEF IInv, Typed, Item, BottomInv, Processing
      <3> QED
        BY <2>1, <2>3, <3>1, <3>2, SMTT(30), Z3T(30) DEF IInv, Typed, HistoryInv, BottomInv,
           EffectTruthful, FalseMeansOperandAbsent, Done, Entering, Processing, PcValues
    <2> QED
      BY <2>1, <2>2, <2>3
  <1>5. CASE ListChild
    <2>1. PICK child \in listing.due \cup listing.may :
            /\ listing' = [listing EXCEPT !.due = @ \ {child}, !.may = @ \ {child}]
            /\ \/ Fail(child, "ResourceLimit") /\ UNCHANGED work
               \/ pc' = "list" /\ work' = Append(work, [todo |-> "Inspect", path |-> child])
      BY <1>5 DEF ListChild, GoTo
    <2>2. pc = "list" /\ UNCHANGED <<kind, current, changed, removed, absent>>
      BY <1>5 DEF ListChild
    <2>3. /\ child \in Paths /\ listing' \in [due : SUBSET Paths, may : SUBSET Paths, start : Nat]
          /\ listing'.start = listing.start
      BY <2>1 DEF IInv, Typed
    <2>4. CASE Fail(child, "ResourceLimit") /\ UNCHANGED work
      <3>1. pc' = "done" /\ EffectTruthful' /\ FalseMeansOperandAbsent'
        BY <2>2, <2>4, FailTells
      <3> QED
        BY <2>2, <2>3, <2>4, <3>1 DEF IInv, Typed, HistoryInv, BottomInv, Entering, Processing,
           PcValues
    <2>5. CASE pc' = "list" /\ work' = Append(work, [todo |-> "Inspect", path |-> child])
      <3>1. work \in Seq(Item) /\ work # <<>> /\ listing.start \in 1 .. Len(work) /\ work[1].path = Root
        BY <2>2, SMTT(30), Z3T(30) DEF IInv, Typed, BottomInv
      <3>2. [todo |-> "Inspect", path |-> child] \in Item
        BY <2>3 DEF Item
      <3>3. work' \in Seq(Item) /\ Len(work') = Len(work) + 1 /\ work' # <<>> /\ work'[1].path = Root
        BY <2>5, <3>1, <3>2, SMTT(30), Z3T(30)
      <3> QED
        BY <2>2, <2>3, <2>5, <3>1, <3>3, SMTT(30), Z3T(30) DEF IInv, Typed, HistoryInv,
           BottomInv, EffectTruthful, FalseMeansOperandAbsent, Done, Entering, Processing,
           PcValues
    <2> QED
      BY <2>1, <2>4, <2>5
  <1>6. CASE ListFails
    <2>1. /\ pc = "list" /\ UNCHANGED <<kind, work, current, listing, changed, removed, absent>>
          /\ \E cause \in {"TimedOut", "Other"} : Fail(current.path, cause)
      BY <1>6 DEF ListFails
    <2> QED
      BY <2>1, FailPreserves DEF IInv, Typed, BottomInv
  <1>7. CASE ListEnd
    <2>1. /\ pc = "list" /\ pc' = "pop" /\ UNCHANGED <<kind, current, changed, removed, absent>>
          /\ work' = [i \in 1 .. Len(work) |->
                       IF i <= listing.start THEN work[i] ELSE work[Len(work) + listing.start + 1 - i]]
          /\ listing' = [due |-> {}, may |-> {}, start |-> 0]
      BY <1>7 DEF ListEnd, NoReader, GoTo
    <2>2. work \in Seq(Item) /\ listing.start \in 1 .. Len(work) /\ work[1].path = Root
      BY <2>1, SMTT(30), Z3T(30) DEF IInv, Typed, BottomInv
    <2>3. /\ \A i \in 1 .. Len(work) : work'[i] \in Item
          /\ work'[1] = work[1] /\ DOMAIN work' = 1 .. Len(work)
      BY <2>1, <2>2, SMTT(30), Z3T(30)
    <2>4. work' \in Seq(Item) /\ Len(work') = Len(work) /\ work' # <<>>
      BY <2>1, <2>2, <2>3, SMTT(30), Z3T(30)
    <2>5. listing' \in [due : SUBSET Paths, may : SUBSET Paths, start : Nat]
      BY <2>1
    <2> QED
      BY <2>1, <2>2, <2>3, <2>4, <2>5 DEF IInv, Typed, HistoryInv, BottomInv, EffectTruthful,
         FalseMeansOperandAbsent, Done, Entering, Processing, PcValues
  <1> QED
    BY <1>1, <1>2, <1>3, <1>4, <1>5, <1>6, <1>7

\* A removal of the scheduler.
LEMMA RemoveEntryPreserves == IInv /\ RemoveEntry => IInv'
  <1> SUFFICES ASSUME IInv, RemoveEntry PROVE IInv'
    OBVIOUS
  <1>1. /\ pc \in {"removeFile", "removeDirectory"} /\ UNCHANGED <<work, current, listing>>
        /\ current.path \in Paths
    BY DEF RemoveEntry, IInv, Typed, Item
  <1>2. \/ Removes(current.path) /\ Removed
        \/ /\ UNCHANGED changed /\ \E cause : FailDuringRemoval(current.path, cause)
           /\ UNCHANGED <<kind, removed, absent>> \/ Removes(current.path)
    BY DEF RemoveEntry, NativeRemoval, historyVars
  <1>3. CASE Removes(current.path) /\ Removed
    <2>1. /\ pc' = "pop" /\ changed' = TRUE /\ removed' = removed \cup {current.path}
          /\ kind' \in [Paths -> Kinds] /\ removed' \in SUBSET Paths /\ absent' \in BOOLEAN
          /\ kind'[Root] = "none" => absent'
      BY <1>1, <1>3, RemovesTells DEF Removed, GoTo, IInv
    <2>2. Typed' /\ HistoryInv'
      BY <1>1, <2>1 DEF IInv, Typed, HistoryInv, Entering, PcValues
    <2>3. BottomInv' /\ EffectTruthful' /\ FalseMeansOperandAbsent'
      BY <1>1, <2>1 DEF IInv, BottomInv, EffectTruthful, FalseMeansOperandAbsent, Done, Processing
    <2> QED
      BY <2>2, <2>3 DEF IInv
  <1>4. CASE /\ UNCHANGED changed /\ \E cause : FailDuringRemoval(current.path, cause)
             /\ UNCHANGED <<kind, removed, absent>> \/ Removes(current.path)
    <2>1. /\ pc' = "done" /\ result'.ok = FALSE
          /\ result'.effect = IF changed THEN "PartiallyApplied" ELSE "Indeterminate"
      BY <1>4, SMTT(30), Z3T(30) DEF FailDuringRemoval, DuringRemovalEffect, TreeFailure, Return,
         Err, Ok
    <2>2. /\ kind' \in [Paths -> Kinds] /\ removed' \in SUBSET Paths /\ absent' \in BOOLEAN
          /\ kind'[Root] = "none" => absent'
          /\ removed' = removed \/ removed' = removed \cup {current.path}
      BY <1>1, <1>4, RemovesTells, SMTT(30), Z3T(30) DEF IInv, Typed, HistoryInv
    <2>3. Typed' /\ HistoryInv'
      BY <1>1, <1>4, <2>1, <2>2 DEF IInv, Typed, HistoryInv, Entering, PcValues
    <2>4. BottomInv' /\ EffectTruthful' /\ FalseMeansOperandAbsent'
      BY <1>1, <2>1, <2>2 DEF IInv, HistoryInv, BottomInv, EffectTruthful,
         FalseMeansOperandAbsent, Done, Processing
    <2> QED
      BY <2>3, <2>4 DEF IInv
  <1> QED
    BY <1>2, <1>3, <1>4

\* Time and other processes disturb neither: they never touch what the call knows.
LEMMA OthersPreserve ==
    ASSUME IInv, Tick \/ OtherCreate \/ OtherRemove \/ UNCHANGED vars
    PROVE  IInv'
  <1> USE DEF vars, treeVars, historyVars
  <1>1. CASE Tick \/ UNCHANGED vars
    BY <1>1, SMTT(30), Z3T(30) DEF Tick, IInv, Typed, HistoryInv, BottomInv, EffectTruthful,
       FalseMeansOperandAbsent, Done
  <1>2. ASSUME NEW new \in [Paths -> Kinds], OtherChange(new) PROVE IInv'
    <2>1. /\ UNCHANGED <<pc, result, work, current, changed, removed>> /\ pc # "done"
          /\ kind' = new
      BY <1>2 DEF OtherChange, Running
    <2>2. absent' \in BOOLEAN /\ (kind'[Root] = "none" => absent')
      BY <1>2, Zenon DEF OtherChange
    <2>3. /\ listing' \in [due : SUBSET Paths, may : SUBSET Paths, start : Nat]
          /\ listing'.start = listing.start
      BY <1>2 DEF OtherChange, IInv, Typed, Children
    <2>4. Typed' /\ HistoryInv'
      BY <1>2, <2>1, <2>2, <2>3 DEF IInv, Typed, HistoryInv
    <2>5. BottomInv' /\ EffectTruthful' /\ FalseMeansOperandAbsent'
      BY <2>1, <2>3 DEF IInv, BottomInv, EffectTruthful, FalseMeansOperandAbsent, Done
    <2> QED
      BY <2>4, <2>5 DEF IInv
  <1>3. CASE OtherCreate
    BY <1>2, <1>3 DEF OtherCreate, IInv, Typed, Kinds
  <1>4. CASE OtherRemove
    BY <1>2, <1>4 DEF OtherRemove, IInv, Typed, Kinds
  <1> QED
    BY <1>1, <1>3, <1>4

\* The invariant holds in every state of every behaviour.
THEOREM DeleteInvariant == Spec => []IInv
  <1>1. IInv /\ [Next]_vars => IInv'
    BY EnteringPreserves, RemoveOperandPreserves, SchedulerPreserves, RemoveEntryPreserves,
       OthersPreserve DEF Next, CallStep
  <1> QED
    BY InitIInv, <1>1, PTL DEF Spec

\* The result of a deletion tells what the call did to the tree: Ok(true) that it removed the
\* operand, Unchanged that it removed nothing, PartiallyApplied that it removed something
\* (fail, fail_during_removal and directory_mutation_error).
THEOREM DeleteReportsTruthfully == Spec => []EffectTruthful
  BY DeleteInvariant, PTL DEF IInv

\* Ok(false) is only returned when the operand was absent and nothing was removed, whatever
\* disappears below it (missing_ok in delete_directory).
THEOREM FalseOnlyWhenAbsent == Spec => []FalseMeansOperandAbsent
  BY DeleteInvariant, PTL DEF IInv

\* Every result of delete_with_options can be believed: the effect of an error, Ok(true) and
\* Ok(false) all say what the call did to the tree.
THEOREM DeleteResultTruthful == Spec => []ReportTruthful
  BY DeleteReportsTruthfully, FalseOnlyWhenAbsent, PTL DEF ReportTruthful

=============================================================================
