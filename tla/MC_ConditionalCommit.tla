------------------------ MODULE MC_ConditionalCommit ------------------------
(***************************************************************************)
(* Small instances of ConditionalCommit.                                   *)
(***************************************************************************)
EXTENDS ConditionalCommit, TLC

CONSTANTS A, B

\* File identities are interchangeable.
Symmetry == Permutations(Files)

\* Calls that fail in the product build.
NativeFaults ==
    {"open", "openGuard", "write", "abort", "flush", "digestCandidate", "createCopy", "copyGuard",
     "fillCopy", "digestCopy", "syncFile", "syncNamespace", "precheck", "resync", "publish",
     "unlink", "publishEio", "inspect", "verifyDisplaced", "verifyInstalled", "rollbackRecheck",
     "rollbackVerify", "verifyKept", "rollbackEio", "verifyRollback", "syncRollback",
     "syncInstalled", "cleanup", "report"}

\* Checkpoints at which only the crate's own test hooks inject a failure.
Checkpoints == {"AfterPublish", "RollbackPrecheck", "Rollback", "RollbackCompleted", "SaveComplete"}

AllFaults == NativeFaults \cup Checkpoints

\* Without a failure of the lookups that find a leftover to report.
ReportingFaults == AllFaults \ LeftoverLookups

\* The calls that may fail in each environment.
EnvFaults == [env \in {"gentle", "rough"} |-> IF env = "gentle" THEN ReportingFaults ELSE AllFaults]

\* Content and Absent preconditions, with either requirement alone and with every
\* file synchronisation under required durability; the environment is also rough
\* where nothing is to be synchronised.
Callers ==
    {o \in OptionRecord :
        /\ o.cond \in {A, Absent}
        /\ "NotRequired" \in {o.durability, o.fileSync} \/ o.durability = "Required"
        /\ o.env = "rough" => o.durability = "NotRequired" /\ o.fileSync = "NotRequired"}
=============================================================================
