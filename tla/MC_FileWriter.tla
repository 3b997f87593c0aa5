--------------------------- MODULE MC_FileWriter ---------------------------
(* Instances of FileWriter for TLC. *)
EXTENDS FileWriter, TLC

CONSTANTS w1, w2, f1, f2

TwoWriters == {w1, w2}
TwoFiles   == {f1, f2}

Symmetry == Permutations(TwoWriters) \cup Permutations(TwoFiles)

\* Two staged writers race for the destination.
Race ==
    [writers |-> 2, modes |-> {"CreateNew", "CreateOrReplace"},
     durabilities |-> {"NotRequired", "Required"}, fileSyncs |-> {"NotRequired"}, maxBytes |-> 1,
     faultPoints |-> AllFaultPoints \ {"write", "flush", "metadata"}, others |-> 1,
     crashes |-> FALSE]

\* One writer in every mode and with every requirement, on a machine that may stop.
Alone ==
    [writers |-> 1, modes |-> {"CreateNew", "CreateOrReplace", "Append"},
     durabilities |-> Requirements, fileSyncs |-> Requirements, maxBytes |-> 2,
     faultPoints |-> AllFaultPoints, others |-> 2, crashes |-> TRUE]

RaceOrAlone == {Race, Alone}
=============================================================================
