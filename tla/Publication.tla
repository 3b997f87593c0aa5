----------------------------- MODULE Publication -----------------------------
(***************************************************************************)
(* What the crate promises of every operation that publishes a staged file *)
(* under a name others use: the name changes in one step, from what it     *)
(* showed to the staged file or back, and the caller is told what was      *)
(* done.  The digest-conditional writer (ConditionalCommit) and the file   *)
(* writers (FileWriter) are shown to implement this specification.         *)
(*                                                                         *)
(* How a publisher prepares, verifies, synchronises and cleans up is not   *)
(* said here; only that none of it is visible under the name.              *)
(***************************************************************************)
EXTENDS Naturals

CONSTANTS
    Publishers,
    Nothing         \* what a name shows that names no file

VARIABLES
    shown,          \* the file the published name shows
    staged,         \* the file under each publisher's private name
    kept,           \* the file a publisher displaced, as long as it could put it back
    fresh,          \* the publishers that may only fill an empty name
    effect,         \* what each publisher has done to the name
    verdict,        \* what its caller was told, or "open" while an attempt runs
    world           \* changes with every step of another process and of the machine

vars == <<shown, staged, kept, fresh, effect, verdict, world>>

\* A verdict never misstates the effect; "Indeterminate" states none.
Truthful(done, told) ==
    /\ told = "NotPublished" => done = "none"
    /\ told = "Published"    => done = "installed"
    /\ told = "Restored"     => done = "withdrawn"

Init ==
    /\ effect = [p \in Publishers |-> "none"]
    /\ verdict \in [Publishers -> {"open", "NotPublished"}]
    /\ kept = [p \in Publishers |-> Nothing]

\* Everything a publisher does out of sight; it may also give up what it kept.
Prepare(p) ==
    /\ shown' = shown /\ effect'[p] = effect[p]
    /\ kept'[p] \in {kept[p], Nothing}

\* The one step in which the staged file appears under the name.
Install(p) ==
    /\ verdict[p] = "open" /\ effect[p] = "none" /\ staged[p] # Nothing
    /\ p \in fresh => shown = Nothing
    /\ shown' = staged[p] /\ effect'[p] = "installed"
    /\ kept'[p] \in {shown, Nothing}

\* The one step in which the displaced file comes back.
Withdraw(p) ==
    /\ verdict[p] = "open" /\ effect[p] = "installed" /\ kept[p] # Nothing
    /\ shown' = kept[p] /\ effect'[p] = "withdrawn"
    /\ kept'[p] = Nothing

\* A verdict is final, except that an attempt that published nothing may be
\* repeated.
Tell(p) ==
    /\ verdict[p] \in {"open", "NotPublished"} \/ verdict'[p] = verdict[p]
    /\ Truthful(effect'[p], verdict'[p])

\* A step of one publisher leaves what belongs to the others alone.
Step(p) ==
    /\ Prepare(p) \/ Install(p) \/ Withdraw(p)
    /\ Tell(p)
    /\ world' = world
    /\ \A q \in Publishers \ {p} :
          /\ staged'[q] = staged[q] /\ kept'[q] = kept[q] /\ (q \in fresh') = (q \in fresh)
          /\ effect'[q] = effect[q] /\ verdict'[q] = verdict[q]

\* Other processes and crashes change the name and the private names at will,
\* and nothing a caller was told.
Environment ==
    /\ world' # world
    /\ fresh' = fresh /\ effect' = effect /\ verdict' = verdict
    /\ \A p \in Publishers : kept'[p] \in {kept[p], Nothing}

Next == Environment \/ \E p \in Publishers : Step(p)

Spec == Init /\ [][Next]_vars
=============================================================================
