-------------------------- MODULE MC_NamespaceCall --------------------------
(***************************************************************************)
(* Every combination of the options that the code branches on, on the host *)
(* and on a rooted file system, on both platforms where they differ.       *)
(***************************************************************************)
EXTENDS NamespaceCall

Scopes == {"Host", "Rooted"}
Systems == {"Unix", "Windows"}

MCDirectoryCalls ==
  [op : {"CreateDirectory"}, scope : Scopes, os : Systems, recursive : BOOLEAN, existsOk : BOOLEAN,
   parent : {"Missing", "Dir", "File"}, target : {"Missing", "Dir", "File"}]

MCRenameCalls ==
  {c \in [op : {"Rename"}, scope : Scopes, os : Systems, overwrite : BOOLEAN,
   durability : {"NotRequired", "Preferred", "Required"}, same : BOOLEAN, supported : BOOLEAN,
   legacy : BOOLEAN, source : {"Dir", "File"}, target : {"Missing", "Dir", "File"}, parent : {"Dir"}] :
     /\ c.legacy => c.scope = "Rooted" /\ c.os = "Windows" /\ c.overwrite
     /\ ~c.supported => c.durability # "NotRequired"}

MCTempCalls ==
  [op : {"TempFile", "TempDirectory"}, scope : Scopes, os : Systems, private : BOOLEAN,
   createsParent : BOOLEAN, max : {0, 1, 2, NoLimit}, parent : {"Missing", "Dir", "File"}]
=============================================================================
