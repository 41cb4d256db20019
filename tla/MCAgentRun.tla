----------------------------- MODULE MCAgentRun -----------------------------
(* Instances of AgentRun for TLC.                                          *)
EXTENDS AgentRun, TLC

CONSTANTS i1, i2, i3, w1, w2

\* i1 is the event of a file, i2 a paired directory rename and i3 the event
\* of a directory, which no worker pushes.
MCKind == [it \in Items |-> CASE it = i1 -> "file" [] it = i2 -> "rename" [] it = i3 -> "dir"]

MCSymmetry == Permutations({w1, w2})
============================================================================
