----------------------------- MODULE MCPullFeed -----------------------------
(* Instances of PullFeed for TLC.                                          *)
EXTENDS PullFeed, TLC

MCSymmetry == Permutations(Ids)

\* Every kind of change, listing failures, crashes and expired tokens, with
\* passes; and deletions with torn downloads and names used again, without.
SafetySetups ==
    {[ops |-> {"create", "edit", "move", "trash"}, faults |-> {"list", "crash", "gone"},
      passes |-> TRUE, userHead |-> 3, maxHead |-> 5],
     [ops |-> {"create", "edit", "trash"}, faults |-> {"list", "crash", "torn"},
      passes |-> FALSE, userHead |-> 4, maxHead |-> 6]}

\* Deletions for good, failing operations and crashes.
RepairSetups ==
    {[ops |-> {"create", "edit", "remove"}, faults |-> {"file", "crash"},
      passes |-> TRUE, userHead |-> 2, maxHead |-> 4]}

\* Files are made in a folder, and the process crashes.
FolderSetups ==
    {[ops |-> {"create"}, faults |-> {"crash"}, passes |-> TRUE, userHead |-> 2, maxHead |-> 4]}
============================================================================
