------------------------ MODULE MCConflictRetention ------------------------
(* Instances of ConflictRetention for TLC.                                 *)
EXTENDS ConflictRetention

Setup(maxPerFile, maxAge, policy, resolvers, faults, restless, maxEdits) ==
    [maxPerFile |-> maxPerFile, maxAge |-> maxAge, policy |-> policy, resolvers |-> resolvers,
     faults |-> faults, restless |-> restless, maxEdits |-> maxEdits]

Both == {"local", "remote"}

\* Numbers that are evicted and given out again, with remote operations that
\* fail; the same with losers that grow too old, and with entries that cannot
\* be written; crashes between any two steps; a watcher that lags behind; all
\* three resolvers, with a limit that is not reached.
KeepSetups ==
    {Setup(2, FALSE, "remote_wins", {"pull", "push"}, {"remote"}, {"remote"}, 7),
     Setup(2, TRUE, "remote_wins", {"pull", "push"}, {"store"}, {}, 5),
     Setup(1, FALSE, "remote_wins", {"pull", "push"}, {"store"}, {"watcher"}, 3),
     Setup(4, FALSE, "newer_wins", {"pull", "push", "bisync"}, {"store"}, {}, 2),
     Setup(1, TRUE, "newer_wins", {"pull", "push"}, {"crash"}, Both, 5),
     Setup(1, FALSE, "newer_wins", {"pull", "push"}, {"crash"}, {"watcher"}, 3),
     Setup(4, FALSE, "newer_wins", {"pull", "push", "bisync"}, {}, Both \union {"watcher"}, 4)}

\* The pull path, bisync and the GC.
ReuseSetups == {Setup(1, FALSE, "newer_wins", {"pull", "bisync"}, {}, {}, 5)}
============================================================================
