----------------------------- MODULE MCFileSync -----------------------------
(* Instances of FileSync for TLC.                                          *)
EXTENDS FileSync

Setup(policy, users, deeds, overlap, faults, passes, maxTime) ==
    [policy |-> policy, users |-> users, deeds |-> deeds, overlap |-> overlap,
     faults |-> faults, passes |-> passes, maxTime |-> maxTime]

Both == {"local", "remote"}

\* Both users do everything and everything fails, before the first pass; both
\* write, with faults under each policy, and without; the local user alone,
\* in the middle of transfers; the remote user alone, with slow downloads.
FileSetups ==
    {Setup("newer_wins", Both, {"write", "remove", "rename", "touch"}, {"timer"},
           {"remote", "crash", "slow"}, FALSE, 4),
     Setup("newer_wins", Both, {"write", "remove", "rename", "touch"}, {"timer"},
           {"remote", "retry", "crash", "slow"}, FALSE, 3),
     Setup("newer_wins", Both, {"write"}, {"timer"}, {"remote", "crash"}, TRUE, 4),
     Setup("newer_wins", Both, {"write", "touch"}, {"timer"}, {}, TRUE, 4),
     Setup("newer_wins", {"local"}, {"write"}, {"transfer", "timer"}, {"remote", "crash"}, TRUE, 4),
     Setup("newer_wins", {"local"}, {"write"}, {"transfer", "timer"}, {"remote", "retry", "crash"}, TRUE, 3),
     Setup("newer_wins", {"remote"}, {"write", "touch"}, {}, {"slow"}, TRUE, 5)}
    \union
    {Setup(policy, Both, {"write"}, {"timer"}, {"remote", "retry", "crash"}, TRUE, 3)
       : policy \in {"newer_wins", "local_wins", "remote_wins"}}
============================================================================
