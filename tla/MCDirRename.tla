----------------------------- MODULE MCDirRename -----------------------------
(* Instances of DirRename for TLC.                                          *)
EXTENDS DirRename

\* d, e and g: no name begins with another.
MCDirs == {<<1>>, <<2>>, <<3>>}

MCLeaves == {<<5>>, <<6>>}

\* Two files, with passes and moves that are refused; renames one after the
\* other; two workers, with everything that can fail.  RcloneFS (folders is
\* FALSE), and the client that the rewrite of the journal is written for.
DirSetups ==
    [leaves : {MCLeaves}, workers : {1}, folders : BOOLEAN, bisync : {TRUE},
     faults : {{"refused"}}, renames : {2}, edits : {1}, crashes : {0}]
    \union
    [leaves : {{<<5>>}}, workers : {1}, folders : {TRUE}, bisync : {FALSE},
     faults : {{}}, renames : {4}, edits : {0}, crashes : {0}]
    \union
    [leaves : {{<<5>>}}, workers : {2}, folders : BOOLEAN, bisync : {TRUE},
     faults : {{"refused", "lost", "store"}}, renames : {1}, edits : {1}, crashes : {1}]
=============================================================================
