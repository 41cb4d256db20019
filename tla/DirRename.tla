----------------------------- MODULE DirRename -----------------------------
(***************************************************************************)
(* Renames of directories on their way to Drive: handleDirRename moves the *)
(* folder and then rewrites the journal (internal/syncer/syncer.go,        *)
(* internal/store/rename.go), beside workers that upload files of the same *)
(* directory and bisync passes that upload what they find.                 *)
(*                                                                         *)
(* A path is a sequence of characters, a character a number; 0 is the      *)
(* separator.  Which names begin with each other is all that matters.      *)
(***************************************************************************)
EXTENDS Naturals, Sequences, SequencesExt

CONSTANTS
    Dirs,         \* bound: the names of directories
    Leaves,       \* bound: the names of files in them
    MaxAttempts,  \* Retry.MaxAttempts
    Setups        \* the configuration, and what takes place: one of these

ASSUME DirRenameAssumption ==
    /\ \A d \in Dirs \union Leaves : d \in Seq(Nat \ {0}) /\ d # <<>>
    /\ MaxAttempts \in Nat \ {0}
    /\ \A s \in Setups :
          /\ s.leaves \subseteq Leaves /\ s.workers \in Nat \ {0}
          /\ s.folders \in BOOLEAN /\ s.bisync \in BOOLEAN
          /\ s.faults \subseteq {"refused", "lost", "store"}
          /\ s.renames \in Nat /\ s.edits \in Nat /\ s.crashes \in Nat

VARIABLES
    setup,    \* which of Setups this behaviour belongs to
    local,    \* the version of each local file
    remote,   \* the version of each file on Drive
    journal,  \* the version that the entry of a path records
    events,   \* the channel of file events: paths
    renames,  \* the channel of directory renames
    jobs,     \* what each worker is doing
    count     \* how often the user and the process have done what is bounded

drive == <<setup, remote, journal>>
vars == <<local, drive, events, renames, jobs, count>>

AllWorkers == UNION {1..s.workers : s \in Setups}
Workers == 1..setup.workers
Folders == setup.folders  \* MoveFile moves folders, or, as RcloneFS, files only
Bisync == setup.bisync    \* bisync runs beside the workers
Faults == setup.faults    \* bound: what goes wrong

In(d, p) == IsPrefix(Append(d, 0), p)
PathOf(d, l) == d \o <<0>> \o l
Paths == {PathOf(d, l) : d \in Dirs, l \in Leaves}
Versions == 1..(setup.edits + 1)

Idle == [pc |-> "idle", path |-> <<>>, to |-> <<>>, tries |-> 0, ver |-> 0]

\* A path that begins with from, after the rename.
Renamed(p, from, to) == to \o SubSeq(p, Len(from) + 1, Len(p))

\* The files f once the directory from has its new name.
Moved(f, from, to) ==
    LET key(p) == IF In(from, p) THEN Renamed(p, from, to) ELSE p
    IN [q \in {key(p) : p \in DOMAIN f} |-> f[CHOOSE p \in DOMAIN f : key(p) = q]]

Put(f, p, v) == [q \in DOMAIN f \union {p} |-> IF q = p THEN v ELSE f[q]]

\* Some directories have files, and everything is in sync.
Init ==
    /\ setup \in Setups
    /\ \E S \in (SUBSET Dirs) \ {{}} :
          local = [p \in {PathOf(d, l) : d \in S, l \in setup.leaves} |-> 1]
    /\ remote = local /\ journal = local
    /\ events = <<>> /\ renames = <<>>
    /\ jobs = [w \in Workers |-> Idle]
    /\ count = [edits |-> 0, renames |-> 0, crashes |-> 0]

----------------------------------------------------------------------------
(* The user and the watcher.                                               *)

Edit(p) ==
    /\ count.edits < setup.edits
    /\ local' = [local EXCEPT ![p] = count.edits + 2]
    /\ events' = Append(events, p)
    /\ count' = [count EXCEPT !.edits = @ + 1]
    /\ UNCHANGED <<drive, renames, jobs>>

\* A directory is renamed to a name that is not in use, and paired.
Rename(from, to) ==
    /\ count.renames < setup.renames
    /\ \E p \in DOMAIN local : In(from, p)
    /\ ~\E p \in DOMAIN local : In(to, p)
    /\ local' = Moved(local, from, to)
    /\ renames' = Append(renames, [from |-> from, to |-> to])
    /\ count' = [count EXCEPT !.renames = @ + 1]
    /\ UNCHANGED <<drive, events, jobs>>

----------------------------------------------------------------------------
(* Uploads.                                                                *)

\* A worker takes the next file event; the fan-in goroutines keep the order
\* of each channel and none between them.
TakeEvent(w) ==
    /\ jobs[w] = Idle /\ events # <<>>
    /\ jobs' = [jobs EXCEPT ![w] = [Idle EXCEPT !.pc = "open", !.path = Head(events)]]
    /\ events' = Tail(events)
    /\ UNCHANGED <<local, drive, renames, count>>

\* The next attempt of a job, or its end.
Again(job, pc) ==
    IF job.tries + 1 < MaxAttempts THEN [job EXCEPT !.pc = pc, !.tries = @ + 1] ELSE Idle

\* CopyFile opens the file, which may be gone ...
Open(w) ==
    /\ jobs[w].pc = "open"
    /\ jobs' = [jobs EXCEPT ![w] =
          IF @.path \in DOMAIN local
          THEN [@ EXCEPT !.pc = "send", !.ver = local[jobs[w].path]] ELSE Again(@, "open")]
    /\ UNCHANGED <<local, drive, events, renames, count>>

\* ... and sends it, making the folders it needs.
Send(w) ==
    /\ jobs[w].pc = "send"
    /\ remote' = Put(remote, jobs[w].path, jobs[w].ver)
    /\ jobs' = [jobs EXCEPT ![w].pc = "record"]
    /\ UNCHANGED <<setup, local, journal, events, renames, count>>

SendFails(w) ==
    /\ jobs[w].pc = "send"
    /\ \/ "refused" \in Faults /\ remote' = remote
       \/ "lost" \in Faults /\ remote' = Put(remote, jobs[w].path, jobs[w].ver)
    /\ jobs' = [jobs EXCEPT ![w] = Again(@, "open")]
    /\ UNCHANGED <<setup, local, journal, events, renames, count>>

\* recordResult: an error of the store is only logged.
Record(w) ==
    /\ jobs[w].pc = "record"
    /\ \/ journal' = Put(journal, jobs[w].path, jobs[w].ver)
       \/ "store" \in Faults /\ journal' = journal
    /\ jobs' = [jobs EXCEPT ![w] = Idle]
    /\ UNCHANGED <<setup, local, remote, events, renames, count>>

----------------------------------------------------------------------------
(* Renames of directories.                                                 *)

TakeRename(w) ==
    /\ jobs[w] = Idle /\ renames # <<>>
    /\ jobs' = [jobs EXCEPT ![w] = [Idle EXCEPT !.pc = "move", !.path = Head(renames).from,
                                                !.to = Head(renames).to]]
    /\ renames' = Tail(renames)
    /\ UNCHANGED <<local, drive, events, count>>

\* handleDirRename is written for a client that moves a folder whose new name
\* is free (PLAN.md 6.4): Folders.  The clients of this repository are no such
\* clients.  RcloneFS.MoveFile, like MemFS, looks the path up as a file, and a
\* folder is an error: Folders is FALSE, and the rewrite below is not reached.
CanMove(from, to) ==
    /\ Folders
    /\ \E p \in DOMAIN remote : In(from, p)
    /\ ~\E p \in DOMAIN remote : In(to, p)

MoveFile(w) ==
    /\ jobs[w].pc = "move"
    /\ CanMove(jobs[w].path, jobs[w].to)
    /\ remote' = Moved(remote, jobs[w].path, jobs[w].to)
    /\ jobs' = [jobs EXCEPT ![w].pc = "rewrite"]
    /\ UNCHANGED <<setup, local, journal, events, renames, count>>

\* It cannot be done, or is refused, or is done and the answer lost.
MoveFails(w) ==
    /\ jobs[w].pc = "move"
    /\ LET can == CanMove(jobs[w].path, jobs[w].to)
       IN \/ ~can /\ remote' = remote
          \/ "refused" \in Faults /\ remote' = remote
          \/ "lost" \in Faults /\ can /\ remote' = Moved(remote, jobs[w].path, jobs[w].to)
    /\ jobs' = [jobs EXCEPT ![w] = Again(@, "move")]
    /\ UNCHANGED <<setup, local, journal, events, renames, count>>

\* The order of the keys in the journal.
Before(p, q) ==
    \/ IsStrictPrefix(p, q)
    \/ \E i \in DOMAIN p \intersect DOMAIN q :
          p[i] < q[i] /\ \A j \in 1..(i - 1) : p[j] = q[j]

\* Mutant: entries are copied to the new prefix.
RewritePrefixCopies(from, to) ==
    [q \in DOMAIN journal \union {Renamed(p, from, to) : p \in {k \in DOMAIN journal : IsPrefix(from, k)}} |->
        IF q \in DOMAIN journal THEN journal[q]
        ELSE journal[CHOOSE p \in DOMAIN journal : IsPrefix(from, p) /\ Renamed(p, from, to) = q]]

\* Mutant: the old prefix stays on.
RewritePrefixUntrimmed(from, to) ==
    LET old == {p \in DOMAIN journal : IsPrefix(from, p)}
        new == {to \o p : p \in old}
    IN [q \in (DOMAIN journal \ old) \union new |->
          IF q \in new THEN journal[CHOOSE p \in old : to \o p = q] ELSE journal[q]]

\* One transaction: the entries that begin with from are read first, then
\* each is deleted and put back under its new key, in the order of the keys.
\* A new key that is an old one too stays if it was deleted before it was put.
RewritePrefix(from, to) ==
    LET old == {p \in DOMAIN journal : IsPrefix(from, p)}
        key(p) == Renamed(p, from, to)
        stay == {p \in old : key(p) \in old => key(p) = p \/ Before(key(p), p)}
        new == {key(p) : p \in stay}
    IN [q \in (DOMAIN journal \ old) \union new |->
          IF q \in new THEN journal[CHOOSE p \in stay : key(p) = q] ELSE journal[q]]

\* An error of the rewrite is only logged: audit and event report success.
Rewrite(w) ==
    /\ jobs[w].pc = "rewrite"
    /\ \/ journal' = RewritePrefix(jobs[w].path, jobs[w].to)
       \/ "store" \in Faults /\ journal' = journal
    /\ jobs' = [jobs EXCEPT ![w] = Idle]
    /\ UNCHANGED <<setup, local, remote, events, renames, count>>

----------------------------------------------------------------------------
(* Bisync, restarts and the whole.                                         *)

\* Mutant: files that have an entry are passed over.
PassNewOnly ==
    /\ Bisync /\ \A w \in Workers : jobs[w] = Idle
    /\ LET new == DOMAIN local \ DOMAIN journal
       IN /\ remote' = [p \in DOMAIN remote \union new |-> IF p \in new THEN local[p] ELSE remote[p]]
          /\ journal' = [p \in DOMAIN journal \union new |-> IF p \in new THEN local[p] ELSE journal[p]]
    /\ UNCHANGED <<setup, local, events, renames, jobs, count>>

\* A pass, which takes turns with the workers: List shows no file of a folder,
\* so every local file in a directory is local only, and uploaded.
Pass ==
    /\ Bisync /\ \A w \in Workers : jobs[w] = Idle
    /\ remote' = [p \in DOMAIN remote \union DOMAIN local |->
                    IF p \in DOMAIN local THEN local[p] ELSE remote[p]]
    /\ journal' = [p \in DOMAIN journal \union DOMAIN local |->
                    IF p \in DOMAIN local THEN local[p] ELSE journal[p]]
    /\ UNCHANGED <<setup, local, events, renames, jobs, count>>

\* The process ends and starts again; channels and jobs are gone.
Crash ==
    /\ count.crashes < setup.crashes
    /\ events' = <<>> /\ renames' = <<>>
    /\ jobs' = [w \in Workers |-> Idle]
    /\ count' = [count EXCEPT !.crashes = @ + 1]
    /\ UNCHANGED <<local, drive>>

User == (\E p \in DOMAIN local : Edit(p)) \/ (\E from, to \in Dirs : Rename(from, to))

Work(w) ==
    \/ TakeEvent(w) \/ Open(w) \/ Send(w) \/ SendFails(w) \/ Record(w)
    \/ TakeRename(w) \/ MoveFile(w) \/ MoveFails(w) \/ Rewrite(w)

Quiet == events = <<>> /\ renames = <<>> /\ \A w \in Workers : jobs[w] = Idle

\* Nothing is left to do, and no pass comes.
Rest == Quiet /\ ~Bisync /\ UNCHANGED vars

Next == User \/ (\E w \in Workers : Work(w)) \/ Pass \/ Crash \/ Rest

\* Workers go on, and the ticker of bisync comes round once they are idle.
Spec ==
    /\ Init /\ [][Next]_vars
    /\ \A w \in AllWorkers : WF_vars(w \in Workers /\ Work(w))
    /\ WF_vars(Pass)

----------------------------------------------------------------------------
(* Properties.                                                             *)

Jobs ==
    [pc : {"idle", "open", "send", "record", "move", "rewrite"}, path : Paths \union Dirs \union {<<>>},
     to : Dirs \union {<<>>}, tries : 0..(MaxAttempts - 1), ver : Versions \union {0}]

\* No directory's name begins with another's.
NamesApart == \A d, e \in Dirs : IsPrefix(d, e) => d = e

IsTree(f) == DOMAIN f \subseteq Paths /\ f \in [DOMAIN f -> Versions]

\* The types of the variables; every path is one that the user made.  (A
\* rewrite that takes a name for the beginning of another makes others.)
TypeOK ==
    /\ setup \in Setups
    /\ IsTree(local) /\ IsTree(remote) /\ (NamesApart => IsTree(journal))
    /\ events \in Seq(Paths)
    /\ renames \in Seq([from : Dirs, to : Dirs])
    /\ jobs \in [Workers -> Jobs]

\* PLAN.md 6.4: the transaction moves the keys of the renamed directory, and
\* no others.  When nothing is under way, the entries are those of the files
\* on Drive, and record their versions.  (With one worker that has not crashed,
\* and no directory whose name begins with that of another; an upload or a
\* rewrite whose answer is lost leaves the entries behind.  With RcloneFS, where
\* every rename fails, it is about uploads and passes; about the rewrite only
\* with a client that moves folders.)
EntriesFollow ==
    Quiet /\ setup.workers = 1 /\ Faults \subseteq {"refused"} /\ count.crashes = 0 /\ NamesApart
        => journal = remote

\* Whatever fails, and whichever of the two steps of a rename a crash cuts
\* off, in the end every local file is on Drive and in the journal, under the
\* name and with the content that it has.
Followed == Bisync => <>[](\A p \in DOMAIN local :
    /\ p \in DOMAIN remote /\ remote[p] = local[p]
    /\ p \in DOMAIN journal /\ journal[p] = local[p])
=============================================================================
