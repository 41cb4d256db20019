------------------------------ MODULE Watcher ------------------------------
(***************************************************************************)
(* How changes of the local tree become events (internal/watcher): the     *)
(* fsnotify loop and its walk of new directories (watcher.go), the         *)
(* debouncer (debouncer.go), the pairing of directory renames (pairer.go)  *)
(* and the guard against echoes of the Puller's own writes.                *)
(*                                                                         *)
(* A path is the sequence of its names below local_root.  A directory has  *)
(* content 1, a file the number of the step that wrote it, 0 is nothing.   *)
(* Clocks are left out: every timer and window may end at any moment.  The *)
(* send into the bounded event channel is AgentRun's subject.              *)
(***************************************************************************)
EXTENDS Naturals, Sequences, FiniteSets, SequencesExt

CONSTANTS
    Dirs,      \* the directories of the model
    Files,     \* the files of the model
    Start,     \* those that are there when the watcher starts
    NoWatch,   \* "not watched"
    NoFile,    \* "no download under way"
    UserOps,   \* bound: what user and Puller do
    Calm,      \* bound: a rename finds the watcher at rest and is left to settle,
               \* and the user lets a download be recorded before an edit and be
               \* watched before a removal
    MaxOps     \* bound on the steps of user and Puller

Paths == Dirs \union Files

\* A name is always that of a file or always that of a directory.
ASSUME WatcherAssumption ==
    /\ IsFiniteSet(Dirs)
    /\ \A p \in Paths : p \in Seq(STRING) /\ p # <<>> /\ (Front(p) = <<>> \/ Front(p) \in Dirs)
    /\ \A d \in Dirs, f \in Files : Last(d) # Last(f)
    /\ Start \subseteq Paths
    /\ \A p \in Start : Front(p) = <<>> \/ Front(p) \in Start
    /\ NoWatch \notin Dirs /\ NoFile \notin Files
    /\ UserOps \subseteq {"mkdir", "write", "remove", "rename", "out", "pull"}
    /\ Calm \in BOOLEAN /\ MaxOps \in Nat

VARIABLES
    tree,        \* content of each path
    watch,       \* the name under which the kernel reports on a directory
    queue,       \* fsnotify events not yet handled: [op, path]
    tracked,     \* pairer.watchedDirs
    renames,     \* pairer.pending, oldest first
    creates,     \* pairer.recentCreates, oldest first
    suppressed,  \* pairer.suppressedPrefixes
    job,         \* what the event loop is in the middle of
    pending,     \* debouncer.pending: the operation per path
    firing,      \* operations whose callback has left the debouncer
    record,      \* content of each file in its sync record
    fetching,    \* the file the Puller has written and not yet recorded
    ops,         \* steps of user and Puller so far
    told,        \* auxiliary: each file's last change is "told", or was a move with
                 \* its directory, a change of a file told of, or made a new file
    hasty        \* auxiliary: a directory was removed while it was being added

fsVars == <<tree, watch, record, fetching, ops>>
pairVars == <<renames, creates, suppressed, tracked>>
bounceVars == <<pending, firing>>
auxVars == <<told, hasty>>
vars == <<fsVars, queue, pairVars, job, bounceVars, auxVars>>

IsDir(p) == tree[p] = 1
Exists(p) == p # <<>> => tree[p] # 0
Under(p, d) == IsStrictPrefix(d, p)
InTree(d) == {p \in Paths : p = d \/ Under(p, d)}

\* A path is the key of one entry of a map; this deletes it.
Without(s, p) ==
    IF p \in ToSet(s) THEN RemoveAt(s, CHOOSE i \in DOMAIN s : s[i] = p) ELSE s

NoJob == [kind |-> "none", path |-> <<>>, from |-> <<>>, todo |-> <<>>]

\* After initialWalk: a watch on every directory.  (The user is taken to leave
\* the tree alone meanwhile: initialWalk reports no files, so one made before
\* its directory is watched is left to bisync.)
Init ==
    /\ tree = [p \in Paths |-> IF p \in Start THEN 1 + Cardinality({p} \intersect Files) ELSE 0]
    /\ watch = [d \in Dirs |-> IF d \in Start THEN d ELSE NoWatch]
    /\ tracked = Start \intersect Dirs
    /\ queue = <<>>
    /\ renames = <<>> /\ creates = <<>> /\ suppressed = {}
    /\ job = NoJob
    /\ pending = [p \in Paths |-> "none"] /\ firing = [p \in Paths |-> {}]
    /\ record = [f \in Files |-> tree[f]]
    /\ fetching = NoFile
    /\ ops = 0
    /\ told = [f \in Files |-> "told"]
    /\ hasty = FALSE

----------------------------------------------------------------------------
(* The file system and inotify (external), its user and the Puller.        *)

\* What the queue gets of a change at p: the parent's watch names the event.
Seen(op, p) ==
    LET d == Front(p) IN
    IF d = <<>> THEN <<[op |-> op, path |-> p]>>
    ELSE IF watch[d] = NoWatch THEN <<>>
    ELSE <<[op |-> op, path |-> Append(watch[d], Last(p))]>>

\* A moved directory's own watch reports the move too, under its old name.
SeenSelf(d) == IF watch[d] = NoWatch THEN <<>> ELSE <<[op |-> "rename", path |-> watch[d]]>>

Busy == queue # <<>> \/ job # NoJob \/ \E p \in Paths : pending[p] # "none" \/ firing[p] # {}

\* The moments Calm leaves to the user.
RenameOver ==
    /\ renames = <<>> /\ suppressed = {} /\ job.kind # "pair"
    /\ \A i \in DOMAIN queue : queue[i].op # "rename"
MayAct(op) == op \in UserOps /\ ops < MaxOps /\ (Calm => RenameOver)
MayRename(op) == MayAct(op) /\ (Calm => ~Busy /\ creates = <<>> /\ fetching = NoFile)
MayEdit(op, f) == MayAct(op) /\ (Calm => fetching # f)

Act == ops' = ops + 1 /\ UNCHANGED <<pairVars, job, bounceVars>>
Stamp == ops + 3

Mkdir(d) ==
    /\ MayAct("mkdir")
    /\ ~Exists(d) /\ Exists(Front(d))
    /\ tree' = [tree EXCEPT ![d] = 1]
    /\ queue' = queue \o Seen("create", d)
    /\ Act /\ UNCHANGED <<watch, record, fetching, told, hasty>>

\* Its Create is queued, or the walk of it or of one above it is going on.
BeingAdded(d) ==
    \/ \E i \in DOMAIN queue : queue[i] = [op |-> "create", path |-> d]
    \/ job # NoJob /\ d \in InTree(job.path)

Rmdir(d) ==
    /\ MayAct("remove")
    /\ IsDir(d) /\ \A p \in Paths : Under(p, d) => ~Exists(p)
    /\ tree' = [tree EXCEPT ![d] = 0]
    /\ watch' = [watch EXCEPT ![d] = NoWatch]
    /\ queue' = queue \o Seen("remove", d)
    /\ hasty' = (hasty \/ BeingAdded(d))
    /\ Act /\ UNCHANGED <<record, fetching, told>>

\* A file is made and written, or written.
Put(f) ==
    /\ Exists(Front(f))
    /\ tree' = [tree EXCEPT ![f] = Stamp]
    /\ queue' = queue \o (IF Exists(f) THEN <<>> ELSE Seen("create", f)) \o Seen("write", f)

WriteFile(f) ==
    /\ MayEdit("write", f)
    /\ Put(f)
    /\ told' = [told EXCEPT ![f] = IF @ = "new" \/ (@ = "told" /\ ~Exists(f)) THEN "new" ELSE "changed"]
    /\ Act /\ UNCHANGED <<watch, record, fetching, hasty>>

RemoveFile(f) ==
    /\ MayEdit("remove", f)
    /\ Exists(f)
    /\ Calm /\ told[f] # "new" => Seen("remove", f) # <<>>
    /\ tree' = [tree EXCEPT ![f] = 0]
    /\ queue' = queue \o Seen("remove", f)
    /\ told' = [told EXCEPT ![f] = IF @ = "new" THEN "told" ELSE "changed"]
    /\ Act /\ UNCHANGED <<watch, record, fetching, hasty>>

\* Where p was before d was renamed to e.
Origin(p, d, e) == d \o SubSeq(p, Len(e) + 1, Len(p))
FromDir(q, d, e) == q \in InTree(e) /\ Origin(q, d, e) \in Paths

\* Nothing is left to tell of a file whose last change was told, or that moved
\* back to where its record still describes it.
Known(f) == told[f] = "told" \/ (told[f] = "moved" /\ record[f] = tree[f])

\* What is still to be told of a file that moved with its directory, at the
\* new path and at the old one.
Arrived(f) == CASE Known(f) -> "moved" [] told[f] = "new" -> "new" [] OTHER -> "changed"
Left(t) == IF t = "new" THEN "told" ELSE "moved"

RenameDir(d, e) ==
    /\ MayRename("rename")
    /\ IsDir(d) /\ ~Exists(e) /\ Exists(Front(e)) /\ ~Under(e, d)
    /\ tree' = [p \in Paths |-> IF FromDir(p, d, e) THEN tree[Origin(p, d, e)]
                                ELSE IF p \in InTree(d) THEN 0 ELSE tree[p]]
    /\ watch' = [q \in Dirs |-> IF FromDir(q, d, e) THEN watch[Origin(q, d, e)]
                                ELSE IF q \in InTree(d) THEN NoWatch ELSE watch[q]]
    /\ queue' = queue \o Seen("rename", d) \o Seen("create", e) \o SeenSelf(d)
    /\ told' = [f \in Files |->
                  IF FromDir(f, d, e) /\ Exists(Origin(f, d, e))
                  THEN Arrived(Origin(f, d, e))
                  ELSE IF f \in InTree(d) /\ Exists(f) THEN Left(told[f]) ELSE told[f]]
    /\ Act /\ UNCHANGED <<record, fetching, hasty>>

\* A directory is moved out of local_root.
MoveOut(d) ==
    /\ MayRename("out")
    /\ IsDir(d)
    /\ tree' = [p \in Paths |-> IF p \in InTree(d) THEN 0 ELSE tree[p]]
    /\ watch' = [q \in Dirs |-> IF q \in InTree(d) THEN NoWatch ELSE watch[q]]
    /\ queue' = queue \o Seen("rename", d) \o SeenSelf(d)
    /\ told' = [f \in Files |-> IF f \in InTree(d) /\ Exists(f) THEN Left(told[f]) ELSE told[f]]
    /\ Act /\ UNCHANGED <<record, fetching, hasty>>

\* The Puller writes a file and records it later.
PullWrite(f) ==
    /\ MayAct("pull")
    /\ fetching = NoFile
    /\ Put(f)
    /\ fetching' = f
    /\ told' = [told EXCEPT ![f] = "told"]
    /\ Act /\ UNCHANGED <<watch, record, hasty>>

PullRecord ==
    /\ fetching # NoFile
    /\ record' = [record EXCEPT ![fetching] = tree[fetching]]
    /\ fetching' = NoFile
    /\ UNCHANGED <<tree, watch, ops, queue, pairVars, job, bounceVars, auxVars>>

----------------------------------------------------------------------------
(* The debouncer and the echo guard.                                       *)

\* suppressSelfInduced: a Create or Write that finds the recorded content.
SuppressSelfInduced(p, op) ==
    op \in {"create", "write"} /\ p \in Files /\ Exists(p) /\ record[p] = tree[p]

\* debouncePath with debouncer.add: a Create is not downgraded to a Write.
Debounced(p, op) ==
    IF SuppressSelfInduced(p, op) \/ (pending[p] = "create" /\ op = "write")
    THEN pending[p] ELSE op
DebouncePath(p, op) == pending' = [pending EXCEPT ![p] = Debounced(p, op)]

\* The timer's callback takes the event and releases the mutex ...
TimerFires(p) ==
    /\ pending[p] # "none"
    /\ pending[p] \notin firing[p]     \* bound: one callback per operation
    /\ firing' = [firing EXCEPT ![p] = @ \union {pending[p]}]
    /\ pending' = [pending EXCEPT ![p] = "none"]
    /\ UNCHANGED <<fsVars, queue, pairVars, job, auxVars>>

\* An event tells of a file when it agrees with what is there.  A directory
\* that has moved away tells of what was in it.
Agrees(op, f) == IF op \in {"create", "write"} THEN Exists(f) ELSE ~Exists(f)
Tells(p, op, f) ==
    \/ f = p /\ Agrees(op, f)
    \/ op = "rename" /\ Under(f, p) /\ ~Exists(f) /\ told[f] = "moved"
EmitEvent(p, op) == told' = [f \in Files |-> IF Tells(p, op, f) THEN "told" ELSE told[f]]

\* The push of the event, taken to succeed at once, brings the record up to
\* date; a rename event is not pushed, nor is a file that is gone.
RecordResult(p, op) ==
    record' = [f \in Files |-> CASE f = p /\ op = "remove" -> 0
                                 [] f = p /\ op \in {"create", "write"} /\ Exists(f) -> tree[f]
                                 [] OTHER -> record[f]]

\* ... and then runs fireEvent: the guard again, and the send.
FireEvent(p, op) ==
    /\ op \in firing[p]
    /\ firing' = [firing EXCEPT ![p] = @ \ {op}]
    /\ IF SuppressSelfInduced(p, op) THEN UNCHANGED <<told, record>>
       ELSE EmitEvent(p, op) /\ RecordResult(p, op)
    /\ UNCHANGED <<tree, watch, fetching, ops, queue, pairVars, job, pending, hasty>>

----------------------------------------------------------------------------
(* Watches and the pairer.                                                 *)

\* addWatch: a path that is not a directory any more is refused.
Watching(w, d) == IF IsDir(d) THEN [w EXCEPT ![d] = d] ELSE w
Tracking(t, d) == IF IsDir(d) THEN t \union {d} ELSE t
AddWatch(d) == watch' = Watching(watch, d) /\ tracked' = Tracking(tracked, d)

\* removeSubtreeWatches(from), then addWatch(to).
SubtreeOf(from) == {from} \union {d \in tracked : Under(d, from)}
Rewatch(from, to) ==
    LET gone == SubtreeOf(from)
        rest == [d \in Dirs |-> IF watch[d] \in gone THEN NoWatch ELSE watch[d]]
    IN watch' = Watching(rest, to) /\ tracked' = Tracking(tracked \ gone, to)

ToRead(d) == [path |-> d, step |-> "read"]
ToWatch(d) == [path |-> d, step |-> "watch"]

\* Mutant: the subtree of the renamed directory is not walked.
PairNoWalk(from, to) ==
    /\ suppressed' = suppressed \union {from, to}
    /\ Rewatch(from, to)
    /\ job' = [kind |-> "pair", path |-> to, from |-> from, todo |-> <<>>]

\* A pair is found: its windows of suppression, and onDirRenamePaired begins.
Pair(from, to) ==
    /\ suppressed' = suppressed \union {from, to}
    /\ Rewatch(from, to)
    /\ job' = [kind |-> "pair", path |-> to, from |-> from, todo |-> <<ToRead(to)>>]

\* expireRename and onDirRenameUnpaired: the directory stays tracked.
ExpireRename ==
    \E d \in ToSet(renames) :
       /\ renames' = Without(renames, d)
       /\ EmitEvent(d, "rename")
       /\ UNCHANGED <<fsVars, queue, creates, suppressed, tracked, job, bounceVars, hasty>>

\* The window of the oldest recorded Create, or of a suppression, is over.
ExpireCreate ==
    /\ creates # <<>>
    /\ creates' = Tail(creates)
    /\ UNCHANGED <<fsVars, queue, renames, suppressed, tracked, job, bounceVars, auxVars>>

ExpireSuppressed ==
    \E d \in suppressed :
       /\ suppressed' = suppressed \ {d}
       /\ UNCHANGED <<fsVars, queue, renames, creates, tracked, job, bounceVars, auxVars>>

----------------------------------------------------------------------------
(* handleFSEvent.                                                          *)

IsSuppressed(p) == \E d \in suppressed : p = d \/ Under(p, d)

\* The event loop takes the next event, which a recent rename may suppress.
Handling(op, p) ==
    /\ job = NoJob
    /\ queue # <<>>
    /\ Head(queue) = [op |-> op, path |-> p]
    /\ queue' = Tail(queue)
    /\ ~IsSuppressed(p)
    /\ UNCHANGED <<tree, record, fetching, ops, firing, auxVars>>

DropSuppressed ==
    /\ job = NoJob
    /\ queue # <<>>
    /\ IsSuppressed(Head(queue).path)
    /\ queue' = Tail(queue)
    /\ UNCHANGED <<fsVars, pairVars, job, bounceVars, auxVars>>

\* handleRename of a directory: paired with a Create that came first ...
RenamePairs(p) ==
    /\ Handling("rename", p)
    /\ p \in tracked
    /\ creates # <<>>
    /\ creates' = Tail(creates)
    /\ Pair(p, Head(creates))
    /\ UNCHANGED <<renames, pending>>

\* ... or buffered.
RenameBuffered(p) ==
    /\ Handling("rename", p)
    /\ p \in tracked
    /\ creates = <<>>
    /\ renames' = Append(Without(renames, p), p)
    /\ UNCHANGED <<watch, tracked, creates, suppressed, job, pending>>

\* What is not a watched directory is debounced.
RenameDebounced(p) ==
    /\ Handling("rename", p)
    /\ p \notin tracked
    /\ DebouncePath(p, "rename")
    /\ UNCHANGED <<watch, pairVars, job>>

\* handleCreate of a directory: paired with the oldest buffered rename ...
CreatePairs(p) ==
    /\ Handling("create", p)
    /\ IsDir(p)
    /\ renames # <<>>
    /\ renames' = Tail(renames)
    /\ Pair(Head(renames), p)
    /\ UNCHANGED <<creates, pending>>

\* Mutant: a Create is recorded for pairing whether or not it is a directory.
CreateDirAny(p) ==
    /\ Handling("create", p)
    /\ renames = <<>>
    /\ creates' = Append(Without(creates, p), p)
    /\ AddWatch(p)
    /\ job' = [kind |-> "create", path |-> p, from |-> <<>>, todo |-> <<ToRead(p)>>]
    /\ UNCHANGED <<renames, suppressed, pending>>

\* ... or recorded, watched and walked.
CreateDir(p) ==
    /\ Handling("create", p)
    /\ IsDir(p)
    /\ renames = <<>>
    /\ creates' = Append(Without(creates, p), p)
    /\ AddWatch(p)
    /\ job' = [kind |-> "create", path |-> p, from |-> <<>>, todo |-> <<ToRead(p)>>]
    /\ UNCHANGED <<renames, suppressed, pending>>

CreateOther(p) ==
    /\ Handling("create", p)
    /\ ~IsDir(p)
    /\ DebouncePath(p, "create")
    /\ UNCHANGED <<watch, pairVars, job>>

HandleWrite(p) ==
    /\ Handling("write", p)
    /\ DebouncePath(p, "write")
    /\ UNCHANGED <<watch, pairVars, job>>

HandleRemove(p) ==
    /\ Handling("remove", p)
    /\ tracked' = tracked \ {p}
    /\ DebouncePath(p, "remove")
    /\ UNCHANGED <<watch, renames, creates, suppressed, job>>

\* walkNewDir: a subdirectory gets its watch, and is read after that.
WalkWatch ==
    /\ job.todo # <<>> /\ Head(job.todo).step = "watch"
    /\ AddWatch(Head(job.todo).path)
    /\ job' = [job EXCEPT !.todo = <<ToRead(Head(@).path)>> \o Tail(@)]
    /\ UNCHANGED <<tree, record, fetching, ops, queue, renames, creates, suppressed,
                   bounceVars, auxVars>>

\* Mutant: the walk only adds watches (#118).
WalkReadNoEmit ==
    /\ job.todo # <<>> /\ Head(job.todo).step = "read"
    /\ LET found == {p \in Paths : Exists(p) /\ Front(p) = Head(job.todo).path} IN
       job' = [job EXCEPT !.todo =
                  SetToSeq({ToWatch(d) : d \in found \intersect Dirs}) \o Tail(@)]
    /\ UNCHANGED <<fsVars, queue, pairVars, bounceVars, auxVars>>

\* A directory is read: its files are debounced as Creates unless the walk is
\* that of a paired rename, its subdirectories are next.
WalkRead ==
    /\ job.todo # <<>> /\ Head(job.todo).step = "read"
    /\ LET found == {p \in Paths : Exists(p) /\ Front(p) = Head(job.todo).path} IN
       /\ job' = [job EXCEPT !.todo =
                     SetToSeq({ToWatch(d) : d \in found \intersect Dirs}) \o Tail(@)]
       /\ pending' = [p \in Paths |-> IF p \in found \intersect Files /\ job.kind = "create"
                                      THEN Debounced(p, "create") ELSE pending[p]]
    /\ UNCHANGED <<fsVars, queue, pairVars, firing, auxVars>>

\* The rest of handleFSEvent for a new directory.
CreateDirEnd ==
    /\ job.kind = "create" /\ job.todo = <<>>
    /\ DebouncePath(job.path, "create")
    /\ job' = NoJob
    /\ UNCHANGED <<fsVars, queue, pairVars, firing, auxVars>>

\* RewritePrefix: the records under old become records under new.  No name of
\* the model begins with the letters of another.
RewritePrefix(old, new) ==
    record' = [f \in Files |->
                 LET from == Origin(f, old, new) IN
                 CASE Under(f, new) /\ from \in Files /\ record[from] # 0 -> record[from]
                   [] Under(f, old) -> 0
                   [] OTHER -> record[f]]

\* The rest of onDirRenamePaired: the debounced events of the new directory
\* and of everything under the old and the new one are dropped, and the
\* DirRename is sent; its push, taken to succeed at once, rewrites the records.
PairEnd ==
    /\ job.kind = "pair" /\ job.todo = <<>>
    /\ pending' = [p \in Paths |->
                     IF p \in InTree(job.path) \union (InTree(job.from) \ {job.from})
                     THEN "none" ELSE pending[p]]
    /\ told' = [f \in Files |-> IF /\ told[f] = "moved"
                                   /\ Under(f, job.from) \/ Under(f, job.path)
                                THEN "told" ELSE told[f]]
    /\ RewritePrefix(job.from, job.path)
    /\ job' = NoJob
    /\ UNCHANGED <<tree, watch, fetching, ops, queue, pairVars, firing, hasty>>

----------------------------------------------------------------------------
UserOrPuller ==
    \/ \E d \in Dirs : Mkdir(d) \/ Rmdir(d) \/ MoveOut(d) \/ \E e \in Dirs : RenameDir(d, e)
    \/ \E f \in Files : WriteFile(f) \/ RemoveFile(f) \/ PullWrite(f)
    \/ PullRecord

EventLoop ==
    \/ DropSuppressed
    \/ \E p \in Paths :
          \/ RenamePairs(p) \/ RenameBuffered(p) \/ RenameDebounced(p)
          \/ CreatePairs(p) \/ CreateDir(p) \/ CreateOther(p)
          \/ HandleWrite(p) \/ HandleRemove(p)
    \/ WalkWatch \/ WalkRead \/ CreateDirEnd \/ PairEnd

Timers ==
    \/ \E p \in Paths : TimerFires(p) \/ \E op \in firing[p] : FireEvent(p, op)
    \/ ExpireRename \/ ExpireCreate \/ ExpireSuppressed

\* At rest, with the user's steps used up.
AtRest == ~Busy /\ fetching = NoFile /\ UNCHANGED vars

Next == UserOrPuller \/ EventLoop \/ Timers \/ AtRest

Spec == Init /\ [][Next]_vars

----------------------------------------------------------------------------
(* Properties.                                                             *)

Ops == {"create", "write", "remove", "rename"}

\* Every variable stays in its type.
TypeOK ==
    /\ tree \in [Paths -> 0..(MaxOps + 3)]
    /\ watch \in [Dirs -> Dirs \union {NoWatch}]
    /\ queue \in Seq([op : Ops, path : Paths])
    /\ tracked \subseteq Dirs /\ suppressed \subseteq Dirs
    /\ renames \in Seq(Dirs) /\ creates \in Seq(Dirs)
    /\ job.kind \in {"none", "create", "pair"}
    /\ job = NoJob \/ job.path \in Dirs
    /\ pending \in [Paths -> Ops \union {"none"}]
    /\ firing \in [Paths -> SUBSET Ops]
    /\ record \in [Files -> 0..(MaxOps + 3)]
    /\ fetching \in Files \union {NoFile}
    /\ told \in [Files -> {"told", "moved", "changed", "new"}]

Rest == ~Busy /\ renames = <<>> /\ fetching = NoFile

\* Once the watcher has come to rest, an event that agrees with what is on
\* disk was sent after the last change of every file, also of one made in a
\* directory before its watch (#118) or beside the Puller's writes (#122):
\* neither debouncing, nor the walk, nor the guard, nor a rename hides it.
\* Not so once a directory was removed while it was being added and then made
\* again: a late Create or the walk puts a watch on what is below the new
\* directory before that has one, and an event of the lower watch is handled
\* after the walk has found what came later (nine steps of the user).
\* With the same exception the pairer knows every directory then, so that its
\* next rename is told as one: the late Remove of an earlier directory of that
\* name has not untracked it (trackDir, untrackDir).
EveryChangeTold ==
    Rest /\ ~hasty => /\ \A f \in Files : Known(f)
                      /\ \A d \in Dirs : IsDir(d) => d \in tracked

\* At rest every directory is watched, under its own name: no mkdir, rmdir or
\* rename leaves a part of the tree unobserved.
Covered == Rest => \A d \in Dirs : IsDir(d) => watch[d] = d
============================================================================
