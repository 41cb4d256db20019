------------------------------ MODULE FileSync ------------------------------
(***************************************************************************)
(* One synced path between its two users: the local file, the object on    *)
(* Drive and the journal entry, with the push workers, the poll and the    *)
(* users interleaved at every stat, upload, download and journal write.    *)
(*                                                                         *)
(* handleEvent, execEvent and recordResult (internal/syncer/syncer.go),    *)
(* push_journal.go, push_remove.go, pull_process.go, conflict.go and the   *)
(* operations of bisync_ops.go on one file.  A version is its content and  *)
(* its modification time.  A watcher event arrives with the change, waits  *)
(* in the debouncer, and is dropped when the echo guard takes it for       *)
(* homedrive's own; the details of that are the subject of Watcher, those  *)
(* of page tokens of PullFeed, those of siblings of ConflictRetention.     *)
(***************************************************************************)
EXTENDS Naturals, Sequences, FiniteSets

CONSTANTS
    Workers,   \* push workers (the agent starts two)
    Setups     \* the configuration, and what takes place: one of these

ASSUME FileAssumption ==
    \A s \in Setups :
       /\ s.policy \in {"newer_wins", "local_wins", "remote_wins"}
       /\ s.users \subseteq {"local", "remote"}
       /\ s.deeds \subseteq {"write", "remove", "rename", "touch"}
       /\ s.overlap \subseteq {"user", "transfer", "timer"}
       /\ s.faults \subseteq {"remote", "crash", "slow", "retry"}
       /\ s.passes \in BOOLEAN
       /\ s.maxTime \in Nat \ {0}

VARIABLES
    setup,    \* which of Setups this behaviour belongs to
    local,    \* the version on the local disk
    remote,   \* the version on Drive
    journal,  \* the journal entry of the path
    feed,     \* what the change feed has for the next poll
    pending,  \* the debouncer's event
    queue,    \* events on their way to the workers
    worker,   \* what each worker is doing
    poll,     \* what the poll is doing
    now,      \* the number of user steps
    kept,     \* contents that were moved aside as conflict losers
    want      \* what each user left (auxiliary)

sides == <<local, remote, feed>>
told == <<pending, queue>>
aux == <<setup, now, kept, want>>
vars == <<sides, journal, told, worker, poll, aux>>

Policy == setup.policy    \* conflict.policy
Users == setup.users      \* bound: which users change the file
Deeds == setup.deeds      \* bound: what they do
Overlap == setup.overlap  \* bound: what may change the path while it is being transferred
Faults == setup.faults    \* bound: what goes wrong, and whether a push has several attempts
Passes == setup.passes    \* bound: bisync passes take place
MaxTime == setup.maxTime  \* bound on the users' steps, which are also the clock

None == [c |-> 0, t |-> 0]
File(v) == v # None
Versions == [c : 0..MaxTime, t : 0..MaxTime]

\* A journal entry: the recorded local and remote mtime (0 is the zero time)
\* and the MD5 (0 is "").  NoEntry is its absence.
NoEntry == [l |-> 0, r |-> 0, md5 |-> 0, has |-> FALSE]
Entry(l, r, md5) == [l |-> l, r |-> r, md5 |-> md5, has |-> TRUE]
Entries == [l : 0..MaxTime, r : 0..MaxTime, md5 : 0..MaxTime, has : BOOLEAN]

Idle == [pc |-> "idle", src |-> None, e |-> NoEntry]
NoPoll == [pc |-> "idle", gone |-> FALSE, obj |-> None, mtime |-> 0]
NoChange == [gone |-> FALSE, changed |-> FALSE]

\* The file is in sync to begin with, pulled or pushed.
Init ==
    /\ setup \in Setups
    /\ local = [c |-> 1, t |-> 1] /\ remote = local
    /\ \E md5 \in {0, 1} : journal = Entry(1, 1, md5)
    /\ feed = NoChange
    /\ pending = "none" /\ queue = <<>>
    /\ worker = [w \in Workers |-> Idle]
    /\ poll = NoPoll
    /\ now = 1
    /\ kept = {}
    /\ want = [u \in {"local", "remote"} |-> local]

----------------------------------------------------------------------------
(* Google Drive (external).  Entries of the feed are those of the path:    *)
(* the deletion of an object that had it and the change of the one that    *)
(* has it, in this order.  Several deletions that one poll lists are one.  *)

Uploaded(v) == remote' = v /\ feed' = [feed EXCEPT !.changed = TRUE]

\* DeleteFile, or the remote user: an absent object is not an error.
Deleted ==
    IF File(remote)
    THEN remote' = None /\ feed' = [gone |-> TRUE, changed |-> FALSE]
    ELSE UNCHANGED <<remote, feed>>

\* MoveFile to <path>.old.<N>: the object keeps its id and leaves the path.
MovedAside == remote' = None /\ feed' = [feed EXCEPT !.changed = FALSE]

----------------------------------------------------------------------------
(* What may happen to the path while it is being transferred (bounds).     *)

\* A transfer of the path is under way, from its first look at the file to
\* its journal entry.
Pushing(w) == worker[w].pc \in {"send", "stat", "put"}
Pulling == poll.pc \notin {"idle", "remove", "change", "done"}
NoTransfer == ~Pulling /\ \A w \in Workers : ~Pushing(w)

\* The local user leaves the file alone meanwhile, or does not.
MayAct == "user" \in Overlap \/ NoTransfer

\* Another transfer of the same path begins meanwhile, or does not.
MayBegin == "transfer" \in Overlap \/ NoTransfer

\* The debouncer's timer ends meanwhile, or its two seconds are enough.
MayFire == "timer" \in Overlap \/ NoTransfer

----------------------------------------------------------------------------
(* The watcher: debouncePath with its echo guard, and the timer.           *)

\* isSelfInduced: the file has the recorded mtime.
SelfInduced(e, v) == e.has /\ File(v) /\ e.l = v.t

\* A create or write event; v is the file by then.
ToldPut(v) == pending' = IF SelfInduced(journal, v) THEN pending ELSE "put"

\* Mutant: the guard is not consulted when the timer fires.
FireEventUnguarded ==
    /\ pending # "none"
    /\ MayFire
    /\ pending' = "none"
    /\ queue' = Append(queue, pending)
    /\ UNCHANGED <<sides, journal, worker, poll, aux>>

\* fireEvent: the timer ends; the guard is consulted again (#122).
FireEvent ==
    /\ pending # "none"
    /\ MayFire
    /\ pending' = "none"
    /\ queue' = IF pending = "put" /\ SelfInduced(journal, local) THEN queue
                ELSE Append(queue, pending)
    /\ UNCHANGED <<sides, journal, worker, poll, aux>>

----------------------------------------------------------------------------
(* The two users.                                                          *)

Acts(u, deed) ==
    /\ u \in Users /\ deed \in Deeds
    /\ now < MaxTime
    /\ now' = now + 1 /\ setup' = setup
    /\ u = "local" => MayAct

LocalWrite ==
    /\ Acts("local", "write")
    /\ local' = [c |-> now', t |-> now']
    /\ want' = [want EXCEPT !["local"] = local']
    /\ pending' = "put"
    /\ UNCHANGED <<remote, feed, journal, queue, worker, poll, kept>>

\* The event of a removal, or of a rename to a name outside the model.
LocalRemove(deed, op) ==
    /\ Acts("local", deed)
    /\ File(local)
    /\ local' = None
    /\ want' = [want EXCEPT !["local"] = None]
    /\ pending' = op
    /\ UNCHANGED <<remote, feed, journal, queue, worker, poll, kept>>

\* A new version, or the same content with a new mtime.
RemotePut(deed, c) ==
    /\ Acts("remote", deed)
    /\ Uploaded([c |-> c, t |-> now'])
    /\ want' = [want EXCEPT !["remote"] = remote']
    /\ UNCHANGED <<local, journal, told, worker, poll, kept>>

RemoteRemove ==
    /\ Acts("remote", "remove")
    /\ File(remote) /\ Deleted
    /\ want' = [want EXCEPT !["remote"] = None]
    /\ UNCHANGED <<local, journal, told, worker, poll, kept>>

UserSteps ==
    \/ LocalWrite
    \/ LocalRemove("remove", "remove")
    \/ LocalRemove("rename", "rename")
    \/ RemotePut("write", now + 1)
    \/ File(remote) /\ RemotePut("touch", remote.c)
    \/ RemoteRemove

----------------------------------------------------------------------------
(* A push.                                                                 *)

Goes(w, s) == worker' = [worker EXCEPT ![w] = s]

\* Mutant: an event that execEvent has no case for is executed.
TakeAny(w) ==
    /\ worker[w].pc = "idle"
    /\ queue # <<>>
    /\ queue' = Tail(queue)
    /\ Goes(w, [Idle EXCEPT !.pc = IF Head(queue) = "put" THEN "open" ELSE Head(queue)])
    /\ UNCHANGED <<sides, journal, pending, poll, aux>>

\* The worker takes the next event.  execEvent has no case for a rename: the
\* attempts fail, and recordResult only reports it.
Take(w) ==
    /\ worker[w].pc = "idle"
    /\ queue # <<>>
    /\ queue' = Tail(queue)
    /\ Goes(w, [Idle EXCEPT !.pc = CASE Head(queue) = "put" -> "open"
                                     [] Head(queue) = "remove" -> "delete"
                                     [] OTHER -> "idle"])
    /\ UNCHANGED <<sides, journal, pending, poll, aux>>

\* CopyFile opens the file and takes its mtime; a missing file fails every
\* attempt.
Open(w) ==
    /\ worker[w].pc = "open"
    /\ MayBegin
    /\ Goes(w, IF File(local) THEN [Idle EXCEPT !.pc = "send", !.src = local] ELSE Idle)
    /\ UNCHANGED <<sides, journal, told, poll, aux>>

\* Rcat sends the content, with that mtime.  A file that is written in place
\* meanwhile is sent as it is by then.
Send(w) ==
    /\ worker[w].pc = "send"
    /\ \E c \in {worker[w].src.c} \union (IF File(local) THEN {local.c} ELSE {}) :
          Uploaded([c |-> c, t |-> worker[w].src.t])
    /\ Goes(w, [worker[w] EXCEPT !.pc = "stat"])
    /\ UNCHANGED <<local, journal, told, poll, aux>>

\* execRemove.  The answer may be lost, and no attempt be left.
Delete(w) ==
    /\ worker[w].pc = "delete"
    /\ MayBegin
    /\ Deleted
    /\ \/ Goes(w, [Idle EXCEPT !.pc = "put", !.e = Entry(0, 0, 0)])
       \/ "remote" \in Faults /\ Goes(w, Idle)
    /\ UNCHANGED <<local, journal, told, poll, aux>>

\* retryFunc: an attempt fails, or its upload took place and the answer is
\* lost.  The next attempt opens the file anew; after the last the event is
\* gone.  (Which one is the last is left open.  A deletion is just tried again.)
PushFails(w) ==
    /\ "remote" \in Faults
    /\ worker[w].pc \in {"send", "delete", "stat"}
    /\ \/ Goes(w, Idle)
       \/ "retry" \in Faults /\ worker[w].pc # "delete" /\ Goes(w, [Idle EXCEPT !.pc = "open"])
    /\ UNCHANGED <<sides, journal, told, poll, aux>>

\* pushEntry: the mtime of the uploaded object and that of the local file as
\* it is now; the object of an upload has no MD5.
PushEntry(w) ==
    /\ worker[w].pc = "stat"
    /\ Goes(w, [worker[w] EXCEPT !.pc = "put", !.e = Entry(local.t, worker[w].src.t, 0)])
    /\ UNCHANGED <<sides, journal, told, poll, aux>>

\* recordResult.
RecordResult(w) ==
    /\ worker[w].pc = "put"
    /\ journal' = worker[w].e
    /\ Goes(w, Idle)
    /\ UNCHANGED <<sides, told, poll, aux>>

PushSteps(w) ==
    Take(w) \/ Open(w) \/ Send(w) \/ Delete(w) \/ PushFails(w) \/ PushEntry(w) \/ RecordResult(w)

----------------------------------------------------------------------------
(* A poll.                                                                 *)

PollGoes(pc) == poll' = [poll EXCEPT !.pc = pc]

\* ListChanges: the object as it is now.
List ==
    /\ poll.pc = "idle"
    /\ feed # NoChange
    /\ poll' = [pc |-> IF feed.gone THEN "remove" ELSE "change", gone |-> feed.gone,
                obj |-> IF feed.changed THEN remote ELSE None, mtime |-> 0]
    /\ feed' = NoChange
    /\ UNCHANGED <<local, remote, journal, told, worker, aux>>

\* processDelete: the local file, then the entry.
RemoveLocal ==
    /\ poll.pc = "remove"
    /\ MayBegin
    /\ local' = None
    /\ pending' = IF File(local) THEN "remove" ELSE pending
    /\ PollGoes("unjournal")
    /\ UNCHANGED <<remote, feed, journal, queue, worker, aux>>

DeleteEntry ==
    /\ poll.pc = "unjournal"
    /\ journal' = NoEntry
    /\ PollGoes("change")
    /\ UNCHANGED <<sides, told, worker, aux>>

\* adoptIdenticalRemote.
Adopts ==
    /\ journal.md5 = 0 /\ journal.l = 0
    /\ File(local) /\ local.c = poll.obj.c

\* Mutant: the MD5 alone decides.
DetectConflictMD5 == File(local) /\ poll.obj.c # journal.md5

\* Mutant: a file that was changed locally is no conflict.
DetectConflictNever == FALSE

\* detectConflict.
DetectConflict ==
    /\ File(local)
    /\ poll.obj.c # journal.md5
    /\ local.t # journal.l

\* determineWinner: equal times let the local file win.
DetermineWinner(l, r) ==
    CASE Policy = "local_wins" -> "local"
      [] Policy = "remote_wins" -> "remote"
      [] OTHER -> IF r > l THEN "remote" ELSE "local"

\* The remote mtime is the recorded one.
Unchanged == poll.obj.t = journal.r

\* processFileChange.
ProcessFileChange ==
    /\ poll.pc = "change"
    /\ MayBegin
    /\ File(poll.obj)
    /\ IF journal.has /\ Adopts
       THEN journal' = Entry(local.t, poll.obj.t, poll.obj.c) /\ PollGoes("done")
       ELSE /\ journal' = journal
            /\ poll' = [poll EXCEPT !.mtime = local.t,
                          !.pc = CASE journal.has /\ DetectConflict
                                        -> IF DetermineWinner(local.t, poll.obj.t) = "remote"
                                           THEN "aside" ELSE "move"
                                   [] journal.has /\ ~DetectConflict /\ Unchanged -> "done"
                                   [] OTHER -> "download"]
    /\ UNCHANGED <<sides, told, worker, aux>>

\* DownloadFile writes in place: until it ends, what is there is a part of the
\* file, with the time of writing.
WritePart ==
    /\ "slow" \in Faults
    /\ poll.pc \in {"download", "fetch"}
    /\ File(remote)
    /\ now < MaxTime /\ now' = now + 1
    /\ local' = [c |-> now', t |-> now']
    /\ pending' = "put"
    /\ UNCHANGED <<setup, remote, feed, journal, queue, worker, poll, kept, want>>

\* DownloadFile: the version that is there by now, with its mtime.
Download(from, to) ==
    /\ poll.pc = from
    /\ IF File(remote)
       THEN /\ local' = remote
            /\ ToldPut(remote)
            /\ PollGoes(to)
       ELSE UNCHANGED <<local, pending>> /\ PollGoes("done")
    /\ UNCHANGED <<remote, feed, journal, queue, worker, aux>>

\* recordDownload: the mtime of the local file as it is now, the announced
\* object.
StatDownload ==
    /\ poll.pc = "stat"
    /\ IF File(local) THEN poll' = [poll EXCEPT !.pc = "put", !.mtime = local.t]
       ELSE PollGoes("done")
    /\ UNCHANGED <<sides, journal, told, worker, aux>>

RecordDownload ==
    /\ poll.pc = "put"
    /\ journal' = Entry(poll.mtime, poll.obj.t, poll.obj.c)
    /\ PollGoes("done")
    /\ UNCHANGED <<sides, told, worker, aux>>

\* resolveConflict, remote wins: the local file is moved aside; its event
\* is a rename.
LocalAside ==
    /\ poll.pc = "aside"
    /\ IF File(local)
       THEN local' = None /\ kept' = kept \union {local.c} /\ pending' = "rename" /\ PollGoes("fetch")
       ELSE UNCHANGED <<local, kept, pending>> /\ PollGoes("done")
    /\ UNCHANGED <<remote, feed, journal, queue, worker, setup, now, want>>

\* Local wins: the object is moved aside, and the local file uploaded.
RemoteAside ==
    /\ poll.pc = "move"
    /\ IF File(remote)
       THEN MovedAside /\ kept' = kept \union {remote.c} /\ PollGoes("copy")
       ELSE UNCHANGED <<remote, feed, kept>> /\ PollGoes("done")
    /\ UNCHANGED <<local, journal, told, worker, setup, now, want>>

CopyWinner ==
    /\ poll.pc = "copy"
    /\ IF File(local) THEN Uploaded(local) /\ PollGoes("settle")
       ELSE UNCHANGED <<remote, feed>> /\ PollGoes("done")
    /\ UNCHANGED <<local, journal, told, worker, aux>>

\* buildConflictEntry: the object that was announced, which is the loser when
\* the local file won.
Settle ==
    /\ poll.pc = "settle"
    /\ journal' = Entry(IF DetermineWinner(poll.mtime, poll.obj.t) = "remote"
                        THEN poll.obj.t ELSE poll.mtime, poll.obj.t, poll.obj.c)
    /\ PollGoes("done")
    /\ UNCHANGED <<sides, told, worker, aux>>

\* An operation on Drive fails: the change is reported and skipped.
PullFails ==
    /\ "remote" \in Faults
    /\ poll.pc \in {"download", "fetch", "move", "copy"}
    /\ PollGoes("done")
    /\ UNCHANGED <<sides, journal, told, worker, aux>>

\* The token is persisted.
PollDone ==
    /\ poll.pc = "done" \/ (poll.pc = "change" /\ ~File(poll.obj))
    /\ poll' = NoPoll
    /\ UNCHANGED <<sides, journal, told, worker, aux>>

PullSteps ==
    \/ List \/ RemoveLocal \/ DeleteEntry \/ ProcessFileChange
    \/ WritePart \/ Download("download", "stat") \/ StatDownload \/ RecordDownload
    \/ LocalAside \/ Download("fetch", "settle") \/ RemoteAside \/ CopyWinner \/ Settle
    \/ PullFails \/ PollDone

----------------------------------------------------------------------------
(* A bisync pass, alone with the data; faults and the users' steps during  *)
(* it are left to PullFeed and ConflictRetention.                          *)

\* Mutant: only the remote side is compared with the entry.
HasDivergenceRemoteOnly ==
    IF journal.has THEN journal.md5 # 0 \/ remote.t # journal.r
    ELSE local.t # remote.t

\* hasDivergence: a listed object has no MD5.
HasDivergence ==
    IF journal.has THEN local.t # journal.l \/ journal.md5 # 0 \/ remote.t # journal.r
    ELSE local.t # remote.t

LocalOnly == File(local) /\ ~File(remote)
RemoteOnly == ~File(local) /\ File(remote)
Diverged == File(local) /\ File(remote) /\ HasDivergence

Differs == LocalOnly \/ RemoteOnly \/ Diverged
LocalWins == LocalOnly \/ (Diverged /\ local.t >= remote.t)

\* syncLocalToRemote, syncRemoteToLocal and resolveConflict.
Pass ==
    /\ Passes
    /\ Differs
    /\ poll.pc = "idle" /\ \A w \in Workers : worker[w].pc = "idle"
    /\ LET loser == IF LocalWins THEN remote ELSE local
           winner == IF LocalWins THEN local ELSE remote
       IN /\ kept' = kept \union ({loser.c} \ {0})
          /\ journal' = Entry(winner.t, winner.t, 0)
          /\ IF LocalWins THEN Uploaded(local) /\ UNCHANGED <<local, pending>>
             ELSE /\ local' = remote
                  /\ pending' = CASE ~SelfInduced(journal, remote) -> "put"
                                  [] File(local) -> "rename"
                                  [] OTHER -> pending
                  /\ UNCHANGED <<remote, feed>>
    /\ UNCHANGED <<queue, worker, poll, setup, now, want>>

\* The process ends anywhere and starts again.  Events in memory are lost;
\* the token is the one of before the poll, so its changes are listed again.
Crash ==
    /\ "crash" \in Faults
    /\ poll # NoPoll \/ pending # "none" \/ queue # <<>>
         \/ \E w \in Workers : worker[w] # Idle
    /\ pending' = "none" /\ queue' = <<>>
    /\ worker' = [w \in Workers |-> Idle]
    /\ poll' = NoPoll
    /\ feed' = [gone |-> feed.gone \/ poll.gone,
                changed |-> File(remote) /\ (feed.changed \/ File(poll.obj))]
    /\ UNCHANGED <<local, remote, journal, aux>>

AtRest ==
    /\ pending = "none" /\ queue = <<>> /\ feed = NoChange
    /\ poll = NoPoll /\ worker = [w \in Workers |-> Idle]

\* Nothing is left to do.
Rest == AtRest /\ ~(Passes /\ Differs) /\ UNCHANGED vars

Next ==
    \/ UserSteps
    \/ FireEvent
    \/ \E w \in Workers : PushSteps(w)
    \/ PullSteps
    \/ Pass
    \/ Crash
    \/ Rest

\* Timers end, workers and polls go on, and the hourly pass finds a moment
\* at which nobody holds the lock.
Fairness ==
    /\ WF_vars(FireEvent)
    /\ \A w \in Workers : WF_vars(PushSteps(w))
    /\ WF_vars(PullSteps)
    /\ SF_vars(Pass)

Spec == Init /\ [][Next]_vars /\ Fairness

----------------------------------------------------------------------------
(* Properties.                                                             *)

Ops == {"put", "remove", "rename"}

\* The types of the variables.
TypeOK ==
    /\ setup \in Setups
    /\ local \in Versions /\ remote \in Versions
    /\ journal \in Entries
    /\ feed \in [gone : BOOLEAN, changed : BOOLEAN]
    /\ pending \in Ops \union {"none"}
    /\ queue \in Seq(Ops)
    /\ worker \in [Workers -> [pc : {"idle", "open", "send", "delete", "stat", "put"},
                               src : Versions, e : Entries]]
    /\ poll \in [pc : {"idle", "remove", "unjournal", "change", "download", "stat", "put",
                        "aside", "fetch", "move", "copy", "settle", "done"},
                  gone : BOOLEAN, obj : Versions, mtime : 0..MaxTime]
    /\ now \in 1..MaxTime
    /\ kept \subseteq 1..MaxTime
    /\ want \in [{"local", "remote"} -> Versions]

\* Each transfer of the path has it to itself.
Apart == Overlap \subseteq {"timer"}

\* Only the local user acts, writing, and between transfers.
LocalAlone ==
    /\ Users = {"local"} /\ Deeds = {"write"} /\ "user" \notin Overlap
    /\ Policy # "remote_wins" /\ "slow" \notin Faults

\* The poll compares what it replaces with the entry, and nothing changes after
\* that.  (It does not before a removal, or when the recorded content has a new
\* mtime on Drive.)
Compared ==
    Apart /\ "slow" \notin Faults /\ "touch" \notin Deeds /\ "remove" \notin Deeds

\* Only the user on Drive acts, not removing, and the timer is long enough; a
\* download that is slow does not fail as well.
RemoteAlone ==
    /\ Users = {"remote"} /\ "remove" \notin Deeds /\ Overlap = {}
    /\ "crash" \notin Faults /\ ~({"slow", "remote"} \subseteq Faults)

\* The safety net (PLAN.md 7.2: a full diff "to catch any drift caused by
\* bugs, crashes, or missed events"): when everything has come to rest and the
\* two sides are not the same, the next pass finds a difference.  It is the
\* journal that could hide one, by recording a state that never was.  (Two
\* transfers at once, or an edit during one, can make it do so.)
SafetyNet == AtRest /\ (Apart \/ LocalAlone) => local.c = remote.c \/ Differs

\* Loop prevention (README.md, PLAN.md 7.3): homedrive's own writes, which the
\* watcher and the change feed report back to it, do not keep it busy for ever,
\* and what it comes to in the end is the same file on both sides.
Converges == Passes /\ Faults = {} => <>[](AtRest /\ local.c = remote.c)

\* Whatever the poll puts in the place of a local file, the file was in sync,
\* was moved aside, or is what is on Drive (docs/conflict-resolution.md, pull
\* path: a local mtime that differs from the recorded one is a conflict).
PullKeepsEdits ==
    [][poll' # poll /\ local' # local /\ File(local) /\ Compared
          => \/ journal.l = local.t
             \/ local.c \in kept' \union {remote.c}]_vars

\* The local disk is authoritative (README.md): with nobody changing the file
\* on Drive, the local file is always what its user left.
LocalStands == LocalAlone => local.c = want["local"].c

\* With nobody changing the file locally, what the user on Drive left is what
\* both sides have when all is at rest: no echo of a download is pushed over it.
RemoteStands ==
    RemoteAlone /\ AtRest /\ ~Differs => {local.c, remote.c} = {want["remote"].c}
=============================================================================
