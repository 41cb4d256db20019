-------------------------- MODULE FileSync_proofs --------------------------
(***************************************************************************)
(* Proofs about FileSync, for any number of workers, any setups and any    *)
(* number of user steps: every variable keeps its type, the journal never  *)
(* hides a difference from the next pass, the poll replaces no edit it has *)
(* not moved aside, and what a user leaves stands when nobody else acts.   *)
(***************************************************************************)
EXTENDS FileSync, TLAPS

----------------------------------------------------------------------------
(* The invariants.                                                         *)

Whole(v) == v.c = 0 => v = None

\* A content of 0 is the absence of the file, wherever a version is held.
ContentInv ==
    /\ Whole(local) /\ Whole(remote) /\ Whole(poll.obj)
    /\ \A w \in Workers : worker[w].pc = "send" => worker[w].src.c # 0
    /\ poll.pc \in {"download", "stat", "put", "aside", "fetch", "move", "copy", "settle"}
          => File(poll.obj)

TypeInv == TypeOK /\ ContentInv

\* While a worker sends or records a file, nobody else is at it, and what it
\* opened is what is there.
TurnInv ==
    Apart =>
       \A w \in Workers :
          Pushing(w) =>
             /\ ~Pulling
             /\ \A x \in Workers : Pushing(x) => x = w
             /\ worker[w].pc \in {"send", "stat"} => worker[w].src = local

\* A time belongs to one content.
StampInv ==
    Apart =>
       /\ local.t <= now /\ remote.t <= now
       /\ (local.t = 0 => local = None) /\ (remote.t = 0 => remote = None)
       /\ local.t = remote.t => local.c = remote.c

\* An entry without an MD5 has recorded one version for both sides.
Agreed(e) == e.has /\ e.md5 = 0 => e.l = e.r

AgreeInv ==
    Apart =>
       /\ Agreed(journal)
       /\ \A w \in Workers : worker[w].pc = "put" => Agreed(worker[w].e)

\* Nothing is ever removed.
KeepsInv ==
    "remove" \notin Deeds =>
       /\ ~feed.gone /\ ~poll.gone /\ poll.pc \notin {"remove", "unjournal"}
       /\ pending # "remove" /\ \A i \in 1..Len(queue) : queue[i] # "remove"
       /\ \A w \in Workers : worker[w].pc # "delete" /\ (worker[w].pc = "put" => worker[w].e.has)
       /\ journal.has

\* Every version has the time of its content; what the poll goes on to replace
\* is what the journal has.
EditInv ==
    Compared =>
       /\ local.c = local.t /\ remote.c = remote.t /\ poll.obj.c = poll.obj.t
       /\ journal.md5 # 0 => journal.md5 = journal.r
       /\ \A w \in Workers : worker[w].pc = "put" => worker[w].e.md5 = 0
       /\ poll.pc = "download" => ~File(local) \/ journal.l = local.t
       /\ poll.pc = "fetch" => ~File(local)

\* The local user alone.  Drive has what the user wrote last or earlier.
OwnFiles ==
    /\ local = want["local"] /\ 1 <= local.t /\ local.t <= now
    /\ local.c = local.t /\ remote.c = remote.t /\ remote.t <= local.t

\* Drive has had the version of time t, and has it or a later one, or none.
Reached(t) == remote = None \/ t <= remote.t

OwnEntry ==
    /\ journal.l <= local.t /\ Reached(journal.l)
    /\ journal.md5 # 0 => journal.md5 = journal.r
    /\ journal.md5 = 0 => journal.l = journal.r

OwnPush ==
    \A w \in Workers :
       /\ worker[w].pc \in {"send", "stat"} => worker[w].src = local
       /\ worker[w].pc = "put" => worker[w].e = Entry(local.t, local.t, 0)
       /\ worker[w].pc \in {"stat", "put"} => Reached(local.t)

\* What the poll has listed is no news.
OwnPoll ==
    /\ poll.obj.c = poll.obj.t /\ poll.obj.t <= local.t /\ Reached(poll.obj.t)
    /\ poll.pc \notin {"aside", "fetch"}
    /\ poll.pc \in {"download", "stat", "put", "settle"} => Reached(local.t)
    /\ poll.pc \in {"put", "move", "copy", "settle"} => poll.mtime = local.t

AloneInv == LocalAlone => OwnFiles /\ OwnEntry /\ OwnPush /\ OwnPoll

\* The remote user alone.  What the user leaves is what is on Drive.
Drive == remote = want["remote"] /\ File(remote) /\ File(local)

NoPush ==
    /\ \A w \in Workers : worker[w].pc = "idle"
    /\ \A i \in 1..Len(queue) : queue[i] = "rename"

\* The local file is a version Drive has had, and recorded as such, except while
\* a download writes it.
Mirror ==
    /\ poll.pc \notin {"aside", "fetch", "move", "copy", "settle"}
    /\ (poll.pc = "download" /\ "slow" \in Faults) \/ local.t <= remote.t
    /\ \/ (poll.pc = "download" /\ "slow" \in Faults) \/ poll.pc \in {"stat", "put"}
       \/ journal.l = local.t
    /\ poll.pc = "put" => poll.mtime = local.t

FollowInv == RemoteAlone => Drive /\ NoPush /\ Mirror

----------------------------------------------------------------------------
(* The types.                                                              *)

\* The setup is chosen once, and the bounds on times with it.
LEMMA SetupSame ==
    ASSUME [Next]_vars
    PROVE  setup' = setup
BY DEF Next, UserSteps, LocalWrite, LocalRemove, RemotePut, RemoteRemove, Acts, FireEvent,
       PushSteps, Take, Open, Send, Delete, PushFails, PushEntry, RecordResult, PullSteps, List,
       RemoveLocal, DeleteEntry, ProcessFileChange, WritePart, Download, StatDownload,
       RecordDownload, LocalAside, RemoteAside, CopyWinner, Settle, PullFails, PollDone, Pass,
       Crash, Rest, vars, aux

LEMMA MaxTimeType ==
    ASSUME TypeOK
    PROVE  MaxTime \in Nat \ {0} /\ 0 \in 0..MaxTime /\ now \in 0..MaxTime /\ now \in Nat
           /\ (now < MaxTime => now + 1 \in 1..MaxTime /\ now + 1 \in 0..MaxTime)
BY FileAssumption DEF TypeOK, MaxTime

LEMMA Constructed ==
    ASSUME TypeOK
    PROVE  /\ None \in Versions /\ NoEntry \in Entries
           /\ \A c, t \in 0..MaxTime : [c |-> c, t |-> t] \in Versions
           /\ \A l, r, md5 \in 0..MaxTime : Entry(l, r, md5) \in Entries
           /\ \A v \in Versions : v.c \in 0..MaxTime /\ v.t \in 0..MaxTime
           /\ \A e \in Entries : e.l \in 0..MaxTime /\ e.r \in 0..MaxTime /\ e.md5 \in 0..MaxTime
BY MaxTimeType DEF Versions, Entries, None, NoEntry, Entry

\* The steps of the users and of the timer.
LEMMA UserTypes ==
    ASSUME TypeInv, UserSteps \/ FireEvent, setup' = setup
    PROVE  TypeInv'
<1>1. TypeOK /\ MaxTime \in Nat \ {0} /\ MaxTime' = MaxTime /\ Versions' = Versions /\ Entries' = Entries
  BY MaxTimeType DEF TypeInv, MaxTime, Versions, Entries
<1>2. CASE LocalWrite
  <2>1. local'.c = now + 1 /\ local'.t = now + 1 /\ local' \in Versions
    BY <1>1, <1>2, MaxTimeType, Constructed DEF LocalWrite, Acts
  <2>2. TypeOK'
    BY <1>1, <1>2, <2>1, MaxTimeType DEF TypeOK, LocalWrite, Acts, Ops
  <2>3. ContentInv'
    BY <1>1, <1>2, <2>1, MaxTimeType DEF TypeInv, ContentInv, Whole, LocalWrite
  <2>4. QED
    BY <2>2, <2>3 DEF TypeInv
<1>3. CASE LocalRemove("remove", "remove") \/ LocalRemove("rename", "rename")
  <2>1. local' = None /\ local' \in Versions
    BY <1>1, <1>3, Constructed DEF LocalRemove
  <2>2. TypeOK'
    <3>1. /\ pending' \in {"remove", "rename"} /\ now' = now + 1 /\ now < MaxTime
          /\ want' = [want EXCEPT !["local"] = None] /\ None \in Versions
          /\ UNCHANGED <<remote, feed, journal, queue, worker, poll, kept>>
      BY <1>1, <1>3, Constructed DEF LocalRemove, Acts
    <3>2. QED
      BY <1>1, <2>1, <3>1, MaxTimeType DEF TypeOK, Ops
  <2>3. ContentInv'
    BY <1>1, <1>3, <2>1 DEF TypeInv, ContentInv, Whole, LocalRemove
  <2>4. QED
    BY <2>2, <2>3 DEF TypeInv
<1>4. CASE RemotePut("write", now + 1) \/ (File(remote) /\ RemotePut("touch", remote.c))
  <2>1. PICK c \in {now + 1, remote.c} :
             /\ remote' = [c |-> c, t |-> now + 1] /\ c # 0
             /\ feed' = [feed EXCEPT !.changed = TRUE]
             /\ want' = [want EXCEPT !["remote"] = remote'] /\ now' = now + 1 /\ now < MaxTime
             /\ UNCHANGED <<local, journal, told, worker, poll, kept>>
    BY <1>1, <1>4, MaxTimeType DEF RemotePut, Acts, Uploaded, TypeInv, ContentInv, Whole, File
  <2>2. remote' \in Versions /\ remote'.c # 0
    BY <1>1, <2>1, MaxTimeType, Constructed DEF TypeOK
  <2>3. TypeOK'
    BY <1>1, <2>1, <2>2, MaxTimeType DEF TypeOK, told
  <2>4. ContentInv'
    BY <1>1, <2>1, <2>2 DEF TypeInv, ContentInv, Whole
  <2>5. QED
    BY <2>3, <2>4 DEF TypeInv
<1>5. CASE RemoteRemove
  <2>1. remote' = None /\ remote' \in Versions /\ feed' = [gone |-> TRUE, changed |-> FALSE]
    BY <1>1, <1>5, Constructed DEF RemoteRemove, Deleted
  <2>2. TypeOK'
    BY <1>1, <1>5, <2>1, MaxTimeType DEF TypeOK, RemoteRemove, Acts, told
  <2>3. ContentInv'
    BY <1>1, <1>5, <2>1 DEF TypeInv, ContentInv, Whole, RemoteRemove
  <2>4. QED
    BY <2>2, <2>3 DEF TypeInv
<1>6. CASE FireEvent
  <2>1. pending \in Ops /\ queue' \in Seq(Ops)
    BY <1>1, <1>6 DEF FireEvent, TypeOK, Ops
  <2>2. TypeOK'
    BY <1>1, <1>6, <2>1 DEF TypeOK, FireEvent, sides, aux
  <2>3. ContentInv'
    BY <1>1, <1>6 DEF TypeInv, ContentInv, FireEvent, sides, aux
  <2>4. QED
    BY <2>2, <2>3 DEF TypeInv
<1>7. QED
  BY <1>2, <1>3, <1>4, <1>5, <1>6 DEF UserSteps

\* A worker's step leaves it in a state of its type; W is that state.
WorkerStates == [pc : {"idle", "open", "send", "delete", "stat", "put"},
                 src : Versions, e : Entries]

LEMMA IdleType ==
    ASSUME TypeOK
    PROVE  /\ Idle \in WorkerStates /\ Idle.pc = "idle"
           /\ \A p \in {"idle", "open", "delete"} : [Idle EXCEPT !.pc = p] \in WorkerStates
BY Constructed DEF Idle, WorkerStates

LEMMA PushTypes ==
    ASSUME TypeInv, NEW w \in Workers, PushSteps(w), setup' = setup
    PROVE  TypeInv'
<1>1. TypeOK /\ MaxTime \in Nat \ {0} /\ MaxTime' = MaxTime /\ Versions' = Versions /\ Entries' = Entries
  BY MaxTimeType DEF TypeInv, MaxTime, Versions, Entries
<1>2. worker \in [Workers -> WorkerStates] /\ worker[w] \in WorkerStates
  BY <1>1 DEF TypeOK, WorkerStates
<1>3. now' = now /\ kept' = kept /\ want' = want /\ local' = local /\ poll' = poll
  BY DEF PushSteps, Take, Open, Send, Delete, PushFails, PushEntry, RecordResult, aux, sides
<1>4. /\ remote' \in Versions /\ Whole(remote')
      /\ feed' \in [gone : BOOLEAN, changed : BOOLEAN]
  <2>1. CASE Send(w)
    <3>1. PICK c \in {worker[w].src.c} \union (IF File(local) THEN {local.c} ELSE {}) :
               Uploaded([c |-> c, t |-> worker[w].src.t])
      BY <2>1 DEF Send
    <3>2. c \in 0..MaxTime /\ worker[w].src.t \in 0..MaxTime
      BY <1>1, <1>2, <3>1, Constructed DEF WorkerStates, TypeOK
    <3>3. c # 0
      BY <1>1, <2>1, <3>1 DEF Send, TypeInv, ContentInv, Whole, File
    <3>4. QED
      BY <1>1, <3>1, <3>2, <3>3, Constructed DEF Uploaded, Whole, TypeOK
  <2>2. CASE Delete(w)
    <3>1. \/ remote' = None /\ feed' = [gone |-> TRUE, changed |-> FALSE]
          \/ remote' = remote /\ feed' = feed
      BY <2>2 DEF Delete, Deleted
    <3>2. Whole(None) /\ None \in Versions
      BY <1>1, Constructed DEF Whole
    <3>3. Whole(remote) /\ remote \in Versions /\ feed \in [gone : BOOLEAN, changed : BOOLEAN]
      BY DEF TypeInv, ContentInv, TypeOK
    <3>4. QED
      <4>1. remote' \in Versions /\ Whole(remote')
        BY <3>1, <3>2, <3>3 DEF Whole
      <4>2. feed' \in [gone : BOOLEAN, changed : BOOLEAN]
        <5>1. CASE feed' = [gone |-> TRUE, changed |-> FALSE]
          BY <5>1
        <5>2. CASE feed' = feed
          BY <3>3, <5>2
        <5>3. QED
          BY <3>1, <5>1, <5>2
      <4>3. QED
        BY <4>1, <4>2
  <2>3. CASE Take(w) \/ Open(w) \/ PushFails(w) \/ PushEntry(w) \/ RecordResult(w)
    BY <1>1, <2>3 DEF Take, Open, PushFails, PushEntry, RecordResult, sides, TypeInv, ContentInv,
       TypeOK
  <2>4. QED
    BY <2>1, <2>2, <2>3 DEF PushSteps
<1>5. pending' \in Ops \union {"none"} /\ queue' \in Seq(Ops) /\ journal' \in Entries
  <2>1. CASE Take(w)
    BY <1>1, <2>1 DEF Take, TypeOK
  <2>2. CASE RecordResult(w)
    BY <1>1, <1>2, <2>2 DEF RecordResult, TypeOK, WorkerStates, told
  <2>3. CASE Open(w) \/ Send(w) \/ Delete(w) \/ PushFails(w) \/ PushEntry(w)
    BY <1>1, <2>3 DEF Open, Send, Delete, PushFails, PushEntry, TypeOK, told
  <2>4. QED
    BY <2>1, <2>2, <2>3 DEF PushSteps
<1>6. \E s \in WorkerStates :
         /\ worker' = [worker EXCEPT ![w] = s]
         /\ s.pc = "send" => s.src.c # 0
  <2>1. CASE Take(w)
    <3>1. PICK p \in {"idle", "open", "delete"} : worker' = [worker EXCEPT ![w] = [Idle EXCEPT !.pc = p]]
      BY <2>1 DEF Take, Goes
    <3>2. [Idle EXCEPT !.pc = p].pc # "send"
      BY DEF Idle
    <3>3. QED
      BY <1>1, <3>1, <3>2, IdleType
  <2>2. CASE Open(w)
    <3>1. CASE File(local)
      <4>1. worker' = [worker EXCEPT ![w] = [Idle EXCEPT !.pc = "send", !.src = local]]
        BY <2>2, <3>1 DEF Open, Goes
      <4>2. [Idle EXCEPT !.pc = "send", !.src = local] \in WorkerStates
        BY <1>1, Constructed DEF Idle, WorkerStates, TypeOK
      <4>3. [Idle EXCEPT !.pc = "send", !.src = local].src = local
        BY DEF Idle
      <4>4. local.c # 0
        BY <3>1 DEF TypeInv, ContentInv, Whole, File
      <4>5. QED
        BY <4>1, <4>2, <4>3, <4>4
    <3>2. CASE ~File(local)
      BY <1>1, <2>2, <3>2, IdleType DEF Open, Goes
    <3>3. QED
      BY <3>1, <3>2
  <2>3. CASE Send(w)
    <3>1. worker' = [worker EXCEPT ![w] = [worker[w] EXCEPT !.pc = "stat"]]
      BY <2>3 DEF Send, Goes
    <3>2. [worker[w] EXCEPT !.pc = "stat"] \in WorkerStates /\ [worker[w] EXCEPT !.pc = "stat"].pc = "stat"
      BY <1>2 DEF WorkerStates
    <3>3. QED
      BY <3>1, <3>2
  <2>4. CASE Delete(w)
    <3>1. \/ worker' = [worker EXCEPT ![w] = [Idle EXCEPT !.pc = "put", !.e = Entry(0, 0, 0)]]
          \/ worker' = [worker EXCEPT ![w] = Idle]
      BY <2>4 DEF Delete, Goes
    <3>2. Entry(0, 0, 0) \in Entries /\ None \in Versions
      BY <1>1, Constructed, MaxTimeType
    <3>3. [Idle EXCEPT !.pc = "put", !.e = Entry(0, 0, 0)] \in WorkerStates
      BY <3>2 DEF Idle, WorkerStates
    <3>4. [Idle EXCEPT !.pc = "put", !.e = Entry(0, 0, 0)].pc = "put"
      BY DEF Idle
    <3>5. QED
      BY <1>1, <3>1, <3>3, <3>4, IdleType
  <2>5. CASE PushFails(w) \/ RecordResult(w)
    <3>1. \/ worker' = [worker EXCEPT ![w] = Idle]
          \/ worker' = [worker EXCEPT ![w] = [Idle EXCEPT !.pc = "open"]]
      BY <2>5 DEF PushFails, RecordResult, Goes
    <3>2. [Idle EXCEPT !.pc = "open"].pc # "send"
      BY DEF Idle
    <3>3. QED
      BY <1>1, <3>1, <3>2, IdleType
  <2>6. CASE PushEntry(w)
    <3>1. Entry(local.t, worker[w].src.t, 0) \in Entries
      BY <1>1, <1>2, Constructed, MaxTimeType DEF TypeOK, WorkerStates
    <3>2. QED
      <4> DEFINE s == [worker[w] EXCEPT !.pc = "put", !.e = Entry(local.t, worker[w].src.t, 0)]
      <4>1. worker' = [worker EXCEPT ![w] = s]
        BY <2>6 DEF PushEntry, Goes
      <4>2. s \in WorkerStates /\ s.pc = "put"
        BY <1>2, <3>1 DEF WorkerStates
      <4> HIDE DEF s
      <4>3. QED
        BY <4>1, <4>2
  <2>7. QED
    BY <2>1, <2>2, <2>3, <2>4, <2>5, <2>6 DEF PushSteps
<1>7. PICK s \in WorkerStates : /\ worker' = [worker EXCEPT ![w] = s]
                                /\ s.pc = "send" => s.src.c # 0
  BY <1>6
<1>8. worker' \in [Workers -> WorkerStates]
  BY <1>2, <1>7
<1>9. \A x \in Workers : worker'[x].pc = "send" => worker'[x].src.c # 0
  BY <1>2, <1>7 DEF TypeInv, ContentInv
<1>10. TypeOK'
  BY <1>1, <1>3, <1>4, <1>5, <1>8 DEF TypeOK, WorkerStates
<1>11. ContentInv'
  BY <1>3, <1>4, <1>9 DEF TypeInv, ContentInv, Whole
<1>12. QED
  BY <1>10, <1>11 DEF TypeInv

\* What a step of the poll leaves: P is its state.
PollStates == [pc : {"idle", "remove", "unjournal", "change", "download", "stat", "put",
                     "aside", "fetch", "move", "copy", "settle", "done"},
               gone : BOOLEAN, obj : Versions, mtime : 0..MaxTime]

AfterChange == {"download", "stat", "put", "aside", "fetch", "move", "copy", "settle"}

\* The poll goes on to one of a set of states with what it has listed.
Moves(pcs) == poll'.pc \in pcs /\ poll'.gone = poll.gone /\ poll'.obj = poll.obj

\* What each step of the poll does to the poll.
LEMMA PollMoves ==
    ASSUME TypeOK
    PROVE  /\ List => /\ poll'.pc = (IF feed.gone THEN "remove" ELSE "change")
                      /\ poll'.gone = feed.gone /\ poll'.mtime = 0
                      /\ poll'.obj = (IF feed.changed THEN remote ELSE None)
           /\ RemoveLocal => Moves({"unjournal"}) /\ poll'.mtime = poll.mtime
           /\ DeleteEntry => Moves({"change"}) /\ poll'.mtime = poll.mtime
           /\ ProcessFileChange => /\ Moves({"done", "aside", "move", "download"})
                                   /\ poll'.mtime \in {poll.mtime, local.t}
           /\ WritePart => poll' = poll
           /\ Download("download", "stat") =>
                 Moves({IF File(remote) THEN "stat" ELSE "done"}) /\ poll'.mtime = poll.mtime
           /\ StatDownload => /\ Moves({IF File(local) THEN "put" ELSE "done"})
                              /\ poll'.mtime = (IF File(local) THEN local.t ELSE poll.mtime)
           /\ RecordDownload => Moves({"done"}) /\ poll'.mtime = poll.mtime
           /\ LocalAside => /\ Moves({IF File(local) THEN "fetch" ELSE "done"})
                            /\ poll'.mtime = poll.mtime
           /\ Download("fetch", "settle") =>
                 Moves({IF File(remote) THEN "settle" ELSE "done"}) /\ poll'.mtime = poll.mtime
           /\ RemoteAside => /\ Moves({IF File(remote) THEN "copy" ELSE "done"})
                             /\ poll'.mtime = poll.mtime
           /\ CopyWinner => /\ Moves({IF File(local) THEN "settle" ELSE "done"})
                            /\ poll'.mtime = poll.mtime
           /\ Settle => Moves({"done"}) /\ poll'.mtime = poll.mtime
           /\ PullFails => Moves({"done"}) /\ poll'.mtime = poll.mtime
           /\ PollDone => poll' = NoPoll
<1>1. poll \in PollStates
  BY DEF TypeOK, PollStates
<1>2. List => /\ poll'.pc = (IF feed.gone THEN "remove" ELSE "change")
              /\ poll'.gone = feed.gone /\ poll'.mtime = 0
              /\ poll'.obj = (IF feed.changed THEN remote ELSE None)
  BY DEF List
<1>3. /\ RemoveLocal => Moves({"unjournal"}) /\ poll'.mtime = poll.mtime
      /\ DeleteEntry => Moves({"change"}) /\ poll'.mtime = poll.mtime
      /\ RecordDownload => Moves({"done"}) /\ poll'.mtime = poll.mtime
      /\ Settle => Moves({"done"}) /\ poll'.mtime = poll.mtime
      /\ PullFails => Moves({"done"}) /\ poll'.mtime = poll.mtime
  BY <1>1 DEF RemoveLocal, DeleteEntry, RecordDownload, Settle, PullFails, PollGoes, Moves, PollStates
<1>4. ProcessFileChange => /\ Moves({"done", "aside", "move", "download"})
                           /\ poll'.mtime \in {poll.mtime, local.t}
  <2> SUFFICES ASSUME ProcessFileChange
               PROVE  /\ Moves({"done", "aside", "move", "download"})
                      /\ poll'.mtime \in {poll.mtime, local.t}
    OBVIOUS
  <2>1. \/ poll' = [poll EXCEPT !.pc = "done"]
        \/ \E p \in {"done", "aside", "move", "download"} :
              poll' = [poll EXCEPT !.mtime = local.t, !.pc = p]
    BY DEF ProcessFileChange, PollGoes
  <2>2. CASE poll' = [poll EXCEPT !.pc = "done"]
    BY <1>1, <2>2 DEF Moves, PollStates
  <2>3. ASSUME NEW p \in {"done", "aside", "move", "download"},
               poll' = [poll EXCEPT !.mtime = local.t, !.pc = p]
        PROVE  Moves({"done", "aside", "move", "download"}) /\ poll'.mtime = local.t
    BY <1>1, <2>3 DEF Moves, PollStates
  <2>4. QED
    BY <2>1, <2>2, <2>3
<1>5. WritePart => poll' = poll
  BY DEF WritePart
<1>6. /\ Download("download", "stat") =>
           Moves({IF File(remote) THEN "stat" ELSE "done"}) /\ poll'.mtime = poll.mtime
      /\ Download("fetch", "settle") =>
           Moves({IF File(remote) THEN "settle" ELSE "done"}) /\ poll'.mtime = poll.mtime
  BY <1>1 DEF Download, PollGoes, Moves, PollStates
<1>7. StatDownload => /\ Moves({IF File(local) THEN "put" ELSE "done"})
                      /\ poll'.mtime = (IF File(local) THEN local.t ELSE poll.mtime)
  BY <1>1 DEF StatDownload, PollGoes, Moves, PollStates
<1>8. /\ LocalAside => Moves({IF File(local) THEN "fetch" ELSE "done"}) /\ poll'.mtime = poll.mtime
      /\ RemoteAside => Moves({IF File(remote) THEN "copy" ELSE "done"}) /\ poll'.mtime = poll.mtime
      /\ CopyWinner => Moves({IF File(local) THEN "settle" ELSE "done"}) /\ poll'.mtime = poll.mtime
  BY <1>1 DEF LocalAside, RemoteAside, CopyWinner, PollGoes, Moves, PollStates
<1>9. PollDone => poll' = NoPoll
  BY DEF PollDone
<1>10. QED
  BY <1>2, <1>3, <1>4, <1>5, <1>6, <1>7, <1>8, <1>9

\* The poll's state keeps its type when its parts do.
LEMMA PollType ==
    ASSUME TypeOK, setup' = setup, PullSteps
    PROVE  poll' \in PollStates /\ poll' = [pc |-> poll'.pc, gone |-> poll'.gone, obj |-> poll'.obj,
                                            mtime |-> poll'.mtime]
<1>1. poll \in PollStates /\ local.t \in 0..MaxTime /\ None \in Versions /\ remote \in Versions
      /\ feed.gone \in BOOLEAN /\ 0 \in 0..MaxTime
  BY Constructed, MaxTimeType DEF TypeOK, PollStates
<1>2. CASE List
  BY <1>1, <1>2 DEF List, PollStates
<1>3. CASE ProcessFileChange
  <2>1. \/ poll' = [poll EXCEPT !.pc = "done"]
        \/ \E p \in {"done", "aside", "move", "download"} :
              poll' = [poll EXCEPT !.mtime = local.t, !.pc = p]
    BY <1>3 DEF ProcessFileChange, PollGoes
  <2>2. QED
    BY <1>1, <2>1 DEF PollStates
<1>4. CASE WritePart
  BY <1>1, <1>4 DEF WritePart, PollStates
<1>5. CASE StatDownload
  BY <1>1, <1>5 DEF StatDownload, PollGoes, PollStates
<1>6. CASE PollDone
  BY <1>1, <1>6 DEF PollDone, NoPoll, PollStates
<1>7. CASE \/ RemoveLocal \/ DeleteEntry \/ Download("download", "stat") \/ RecordDownload
           \/ LocalAside \/ Download("fetch", "settle") \/ RemoteAside \/ CopyWinner
           \/ Settle \/ PullFails
  <2>1. \E p \in {"unjournal", "change", "stat", "settle", "fetch", "copy", "done"} :
           poll' = [poll EXCEPT !.pc = p]
    BY <1>7 DEF RemoveLocal, DeleteEntry, Download, RecordDownload, LocalAside, RemoteAside,
                CopyWinner, Settle, PullFails, PollGoes
  <2>2. QED
    BY <1>1, <2>1 DEF PollStates
<1>8. QED
  BY <1>2, <1>3, <1>4, <1>5, <1>6, <1>7 DEF PullSteps

\* What the steps of the poll do to the rest.
LEMMA PullEffects ==
    ASSUME TypeOK, PullSteps
    PROVE  /\ worker' = worker /\ want' = want /\ setup' = setup
           /\ \/ local' = local
              \/ RemoveLocal /\ local' = None
              \/ WritePart /\ local' = [c |-> now + 1, t |-> now + 1] /\ pending' = "put"
              \/ (Download("download", "stat") \/ Download("fetch", "settle")) /\ local' = remote
              \/ LocalAside /\ local' = None
           /\ \/ remote' = remote
              \/ RemoteAside /\ remote' = None
              \/ CopyWinner /\ remote' = local /\ File(local)
           /\ \/ feed' = feed
              \/ List /\ feed' = NoChange
              \/ RemoteAside /\ feed' = [feed EXCEPT !.changed = FALSE]
              \/ CopyWinner /\ feed' = [feed EXCEPT !.changed = TRUE]
           /\ queue' = queue
           /\ \/ pending' = pending
              \/ pending' = "put" /\ ~RemoveLocal /\ ~LocalAside
              \/ RemoveLocal /\ pending' = "remove"
              \/ LocalAside /\ pending' = "rename" /\ File(local)
           /\ \/ journal' = journal
              \/ DeleteEntry /\ journal' = NoEntry
              \/ ProcessFileChange /\ File(poll.obj) /\ Adopts /\ journal.has
                    /\ poll'.pc = "done" /\ journal' = Entry(local.t, poll.obj.t, poll.obj.c)
              \/ RecordDownload /\ journal' = Entry(poll.mtime, poll.obj.t, poll.obj.c)
              \/ Settle /\ journal' = Entry(IF DetermineWinner(poll.mtime, poll.obj.t) = "remote"
                                            THEN poll.obj.t ELSE poll.mtime, poll.obj.t, poll.obj.c)
           /\ \/ now' = now
              \/ WritePart /\ now < MaxTime /\ now' = now + 1
           /\ \/ kept' = kept
              \/ LocalAside /\ File(local) /\ kept' = kept \union {local.c}
              \/ RemoteAside /\ File(remote) /\ kept' = kept \union {remote.c}
<1>1. poll \in PollStates
  BY DEF TypeOK, PollStates
<1>2. CASE List
  BY <1>2 DEF List, told, aux
<1>3. CASE RemoveLocal
  BY <1>3 DEF RemoveLocal, aux
<1>4. CASE DeleteEntry
  BY <1>4 DEF DeleteEntry, sides, told, aux
<1>5. CASE ProcessFileChange
  BY <1>1, <1>5 DEF ProcessFileChange, PollGoes, PollStates, sides, told, aux
<1>6. CASE WritePart
  BY <1>6 DEF WritePart, RemoveLocal, LocalAside
<1>7. CASE Download("download", "stat") \/ Download("fetch", "settle")
  BY <1>7 DEF Download, ToldPut, RemoveLocal, LocalAside, aux
<1>8. CASE StatDownload \/ PullFails \/ PollDone
  BY <1>8 DEF StatDownload, PullFails, PollDone, sides, told, aux
<1>9. CASE RecordDownload \/ Settle
  BY <1>9 DEF RecordDownload, Settle, sides, told, aux
<1>10. CASE LocalAside
  BY <1>10 DEF LocalAside
<1>11. CASE RemoteAside
  BY <1>11 DEF RemoteAside, MovedAside, told
<1>12. CASE CopyWinner
  BY <1>12 DEF CopyWinner, Uploaded, told, aux
<1>13. QED
  BY <1>2, <1>3, <1>4, <1>5, <1>6, <1>7, <1>8, <1>9, <1>10, <1>11, <1>12 DEF PullSteps

LEMMA PullTypes ==
    ASSUME TypeInv, PullSteps, setup' = setup
    PROVE  TypeInv'
<1>1. TypeOK /\ MaxTime \in Nat \ {0} /\ MaxTime' = MaxTime /\ Versions' = Versions /\ Entries' = Entries
  BY MaxTimeType DEF TypeInv, MaxTime, Versions, Entries
<1>2. local \in Versions /\ remote \in Versions /\ Whole(local) /\ Whole(remote) /\ Whole(poll.obj)
      /\ None \in Versions /\ Whole(None) /\ poll \in PollStates
  BY <1>1, Constructed DEF TypeInv, TypeOK, ContentInv, Whole, PollStates
<1>3. now' \in 1..MaxTime /\ (WritePart => now < MaxTime)
  BY <1>1, PullEffects, MaxTimeType DEF TypeOK, WritePart
<1>4. local' \in Versions /\ Whole(local')
  <2>1. CASE local' \in {local, remote, None}
    BY <1>2, <2>1
  <2>2. CASE WritePart /\ local' = [c |-> now + 1, t |-> now + 1]
    BY <1>1, <1>3, <2>2, MaxTimeType, Constructed DEF Whole
  <2>3. QED
    BY <1>1, <2>1, <2>2, PullEffects
<1>5. remote' \in Versions /\ Whole(remote')
  <2>1. remote' \in {local, remote, None}
    BY <1>1, PullEffects
  <2>2. QED
    BY <1>2, <2>1
<1>6. feed' \in [gone : BOOLEAN, changed : BOOLEAN]
  <2>1. \/ feed' \in {feed, NoChange}
        \/ \E b \in BOOLEAN : feed' = [feed EXCEPT !.changed = b]
    BY <1>1, PullEffects
  <2>2. feed \in [gone : BOOLEAN, changed : BOOLEAN]
    BY <1>1 DEF TypeOK
  <2>3. CASE feed' \in {feed, NoChange}
    <3>1. NoChange \in [gone : BOOLEAN, changed : BOOLEAN]
      BY DEF NoChange
    <3>2. QED
      BY <2>2, <2>3, <3>1
  <2>4. ASSUME NEW b \in BOOLEAN, feed' = [feed EXCEPT !.changed = b]
        PROVE  feed' \in [gone : BOOLEAN, changed : BOOLEAN]
    BY <2>2, <2>4
  <2>5. QED
    BY <2>1, <2>3, <2>4
<1>7. pending' \in Ops \union {"none"} /\ queue' \in Seq(Ops)
  BY <1>1, PullEffects DEF TypeOK, Ops
<1>8. journal' \in Entries
  <2>1. local.t \in 0..MaxTime /\ poll.obj.t \in 0..MaxTime /\ poll.obj.c \in 0..MaxTime
        /\ poll.mtime \in 0..MaxTime /\ NoEntry \in Entries /\ journal \in Entries
    BY <1>1, <1>2, Constructed DEF PollStates, TypeOK
  <2>2. \/ journal' \in {journal, NoEntry}
        \/ \E l \in {local.t, poll.mtime, poll.obj.t} : journal' = Entry(l, poll.obj.t, poll.obj.c)
    BY <1>1, PullEffects
  <2>3. \A l \in {local.t, poll.mtime, poll.obj.t} : Entry(l, poll.obj.t, poll.obj.c) \in Entries
    BY <1>1, <2>1, Constructed
  <2>4. QED
    BY <2>1, <2>2, <2>3
<1>9. kept' \subseteq 1..MaxTime
  <2>1. File(local) => local.c \in 1..MaxTime
    BY <1>1, <1>2, Constructed DEF Whole, File
  <2>2. File(remote) => remote.c \in 1..MaxTime
    BY <1>1, <1>2, Constructed DEF Whole, File
  <2>3. QED
    BY <1>1, <2>1, <2>2, PullEffects DEF TypeOK
<1>10. TypeOK'
  <2>1. worker' = worker /\ want' = want /\ poll' \in PollStates
    BY <1>1, PullEffects, PollType
  <2>2. QED
    BY <1>1, <1>3, <1>4, <1>5, <1>6, <1>7, <1>8, <1>9, <2>1 DEF TypeOK, PollStates
<1>11. Whole(poll'.obj)
  <2>1. poll'.obj \in {poll.obj, remote, None}
    BY <1>1, PollMoves DEF PullSteps, Moves, NoPoll
  <2>2. QED
    BY <1>2, <2>1
<1>12. poll'.pc \in AfterChange => File(poll'.obj)
  <2>1. poll.pc \in AfterChange => File(poll.obj)
    BY DEF TypeInv, ContentInv, AfterChange
  <2>2. CASE List \/ RemoveLocal \/ DeleteEntry \/ RecordDownload \/ Settle \/ PullFails
    BY <1>1, <2>2, PollMoves DEF Moves, AfterChange
  <2>3. CASE ProcessFileChange
    BY <1>1, <2>3, PollMoves DEF Moves, ProcessFileChange
  <2>4. CASE WritePart
    BY <1>1, <2>1, <2>4, PollMoves
  <2>5. CASE Download("download", "stat") \/ Download("fetch", "settle")
    BY <1>1, <2>1, <2>5, PollMoves DEF Moves, Download, AfterChange
  <2>6. CASE StatDownload
    BY <1>1, <2>1, <2>6, PollMoves DEF Moves, StatDownload, AfterChange
  <2>7. CASE LocalAside \/ RemoteAside \/ CopyWinner
    BY <1>1, <2>1, <2>7, PollMoves DEF Moves, LocalAside, RemoteAside, CopyWinner, AfterChange
  <2>8. CASE PollDone
    BY <1>1, <2>8, PollMoves DEF NoPoll, AfterChange
  <2>9. QED
    BY <2>2, <2>3, <2>4, <2>5, <2>6, <2>7, <2>8 DEF PullSteps
<1>13. ContentInv'
  <2>1. worker' = worker
    BY <1>1, PullEffects
  <2>2. QED
    BY <1>4, <1>5, <1>11, <1>12, <2>1 DEF TypeInv, ContentInv, AfterChange, Whole
<1>14. QED
  BY <1>10, <1>13 DEF TypeInv

\* What a pass does: the winner is on both sides and recorded for both.
LEMMA PassEffects ==
    ASSUME Pass
    PROVE  /\ Differs /\ poll.pc = "idle" /\ \A w \in Workers : worker[w].pc = "idle"
           /\ UNCHANGED <<queue, worker, poll, setup, now, want>>
           /\ \/ /\ LocalWins /\ remote' = local /\ local' = local /\ pending' = pending
                 /\ feed' = [feed EXCEPT !.changed = TRUE]
                 /\ journal' = Entry(local.t, local.t, 0)
                 /\ kept' = kept \union ({remote.c} \ {0})
              \/ /\ ~LocalWins /\ local' = remote /\ remote' = remote /\ feed' = feed
                 /\ pending' \in {"put", "rename", pending}
                 /\ journal' = Entry(remote.t, remote.t, 0)
                 /\ kept' = kept \union ({local.c} \ {0})
BY DEF Pass, Uploaded

LEMMA PassTypes ==
    ASSUME TypeInv, Pass, setup' = setup
    PROVE  TypeInv'
<1>1. TypeOK /\ MaxTime \in Nat \ {0} /\ MaxTime' = MaxTime /\ Versions' = Versions /\ Entries' = Entries
  BY MaxTimeType DEF TypeInv, MaxTime, Versions, Entries
<1>2. /\ local.t \in 0..MaxTime /\ remote.t \in 0..MaxTime /\ 0 \in 0..MaxTime
      /\ local.c \in 0..MaxTime /\ remote.c \in 0..MaxTime
  BY <1>1, Constructed DEF TypeOK
<1>3. Entry(local.t, local.t, 0) \in Entries /\ Entry(remote.t, remote.t, 0) \in Entries
  BY <1>1, <1>2, Constructed
<1>4. /\ {local.c} \ {0} \subseteq 1..MaxTime /\ {remote.c} \ {0} \subseteq 1..MaxTime
  BY <1>1, <1>2
<1>5. UNCHANGED <<queue, worker, poll, setup, now, want>>
  BY PassEffects
<1>6. /\ local' \in {local, remote} /\ remote' \in {local, remote}
      /\ pending' \in Ops \union {"none"} /\ feed' \in [gone : BOOLEAN, changed : BOOLEAN]
      /\ journal' \in Entries /\ kept' \subseteq 1..MaxTime
  BY <1>1, <1>3, <1>4, PassEffects DEF TypeOK, Ops
<1>7. TypeOK'
  BY <1>1, <1>5, <1>6 DEF TypeOK
<1>8. ContentInv'
  BY <1>5, <1>6 DEF TypeInv, ContentInv, Whole
<1>9. QED
  BY <1>7, <1>8 DEF TypeInv

LEMMA CrashTypes ==
    ASSUME TypeInv, Crash, setup' = setup
    PROVE  TypeInv'
<1>1. TypeOK /\ MaxTime \in Nat \ {0} /\ MaxTime' = MaxTime /\ Versions' = Versions /\ Entries' = Entries
  BY MaxTimeType DEF TypeInv, MaxTime, Versions, Entries
<1>2. /\ Idle \in WorkerStates /\ Idle.pc # "send" /\ worker' = [w \in Workers |-> Idle]
      /\ None \in Versions /\ 0 \in 0..MaxTime
  BY <1>1, IdleType, Constructed, MaxTimeType DEF Crash
<1>3. poll' \in PollStates /\ poll'.obj = None /\ poll'.pc = "idle"
  BY <1>2 DEF Crash, NoPoll, PollStates
<1>4. TypeOK'
  <2>1. /\ local' = local /\ remote' = remote /\ journal' = journal /\ now' = now
        /\ kept' = kept /\ want' = want /\ pending' = "none" /\ queue' = <<>>
        /\ feed' \in [gone : BOOLEAN, changed : BOOLEAN]
    BY <1>1 DEF Crash, aux, TypeOK, File
  <2>2. QED
    BY <1>1, <1>2, <1>3, <2>1 DEF TypeOK, WorkerStates, PollStates
<1>5. ContentInv'
  BY <1>2, <1>3 DEF TypeInv, ContentInv, Whole, Crash
<1>6. QED
  BY <1>4, <1>5 DEF TypeInv

LEMMA TypeStep ==
    ASSUME TypeInv, [Next]_vars
    PROVE  TypeInv'
<1>1. setup' = setup
  BY SetupSame
<1>2. CASE UserSteps \/ FireEvent
  BY <1>1, <1>2, UserTypes
<1>3. CASE \E w \in Workers : PushSteps(w)
  BY <1>1, <1>3, PushTypes
<1>4. CASE PullSteps
  BY <1>1, <1>4, PullTypes
<1>5. CASE Pass
  BY <1>1, <1>5, PassTypes
<1>6. CASE Crash
  BY <1>1, <1>6, CrashTypes
<1>7. CASE Rest \/ UNCHANGED vars
  BY <1>7 DEF Rest, vars, sides, told, aux, TypeInv, TypeOK, ContentInv, Versions, Entries, MaxTime
<1>8. QED
  BY <1>2, <1>3, <1>4, <1>5, <1>6, <1>7 DEF Next

LEMMA TypeInit ==
    ASSUME Init
    PROVE  TypeInv
<1>1. MaxTime \in Nat \ {0} /\ 0 \in 0..MaxTime /\ 1 \in 0..MaxTime /\ 1 \in 1..MaxTime
  BY FileAssumption DEF Init, MaxTime
<1>2. local \in Versions /\ None \in Versions /\ NoEntry \in Entries /\ journal \in Entries
  BY <1>1 DEF Init, Versions, Entries, None, NoEntry, Entry
<1>3. Idle \in WorkerStates /\ NoPoll \in PollStates
  BY <1>1, <1>2 DEF Idle, WorkerStates, NoPoll, PollStates
<1>4. TypeOK
  BY <1>1, <1>2, <1>3 DEF Init, TypeOK, WorkerStates, PollStates, NoChange, Ops
<1>5. ContentInv
  BY DEF Init, ContentInv, Whole, Idle, NoPoll
<1>6. QED
  BY <1>4, <1>5 DEF TypeInv

\* Every variable keeps its type, for any setups: what homedrive moves aside is
\* always a file, and no time exceeds the clock's bound.
THEOREM TypeCorrect == Spec => []TypeOK
<1>1. Init => TypeInv
  BY TypeInit
<1>2. TypeInv /\ [Next]_vars => TypeInv'
  BY TypeStep
<1>3. TypeInv => TypeOK
  BY DEF TypeInv
<1>4. QED
  BY <1>1, <1>2, <1>3, PTL DEF Spec

----------------------------------------------------------------------------
(* What the steps of the users and of the workers do.                      *)

LEMMA UserEffects ==
    ASSUME TypeOK, UserSteps
    PROVE  /\ now' = now + 1 /\ now < MaxTime /\ setup' = setup
           /\ UNCHANGED <<journal, queue, worker, poll, kept>>
           /\ \/ /\ "local" \in Users /\ "write" \in Deeds /\ MayAct
                 /\ local' = [c |-> now + 1, t |-> now + 1] /\ pending' = "put"
                 /\ want' = [want EXCEPT !["local"] = local']
                 /\ remote' = remote /\ feed' = feed
              \/ /\ "local" \in Users /\ MayAct /\ local' = None
                 /\ \E op \in Deeds \intersect {"remove", "rename"} : pending' = op
                 /\ remote' = remote /\ feed' = feed
              \/ /\ "remote" \in Users /\ local' = local /\ pending' = pending
                 /\ \E c \in {now + 1, remote.c} :
                       /\ remote' = [c |-> c, t |-> now + 1]
                       /\ c # now + 1 => File(remote) /\ "touch" \in Deeds
                 /\ want' = [want EXCEPT !["remote"] = remote']
                 /\ feed' = [feed EXCEPT !.changed = TRUE]
              \/ /\ "remote" \in Users /\ "remove" \in Deeds /\ local' = local /\ pending' = pending
                 /\ remote' = None
<1>1. CASE LocalWrite
  BY <1>1 DEF LocalWrite, Acts
<1>2. CASE LocalRemove("remove", "remove") \/ LocalRemove("rename", "rename")
  BY <1>2 DEF LocalRemove, Acts
<1>3. CASE RemotePut("write", now + 1)
  BY <1>3 DEF RemotePut, Acts, Uploaded, told
<1>4. CASE File(remote) /\ RemotePut("touch", remote.c)
  BY <1>4 DEF RemotePut, Acts, Uploaded, told
<1>5. CASE RemoteRemove
  BY <1>5 DEF RemoteRemove, Acts, Deleted, told
<1>6. QED
  BY <1>1, <1>2, <1>3, <1>4, <1>5 DEF UserSteps

\* A worker's step is its own; it leaves the local file and the poll alone.
LEMMA PushFrame ==
    ASSUME TypeOK, NEW w \in Workers, PushSteps(w)
    PROVE  /\ UNCHANGED <<local, pending, poll, setup, now, kept, want>>
           /\ \A x \in Workers : x # w => worker'[x] = worker[x]
           /\ \/ queue' = queue
              \/ Take(w)
           /\ \/ journal' = journal
              \/ RecordResult(w) /\ journal' = worker[w].e
           /\ \/ remote' = remote /\ feed' = feed
              \/ Send(w)
              \/ Delete(w)
<1>1. worker \in [Workers -> WorkerStates]
  BY DEF TypeOK, WorkerStates
<1>2. UNCHANGED <<local, pending, poll, setup, now, kept, want>>
  BY DEF PushSteps, Take, Open, Send, Delete, PushFails, PushEntry, RecordResult, aux, sides, told
<1>3. \E s : worker' = [worker EXCEPT ![w] = s]
  BY DEF PushSteps, Take, Open, Send, Delete, PushFails, PushEntry, RecordResult, Goes
<1>4. \A x \in Workers : x # w => worker'[x] = worker[x]
  BY <1>1, <1>3
<1>5. queue' = queue \/ Take(w)
  BY DEF PushSteps, Open, Send, Delete, PushFails, PushEntry, RecordResult, told
<1>6. journal' = journal \/ (RecordResult(w) /\ journal' = worker[w].e)
  BY DEF PushSteps, Take, Open, Send, Delete, PushFails, PushEntry, RecordResult
<1>7. (remote' = remote /\ feed' = feed) \/ Send(w) \/ Delete(w)
  BY DEF PushSteps, Take, Open, PushFails, PushEntry, RecordResult, sides
<1>8. QED
  BY <1>2, <1>4, <1>5, <1>6, <1>7

LEMMA PushMoves ==
    ASSUME TypeOK, NEW w \in Workers
    PROVE  /\ Take(w) => /\ worker[w].pc = "idle" /\ queue # <<>> /\ queue' = Tail(queue)
                         /\ worker'[w].pc = (CASE Head(queue) = "put" -> "open"
                                               [] Head(queue) = "remove" -> "delete"
                                               [] OTHER -> "idle")
           /\ Open(w) => /\ worker[w].pc = "open" /\ MayBegin
                         /\ \/ worker'[w].pc = "idle"
                            \/ worker'[w].pc = "send" /\ worker'[w].src = local
           /\ Send(w) => /\ worker[w].pc = "send" /\ worker'[w].pc = "stat"
                         /\ worker'[w].src = worker[w].src
                         /\ feed' = [feed EXCEPT !.changed = TRUE]
                         /\ \E c \in {worker[w].src.c, local.c} :
                               remote' = [c |-> c, t |-> worker[w].src.t]
           /\ Delete(w) => /\ worker[w].pc = "delete" /\ MayBegin
                           /\ \/ worker'[w].pc = "put" /\ worker'[w].e = Entry(0, 0, 0)
                              \/ worker'[w].pc = "idle"
                           /\ remote' \in {remote, None}
           /\ PushFails(w) => worker'[w].pc \in {"idle", "open"}
           /\ PushEntry(w) => /\ worker[w].pc = "stat" /\ worker'[w].pc = "put"
                              /\ worker'[w].e = Entry(local.t, worker[w].src.t, 0)
           /\ RecordResult(w) => worker[w].pc = "put" /\ worker'[w].pc = "idle"
<1>1. worker \in [Workers -> WorkerStates] /\ worker[w] \in WorkerStates
  BY DEF TypeOK, WorkerStates
<1>2. \A s : worker' = [worker EXCEPT ![w] = s] => worker'[w] = s
  BY <1>1
<1>3. Take(w) => /\ worker[w].pc = "idle" /\ queue # <<>> /\ queue' = Tail(queue)
                 /\ worker'[w].pc = (CASE Head(queue) = "put" -> "open"
                                       [] Head(queue) = "remove" -> "delete"
                                       [] OTHER -> "idle")
  BY <1>2 DEF Take, Goes, Idle
<1>4. Open(w) => /\ worker[w].pc = "open" /\ MayBegin
                 /\ \/ worker'[w].pc = "idle"
                    \/ worker'[w].pc = "send" /\ worker'[w].src = local
  <2>1. ASSUME Open(w), File(local)
        PROVE  worker'[w] = [Idle EXCEPT !.pc = "send", !.src = local]
    BY <1>2, <2>1 DEF Open, Goes
  <2>2. ASSUME Open(w), ~File(local)
        PROVE  worker'[w] = Idle
    BY <1>2, <2>2 DEF Open, Goes
  <2>3. QED
    <3>1. /\ [Idle EXCEPT !.pc = "send", !.src = local].pc = "send"
          /\ [Idle EXCEPT !.pc = "send", !.src = local].src = local
          /\ Idle.pc = "idle"
      BY DEF Idle
    <3>2. QED
      BY <2>1, <2>2, <3>1 DEF Open
<1>5. Send(w) => /\ worker[w].pc = "send" /\ worker'[w].pc = "stat"
                 /\ worker'[w].src = worker[w].src
                 /\ feed' = [feed EXCEPT !.changed = TRUE]
                 /\ \E c \in {worker[w].src.c, local.c} :
                       remote' = [c |-> c, t |-> worker[w].src.t]
  <2> SUFFICES ASSUME Send(w)
               PROVE  /\ worker[w].pc = "send" /\ worker'[w].pc = "stat"
                      /\ worker'[w].src = worker[w].src
                      /\ feed' = [feed EXCEPT !.changed = TRUE]
                      /\ \E c \in {worker[w].src.c, local.c} :
                            remote' = [c |-> c, t |-> worker[w].src.t]
    OBVIOUS
  <2>1. worker[w].pc = "send" /\ worker'[w] = [worker[w] EXCEPT !.pc = "stat"]
    BY <1>2 DEF Send, Goes
  <2>2. worker'[w].pc = "stat" /\ worker'[w].src = worker[w].src
    BY <1>1, <2>1 DEF WorkerStates
  <2>3. PICK c \in {worker[w].src.c} \union (IF File(local) THEN {local.c} ELSE {}) :
             Uploaded([c |-> c, t |-> worker[w].src.t])
    BY DEF Send
  <2>4. QED
    BY <2>1, <2>2, <2>3 DEF Uploaded
<1>6. Delete(w) => /\ worker[w].pc = "delete" /\ MayBegin
                   /\ \/ worker'[w].pc = "put" /\ worker'[w].e = Entry(0, 0, 0)
                      \/ worker'[w].pc = "idle"
                   /\ remote' \in {remote, None}
  <2> SUFFICES ASSUME Delete(w)
               PROVE  /\ \/ worker'[w].pc = "put" /\ worker'[w].e = Entry(0, 0, 0)
                         \/ worker'[w].pc = "idle"
                      /\ remote' \in {remote, None}
    BY DEF Delete
  <2>1. worker'[w] = [Idle EXCEPT !.pc = "put", !.e = Entry(0, 0, 0)] \/ worker'[w] = Idle
    BY <1>2 DEF Delete, Goes
  <2>2. remote' \in {remote, None}
    BY DEF Delete, Deleted
  <2>3. /\ [Idle EXCEPT !.pc = "put", !.e = Entry(0, 0, 0)].pc = "put"
        /\ [Idle EXCEPT !.pc = "put", !.e = Entry(0, 0, 0)].e = Entry(0, 0, 0)
        /\ Idle.pc = "idle"
    BY DEF Idle
  <2>4. QED
    BY <2>1, <2>2, <2>3
<1>7. PushFails(w) => worker'[w].pc \in {"idle", "open"}
  <2>1. PushFails(w) => worker'[w] = Idle \/ worker'[w] = [Idle EXCEPT !.pc = "open"]
    BY <1>2 DEF PushFails, Goes
  <2>2. Idle.pc = "idle" /\ [Idle EXCEPT !.pc = "open"].pc = "open"
    BY DEF Idle
  <2>3. QED
    BY <2>1, <2>2
<1>8. PushEntry(w) => /\ worker[w].pc = "stat" /\ worker'[w].pc = "put"
                      /\ worker'[w].e = Entry(local.t, worker[w].src.t, 0)
  <2>1. ASSUME PushEntry(w)
        PROVE  worker'[w] = [worker[w] EXCEPT !.pc = "put", !.e = Entry(local.t, worker[w].src.t, 0)]
    BY <1>2, <2>1 DEF PushEntry, Goes
  <2>2. QED
    BY <1>1, <2>1 DEF PushEntry, WorkerStates
<1>9. RecordResult(w) => worker[w].pc = "put" /\ worker'[w].pc = "idle"
  <2>1. RecordResult(w) => worker[w].pc = "put" /\ worker'[w] = Idle
    BY <1>2 DEF RecordResult, Goes
  <2>2. QED
    BY <2>1 DEF Idle
<1>10. QED
  BY <1>3, <1>4, <1>5, <1>6, <1>7, <1>8, <1>9

----------------------------------------------------------------------------
(* Transfers take turns.                                                   *)

\* Where nothing else touches the path during a transfer, what begins finds
\* none under way.
LEMMA TurnTaken ==
    ASSUME Apart
    PROVE  (MayBegin => NoTransfer) /\ (MayAct => NoTransfer)
BY DEF Apart, MayBegin, MayAct

LEMMA TurnStep ==
    ASSUME TypeOK, TurnInv, [Next]_vars
    PROVE  TurnInv'
<1>1. setup' = setup /\ (Apart' <=> Apart)
  BY SetupSame DEF Apart, Overlap
<1> SUFFICES ASSUME Apart, NEW x \in Workers, Pushing(x)'
             PROVE  /\ ~Pulling'
                    /\ \A y \in Workers : Pushing(y)' => y = x
                    /\ worker'[x].pc \in {"send", "stat"} => worker'[x].src = local'
  BY <1>1 DEF TurnInv
<1>2. \A y \in Workers : Pushing(y) =>
         /\ ~Pulling
         /\ \A z \in Workers : Pushing(z) => z = y
         /\ worker[y].pc \in {"send", "stat"} => worker[y].src = local
  BY DEF TurnInv
<1>3. (MayBegin => NoTransfer) /\ (MayAct => NoTransfer)
  BY TurnTaken
<1>4. CASE UserSteps
  <2>1. worker' = worker /\ poll' = poll /\ (local' = local \/ MayAct)
    BY <1>4, UserEffects
  <2>2. QED
    BY <1>2, <1>3, <2>1 DEF Pushing, Pulling, NoTransfer
<1>5. CASE FireEvent \/ Rest \/ UNCHANGED vars
  <2>1. worker' = worker /\ poll' = poll /\ local' = local
    BY <1>5 DEF FireEvent, Rest, vars, sides
  <2>2. QED
    BY <1>2, <2>1 DEF Pushing, Pulling
<1>6. ASSUME NEW w \in Workers, PushSteps(w)
      PROVE  /\ ~Pulling'
             /\ \A y \in Workers : Pushing(y)' => y = x
             /\ worker'[x].pc \in {"send", "stat"} => worker'[x].src = local'
  <2>1. local' = local /\ poll' = poll /\ \A y \in Workers : y # w => worker'[y] = worker[y]
    BY <1>6, PushFrame
  <2>2. \/ Pushing(w) /\ (worker'[w].pc \in {"send", "stat"} =>
                             worker[w].pc \in {"send", "stat"} /\ worker'[w].src = worker[w].src)
        \/ NoTransfer /\ (worker'[w].pc \in {"send", "stat"} => worker'[w].src = local)
        \/ ~Pushing(w)'
    BY <1>3, <1>6, PushMoves DEF PushSteps, Pushing
  <2>3. QED
    BY <1>2, <2>1, <2>2 DEF Pushing, Pulling, NoTransfer
<1>7. CASE PullSteps
  <2>1. worker' = worker
    BY <1>7, PullEffects
  <2>2. Pushing(x) /\ ~Pulling /\ ~NoTransfer /\ ~MayBegin
    BY <1>2, <1>3, <2>1 DEF Pushing, NoTransfer
  <2>3. List \/ PollDone
    BY <1>7, <2>2 DEF PullSteps, Pulling, RemoveLocal, DeleteEntry, ProcessFileChange, WritePart,
       Download, StatDownload, RecordDownload, LocalAside, RemoteAside, CopyWinner, Settle, PullFails
  <2>4. ~Pulling' /\ local' = local
    BY <2>3, PollMoves DEF List, PollDone, Pulling, NoPoll, sides
  <2>5. QED
    BY <1>2, <2>1, <2>2, <2>4 DEF Pushing
<1>8. CASE Pass
  BY <1>2, <1>8, PassEffects DEF Pushing, Pulling
<1>9. CASE Crash
  <2>1. worker'[x] = Idle
    BY <1>9 DEF Crash
  <2>2. QED
    BY <2>1 DEF Pushing, Idle
<1>10. QED
  BY <1>4, <1>5, <1>6, <1>7, <1>8, <1>9 DEF Next

----------------------------------------------------------------------------
(* The journal hides no difference.                                        *)

\* The versions' parts are numbers.
LEMMA Times ==
    ASSUME TypeOK
    PROVE  /\ now \in Nat /\ now >= 1
           /\ local.t \in Nat /\ remote.t \in Nat /\ local.c \in Nat /\ remote.c \in Nat
           /\ poll.obj.t \in Nat /\ poll.obj.c \in Nat /\ poll.mtime \in Nat
           /\ journal.l \in Nat /\ journal.r \in Nat /\ journal.md5 \in Nat
<1>1. MaxTime \in Nat /\ poll.obj \in Versions /\ poll.mtime \in 0..MaxTime /\ now \in 1..MaxTime
  BY MaxTimeType DEF TypeOK
<1>2. \A v \in Versions : v.c \in Nat /\ v.t \in Nat
  BY <1>1 DEF Versions
<1>3. \A e \in Entries : e.l \in Nat /\ e.r \in Nat /\ e.md5 \in Nat
  BY <1>1 DEF Entries
<1>4. QED
  BY <1>1, <1>2, <1>3 DEF TypeOK

LEMMA EntryParts ==
    ASSUME NEW l, NEW r, NEW md5
    PROVE  /\ Entry(l, r, md5).l = l /\ Entry(l, r, md5).r = r
           /\ Entry(l, r, md5).md5 = md5 /\ Entry(l, r, md5).has
BY DEF Entry

LEMMA NoneParts == None.c = 0 /\ None.t = 0
BY DEF None

LEMMA StampStep ==
    ASSUME TypeOK, TurnInv, StampInv, [Next]_vars
    PROVE  StampInv'
<1>1. setup' = setup /\ (Apart' <=> Apart)
  BY SetupSame DEF Apart, Overlap
<1> SUFFICES ASSUME Apart
             PROVE  /\ local'.t <= now' /\ remote'.t <= now'
                    /\ (local'.t = 0 => local' = None) /\ (remote'.t = 0 => remote' = None)
                    /\ local'.t = remote'.t => local'.c = remote'.c
  BY <1>1 DEF StampInv
<1>2. /\ local.t <= now /\ remote.t <= now
      /\ (local.t = 0 => local = None) /\ (remote.t = 0 => remote = None)
      /\ local.t = remote.t => local.c = remote.c
  BY DEF StampInv
<1>3. now \in Nat /\ local.t \in Nat /\ remote.t \in Nat
  BY Times
<1>4. CASE UserSteps
  <2>1. \/ local' = [c |-> now + 1, t |-> now + 1] /\ remote' = remote
        \/ local' = None /\ remote' = remote
        \/ local' = local /\ \E c : remote' = [c |-> c, t |-> now + 1]
        \/ local' = local /\ remote' = None
    BY <1>4, UserEffects
  <2>2. now' = now + 1
    BY <1>4, UserEffects
  <2>3. QED
    BY <1>2, <1>3, <2>1, <2>2, NoneParts
<1>5. CASE FireEvent \/ Rest \/ UNCHANGED vars
  <2>1. remote' = remote /\ local' = local /\ now' = now
    BY <1>5 DEF FireEvent, Rest, vars, sides, aux
  <2>2. QED
    BY <1>2, <2>1
<1>6. ASSUME NEW w \in Workers, PushSteps(w)
      PROVE  /\ local'.t <= now' /\ remote'.t <= now'
             /\ (local'.t = 0 => local' = None) /\ (remote'.t = 0 => remote' = None)
             /\ local'.t = remote'.t => local'.c = remote'.c
  <2>1. local' = local /\ now' = now
    BY <1>6, PushFrame
  <2>2. \/ remote' = remote
        \/ remote' = None
        \/ remote' = [c |-> local.c, t |-> local.t]
    <3>1. CASE Send(w)
      <4>1. worker[w].src = local
        BY <3>1, PushMoves DEF TurnInv, Pushing
      <4>2. QED
        BY <3>1, <4>1, PushMoves
    <3>2. CASE Delete(w)
      BY <3>2, PushMoves
    <3>3. QED
      BY <1>6, <3>1, <3>2, PushFrame
  <2>3. local = [c |-> local.c, t |-> local.t]
    BY DEF TypeOK, Versions
  <2>4. QED
    BY <1>2, <1>3, <2>1, <2>2, <2>3, NoneParts
<1>7. CASE PullSteps
  <2>1. \/ now' = now /\ local' \in {local, None} /\ remote' \in {remote, None}
        \/ now' = now /\ local' = remote /\ remote' = remote
        \/ now' = now /\ local' = local /\ remote' = local
        \/ now' = now + 1 /\ local' = [c |-> now + 1, t |-> now + 1] /\ remote' = remote
    BY <1>7, PullEffects DEF RemoveLocal, WritePart, Download, LocalAside, RemoteAside, CopyWinner, aux
  <2>2. QED
    BY <1>2, <1>3, <2>1, NoneParts
<1>8. CASE Pass
  BY <1>2, <1>3, <1>8, PassEffects
<1>9. CASE Crash
  BY <1>2, <1>9 DEF Crash, aux
<1>10. QED
  BY <1>4, <1>5, <1>6, <1>7, <1>8, <1>9 DEF Next

LEMMA AgreeStep ==
    ASSUME TypeInv, TurnInv, AgreeInv, [Next]_vars
    PROVE  AgreeInv'
<1>1. setup' = setup /\ (Apart' <=> Apart) /\ TypeOK
  BY SetupSame DEF Apart, Overlap, TypeInv
<1> SUFFICES ASSUME Apart
             PROVE  /\ Agreed(journal')
                    /\ \A w \in Workers : worker'[w].pc = "put" => Agreed(worker'[w].e)
  BY <1>1 DEF AgreeInv, Agreed
<1>2. Agreed(journal) /\ \A w \in Workers : worker[w].pc = "put" => Agreed(worker[w].e)
  BY DEF AgreeInv
<1>3. CASE UserSteps \/ FireEvent \/ Rest \/ UNCHANGED vars
  <2>1. journal' = journal /\ worker' = worker
    BY <1>1, <1>3, UserEffects DEF FireEvent, Rest, vars
  <2>2. QED
    BY <1>2, <2>1 DEF Agreed
<1>4. ASSUME NEW w \in Workers, PushSteps(w)
      PROVE  /\ Agreed(journal')
             /\ \A x \in Workers : worker'[x].pc = "put" => Agreed(worker'[x].e)
  <2>1. Agreed(journal')
    BY <1>1, <1>2, <1>4, PushFrame, PushMoves DEF Agreed
  <2>2. worker'[w].pc = "put" => Agreed(worker'[w].e)
    <3>1. CASE Delete(w)
      BY <1>1, <3>1, PushMoves, EntryParts DEF Agreed
    <3>2. CASE PushEntry(w)
      <4>1. worker[w].src = local
        BY <1>1, <3>2, PushMoves DEF TurnInv, Pushing
      <4>2. QED
        BY <1>1, <3>2, <4>1, PushMoves, EntryParts DEF Agreed
    <3>3. CASE Take(w) \/ Open(w) \/ Send(w) \/ PushFails(w) \/ RecordResult(w)
      BY <1>1, <3>3, PushMoves
    <3>4. QED
      BY <1>4, <3>1, <3>2, <3>3 DEF PushSteps
  <2>3. QED
    BY <1>1, <1>2, <1>4, <2>1, <2>2, PushFrame
<1>5. CASE PullSteps
  <2>1. worker' = worker
    BY <1>1, <1>5, PullEffects
  <2>2. \/ journal' = journal \/ journal' = NoEntry
        \/ \E l : journal' = Entry(l, poll.obj.t, poll.obj.c) /\ poll.obj.c # 0
    <3>1. File(poll.obj) => poll.obj.c # 0
      BY DEF TypeInv, ContentInv, Whole, File
    <3>2. RecordDownload \/ Settle => File(poll.obj)
      BY DEF TypeInv, ContentInv, RecordDownload, Settle
    <3>3. QED
      BY <1>1, <1>5, <3>1, <3>2, PullEffects
  <2>3. Agreed(journal')
    BY <1>2, <2>2, EntryParts DEF Agreed, NoEntry
  <2>4. QED
    BY <1>2, <2>1, <2>3
<1>6. CASE Pass
  <2>1. worker' = worker /\ \E t : journal' = Entry(t, t, 0)
    BY <1>6, PassEffects
  <2>2. QED
    BY <1>2, <2>1, EntryParts DEF Agreed
<1>7. CASE Crash
  <2>1. journal' = journal /\ \A w \in Workers : worker'[w].pc = "idle"
    BY <1>7 DEF Crash, Idle
  <2>2. QED
    BY <1>2, <2>1 DEF Agreed
<1>8. QED
  BY <1>3, <1>4, <1>5, <1>6, <1>7 DEF Next

\* Both sides have a file and the pass finds no difference: then the entry has
\* recorded one version for both, and both have it.
LEMMA ApartNet ==
    ASSUME TypeInv, StampInv, AgreeInv, Apart
    PROVE  local.c = remote.c \/ Differs
<1> SUFFICES ASSUME ~Differs
             PROVE  local.c = remote.c
  OBVIOUS
<1>1. (File(local) <=> File(remote)) /\ (File(local) /\ File(remote) => ~HasDivergence)
  BY DEF Differs, LocalOnly, RemoteOnly, Diverged
<1>2. CASE ~File(local)
  BY <1>1, <1>2 DEF File
<1>3. CASE File(local) /\ File(remote)
  <2>1. local.t = remote.t
    BY <1>1, <1>3 DEF HasDivergence, AgreeInv, Agreed
  <2>2. QED
    BY <2>1 DEF StampInv
<1>4. QED
  BY <1>1, <1>2, <1>3

----------------------------------------------------------------------------
(* Where nobody removes the file, no removal is ever told.                 *)

LEMMA KeepsStep ==
    ASSUME TypeOK, KeepsInv, [Next]_vars
    PROVE  KeepsInv'
<1>1. setup' = setup /\ Deeds' = Deeds
  BY SetupSame DEF Deeds
<1> SUFFICES ASSUME "remove" \notin Deeds
             PROVE  /\ ~feed'.gone /\ ~poll'.gone /\ poll'.pc \notin {"remove", "unjournal"}
                    /\ pending' # "remove" /\ \A i \in 1..Len(queue') : queue'[i] # "remove"
                    /\ \A w \in Workers : /\ worker'[w].pc # "delete"
                                          /\ worker'[w].pc = "put" => worker'[w].e.has
                    /\ journal'.has
  BY <1>1 DEF KeepsInv
<1>2. /\ ~feed.gone /\ ~poll.gone /\ poll.pc \notin {"remove", "unjournal"}
      /\ pending # "remove" /\ \A i \in 1..Len(queue) : queue[i] # "remove"
      /\ \A w \in Workers : /\ worker[w].pc # "delete"
                            /\ worker[w].pc = "put" => worker[w].e.has
      /\ journal.has
  BY DEF KeepsInv
<1>3. feed \in [gone : BOOLEAN, changed : BOOLEAN] /\ queue \in Seq(Ops) /\ pending \in Ops \union {"none"}
  BY DEF TypeOK
<1>4. \A b : [feed EXCEPT !.changed = b].gone = feed.gone
  BY <1>3
<1>5. CASE UserSteps
  <2>1. UNCHANGED <<journal, queue, worker, poll>>
    BY <1>5, UserEffects
  <2>2. pending' # "remove"
    BY <1>2, <1>5, UserEffects
  <2>3. ~feed'.gone
    BY <1>2, <1>4, <1>5, UserEffects
  <2>4. QED
    BY <1>2, <2>1, <2>2, <2>3
<1>6. CASE FireEvent
  <2>1. UNCHANGED <<feed, journal, worker, poll>> /\ pending' = "none"
    BY <1>6 DEF FireEvent, sides
  <2>2. queue' = queue \/ queue' = Append(queue, pending)
    BY <1>6 DEF FireEvent
  <2>3. \A i \in 1..Len(queue') : queue'[i] # "remove"
    <3>1. CASE queue' = queue
      BY <1>2, <3>1
    <3>2. CASE queue' = Append(queue, pending)
      <4>1. pending \in Ops
        BY <1>3, <1>6 DEF FireEvent
      <4>2. QED
        BY <1>2, <1>3, <3>2, <4>1
    <3>3. QED
      BY <2>2, <3>1, <3>2
  <2>4. QED
    BY <1>2, <2>1, <2>3
<1>7. CASE Rest \/ UNCHANGED vars
  <2>1. UNCHANGED <<feed, journal, worker, poll, pending, queue>>
    BY <1>7 DEF Rest, vars, sides, told
  <2>2. QED
    BY <1>2, <2>1
<1>8. ASSUME NEW w \in Workers, PushSteps(w)
      PROVE  /\ ~feed'.gone /\ ~poll'.gone /\ poll'.pc \notin {"remove", "unjournal"}
             /\ pending' # "remove" /\ \A i \in 1..Len(queue') : queue'[i] # "remove"
             /\ \A x \in Workers : /\ worker'[x].pc # "delete"
                                   /\ worker'[x].pc = "put" => worker'[x].e.has
             /\ journal'.has
  <2>1. pending' = pending /\ poll' = poll /\ \A x \in Workers : x # w => worker'[x] = worker[x]
    BY <1>8, PushFrame
  <2>2. ~Delete(w)
    BY <1>2, PushMoves
  <2>3. ~feed'.gone
    <3>1. feed' = feed \/ feed' = [feed EXCEPT !.changed = TRUE]
      BY <1>8, <2>2, PushFrame, PushMoves
    <3>2. feed'.gone = feed.gone
      BY <1>4, <3>1
    <3>3. QED
      BY <1>2, <3>2
  <2>4. journal'.has
    BY <1>2, <1>8, PushFrame, PushMoves
  <2>5. \A i \in 1..Len(queue') : queue'[i] # "remove"
    <3>1. CASE queue' = queue
      BY <1>2, <3>1
    <3>2. CASE queue # <<>> /\ queue' = Tail(queue)
      BY <1>2, <1>3, <3>2
    <3>3. QED
      BY <1>8, <3>1, <3>2, PushFrame, PushMoves
  <2>6. worker'[w].pc # "delete" /\ (worker'[w].pc = "put" => worker'[w].e.has)
    <3>1. CASE Take(w)
      <4>1. queue # <<>> /\ Head(queue) = queue[1] /\ 1 \in 1..Len(queue)
        BY <1>3, <3>1, PushMoves
      <4>2. QED
        BY <1>2, <3>1, <4>1, PushMoves
    <3>2. CASE Open(w) \/ Send(w) \/ PushFails(w) \/ PushEntry(w) \/ RecordResult(w)
      BY <3>2, PushMoves, EntryParts
    <3>3. QED
      BY <1>8, <2>2, <3>1, <3>2 DEF PushSteps
  <2>7. QED
    BY <1>2, <2>1, <2>3, <2>4, <2>5, <2>6
<1>9. CASE PullSteps
  <2>1. worker' = worker /\ queue' = queue /\ ~RemoveLocal /\ ~DeleteEntry
    BY <1>2, <1>9, PullEffects DEF RemoveLocal, DeleteEntry
  <2>2. ~feed'.gone
    <3>1. feed' = feed \/ feed' = NoChange \/ \E b : feed' = [feed EXCEPT !.changed = b]
      BY <1>9, PullEffects
    <3>2. feed'.gone = feed.gone \/ feed' = NoChange
      BY <1>4, <3>1
    <3>3. NoChange.gone = FALSE
      BY DEF NoChange
    <3>4. QED
      BY <1>2, <3>2, <3>3
  <2>3. pending' # "remove"
    BY <1>2, <1>9, <2>1, PullEffects
  <2>4. journal'.has
    BY <1>2, <1>9, <2>1, PullEffects, EntryParts
  <2>5. ~poll'.gone /\ poll'.pc \notin {"remove", "unjournal"}
    BY <1>2, <1>9, <2>1, PollMoves DEF PullSteps, Moves, NoPoll
  <2>6. QED
    BY <1>2, <2>1, <2>2, <2>3, <2>4, <2>5
<1>10. CASE Pass
  <2>1. UNCHANGED <<queue, worker, poll>> /\ pending' # "remove" /\ journal'.has
    BY <1>2, <1>10, PassEffects, EntryParts
  <2>2. ~feed'.gone
    BY <1>2, <1>4, <1>10, PassEffects
  <2>3. QED
    BY <1>2, <2>1, <2>2
<1>11. CASE Crash
  <2>1. /\ journal' = journal /\ pending' = "none" /\ queue' = <<>> /\ poll' = NoPoll
        /\ feed'.gone = (feed.gone \/ poll.gone) /\ \A w \in Workers : worker'[w].pc = "idle"
    BY <1>11 DEF Crash, Idle
  <2>2. ~feed'.gone
    BY <1>2, <2>1
  <2>3. ~poll'.gone /\ poll'.pc = "idle"
    BY <2>1 DEF NoPoll
  <2>4. QED
    BY <1>2, <2>1, <2>2, <2>3
<1>12. QED
  BY <1>5, <1>6, <1>7, <1>8, <1>9, <1>10, <1>11 DEF Next

----------------------------------------------------------------------------
(* The poll replaces no edit.                                              *)

LEMMA EditStep ==
    ASSUME TypeInv, TurnInv, KeepsInv, EditInv, [Next]_vars
    PROVE  EditInv'
<1>1. setup' = setup /\ (Compared' <=> Compared) /\ TypeOK
  BY SetupSame DEF Compared, Apart, Overlap, Faults, Deeds, TypeInv
<1> SUFFICES ASSUME Compared
             PROVE  /\ local'.c = local'.t /\ remote'.c = remote'.t /\ poll'.obj.c = poll'.obj.t
                    /\ journal'.md5 # 0 => journal'.md5 = journal'.r
                    /\ \A w \in Workers : worker'[w].pc = "put" => worker'[w].e.md5 = 0
                    /\ poll'.pc = "download" => ~File(local') \/ journal'.l = local'.t
                    /\ poll'.pc = "fetch" => ~File(local')
  BY <1>1 DEF EditInv, File
<1>2. /\ local.c = local.t /\ remote.c = remote.t /\ poll.obj.c = poll.obj.t
      /\ journal.md5 # 0 => journal.md5 = journal.r
      /\ \A w \in Workers : worker[w].pc = "put" => worker[w].e.md5 = 0
      /\ poll.pc = "download" => ~File(local) \/ journal.l = local.t
      /\ poll.pc = "fetch" => ~File(local)
  BY DEF EditInv
<1>3. (MayBegin => NoTransfer) /\ (MayAct => NoTransfer) /\ ~WritePart /\ ~RemoveLocal /\ ~DeleteEntry
      /\ journal.has
  BY TurnTaken DEF Compared, WritePart, KeepsInv, RemoveLocal, DeleteEntry
<1>4. now \in Nat
  BY <1>1, Times
<1>5. CASE UserSteps
  <2>1. UNCHANGED <<journal, worker, poll>> /\ (local' = local \/ MayAct)
    BY <1>1, <1>5, UserEffects
  <2>2. \/ local' = [c |-> now + 1, t |-> now + 1] /\ remote' = remote
        \/ local' = None /\ remote' = remote
        \/ local' = local /\ remote' = [c |-> now + 1, t |-> now + 1]
    BY <1>1, <1>5, UserEffects DEF Compared
  <2>3. local'.c = local'.t /\ remote'.c = remote'.t
    BY <1>2, <2>2, NoneParts
  <2>4. poll.pc \in {"download", "fetch"} => local' = local
    BY <1>3, <2>1 DEF NoTransfer, Pulling
  <2>5. QED
    BY <1>2, <2>1, <2>3, <2>4
<1>6. CASE FireEvent \/ Rest \/ UNCHANGED vars
  <2>1. UNCHANGED <<local, remote, journal, worker, poll>>
    BY <1>6 DEF FireEvent, Rest, vars, sides
  <2>2. QED
    BY <1>2, <2>1
<1>7. ASSUME NEW w \in Workers, PushSteps(w)
      PROVE  /\ local'.c = local'.t /\ remote'.c = remote'.t /\ poll'.obj.c = poll'.obj.t
             /\ journal'.md5 # 0 => journal'.md5 = journal'.r
             /\ \A x \in Workers : worker'[x].pc = "put" => worker'[x].e.md5 = 0
             /\ poll'.pc = "download" => ~File(local') \/ journal'.l = local'.t
             /\ poll'.pc = "fetch" => ~File(local')
  <2>1. local' = local /\ poll' = poll /\ \A x \in Workers : x # w => worker'[x] = worker[x]
    BY <1>1, <1>7, PushFrame
  <2>2. Pushing(w) => ~Pulling /\ (worker[w].pc \in {"send", "stat"} => worker[w].src = local)
    BY DEF TurnInv, Compared
  <2>3. remote'.c = remote'.t
    <3>1. CASE Send(w)
      <4>1. worker[w].src = local
        BY <1>1, <2>2, <3>1, PushMoves DEF Pushing
      <4>2. QED
        BY <1>1, <1>2, <3>1, <4>1, PushMoves
    <3>2. CASE Delete(w)
      BY <1>1, <1>2, <3>2, PushMoves, NoneParts
    <3>3. QED
      BY <1>1, <1>2, <1>7, <3>1, <3>2, PushFrame
  <2>4. worker'[w].pc = "put" => worker'[w].e.md5 = 0
    BY <1>1, <1>2, <1>7, PushMoves, EntryParts DEF PushSteps
  <2>5. /\ journal'.md5 # 0 => journal'.md5 = journal'.r
        /\ journal' = journal \/ ~Pulling
    BY <1>1, <1>2, <1>7, <2>2, PushFrame, PushMoves DEF Pushing
  <2>6. QED
    BY <1>2, <2>1, <2>3, <2>4, <2>5 DEF Pulling
<1>8. CASE PullSteps
  <2>1. worker' = worker
    BY <1>1, <1>8, PullEffects
  <2>2. \/ local' \in {local, None} /\ remote' \in {remote, None}
        \/ local' = remote /\ remote' = remote
        \/ local' = local /\ remote' = local
    BY <1>1, <1>3, <1>8, PullEffects DEF Download, LocalAside, RemoteAside, CopyWinner, sides
  <2>3. local'.c = local'.t /\ remote'.c = remote'.t
    BY <1>2, <2>2, NoneParts
  <2>4. poll'.obj.c = poll'.obj.t
    <3>1. poll'.obj \in {poll.obj, remote, None}
      BY <1>1, <1>3, <1>8, PollMoves DEF PullSteps, Moves, NoPoll
    <3>2. QED
      BY <1>2, <3>1, NoneParts
  <2>5. journal'.md5 # 0 => journal'.md5 = journal'.r
    <3>1. journal' = journal \/ \E l : journal' = Entry(l, poll.obj.t, poll.obj.c)
      BY <1>1, <1>3, <1>8, PullEffects
    <3>2. QED
      BY <1>2, <3>1, EntryParts
  <2>6. poll'.pc = "download" => ~File(local') \/ journal'.l = local'.t
    <3> SUFFICES ASSUME poll'.pc = "download"
                 PROVE  ~File(local') \/ journal'.l = local'.t
      OBVIOUS
    <3>1. ProcessFileChange
      BY <1>1, <1>3, <1>8, PollMoves DEF PullSteps, Moves, NoPoll
    <3>2. journal' = journal /\ local' = local
      BY <1>1, <1>8, <3>1, PullEffects DEF ProcessFileChange, DeleteEntry, RecordDownload, Settle, sides
    <3>3. ~DetectConflict /\ ~Unchanged /\ File(poll.obj)
      <4>1. poll' = [poll EXCEPT !.mtime = local.t,
                          !.pc = CASE journal.has /\ DetectConflict
                                        -> IF DetermineWinner(local.t, poll.obj.t) = "remote"
                                           THEN "aside" ELSE "move"
                                   [] journal.has /\ ~DetectConflict /\ Unchanged -> "done"
                                   [] OTHER -> "download"]
            \/ poll' = [poll EXCEPT !.pc = "done"]
        BY <3>1 DEF ProcessFileChange, PollGoes
      <4>2. poll \in PollStates
        BY <1>1 DEF TypeOK, PollStates
      <4>3. QED
        BY <1>3, <3>1, <4>1, <4>2 DEF PollStates, ProcessFileChange
    <3>4. poll.obj.c # 0
      BY <3>3 DEF TypeInv, ContentInv, Whole, File
    <3>5. QED
      BY <1>2, <3>2, <3>3, <3>4 DEF DetectConflict, Unchanged
  <2>7. poll'.pc = "fetch" => ~File(local')
    <3> SUFFICES ASSUME poll'.pc = "fetch"
                 PROVE  ~File(local')
      OBVIOUS
    <3>1. LocalAside /\ File(local)
      BY <1>1, <1>3, <1>8, PollMoves DEF PullSteps, Moves, NoPoll
    <3>2. QED
      BY <3>1 DEF LocalAside, File
  <2>8. QED
    BY <1>2, <2>1, <2>3, <2>4, <2>5, <2>6, <2>7
<1>9. CASE Pass
  <2>1. worker' = worker /\ poll' = poll /\ poll.pc = "idle" /\ local' \in {local, remote}
        /\ remote' \in {local, remote} /\ \E t : journal' = Entry(t, t, 0)
    BY <1>9, PassEffects
  <2>2. QED
    BY <1>2, <2>1, EntryParts
<1>10. CASE Crash
  <2>1. UNCHANGED <<local, remote, journal>> /\ poll' = NoPoll /\ \A w \in Workers : worker'[w].pc = "idle"
    BY <1>10 DEF Crash, Idle
  <2>2. QED
    BY <1>2, <2>1, NoneParts DEF NoPoll
<1>11. QED
  BY <1>5, <1>6, <1>7, <1>8, <1>9, <1>10 DEF Next

----------------------------------------------------------------------------
(* The local user alone.                                                   *)

\* What the policies come to when the object is not newer than the file.
LEMMA LocalWinsAlone ==
    ASSUME LocalAlone, NEW l \in Nat, NEW r \in Nat, r <= l
    PROVE  DetermineWinner(l, r) = "local"
<1>1. Policy # "remote_wins"
  BY DEF LocalAlone
<1>2. ~(r > l)
  OBVIOUS
<1>3. QED
  BY <1>1, <1>2 DEF DetermineWinner

\* Where a change in the feed leads the poll.
LEMMA ChangeLeads ==
    ASSUME TypeOK, ProcessFileChange
    PROVE  /\ poll'.pc = "aside" => DetermineWinner(local.t, poll.obj.t) = "remote" /\ DetectConflict
           /\ poll'.pc = "move" => DetectConflict
           /\ poll'.pc = "download" => ~journal.has \/ (~DetectConflict /\ ~Unchanged)
           /\ poll'.pc # "done" => poll'.mtime = local.t /\ journal' = journal
<1>1. \/ poll' = [poll EXCEPT !.mtime = local.t,
                          !.pc = CASE journal.has /\ DetectConflict
                                        -> IF DetermineWinner(local.t, poll.obj.t) = "remote"
                                           THEN "aside" ELSE "move"
                                   [] journal.has /\ ~DetectConflict /\ Unchanged -> "done"
                                   [] OTHER -> "download"] /\ journal' = journal
      \/ poll' = [poll EXCEPT !.pc = "done"]
  BY DEF ProcessFileChange, PollGoes
<1>2. poll \in PollStates
  BY DEF TypeOK, PollStates
<1>3. QED
  BY <1>1, <1>2 DEF PollStates

\* Nothing but the user's own step changes the file.
LEMMA AloneFiles ==
    ASSUME TypeInv, KeepsInv, LocalAlone, OwnFiles, OwnPush, OwnPoll, [Next]_vars, ~UserSteps
    PROVE  /\ local' = local /\ now' = now /\ want' = want /\ remote' \in {remote, local, None}
           /\ OwnFiles'
           /\ \A t \in Nat : t <= local.t /\ Reached(t) => Reached(t)'
<1>1. TypeOK /\ "remove" \notin Deeds
  BY DEF TypeInv, LocalAlone
<1>2. now \in Nat /\ local.t \in Nat /\ remote.t \in Nat /\ local \in Versions /\ remote \in Versions
  BY <1>1, Times DEF TypeOK
<1>3. local # None
  BY NoneParts DEF OwnFiles
<1>4. local' = local /\ now' = now /\ want' = want /\ remote' \in {remote, local, None}
  <2>1. CASE FireEvent \/ Rest \/ UNCHANGED vars
    BY <2>1 DEF FireEvent, Rest, vars, sides, aux
  <2>2. ASSUME NEW w \in Workers, PushSteps(w)
        PROVE  local' = local /\ now' = now /\ want' = want /\ remote' \in {remote, local, None}
    <3>1. CASE Send(w)
      <4>1. worker[w].src = local
        BY <1>1, <3>1, PushMoves DEF OwnPush
      <4>2. local = [c |-> local.c, t |-> local.t]
        BY <1>2 DEF Versions
      <4>3. QED
        BY <1>1, <2>2, <3>1, <4>1, <4>2, PushMoves, PushFrame
    <3>2. CASE ~Send(w)
      BY <1>1, <2>2, <3>2, PushMoves, PushFrame
    <3>3. QED
      BY <3>1, <3>2
  <2>3. CASE PullSteps
    <3>1. ~RemoveLocal /\ ~WritePart /\ ~LocalAside /\ ~Download("fetch", "settle")
      BY <1>1 DEF KeepsInv, RemoveLocal, WritePart, LocalAside, Download, LocalAlone, OwnPoll
    <3>2. Download("download", "stat") => local' = local
      <4>1. ASSUME Download("download", "stat"), File(remote)
            PROVE  remote = local
        <5>1. remote.t = local.t /\ remote.c = local.c
          BY <1>2, <4>1 DEF Download, OwnPoll, OwnFiles, Reached, File
        <5>2. QED
          BY <1>2, <5>1 DEF Versions
      <4>2. QED
        BY <4>1 DEF Download
    <3>3. QED
      BY <1>1, <2>3, <3>1, <3>2, PullEffects
  <2>4. CASE Pass
    <3>1. LocalWins
      BY <1>2, <1>3, <2>4, PassEffects DEF OwnFiles, LocalWins, Differs, LocalOnly, RemoteOnly, File
    <3>2. QED
      BY <2>4, <3>1, PassEffects
  <2>5. CASE Crash
    BY <2>5 DEF Crash, aux
  <2>6. QED
    BY <2>1, <2>2, <2>3, <2>4, <2>5 DEF Next
<1>5. OwnFiles'
  BY <1>2, <1>4, NoneParts DEF OwnFiles
<1>6. ASSUME NEW t \in Nat, t <= local.t, Reached(t)
      PROVE  Reached(t)'
  BY <1>4, <1>6 DEF Reached
<1>7. QED
  BY <1>4, <1>5, <1>6

\* A user's step finds no transfer under way, and is newer than everything.
LEMMA AloneUser ==
    ASSUME TypeInv, LocalAlone, OwnFiles, OwnEntry, OwnPush, OwnPoll, UserSteps
    PROVE  OwnFiles' /\ OwnEntry' /\ OwnPush' /\ OwnPoll'
<1>1. TypeOK
  BY DEF TypeInv
<1>2. /\ now' = now + 1 /\ MayAct /\ local' = [c |-> now + 1, t |-> now + 1]
      /\ want' = [want EXCEPT !["local"] = local'] /\ remote' = remote
      /\ UNCHANGED <<journal, worker, poll>>
  BY <1>1, UserEffects DEF LocalAlone
<1>3. NoTransfer
  BY <1>2 DEF MayAct, LocalAlone
<1>4. local'.c = now + 1 /\ local'.t = now + 1 /\ want'["local"] = local'
  BY <1>1, <1>2 DEF TypeOK
<1>5. now \in Nat /\ local.t \in Nat /\ remote.t \in Nat /\ poll.obj.t \in Nat /\ journal.l \in Nat
  BY <1>1, Times
<1>6. OwnFiles'
  BY <1>2, <1>4, <1>5 DEF OwnFiles
<1>7. OwnEntry'
  BY <1>2, <1>4, <1>5 DEF OwnFiles, OwnEntry, Reached
<1>8. OwnPush'
  BY <1>2, <1>3 DEF OwnPush, NoTransfer, Pushing
<1>9. OwnPoll'
  <2>1. poll'.pc \in {"idle", "remove", "change", "done"}
    BY <1>2, <1>3 DEF NoTransfer, Pulling
  <2>2. QED
    BY <1>2, <1>4, <1>5, <2>1 DEF OwnPoll, OwnFiles, Reached
<1>10. QED
  BY <1>6, <1>7, <1>8, <1>9

LEMMA AlonePush ==
    ASSUME TypeInv, KeepsInv, LocalAlone, OwnFiles, OwnEntry, OwnPush, OwnPoll,
           NEW w \in Workers, PushSteps(w)
    PROVE  OwnEntry' /\ OwnPush' /\ OwnPoll'
<1>1. TypeOK /\ "remove" \notin Deeds /\ ~Delete(w)
  <2>1. TypeOK /\ "remove" \notin Deeds
    BY DEF TypeInv, LocalAlone
  <2>2. QED
    BY <2>1 DEF KeepsInv, Delete
<1>2. [Next]_vars /\ ~UserSteps
  <2>1. now' = now /\ now \in Nat
    BY <1>1, PushFrame, Times
  <2>2. ~UserSteps
    BY <1>1, <2>1, UserEffects
  <2>3. QED
    BY <2>2 DEF Next
<1>3. /\ local' = local /\ now' = now /\ remote' \in {remote, local, None} /\ OwnFiles'
      /\ \A t \in Nat : t <= local.t /\ Reached(t) => Reached(t)'
  BY <1>2, AloneFiles
<1>4. poll' = poll /\ \A x \in Workers : x # w => worker'[x] = worker[x]
  BY <1>1, PushFrame
<1>5. local.t \in Nat /\ poll.obj.t \in Nat /\ journal.l \in Nat /\ local.t <= local.t
  BY <1>1, Times
<1>6. OwnEntry'
  <2>1. CASE journal' = journal
    BY <1>3, <1>5, <2>1 DEF OwnEntry
  <2>2. CASE RecordResult(w) /\ journal' = worker[w].e
    <3>1. journal' = Entry(local.t, local.t, 0) /\ Reached(local.t)
      BY <1>1, <2>2, PushMoves DEF OwnPush
    <3>2. QED
      BY <1>3, <1>5, <3>1, EntryParts DEF OwnEntry
  <2>3. QED
    BY <1>1, <2>1, <2>2, PushFrame
<1>7. OwnPush'
  <2>1. ASSUME NEW x \in Workers, x # w
        PROVE  /\ worker'[x].pc \in {"send", "stat"} => worker'[x].src = local'
               /\ worker'[x].pc = "put" => worker'[x].e = Entry(local.t, local.t, 0)
               /\ worker'[x].pc \in {"stat", "put"} => Reached(local.t)'
    BY <1>3, <1>4, <1>5, <2>1 DEF OwnPush
  <2>2. /\ worker'[w].pc \in {"send", "stat"} => worker'[w].src = local'
        /\ worker'[w].pc = "put" => worker'[w].e = Entry(local.t, local.t, 0)
        /\ worker'[w].pc \in {"stat", "put"} => Reached(local.t)'
    <3>1. CASE Take(w) \/ Open(w) \/ PushFails(w) \/ RecordResult(w)
      BY <1>1, <1>3, <3>1, PushMoves
    <3>2. CASE Send(w)
      <4>1. worker[w].src = local
        BY <1>1, <3>2, PushMoves DEF OwnPush
      <4>2. remote'.t = local.t
        BY <1>1, <3>2, <4>1, PushMoves
      <4>3. QED
        BY <1>1, <1>3, <1>5, <3>2, <4>1, <4>2, PushMoves DEF Reached
    <3>3. CASE PushEntry(w)
      BY <1>1, <1>3, <1>5, <3>3, PushMoves DEF OwnPush
    <3>4. QED
      BY <1>1, <3>1, <3>2, <3>3 DEF PushSteps
  <2>3. QED
    BY <1>3, <2>1, <2>2 DEF OwnPush
<1>8. OwnPoll'
  BY <1>3, <1>4, <1>5 DEF OwnPoll
<1>9. QED
  BY <1>6, <1>7, <1>8

LEMMA AlonePull ==
    ASSUME TypeInv, KeepsInv, LocalAlone, OwnFiles, OwnEntry, OwnPush, OwnPoll, PullSteps
    PROVE  OwnEntry' /\ OwnPush' /\ OwnPoll'
<1>1. TypeOK /\ "remove" \notin Deeds /\ journal.has
  BY DEF TypeInv, LocalAlone, KeepsInv
<1>2. /\ now' = now /\ now \in Nat /\ worker' = worker /\ ~RemoveLocal /\ ~DeleteEntry
      /\ ~WritePart /\ ~LocalAside /\ ~Download("fetch", "settle")
  BY <1>1, PullEffects, Times
     DEF KeepsInv, RemoveLocal, DeleteEntry, WritePart, LocalAside, Download, LocalAlone, OwnPoll
<1>3. [Next]_vars /\ ~UserSteps
  BY <1>1, <1>2, UserEffects DEF Next
<1>4. /\ local' = local /\ remote' \in {remote, local, None} /\ OwnFiles'
      /\ \A t \in Nat : t <= local.t /\ Reached(t) => Reached(t)'
  BY <1>3, AloneFiles
<1>5. /\ local.t \in Nat /\ poll.obj.t \in Nat /\ journal.l \in Nat /\ local.t <= local.t
      /\ poll.mtime \in Nat /\ remote.t \in Nat /\ poll.obj.c \in Nat
  BY <1>1, Times
<1>6. File(poll.obj) => poll.obj.c # 0
  BY DEF TypeInv, ContentInv, Whole, File
<1>7. OwnPush'
  BY <1>2, <1>4, <1>5 DEF OwnPush
<1>8. OwnEntry'
  <2>1. CASE journal' = journal
    BY <1>4, <1>5, <2>1 DEF OwnEntry
  <2>2. CASE ProcessFileChange /\ File(poll.obj) /\ Adopts /\ journal' = Entry(local.t, poll.obj.t, poll.obj.c)
    <3>1. local.t = poll.obj.t
      BY <2>2 DEF Adopts, OwnPoll, OwnFiles
    <3>2. QED
      BY <1>4, <1>5, <1>6, <2>2, <3>1, EntryParts DEF OwnEntry, OwnPoll
  <2>3. CASE RecordDownload /\ journal' = Entry(poll.mtime, poll.obj.t, poll.obj.c)
    <3>1. poll.mtime = local.t /\ Reached(local.t) /\ File(poll.obj)
      BY <2>3 DEF RecordDownload, OwnPoll, TypeInv, ContentInv
    <3>2. QED
      BY <1>4, <1>5, <1>6, <2>3, <3>1, EntryParts DEF OwnEntry, OwnPoll
  <2>4. CASE Settle
    <3>1. poll.mtime = local.t /\ Reached(local.t) /\ File(poll.obj)
      BY <2>4 DEF Settle, OwnPoll, TypeInv, ContentInv
    <3>2. DetermineWinner(poll.mtime, poll.obj.t) = "local"
      BY <1>5, <3>1, LocalWinsAlone DEF OwnPoll
    <3>3. journal' = Entry(poll.mtime, poll.obj.t, poll.obj.c)
      BY <2>4, <3>2 DEF Settle
    <3>4. QED
      BY <1>4, <1>5, <1>6, <3>1, <3>3, EntryParts DEF OwnEntry, OwnPoll
  <2>5. QED
    BY <1>1, <1>2, <2>1, <2>2, <2>3, <2>4, PullEffects
<1>9. poll'.obj.c = poll'.obj.t /\ poll'.obj.t <= local'.t /\ Reached(poll.obj.t)'
  <2>1. CASE poll'.obj = poll.obj
    BY <1>4, <1>5, <2>1 DEF OwnPoll
  <2>2. CASE poll'.obj = None
    BY <1>4, <1>5, <2>2, NoneParts DEF Reached, OwnFiles
  <2>3. CASE List /\ poll'.obj = remote
    BY <1>4, <1>5, <2>3 DEF List, Reached, OwnFiles
  <2>4. QED
    BY <1>1, <1>2, <2>1, <2>2, <2>3, PollMoves DEF PullSteps, Moves, NoPoll
<1>10. /\ poll'.pc \notin {"aside", "fetch"}
       /\ poll'.pc \in {"download", "stat", "put", "settle"} => Reached(local.t)'
       /\ poll'.pc \in {"put", "move", "copy", "settle"} => poll'.mtime = local'.t
  <2>1. CASE List \/ RecordDownload \/ Settle \/ PullFails \/ PollDone
    BY <1>1, <2>1, PollMoves DEF Moves, NoPoll
  <2>2. CASE ProcessFileChange
    <3>1. DetermineWinner(local.t, poll.obj.t) = "local"
      BY <1>5, LocalWinsAlone DEF OwnPoll
    <3>2. poll'.pc \in {"done", "move", "download"}
      BY <1>1, <2>2, <3>1, PollMoves, ChangeLeads DEF Moves
    <3>3. CASE poll'.pc = "download"
      <4>1. ~DetectConflict /\ ~Unchanged /\ File(poll.obj) /\ File(local)
        BY <1>1, <1>5, <2>2, <3>3, ChangeLeads, NoneParts DEF OwnFiles, File, ProcessFileChange
      <4>2. journal.l = local.t
        BY <1>6, <4>1 DEF DetectConflict, Unchanged, OwnEntry, OwnPoll
      <4>3. Reached(local.t)'
        BY <1>4, <1>5, <4>2 DEF OwnEntry
      <4>4. QED
        BY <3>3, <4>3
    <3>4. CASE poll'.pc \in {"done", "move"}
      BY <1>1, <1>4, <2>2, <3>4, ChangeLeads
    <3>5. QED
      BY <3>2, <3>3, <3>4
  <2>3. CASE Download("download", "stat")
    <3>1. poll.pc = "download" /\ poll'.pc \in {"stat", "done"}
      BY <1>1, <2>3, PollMoves DEF Moves, Download
    <3>2. Reached(local.t)'
      BY <1>4, <1>5, <3>1 DEF OwnPoll
    <3>3. QED
      BY <3>1, <3>2
  <2>4. CASE StatDownload
    <3>1. poll.pc = "stat" /\ poll'.pc \in {"put", "done"} /\ (poll'.pc = "put" => poll'.mtime = local.t)
      BY <1>1, <2>4, PollMoves DEF Moves, StatDownload
    <3>2. Reached(local.t)'
      BY <1>4, <1>5, <3>1 DEF OwnPoll
    <3>3. QED
      BY <1>4, <3>1, <3>2
  <2>5. CASE RemoteAside
    <3>1. poll.pc = "move" /\ poll'.pc \in {"copy", "done"} /\ poll'.mtime = poll.mtime
      BY <1>1, <2>5, PollMoves DEF Moves, RemoteAside
    <3>2. QED
      BY <1>4, <3>1 DEF OwnPoll
  <2>6. CASE CopyWinner
    <3>1. poll.pc = "copy" /\ poll'.pc \in {"settle", "done"} /\ poll'.mtime = poll.mtime
          /\ (poll'.pc = "settle" => remote' = local)
      BY <1>1, <2>6, PollMoves DEF Moves, CopyWinner, Uploaded
    <3>2. poll'.pc = "settle" => Reached(local.t)'
      BY <1>4, <1>5, <3>1 DEF Reached
    <3>3. QED
      BY <1>4, <3>1, <3>2 DEF OwnPoll
  <2>7. QED
    BY <1>2, <2>1, <2>2, <2>3, <2>4, <2>5, <2>6 DEF PullSteps
<1>11. QED
  BY <1>7, <1>8, <1>9, <1>10 DEF OwnPoll

LEMMA AloneStep ==
    ASSUME TypeInv, KeepsInv, AloneInv, [Next]_vars
    PROVE  AloneInv'
<1>1. setup' = setup /\ (LocalAlone' <=> LocalAlone) /\ TypeOK
  BY SetupSame DEF LocalAlone, Users, Deeds, Overlap, Policy, Faults, TypeInv
<1> SUFFICES ASSUME LocalAlone
             PROVE  OwnFiles' /\ OwnEntry' /\ OwnPush' /\ OwnPoll'
  BY <1>1 DEF AloneInv
<1>2. OwnFiles /\ OwnEntry /\ OwnPush /\ OwnPoll
  BY DEF AloneInv
<1>3. CASE UserSteps
  BY <1>2, <1>3, AloneUser
<1>4. CASE ~UserSteps
  <2>1. /\ local' = local /\ remote' \in {remote, local, None} /\ OwnFiles'
        /\ \A t \in Nat : t <= local.t /\ Reached(t) => Reached(t)'
    BY <1>2, <1>4, AloneFiles
  <2>2. /\ local.t \in Nat /\ poll.obj.t \in Nat /\ journal.l \in Nat /\ local.t <= local.t
        /\ remote.t \in Nat
    BY <1>1, Times
  <2>3. CASE FireEvent \/ Rest \/ UNCHANGED vars
    <3>1. UNCHANGED <<remote, journal, worker, poll>>
      BY <2>3 DEF FireEvent, Rest, vars, sides
    <3>2. QED
      BY <1>2, <2>1, <3>1 DEF OwnEntry, OwnPush, OwnPoll, Reached
  <2>4. CASE \E w \in Workers : PushSteps(w)
    BY <1>2, <2>1, <2>4, AlonePush
  <2>5. CASE PullSteps
    BY <1>2, <2>1, <2>5, AlonePull
  <2>6. CASE Pass
    <3>1. poll' = poll /\ poll.pc = "idle" /\ worker' = worker /\ \A w \in Workers : worker[w].pc = "idle"
      BY <2>6, PassEffects
    <3>2. local # None
      BY <1>2, NoneParts DEF OwnFiles
    <3>3. LocalWins
      BY <1>2, <2>2, <2>6, <3>2, PassEffects
         DEF OwnFiles, LocalWins, Differs, LocalOnly, RemoteOnly, File
    <3>4. remote' = local /\ journal' = Entry(local.t, local.t, 0)
      BY <2>6, <3>3, PassEffects
    <3>5. OwnEntry'
      BY <2>1, <2>2, <3>4, EntryParts DEF OwnEntry, Reached
    <3>6. OwnPush' /\ OwnPoll'
      BY <1>2, <2>1, <2>2, <3>1 DEF OwnPush, OwnPoll
    <3>7. QED
      BY <2>1, <3>5, <3>6
  <2>7. CASE Crash
    <3>1. UNCHANGED <<remote, journal>> /\ poll' = NoPoll /\ \A w \in Workers : worker'[w].pc = "idle"
      BY <2>7 DEF Crash, Idle
    <3>2. poll'.obj = None /\ poll'.pc = "idle"
      BY <3>1 DEF NoPoll
    <3>3. OwnEntry' /\ OwnPush'
      BY <1>2, <2>1, <3>1 DEF OwnEntry, OwnPush, Reached
    <3>4. OwnPoll'
      BY <1>2, <2>1, <2>2, <3>1, <3>2, NoneParts DEF OwnPoll, Reached, OwnFiles
    <3>5. QED
      BY <2>1, <3>3, <3>4
  <2>8. QED
    BY <1>4, <2>3, <2>4, <2>5, <2>6, <2>7 DEF Next
<1>5. QED
  BY <1>3, <1>4

LEMMA AloneNet ==
    ASSUME TypeInv, KeepsInv, AloneInv, LocalAlone
    PROVE  local.c = remote.c \/ Differs
<1>1. OwnFiles /\ OwnEntry /\ journal.has
  BY DEF AloneInv, KeepsInv, LocalAlone
<1>2. File(local)
  BY <1>1, NoneParts DEF OwnFiles, File
<1>3. CASE File(remote)
  BY <1>1, <1>2, <1>3 DEF OwnFiles, OwnEntry, Differs, Diverged, HasDivergence
<1>4. CASE ~File(remote)
  BY <1>2, <1>4 DEF Differs, LocalOnly
<1>5. QED
  BY <1>3, <1>4

----------------------------------------------------------------------------
(* The remote user alone.                                                  *)

LEMMA FollowStep ==
    ASSUME TypeInv, KeepsInv, StampInv, FollowInv, [Next]_vars
    PROVE  FollowInv'
<1>1. setup' = setup /\ (RemoteAlone' <=> RemoteAlone) /\ Faults' = Faults /\ TypeOK
  BY SetupSame DEF RemoteAlone, Users, Deeds, Overlap, Faults, TypeInv
<1> SUFFICES ASSUME RemoteAlone
             PROVE  Drive' /\ NoPush' /\ Mirror'
  BY <1>1 DEF FollowInv
<1>2. Drive /\ NoPush /\ Mirror
  BY DEF FollowInv
<1>3. /\ Apart /\ "remove" \notin Deeds /\ ~RemoveLocal /\ ~DeleteEntry /\ journal.has
      /\ ~Crash /\ ~(\E w \in Workers : Open(w) \/ Send(w) \/ Delete(w) \/ PushFails(w)
                                        \/ PushEntry(w) \/ RecordResult(w))
      /\ (MayFire => NoTransfer)
  BY <1>2 DEF RemoteAlone, Apart, KeepsInv, RemoveLocal, DeleteEntry, Crash, NoPush, Open, Send, Delete,
     PushFails, PushEntry, RecordResult, MayFire
<1>4. /\ now \in Nat /\ local.t \in Nat /\ remote.t \in Nat /\ local \in Versions /\ remote \in Versions
      /\ local.t <= now /\ remote.t <= now /\ (local.t = remote.t => local.c = remote.c)
      /\ poll \in PollStates /\ queue \in Seq(Ops)
  BY <1>1, <1>3, Times DEF TypeOK, StampInv, PollStates
<1>5. CASE UserSteps
  <2>1. PICK c \in {now + 1, remote.c} :
             /\ remote' = [c |-> c, t |-> now + 1]
             /\ local' = local /\ UNCHANGED <<journal, queue, worker, poll, pending>>
             /\ want' = [want EXCEPT !["remote"] = remote']
    BY <1>1, <1>5, UserEffects DEF RemoteAlone
  <2>2. remote'.t = now + 1 /\ want'["remote"] = remote' /\ remote' # None
    BY <1>1, <1>4, <2>1, NoneParts DEF TypeOK
  <2>3. QED
    BY <1>1, <1>2, <1>4, <2>1, <2>2 DEF Drive, NoPush, Mirror, File
<1>6. CASE FireEvent
  <2>1. UNCHANGED <<local, remote, journal, worker, poll, want>>
    BY <1>6 DEF FireEvent, sides, aux
  <2>2. queue' = queue \/ (queue' = Append(queue, pending) /\ pending = "rename")
    <3>1. NoTransfer /\ pending # "none"
      BY <1>3, <1>6 DEF FireEvent
    <3>2. pending \in {"put", "rename"}
      BY <1>1, <1>3, <3>1 DEF TypeOK, Ops, KeepsInv
    <3>3. SelfInduced(journal, local)
      BY <1>2, <1>3, <3>1 DEF SelfInduced, Drive, Mirror, NoTransfer, Pulling
    <3>4. QED
      BY <1>6, <3>2, <3>3 DEF FireEvent
  <2>3. \A i \in 1..Len(queue') : queue'[i] = "rename"
    <3>1. CASE queue' = queue
      BY <1>2, <3>1 DEF NoPush
    <3>2. CASE queue' = Append(queue, pending) /\ pending = "rename"
      BY <1>2, <1>4, <3>2 DEF NoPush, Ops
    <3>3. QED
      BY <2>2, <3>1, <3>2
  <2>4. QED
    BY <1>1, <1>2, <2>1, <2>3 DEF Drive, NoPush, Mirror
<1>7. CASE Rest \/ UNCHANGED vars
  <2>1. UNCHANGED <<local, remote, journal, worker, poll, want, queue>>
    BY <1>7 DEF Rest, vars, sides, told, aux
  <2>2. QED
    BY <1>1, <1>2, <2>1 DEF Drive, NoPush, Mirror
<1>8. ASSUME NEW w \in Workers, PushSteps(w)
      PROVE  Drive' /\ NoPush' /\ Mirror'
  <2>1. Take(w)
    BY <1>3, <1>8 DEF PushSteps
  <2>2. UNCHANGED <<local, remote, journal, poll, want>>
    BY <2>1 DEF Take, sides, aux
  <2>3. /\ queue # <<>> /\ queue' = Tail(queue) /\ Head(queue) = queue[1] /\ 1 \in 1..Len(queue)
    BY <1>1, <1>4, <2>1, PushMoves
  <2>4. Head(queue) = "rename"
    BY <1>2, <2>3 DEF NoPush
  <2>5. worker'[w].pc = "idle"
    BY <1>1, <2>1, <2>4, PushMoves
  <2>6. \A i \in 1..Len(queue') : queue'[i] = "rename"
    BY <1>2, <1>4, <2>3 DEF NoPush
  <2>7. \A x \in Workers : worker'[x].pc = "idle"
    BY <1>1, <1>2, <1>8, <2>5, PushFrame DEF NoPush
  <2>8. QED
    BY <1>1, <1>2, <2>2, <2>6, <2>7 DEF Drive, NoPush, Mirror
<1>9. CASE PullSteps
  <2>1. /\ worker' = worker /\ queue' = queue /\ want' = want
        /\ ~LocalAside /\ ~RemoteAside /\ ~CopyWinner /\ ~Settle /\ ~Download("fetch", "settle")
    BY <1>1, <1>2, <1>9, PullEffects
       DEF Mirror, LocalAside, RemoteAside, CopyWinner, Settle, Download
  <2>2. remote' = remote
    BY <1>1, <1>9, <2>1, PullEffects
  <2>3. NoPush' /\ Drive'
    <3>1. File(local')
      <4>1. \/ local' = local
            \/ local' = remote
            \/ WritePart /\ local' = [c |-> now + 1, t |-> now + 1]
        BY <1>1, <1>3, <1>9, <2>1, PullEffects
      <4>2. [c |-> now + 1, t |-> now + 1] # None
        BY <1>4 DEF None
      <4>3. QED
        BY <1>2, <4>1, <4>2 DEF Drive, File
    <3>2. QED
      BY <1>2, <2>1, <2>2, <3>1 DEF NoPush, Drive, File
  <2>4. Mirror'
    <3>1. CASE List
      <4>1. UNCHANGED <<local, remote, journal>> /\ poll'.pc \in {"change", "remove"} /\ poll.pc = "idle"
        BY <1>1, <3>1, PollMoves DEF List
      <4>2. QED
        BY <1>2, <4>1 DEF Mirror
    <3>2. CASE ProcessFileChange
      <4>1. poll.pc = "change" /\ UNCHANGED <<local, remote>>
        BY <3>2 DEF ProcessFileChange, sides
      <4>2. journal.l = local.t /\ local.t <= remote.t
        BY <1>2, <4>1 DEF Mirror
      <4>3. ~DetectConflict
        BY <4>2 DEF DetectConflict
      <4>4. poll'.pc \in {"done", "download"}
        BY <1>1, <3>2, <4>3, PollMoves, ChangeLeads DEF Moves
      <4>5. journal'.l = local.t
        <5>1. journal' = journal \/ journal' = Entry(local.t, poll.obj.t, poll.obj.c)
          BY <3>2 DEF ProcessFileChange
        <5>2. QED
          BY <4>2, <5>1, EntryParts
      <4>6. QED
        BY <1>1, <4>1, <4>2, <4>4, <4>5 DEF Mirror
    <3>3. CASE WritePart
      <4>1. /\ poll' = poll /\ UNCHANGED <<remote, journal>> /\ poll.pc = "download"
            /\ "slow" \in Faults
        BY <1>2, <3>3 DEF WritePart, Mirror
      <4>2. QED
        BY <1>1, <4>1 DEF Mirror
    <3>4. CASE Download("download", "stat")
      <4>1. poll.pc = "download" /\ local' = remote /\ remote' = remote
        BY <1>2, <3>4 DEF Download, Drive
      <4>2. poll'.pc = "stat"
        BY <1>1, <1>2, <3>4, PollMoves DEF Moves, Drive
      <4>3. QED
        BY <1>4, <4>1, <4>2 DEF Mirror
    <3>5. CASE StatDownload
      <4>1. poll.pc = "stat" /\ UNCHANGED <<local, remote, journal>>
        BY <3>5 DEF StatDownload, sides
      <4>2. poll'.pc = "put" /\ poll'.mtime = local.t
        BY <1>1, <1>2, <3>5, PollMoves DEF Moves, Drive
      <4>3. QED
        BY <1>2, <4>1, <4>2 DEF Mirror
    <3>6. CASE RecordDownload
      <4>1. poll.pc = "put" /\ UNCHANGED <<local, remote>>
            /\ journal' = Entry(poll.mtime, poll.obj.t, poll.obj.c)
        BY <3>6 DEF RecordDownload, sides
      <4>2. poll'.pc = "done"
        BY <1>1, <3>6, PollMoves DEF Moves
      <4>3. QED
        BY <1>2, <4>1, <4>2, EntryParts DEF Mirror
    <3>7. CASE PullFails
      <4>1. UNCHANGED <<local, remote, journal>> /\ "remote" \in Faults /\ poll.pc = "download"
        BY <1>2, <3>7 DEF PullFails, sides, Mirror
      <4>2. "slow" \notin Faults
        BY <4>1 DEF RemoteAlone
      <4>3. poll'.pc = "done"
        BY <1>1, <3>7, PollMoves DEF Moves
      <4>4. QED
        BY <1>2, <4>1, <4>2, <4>3 DEF Mirror
    <3>8. CASE PollDone
      <4>1. UNCHANGED <<local, remote, journal>> /\ poll.pc \in {"done", "change"}
        BY <3>8 DEF PollDone, sides
      <4>2. poll'.pc = "idle"
        BY <3>8 DEF PollDone, NoPoll
      <4>3. QED
        BY <1>2, <4>1, <4>2 DEF Mirror
    <3>9. QED
      BY <1>3, <1>9, <2>1, <3>1, <3>2, <3>3, <3>4, <3>5, <3>6, <3>7, <3>8 DEF PullSteps
  <2>5. QED
    BY <2>3, <2>4
<1>10. CASE Pass
  <2>1. poll' = poll /\ poll.pc = "idle" /\ worker' = worker /\ queue' = queue /\ want' = want
    BY <1>10, PassEffects
  <2>2. journal.l = local.t /\ local.t <= remote.t
    BY <1>2, <2>1 DEF Mirror
  <2>3. remote' = remote /\ (local' = local \/ local' = remote) /\ journal'.l = local'.t
    <3>1. CASE LocalWins
      <4>1. remote.t = local.t
        BY <1>2, <1>4, <2>2, <3>1 DEF LocalWins, LocalOnly, Drive
      <4>2. remote = local
        BY <1>4, <4>1 DEF Versions
      <4>3. QED
        BY <1>10, <3>1, <4>2, PassEffects, EntryParts
    <3>2. CASE ~LocalWins
      BY <1>10, <3>2, PassEffects, EntryParts
    <3>3. QED
      BY <3>1, <3>2
  <2>4. Drive'
    BY <1>2, <2>1, <2>3 DEF Drive, File
  <2>5. Mirror'
    BY <1>2, <1>4, <2>1, <2>2, <2>3 DEF Mirror
  <2>6. QED
    BY <1>2, <2>1, <2>4, <2>5 DEF NoPush
<1>11. QED
  BY <1>3, <1>5, <1>6, <1>7, <1>8, <1>9, <1>10 DEF Next

----------------------------------------------------------------------------
(* The theorems.                                                           *)

IndInv ==
    /\ TypeInv /\ TurnInv /\ StampInv /\ AgreeInv
    /\ KeepsInv /\ EditInv /\ AloneInv /\ FollowInv

LEMMA IndInit ==
    ASSUME Init
    PROVE  IndInv
<1>1. /\ local.c = 1 /\ local.t = 1 /\ remote = local /\ local # None /\ now = 1
      /\ want["local"] = local /\ want["remote"] = local
      /\ feed = NoChange /\ pending = "none" /\ queue = <<>> /\ poll = NoPoll
      /\ \A w \in Workers : worker[w] = Idle
  BY DEF Init, None
<1>2. /\ journal.l = 1 /\ journal.r = 1 /\ journal.md5 \in {0, 1} /\ journal.has
  BY EntryParts DEF Init
<1>3. /\ poll.pc = "idle" /\ ~poll.gone /\ poll.obj = None /\ ~feed.gone
      /\ \A w \in Workers : worker[w].pc = "idle"
  BY <1>1 DEF NoPoll, NoChange, Idle
<1>4. TypeInv
  BY TypeInit
<1>5. TurnInv /\ KeepsInv
  BY <1>1, <1>2, <1>3 DEF TurnInv, Pushing, KeepsInv
<1>6. StampInv /\ AgreeInv
  BY <1>1, <1>2, <1>3 DEF StampInv, AgreeInv, Agreed
<1>7. EditInv
  BY <1>1, <1>2, <1>3, NoneParts DEF EditInv
<1>8. AloneInv
  BY <1>1, <1>2, <1>3, NoneParts DEF AloneInv, OwnFiles, OwnEntry, OwnPush, OwnPoll, Reached
<1>9. FollowInv
  BY <1>1, <1>2, <1>3 DEF FollowInv, Drive, NoPush, Mirror, File
<1>10. QED
  BY <1>4, <1>5, <1>6, <1>7, <1>8, <1>9 DEF IndInv

LEMMA IndStep ==
    ASSUME IndInv, [Next]_vars
    PROVE  IndInv'
<1>1. /\ TypeInv /\ TypeOK /\ TurnInv /\ StampInv /\ AgreeInv
      /\ KeepsInv /\ EditInv /\ AloneInv /\ FollowInv
  BY DEF IndInv, TypeInv
<1>2. TypeInv'
  BY <1>1, TypeStep
<1>3. TurnInv' /\ StampInv' /\ AgreeInv'
  BY <1>1, TurnStep, StampStep, AgreeStep
<1>4. KeepsInv' /\ EditInv'
  BY <1>1, KeepsStep, EditStep
<1>5. AloneInv' /\ FollowInv'
  BY <1>1, AloneStep, FollowStep
<1>6. QED
  BY <1>2, <1>3, <1>4, <1>5 DEF IndInv

LEMMA Inductive == Spec => []IndInv
<1>1. Init => IndInv
  BY IndInit
<1>2. IndInv /\ [Next]_vars => IndInv'
  BY IndStep
<1>3. QED
  BY <1>1, <1>2, PTL DEF Spec

\* The journal never hides a difference: for any number of workers and user
\* steps, with both users, all deeds and all faults, as long as a transfer has
\* the path to itself or the local user is alone.
THEOREM NothingHidden == Spec => []SafetyNet
<1>1. IndInv => SafetyNet
  BY ApartNet, AloneNet DEF IndInv, SafetyNet
<1>2. QED
  BY <1>1, Inductive, PTL

\* With nobody changing the file on Drive, no echo, retry, lost answer, crash,
\* stale listing or pass ever changes what the local user wrote.
THEOREM LocalAuthoritative == Spec => []LocalStands
<1>1. IndInv => LocalStands
  BY DEF IndInv, AloneInv, OwnFiles, LocalStands
<1>2. QED
  BY <1>1, Inductive, PTL

\* With nobody changing the file locally, no echo of a download is pushed: when
\* all is at rest and the next pass finds no difference, both sides have what
\* the user on Drive left.
THEOREM DriveMirrored == Spec => []RemoteStands
<1>1. ASSUME IndInv, RemoteAlone, ~Differs
      PROVE  {local.c, remote.c} = {want["remote"].c}
  <2>1. local.c = remote.c
    BY <1>1, ApartNet DEF IndInv, RemoteAlone, Apart
  <2>2. remote = want["remote"]
    BY <1>1 DEF IndInv, FollowInv, Drive
  <2>3. QED
    BY <2>1, <2>2
<1>2. IndInv => RemoteStands
  BY <1>1 DEF RemoteStands
<1>3. QED
  BY <1>2, Inductive, PTL

\* What the poll may do to a local file in one step.
LEMMA EditKept ==
    ASSUME IndInv, [Next]_vars, poll' # poll, local' # local, File(local), Compared
    PROVE  journal.l = local.t \/ local.c \in kept' \union {remote.c}
<1>1. TypeOK /\ KeepsInv /\ EditInv
  BY DEF IndInv, TypeInv
<1>2. PullSteps
  <2>1. ~UserSteps
    BY <1>1, UserEffects
  <2>2. \A w \in Workers : ~PushSteps(w)
    BY <1>1, PushFrame
  <2>3. ~Pass
    BY PassEffects
  <2>4. ~FireEvent /\ ~Rest /\ ~Crash /\ ~(UNCHANGED vars)
    BY DEF FireEvent, Rest, Crash, vars
  <2>5. QED
    BY <2>1, <2>2, <2>3, <2>4 DEF Next
<1>3. ~RemoveLocal /\ ~WritePart /\ ~Download("fetch", "settle")
  BY <1>1 DEF Compared, KeepsInv, EditInv, RemoveLocal, WritePart, Download
<1>4. Download("download", "stat") \/ LocalAside
  BY <1>1, <1>2, <1>3, PullEffects
<1>5. CASE Download("download", "stat")
  BY <1>1, <1>5 DEF Download, EditInv
<1>6. CASE LocalAside
  BY <1>6 DEF LocalAside
<1>7. QED
  BY <1>4, <1>5, <1>6

\* Whatever the poll replaces was in sync, or is moved aside in the same step,
\* for any number of workers and of steps and under any policy, with crashes
\* and failing operations: no edit of the local user is overwritten by a poll.
THEOREM EditsKept == Spec => PullKeepsEdits
<1>1. IndInv /\ [Next]_vars =>
         [poll' # poll /\ local' # local /\ File(local) /\ Compared
             => \/ journal.l = local.t
                \/ local.c \in kept' \union {remote.c}]_vars
  BY EditKept
<1>2. QED
  BY <1>1, Inductive, PTL DEF Spec, PullKeepsEdits
=============================================================================
