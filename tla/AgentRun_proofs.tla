--------------------------- MODULE AgentRun_proofs ---------------------------
(***************************************************************************)
(* Proofs about AgentRun for any number of items, workers and handlers,    *)
(* any channel capacities and any retry limit.                             *)
(***************************************************************************)
EXTENDS AgentRun, FiniteSetTheorems, FunctionTheorems, TLAPS

\* A push that goes on has attempts left: what TypeOK needs to be inductive.
Retrying == \A w \in Workers : worker[w].pc = "push" => worker[w].tries < MaxAttempts

TypeInv == TypeOK /\ Retrying

\* A send on a channel of S-items leaves a sequence over S.
LEMMA AppendType ==
  ASSUME NEW S, NEW s \in Seq(S), NEW e \in S
  PROVE  Append(s, e) \in Seq(S)
  OBVIOUS

\* The state newAgent leaves satisfies the type invariant.
LEMMA InitType == Init => TypeInv
<1> SUFFICES ASSUME Init PROVE TypeInv
  OBVIOUS
<1> USE AgentAssumption DEF Init, Channels
<1>1. /\ inbox \in Seq(Items)
      /\ pump \in [pc : {"recv", "send", "done"}, item : Items \union {NoItem}]
      /\ pump.pc = "send" <=> pump.item # NoItem
      /\ chan \in [Channels -> Seq(Items)]
  OBVIOUS
<1>2. /\ fan \in [Channels -> [pc : {"recv", "send", "done"}, item : Items \union {NoItem}]]
      /\ \A c \in Channels : fan[c].pc = "send" <=> fan[c].item # NoItem
  OBVIOUS
<1>3. /\ work \in Seq(Items)
      /\ worker \in [Workers -> [pc : {"recv", "push", "pushed", "failed", "done"},
                                 item : Items \union {NoItem}, tries : 0..MaxAttempts]]
  OBVIOUS
<1>4. /\ \A w \in Workers :
            worker[w].pc \in {"push", "pushed", "failed"} <=> worker[w].item # NoItem
      /\ Retrying
  BY DEF Retrying
<1>5. fate \in [Items -> Places] /\ repairPc \in [Handlers -> {"idle", "lock", "readers", "pass"}]
  BY DEF Places
<1>6. /\ wHolder \in Procs \union {NoProc} /\ wGranted \in BOOLEAN
      /\ rActive \subseteq Workers \union {Puller} /\ rBlocked \subseteq Workers \union {Puller}
  BY DEF LockInit
<1> HIDE DEF Channels
<1> QED
  BY <1>1, <1>2, <1>3, <1>4, <1>5, <1>6 DEF TypeInv, TypeOK

\* The watcher, the pump and the fan-ins keep the type invariant.
LEMMA PipeType ==
  ASSUME TypeInv,
         \/ \E it \in Items : Emit(it)
         \/ PumpReceive \/ PumpSend \/ PumpDone
         \/ \E c \in Channels : FanReceive(c) \/ FanSend(c) \/ FanDone(c)
         \/ CloseWork
  PROVE  TypeInv'
<1> USE AgentAssumption DEF TypeInv, TypeOK, Retrying, Channels, Places, lockVars, loopVars, mainVars
<1>1. CASE \E it \in Items : Emit(it)
  <2>1. PICK it \in Items : Emit(it)
    BY <1>1
  <2>2. inbox' \in Seq(Items)
    <3>1. inbox' = inbox \/ inbox' = Append(inbox, it)
      BY <2>1 DEF Emit
    <3>2. Append(inbox, it) \in Seq(Items)
      BY AppendType
    <3> QED
      BY <3>1, <3>2
  <2>3. fate' \in [Items -> Places]
    BY <2>1 DEF Emit
  <2>4. UNCHANGED <<lockVars, loopVars, mainVars,
                    paused, pump, chan, fan, work, workClosed, worker>>
    BY <2>1 DEF Emit
  <2> QED
    BY <2>2, <2>3, <2>4
<1>2. CASE PumpReceive
  <2>1. inbox' \in Seq(Items) /\ Head(inbox) \in Items
    BY <1>2 DEF PumpReceive
  <2>2. fate' \in [Items -> Places]
    BY <1>2, <2>1 DEF PumpReceive
  <2>3. /\ pump' \in [pc : {"recv", "send", "done"}, item : Items \union {NoItem}]
        /\ pump'.pc = "send" <=> pump'.item # NoItem
    BY <1>2, <2>1 DEF PumpReceive
  <2> QED
    BY <1>2, <2>1, <2>2, <2>3 DEF PumpReceive
<1>3. CASE PumpSend
  BY <1>3 DEF PumpSend, ChannelOf
<1>4. CASE PumpDone
  BY <1>4 DEF PumpDone
<1>5. ASSUME NEW c \in Channels, FanReceive(c) PROVE TypeInv'
  BY <1>5 DEF FanReceive
<1>6. ASSUME NEW c \in Channels, FanSend(c) PROVE TypeInv'
  BY <1>6 DEF FanSend
<1>7. ASSUME NEW c \in Channels, FanDone(c) PROVE TypeInv'
  BY <1>7 DEF FanDone
<1>8. CASE CloseWork
  BY <1>8 DEF CloseWork
<1> QED
  BY <1>1, <1>2, <1>3, <1>4, <1>5, <1>6, <1>7, <1>8

\* So does a push worker.
LEMMA WorkerType ==
  ASSUME TypeInv, NEW w \in Workers,
         WorkerTake(w) \/ Attempt(w) \/ RecordResult(w) \/ WorkerDone(w)
  PROVE  TypeInv'
<1> USE AgentAssumption DEF TypeInv, TypeOK, Retrying, Channels, Places, lockVars, loopVars, mainVars
<1>1. CASE WorkerTake(w)
  <2>1. work' \in Seq(Items) /\ Head(work) \in Items
    BY <1>1 DEF WorkerTake
  <2>2. fate' \in [Items -> Places]
    BY <1>1, <2>1 DEF WorkerTake
  <2>3. worker' = worker \/ worker' = [worker EXCEPT ![w] = Gone]
        \/ worker' = [worker EXCEPT ![w] = [pc |-> "push", item |-> Head(work), tries |-> 0]]
    BY <1>1 DEF WorkerTake
  <2>4. rActive' \subseteq Workers \union {Puller} /\ rBlocked' \subseteq Workers \union {Puller}
        /\ wHolder' = wHolder /\ wGranted' = wGranted
    BY <1>1 DEF WorkerTake, RLock
  <2>5. UNCHANGED <<loopVars, mainVars, paused, inbox, pump, chan, fan, workClosed>>
    BY <1>1 DEF WorkerTake
  <2>6. /\ worker' \in [Workers -> [pc : {"recv", "push", "pushed", "failed", "done"},
                                    item : Items \union {NoItem}, tries : 0..MaxAttempts]]
        /\ Retrying'
        /\ \A v \in Workers :
              worker'[v].pc \in {"push", "pushed", "failed"} <=> worker'[v].item # NoItem
    <3>1. CASE worker' = worker
      BY <3>1
    <3>2. CASE worker' = [worker EXCEPT ![w] = Gone]
      BY <3>2 DEF Gone
    <3>3. CASE worker' = [worker EXCEPT ![w] = [pc |-> "push", item |-> Head(work), tries |-> 0]]
      BY <2>1, <3>3
    <3> QED
      BY <2>3, <3>1, <3>2, <3>3
  <2> QED
    BY <2>1, <2>2, <2>4, <2>5, <2>6
<1>2. CASE Attempt(w)
  <2>1. PICK pc \in {"push", "pushed", "failed"}, n \in 0..MaxAttempts :
           WorkerGoesTo(w, pc, n) /\ (pc = "push" => n < MaxAttempts)
    BY <1>2 DEF Attempt
  <2>2. UNCHANGED <<lockVars, loopVars, mainVars,
                    paused, inbox, pump, chan, fan, work, workClosed, fate>>
    BY <1>2 DEF Attempt
  <2>3. worker[w].pc = "push"
    BY <1>2 DEF Attempt
  <2> QED
    BY <2>1, <2>2, <2>3 DEF WorkerGoesTo
<1>3. CASE RecordResult(w)
  BY <1>3 DEF RecordResult, RUnlock, Idle
<1>4. CASE WorkerDone(w)
  BY <1>4 DEF WorkerDone, Gone
<1> QED
  BY <1>1, <1>2, <1>3, <1>4

\* So do the pull loop, bisync, ForceRun and the repair handlers.
LEMMA LoopType ==
  ASSUME TypeInv,
         \/ PollStart \/ PollEnd \/ PullDone
         \/ BisyncTick \/ BisyncForced \/ BisyncAnnounce \/ BisyncLocked
         \/ BisyncPass \/ BisyncReturn \/ BisyncDone
         \/ ForceCheck \/ ForceSend
         \/ \E h \in Handlers :
               RepairRequest(h) \/ RepairAnnounce(h) \/ RepairLocked(h) \/ RepairPass(h)
  PROVE  TypeInv'
<1> USE AgentAssumption
    DEF TypeInv, TypeOK, Retrying, lockVars, pipeVars, mainVars
<1>0. Bisync \in Procs /\ Puller \in Procs /\ Handlers \subseteq Procs
  BY DEF Procs
<1>1. CASE PollStart
  <2>1. /\ rActive' \subseteq Workers \union {Puller} /\ rBlocked' \subseteq Workers \union {Puller}
        /\ wHolder' = wHolder /\ wGranted' = wGranted
    BY <1>1 DEF PollStart, RLock
  <2> QED
    BY <1>1, <2>1 DEF PollStart
<1>2. CASE PollEnd
  BY <1>2 DEF PollEnd, RUnlock
<1>3. CASE PullDone
  BY <1>3 DEF PullDone
<1>4. CASE BisyncTick \/ BisyncForced
  <2>1. running' \in BOOLEAN
    BY <1>4, Zenon DEF BisyncTick, BisyncForced
  <2>2. /\ bisyncPc' = "lock" /\ forceCh' \in {0, 1}
        /\ UNCHANGED <<lockVars, pipeVars, mainVars, pullPc, forcePc, repairPc>>
    BY <1>4 DEF BisyncTick, BisyncForced
  <2> QED
    BY <2>1, <2>2
<1>5. CASE BisyncReturn \/ BisyncDone
  <2>1. running' \in BOOLEAN
    BY <1>5, Zenon DEF BisyncReturn, BisyncDone
  <2>2. /\ bisyncPc' \in {"select", "done"}
        /\ UNCHANGED <<lockVars, pipeVars, mainVars, pullPc, forceCh, forcePc, repairPc>>
    BY <1>5 DEF BisyncReturn, BisyncDone
  <2> QED
    BY <2>1, <2>2
<1>6. CASE BisyncAnnounce
  BY <1>6, <1>0 DEF BisyncAnnounce, LockAnnounce
<1>7. CASE BisyncLocked
  BY <1>7, <1>0 DEF BisyncLocked, LockGranted
<1>8. CASE BisyncPass
  <2>1. wGranted' \in BOOLEAN
    BY <1>8, Zenon DEF BisyncPass, Unlock
  <2> QED
    BY <1>8, <2>1 DEF BisyncPass, Unlock
<1>9. CASE ForceCheck \/ ForceSend
  BY <1>9 DEF ForceCheck, ForceSend
<1>10. ASSUME NEW h \in Handlers, RepairRequest(h) PROVE TypeInv'
  BY <1>10 DEF RepairRequest
<1>11. ASSUME NEW h \in Handlers, RepairAnnounce(h) PROVE TypeInv'
  BY <1>0, <1>11 DEF RepairAnnounce, LockAnnounce
<1>12. ASSUME NEW h \in Handlers, RepairLocked(h) PROVE TypeInv'
  BY <1>12 DEF RepairLocked, LockGranted
<1>13. ASSUME NEW h \in Handlers, RepairPass(h) PROVE TypeInv'
  <2>1. wGranted' \in BOOLEAN
    BY <1>13, Zenon DEF RepairPass, Unlock
  <2>2. /\ wHolder' = NoProc /\ rActive' = rActive \union rBlocked /\ rBlocked' = {}
        /\ repairPc' = [repairPc EXCEPT ![h] = "idle"]
        /\ UNCHANGED <<pipeVars, mainVars, pullPc, bisyncPc, running, forceCh, forcePc>>
    BY <1>13 DEF RepairPass, Unlock
  <2> QED
    BY <2>1, <2>2
<1> QED
  BY <1>1, <1>2, <1>3, <1>4, <1>5, <1>6, <1>7, <1>8, <1>9, <1>10, <1>11, <1>12, <1>13

\* So do pause, resume, the signal and the shutdown sequence.
LEMMA MainType ==
  ASSUME TypeInv,
         \/ Pause \/ Resume \/ Signal
         \/ ShutdownHTTP \/ HTTPDrained \/ HTTPTimeout \/ ShutdownStore \/ Exit
         \/ UNCHANGED vars
  PROVE  TypeInv'
<1> USE DEF TypeInv, TypeOK, Retrying, lockVars, pipeVars, loopVars, mainVars
<1>1. CASE Pause \/ Resume \/ Signal
  <2>1. paused' \in BOOLEAN /\ ctxDone' \in BOOLEAN
    BY <1>1, Zenon DEF Pause, Resume, Signal
  <2>2. UNCHANGED <<lockVars, loopVars, runPc, journalOpen,
                    inbox, pump, chan, fan, work, workClosed, worker, fate>>
    BY <1>1 DEF Pause, Resume, Signal
  <2> QED
    BY <2>1, <2>2
<1>2. CASE ShutdownHTTP \/ HTTPDrained \/ HTTPTimeout
  BY <1>2 DEF ShutdownHTTP, HTTPDrained, HTTPTimeout
<1>3. CASE ShutdownStore \/ Exit
  <2>1. journalOpen' \in BOOLEAN
    BY <1>3, Zenon DEF ShutdownStore, Exit
  <2>2. runPc' \in {"closed", "stopped"} /\ UNCHANGED <<lockVars, pipeVars, loopVars, ctxDone>>
    BY <1>3 DEF ShutdownStore, Exit
  <2> QED
    BY <2>1, <2>2
<1>4. CASE UNCHANGED vars
  BY <1>4 DEF vars
<1> QED
  BY <1>1, <1>2, <1>3, <1>4

\* The type invariant is inductive.
LEMMA NextType == TypeInv /\ [Next]_vars => TypeInv'
  BY PipeType, WorkerType, LoopType, MainType DEF Next, Terminated

(***************************************************************************)
(* Type correctness of the agent: in particular the work queue, the pump   *)
(* and the workers only ever hold watcher events, a worker makes at most   *)
(* MaxAttempts attempts, and forceCh never holds a second token.           *)
(***************************************************************************)
THEOREM TypeCorrect == Spec => []TypeOK
<1>1. Init => TypeInv
  BY InitType
<1>2. TypeInv /\ [Next]_vars => TypeInv'
  BY NextType
<1>3. TypeInv => TypeOK
  BY DEF TypeInv
<1> QED
  BY <1>1, <1>2, <1>3, PTL DEF Spec

----------------------------------------------------------------------------
(* The lock and the program counters.                                      *)

\* Readers of the lock are the pushing workers and the poll, each either
\* inside or queued behind a writer; a push that is over was inside.
ReadersInv ==
    /\ rActive \intersect rBlocked = {}
    /\ rActive \union rBlocked = Pushing \union Polling
    /\ \A w \in Workers : worker[w].pc \in {"pushed", "failed"} => w \in rActive

\* The writer is who passed the first half of Lock; only one that passed the
\* second half uses the data, and then no reader is inside.
WriterInv ==
    /\ wHolder \in Handlers \union {Bisync, NoProc}
    /\ wHolder = NoProc => ~wGranted /\ rBlocked = {}
    /\ wGranted => rActive = {}
    /\ bisyncPc \in {"readers", "pass"} <=> wHolder = Bisync
    /\ bisyncPc = "pass" <=> wHolder = Bisync /\ wGranted
    /\ \A h \in Handlers : repairPc[h] \in {"readers", "pass"} <=> wHolder = h
    /\ \A h \in Handlers : repairPc[h] = "pass" <=> wHolder = h /\ wGranted

LockInv == ReadersInv /\ WriterInv

\* Nobody holds or waits for bisyncMu at the start.
LEMMA InitLock == Init => LockInv
  BY AgentAssumption
  DEF Init, LockInit, LockInv, ReadersInv, WriterInv, Pushing, Polling, Procs

\* handleEvent takes RLock before the push and releases it after recordResult.
LEMMA WorkerLock ==
  ASSUME TypeInv, LockInv, NEW w \in Workers,
         WorkerTake(w) \/ Attempt(w) \/ RecordResult(w) \/ WorkerDone(w)
  PROVE  LockInv'
<1> USE AgentAssumption DEF TypeInv, TypeOK, LockInv, lockVars, loopVars
<1>0. UNCHANGED <<wHolder, wGranted, pullPc, bisyncPc, repairPc>> /\ w # Puller
  BY DEF WorkerTake, Attempt, RecordResult, WorkerDone, RLock, RUnlock
<1>1. CASE WorkerTake(w)
  <2>0. worker[w].pc = "recv" /\ w \notin rActive \union rBlocked
    BY <1>1, <1>0 DEF WorkerTake, ReadersInv, Pushing, Polling
  <2>1. CASE UNCHANGED lockVars /\ worker' = worker
    BY <2>1, <1>0 DEF ReadersInv, WriterInv, Pushing, Polling
  <2>2. CASE UNCHANGED lockVars /\ worker' = [worker EXCEPT ![w] = Gone]
    <3>1. Pushing' = Pushing /\ Polling' = Polling
      BY <2>0, <2>2, <1>0 DEF Pushing, Polling, Gone
    <3>2. \A v \in Workers : worker'[v].pc \in {"pushed", "failed"} => worker[v].pc \in {"pushed", "failed"}
      BY <2>0, <2>2 DEF Gone
    <3> QED
      BY <3>1, <3>2, <2>2, <1>0 DEF ReadersInv, WriterInv
  <2>3. CASE /\ RLock(w)
             /\ worker' = [worker EXCEPT ![w] = [pc |-> "push", item |-> Head(work), tries |-> 0]]
    <3>1. Pushing' = Pushing \union {w} /\ Polling' = Polling
      BY <2>0, <2>3, <1>0 DEF Pushing, Polling
    <3>2. \A v \in Workers : worker'[v].pc \in {"pushed", "failed"} => worker[v].pc \in {"pushed", "failed"}
      BY <2>0, <2>3
    <3>3. /\ rActive' \union rBlocked' = rActive \union rBlocked \union {w}
          /\ rActive' \intersect rBlocked' = {}
          /\ rActive \subseteq rActive'
      BY <2>0, <2>3 DEF RLock, ReadersInv
    <3>4. ReadersInv'
      BY <3>1, <3>2, <3>3 DEF ReadersInv
    <3>5. WriterInv'
      BY <2>3, <1>0 DEF WriterInv, RLock
    <3> QED
      BY <3>4, <3>5
  <2> QED
    BY <1>1, <2>1, <2>2, <2>3 DEF WorkerTake
<1>2. CASE Attempt(w)
  <2>0. PICK pc \in {"push", "pushed", "failed"}, n \in 0..MaxAttempts : WorkerGoesTo(w, pc, n)
    BY <1>2 DEF Attempt, Retrying
  <2>1. Pushing' = Pushing /\ Polling' = Polling
    BY <1>2, <2>0, <1>0 DEF Attempt, WorkerGoesTo, Pushing, Polling
  <2>2. \A v \in Workers : worker'[v].pc \in {"pushed", "failed"} => v = w \/ worker[v].pc \in {"pushed", "failed"}
    BY <2>0 DEF WorkerGoesTo
  <2>3. UNCHANGED lockVars /\ w \in rActive
    BY <1>2 DEF Attempt
  <2> QED
    BY <2>1, <2>2, <2>3, <1>0 DEF ReadersInv, WriterInv
<1>3. CASE RecordResult(w)
  <2>0. w \in rActive /\ w \in Pushing
    BY <1>3 DEF RecordResult, ReadersInv, Pushing
  <2>1. Pushing' = Pushing \ {w} /\ Polling' = Polling
    BY <1>3, <1>0 DEF RecordResult, Idle, Pushing, Polling
  <2>2. \A v \in Workers : worker'[v].pc \in {"pushed", "failed"} => v # w /\ worker[v].pc \in {"pushed", "failed"}
    BY <1>3 DEF RecordResult, Idle
  <2>3. RUnlock(w) /\ w \notin Polling
    BY <1>3, <1>0 DEF RecordResult, Polling
  <2>4. ReadersInv'
    BY <2>0, <2>1, <2>2, <2>3 DEF ReadersInv, RUnlock
  <2>5. WriterInv'
    BY <2>3, <1>0 DEF WriterInv, RUnlock
  <2> QED
    BY <2>4, <2>5
<1>4. CASE WorkerDone(w)
  <2>1. Pushing' = Pushing /\ Polling' = Polling
    BY <1>4, <1>0 DEF WorkerDone, Gone, Pushing, Polling
  <2>2. \A v \in Workers : worker'[v].pc \in {"pushed", "failed"} => worker[v].pc \in {"pushed", "failed"}
    BY <1>4 DEF WorkerDone, Gone
  <2>3. UNCHANGED lockVars
    BY <1>4 DEF WorkerDone
  <2> QED
    BY <2>1, <2>2, <2>3, <1>0 DEF ReadersInv, WriterInv
<1> QED
  BY <1>1, <1>2, <1>3, <1>4

\* pollOnceGuarded brackets the poll with RLock and RUnlock.
LEMMA PollLock ==
  ASSUME TypeInv, LockInv, PollStart \/ PollEnd \/ PullDone
  PROVE  LockInv'
<1> USE AgentAssumption DEF TypeInv, TypeOK, LockInv, lockVars, pipeVars
<1>0. UNCHANGED <<wHolder, wGranted, worker, bisyncPc, repairPc>> /\ Pushing' = Pushing
  BY DEF PollStart, PollEnd, PullDone, RLock, RUnlock, Pushing
<1>1. CASE PollStart
  <2>1. Polling' = {Puller} /\ Polling = {}
    BY <1>1 DEF PollStart, Polling
  <2>2. Puller \notin rActive \union rBlocked
    BY <2>1 DEF ReadersInv, Pushing
  <2>3. /\ rActive' \union rBlocked' = rActive \union rBlocked \union {Puller}
        /\ rActive' \intersect rBlocked' = {}
        /\ rActive \subseteq rActive'
    BY <1>1, <2>2 DEF PollStart, RLock, ReadersInv
  <2>4. ReadersInv'
    BY <1>0, <2>1, <2>3 DEF ReadersInv
  <2>5. WriterInv'
    BY <1>0, <1>1 DEF WriterInv, PollStart, RLock
  <2> QED
    BY <2>4, <2>5
<1>2. CASE PollEnd
  <2>1. Polling' = {} /\ Polling = {Puller} /\ Puller \notin Pushing
    BY <1>2 DEF PollEnd, Polling, Pushing
  <2>2. Puller \in rActive /\ RUnlock(Puller)
    BY <1>2 DEF PollEnd
  <2>3. ReadersInv'
    BY <1>0, <2>1, <2>2 DEF ReadersInv, RUnlock
  <2>4. WriterInv'
    BY <1>0, <2>2 DEF WriterInv, RUnlock
  <2> QED
    BY <2>3, <2>4
<1>3. CASE PullDone
  <2>1. Polling' = Polling /\ UNCHANGED lockVars
    BY <1>3 DEF PullDone, Polling
  <2> QED
    BY <1>0, <2>1 DEF ReadersInv, WriterInv
<1> QED
  BY <1>1, <1>2, <1>3

\* The halves of Lock and Unlock leave the readers' program counters alone.
LEMMA ReadersKept ==
  ASSUME TypeInv, LockInv, UNCHANGED <<worker, pullPc>>,
         \/ UNCHANGED <<rActive, rBlocked>>
         \/ rActive' = rActive \union rBlocked /\ rBlocked' = {}
  PROVE  ReadersInv'
<1>1. Pushing' = Pushing /\ Polling' = Polling
  BY DEF Pushing, Polling
<1> QED
  BY <1>1 DEF LockInv, ReadersInv

\* execute brackets the pass with Lock and Unlock.
LEMMA BisyncLock ==
  ASSUME TypeInv, LockInv,
         \/ BisyncTick \/ BisyncForced \/ BisyncAnnounce \/ BisyncLocked
         \/ BisyncPass \/ BisyncReturn \/ BisyncDone
  PROVE  LockInv'
<1> USE AgentAssumption DEF TypeInv, TypeOK, LockInv, WriterInv, lockVars, pipeVars
<1>0. UNCHANGED <<worker, pullPc, repairPc>> /\ Bisync # NoProc /\ Bisync \notin Handlers
  BY DEF BisyncTick, BisyncForced, BisyncAnnounce, BisyncLocked,
         BisyncPass, BisyncReturn, BisyncDone, Procs
<1>1. CASE BisyncTick \/ BisyncForced \/ BisyncReturn \/ BisyncDone
  <2>1. UNCHANGED lockVars
    BY <1>1 DEF BisyncTick, BisyncForced, BisyncReturn, BisyncDone
  <2>2. bisyncPc \notin {"readers", "pass"} /\ bisyncPc' \notin {"readers", "pass"}
    BY <1>1 DEF BisyncTick, BisyncForced, BisyncReturn, BisyncDone
  <2>3. ReadersInv'
    BY <1>0, <2>1, ReadersKept
  <2> QED
    BY <1>0, <2>1, <2>2, <2>3
<1>2. CASE BisyncAnnounce
  <2>1. ReadersInv'
    BY <1>0, <1>2, ReadersKept DEF BisyncAnnounce, LockAnnounce
  <2>2. wHolder = NoProc /\ wHolder' = Bisync /\ bisyncPc' = "readers"
    BY <1>2 DEF BisyncAnnounce, LockAnnounce
  <2>3. ~wGranted'
    <3>1. ~wGranted
      BY <2>2
    <3> QED
      BY <3>1, <1>2, Zenon DEF BisyncAnnounce, LockAnnounce
  <2>4. WriterInv'
    <3>1. \A g \in Handlers : repairPc'[g] \notin {"readers", "pass"}
      BY <1>0, <2>2 DEF Procs
    <3> QED
      BY <1>0, <2>2, <2>3, <3>1
  <2> QED
    BY <2>1, <2>4
<1>3. CASE BisyncLocked
  <2>1. ReadersInv'
    BY <1>0, <1>3, ReadersKept DEF BisyncLocked, LockGranted
  <2>2. wGranted'
    BY <1>3, Zenon DEF BisyncLocked, LockGranted
  <2>3. /\ wHolder = Bisync /\ wHolder' = Bisync /\ bisyncPc' = "pass"
        /\ rActive' = {} /\ rBlocked' = rBlocked
    BY <1>3 DEF BisyncLocked, LockGranted
  <2>4. WriterInv'
    BY <1>0, <2>2, <2>3
  <2> QED
    BY <2>1, <2>4
<1>4. CASE BisyncPass
  <2>1. ReadersInv'
    BY <1>0, <1>4, ReadersKept DEF BisyncPass, Unlock
  <2>2. ~wGranted'
    BY <1>4, Zenon DEF BisyncPass, Unlock
  <2>3. /\ wHolder = Bisync /\ wHolder' = NoProc /\ bisyncPc' = "unlocked"
        /\ rBlocked' = {}
    BY <1>4 DEF BisyncPass, Unlock
  <2>4. WriterInv'
    BY <1>0, <2>2, <2>3 DEF Procs
  <2> QED
    BY <2>1, <2>4
<1> QED
  BY <1>1, <1>2, <1>3, <1>4

\* So does RunChainRepair, in any number of handlers.
LEMMA RepairLock ==
  ASSUME TypeInv, LockInv, NEW h \in Handlers,
         RepairRequest(h) \/ RepairAnnounce(h) \/ RepairLocked(h) \/ RepairPass(h)
  PROVE  LockInv'
<1> USE AgentAssumption DEF TypeInv, TypeOK, LockInv, WriterInv, lockVars, pipeVars
<1>0. UNCHANGED <<worker, pullPc, bisyncPc>> /\ h # NoProc /\ h # Bisync
  BY DEF RepairRequest, RepairAnnounce, RepairLocked, RepairPass, Procs
<1>1. CASE RepairRequest(h)
  <2>1. ReadersInv'
    BY <1>0, <1>1, ReadersKept DEF RepairRequest
  <2> QED
    BY <1>0, <1>1, <2>1 DEF RepairRequest
<1>2. CASE RepairAnnounce(h)
  <2>1. ReadersInv'
    BY <1>0, <1>2, ReadersKept DEF RepairAnnounce, LockAnnounce
  <2>2. /\ wHolder = NoProc /\ wHolder' = h /\ repairPc' = [repairPc EXCEPT ![h] = "readers"]
    BY <1>2 DEF RepairAnnounce, LockAnnounce
  <2>3. ~wGranted'
    <3>1. ~wGranted
      BY <2>2
    <3> QED
      BY <3>1, <1>2, Zenon DEF RepairAnnounce, LockAnnounce
  <2>4. WriterInv'
    <3>1. bisyncPc' \notin {"readers", "pass"}
      BY <1>0, <2>2 DEF Procs
    <3>2. \A g \in Handlers : repairPc[g] \notin {"readers", "pass"}
      BY <1>0, <2>2 DEF Procs
    <3>3. \A g \in Handlers : repairPc'[g] = IF g = h THEN "readers" ELSE repairPc[g]
      BY <2>2
    <3>4. wHolder' # NoProc /\ wHolder' # Bisync /\ wHolder' \in Handlers
      BY <1>0, <2>2
    <3> QED
      BY <2>2, <2>3, <3>1, <3>2, <3>3, <3>4
  <2> QED
    BY <2>1, <2>4
<1>3. CASE RepairLocked(h)
  <2>1. ReadersInv'
    BY <1>0, <1>3, ReadersKept DEF RepairLocked, LockGranted
  <2>2. wGranted'
    BY <1>3, Zenon DEF RepairLocked, LockGranted
  <2>3. /\ wHolder = h /\ wHolder' = h /\ repairPc' = [repairPc EXCEPT ![h] = "pass"]
        /\ rActive' = {} /\ rBlocked' = rBlocked
    BY <1>3 DEF RepairLocked, LockGranted
  <2>4. WriterInv'
    BY <1>0, <2>2, <2>3
  <2> QED
    BY <2>1, <2>4
<1>4. CASE RepairPass(h)
  <2>1. ReadersInv'
    BY <1>0, <1>4, ReadersKept DEF RepairPass, Unlock
  <2>2. ~wGranted'
    BY <1>4, Zenon DEF RepairPass, Unlock
  <2>3. /\ wHolder = h /\ wHolder' = NoProc /\ repairPc' = [repairPc EXCEPT ![h] = "idle"]
        /\ rBlocked' = {}
    BY <1>4 DEF RepairPass, Unlock
  <2>4. WriterInv'
    BY <1>0, <2>2, <2>3 DEF Procs
  <2> QED
    BY <2>1, <2>4
<1> QED
  BY <1>1, <1>2, <1>3, <1>4

\* Every other step leaves the lock and its users' program counters alone.
LEMMA RestKeepsLock ==
  ASSUME \/ \E it \in Items : Emit(it)
         \/ PumpReceive \/ PumpSend \/ PumpDone
         \/ \E c \in Channels : FanReceive(c) \/ FanSend(c) \/ FanDone(c)
         \/ CloseWork
         \/ ForceCheck \/ ForceSend
         \/ Pause \/ Resume \/ Signal
         \/ ShutdownHTTP \/ HTTPDrained \/ HTTPTimeout \/ ShutdownStore \/ Exit
         \/ UNCHANGED vars
  PROVE  UNCHANGED <<lockVars, worker, pullPc, bisyncPc, repairPc>>
  BY DEF Emit, PumpReceive, PumpSend, PumpDone, FanReceive, FanSend, FanDone, CloseWork,
         ForceCheck, ForceSend, Pause, Resume, Signal,
         ShutdownHTTP, HTTPDrained, HTTPTimeout, ShutdownStore, Exit,
         vars, lockVars, pipeVars, loopVars, mainVars

\* The lock invariant is inductive, given the types.
LEMMA NextLock == TypeInv /\ LockInv /\ [Next]_vars => LockInv'
<1>1. ASSUME LockInv, UNCHANGED <<lockVars, worker, pullPc, bisyncPc, repairPc>>
      PROVE  LockInv'
  BY <1>1 DEF LockInv, ReadersInv, WriterInv, Pushing, Polling, lockVars
<1> QED
  BY <1>1, WorkerLock, PollLock, BisyncLock, RepairLock, RestKeepsLock DEF Next, Terminated

----------------------------------------------------------------------------
(* Shutdown: the journal is closed after its users have returned.          *)

\* Run closes the store after wg.Wait, and a goroutine that has returned
\* stays so.
DrainInv == ~journalOpen => Drained

\* Once the store is closed the tracked goroutines stay returned.
LEMMA NextDrain == TypeInv /\ DrainInv /\ [Next]_vars => DrainInv'
<1> SUFFICES ASSUME TypeInv, DrainInv, [Next]_vars PROVE DrainInv'
  OBVIOUS
<1>1. CASE ShutdownStore
  <2>1. Drained /\ UNCHANGED <<pump, workClosed, worker, pullPc, bisyncPc>>
    BY <1>1 DEF ShutdownStore, pipeVars, loopVars
  <2> QED
    BY <2>1 DEF DrainInv, Drained
<1>2. ASSUME ~ShutdownStore PROVE journalOpen' = journalOpen
  BY <1>2 DEF Next, Terminated, vars, mainVars,
       Emit, PumpReceive, PumpSend, PumpDone, FanReceive, FanSend, FanDone, CloseWork,
       WorkerTake, Attempt, RecordResult, WorkerDone, PollStart, PollEnd, PullDone,
       BisyncTick, BisyncForced, BisyncAnnounce, BisyncLocked, BisyncPass, BisyncReturn,
       BisyncDone, ForceCheck, ForceSend, RepairRequest, RepairAnnounce, RepairLocked,
       RepairPass, Pause, Resume, Signal, ShutdownHTTP, HTTPDrained, HTTPTimeout, Exit
<1>3. ASSUME Drained PROVE UNCHANGED <<pump, workClosed, worker, pullPc, bisyncPc>> \/ ShutdownStore
  <2> USE DEF Drained, pipeVars, loopVars
  <2>1. ASSUME NEW it \in Items, Emit(it) PROVE UNCHANGED <<pump, workClosed, worker, pullPc, bisyncPc>>
    BY <2>1 DEF Emit
  <2>2. ~PumpReceive /\ ~PumpSend /\ ~PumpDone /\ ~CloseWork
    BY <1>3 DEF PumpReceive, PumpSend, PumpDone, CloseWork
  <2>3. ASSUME NEW c \in Channels, FanReceive(c) \/ FanSend(c) \/ FanDone(c)
        PROVE  UNCHANGED <<pump, workClosed, worker, pullPc, bisyncPc>>
    BY <2>3 DEF FanReceive, FanSend, FanDone
  <2>4. ASSUME NEW w \in Workers
        PROVE  ~(WorkerTake(w) \/ Attempt(w) \/ RecordResult(w) \/ WorkerDone(w))
    BY <1>3 DEF WorkerTake, Attempt, RecordResult, WorkerDone
  <2>5. ~(\/ PollStart \/ PollEnd \/ PullDone
          \/ BisyncTick \/ BisyncForced \/ BisyncAnnounce \/ BisyncLocked
          \/ BisyncPass \/ BisyncReturn \/ BisyncDone)
    BY <1>3 DEF PollStart, PollEnd, PullDone, BisyncTick, BisyncForced, BisyncAnnounce,
                BisyncLocked, BisyncPass, BisyncReturn, BisyncDone
  <2>6. ASSUME NEW h \in Handlers,
               RepairRequest(h) \/ RepairAnnounce(h) \/ RepairLocked(h) \/ RepairPass(h)
        PROVE  UNCHANGED <<pump, workClosed, worker, pullPc, bisyncPc>>
    BY <2>6 DEF RepairRequest, RepairAnnounce, RepairLocked, RepairPass
  <2>7. ASSUME \/ ForceCheck \/ ForceSend \/ Pause \/ Resume \/ Signal
               \/ ShutdownHTTP \/ HTTPDrained \/ HTTPTimeout \/ Exit \/ UNCHANGED vars
        PROVE  UNCHANGED <<pump, workClosed, worker, pullPc, bisyncPc>>
    BY <2>7 DEF ForceCheck, ForceSend, Pause, Resume, Signal,
                ShutdownHTTP, HTTPDrained, HTTPTimeout, Exit, vars
  <2> QED
    BY <2>1, <2>2, <2>3, <2>4, <2>5, <2>6, <2>7 DEF Next, Terminated
<1>4. CASE ~ShutdownStore
  <2>1. CASE journalOpen
    BY <1>2, <1>4, <2>1 DEF DrainInv
  <2>2. CASE ~journalOpen
    <3>1. Drained
      BY <2>2 DEF DrainInv
    <3>2. UNCHANGED <<pump, workClosed, worker, pullPc, bisyncPc>>
      BY <3>1, <1>3, <1>4
    <3> QED
      BY <3>1, <3>2 DEF DrainInv, Drained
  <2> QED
    BY <2>1, <2>2
<1> QED
  BY <1>1, <1>4

(***************************************************************************)
(* Agent.Run closes the journal and the audit log only after every push    *)
(* worker, the pull loop and bisync have returned, however many workers    *)
(* there are and whatever was queued or in flight when the signal came.    *)
(***************************************************************************)
THEOREM StoreClosedAfterDrain == Spec => []ClosedAfterDrain
<1>1. Init => TypeInv /\ DrainInv
  BY InitType DEF Init, DrainInv
<1>2. TypeInv /\ DrainInv /\ [Next]_vars => TypeInv' /\ DrainInv'
  BY NextType, NextDrain
<1>3. DrainInv => ClosedAfterDrain
  BY DEF DrainInv, Drained, ClosedAfterDrain, TrackedUsers, Pushing
<1> QED
  BY <1>1, <1>2, <1>3, PTL DEF Spec

----------------------------------------------------------------------------
(* The gate: who is past the lock, by the lock and by the program counters.*)

\* The refinement mapping, in terms of the lock.
LEMMA Mapped ==
  TypeInv /\ LockInv => SharedUsers = rActive /\ Owner = IF wGranted THEN wHolder ELSE NoProc
<1> SUFFICES ASSUME TypeInv, LockInv
             PROVE  SharedUsers = rActive /\ Owner = IF wGranted THEN wHolder ELSE NoProc
  OBVIOUS
<1>1. SharedUsers = rActive
  BY DEF LockInv, ReadersInv, SharedUsers
<1>2. CASE wGranted
  <2>1. ExclusiveUsers = {wHolder}
    <3>1. wHolder # NoProc
      BY <1>2 DEF LockInv, WriterInv
    <3> QED
      BY <1>2, <3>1, AgentAssumption DEF LockInv, WriterInv, ExclusiveUsers, Repairing, Procs
  <2>2. Owner = wHolder
    BY <2>1 DEF Owner
  <2> QED
    BY <1>1, <1>2, <2>2
<1>3. CASE ~wGranted
  <2>1. ExclusiveUsers = {}
    BY <1>3 DEF LockInv, WriterInv, ExclusiveUsers, Repairing
  <2> QED
    BY <1>1, <1>3, <2>1 DEF Owner
<1> QED
  BY <1>2, <1>3

\* What a step does to the lock.
LockStep ==
    \/ UNCHANGED lockVars
    \/ \E p \in Workers \union {Puller} : RLock(p) \/ RUnlock(p)
    \/ \E p \in Handlers \union {Bisync} :
          LockAnnounce(p) \/ LockGranted(p) \/ (wGranted /\ Unlock(p))

\* Every step of the agent is one operation on the lock, or none.
LEMMA NextLockStep == TypeInv /\ LockInv /\ [Next]_vars => LockStep
<1> SUFFICES ASSUME TypeInv, LockInv, [Next]_vars PROVE LockStep
  OBVIOUS
<1>1. ASSUME NEW w \in Workers,
             WorkerTake(w) \/ Attempt(w) \/ RecordResult(w) \/ WorkerDone(w)
      PROVE  LockStep
  <2>1. UNCHANGED lockVars \/ RLock(w) \/ RUnlock(w)
    BY <1>1 DEF WorkerTake, Attempt, RecordResult, WorkerDone
  <2> QED
    BY <2>1 DEF LockStep
<1>2. CASE PollStart \/ PollEnd \/ PullDone
  <2>1. UNCHANGED lockVars \/ RLock(Puller) \/ RUnlock(Puller)
    BY <1>2 DEF PollStart, PollEnd, PullDone
  <2> QED
    BY <2>1 DEF LockStep
<1>3. CASE \/ BisyncTick \/ BisyncForced \/ BisyncAnnounce \/ BisyncLocked
           \/ BisyncPass \/ BisyncReturn \/ BisyncDone
  <2>1. \/ UNCHANGED lockVars \/ LockAnnounce(Bisync) \/ LockGranted(Bisync)
        \/ bisyncPc = "pass" /\ Unlock(Bisync)
    BY <1>3 DEF BisyncTick, BisyncForced, BisyncAnnounce, BisyncLocked,
                BisyncPass, BisyncReturn, BisyncDone
  <2>2. bisyncPc = "pass" => wGranted
    BY DEF LockInv, WriterInv
  <2> QED
    BY <2>1, <2>2 DEF LockStep
<1>4. ASSUME NEW h \in Handlers,
             RepairRequest(h) \/ RepairAnnounce(h) \/ RepairLocked(h) \/ RepairPass(h)
      PROVE  LockStep
  <2>1. \/ UNCHANGED lockVars \/ LockAnnounce(h) \/ LockGranted(h)
        \/ repairPc[h] = "pass" /\ Unlock(h)
    BY <1>4 DEF RepairRequest, RepairAnnounce, RepairLocked, RepairPass
  <2>2. repairPc[h] = "pass" => wGranted
    BY DEF LockInv, WriterInv
  <2> QED
    BY <2>1, <2>2 DEF LockStep
<1> QED
  BY <1>1, <1>2, <1>3, <1>4, RestKeepsLock DEF Next, Terminated, LockStep

\* Every operation on the lock is a step of the gate, or invisible to it.
LEMMA GateStep ==
  ASSUME TypeInv, LockInv, TypeInv', LockInv', LockStep,
         SharedUsers = rActive, Owner = IF wGranted THEN wHolder ELSE NoProc,
         SharedUsers' = rActive', Owner' = IF wGranted' THEN wHolder' ELSE NoProc
  PROVE  Gate!Next \/ UNCHANGED <<SharedUsers, Owner>>
<1>1. CASE UNCHANGED lockVars
  BY <1>1 DEF lockVars
<1>2. ASSUME NEW p \in Workers \union {Puller}, RLock(p)
      PROVE  Gate!EnterShared(p) \/ UNCHANGED <<SharedUsers, Owner>>
  <2>1. Owner' = Owner
    BY <1>2 DEF RLock
  <2>2. CASE wHolder = NoProc
    <3>1. Owner = NoProc
      BY <2>2
    <3>2. SharedUsers' = SharedUsers \union {p}
      BY <1>2, <2>2 DEF RLock
    <3> QED
      BY <2>1, <3>1, <3>2 DEF Gate!EnterShared
  <2>3. CASE wHolder # NoProc
    BY <1>2, <2>1, <2>3 DEF RLock
  <2> QED
    BY <2>2, <2>3
<1>3. ASSUME NEW p \in Workers \union {Puller}, RUnlock(p)
      PROVE  Gate!LeaveShared(p) \/ UNCHANGED <<SharedUsers, Owner>>
  BY <1>3 DEF RUnlock, Gate!LeaveShared
<1>4. ASSUME NEW p \in Handlers \union {Bisync}, LockAnnounce(p)
      PROVE  UNCHANGED <<SharedUsers, Owner>>
  <2>1. ~wGranted
    BY <1>4 DEF LockAnnounce, LockInv, WriterInv
  <2>2. ~wGranted' /\ rActive' = rActive
    BY <1>4, <2>1, Zenon DEF LockAnnounce
  <2> QED
    BY <2>1, <2>2
<1>5. ASSUME NEW p \in Handlers \union {Bisync}, LockGranted(p)
      PROVE  Gate!EnterExclusive(p) \/ UNCHANGED <<SharedUsers, Owner>>
  <2>1. wGranted'
    BY <1>5, Zenon DEF LockGranted
  <2>2. wHolder = p /\ wHolder' = p /\ rActive = {} /\ rActive' = rActive
    BY <1>5 DEF LockGranted
  <2>3. Owner' = p /\ SharedUsers = {} /\ SharedUsers' = {}
    BY <2>1, <2>2
  <2>4. Owner = p \/ Owner = NoProc
    BY <2>2
  <2> QED
    BY <2>3, <2>4 DEF Gate!EnterExclusive
<1>6. ASSUME NEW p \in Handlers \union {Bisync}, wGranted, Unlock(p)
      PROVE  Gate!LeaveExclusive
  <2>1. ~wGranted'
    BY <1>6, Zenon DEF Unlock
  <2>2. Owner' = NoProc
    BY <2>1
  <2>3. Owner # NoProc
    BY <1>6 DEF LockInv, WriterInv
  <2>4. SharedUsers' \subseteq Workers \union {Puller}
    BY DEF TypeInv, TypeOK
  <2> QED
    BY <2>2, <2>3, <2>4 DEF Gate!LeaveExclusive
<1> QED
  BY <1>1, <1>2, <1>3, <1>4, <1>5, <1>6 DEF LockStep, Gate!Next

(***************************************************************************)
(* The agent implements SyncGate: whatever the number of workers and of    *)
(* concurrent repair requests, a bisync pass or a chain repair never runs  *)
(* beside a push, a poll or another pass.                                  *)
(***************************************************************************)
THEOREM UsesByTurns == Spec => ByTurns
<1>1. Init => TypeInv /\ LockInv
  BY InitType, InitLock
<1>2. TypeInv /\ LockInv /\ [Next]_vars => TypeInv' /\ LockInv'
  BY NextType, NextLock
<1>3. Init => Gate!Init
  <2> SUFFICES ASSUME Init PROVE SharedUsers = {} /\ Owner = NoProc
    BY DEF Gate!Init
  <2>1. SharedUsers = rActive /\ Owner = IF wGranted THEN wHolder ELSE NoProc
    BY <1>1, Mapped
  <2> QED
    BY <2>1 DEF Init, LockInit
<1>4. TypeInv /\ LockInv /\ TypeInv' /\ LockInv' /\ [Next]_vars => [Gate!Next]_(Gate!gateVars)
  <2> SUFFICES ASSUME TypeInv, LockInv, TypeInv', LockInv', [Next]_vars
               PROVE  Gate!Next \/ UNCHANGED <<SharedUsers, Owner>>
    BY DEF Gate!gateVars
  <2>1. SharedUsers = rActive /\ Owner = IF wGranted THEN wHolder ELSE NoProc
    BY Mapped
  <2>2. (SharedUsers = rActive /\ Owner = IF wGranted THEN wHolder ELSE NoProc)'
    BY Mapped, PTL
  <2>3. LockStep
    BY NextLockStep
  <2> QED
    BY <2>1, <2>2, <2>3, GateStep
<1> QED
  BY <1>1, <1>2, <1>3, <1>4, PTL DEF Spec, ByTurns, Gate!Spec

----------------------------------------------------------------------------
(* The pipeline: no event is lost or doubled on its way to a worker.       *)

\* Where in a channel an item is.
Positions(it, s) == {i \in DOMAIN s : s[i] = it}

\* Count, by the positions at which an item is.
LEMMA CountIs ==
  ASSUME NEW s, NEW it PROVE Count(it, s) = Cardinality(Positions(it, s))
  BY DEF Count, Positions

\* An item is at finitely many positions of a channel.
LEMMA CountFinite ==
  ASSUME NEW S, NEW s \in Seq(S), NEW it
  PROVE  /\ IsFiniteSet(Positions(it, s)) /\ Count(it, s) \in Nat
         /\ Count(it, s) = Cardinality(Positions(it, s))
<1>1. IsFiniteSet(1..Len(s))
  BY FS_Interval
<1>2. Positions(it, s) \in SUBSET (1..Len(s))
  BY DEF Positions
<1>3. IsFiniteSet(Positions(it, s))
  BY <1>1, <1>2, FS_Subset
<1>4. Cardinality(Positions(it, s)) \in Nat
  BY <1>3, FS_CardinalityType
<1> QED
  BY <1>3, <1>4 DEF Count, Positions

\* A send adds the item it sends, once.
LEMMA CountAppend ==
  ASSUME NEW S, NEW s \in Seq(S), NEW e \in S, NEW it
  PROVE  Count(it, Append(s, e)) = Count(it, s) + Held(it, e)
<1>0. IsFiniteSet(Positions(it, s)) /\ Len(s) + 1 \notin Positions(it, s)
  BY CountFinite DEF Positions
<1>1. CASE e = it
  <2>1. Positions(it, Append(s, e)) = Positions(it, s) \union {Len(s) + 1}
    BY <1>1 DEF Positions
  <2>2. Cardinality(Positions(it, s) \union {Len(s) + 1}) = Cardinality(Positions(it, s)) + 1
    BY <1>0, FS_AddElement
  <2> QED
    BY <1>1, <2>1, <2>2, CountIs DEF Held
<1>2. CASE e # it
  <2>1. Positions(it, Append(s, e)) = Positions(it, s)
    BY <1>2 DEF Positions
  <2>2. Cardinality(Positions(it, s)) \in Nat
    BY <1>0, FS_CardinalityType
  <2> QED
    BY <1>2, <2>1, <2>2, CountIs DEF Held
<1> QED
  BY <1>1, <1>2

\* A receive takes the item at the head, once: the other positions move by one.
LEMMA CountTail ==
  ASSUME NEW S, NEW s \in Seq(S), s # <<>>, NEW it
  PROVE  Count(it, Tail(s)) = Count(it, s) - Held(it, Head(s))
<1> DEFINE T == Positions(it, Tail(s))
           R == Positions(it, s) \ {1}
<1>0. IsFiniteSet(T) /\ IsFiniteSet(Positions(it, s))
  <2>1. Tail(s) \in Seq(S)
    OBVIOUS
  <2> QED
    BY <2>1, CountFinite
<1>1. ExistsBijection(T, R)
  <2> DEFINE f == [i \in T |-> i + 1]
  <2>1. \A i \in T : i \in 1..(Len(s) - 1) /\ s[i + 1] = it
    BY DEF Positions
  <2>2. f \in [T -> R]
    BY <2>1 DEF Positions
  <2>3. \A i, j \in T : f[i] = f[j] => i = j
    BY <2>1
  <2>4. \A k \in R : \E i \in T : f[i] = k
    <3> SUFFICES ASSUME NEW k \in R PROVE k - 1 \in T /\ f[k - 1] = k
      OBVIOUS
    <3>1. k \in 2..Len(s) /\ s[k] = it
      BY DEF Positions
    <3>2. k - 1 \in T
      BY <3>1 DEF Positions
    <3> QED
      BY <3>1, <3>2
  <2>5. f \in Bijection(T, R)
    <3> HIDE DEF f, T, R
    <3> QED
      BY <2>2, <2>3, <2>4, Fun_IsBij
  <2> QED
    BY <2>5 DEF ExistsBijection
<1>2. Cardinality(R) = Cardinality(T)
  BY <1>0, <1>1, FS_Bijection
<1>3. Cardinality(R) = IF 1 \in Positions(it, s) THEN Cardinality(Positions(it, s)) - 1
                       ELSE Cardinality(Positions(it, s))
  BY <1>0, FS_RemoveElement
<1>4. 1 \in Positions(it, s) <=> Head(s) = it
  BY DEF Positions
<1>5. Cardinality(Positions(it, s)) \in Nat
  BY <1>0, FS_CardinalityType
<1> QED
  BY <1>2, <1>3, <1>4, <1>5, CountIs DEF Held

\* The workers that hold an item; there are finitely many of them.
Holding(it) == {w \in Workers : worker[w].item = it}
ConserveInv == Conserved /\ \A it \in Items : IsFiniteSet(Holding(it))

\* The number of places of an item, as a sum of natural numbers.
LEMMA OccurrencesIs ==
  ASSUME NEW it
  PROVE  Occurrences(it) =
            Count(it, inbox) + Count(it, work) + Held(it, pump.item)
            + Count(it, chan["event"]) + Count(it, chan["rename"])
            + Held(it, fan["event"].item) + Held(it, fan["rename"].item)
            + Cardinality(Holding(it))
  BY DEF Occurrences, Holding

\* Each of the places counts a natural number.
LEMMA PartsType ==
  ASSUME TypeInv, NEW it \in Items, IsFiniteSet(Holding(it))
  PROVE  /\ Count(it, inbox) \in Nat /\ Count(it, work) \in Nat
         /\ Count(it, chan["event"]) \in Nat /\ Count(it, chan["rename"]) \in Nat
         /\ Held(it, pump.item) \in Nat
         /\ Held(it, fan["event"].item) \in Nat /\ Held(it, fan["rename"].item) \in Nat
         /\ Cardinality(Holding(it)) \in Nat
<1>1. /\ inbox \in Seq(Items) /\ work \in Seq(Items)
      /\ chan["event"] \in Seq(Items) /\ chan["rename"] \in Seq(Items)
  BY DEF TypeInv, TypeOK, Channels
<1>2. Cardinality(Holding(it)) \in Nat
  BY FS_CardinalityType
<1> QED
  BY <1>1, <1>2, CountFinite DEF Held

\* A goroutine that holds no item holds none of the items.
LEMMA HeldNone == \A it \in Items : Held(it, NoItem) = 0
  BY AgentAssumption DEF Held

\* The watcher, the pump and the fan-ins hand an item on from one place to the next.
LEMMA PipeConserves ==
  ASSUME TypeInv, ConserveInv,
         \/ \E it \in Items : Emit(it)
         \/ PumpReceive \/ PumpSend \/ PumpDone
         \/ \E c \in Channels : FanReceive(c) \/ FanSend(c) \/ FanDone(c)
  PROVE  ConserveInv'
<1> SUFFICES ASSUME NEW it \in Items
             PROVE  /\ Occurrences(it)' = IF fate'[it] = "inflight" THEN 1 ELSE 0
                    /\ IsFiniteSet(Holding(it)')
  BY DEF ConserveInv, Conserved
<1>0. /\ Occurrences(it) = IF fate[it] = "inflight" THEN 1 ELSE 0
      /\ IsFiniteSet(Holding(it)) /\ Holding(it)' = Holding(it)
  BY DEF ConserveInv, Conserved, Holding, Emit, PumpReceive, PumpSend, PumpDone,
         FanReceive, FanSend, FanDone
<1>t. /\ inbox \in Seq(Items) /\ work \in Seq(Items)
      /\ chan \in [Channels -> Seq(Items)] /\ fate \in [Items -> Places]
      /\ "event" \in Channels /\ "rename" \in Channels
  BY DEF TypeInv, TypeOK, Channels
<1> DEFINE a == Count(it, inbox)
           b == Count(it, work)
           p == Held(it, pump.item)
           x == Count(it, chan["event"])
           y == Count(it, chan["rename"])
           f == Held(it, fan["event"].item)
           g == Held(it, fan["rename"].item)
           h == Cardinality(Holding(it))
<1>n. /\ a \in Nat /\ b \in Nat /\ p \in Nat /\ x \in Nat /\ y \in Nat
      /\ f \in Nat /\ g \in Nat /\ h \in Nat
  BY <1>0, <1>t, PartsType
<1>s. Occurrences(it) = a + b + p + x + y + f + g + h
  BY OccurrencesIs
<1>s1. Occurrences(it)' = a' + b' + p' + x' + y' + f' + g' + h' /\ h' = h
  BY <1>0 DEF Occurrences, Holding
<1>1. ASSUME NEW jt \in Items, Emit(jt)
      PROVE  Occurrences(it)' = IF fate'[it] = "inflight" THEN 1 ELSE 0
  <2>0. UNCHANGED <<pump, chan, fan, work>> /\ fate[jt] = "new"
    BY <1>1 DEF Emit
  <2>1. b' = b /\ p' = p /\ x' = x /\ y' = y /\ f' = f /\ g' = g
    BY <2>0
  <2>2. CASE Len(inbox) < InboxCap
    <3>1. inbox' = Append(inbox, jt) /\ fate' = [fate EXCEPT ![jt] = "inflight"]
      BY <1>1, <2>2 DEF Emit
    <3>2. a' = a + Held(it, jt)
      BY <3>1, <1>t, CountAppend
    <3>3. fate'[it] = IF it = jt THEN "inflight" ELSE fate[it]
      BY <3>1, <1>t
    <3> HIDE DEF a, b, p, x, y, f, g, h
    <3> QED
      BY <1>0, <1>n, <1>s, <1>s1, <2>0, <2>1, <3>2, <3>3 DEF Held
  <2>3. CASE ~(Len(inbox) < InboxCap)
    <3>1. inbox' = inbox /\ fate' = [fate EXCEPT ![jt] = "dropped"]
      BY <1>1, <2>3 DEF Emit
    <3>2. a' = a
      BY <3>1
    <3>3. fate'[it] = IF it = jt THEN "dropped" ELSE fate[it]
      BY <3>1, <1>t
    <3> HIDE DEF a, b, p, x, y, f, g, h
    <3> QED
      BY <1>0, <1>n, <1>s, <1>s1, <2>0, <2>1, <3>2, <3>3
  <2> QED
    BY <2>2, <2>3
<1>2. ASSUME PumpReceive
      PROVE  Occurrences(it)' = IF fate'[it] = "inflight" THEN 1 ELSE 0
  <2> DEFINE jt == Head(inbox)
  <2>0. UNCHANGED <<chan, fan, work>> /\ inbox' = Tail(inbox) /\ inbox # <<>> /\ pump.item = NoItem
    BY <1>2 DEF PumpReceive, TypeInv, TypeOK
  <2>1. b' = b /\ x' = x /\ y' = y /\ f' = f /\ g' = g
    BY <2>0
  <2>2. a' = a - Held(it, jt) /\ a' \in Nat
    <3>1. a' = a - Held(it, jt)
      BY <2>0, <1>t, CountTail
    <3>2. Tail(inbox) \in Seq(Items)
      BY <2>0, <1>t
    <3> QED
      BY <3>1, <3>2, <2>0, CountFinite
  <2>3. p = 0
    BY <2>0, HeldNone
  <2>4. CASE paused
    <3>1. pump' = pump /\ fate' = [fate EXCEPT ![jt] = "dropped"]
      BY <1>2, <2>4 DEF PumpReceive
    <3>2. p' = p
      BY <3>1
    <3>3. fate'[it] = IF it = jt THEN "dropped" ELSE fate[it]
      BY <3>1, <1>t
    <3> HIDE DEF a, b, p, x, y, f, g, h, jt
    <3> QED
      BY <1>0, <1>n, <1>s, <1>s1, <2>1, <2>2, <2>3, <3>2, <3>3 DEF Held
  <2>5. CASE ~paused
    <3>1. pump'.item = jt /\ fate' = fate
      BY <1>2, <2>5 DEF PumpReceive
    <3>2. p' = Held(it, jt)
      BY <3>1
    <3> HIDE DEF a, b, p, x, y, f, g, h, jt
    <3> QED
      BY <1>0, <1>n, <1>s, <1>s1, <2>1, <2>2, <2>3, <3>1, <3>2 DEF Held
  <2> QED
    BY <2>4, <2>5
<1>3. ASSUME PumpSend
      PROVE  Occurrences(it)' = IF fate'[it] = "inflight" THEN 1 ELSE 0
  <2> DEFINE jt == pump.item
  <2>0. UNCHANGED <<inbox, fan, work, fate>> /\ pump'.item = NoItem /\ jt \in Items
    BY <1>3 DEF PumpSend, TypeInv, TypeOK
  <2>1. a' = a /\ b' = b /\ f' = f /\ g' = g
    BY <2>0
  <2>2. p = Held(it, jt) /\ p' = 0
    BY <2>0, HeldNone
  <2>3. PICK c \in Channels : chan' = [chan EXCEPT ![c] = Append(@, jt)]
    BY <1>3 DEF PumpSend, ChannelOf, Channels
  <2>4. Count(it, chan'[c]) = Count(it, chan[c]) + Held(it, jt)
    BY <2>0, <2>3, <1>t, CountAppend
  <2>5. (x' = x + Held(it, jt) /\ y' = y) \/ (x' = x /\ y' = y + Held(it, jt))
    <3>1. CASE c = "event"
      BY <2>3, <2>4, <3>1, <1>t, <1>n DEF Held
    <3>2. CASE c = "rename"
      BY <2>3, <2>4, <3>2, <1>t, <1>n DEF Held
    <3> QED
      BY <3>1, <3>2 DEF Channels
  <2>6. fate' = fate /\ Held(it, jt) \in Nat
    BY <2>0 DEF Held
  <2> HIDE DEF a, b, p, x, y, f, g, h, jt
  <2> QED
    BY <1>0, <1>n, <1>s, <1>s1, <2>1, <2>2, <2>5, <2>6
<1>4. ASSUME PumpDone
      PROVE  Occurrences(it)' = IF fate'[it] = "inflight" THEN 1 ELSE 0
  <2> DEFINE jt == pump.item
  <2>0. UNCHANGED <<inbox, chan, fan, work>> /\ pump'.item = NoItem
        /\ pump.item \in Items \union {NoItem}
    BY <1>4 DEF PumpDone, TypeInv, TypeOK
  <2>1. a' = a /\ b' = b /\ x' = x /\ y' = y /\ f' = f /\ g' = g /\ p' = 0
    BY <2>0, HeldNone
  <2>2. fate'[it] = IF it = jt THEN "dropped" ELSE fate[it]
    BY <1>4, <1>t, AgentAssumption DEF PumpDone, TypeInv, TypeOK
  <2> HIDE DEF a, b, x, y, f, g, h
  <2> QED
    BY <1>0, <1>n, <1>s, <1>s1, <2>1, <2>2 DEF Held
<1>5. ASSUME NEW c \in Channels, FanReceive(c)
      PROVE  Occurrences(it)' = IF fate'[it] = "inflight" THEN 1 ELSE 0
  <2> DEFINE jt == Head(chan[c])
  <2>0. /\ UNCHANGED <<inbox, pump, work, fate>> /\ chan[c] # <<>> /\ fan[c].item = NoItem
        /\ fan' = [fan EXCEPT ![c] = [pc |-> "send", item |-> jt]]
        /\ chan' = [chan EXCEPT ![c] = Tail(@)] /\ DOMAIN fan = Channels
    BY <1>5 DEF FanReceive, TypeInv, TypeOK
  <2>1. a' = a /\ b' = b /\ p' = p
    BY <2>0
  <2>2. Count(it, chan'[c]) = Count(it, chan[c]) - Held(it, jt) /\ chan'[c] \in Seq(Items)
    BY <2>0, <1>t, CountTail
  <2>3. Count(it, chan'[c]) \in Nat
    BY <2>2, CountFinite
  <2>4. Held(it, fan'[c].item) = Held(it, jt) /\ Held(it, fan[c].item) = 0
    BY <2>0, HeldNone
  <2>5. CASE c = "event"
    <3>1. y' = y /\ g' = g
      BY <2>0, <2>5, <1>t
    <3>2. x' = x - Held(it, jt) /\ x' \in Nat /\ f = 0 /\ f' = Held(it, jt)
      BY <2>2, <2>3, <2>4, <2>5
    <3> HIDE DEF a, b, p, x, y, f, g, h, jt
    <3> QED
      BY <1>0, <1>n, <1>s, <1>s1, <2>0, <2>1, <3>1, <3>2 DEF Held
  <2>6. CASE c = "rename"
    <3>1. x' = x /\ f' = f
      BY <2>0, <2>6, <1>t
    <3>2. y' = y - Held(it, jt) /\ y' \in Nat /\ g = 0 /\ g' = Held(it, jt)
      BY <2>2, <2>3, <2>4, <2>6
    <3> HIDE DEF a, b, p, x, y, f, g, h, jt
    <3> QED
      BY <1>0, <1>n, <1>s, <1>s1, <2>0, <2>1, <3>1, <3>2 DEF Held
  <2> QED
    BY <2>5, <2>6 DEF Channels
<1>6. ASSUME NEW c \in Channels, FanSend(c) \/ FanDone(c)
      PROVE  Occurrences(it)' = IF fate'[it] = "inflight" THEN 1 ELSE 0
  <2> DEFINE jt == fan[c].item
  <2>0. /\ UNCHANGED <<inbox, pump, chan>>
        /\ jt \in Items \union {NoItem} /\ DOMAIN fan = Channels
        /\ \E pc : fan' = [fan EXCEPT ![c] = [pc |-> pc, item |-> NoItem]]
    BY <1>6 DEF FanSend, FanDone, TypeInv, TypeOK
  <2>1. a' = a /\ x' = x /\ y' = y /\ p' = p
    BY <2>0
  <2>2. \/ f = Held(it, jt) /\ f' = 0 /\ g' = g
        \/ g = Held(it, jt) /\ g' = 0 /\ f' = f
    <3>1. Held(it, fan'[c].item) = 0
      BY <2>0, HeldNone
    <3>2. CASE c = "event"
      BY <2>0, <3>1, <3>2, <1>t, <1>n
    <3>3. CASE c = "rename"
      BY <2>0, <3>1, <3>3, <1>t, <1>n
    <3> QED
      BY <3>2, <3>3 DEF Channels
  <2>3. CASE FanSend(c)
    <3>1. fate' = fate /\ jt \in Items /\ work' = Append(work, jt)
      BY <2>3 DEF FanSend, TypeInv, TypeOK
    <3>2. b' = b + Held(it, jt)
      BY <3>1, <1>t, CountAppend
    <3>3. fate' = fate /\ Held(it, jt) \in Nat
      BY <3>1 DEF Held
    <3> HIDE DEF a, b, p, x, y, f, g, h, jt
    <3> QED
      BY <1>0, <1>n, <1>s, <1>s1, <2>1, <2>2, <3>2, <3>3
  <2>4. CASE FanDone(c)
    <3>1. fate'[it] = IF it = jt THEN "dropped" ELSE fate[it]
      BY <2>4, <1>t, AgentAssumption DEF FanDone, TypeInv, TypeOK
    <3>2. b' = b
      BY <2>4 DEF FanDone
    <3> HIDE DEF a, b, p, x, y, f, g, h, jt
    <3> QED
      BY <1>0, <1>n, <1>s, <1>s1, <2>1, <2>2, <3>1, <3>2 DEF Held
  <2> QED
    BY <1>6, <2>3, <2>4
<1> QED
  BY <1>0, <1>1, <1>2, <1>3, <1>4, <1>5, <1>6

\* A worker takes an item, and keeps it until it is done with.
LEMMA WorkerConserves ==
  ASSUME TypeInv, ConserveInv, NEW w \in Workers,
         WorkerTake(w) \/ Attempt(w) \/ RecordResult(w) \/ WorkerDone(w)
  PROVE  ConserveInv'
<1> SUFFICES ASSUME NEW it \in Items
             PROVE  /\ Occurrences(it)' = IF fate'[it] = "inflight" THEN 1 ELSE 0
                    /\ IsFiniteSet(Holding(it)')
  BY DEF ConserveInv, Conserved
<1>0. /\ Occurrences(it) = IF fate[it] = "inflight" THEN 1 ELSE 0
      /\ IsFiniteSet(Holding(it)) /\ UNCHANGED <<inbox, pump, chan, fan>>
  BY DEF ConserveInv, Conserved, WorkerTake, Attempt, RecordResult, WorkerDone
<1>t. /\ work \in Seq(Items) /\ fate \in [Items -> Places]
      /\ worker \in [Workers -> [pc : {"recv", "push", "pushed", "failed", "done"},
                                 item : Items \union {NoItem}, tries : 0..MaxAttempts]]
      /\ worker[w].pc \in {"push", "pushed", "failed"} <=> worker[w].item # NoItem
      /\ NoItem \notin Items
  BY AgentAssumption DEF TypeInv, TypeOK
<1> DEFINE a == Count(it, inbox)
           b == Count(it, work)
           p == Held(it, pump.item)
           x == Count(it, chan["event"])
           y == Count(it, chan["rename"])
           f == Held(it, fan["event"].item)
           g == Held(it, fan["rename"].item)
           h == Cardinality(Holding(it))
<1>n. /\ a \in Nat /\ b \in Nat /\ p \in Nat /\ x \in Nat /\ y \in Nat
      /\ f \in Nat /\ g \in Nat /\ h \in Nat
  BY <1>0, PartsType
<1>s. Occurrences(it) = a + b + p + x + y + f + g + h
  BY OccurrencesIs
<1>u. a' = a /\ p' = p /\ x' = x /\ y' = y /\ f' = f /\ g' = g
  BY <1>0
<1>s1. Occurrences(it)' = a' + b' + p' + x' + y' + f' + g' + h'
  BY DEF Occurrences, Holding
<1>1. CASE WorkerTake(w)
  <2> DEFINE jt == Head(work)
  <2>0. work # <<>> /\ work' = Tail(work) /\ worker[w].item = NoItem
    BY <1>1, <1>t DEF WorkerTake
  <2>1. b' = b - Held(it, jt) /\ b' \in Nat
    <3>1. b' = b - Held(it, jt)
      BY <2>0, <1>t, CountTail
    <3>2. Tail(work) \in Seq(Items)
      BY <2>0, <1>t
    <3> QED
      BY <3>1, <3>2, <2>0, CountFinite
  <2>2. CASE /\ worker' = worker \/ worker' = [worker EXCEPT ![w] = Gone]
             /\ \E v \in {"dropped", "skipped"} : fate' = [fate EXCEPT ![jt] = v]
    <3>0. \A v \in Workers : worker'[v].item = worker[v].item
      <4>1. worker' = worker \/ worker' = [worker EXCEPT ![w] = Gone]
        BY <2>2
      <4>2. worker[w].item = NoItem /\ Gone.item = NoItem /\ DOMAIN worker = Workers
        BY <2>0, <1>t DEF Gone
      <4> QED
        BY <4>1, <4>2
    <3>1. Holding(it)' = Holding(it)
      BY <3>0 DEF Holding
    <3>2. fate'[it] = "inflight" <=> it # jt /\ fate[it] = "inflight"
      BY <2>2, <1>t
    <3>3. h' = h
      BY <3>1
    <3> HIDE DEF a, b, p, x, y, f, g, h, jt
    <3>5. Occurrences(it)' = IF fate'[it] = "inflight" THEN 1 ELSE 0
      BY <1>0, <1>n, <1>s, <1>s1, <1>u, <2>1, <3>2, <3>3 DEF Held
    <3> QED
      BY <1>0, <3>1, <3>5
  <2>3. CASE /\ worker' = [worker EXCEPT ![w] = [pc |-> "push", item |-> jt, tries |-> 0]]
             /\ fate' = fate
    <3>1. Holding(it)' = IF it = jt THEN Holding(it) \union {w} ELSE Holding(it)
      BY <2>0, <2>3, <1>t DEF Holding
    <3>2. w \notin Holding(it)
      BY <2>0, <1>t DEF Holding
    <3>3. IsFiniteSet(Holding(it)') /\ h' = h + Held(it, jt)
      <4>1. IsFiniteSet(Holding(it) \union {w}) /\ Cardinality(Holding(it) \union {w}) = h + 1
        BY <1>0, <3>2, FS_AddElement
      <4> HIDE DEF jt
      <4>2. CASE it = jt
        BY <3>1, <4>1, <4>2 DEF Held
      <4>3. CASE it # jt
        BY <1>0, <1>n, <3>1, <4>3 DEF Held
      <4> QED
        BY <4>2, <4>3
    <3>5. Held(it, jt) \in Nat /\ fate' = fate
      BY <2>3 DEF Held
    <3> HIDE DEF a, b, p, x, y, f, g, h, jt
    <3>6. Occurrences(it)' = IF fate'[it] = "inflight" THEN 1 ELSE 0
      BY <1>0, <1>n, <1>s, <1>s1, <1>u, <2>1, <3>3, <3>5
    <3> QED
      BY <3>3, <3>6
  <2> QED
    BY <1>1, <2>2, <2>3 DEF WorkerTake
<1>2. CASE Attempt(w) \/ WorkerDone(w)
  <2>1. work' = work /\ fate' = fate
    BY <1>2 DEF Attempt, WorkerDone
  <2>2. Holding(it)' = Holding(it)
    BY <1>2, <1>t DEF Attempt, WorkerDone, WorkerGoesTo, Holding, Gone
  <2>3. Occurrences(it)' = Occurrences(it)
    BY <1>0, <2>1, <2>2 DEF Occurrences, Holding
  <2> QED
    BY <1>0, <2>1, <2>2, <2>3
<1>3. CASE RecordResult(w)
  <2> DEFINE jt == worker[w].item
  <2>0. /\ work' = work /\ jt \in Items
        /\ fate' = [fate EXCEPT ![jt] = worker[w].pc] /\ worker[w].pc \in {"pushed", "failed"}
        /\ worker' = [worker EXCEPT ![w] = Idle]
    BY <1>3, <1>t DEF RecordResult
  <2>1. Holding(it)' = IF it = jt THEN Holding(it) \ {w} ELSE Holding(it)
    BY <2>0, <1>t DEF Holding, Idle
  <2>2. it = jt => w \in Holding(it)
    BY DEF Holding
  <2>3. IsFiniteSet(Holding(it)') /\ h' = h - Held(it, jt) /\ h' \in Nat
    <3>1. IsFiniteSet(Holding(it)') /\ h' = h - Held(it, jt)
      <4>1. /\ IsFiniteSet(Holding(it) \ {w})
            /\ w \in Holding(it) => Cardinality(Holding(it) \ {w}) = h - 1
        BY <1>0, FS_RemoveElement
      <4> HIDE DEF jt
      <4>2. CASE it = jt
        BY <2>1, <2>2, <4>1, <4>2 DEF Held
      <4>3. CASE it # jt
        BY <1>0, <1>n, <2>1, <4>3 DEF Held
      <4> QED
        BY <4>2, <4>3
    <3> QED
      BY <3>1, FS_CardinalityType
  <2>4. b' = b
    BY <2>0
  <2>6. fate'[it] = "inflight" <=> it # jt /\ fate[it] = "inflight"
    BY <2>0, <1>t
  <2> HIDE DEF a, b, p, x, y, f, g, h, jt
  <2>7. Occurrences(it)' = IF fate'[it] = "inflight" THEN 1 ELSE 0
    BY <1>0, <1>n, <1>s, <1>s1, <1>u, <2>3, <2>4, <2>6 DEF Held
  <2> QED
    BY <2>3, <2>7
<1> QED
  BY <1>1, <1>2, <1>3

\* Nobody else touches the pipeline.
LEMMA RestKeepsPipe ==
  ASSUME \/ CloseWork
         \/ PollStart \/ PollEnd \/ PullDone
         \/ BisyncTick \/ BisyncForced \/ BisyncAnnounce \/ BisyncLocked
         \/ BisyncPass \/ BisyncReturn \/ BisyncDone
         \/ ForceCheck \/ ForceSend
         \/ \E h \in Handlers :
               RepairRequest(h) \/ RepairAnnounce(h) \/ RepairLocked(h) \/ RepairPass(h)
         \/ Pause \/ Resume \/ Signal
         \/ ShutdownHTTP \/ HTTPDrained \/ HTTPTimeout \/ ShutdownStore \/ Exit
         \/ UNCHANGED vars
  PROVE  UNCHANGED <<inbox, pump, chan, fan, work, worker, fate>>
  BY DEF CloseWork, PollStart, PollEnd, PullDone, BisyncTick, BisyncForced, BisyncAnnounce,
         BisyncLocked, BisyncPass, BisyncReturn, BisyncDone, ForceCheck, ForceSend,
         RepairRequest, RepairAnnounce, RepairLocked, RepairPass, Pause, Resume, Signal,
         ShutdownHTTP, HTTPDrained, HTTPTimeout, ShutdownStore, Exit, vars, pipeVars

\* Conservation is inductive, given the types.
LEMMA NextConserves == TypeInv /\ ConserveInv /\ [Next]_vars => ConserveInv'
<1>1. ASSUME ConserveInv, UNCHANGED <<inbox, pump, chan, fan, work, worker, fate>>
      PROVE  ConserveInv'
  BY <1>1 DEF ConserveInv, Conserved, Occurrences, Holding
<1> QED
  BY <1>1, PipeConserves, WorkerConserves, RestKeepsPipe DEF Next, Terminated

(***************************************************************************)
(* The pipeline from the watcher to the push workers neither loses nor     *)
(* doubles an event, for any number of events and workers, any capacities  *)
(* and wherever a shutdown finds them.                                     *)
(***************************************************************************)
THEOREM EventsConserved == Spec => []Conserved
<1>1. Init => TypeInv /\ ConserveInv
  <2> SUFFICES ASSUME Init PROVE ConserveInv
    BY InitType
  <2> SUFFICES ASSUME NEW it \in Items
               PROVE  Occurrences(it) = 0 /\ fate[it] = "new" /\ IsFiniteSet(Holding(it))
    BY DEF ConserveInv, Conserved
  <2>1. Holding(it) = {} /\ fate[it] = "new"
    BY AgentAssumption DEF Init, Holding
  <2>2. Count(it, <<>>) = 0
    <3>1. Positions(it, <<>>) = {}
      BY DEF Positions
    <3> QED
      BY <3>1, CountIs, FS_EmptySet
  <2>3. /\ inbox = <<>> /\ work = <<>> /\ chan["event"] = <<>> /\ chan["rename"] = <<>>
        /\ pump.item = NoItem /\ fan["event"].item = NoItem /\ fan["rename"].item = NoItem
    BY DEF Init, Channels
  <2>4. Cardinality(Holding(it)) = 0 /\ Held(it, NoItem) = 0
    BY <2>1, HeldNone, FS_EmptySet
  <2>5. Occurrences(it) = 0
    BY <2>2, <2>3, <2>4, OccurrencesIs
  <2> QED
    BY <2>1, <2>5, FS_EmptySet
<1>2. TypeInv /\ ConserveInv /\ [Next]_vars => TypeInv' /\ ConserveInv'
  BY NextType, NextConserves
<1>3. ConserveInv => Conserved
  BY DEF ConserveInv
<1> QED
  BY <1>1, <1>2, <1>3, PTL DEF Spec

\* The watcher's channel never holds more than its capacity.
InboxBound == Len(inbox) <= InboxCap

\* A send to the watcher's channel is made only when there is room.
LEMMA NextInbox == TypeInv /\ InboxBound /\ [Next]_vars => InboxBound'
<1> SUFFICES ASSUME TypeInv, InboxBound, [Next]_vars PROVE InboxBound'
  OBVIOUS
<1>t. inbox \in Seq(Items) /\ InboxCap \in Nat
  BY AgentAssumption DEF TypeInv, TypeOK
<1>1. ASSUME NEW it \in Items, Emit(it) PROVE InboxBound'
  <2>1. \/ inbox' = inbox
        \/ Len(inbox) < InboxCap /\ inbox' = Append(inbox, it)
    BY <1>1 DEF Emit
  <2> QED
    BY <2>1, <1>t DEF InboxBound
<1>2. ASSUME PumpReceive PROVE InboxBound'
  BY <1>2, <1>t DEF PumpReceive, InboxBound
<1>3. ASSUME inbox' = inbox PROVE InboxBound'
  BY <1>3 DEF InboxBound
<1>4. ASSUME PumpSend \/ PumpDone \/ \E c \in Channels : FanReceive(c) \/ FanSend(c) \/ FanDone(c)
      PROVE  inbox' = inbox
  BY <1>4 DEF PumpSend, PumpDone, FanReceive, FanSend, FanDone
<1>5. ASSUME NEW w \in Workers, WorkerTake(w) \/ Attempt(w) \/ RecordResult(w) \/ WorkerDone(w)
      PROVE  inbox' = inbox
  BY <1>5 DEF WorkerTake, Attempt, RecordResult, WorkerDone
<1> QED
  BY <1>1, <1>2, <1>3, <1>4, <1>5, RestKeepsPipe DEF Next, Terminated

\* An event becomes lost in one of five steps, each with its reason.
LEMMA LossStep ==
  ASSUME TypeInv, InboxBound, [Next]_vars,
         NEW it \in Items, fate[it] # "dropped", fate'[it] = "dropped"
  PROVE  paused \/ ctxDone \/ Len(inbox) = InboxCap
<1>t. fate \in [Items -> Places] /\ inbox \in Seq(Items) /\ InboxCap \in Nat
  BY AgentAssumption DEF TypeInv, TypeOK
<1>1. ASSUME NEW jt \in Items, Emit(jt) PROVE Len(inbox) = InboxCap
  <2>1. CASE Len(inbox) < InboxCap
    <3>1. fate' = [fate EXCEPT ![jt] = "inflight"]
      BY <1>1, <2>1 DEF Emit
    <3> QED
      BY <3>1, <1>t
  <2>2. CASE ~(Len(inbox) < InboxCap)
    BY <2>2, <1>t DEF InboxBound
  <2> QED
    BY <2>1, <2>2
<1>2. ASSUME PumpReceive PROVE paused
  <2>1. CASE ~paused
    BY <1>2, <2>1 DEF PumpReceive
  <2> QED
    BY <2>1
<1>3. ASSUME PumpSend \/ PumpDone \/ \E c \in Channels : FanReceive(c) \/ FanSend(c) \/ FanDone(c)
      PROVE  ctxDone
  BY <1>3 DEF PumpSend, PumpDone, FanReceive, FanSend, FanDone
<1>4. ASSUME NEW w \in Workers, WorkerTake(w) PROVE ctxDone
  <2>1. CASE ~ctxDone
    <3>1. fate' = fate \/ fate' = [fate EXCEPT ![Head(work)] = "skipped"]
      BY <1>4, <2>1 DEF WorkerTake
    <3> QED
      BY <3>1, <1>t
  <2> QED
    BY <2>1
<1>5. ASSUME NEW w \in Workers, Attempt(w) \/ RecordResult(w) \/ WorkerDone(w) PROVE FALSE
  <2>1. \/ fate' = fate
        \/ worker[w].pc \in {"pushed", "failed"}
             /\ fate' = [fate EXCEPT ![worker[w].item] = worker[w].pc]
    BY <1>5 DEF Attempt, RecordResult, WorkerDone
  <2> QED
    BY <2>1, <1>t
<1> QED
  BY <1>1, <1>2, <1>3, <1>4, <1>5, RestKeepsPipe DEF Next, Terminated

(***************************************************************************)
(* While the agent runs unpaused and the watcher's channel has room, no    *)
(* step of any goroutine loses an event.                                   *)
(***************************************************************************)
THEOREM LostOnlyWhen == Spec => LossOnlyWhen
<1>1. Init => TypeInv /\ InboxBound
  BY InitType, AgentAssumption DEF Init, InboxBound
<1>2. TypeInv /\ InboxBound /\ [Next]_vars => TypeInv' /\ InboxBound'
  BY NextType, NextInbox
<1>3. TypeInv /\ InboxBound /\ [Next]_vars
         => [\A it \in Items :
               fate[it] # "dropped" /\ fate'[it] = "dropped"
                  => paused \/ ctxDone \/ Len(inbox) = InboxCap]_vars
  BY LossStep
<1> QED
  BY <1>1, <1>2, <1>3, PTL DEF Spec, LossOnlyWhen
==============================================================================
