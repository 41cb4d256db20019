------------------------------ MODULE AgentRun ------------------------------
(***************************************************************************)
(* The runtime of `homedrive run` (cmd/homedrive/agent_run.go): the        *)
(* goroutines Agent.Run starts, the channels between them, the lock they   *)
(* share and the order in which they are shut down.                        *)
(*                                                                         *)
(*   watcher --inbox--> pump --pushEvents/pushRenames--> two fan-ins       *)
(*           --work--> push workers          (RLock around each item)      *)
(*   pull loop                               (RLock around each poll)      *)
(*   bisync ticker and POST /resync          (Lock around each pass)       *)
(*   POST /conflict/repair                   (Lock, in the HTTP handler)   *)
(*                                                                         *)
(* An item is one watcher event; Kind tells a file event from the event of *)
(* a directory, which no worker pushes, and from a paired directory        *)
(* rename, which travels on a channel of its own.                          *)
(***************************************************************************)
EXTENDS Naturals, Sequences, FiniteSets, GoRWMutex

CONSTANTS
    Items,        \* the watcher events of the behaviour
    Kind,         \* Kind[it] is "file", "dir" or "rename"
    Workers,      \* the push workers (cfg.Push.Workers of them)
    Handlers,     \* HTTP handlers that may serve POST /conflict/repair
    Puller,       \* the pull loop goroutine
    Bisync,       \* the bisync goroutine
    NoItem,       \* "holds no item"
    InboxCap,     \* capacity of the watcher's event channel (1024)
    PushCap,      \* capacity of pushEvents and of pushRenames (4 w + 4)
    WorkCap,      \* capacity of the work channel (4 w)
    MaxAttempts,  \* cfg.Retry.MaxAttempts
    DryRun,       \* cfg.DryRun
    Requests      \* bound: which of /pause, /resync and a signal may come

Procs == Workers \union Handlers \union {Puller, Bisync}

ASSUME AgentAssumption ==
    /\ Kind \in [Items -> {"file", "dir", "rename"}]
    /\ NoItem \notin Items
    /\ NoProc \notin Procs
    /\ Puller # Bisync
    /\ Puller \notin Workers \union Handlers
    /\ Bisync \notin Workers \union Handlers
    /\ Workers \intersect Handlers = {}
    /\ InboxCap \in Nat /\ PushCap \in Nat /\ WorkCap \in Nat
    /\ MaxAttempts \in Nat \ {0}
    /\ DryRun \in BOOLEAN
    /\ Requests \subseteq {"pause", "resync", "signal"}

VARIABLES
    ctxDone,     \* the run context is cancelled (SIGTERM, SIGINT)
    paused,      \* Agent.paused
    inbox,       \* the watcher's event channel
    pump,        \* the pump: [pc, item]
    chan,        \* pushEvents (chan["event"]) and pushRenames (chan["rename"])
    fan,         \* the two fan-in goroutines of Syncer.Run: [pc, item]
    work,        \* the merged work channel
    workClosed,  \* close(work) has run
    worker,      \* each push worker: [pc, item, tries]
    fate,        \* what became of each item (auxiliary: read by no action)
    pullPc,      \* the pull loop
    bisyncPc,    \* the bisync goroutine
    running,     \* Bisync.running
    forceCh,     \* tokens in Bisync.forceCh (capacity 1)
    forcePc,     \* a caller of ForceRun between its check and its send
    repairPc,    \* each HTTP handler in RunChainRepair
    runPc,       \* Agent.Run itself
    journalOpen  \* BoltDB journal and audit file are open

pipeVars == <<paused, inbox, pump, chan, fan, work, workClosed, worker, fate>>
loopVars == <<pullPc, bisyncPc, running, forceCh, forcePc, repairPc>>
mainVars == <<ctxDone, runPc, journalOpen>>
vars == <<lockVars, pipeVars, loopVars, mainVars>>

Channels == {"event", "rename"}
ChannelOf(it) == IF Kind[it] = "rename" THEN "rename" ELSE "event"

Init ==
    /\ LockInit
    /\ ctxDone = FALSE
    /\ paused = FALSE
    /\ inbox = <<>>
    /\ pump = [pc |-> "recv", item |-> NoItem]
    /\ chan = [c \in Channels |-> <<>>]
    /\ fan = [c \in Channels |-> [pc |-> "recv", item |-> NoItem]]
    /\ work = <<>>
    /\ workClosed = FALSE
    /\ worker = [w \in Workers |-> [pc |-> "recv", item |-> NoItem, tries |-> 0]]
    /\ fate = [it \in Items |-> "new"]
    /\ pullPc = "start"
    /\ bisyncPc = "select"
    /\ running = FALSE
    /\ forceCh = 0
    /\ forcePc = "idle"
    /\ repairPc = [h \in Handlers |-> "idle"]
    /\ runPc = "running"
    /\ journalOpen = TRUE

Alive == runPc # "stopped"

----------------------------------------------------------------------------
(* The watcher and the pump.                                               *)

\* Watcher.emitEvent: a send that never blocks; a full channel loses the event.
Emit(it) ==
    /\ Alive
    /\ fate[it] = "new"
    /\ IF Len(inbox) < InboxCap
       THEN inbox' = Append(inbox, it) /\ fate' = [fate EXCEPT ![it] = "inflight"]
       ELSE inbox' = inbox /\ fate' = [fate EXCEPT ![it] = "dropped"]
    /\ UNCHANGED <<lockVars, loopVars, mainVars,
                   paused, pump, chan, fan, work, workClosed, worker>>

\* pumpWatcherEvents receives and dispatchWatchEvent reads the pause flag.
PumpReceive ==
    /\ Alive
    /\ pump.pc = "recv"
    /\ inbox # <<>>
    /\ inbox' = Tail(inbox)
    /\ IF paused
       THEN /\ fate' = [fate EXCEPT ![Head(inbox)] = "dropped"]
            /\ pump' = pump
       ELSE /\ pump' = [pc |-> "send", item |-> Head(inbox)]
            /\ fate' = fate
    /\ UNCHANGED <<lockVars, loopVars, mainVars,
                   paused, chan, fan, work, workClosed, worker>>

\* The blocking send on pushEvents or pushRenames.
PumpSend ==
    /\ Alive
    /\ pump.pc = "send"
    /\ Len(chan[ChannelOf(pump.item)]) < PushCap
    /\ chan' = [chan EXCEPT ![ChannelOf(pump.item)] = Append(@, pump.item)]
    /\ pump' = [pc |-> "recv", item |-> NoItem]
    /\ UNCHANGED <<lockVars, loopVars, mainVars,
                   paused, inbox, fan, work, workClosed, worker, fate>>

\* ctx.Done wins the select: in the loop, or in the send, which loses its item.
PumpDone ==
    /\ Alive
    /\ ctxDone
    /\ pump.pc # "done"
    /\ pump' = [pc |-> "done", item |-> NoItem]
    /\ fate' = IF pump.pc = "send"
               THEN [fate EXCEPT ![pump.item] = "dropped"] ELSE fate
    /\ UNCHANGED <<lockVars, loopVars, mainVars,
                   paused, inbox, chan, fan, work, workClosed, worker>>

----------------------------------------------------------------------------
(* Syncer.Run: fan-in goroutines and the worker pool.                      *)

FanReceive(c) ==
    /\ Alive
    /\ fan[c].pc = "recv"
    /\ chan[c] # <<>>
    /\ fan' = [fan EXCEPT ![c] = [pc |-> "send", item |-> Head(chan[c])]]
    /\ chan' = [chan EXCEPT ![c] = Tail(@)]
    /\ UNCHANGED <<lockVars, loopVars, mainVars,
                   paused, inbox, pump, work, workClosed, worker, fate>>

\* Mutant: the fan-in stays in its loop with the item it has already sent.
FanSendTwice(c) ==
    /\ Alive
    /\ fan[c].pc = "send"
    /\ Len(work) < WorkCap
    /\ work' = Append(work, fan[c].item)
    /\ UNCHANGED <<lockVars, loopVars, mainVars,
                   paused, inbox, pump, chan, fan, workClosed, worker, fate>>

\* Mutant: the send has a default branch, so a full channel loses the item.
FanSendDefault(c) ==
    /\ Alive
    /\ fan[c].pc = "send"
    /\ IF Len(work) < WorkCap
       THEN work' = Append(work, fan[c].item) /\ fate' = fate
       ELSE work' = work /\ fate' = [fate EXCEPT ![fan[c].item] = "dropped"]
    /\ fan' = [fan EXCEPT ![c] = [pc |-> "recv", item |-> NoItem]]
    /\ UNCHANGED <<lockVars, loopVars, mainVars,
                   paused, inbox, pump, chan, workClosed, worker>>

FanSend(c) ==
    /\ Alive
    /\ fan[c].pc = "send"
    /\ Len(work) < WorkCap
    /\ work' = Append(work, fan[c].item)
    /\ fan' = [fan EXCEPT ![c] = [pc |-> "recv", item |-> NoItem]]
    /\ UNCHANGED <<lockVars, loopVars, mainVars,
                   paused, inbox, pump, chan, workClosed, worker, fate>>

FanDone(c) ==
    /\ Alive
    /\ ctxDone
    /\ fan[c].pc # "done"
    /\ fan' = [fan EXCEPT ![c] = [pc |-> "done", item |-> NoItem]]
    /\ fate' = IF fan[c].pc = "send"
               THEN [fate EXCEPT ![fan[c].item] = "dropped"] ELSE fate
    /\ UNCHANGED <<lockVars, loopVars, mainVars,
                   paused, inbox, pump, chan, work, workClosed, worker>>

\* Mutant: work is closed once the workers have returned.
CloseWorkAfterWorkers ==
    /\ Alive
    /\ ~workClosed
    /\ \A w \in Workers : worker[w].pc = "done"
    /\ workClosed' = TRUE
    /\ UNCHANGED <<lockVars, loopVars, mainVars,
                   paused, inbox, pump, chan, fan, work, worker, fate>>

\* wg.Wait on the fan-ins, then close(work).
CloseWork ==
    /\ Alive
    /\ ~workClosed
    /\ \A c \in Channels : fan[c].pc = "done"
    /\ workClosed' = TRUE
    /\ UNCHANGED <<lockVars, loopVars, mainVars,
                   paused, inbox, pump, chan, fan, work, worker, fate>>

Idle == [pc |-> "recv", item |-> NoItem, tries |-> 0]
Gone == [pc |-> "done", item |-> NoItem, tries |-> 0]

\* skipDirEvent, and the dry run that only logs: neither takes the lock.
NotPushed(it) == DryRun \/ Kind[it] = "dir"

\* worker receives an item.  A cancelled context returns and loses it; an
\* item that is not pushed is done with; anything else takes RLock.
WorkerTake(w) ==
    /\ Alive
    /\ worker[w].pc = "recv"
    /\ work # <<>>
    /\ work' = Tail(work)
    /\ LET it == Head(work) IN
       \/ /\ ctxDone
          /\ worker' = [worker EXCEPT ![w] = Gone]
          /\ fate' = [fate EXCEPT ![it] = "dropped"]
          /\ UNCHANGED lockVars
       \/ /\ ~ctxDone
          /\ NotPushed(it)
          /\ fate' = [fate EXCEPT ![it] = "skipped"]
          /\ UNCHANGED <<lockVars, worker>>
       \/ /\ ~ctxDone
          /\ ~NotPushed(it)
          /\ worker' = [worker EXCEPT ![w] = [pc |-> "push", item |-> it, tries |-> 0]]
          /\ RLock(w)
          /\ UNCHANGED fate
    /\ UNCHANGED <<loopVars, mainVars, paused, inbox, pump, chan, fan, workClosed>>

WorkerGoesTo(w, pc, tries) ==
    worker' = [worker EXCEPT ![w] = [pc |-> pc, item |-> worker[w].item, tries |-> tries]]

\* Mutant: one attempt more than MaxAttempts.
AttemptOneMore(w) ==
    /\ Alive
    /\ worker[w].pc = "push"
    /\ w \in rActive
    /\ \/ ctxDone /\ WorkerGoesTo(w, "failed", worker[w].tries)
       \/ ~ctxDone /\ WorkerGoesTo(w, "pushed", worker[w].tries)
       \/ /\ ~ctxDone
          /\ WorkerGoesTo(w, IF worker[w].tries < MaxAttempts THEN "push" ELSE "failed",
                          worker[w].tries + 1)
    /\ UNCHANGED <<lockVars, loopVars, mainVars,
                   paused, inbox, pump, chan, fan, work, workClosed, fate>>

\* One turn of retryFunc under RLock: cancelled, succeeded, or failed, the
\* last attempt failing for good.  The lock is kept between attempts.
Attempt(w) ==
    /\ Alive
    /\ worker[w].pc = "push"
    /\ w \in rActive
    /\ \/ ctxDone /\ WorkerGoesTo(w, "failed", worker[w].tries)
       \/ ~ctxDone /\ WorkerGoesTo(w, "pushed", worker[w].tries)
       \/ /\ ~ctxDone
          /\ WorkerGoesTo(w, IF worker[w].tries + 1 < MaxAttempts THEN "push" ELSE "failed",
                          worker[w].tries + 1)
    /\ UNCHANGED <<lockVars, loopVars, mainVars,
                   paused, inbox, pump, chan, fan, work, workClosed, fate>>

\* recordResult (journal and audit on success, audit on failure) and the
\* deferred RUnlock.  A failed item is not put back anywhere.
RecordResult(w) ==
    /\ Alive
    /\ worker[w].pc \in {"pushed", "failed"}
    /\ fate' = [fate EXCEPT ![worker[w].item] = worker[w].pc]
    /\ worker' = [worker EXCEPT ![w] = Idle]
    /\ RUnlock(w)
    /\ UNCHANGED <<loopVars, mainVars, paused, inbox, pump, chan, fan, work, workClosed>>

\* `for item := range work` ends when the channel is closed and empty.
WorkerDone(w) ==
    /\ Alive
    /\ worker[w].pc = "recv"
    /\ workClosed
    /\ work = <<>>
    /\ worker' = [worker EXCEPT ![w] = Gone]
    /\ UNCHANGED <<lockVars, loopVars, mainVars,
                   paused, inbox, pump, chan, fan, work, workClosed, fate>>

----------------------------------------------------------------------------
(* The pull loop, bisync and the HTTP control handlers.                    *)

\* runPullLoop calls pollOnceGuarded once at start, then when its timer fires.
PollStart ==
    /\ Alive
    /\ pullPc \in {"start", "timer"}
    /\ pullPc' = "poll"
    /\ RLock(Puller)
    /\ UNCHANGED <<pipeVars, mainVars, bisyncPc, running, forceCh, forcePc, repairPc>>

\* Mutant: a return of pollOnceGuarded that skips RUnlock.
PollEndLocked ==
    /\ Alive
    /\ pullPc = "poll"
    /\ Puller \in rActive
    /\ pullPc' = "timer"
    /\ UNCHANGED <<lockVars, pipeVars, mainVars,
                   bisyncPc, running, forceCh, forcePc, repairPc>>

PollEnd ==
    /\ Alive
    /\ pullPc = "poll"
    /\ Puller \in rActive
    /\ pullPc' = "timer"
    /\ RUnlock(Puller)
    /\ UNCHANGED <<pipeVars, mainVars, bisyncPc, running, forceCh, forcePc, repairPc>>

PullDone ==
    /\ Alive
    /\ ctxDone
    /\ pullPc = "timer"
    /\ pullPc' = "done"
    /\ UNCHANGED <<lockVars, pipeVars, mainVars,
                   bisyncPc, running, forceCh, forcePc, repairPc>>

\* Bisync.Run's select: the ticker or a forced run; execute sets running.
BisyncTick ==
    /\ Alive
    /\ bisyncPc = "select"
    /\ bisyncPc' = "lock"
    /\ running' = TRUE
    /\ UNCHANGED <<lockVars, pipeVars, mainVars, pullPc, forceCh, forcePc, repairPc>>

BisyncForced ==
    /\ Alive
    /\ bisyncPc = "select"
    /\ forceCh = 1
    /\ forceCh' = 0
    /\ bisyncPc' = "lock"
    /\ running' = TRUE
    /\ UNCHANGED <<lockVars, pipeVars, mainVars, pullPc, forcePc, repairPc>>

BisyncAnnounce ==
    /\ Alive
    /\ bisyncPc = "lock"
    /\ bisyncPc' = "readers"
    /\ LockAnnounce(Bisync)
    /\ UNCHANGED <<pipeVars, mainVars, pullPc, running, forceCh, forcePc, repairPc>>

BisyncLocked ==
    /\ Alive
    /\ bisyncPc = "readers"
    /\ bisyncPc' = "pass"
    /\ LockGranted(Bisync)
    /\ UNCHANGED <<pipeVars, mainVars, pullPc, running, forceCh, forcePc, repairPc>>

\* Mutant: a return of execute that skips Unlock.
BisyncPassLocked ==
    /\ Alive
    /\ bisyncPc = "pass"
    /\ bisyncPc' = "unlocked"
    /\ UNCHANGED <<lockVars, pipeVars, mainVars,
                   pullPc, running, forceCh, forcePc, repairPc>>

\* Repair, diff, syncDiffs, prune, sweep, audit; then the deferred Unlock.
BisyncPass ==
    /\ Alive
    /\ bisyncPc = "pass"
    /\ bisyncPc' = "unlocked"
    /\ Unlock(Bisync)
    /\ UNCHANGED <<pipeVars, mainVars, pullPc, running, forceCh, forcePc, repairPc>>

\* The last deferred call clears running, after the lock is released.
BisyncReturn ==
    /\ Alive
    /\ bisyncPc = "unlocked"
    /\ bisyncPc' = "select"
    /\ running' = FALSE
    /\ UNCHANGED <<lockVars, pipeVars, mainVars, pullPc, forceCh, forcePc, repairPc>>

BisyncDone ==
    /\ Alive
    /\ ctxDone
    /\ bisyncPc = "select"
    /\ bisyncPc' = "done"
    /\ UNCHANGED <<lockVars, pipeVars, mainVars,
                   pullPc, running, forceCh, forcePc, repairPc>>

\* ForceRun: read running under runMu, unlock, then a send that never blocks.
ForceCheck ==
    /\ "resync" \in Requests
    /\ runPc = "running"
    /\ forcePc = "idle"
    /\ ~running
    /\ forcePc' = "checked"
    /\ UNCHANGED <<lockVars, pipeVars, mainVars,
                   pullPc, bisyncPc, running, forceCh, repairPc>>

ForceSend ==
    /\ Alive
    /\ forcePc = "checked"
    /\ forcePc' = "idle"
    /\ forceCh' = 1          \* a full channel answers ErrBisyncRunning
    /\ UNCHANGED <<lockVars, pipeVars, mainVars, pullPc, bisyncPc, running, repairPc>>

\* Mutant: RunChainRepair does not take the lock.
RepairRequestUnlocked(h) ==
    /\ runPc = "running"
    /\ repairPc[h] = "idle"
    /\ repairPc' = [repairPc EXCEPT ![h] = "pass"]
    /\ UNCHANGED <<lockVars, pipeVars, mainVars,
                   pullPc, bisyncPc, running, forceCh, forcePc>>

\* Bisync.RunChainRepair in the goroutine of an HTTP request.
RepairRequest(h) ==
    /\ runPc = "running"
    /\ repairPc[h] = "idle"
    /\ repairPc' = [repairPc EXCEPT ![h] = "lock"]
    /\ UNCHANGED <<lockVars, pipeVars, mainVars,
                   pullPc, bisyncPc, running, forceCh, forcePc>>

RepairAnnounce(h) ==
    /\ Alive
    /\ repairPc[h] = "lock"
    /\ repairPc' = [repairPc EXCEPT ![h] = "readers"]
    /\ LockAnnounce(h)
    /\ UNCHANGED <<pipeVars, mainVars, pullPc, bisyncPc, running, forceCh, forcePc>>

RepairLocked(h) ==
    /\ Alive
    /\ repairPc[h] = "readers"
    /\ repairPc' = [repairPc EXCEPT ![h] = "pass"]
    /\ LockGranted(h)
    /\ UNCHANGED <<pipeVars, mainVars, pullPc, bisyncPc, running, forceCh, forcePc>>

RepairPass(h) ==
    /\ Alive
    /\ repairPc[h] = "pass"
    /\ repairPc' = [repairPc EXCEPT ![h] = "idle"]
    /\ Unlock(h)
    /\ UNCHANGED <<pipeVars, mainVars, pullPc, bisyncPc, running, forceCh, forcePc>>

Pause ==
    /\ "pause" \in Requests
    /\ runPc = "running"
    /\ ~paused
    /\ paused' = TRUE
    /\ UNCHANGED <<lockVars, loopVars, mainVars,
                   inbox, pump, chan, fan, work, workClosed, worker, fate>>

Resume ==
    /\ runPc = "running"
    /\ paused
    /\ paused' = FALSE
    /\ UNCHANGED <<lockVars, loopVars, mainVars,
                   inbox, pump, chan, fan, work, workClosed, worker, fate>>

----------------------------------------------------------------------------
(* Agent.Run: cancellation and the shutdown sequence.                      *)

Signal ==
    /\ "signal" \in Requests
    /\ ~ctxDone
    /\ ctxDone' = TRUE
    /\ UNCHANGED <<lockVars, pipeVars, loopVars, runPc, journalOpen>>

ShutdownHTTP ==
    /\ runPc = "running"
    /\ ctxDone
    /\ runPc' = "http"
    /\ UNCHANGED <<lockVars, pipeVars, loopVars, ctxDone, journalOpen>>

\* Shutdown returns once every handler is idle, or after its ten seconds.
HTTPIdle == forcePc = "idle" /\ \A h \in Handlers : repairPc[h] = "idle"

\* Mutant: Syncer.Run returns once work is closed, its workers still running.
DrainedNoWorkers ==
    /\ pump.pc = "done"
    /\ workClosed
    /\ pullPc = "done"
    /\ bisyncPc = "done"

HTTPDrained ==
    /\ runPc = "http"
    /\ HTTPIdle
    /\ runPc' = "wait"
    /\ UNCHANGED <<lockVars, pipeVars, loopVars, ctxDone, journalOpen>>

HTTPTimeout ==
    /\ runPc = "http"
    /\ ~HTTPIdle
    /\ runPc' = "wait"
    /\ UNCHANGED <<lockVars, pipeVars, loopVars, ctxDone, journalOpen>>

\* What wg.Wait waits for: the pump, Syncer.Run, the pull loop and bisync.
Drained ==
    /\ pump.pc = "done"
    /\ workClosed /\ \A w \in Workers : worker[w].pc = "done"
    /\ pullPc = "done"
    /\ bisyncPc = "done"

\* wg.Wait, shutdownMQTT and shutdownStore.
ShutdownStore ==
    /\ runPc = "wait"
    /\ Drained
    /\ runPc' = "closed"
    /\ journalOpen' = FALSE
    /\ UNCHANGED <<lockVars, pipeVars, loopVars, ctxDone>>

Exit ==
    /\ runPc = "closed"
    /\ runPc' = "stopped"
    /\ UNCHANGED <<lockVars, pipeVars, loopVars, ctxDone, journalOpen>>

Terminated == ~Alive /\ UNCHANGED vars

Next ==
    \/ \E it \in Items : Emit(it)
    \/ PumpReceive \/ PumpSend \/ PumpDone
    \/ \E c \in Channels : FanReceive(c) \/ FanSend(c) \/ FanDone(c)
    \/ CloseWork
    \/ \E w \in Workers :
          WorkerTake(w) \/ Attempt(w) \/ RecordResult(w) \/ WorkerDone(w)
    \/ PollStart \/ PollEnd \/ PullDone
    \/ BisyncTick \/ BisyncForced \/ BisyncAnnounce \/ BisyncLocked
    \/ BisyncPass \/ BisyncReturn \/ BisyncDone
    \/ ForceCheck \/ ForceSend
    \/ \E h \in Handlers :
          RepairRequest(h) \/ RepairAnnounce(h) \/ RepairLocked(h) \/ RepairPass(h)
    \/ Pause \/ Resume \/ Signal
    \/ ShutdownHTTP \/ HTTPDrained \/ HTTPTimeout \/ ShutdownStore \/ Exit
    \/ Terminated

Spec == Init /\ [][Next]_vars

(***************************************************************************)
(* Fairness.  Every goroutine that can take a step keeps being scheduled,  *)
(* and no remote call hangs for ever (they all take the context).  Strong  *)
(* fairness where the code chooses between ready alternatives again and    *)
(* again: select is pseudo-random in Go, so its Done and forced-run        *)
(* branches are not passed over for ever; and Go's mutex hands itself to   *)
(* its longest waiter (starvation mode), so a writer gets the inner mutex. *)
(* The user, the watcher and the signal are not fair.                      *)
(***************************************************************************)
Fairness ==
    /\ WF_vars(PumpReceive \/ PumpSend) /\ WF_vars(PumpDone)
    /\ \A c \in Channels : WF_vars(FanReceive(c) \/ FanSend(c)) /\ WF_vars(FanDone(c))
    /\ WF_vars(CloseWork)
    /\ \A w \in Workers :
          WF_vars(WorkerTake(w) \/ Attempt(w) \/ RecordResult(w) \/ WorkerDone(w))
    /\ WF_vars(PollStart \/ PollEnd) /\ SF_vars(PullDone)
    /\ SF_vars(BisyncForced \/ BisyncDone) /\ SF_vars(BisyncAnnounce)
    /\ WF_vars(BisyncLocked \/ BisyncPass \/ BisyncReturn)
    /\ WF_vars(ForceSend)
    /\ \A h \in Handlers :
          SF_vars(RepairAnnounce(h)) /\ WF_vars(RepairLocked(h) \/ RepairPass(h))
    /\ WF_vars(ShutdownHTTP \/ HTTPDrained \/ HTTPTimeout \/ ShutdownStore \/ Exit)

FairSpec == Spec /\ Fairness

----------------------------------------------------------------------------
(* Properties.                                                             *)

Places == {"new", "inflight", "pushed", "failed", "skipped", "dropped"}

\* Every variable stays in its type.
TypeOK ==
    /\ wHolder \in Procs \union {NoProc}
    /\ wGranted \in BOOLEAN
    /\ rActive \subseteq Workers \union {Puller}
    /\ rBlocked \subseteq Workers \union {Puller}
    /\ ctxDone \in BOOLEAN /\ paused \in BOOLEAN
    /\ inbox \in Seq(Items)
    /\ pump \in [pc : {"recv", "send", "done"}, item : Items \union {NoItem}]
    /\ pump.pc = "send" <=> pump.item # NoItem
    /\ chan \in [Channels -> Seq(Items)]
    /\ fan \in [Channels -> [pc : {"recv", "send", "done"}, item : Items \union {NoItem}]]
    /\ \A c \in Channels : fan[c].pc = "send" <=> fan[c].item # NoItem
    /\ work \in Seq(Items)
    /\ workClosed \in BOOLEAN
    /\ worker \in [Workers -> [pc : {"recv", "push", "pushed", "failed", "done"},
                               item : Items \union {NoItem}, tries : 0..MaxAttempts]]
    /\ \A w \in Workers :
          worker[w].pc \in {"push", "pushed", "failed"} <=> worker[w].item # NoItem
    /\ fate \in [Items -> Places]
    /\ pullPc \in {"start", "poll", "timer", "done"}
    /\ bisyncPc \in {"select", "lock", "readers", "pass", "unlocked", "done"}
    /\ running \in BOOLEAN
    /\ forceCh \in {0, 1}
    /\ forcePc \in {"idle", "checked"}
    /\ repairPc \in [Handlers -> {"idle", "lock", "readers", "pass"}]
    /\ runPc \in {"running", "http", "wait", "closed", "stopped"}
    /\ journalOpen \in BOOLEAN

Pushing == {w \in Workers : worker[w].pc \in {"push", "pushed", "failed"}}
Polling == IF pullPc = "poll" THEN {Puller} ELSE {}
Repairing == {h \in Handlers : repairPc[h] = "pass"}

\* Who is past RLock or Lock and working on files, remote and journal.
SharedUsers == (Pushing \union Polling) \ rBlocked
ExclusiveUsers == Repairing \union (IF bisyncPc = "pass" THEN {Bisync} ELSE {})

\* The goroutines of Run's WaitGroup that may write the journal or audit log.
TrackedUsers ==
    Pushing \union (IF pullPc = "done" THEN {} ELSE {Puller})
            \union (IF bisyncPc = "done" THEN {} ELSE {Bisync})

\* shutdownStore closes the journal only when no push worker, poll or bisync
\* pass can still write to it, whatever was in flight when the signal came.
ClosedAfterDrain == ~journalOpen => TrackedUsers = {}

Count(it, s) == Cardinality({i \in DOMAIN s : s[i] = it})
Held(it, it2) == IF it = it2 THEN 1 ELSE 0

\* In how many places of the pipeline an item is.
Occurrences(it) ==
    Count(it, inbox) + Count(it, work) + Held(it, pump.item)
    + Count(it, chan["event"]) + Count(it, chan["rename"])
    + Held(it, fan["event"].item) + Held(it, fan["rename"].item)
    + Cardinality({w \in Workers : worker[w].item = it})

\* A watcher event that was accepted and is not yet done with is in exactly
\* one channel, fan-in or worker: the pipeline neither loses nor doubles it.
Conserved ==
    \A it \in Items : Occurrences(it) = IF fate[it] = "inflight" THEN 1 ELSE 0

\* An event is lost only to a full watcher channel, to /pause or to shutdown:
\* never while the agent runs unpaused and the watcher's channel has room.
LossOnlyWhen ==
    [][\A it \in Items :
          fate[it] # "dropped" /\ fate'[it] = "dropped"
             => paused \/ ctxDone \/ Len(inbox) = InboxCap]_vars

\* An event the watcher's channel took is pushed, skipped or failed in the
\* end, unless /pause or a shutdown comes: neither full channels nor retries,
\* bisync passes, polls and repairs under the lock can starve it.
EventHandled ==
    \A it \in Items :
       fate[it] = "inflight"
          ~> (fate[it] \in {"pushed", "failed", "skipped"} \/ paused \/ ctxDone)

\* A run that ForceRun accepted takes place: a pass starts after the request,
\* whatever pushes and polls hold the read lock, unless the agent shuts down.
ForceHonoured == (forceCh = 1) ~> (bisyncPc = "pass" \/ ctxDone)

\* A shutdown signal ends the process: nobody waits for anybody for ever.
ShutdownEnds == ctxDone ~> (runPc = "stopped")

\* The promise SyncGate states, of who is inside: shared and exclusive use.
Owner == IF ExclusiveUsers = {} THEN NoProc ELSE CHOOSE p \in ExclusiveUsers : TRUE
Gate == INSTANCE SyncGate WITH
            Readers <- Workers \union {Puller}, Writers <- Handlers \union {Bisync},
            Nobody <- NoProc, inside <- SharedUsers, owner <- Owner

\* docs/architecture.md, bisync safety net: pushes and polls on one side and
\* bisync passes and chain repair on the other use the data by turns.
ByTurns == Gate!Spec

============================================================================
