# Verification of homedrive

homedrive (`src/homedrive`) is a Go agent that keeps a local directory and a
Google Drive folder in step, in both directions. This directory models its core
in TLA+, checks the models with TLC on small instances, and proves most of the
safety properties with TLAPS for every value of the constants.

    tlc -config AgentSafety.cfg MCAgentRun     # one run; PROJECT.json lists all
    tlapm AgentRun_proofs.tla                  # the proofs

## 1. The system

### Components, state, operations

| Component | Source | State | Operations | What makes it correct |
|---|---|---|---|---|
| Agent runtime | `cmd/homedrive/agent_run.go`, `agent.go` | goroutines, channels, run context, WaitGroup | start, pump, shutdown in order | shutdown ends; the store is closed after its users |
| Control | `agent_control.go`, `internal/http` | pause flag | pause, resume, resync, repair, reload, status | an accepted request takes effect |
| Push syncer | `internal/syncer/syncer.go`, `retry.go`, `push_*.go` | work channel, workers | take an event, retry, upload or delete, record | no event lost or doubled; none starved |
| Puller | `puller.go`, `pull_process.go` | page token (persisted) | poll, process a change, persist the token | what is on Drive arrives; deletions too |
| Drive client | `internal/rcloneclient` | id-path cache (memory only) | changes.list, full walk, file operations | every change is translated or found later |
| bisync | `bisync.go`, `bisync_ops.go` | running flag, forceCh, pendingPrune | hourly or forced pass: diff, sync, resolve, prune, sweep | alone with the data; repairs what feeds missed |
| Conflicts | `conflict.go`, `internal/oldsuffix` | `.old.<N>` siblings | pick a winner, move the loser, fetch the winner | a loser is never overwritten |
| Retention GC | `internal/store/prune.go` | journal entries of siblings | evict by count and by age | oldest first, file before entry |
| Journal | `internal/store/journal.go`, `rename.go` | BoltDB entries, meta | Put, Get, Delete, ForEach, RewritePrefix | describes what is on disk and on Drive |
| Watcher | `internal/watcher` | watches, debounce timers, pending renames, suppressed prefixes | fsnotify events, walk, pair, debounce, send | no change is hidden; renames are real |
| Chain repair | `internal/syncer/repair.go` | marker in meta | flatten nested `.old` chains | losers and their entries kept; done means done |
| Loser names | `internal/oldsuffix` | none | format, parse, next free number | what is put on comes off; a free name beside its file |
| Directory renames | `syncer.go`, `internal/store/rename.go` | journal keys | move on Drive, then rewrite the prefix | Drive and journal follow the user |
| MQTT client | `internal/mqtt/mqtt.go` | connection, retained presence | connect, reconnect, will, Close | shown online while it runs, offline when gone |
| Quota, HTTP server, config, ctl, OAuth status | `internal/quota`, `internal/http`, `internal/config` | reports and settings | | |

### How they interact

    fsnotify -> Watcher -> events chan -> pump -> pushEvents / pushRenames
             -> fan-ins -> work chan -> workers --RLock--> Drive, journal
    timer    -> pull loop --RLock--> Puller.poll -> local disk, journal, token
    ticker, /resync -> Bisync.execute --Lock--> everything
    /conflict/repair -> RunChainRepair --Lock--> everything
    journal  -> echo guard of the Watcher

The shared state is the local disk, the Drive folder and the journal. One
`sync.RWMutex` separates workers and polls (readers) from bisync passes and
repairs (writers). Workers and polls run beside each other, and beside the two
users, with no lock on single files.

### What is hard

The list is `hazards` in `PROJECT.json`, each at its line: writers and readers of
the lock at shutdown; bounded channels of which the first drops; a page token
that moves on after a failure; crashes between two halves of a pair of updates;
numbers that are given out again; differences computed once and used later;
events, timers and walks that race with the user and with homedrive's own writes.

## 2. Modules

| Module | Models | Kind |
|---|---|---|
| `GoRWMutex` | `sync.RWMutex` (external), with announced writers and queued readers | component |
| `SyncGate` | what the lock is for: shared or exclusive use, by turns | abstract specification |
| `AgentRun` | pump, channels, fan-ins, workers, pull loop, bisync, control handlers, shutdown; composes `GoRWMutex` and implements `SyncGate` | component |
| `PullFeed` | page token, feed, full walk, id cache, change processing, the bisync pass as a repair | component |
| `ConflictRetention` | a file and its siblings on both sides: push, pull, bisync, resolution, numbering, GC | component |
| `Watcher` | fsnotify loop, walk of new directories, debouncer, rename pairer, echo guard | component |
| `FileSync` | one file: workers, poll, pass, echo guard and both users, interleaved at every stat, transfer and journal write | component |
| `OldSuffix` | the names of losers as sequences of characters | operators |
| `ChainRepair` | the repair of nested losers, with its journal steps, marker and failures; uses `OldSuffix` | component |
| `DirRename` | directory renames and uploads by a pool of workers, the prefix rewrite, bisync | component |
| `Presence` | the MQTT client and the broker's retained message | component |
| `MC...` | instances for TLC | |
| `AgentRun_proofs`, `PullFeed_proofs`, `ConflictRetention_proofs`, `FileSync_proofs`, `ChainRepair_proofs`, `DirRename_proofs`, `Watcher_proofs`, `Presence_proofs` | theorems about the module of that name | proofs |

In the modules with a constant `Setups` one run checks several instances. Each
member of `Setups` fixes a configuration (a conflict policy, a retention limit)
and the bounds (which users act, which faults occur, how often); the initial state
chooses one in the variable `setup`, which never changes. A property that is meant
for some of the instances only says so in its own formula.

### AgentRun

One item is one watcher event: of a file, of a directory (not pushed) or a paired
directory rename. `inbox`, `chan`, `work` are the channels with their capacities;
`pump`, `fan[c]`, `worker[w]`, `pullPc`, `bisyncPc`, `repairPc[h]`, `runPc` are
the goroutines. `fate[it]` says where an item ended: pushed, failed, skipped or
dropped. A step ends where the code may block or be overtaken: at a channel
operation, at `RLock` and `Lock`, between two attempts, between `ForceRun`'s check
and its send, and between a deferred `Unlock` and the reset of `running`. What a
push, a poll or a pass does with the data is left to the other modules: here each
is a step that succeeds or fails. Go's `select` may take any ready branch, so the
`ctx.Done` branches are actions of their own that compete with the others.

### PullFeed

A Drive id has a state (live, trashed, removed), a path, a version and the
position of its last change in the feed, which lists each id once. `token` is the
persisted page token, of one of two kinds: a start token asks for the full walk,
a page token for the feed. A poll lists, processes the changes one after the other
and persists the next token; each change takes the steps of the code (the file,
then the journal). `Restart` is a crash at any point: the id cache and the poll
under way are lost, disk, journal and token stay. A bisync pass compares,
uploads, downloads and resolves as in `bisync_ops.go`; it lists the root only, as
the code does. Only the remote user edits, so that every local change is
homedrive's own. A walk and a bisync listing carry no MD5, feed entries do, and
the comparisons use what they get. What a poll has listed is a set of changes, each
with its place (`seq`); `Item` is the first of them.

### ConflictRetention

Slot 0 is the file, slot N is `<file>.old.<N>`. `journal` has per slot the
recorded local and remote versions, whether an MD5 was recorded, and the side
(`LastOrigin`); `older[n]` has the entries with an older `LastSyncedAt` than `n`, and
`expired` the siblings that `max_age` has overtaken (`Age`, oldest first). The resolution of a
conflict is a sequence of steps with a crash or a remote failure between any two
of them, in the two orders the code has: the pull path journals the loser and
prunes before it fetches the winner; bisync fetches the winner, journals winner
and loser, and prunes when the pass ends. homedrive's own uploads, moves and
deletions come back through the feed, and its renames and removals on the disk through
the watcher: `events` has what the debouncer or the push workers hold about siblings.
The echo guard drops a Create whose file has the recorded time, and never a Remove
(`FireEvent`); a sibling that differs from its entry is uploaded (`PushSibling`), and a
Remove, that of the GC included, deletes the object and puts an entry back
(`PushRemoved`). Journal writes of a resolution may fail (`StoreFails`), those of the GC
too (`DeleteEntry`); failing writes of plain pushes and downloads, and
`adoptIdenticalRemote`, are left to `FileSync`. Two bounds: no push of a sibling is
handled while the GC is evicting, and, unless the instance has a lagging watcher
(`restless` contains `watcher`), events on siblings are pushed before the next
resolution begins. `kept` is auxiliary: the losers that the GC has not evicted.

### Watcher

A path is the sequence of its names. `tree` is the disk, `watch[d]` the name
under which the kernel reports on directory `d`, which after a rename is the old
one until the watcher re-watches. `queue` holds the fsnotify events. The event
loop handles one event at a time in the order of `handleFSEvent`; walks of new
directories are interleaved with the user (`job`), since that race is what the
walk is for (#118). A debouncer callback takes its event under the mutex and sends
later (`firing`). The echo guard compares with `record`, which the Puller writes
after the file (#122). Pushes of emitted events and of `DirRename`s are taken to
succeed at once, as is the rewrite of the records. Every timer and window may end
at any time. The guard's tolerance of one second is left out: two
contents differ by more. The model begins when `initialWalk` has put a watch on every
directory, with nobody at work meanwhile: a file that is made in a directory before its
watch is there is reported by nothing and left to bisync. `told` and `hasty` are
auxiliary.

### FileSync

A version is a content and a modification time. `local`, `remote` and `journal` are
the file, the object and the entry; `feed` is what the next poll will list for the
path, homedrive's own uploads and deletions included. A push opens the file, sends
it, stats the file again and writes the entry; an attempt that fails, or whose answer is
lost, is followed by another that opens the file anew, or by none (`PushFails`; which
attempt is the last is left open, and with fault `retry` absent it is the first); a poll detects a conflict, moves the
loser aside, transfers, stats and writes the entry; between any two of these steps
the other worker, the poll, the timer and (with `overlap` `user`) the local user may
act. The watcher is its echo guard and its debounce timer: details are in
`Watcher`. A pass is one step, since the write lock keeps everybody but the users
out; its own failures are in `PullFeed` and `ConflictRetention`. A crash loses the
events in memory and replays the poll. `want` is auxiliary: what each user left.

### ChainRepair and OldSuffix

A name is a sequence of characters, so that the repair works on what `TrimOne` and
`Base` really make of a name. The initial states are the layouts that earlier
versions could leave: any set of losers, nested up to three deep, on one side, on
both alike or each on the side it was made on. A pass lists both sides once, the local
disk whole and of Drive the root alone (`Listed`; `folders` are the files that are in a
folder), keeps the live sets as the code does, and takes three steps for each link
(rename and look up its entry, delete the old entry, put the new one), of which the
journal's may fail with the error ignored. `link` of a file says where its content was
first.

### DirRename

A path is a sequence of characters with a separator. `remote` and `journal` are
functions from paths to versions; a rename moves all keys in a directory.
`RewritePrefix` is what the transaction leaves: its keys are deleted and put back in
their order, so a new key that is an old one too stays only if it was deleted first. Workers
take events and renames from two channels, with attempts that fail, or succeed with
their answer lost. `folders` says whether `MoveFile` moves a folder. The clients of this
repository do not (section 5), so that with them every rename fails; the one that PLAN.md
6.4 describes, and for which the rewrite is written, does (`CanMove`, external).

### Presence

Client, connection, broker session and the retained message; what a session has
sent and the broker not yet received is in `wire`. paho and the broker are
external; the module's head says what is assumed of them.

## 3. Runs

| Run | Question | Result |
|---|---|---|
| `AgentSafety` | Are events lost or doubled, do users of the data overlap, is the store closed too early? | pass, 1.28 M states |
| `AgentLive` | Can a queued event or an accepted `/resync` starve, and does every shutdown end? | pass, 140 k states |
| `FeedMirror` | Does a crash, a failed listing, a token reset or a cut-off download leave a stale or a deleted file unnoticed? | pass, 1.36 M states |
| `FeedRepaired` | Does bisync repair what failed after the token moved on? | pass, 22 k states |
| `FeedUnresolved` | Does bisync catch a change whose path could not be resolved? | violation |
| `Retention` | Are losers kept, journaled, limited and evicted in order, with failing operations, crashes, and pushes of the siblings themselves? | pass, 2.27 M states |
| `RetentionReuse` | Are they with the GC, the pull path and bisync together? | violation |
| `WatcherTree` | Is every change told and every directory watched? | pass, 246 k states |
| `FileNet` | Do pushes, polls, passes and their echoes keep one file right, and come to rest? | pass, 1.54 M states |
| `RepairKeeps` | Does a repair keep every content and entry, finish what it can see, and leave free numbers? | pass, 137 k states |
| `DirMoves` | Does the journal keep to what is on Drive, and do files of renamed directories get there? | pass, 94 k states |
| `PresenceShown` | Is the agent shown as what it is? | pass, 1.6 k states |

### Properties

* `Conserved`: an accepted event that is not done with is in exactly one place.
  `LossOnlyWhen`: it is lost only to a full watcher channel, `/pause` or shutdown.
* `ClosedAfterDrain`: the journal is closed only when no worker, poll or pass
  can write. `ByTurns`: `AgentRun` implements `SyncGate`.
* `EventHandled`, `ForceHonoured`, `ShutdownEnds`: liveness.
* `LiveMirrored`: with the feed used up, the local file is the one on Drive, or
  the next pass sees it as missing. Where no local write fails or is cut off, Drive
  accepts homedrive's changes and the file is not in a folder; and but for a file that
  a move brought back in the version the journal records (`TakenForRecorded`), which
  the poll passes over although it has downloaded a newer one in between (section 5).
  `DeadRemoved`: a binned version is not on disk, where neither passes nor moves and
  removals of ids can bring it back and no deletion fails. `Repaired`: again and again
  every remote file is current.
* `Preserved`: every loser that was not evicted is still on some slot.
  `JournalCovers`: outside a resolution each sibling has an entry.
  Both without crashes and failing journals. `AtMostMaxPerFile`: no more siblings than
  that, on both sides together, where all losers are local, nobody edits the file during
  a resolution and events on siblings are pushed between resolutions. `EvictsOldest`: the
  GC forgets a sibling only when it is too old or `max_per_file` newer entries are there
  (entries, not files: section 5). `EvictLeavesNoFile`: and only when its file is gone
  from the side where it was made.
* `EveryChangeTold`: at rest, an event that agrees with the disk was sent after
  the last change of every file, and the pairer knows every directory, unless a
  directory was removed while it was being added (`hasty`, section 5). `Covered`: at
  rest every directory is watched under its own name.
* `SafetyNet`: at rest, two sides that differ are a difference for the next pass;
  the journal does not hide it. `LocalStands`, `RemoteStands`: what the only user
  wrote is not replaced by an echo, an older version or a resolution.
  `PullKeepsEdits`: a poll replaces a local file only if it was in sync, is moved
  aside or is what Drive has. `Converges`: the echoes end, with both sides alike.
* `Survives`: each side keeps everything it had. `DoneFlat`: with the marker set no
  nested link is left beside its file, on the local disk and in the root of Drive.
  `EntriesCarried`: entries go with their files. `NextFree`: after a repair, the number
  that `NextOldN` finds in the journal for the next loser is free on both sides, and the
  name hangs off the file it comes from. The last two without faults, and where both
  sides are renamed alike (`OneEntry`).
* `EntriesFollow`: at rest the entries are those of what is on Drive, with one worker,
  no crash or lost answer, and no name that begins with another. `Followed`: in the
  end every local file is on Drive and in the journal under its own name, although no
  rename reaches Drive or some are lost; what is left there under old names is not
  looked at.
* `GoneOffline`, `Shown`: an agent that has gone is not shown online; one that
  stays is, however its connection breaks.

Each property of a passing run has a mutant in `PROJECT.json`: a bug of the
plausible kind (a dropped lock, an off-by-one, a swapped order) under which the
same run finds the property violated.

### Bounds, and why they are enough

* `AgentSafety`: two items, two workers, one handler, all channels of capacity
  one, two attempts. With capacity one every send can block and the watcher's
  channel can be full; two items on two channels meet in `work`; two workers can
  hold the lock together. Workers are symmetric; no liveness is checked there.
* `AgentLive`: a file event, one worker, a repair handler, `/resync` and the
  signal, one attempt: what waits for each other are kinds of goroutines and not
  numbers of them, and a retry under the same read lock adds no waiting. (With two
  attempts, or without the signal and with a directory event too: no error.)
* `FeedMirror`, two instances over four ids on two paths: three changes of every
  kind with passes and expired tokens, so that a name can be freed and used again;
  four changes with torn downloads and no passes (a pass uploads what it finds,
  section 5). The remote accepts two changes of homedrive beyond the user's
  (`maxHead`), then refuses. Ids are symmetric. `FeedRepaired`: removed ids,
  failing downloads and crashes, no symmetry.
* `Retention`, seven instances. Numbers to 4 and a limit of 2 with 7 edits, so
  that numbers are evicted and given out again; `remote_wins`, push and pull, any
  remote operation failing; the same with losers that grow too old and a journal that
  cannot be written, so that a loser stays without an entry and an evicted one keeps its
  own. (Under the other policies a sibling on Drive comes back through the feed and is
  downloaded, so that it exists twice, and `AtMostMaxPerFile`, which counts both sides,
  is stated for `remote_wins`.) `newer_wins` with a limit of 1 and crashes between any
  two steps, with and without `max_age`, down to a conflict of a sibling that the GC
  evicts before the winner is fetched; a limit of 1 with a watcher that lags behind,
  with failing writes and with crashes: there only the action properties are claimed
  (section 5). All three resolvers with failing writes, and without faults but with
  edits and events in the middle of a resolution, with a limit that is not reached
  (`config.go` raises a limit below 1 to 1, so there always is one).
* `WatcherTree`: two directories that can become each other by renames, each with
  a subdirectory and a file in it; four steps of user and Puller, of every kind
  (with five steps: 3.5 M states, no error; one directory in another with a file, nine
  steps without renames: none either). `Calm` is an assumption on the
  user: a rename is made when the watcher is at rest and is left to settle; a
  file just downloaded is edited after it is recorded, and a file Drive knows is
  removed when its directory is watched. Section 5 says what happens otherwise.
* `FileNet`: two workers, so that two events of the file are handled at once, and
  ten instances of two to four user steps: every deed of both users with every
  fault, before the first pass; both writing, with failures and crashes, under each
  policy; both writing and touching, without faults (`Converges`); the local user
  alone with overlapping transfers (`LocalStands`); the remote user alone with
  downloads that write the file in parts (`RemoteStands`; the timer does not fire before
  such a download is recorded, section 5 says what happens if it does). Repeated attempts
  are in the instances of two steps. A violation takes an edit, its echo and an edit that
  meets it: three steps; one more lets the result meet another pass.
* `RepairKeeps`: six losers of a file, up to three deep, two of them beside each
  other, with numbers taken, in the root of Drive or in a folder; every fault; four
  formats, among them one whose literal overlaps with itself and one that contains a
  character of the name; a user's file `f.01`, which is no loser. `MaxProbe` is 6: more losers than fit
  cannot arise from these.
* `DirMoves`: three directories; RcloneFS, and a client that moves folders. One worker, two files, two renames and an edit with
  refused calls and passes; four renames, back and forth, without passes; two
  workers, a rename, an edit, every fault and a crash.
* `PresenceShown`: five connections, enough for a break on either side first, a
  crash, a restart and a clean end in one behaviour.

Deadlock is checked everywhere but in `PresenceShown`, whose bound on connections
ends a behaviour anywhere; the final states of an ended process, of used-up
bounds and of a system at rest are explicit stuttering steps.

### Fairness

`AgentRun`: weak fairness for a goroutine that can go on: the Go scheduler is
preemptive. Strong fairness for a branch of a `select` that is ready again and
again (`select` picks at random among the ready ones) and for taking the inner
mutex of the lock, which Go hands to a waiter that has waited for a millisecond.
No fairness for the watcher, the user, the timer of bisync or an attempt that
succeeds. `PullFeed`: polls and passes go on; a pass starts again and again
(ticker); an operation on a path that is tried again and again succeeds at some
time (remote faults do not last for ever), and crashes stop. The counterexample of
`FeedUnresolved` is under that fairness too. `FileSync`: timers end, workers and
polls go on; strong fairness for the pass, which gets the lock between two pushes
(that it does is what `AgentLive` checks). `DirRename`: workers go on and the ticker
comes. `Presence`: paho reconnects and delivers, and what has broken is noticed by
the other side (keep-alive); nothing has to break and nobody has to close.

## 4. Proofs

Every theorem holds for every value of the constants that the module's assumption
allows: any sets of items, workers, ids, paths, names, any capacities and limits, any
set of configurations (`Setups`). The assumptions say what the configuration can be
(a policy is one of three, a count is a natural number) and that the model's marks
(`NoEntry`, `NoPath`) are not values; they are named in the module that declares the
constants. Most properties are not inductive; the invariant that is, and why it is
needed, is the point of each proof. TLC has checked the larger ones on the runs.

**AgentRun** (`AgentRun_proofs`).

* `TypeCorrect`. That a worker's attempts stay within `MaxAttempts` needs that one
  about to try has not used them up (`Retrying`).
* `StoreClosedAfterDrain` (`ClosedAfterDrain`). `DrainInv`: once the journal is closed,
  everyone in the WaitGroup has returned. That nobody pushes now would not exclude that
  somebody starts; a goroutine that has returned cannot.
* `UsesByTurns` (`ByTurns`), the refinement of `SyncGate`. `LockInv` ties the lock to
  the program counters; `NextLockStep` reduces each step to one of the lock's five
  operations or none, and `GateStep` maps each to a step of `SyncGate` or a stutter.
* `EventsConserved` (`Conserved`). An item's places are counted: its positions in three
  kinds of channel, and the goroutines that hold it. Lemmas say what `Append`, `Tail`
  and a hand-over do to a count; each action moves an item from one place to another.
* `LostOnlyWhen` (`LossOnlyWhen`), from the types: it is a statement about one step.

**PullFeed** (`PullFeed_proofs`).

* `TypeCorrect`: positions and versions stay behind the head of the feed.
* `Mirrored` (`LiveMirrored`). `FeedInv`: a local file that is stale is told about by
  a change behind the token (`TokenInv`), or by one that the poll has listed and not
  processed (`ListInv`); a file just transferred is stale only if it changed since
  (`ItemSettled`, `DiffSettled`); or the journal records what Drive has (`Excused`).
  This needs that one live file has a path (`DriveInv`), that what was listed is
  current unless it changed after the list (`ItemCurrent`), and whose turn it is
  (`TurnInv`). `GrowInv` removes the last alternative where nothing is moved: versions
  at a path only grow, with the journal, the list and the differences behind them.
* `BinnedRemoved` (`DeadRemoved`), torn downloads and local files that win a conflict
  included. `DeadRemoved` speaks of the end of the feed only; `BinInv` says at every step
  what holds of a version whose deletion has been processed (`Applied`): it is on disk only
  if Drive has a file there or another deletion of the path is due (`OnDisk`), then the
  journal agrees with the disk (`NoConflict`, `Recorded`), and no resolution is about it
  (`OutOfStep`). Equal versions of one path, which an upload can make, are told apart by
  their place in the feed (`BinAgain`), deletions come in the list before the file that
  has their path now (`BinList`), and what was binned before the full walk is nowhere
  (`BinStart`). `Moves` bounds what any step may put at a path, so that a version that is
  neither on disk nor on Drive stays away (`AbsentKept`); only `Forget` makes a deletion
  processed (`BackPoll`, `BackItem`), so the other steps owe nothing new.

**ConflictRetention** (`ConflictRetention_proofs`).

* `TypeCorrect`, with the strict total order of the entries (`OrderInv`).
* `EvictsFileFirst` (`EvictLeavesNoFile`) and `EvictsOldestFirst` (`EvictsOldest`), for
  every configuration and fault, the pushes of siblings included. The number of newer
  entries goes down while the GC works, so `ReasonInv` counts those that are not to be
  evicted themselves.
* `SiblingsJournaled` (`JournalCovers`) and `LosersPreserved` (`Preserved`) under `Safe`:
  no crash, no failing journal, and either all losers on the local side (`LocalLosers`:
  `remote_wins`, no bisync, no edit during a resolution, events pushed between two; any
  retention) or nothing evicted and no remote failure within a pass. Without it they are
  false: `RetentionReuse`, and the free numbers of section 5. `CoverInv` says that a
  sibling without an entry is the loser that is being noted, and that the number
  chosen for it is free; `PassInv` that the pass's differences are still true; `EventInv`
  what an event on a sibling can still do: a Create finds the file with the time of its
  entry, so it is dropped, and a Remove finds the sibling gone from both sides; where
  nothing is evicted there is no Remove at all.
* `NoMoreThanMax` (`AtMostMaxPerFile`); the property states its conditions (`LimitInv`:
  all but those to be evicted are within the limit).

**FileSync** (`FileSync_proofs`). The properties carry their conditions in their own
formulas; where a condition is dropped TLC finds a counterexample.

* `TypeCorrect`.
* `NothingHidden` (`SafetyNet`), where each transfer has the path to itself (`Apart`) or
  the local user is alone. A time belongs to one content (`StampInv`), what a worker
  opened is what is there (`TurnInv`), and an entry without an MD5 has recorded one
  version for both sides (`AgreeInv`). Two transfers at once can record a pair that
  never was.
* `LocalAuthoritative` (`LocalStands`), with the local user alone, writing between
  transfers, policy not `remote_wins`, downloads not slower than the timer. `AloneInv`:
  what Drive, the entry, each worker and the poll have is the user's last version or an
  earlier one, which Drive has had; so the poll never has news.
* `DriveMirrored` (`RemoteStands`), with the user on Drive alone, not removing, no crash,
  nothing overlapping. `FollowInv`: no push is ever under way, and the local file is a
  version Drive has had, recorded as such except while a download writes it.
* `EditsKept` (`PullKeepsEdits`), an action property, where the poll compares what it
  replaces (`Compared`: nothing removed or touched, nothing slow). `EditInv`: from the
  comparison to the replacement the local file is the one that the journal has.

**DirRename** (`DirRename_proofs`).

* `TypeCorrect`. Paths are sequences of characters, so this begins with lemmas on what
  it means to begin with a name: a file is in one directory (`InPath`), a rename of a
  path gives a path (`KeyPath`), with names apart a prefix is a directory (`PrefixIsDir`).
* `EntriesFollowDrive` (`EntriesFollow`). `EntriesInv`: between its two steps the worker's
  job is exactly what the entries lack. `RewriteIsMove`: to a free name the rewrite does
  to the entries what the move did to the files (reached only with a client that moves
  folders).

**ChainRepair** (`ChainRepair_proofs`), for any matcher whose literal has a character
that is not a digit, links of up to `MaxDepth` suffixes, and no more links than
`MaxProbe`.

* Names come first. `TrimFormat`: what `Format` puts on, `TrimOne` takes off, since the
  last place of the literal is before the number. `DigitsInjective`, `NameInjective`:
  different links have different names. `BaseOfName`: `Base` of a link is its stem,
  whatever the numbers. `FirstFreeFree`: with at most `MaxProbe` names there is a free
  number. The library's induction theorems have an operator for a parameter and cannot
  be used; the lemmas take instead the least element of the set of counterexamples
  (`NatLessThanWellFounded`), which is induction for one formula at a time.
* `Core`: `CoreInv`, from which `TypeCorrect`, `ContentSurvives` (`Survives`) and
  `MarkerMeansFlat` (`DoneFlat`) follow. Every file has the name of its link or a flat one
  (`Placed`), no two files of a side have one name, and the live set of a pass is what is
  there of what is listed; so a target is free and a rename overwrites nothing. Each
  nested link that is listed with its file is still to be done (`DeepInv`): when the list
  is empty none is left, and the marker is true of what was listed.
* `EntriesFollow` (`EntriesCarried`), from `CarryInv`: without faults the entries are
  those of the files, but for the one link that is between its rename and its `Put`.
* `NextLoserFree` (`NextFree`), from both: each file of either side has its entry, so a
  number without one is free on both.

**Watcher** (`Watcher_proofs`), for any tree in which a name is always that of a file or
always that of a directory, and a calm user (`Calm`). Without `Calm` the properties are
false (section 5), and so is `TypeOK`: an event is named after a watch, whose name is a
path of the tree only because renames settle.

* `Steadied`: `IndInv`, from which `TypeCorrect` and `EveryDirWatched` (`Covered`)
  follow. `Shape`: the tree hangs together, and watches
  are of directories that exist. `Reached`: every directory that is not watched is
  promised a watch: its Create, or that of one above it, is queued, or the walk still
  has it or one above it to watch or to read. A removal keeps the promise because what is below
  is gone, a `mkdir` because the parent is watched or promised itself. `Own`: a watch
  has its own name except between a rename and the end of its pair. `Order`: while a
  rename settles the queue holds just what the rename put there, in its order; `Gone`: a
  directory that is to be paired is not there any more.

**Presence** (`Presence_proofs`).

* `TypeCorrect`; `GoneIsOffline` (`GoneOffline`). `OfflineInv`: once `Close` is under way
  "offline" is the last word on the wire, and a DISCONNECT, which suppresses the will,
  comes after it.

### Only model-checked

* Liveness under fairness (`EventHandled`, `ForceHonoured`, `ShutdownEnds`, `Repaired`,
  `Converges`, `Followed`, `Shown`): out of the prover's reach.
* `Watcher.EveryChangeTold`: the invariant has to order the events of one file in queue,
  debouncer and callbacks against the walk. A first attempt found that it fails for hasty
  removals, which `Covered` does not.

## 5. Disagreements between the code and what is said of it

Two are runs, with a counterexample:

* `FeedUnresolved`: after a restart the id cache is empty, a change in a folder is
  dropped, the token moves on, and bisync lists the root only. `driveapi.go:290-291`
  says "the hourly bisync safety net will catch the latter case".
* `RetentionReuse`: bisync copies a sibling to the other side; the GC removes one
  side only; the freed number goes to a new loser, which the pass's own stale
  difference overwrites. `README.md:26-27` says that the loser is preserved.

The others were met while modelling. The models have the behaviour as the code has
it; where a change of an instance shows it in TLC, the instance is named.

Runtime, feed, conflicts, watcher:

* A repair handler that outlives the ten seconds of the HTTP shutdown is not in the
  WaitGroup; the store is closed under it (`agent_run.go:139-141` says otherwise).
* An event whose attempts are used up is gone; `docs/architecture.md:107-108` says
  that it stays queued.
* The token is persisted although a change failed; `PLAN.md:352-353` says after
  success of all.
* A file moved back on Drive to a name where another one was downloaded meanwhile, but
  not recorded because of a crash, is passed over by the poll: its MD5 and mtime are those
  the journal has (`pull_process.go:124`, `:92`), and the other content stays
  (`LiveMirrored` without its last disjunct; it takes more changes than `FeedMirror` has).
* A remote move downloads the new path and leaves the old one;
  `docs/architecture.md:128` says it moves the file.
* A deletion that a token reset skipped is undone by the next pass, which uploads
  the file; `docs/architecture.md:147-148` says no change is missed.
* `hasDivergence` compares an empty MD5 with a recorded one, so a file pulled
  incrementally is a conflict in the next pass.
* bisync journals the loser last: after a failed download its number is free. In
  the same way a crash between the rename and the entry frees it on the pull path, and so
  does a failed `Put` (`conflict.go:189`): `Preserved` without its condition, faults
  `crash` or `store`.
* The GC's own removal raises a Remove, which has no echo guard (`watcher.go:264`); its
  push finds nothing on Drive, which counts as success (`push_remove.go:19-21`), and
  `recordResult` puts an entry for the evicted sibling, the newest of all
  (`syncer.go:374-375`). It reserves the number and counts in `selectEvictions`, so that
  with `max_per_file` 2 the next eviction takes a loser although only one newer one is
  there: `EvictsOldest`, counting the newer siblings that have a file. `prune.go:200-215`
  sorts and cuts as if every entry had a file; PLAN.md:653-654 keeps the
  `max_per_file` newest.
* A file that is edited between `detectConflict` and the rename (`conflict.go:172`) becomes
  a sibling whose time is not that of its entry: its Create is pushed, and the copy on
  Drive outlives the eviction, which removes the local side only (`AtMostMaxPerFile` and
  `JournalCovers` with `restless` `local`). With a watcher that lags behind, the Remove of
  an evicted sibling may be pushed when its number has been given again, and deletes the
  new loser's object (`Preserved`, `restless` `watcher`, with a limit).
* A push looks at nothing on Drive; `docs/conflict-resolution.md:34-37` describes a
  check. bisync ignores `conflict.policy` (`:77`) and copies `.old.<N>` files to the
  other side (`:124`), as the pull path does with those on Drive.
* Any directory made within the window pairs with the oldest rename, so one that was
  moved out of the tree pairs with an unrelated `mkdir`. Edits in a renamed
  directory are dropped while its prefix is suppressed
  (`docs/directory-rename.md:144` calls such events redundant). A local edit
  between a download and its record is taken for an echo. `WatcherTree` excludes
  these three with `Calm`; with `Calm = FALSE` TLC shows them. No property is about
  which renames are paired: with `Calm` the question cannot arise.
* A directory that is removed while its Create is queued or while it is walked, and made
  again: the late Create, or the walk, puts a watch on a directory below the new one
  before that has its own. What is removed there is reported; what is removed and made
  above is not, until the Create of the new directory is handled; its walk debounces the
  file that came last, and the older Remove, next in the queue, replaces that
  (`watcher.go:242`). A file that is there is reported as removed, and a directory may be
  untracked. `watcher.go:319-321` says that anything created in between is seen by the
  watch or by the walk. It takes nine steps of the user (`EveryChangeTold` without
  `~hasty`, directories `p` and `p/x` and a file in `p/x`); the next pass finds the file.

One file (`FileSync`; instances are members of `FileSetups` in `MCFileSync`):

* `pushEntry` and `recordDownload` stat the local file after the transfer: an edit in
  between is journaled as synced, its event is taken for an echo, and no pass finds
  it. `SafetyNet` without its condition, `overlap` `user`. PLAN.md:385-386 says the
  full diff catches "any drift".
* The guard compares with the journal, which is written when a download has ended: an
  event that fires before is pushed beside the poll and may put the downloaded
  version over a newer one. `RemoteStands` without its condition, `overlap`
  `transfer` and `timer`, fault `slow`.
* The feed's report of homedrive's own deletion removes a file made since
  (`pull_process.go:50`): `LocalStands` for deeds `write` and `remove`.
* Removals have no echo guard (`watcher.go:264`): without passes, homedrive's own
  removals and downloads may follow each other for ever: `Converges`, deed `remove`.
* `CopyFile` returns no MD5, so the feed's report of an upload is taken for a foreign
  change when the user has edited again meanwhile, and the upload is moved aside as a
  loser. `push_journal.go:15-19` says that the entry is there to prevent that.
* A push overwrites a remote edit without looking (above). A remote change that keeps
  the content but not the mtime is downloaded over a local edit that is not kept:
  `PullKeepsEdits` for deed `touch`. `docs/conflict-resolution.md:40-42` calls both
  conflicts.

Losers (`ChainRepair`, `OldSuffix`):

* The number of a link is chosen from the names of its own side, and both sides share
  one entry per name: of two losers on different sides one loses its entry
  (`EntriesCarried`, layout `apart`). `repair.go:192-193` says entries are carried over.
* A refused rename is logged, and the marker is set all the same (`DoneFlat`, fault
  `refused`); `bisync.go:484-487` says the marker means that the pass did not err.
* A dry run leaves the live sets as they are and reports one target for several links;
  `repair.go:36-37` says it reports what would have been done.
* `listRemote` is `List("")`, which shows the root of Drive alone (`bisync_ops.go:155`,
  `rclonefs.go:384-397`): a nested loser in a folder of Drive is never found, and the
  marker is set all the same, so that no later pass looks (`DoneFlat` over all files,
  `folders`). PLAN.md 11.5 speaks of every nested link. Where both sides have the file, the
  local rename takes the entry along and the copy on Drive keeps its old name without one.
* `repairOne` ignores the errors of `JournalGet` and `JournalDelete` (`repair.go:213-214`):
  the entry is lost, or the old one stays. After these, and after a crash or a failed
  `Put` between the two, a loser has no entry, and since conflicts number by entries
  (`journal.go:207-211`) its number can be given again (`NextFree` with faults).
* The losers of a user's file that is named like a loser, and whose base does not
  exist, nest by one level with each conflict (`NextFree` says where they hang).
* `New` accepts a format whose literal is made of digits, which cannot be parsed back;
  with all numbers up to `maxProbe` taken, the last is returned as if it were free
  (`oldsuffix.go:26-30` says the caller can tell).

Directories (`DirRename`):

* `MoveFile` looks its source up as a file (`rclonefs.go:222-226`; `MemFS` as well), so no
  rename of a directory reaches Drive: after its attempts it is given up, bisync uploads
  the files under the new name, and the old folder and its entries stay.
  `docs/directory-rename.md` describes a single call. What follows a move is therefore
  modelled for a client that does move folders.
* `RewritePrefix` is called without a trailing separator: renaming `d` rewrites the
  entries of `dx` (`EntriesFollow`, with the directories `<<1>>` and `<<1, 2>>`).
  `rename.go:16-17` says the prefix is `from/`.
* With a client that moves folders, and two workers, the second of two renames may use up
  its attempts before the first is done (`docs/directory-rename.md:150` says they are
  processed in order); and an upload of a file under its new name, or a pass, may overtake
  the rename, which comes through a channel of its own: the new folder is then in the way,
  the attempts are used up and the old folder stays.

Presence: `onConnect` does not look at `closed`; a handler that runs, or a reconnect
that ends, while `Close` is under way leaves "online" retained, and after the clean
DISCONNECT there is no will (`GoneOffline`, fault `race`).

Polling (not modelled): `GetStartPageToken` failures are not classified, so with no
stored token an OAuth error never slows the polls; and a configured interval of more
than 30 minutes is shortened to the cap by `NextPollInterval` (`puller.go:190-204`).

## 6. Not modelled

`PROJECT.json` lists every component with its reason. In short: dry run of the passes
(changes nothing); SIGHUP reload (log level only); the back-off of polls on OAuth errors
and OAuth validation (calls of external services); dangling shortcuts and directory
changes in the puller; HTTP routing, authentication and metrics; the event, state and
discovery publishers (one library call each); configuration and path filters (pure
parsing and matching); the quota monitor (a sequential threshold which the agent does
not construct); the resolver of `internal/store/conflict.go` (not constructed either);
the test doubles of the Drive client.

## 7. Plan

1. Proof: `EveryChangeTold` of `Watcher`.
2. Models: directories and dangling shortcuts in `PullFeed`, the rename of single files in `Watcher`.
