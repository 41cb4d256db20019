------------------------- MODULE ConflictRetention -------------------------
(***************************************************************************)
(* What becomes of the version that loses a conflict: the numbering of its *)
(* .old.<N> name, its journal entry, the retention GC and the copies that  *)
(* a bisync pass makes of it.  One synced file and its siblings: slot 0 is *)
(* the file, slot N is <file>.old.<N>.                                     *)
(*                                                                         *)
(* The pull path resolves in resolveConflict (internal/syncer/conflict.go) *)
(* and handleConflict (pull_process.go), bisync in bisync_ops.go, the GC   *)
(* is internal/store/prune.go and the numbering internal/oldsuffix.        *)
(* Content is a number that is also its modification time; 0 is no file.   *)
(* A poll processes one entry of Drive's change feed, in which homedrive's *)
(* own moves, uploads and deletions appear too; how entries get lost is    *)
(* the subject of PullFeed.  The watcher sees homedrive's own renames and  *)
(* removals, so that siblings are pushed like any other file.              *)
(***************************************************************************)
EXTENDS Naturals, Sequences, FiniteSets, SequencesExt

CONSTANTS
    MaxN,     \* bound: the largest N of the model (the code's is 65536)
    Setups,   \* the configuration, and what takes place: one of these
    NoEntry   \* "no journal entry"

Slots == 0..MaxN
Siblings == 1..MaxN

ASSUME RetentionAssumption ==
    /\ MaxN \in Nat \ {0}
    /\ \A s \in Setups :
          /\ s.maxPerFile \in Nat /\ s.maxAge \in BOOLEAN /\ s.maxEdits \in Nat \ {0}
          /\ s.policy \in {"newer_wins", "local_wins", "remote_wins"}
          /\ s.resolvers \subseteq {"pull", "push", "bisync"}
          /\ s.faults \subseteq {"remote", "store", "crash"}
          /\ s.restless \subseteq {"local", "remote", "watcher"}
    /\ NoEntry \notin [l : Nat, r : Nat, md5 : BOOLEAN, side : {"local", "remote"}]

VARIABLES
    setup,    \* which of Setups this behaviour belongs to
    local,    \* content of each slot on the local disk
    remote,   \* content of each slot on Drive
    feed,     \* changes no poll has delivered: [slot, del] in feed order
    events,   \* watcher events on siblings: [slot, op], debounced or with the push workers
    journal,  \* per slot: NoEntry or [l, r, md5, side]
    older,    \* per slot: the journaled slots with an earlier last_synced_at
    expired,  \* journaled siblings that are older than max_age
    edits,    \* the newest content a user has written
    job,      \* the resolution under way: [pc, by, slot, n, win, l, r]
    evicting, \* siblings the GC has selected and not yet evicted
    diffs,    \* differences the bisync pass has still to process
    marked,   \* Bisync.pendingPrune holds the file
    kept      \* losers that retention has not evicted (auxiliary)

files == <<local, remote, feed, events>>
entries == <<journal, older, expired>>
users == <<setup, edits>>
vars == <<files, entries, users, job, evicting, diffs, marked, kept>>

MaxPerFile == setup.maxPerFile  \* conflict.retention.max_per_file; the GC takes 0 for no limit
MaxAge == setup.maxAge          \* conflict.retention.max_age is set
Policy == setup.policy          \* conflict.policy
Resolvers == setup.resolvers    \* bound: which of the pull path, push and bisync take place
Faults == setup.faults          \* bound: what goes wrong
Restless == setup.restless      \* bound: who acts during a resolution too
MaxEdits == setup.maxEdits      \* bound on the edits of the two users

NoJob == [pc |-> "idle", by |-> "none", slot |-> 0, n |-> 1, win |-> "none", l |-> 0, r |-> 0]

\* The file is in sync to begin with; there are no siblings.
Init ==
    /\ setup \in Setups
    /\ local = [s \in Slots |-> IF s = 0 THEN 1 ELSE 0]
    /\ remote = [s \in Slots |-> IF s = 0 THEN 1 ELSE 0]
    /\ journal = [s \in Slots |-> IF s = 0 THEN [l |-> 1, r |-> 1, md5 |-> FALSE, side |-> "remote"]
                                  ELSE NoEntry]
    /\ older = [s \in Slots |-> {}] /\ expired = {}
    /\ feed = <<>> /\ events = {}
    /\ edits = 1
    /\ job = NoJob
    /\ evicting = {} /\ diffs = {} /\ marked = FALSE
    /\ kept = {}

----------------------------------------------------------------------------
(* Google Drive (external): each object has one entry in the feed, that of *)
(* its last change.                                                        *)

Changed(s) == [slot |-> s, del |-> FALSE]
Gone(s) == [slot |-> s, del |-> TRUE]

\* The object of slot s gets content c, or is made with it.
Upload(s, c) ==
    /\ remote' = [remote EXCEPT ![s] = c]
    /\ feed' = Append(RemoveFirst(feed, Changed(s)), Changed(s))

\* MoveFile(s, n): an object that has that name is replaced.
MoveFile(s, n) ==
    /\ remote' = [remote EXCEPT ![n] = remote[s], ![s] = 0]
    /\ feed' = Append(RemoveFirst(RemoveFirst(feed, Changed(s)), Changed(n)), Changed(n))

\* DeleteFile: what is not there is not an error.
DeleteFile(s) ==
    IF remote[s] = 0 THEN UNCHANGED <<remote, feed>>
    ELSE /\ remote' = [remote EXCEPT ![s] = 0]
         /\ feed' = Append(RemoveFirst(feed, Changed(s)), Gone(s))

----------------------------------------------------------------------------
(* The two users.                                                          *)

Edits(who) == edits < MaxEdits /\ (job.pc = "idle" \/ who \in Restless)

LocalEdit ==
    /\ Edits("local") /\ local[0] # 0
    /\ edits' = edits + 1
    /\ local' = [local EXCEPT ![0] = edits + 1]
    /\ UNCHANGED <<setup, remote, feed, events, entries, job, evicting, diffs, marked, kept>>

RemoteEdit ==
    /\ Edits("remote") /\ remote[0] # 0
    /\ edits' = edits + 1
    /\ Upload(0, edits + 1)
    /\ UNCHANGED <<setup, local, events, entries, job, evicting, diffs, marked, kept>>

----------------------------------------------------------------------------
(* The journal and the numbering.                                          *)

Journaled == {s \in Slots : journal[s] # NoEntry}

\* Put stamps the entry with the time, so that it is the newest.
Put(s, e) ==
    /\ journal' = [journal EXCEPT ![s] = e]
    /\ older' = [t \in Slots |-> (IF t = s THEN Journaled ELSE older[t]) \ {s}]
    /\ expired' = expired \ {s}

Delete(s) ==
    /\ journal' = [journal EXCEPT ![s] = NoEntry]
    /\ older' = [t \in Slots |-> (IF t = s THEN {} ELSE older[t]) \ {s}]
    /\ expired' = expired \ {s}

\* Mutant: the number of the siblings there are, without the one to come.
NextOldNCount == Cardinality({n \in Siblings : journal[n] # NoEntry})

\* Mutant: the first number, taken or not.
NextOldNFirst == 1

\* NextOldN: the smallest N without a journal entry.  A sibling's own
\* conflict hangs its loser off the file too, since the file is journaled.
Free == {n \in Siblings : journal[n] = NoEntry}
NextOldN == CHOOSE n \in Free : \A m \in Free : n <= m

NewerWins(l, r) == IF r > l THEN "remote" ELSE "local"

\* determineWinner.
DetermineWinner(l, r) ==
    CASE Policy = "local_wins" -> "local"
      [] Policy = "remote_wins" -> "remote"
      [] OTHER -> NewerWins(l, r)

Goes(pc) == job' = [job EXCEPT !.pc = pc]

----------------------------------------------------------------------------
(* The watcher.  What homedrive itself writes and removes raises events    *)
(* too; the file's own are taken for pending as long as it differs from    *)
(* its entry.  The model has no Rename events: no push handles them.       *)

Debounced(s) == [slot : {s}, op : {"create", "remove"}]

\* handleFsEvent and debouncer.add: the last event on a path replaces the
\* one before it.
Raised(s, op) ==
    IF s = 0 \/ "push" \notin Resolvers THEN events
    ELSE (events \ Debounced(s)) \union {[slot |-> s, op |-> op]}

Prompt == "watcher" \notin Restless    \* bound: events are pushed between two resolutions

\* isSelfInduced: the local file has the recorded time.
SelfInduced(s) == journal[s] # NoEntry /\ local[s] # 0 /\ local[s] = journal[s].l

\* fireEvent: the guard holds back a Create, never a Remove.
FireEvent(s) ==
    /\ Prompt => job.pc = "idle"
    /\ \E e \in events \intersect Debounced(s) :
          events' = (events \ {e}) \union
                        CASE e.op = "remove" -> {[slot |-> s, op |-> "delete"]}
                          [] SelfInduced(s) -> {}
                          [] OTHER -> {[slot |-> s, op |-> "upload"]}
    /\ UNCHANGED <<local, remote, feed, entries, users, job, evicting, diffs, marked, kept>>

----------------------------------------------------------------------------
(* The push path and the pull path.                                        *)

Sharing == job.by # "bisync"    \* neither runs during a bisync pass

PushEntry(s) == [l |-> local[s], r |-> local[s], md5 |-> FALSE, side |-> "local"]

\* A push uploads what is there and records it, whatever Drive holds.
PushFile ==
    /\ "push" \in Resolvers
    /\ Sharing
    /\ local[0] \notin {0, journal[0].l}
    /\ Upload(0, local[0])
    /\ Put(0, PushEntry(0))
    /\ UNCHANGED <<local, events, users, job, evicting, diffs, marked, kept>>

\* A push worker takes an event of sibling s (bound: not while the GC evicts).
TakesEvent(s, op) ==
    /\ Sharing
    /\ job.pc \notin {"prune", "unjournal"}
    /\ Prompt => job.pc = "idle"
    /\ [slot |-> s, op |-> op] \in events
    /\ events' = events \ {[slot |-> s, op |-> op]}
    /\ UNCHANGED <<local, users, job, evicting, diffs, marked, kept>>

\* What is gone by then, or is not answered for, is only logged.
PushSibling(s) ==
    /\ TakesEvent(s, "upload")
    /\ \/ local[s] # 0 /\ Upload(s, local[s]) /\ Put(s, PushEntry(s))
       \/ (local[s] = 0 \/ "remote" \in Faults) /\ UNCHANGED <<remote, feed, entries>>

\* execRemove: nothing to delete is a success, and recordResult puts an
\* entry for what was removed, with neither time.
PushRemoved(s) ==
    /\ TakesEvent(s, "delete")
    /\ \/ DeleteFile(s) /\ Put(s, [l |-> 0, r |-> 0, md5 |-> FALSE, side |-> "local"])
       \/ "remote" \in Faults /\ UNCHANGED <<remote, feed, entries>>

\* A poll comes to the first entry of the feed that is not yet processed.
Delivered(s) ==
    /\ "pull" \in Resolvers
    /\ job.pc = "idle"
    /\ feed # <<>> /\ Head(feed) = Changed(s)

\* The feed's entries carry the MD5; distinct contents have distinct ones.
SameMD5(s) == journal[s].md5 /\ journal[s].r = remote[s]

\* detectConflict.
Conflict(s) ==
    /\ journal[s] # NoEntry
    /\ ~SameMD5(s)
    /\ local[s] \notin {0, journal[s].l}

Unchanged(s) == journal[s] # NoEntry /\ journal[s].r = remote[s]

\* processFileChange: the recorded remote mtime, nothing to do.
PullSkip(s) ==
    /\ Delivered(s)
    /\ ~Conflict(s)
    /\ Unchanged(s)
    /\ feed' = Tail(feed)
    /\ UNCHANGED <<local, remote, events, entries, users, job, evicting, diffs, marked, kept>>

PullDownload(s) ==
    /\ Delivered(s)
    /\ ~Conflict(s)
    /\ ~Unchanged(s)
    /\ feed' = Tail(feed)
    /\ \/ /\ local' = [local EXCEPT ![s] = remote[s]]
          /\ events' = Raised(s, "create")
          /\ Put(s, [l |-> remote[s], r |-> remote[s], md5 |-> TRUE, side |-> "remote"])
       \/ "remote" \in Faults /\ UNCHANGED <<local, events, entries>>
    /\ UNCHANGED <<remote, users, job, evicting, diffs, marked, kept>>

PullConflict(s) ==
    /\ Delivered(s)
    /\ Conflict(s)
    /\ Free # {}
    /\ Prompt => events = {}
    /\ feed' = Tail(feed)
    /\ job' = [pc |-> "aside", by |-> "pull", slot |-> s, n |-> NextOldN,
               win |-> DetermineWinner(local[s], remote[s]), l |-> local[s], r |-> remote[s]]
    /\ UNCHANGED <<local, remote, events, entries, users, evicting, diffs, marked, kept>>

\* processDelete: the local file of that name and its journal entry.
PullDelete(s) ==
    /\ "pull" \in Resolvers
    /\ job.pc = "idle"
    /\ feed # <<>> /\ Head(feed) = Gone(s)
    /\ feed' = Tail(feed)
    /\ local' = [local EXCEPT ![s] = 0]
    /\ events' = IF local[s] = 0 THEN events ELSE Raised(s, "remove")
    /\ Delete(s)
    /\ UNCHANGED <<remote, users, job, evicting, diffs, marked, kept>>

\* A poll or a pass that finds nothing to do; the model's numbers used up.
NothingToDo == (job.pc = "idle" \/ Free = {}) /\ UNCHANGED vars

----------------------------------------------------------------------------
(* The steps of a resolution.  The pull path records the loser right after *)
(* the rename and prunes before it fetches the winner; bisync fetches the  *)
(* winner first, records winner and loser, and prunes at the pass's end.   *)

\* Back to nothing, or to the rest of the bisync pass.
Finish == job' = IF job.by = "bisync" THEN [NoJob EXCEPT !.pc = "pass", !.by = "bisync"] ELSE NoJob
AfterRename == Goes(IF job.by = "pull" THEN "note" ELSE "win")

\* os.Rename of the local loser: it replaces whatever has that name.
LocalAside ==
    /\ job.pc = "aside" /\ job.win = "remote"
    /\ local[job.slot] # 0
    /\ local' = [local EXCEPT ![job.n] = local[job.slot], ![job.slot] = 0]
    /\ events' = Raised(job.n, "create")
    /\ kept' = kept \union {local[job.slot]}
    /\ AfterRename
    /\ UNCHANGED <<remote, feed, entries, users, evicting, diffs, marked>>

\* MoveFile of the remote loser.
RemoteAside ==
    /\ job.pc = "aside" /\ job.win = "local"
    /\ remote[job.slot] # 0
    /\ MoveFile(job.slot, job.n)
    /\ kept' = kept \union {remote[job.slot]}
    /\ AfterRename
    /\ UNCHANGED <<local, events, entries, users, evicting, diffs, marked>>

\* Time passes: the oldest sibling that has not yet expired does.
Age ==
    /\ MaxAge
    /\ \E s \in (Journaled \intersect Siblings) \ expired :
          older[s] \ {0} \subseteq expired /\ expired' = expired \union {s}
    /\ UNCHANGED <<files, journal, older, users, job, evicting, diffs, marked, kept>>

\* Mutant: sorted the other way round.
OlderSiblings(s) == older[s] \ {0}

\* The siblings that selectEvictions sorts before s.
Newer(s) == {m \in Siblings : s \in older[m]}

\* Mutant: one sibling too many is kept.
SelectEvictionsOneMore ==
    {s \in Journaled \intersect Siblings :
        s \in expired \/ (MaxPerFile > 0 /\ Cardinality(Newer(s)) > MaxPerFile)}

\* selectEvictions: those that are too old, and all but the max_per_file newest.
SelectEvictions ==
    {s \in Journaled \intersect Siblings :
        s \in expired \/ (MaxPerFile > 0 /\ Cardinality(Newer(s)) >= MaxPerFile)}

\* They are evicted in the order they are sorted in, the newest first.
NextEvicted == CHOOSE s \in evicting : \A m \in evicting : s \notin older[m]

LoserEntry ==
    IF job.win = "remote"
    THEN [l |-> job.l, r |-> 0, md5 |-> FALSE, side |-> "local"]
    ELSE [l |-> 0, r |-> job.r, md5 |-> job.by = "pull", side |-> "remote"]

\* The loser's journal entry; then the GC, at once or when the pass ends.
NoteLoser ==
    /\ job.pc = "note"
    /\ UNCHANGED <<files, users, diffs, kept>>
    /\ Put(job.n, LoserEntry)
    /\ IF job.by = "pull"
       THEN evicting' = SelectEvictions' /\ Goes("prune") /\ marked' = marked
       ELSE marked' = TRUE /\ Finish /\ evicting' = evicting

\* The sibling's local file, if it is still there.
RemoveLocal(s) ==
    /\ local' = [local EXCEPT ![s] = 0]
    /\ events' = IF local[s] = 0 THEN events ELSE Raised(s, "remove")
    /\ kept' = kept \ {local[s]}
    /\ UNCHANGED <<remote, feed>>

\* Mutant: the sides are exchanged.
RemoveEvictedWrongSide ==
    /\ job.pc = "prune"
    /\ evicting # {}
    /\ LET s == NextEvicted IN
       IF journal[s].side = "local"
       THEN DeleteFile(s) /\ UNCHANGED <<local, events>> /\ kept' = kept \ {remote[s]}
       ELSE RemoveLocal(s)
    /\ Goes("unjournal")
    /\ UNCHANGED <<entries, users, evicting, diffs, marked>>

\* removeEvicted: the file or remote object, on the side of LastOrigin.
RemoveEvicted ==
    /\ job.pc = "prune"
    /\ evicting # {}
    /\ LET s == NextEvicted IN
       IF journal[s].side = "remote"
       THEN DeleteFile(s) /\ UNCHANGED <<local, events>> /\ kept' = kept \ {remote[s]}
       ELSE RemoveLocal(s)
    /\ Goes("unjournal")
    /\ UNCHANGED <<entries, users, evicting, diffs, marked>>

\* DeleteEntry, only after the file is gone; an error is only logged.
DeleteEntry ==
    /\ job.pc = "unjournal"
    /\ Delete(NextEvicted) \/ ("store" \in Faults /\ UNCHANGED entries)
    /\ evicting' = evicting \ {NextEvicted}
    /\ Goes("prune")
    /\ UNCHANGED <<files, users, diffs, marked, kept>>

PruneDone ==
    /\ job.pc = "prune"
    /\ evicting = {}
    /\ IF job.by = "pull" THEN Goes("win") ELSE job' = NoJob
    /\ UNCHANGED <<files, entries, users, evicting, diffs, marked, kept>>

\* DownloadFile or CopyFile of the winner.
FetchWinner ==
    /\ job.pc = "win"
    /\ IF job.win = "remote"
       THEN /\ remote[job.slot] # 0
            /\ local' = [local EXCEPT ![job.slot] = remote[job.slot]]
            /\ events' = Raised(job.slot, "create")
            /\ UNCHANGED <<remote, feed>>
       ELSE /\ local[job.slot] # 0
            /\ Upload(job.slot, local[job.slot])
            /\ UNCHANGED <<local, events>>
    /\ Goes("settle")
    /\ UNCHANGED <<entries, users, evicting, diffs, marked, kept>>

\* buildConflictEntry, or the first journal.Put of resolveXWins.
WinnerEntry ==
    CASE job.by = "pull" -> [l |-> IF job.win = "remote" THEN job.r ELSE job.l,
                             r |-> job.r, md5 |-> TRUE, side |-> "remote"]
      [] job.win = "remote" -> [l |-> job.r, r |-> job.r, md5 |-> FALSE, side |-> "remote"]
      [] OTHER -> [l |-> job.l, r |-> job.l, md5 |-> FALSE, side |-> "local"]

RecordWinner ==
    /\ job.pc = "settle"
    /\ Put(job.slot, WinnerEntry)
    /\ IF job.by = "pull" THEN job' = NoJob ELSE Goes("note")
    /\ UNCHANGED <<files, users, evicting, diffs, marked, kept>>

\* A remote operation fails: the error ends the resolution, a failed
\* eviction is skipped, and a delivered change is given up.
RemoteFails ==
    /\ "remote" \in Faults
    /\ \/ /\ job.pc = "win" \/ (job.pc = "aside" /\ job.win = "local")
          /\ Finish
          /\ evicting' = evicting
       \/ /\ job.pc = "prune" /\ evicting # {} /\ journal[NextEvicted].side = "remote"
          /\ evicting' = evicting \ {NextEvicted}
          /\ job' = job
    /\ UNCHANGED <<files, entries, users, diffs, marked, kept>>

\* The journal cannot be written: the error ends the resolution, with the
\* loser renamed and not recorded.
StoreFails ==
    /\ "store" \in Faults
    /\ job.pc \in {"note", "settle"}
    /\ Finish
    /\ UNCHANGED <<files, entries, users, evicting, diffs, marked, kept>>

\* The file a step was to take is gone: os.Rename, NewObject or Open errors.
FileMissing ==
    /\ \/ job.pc = "aside" /\ (IF job.win = "remote" THEN local ELSE remote)[job.slot] = 0
       \/ job.pc = "win" /\ (IF job.win = "remote" THEN remote ELSE local)[job.slot] = 0
    /\ Finish
    /\ UNCHANGED <<files, entries, users, evicting, diffs, marked, kept>>

----------------------------------------------------------------------------
(* The bisync pass, which treats siblings as files like any other.         *)

Divergent(s) ==
    IF journal[s] = NoEntry THEN local[s] # remote[s]
    ELSE local[s] # journal[s].l \/ journal[s].md5 \/ remote[s] # journal[s].r

KindOf(s) ==
    CASE local[s] # 0 /\ remote[s] = 0 -> "local_only"
      [] local[s] = 0 /\ remote[s] # 0 -> "remote_only"
      [] local[s] # 0 /\ remote[s] # 0 /\ Divergent(s) -> "conflict"
      [] OTHER -> "same"

BisyncDiff ==
    /\ "bisync" \in Resolvers
    /\ job.pc = "idle"
    /\ Prompt => events = {}
    /\ diffs' = {[slot |-> s, kind |-> KindOf(s), l |-> local[s], r |-> remote[s]]
                    : s \in {t \in Slots : KindOf(t) # "same"}}
    /\ job' = [NoJob EXCEPT !.pc = "pass", !.by = "bisync"]
    /\ UNCHANGED <<files, entries, users, evicting, marked, kept>>

Take(d, kind) == job.pc = "pass" /\ d.kind = kind /\ diffs' = diffs \ {d}

BisyncUpload(d) ==
    /\ Take(d, "local_only")
    /\ \/ /\ Upload(d.slot, local[d.slot])
          /\ Put(d.slot, [l |-> d.l, r |-> local[d.slot], md5 |-> FALSE, side |-> "local"])
       \/ "remote" \in Faults /\ UNCHANGED <<remote, feed, entries>>
    /\ UNCHANGED <<local, events, users, job, evicting, marked, kept>>

\* The remote-only files come last.
BisyncDownload(d) ==
    /\ Take(d, "remote_only")
    /\ \A e \in diffs : e.kind = "remote_only"
    /\ \/ /\ local' = [local EXCEPT ![d.slot] = remote[d.slot]]
          /\ events' = Raised(d.slot, "create")
          /\ Put(d.slot, [l |-> d.r, r |-> d.r, md5 |-> FALSE, side |-> "remote"])
       \/ "remote" \in Faults /\ UNCHANGED <<local, events, entries>>
    /\ UNCHANGED <<remote, feed, users, job, evicting, marked, kept>>

\* resolveConflict of bisync: newer wins, whatever conflict.policy says.
BisyncConflict(d) ==
    /\ Take(d, "conflict")
    /\ Free # {}
    /\ job' = [pc |-> "aside", by |-> "bisync", slot |-> d.slot, n |-> NextOldN,
               win |-> NewerWins(d.l, d.r), l |-> d.l, r |-> d.r]
    /\ UNCHANGED <<files, entries, users, evicting, marked, kept>>

\* The end of the pass prunes what was marked, or everything when a sweep is due.
BisyncEnd ==
    /\ job.pc = "pass"
    /\ diffs = {}
    /\ marked' = FALSE
    /\ \/ evicting' = SelectEvictions /\ Goes("prune")
       \/ ~marked /\ evicting' = {} /\ job' = NoJob
    /\ UNCHANGED <<files, entries, users, diffs, kept>>

\* The process dies, and the watcher's events with it; journal, disk and Drive
\* stay as they are, and the poll that had not persisted its token gets its
\* change again.
Crash ==
    /\ "crash" \in Faults
    /\ job.pc # "idle" \/ events # {}
    /\ events' = {}
    /\ job' = NoJob /\ evicting' = {} /\ diffs' = {} /\ marked' = FALSE
    /\ feed' = IF job.by = "pull" /\ remote[job.slot] # 0 /\ Changed(job.slot) \notin ToSet(feed)
               THEN <<Changed(job.slot)>> \o feed ELSE feed
    /\ UNCHANGED <<local, remote, entries, users, kept>>

Next ==
    \/ LocalEdit \/ RemoteEdit \/ PushFile \/ NothingToDo
    \/ \E s \in Siblings : FireEvent(s) \/ PushSibling(s) \/ PushRemoved(s)
    \/ \E s \in Slots : PullSkip(s) \/ PullDownload(s) \/ PullConflict(s) \/ PullDelete(s)
    \/ LocalAside \/ RemoteAside \/ NoteLoser
    \/ Age \/ RemoveEvicted \/ DeleteEntry \/ PruneDone
    \/ FetchWinner \/ RecordWinner \/ RemoteFails \/ StoreFails \/ FileMissing
    \/ BisyncDiff \/ BisyncEnd \/ Crash
    \/ \E d \in diffs : BisyncUpload(d) \/ BisyncDownload(d) \/ BisyncConflict(d)

Spec == Init /\ [][Next]_vars

----------------------------------------------------------------------------
(* Properties.                                                             *)

Contents == 0..MaxEdits

\* Every variable stays in its type.
TypeOK ==
    /\ setup \in Setups
    /\ local \in [Slots -> Contents] /\ remote \in [Slots -> Contents]
    /\ journal \in [Slots -> [l : Contents, r : Contents, md5 : BOOLEAN,
                              side : {"local", "remote"}] \union {NoEntry}]
    /\ older \in [Slots -> SUBSET Slots]
    /\ expired \subseteq Journaled \intersect Siblings
    /\ evicting \subseteq Journaled \intersect Siblings
    /\ feed \in Seq([slot : Slots, del : BOOLEAN])
    /\ events \subseteq [slot : Siblings, op : {"create", "remove", "upload", "delete"}]
    /\ edits \in 1..MaxEdits
    /\ job \in [pc : {"idle", "aside", "note", "prune", "unjournal", "win", "settle", "pass"},
               by : {"none", "pull", "bisync"}, slot : Slots, n : Siblings,
               win : {"none", "local", "remote"}, l : Contents, r : Contents]
    /\ diffs \subseteq [slot : Slots, kind : {"local_only", "remote_only", "conflict"},
                       l : Contents, r : Contents]
    /\ marked \in BOOLEAN
    /\ kept \subseteq Contents

\* README: "the losing version is preserved as <file>.old.<N>".  A loser that
\* retention has not evicted is still in some slot: no later conflict took
\* its number and overwrote it, and no push of a sibling's event removed it.
\* (A crash, or an entry that cannot be written, between the rename of a loser
\* and its entry leaves its number free.)
Preserved ==
    Faults \subseteq {"remote"} => \A c \in kept : \E s \in Siblings : local[s] = c \/ remote[s] = c

\* Between operations every sibling on either side has a journal entry, so
\* NextOldN cannot hand out its number again (evict removes the file first).
\* (A crash or a failed journal.Put after the rename of a loser is before its
\* entry.)
JournalCovers ==
    job.pc = "idle" /\ Faults \subseteq {"remote"} =>
       \A s \in Siblings : local[s] # 0 \/ remote[s] # 0 => journal[s] # NoEntry

\* The GC forgets a sibling only when it is too old, or when there are
\* max_per_file newer entries; never a newer one before an older one.  The
\* entries that the pushes of the GC's own removals put back count among the
\* newer ones, although their files are gone.
EvictsOldest ==
    [][\A s \in Siblings :
          job.pc \in {"prune", "unjournal"} /\ journal[s] # NoEntry /\ journal'[s] = NoEntry
             => \/ s \in expired
                \/ MaxPerFile > 0 /\ Cardinality({m \in Siblings : s \in older[m]}) >= MaxPerFile]_vars

\* prune.go, evict: a crash of the GC "only leaves an orphan journal entry,
\* never a file on disk with no journal record that a later conflict's N-reuse
\* could silently overwrite".
EvictLeavesNoFile ==
    [][\A s \in Siblings :
          job.pc \in {"prune", "unjournal"} /\ journal[s] # NoEntry /\ journal'[s] = NoEntry
             => (IF journal[s].side = "remote" THEN remote' ELSE local')[s] = 0]_vars

\* Losers are moved aside on the local disk only, have the time of their entry,
\* and what the watcher saw of them is pushed before the next resolution.
LocalLosers == Policy = "remote_wins" /\ "bisync" \notin Resolvers /\ "local" \notin Restless /\ Prompt

\* prune.go: "the newest max_per_file siblings are kept".  Between operations
\* there are no more than that, on disk and Drive together: what the GC's
\* removals raise brings none back.  Under remote_wins, without local edits
\* during a resolution.  (A sibling that is edited before the rename differs
\* from its entry and is uploaded; under the other policies one on Drive is
\* downloaded as well.  Either counts twice.)
AtMostMaxPerFile ==
    job.pc = "idle" /\ MaxPerFile > 0 /\ LocalLosers /\ Faults \subseteq {"remote"} =>
        Cardinality({s \in Siblings : local[s] # 0}) + Cardinality({s \in Siblings : remote[s] # 0})
            <= MaxPerFile

============================================================================
