------------------------------ MODULE PullFeed ------------------------------
(***************************************************************************)
(* How remote changes reach the local tree: Puller.poll with its persisted *)
(* page token (internal/syncer/puller.go, pull_process.go), the full walk  *)
(* and the Drive Changes feed behind it (internal/rcloneclient), and the   *)
(* hourly bisync pass that is meant to repair what the feed missed         *)
(* (internal/syncer/bisync_ops.go).                                        *)
(*                                                                         *)
(* Only the remote user edits files here; the local tree is written by     *)
(* homedrive alone.  Content is a number that is also its modification     *)
(* time: the remote user's n-th change writes 2n, a download cut off while *)
(* the feed stands at n leaves the odd 2n+1, and 0 is "no file".  Distinct *)
(* contents are more than the code's one second of tolerance apart and     *)
(* have distinct MD5s.  The .old.<N> name a conflict's loser moves to is   *)
(* Aside: what becomes of the siblings is ConflictRetention's subject.     *)
(***************************************************************************)
EXTENDS Naturals

CONSTANTS
    Ids,        \* Drive file ids
    Paths,      \* the paths of the synced tree
    Nested,     \* those inside a folder
    NoPath,     \* "not in the id-path cache"
    Aside,      \* the name a conflict's loser is moved to
    NoEntry,    \* "no journal entry"
    Setups      \* bound: what takes place in a behaviour, one of these

ASSUME PullAssumption ==
    /\ Nested \subseteq Paths
    /\ NoPath \notin Paths /\ Aside \notin Paths /\ NoPath # Aside
    /\ \A s \in Setups :
          /\ s.ops \subseteq {"create", "edit", "move", "trash", "remove"}
          /\ s.faults \subseteq {"list", "file", "torn", "crash", "gone"}
          /\ s.passes \in BOOLEAN
          /\ s.userHead \in Nat /\ s.maxHead \in Nat /\ s.userHead <= s.maxHead

VARIABLES
    setup,     \* which of Setups this behaviour belongs to
    drive,     \* per id: [state, path, ver, seq], seq its last change
    head,      \* position of the newest change
    floor,     \* page tokens before this one answer 410 (or 400)
    local,     \* content of each local path
    journal,   \* per path: NoEntry or [r, l, md5]
    token,     \* the persisted page token: [kind, pos]
    cache,     \* the id-path cache, in memory
    dirKnown,  \* the folder's id is in that cache
    pc,        \* where the puller or the bisync pass is
    items,     \* changes the poll has still to process, seq their order
    next,      \* NextPageToken of the poll
    lastErr,   \* poll's lastErr is set
    diffs      \* differences the bisync pass has still to process

driveVars == <<setup, drive, head, floor>>
diskVars == <<local, journal, token>>
memVars == <<cache, dirKnown, pc, items, next, lastErr, diffs>>
vars == <<driveVars, diskVars, memVars>>

RemoteOps == setup.ops       \* what the remote user does
Faults == setup.faults       \* what goes wrong
Passes == setup.passes       \* bisync passes take place
UserHead == setup.userHead   \* the remote user's changes stop here
MaxHead == setup.maxHead     \* the remote refuses homedrive's changes here

Live(id) == drive[id].state = "live"
At(p) == {id \in Ids : Live(id) /\ drive[id].path = p}
\* Content of the remote file at p, 0 when there is none.
RemoteAt(p) == IF At(p) = {} THEN 0 ELSE drive[CHOOSE id \in At(p) : TRUE].ver
Unborn == {id \in Ids : drive[id].state = "unborn"}

Init ==
    /\ setup \in Setups
    /\ drive = [id \in Ids |-> [state |-> "unborn", path |-> NoPath, ver |-> 0, seq |-> 0]]
    /\ head = 0 /\ floor = 0
    /\ local = [p \in Paths |-> 0]
    /\ journal = [p \in Paths |-> NoEntry]
    /\ token = [kind |-> "none", pos |-> 0]
    /\ cache = [id \in Ids |-> NoPath]
    /\ dirKnown = FALSE
    /\ pc = "idle" /\ items = {} /\ next = 0 /\ lastErr = FALSE
    /\ diffs = {}

----------------------------------------------------------------------------
(* Google Drive and its user (external).                                   *)

\* A change of id, by anyone: it goes to the end of the feed.
Change(id, st, p, c) ==
    /\ head' = head + 1
    /\ drive' = [drive EXCEPT ![id] = [state |-> st, path |-> p, ver |-> c, seq |-> head + 1]]
    /\ UNCHANGED <<setup, floor>>

UserTurn(op) == op \in RemoteOps /\ head < UserHead
Fresh == 2 * (head + 1)

RemoteCreate(id, p) ==
    /\ UserTurn("create")
    /\ id \in Unborn /\ At(p) = {}
    /\ Change(id, "live", p, Fresh)
    /\ UNCHANGED <<diskVars, memVars>>

RemoteEdit(id) ==
    /\ UserTurn("edit")
    /\ Live(id) /\ drive[id].path # Aside
    /\ Change(id, "live", drive[id].path, Fresh)
    /\ UNCHANGED <<diskVars, memVars>>

\* A rename or a move keeps content and modification time.
RemoteMove(id, p) ==
    /\ UserTurn("move")
    /\ Live(id) /\ drive[id].path # Aside /\ At(p) = {}
    /\ Change(id, "live", p, drive[id].ver)
    /\ UNCHANGED <<diskVars, memVars>>

\* To the bin, which the feed reports with the file's name and parent.
RemoteTrash(id) ==
    /\ UserTurn("trash")
    /\ Live(id) /\ drive[id].path # Aside
    /\ Change(id, "trashed", drive[id].path, drive[id].ver)
    /\ UNCHANGED <<diskVars, memVars>>

\* Deleted for good, which the feed reports with the id alone.
RemoteRemove(id) ==
    /\ UserTurn("remove")
    /\ Live(id) /\ drive[id].path # Aside
    /\ Change(id, "removed", drive[id].path, drive[id].ver)
    /\ UNCHANGED <<diskVars, memVars>>

\* Drive forgets the page tokens it has given out.
Expire ==
    /\ "gone" \in Faults
    /\ token.kind = "page" /\ floor <= token.pos
    /\ floor' = token.pos + 1
    /\ UNCHANGED <<setup, drive, head, diskVars, memVars>>

----------------------------------------------------------------------------
(* The remote file operations of rcloneclient, and their failures.         *)

Refused == "file" \in Faults \/ head >= MaxHead

\* MoveFile(p, p.old.N).
MoveAside(p) ==
    /\ At(p) # {} /\ head < MaxHead
    /\ \E id \in At(p) : Change(id, "live", Aside, drive[id].ver)

\* CopyFile: the object at p is updated, or a new one made, with content c.
CopyFile(p, c) ==
    /\ head < MaxHead
    /\ IF At(p) # {} THEN \E id \in At(p) : Change(id, "live", p, c)
                     ELSE \E id \in Unborn : Change(id, "live", p, c)

CopyFails(p) == Refused \/ (At(p) = {} /\ Unborn = {})

\* DownloadFile fetches what is at p now, whatever version was announced.
DownloadFile(p) == RemoteAt(p) # 0 /\ local' = [local EXCEPT ![p] = RemoteAt(p)]

\* It writes in place: an error while copying leaves a cut-off file.
DownloadFails(p) ==
    \/ (RemoteAt(p) = 0 \/ "file" \in Faults) /\ UNCHANGED local
    \/ "torn" \in Faults /\ RemoteAt(p) # 0 /\ local' = [local EXCEPT ![p] = 2 * head + 1]

----------------------------------------------------------------------------
(* Puller.poll.                                                            *)

Page(n) == [kind |-> "page", pos |-> n]
StartToken == [kind |-> "start", pos |-> head]

\* ensurePageToken: the persisted token, or a start token, persisted.
PollBegin ==
    /\ pc = "idle"
    /\ pc' = "list"
    /\ token' = IF token.kind = "none" THEN StartToken ELSE token
    /\ UNCHANGED <<driveVars, local, journal, cache, dirKnown, items, next, lastErr, diffs>>

\* GetStartPageToken, changes.list or the walk fails: the poll returns.
ListFails ==
    /\ "list" \in Faults
    /\ pc = "list"
    /\ pc' = "idle"
    /\ UNCHANGED <<driveVars, diskVars, cache, dirKnown, items, next, lastErr, diffs>>

\* fullWalkThenResume: every file, without MD5; the cache is seeded.
Walk ==
    /\ pc = "list"
    /\ token.kind = "start"
    /\ LET found == {id \in Ids : Live(id)}
           item(id) == [path |-> drive[id].path, del |-> FALSE, c |-> drive[id].ver,
                        md5 |-> FALSE, seq |-> drive[id].seq]
       IN /\ items' = {item(id) : id \in {i \in found : drive[i].path # Aside}}
          /\ cache' = [id \in Ids |-> IF id \in found THEN drive[id].path ELSE cache[id]]
    /\ dirKnown' = TRUE
    /\ next' = token.pos
    /\ pc' = "process"
    /\ lastErr' = FALSE
    /\ UNCHANGED <<driveVars, diskVars, diffs>>

\* translateChange: the path of a deleted id comes from the cache, that of a
\* file in a folder needs the folder's id there.
Translatable(id) ==
    IF drive[id].state = "removed" THEN cache[id] \in Paths
    ELSE drive[id].path \in Paths /\ (drive[id].path \in Nested => dirKnown)

Translate(id) ==
    LET alive == drive[id].state \notin {"removed", "trashed"}
    IN [path |-> IF drive[id].state = "removed" THEN cache[id] ELSE drive[id].path,
        del |-> ~alive, c |-> IF alive THEN drive[id].ver ELSE 0, md5 |-> alive,
        seq |-> drive[id].seq]

\* Mutant: the new token is persisted before its changes are processed.
PollChangesEarly ==
    /\ pc = "list"
    /\ token.kind = "page" /\ token.pos >= floor
    /\ LET changed == {id \in Ids : drive[id].seq > token.pos}
       IN /\ items' = {Translate(id) : id \in {i \in changed : Translatable(i)}}
          /\ cache' = [id \in Ids |-> IF id \in changed /\ Live(id) /\ Translatable(id)
                                      THEN drive[id].path ELSE cache[id]]
    /\ next' = head
    /\ pc' = "process"
    /\ lastErr' = FALSE
    /\ token' = Page(head)
    /\ UNCHANGED <<driveVars, local, journal, dirKnown, diffs>>

\* pollChanges: one entry per changed id, in the order of their last change;
\* entries that cannot be translated are dropped and the token passes them.
PollChanges ==
    /\ pc = "list"
    /\ token.kind = "page" /\ token.pos >= floor
    /\ LET changed == {id \in Ids : drive[id].seq > token.pos}
       IN /\ items' = {Translate(id) : id \in {i \in changed : Translatable(i)}}
          /\ cache' = [id \in Ids |-> IF id \in changed /\ Live(id) /\ Translatable(id)
                                      THEN drive[id].path ELSE cache[id]]
    /\ next' = head
    /\ pc' = "process"
    /\ lastErr' = FALSE
    /\ UNCHANGED <<driveVars, diskVars, dirKnown, diffs>>

\* isGoneErr, isBadPageTokenErr: Drive does not know the token any more.
TokenRefused == token.kind = "page" /\ token.pos < floor

\* Mutant: the reset goes on from the new token without the full walk.
PollGoneNoWalk ==
    /\ pc = "list"
    /\ TokenRefused
    /\ token' = Page(head)
    /\ UNCHANGED <<driveVars, local, journal, memVars>>

\* fetchChanges on 410 or 400: persist a new start token and list again.
PollGone ==
    /\ pc = "list"
    /\ TokenRefused
    /\ token' = StartToken
    /\ UNCHANGED <<driveVars, local, journal, memVars>>

\* persistToken, once every change has been processed.
Persist ==
    /\ pc = "process"
    /\ items = {}
    /\ token' = Page(next)
    /\ pc' = "idle"
    /\ UNCHANGED <<driveVars, local, journal, cache, dirKnown, items, next, lastErr, diffs>>

----------------------------------------------------------------------------
(* Puller.processChange.                                                   *)

\* The loop takes the changes in their order.
Item == CHOOSE i \in items : \A j \in items : i.seq <= j.seq
InProgress == pc = "process" /\ items # {}

\* The change is finished with, successfully or with an error.
ItemDone(err) ==
    /\ pc' = "process"
    /\ items' = items \ {Item}
    /\ lastErr' = (lastErr \/ err)
    /\ UNCHANGED <<cache, dirKnown, next, diffs>>

ItemGoesTo(step) ==
    /\ pc' = step
    /\ UNCHANGED <<cache, dirKnown, items, next, lastErr, diffs>>

\* processDelete: the file, then its journal entry.
ProcessDelete ==
    /\ InProgress
    /\ Item.del
    /\ \/ local' = [local EXCEPT ![Item.path] = 0] /\ ItemGoesTo("forget")
       \/ "file" \in Faults /\ local' = local /\ ItemDone(TRUE)
    /\ UNCHANGED <<driveVars, journal, token>>

Forget ==
    /\ pc = "forget"
    /\ journal' = [journal EXCEPT ![Item.path] = NoEntry]
    /\ ItemDone(FALSE)
    /\ UNCHANGED <<driveVars, local, token>>

Entry == journal[Item.path]
SameMD5 == IF Item.md5 THEN Entry.md5 /\ Entry.r = Item.c ELSE ~Entry.md5

\* detectConflict: the local file is not the one the journal recorded.
Conflict ==
    /\ Entry # NoEntry
    /\ local[Item.path] # 0
    /\ ~SameMD5
    /\ local[Item.path] # Entry.l

Unchanged == Entry # NoEntry /\ ~Conflict /\ Entry.r = Item.c

\* processFileChange: the recorded remote mtime, nothing to do.
SkipUnchanged ==
    /\ InProgress
    /\ ~Item.del
    /\ Unchanged
    /\ ItemDone(FALSE)
    /\ UNCHANGED <<driveVars, diskVars>>

\* Mutant: the loop moves on before the download is recorded.
DownloadMovesOn ==
    /\ InProgress
    /\ ~Item.del
    /\ ~Conflict /\ ~Unchanged
    /\ DownloadFile(Item.path)
    /\ pc' = "record" /\ items' = items \ {Item}
    /\ UNCHANGED <<driveVars, journal, token, cache, dirKnown, next, lastErr, diffs>>

\* downloadFile, then recordDownload with the announced remote state.
Download ==
    /\ InProgress
    /\ ~Item.del
    /\ ~Conflict /\ ~Unchanged
    /\ \/ DownloadFile(Item.path) /\ ItemGoesTo("record")
       \/ DownloadFails(Item.path) /\ ItemDone(TRUE)
    /\ UNCHANGED <<driveVars, journal, token>>

Record ==
    /\ pc = "record"
    /\ journal' = [journal EXCEPT ![Item.path] =
                      [r |-> Item.c, l |-> local[Item.path], md5 |-> Item.md5]]
    /\ ItemDone(FALSE)
    /\ UNCHANGED <<driveVars, local, token>>

\* determineWinner, newer_wins: equal times go to the local side.
RemoteNewer(l, r) == r > l

\* handleConflict, local wins: the remote file moves aside ...
LocalWins ==
    /\ InProgress
    /\ ~Item.del
    /\ Conflict
    /\ ~RemoteNewer(local[Item.path], Item.c)
    /\ \/ MoveAside(Item.path) /\ ItemGoesTo("upload")
       \/ (Refused \/ At(Item.path) = {}) /\ ItemDone(TRUE) /\ UNCHANGED driveVars
    /\ UNCHANGED diskVars

\* ... and the local one is uploaded.
UploadWinner ==
    /\ pc = "upload"
    /\ \/ CopyFile(Item.path, local[Item.path]) /\ ItemGoesTo("kept")
       \/ CopyFails(Item.path) /\ ItemDone(TRUE) /\ UNCHANGED driveVars
    /\ UNCHANGED diskVars

\* handleConflict, remote wins: the local file moves aside ...
RemoteWins ==
    /\ InProgress
    /\ ~Item.del
    /\ Conflict
    /\ RemoteNewer(local[Item.path], Item.c)
    /\ \/ local' = [local EXCEPT ![Item.path] = 0] /\ ItemGoesTo("fetch")
       \/ "file" \in Faults /\ local' = local /\ ItemDone(TRUE)
    /\ UNCHANGED <<driveVars, journal, token>>

\* ... and the remote one is downloaded.
FetchWinner ==
    /\ pc = "fetch"
    /\ \/ DownloadFile(Item.path) /\ ItemGoesTo("taken")
       \/ DownloadFails(Item.path) /\ ItemDone(TRUE)
    /\ UNCHANGED <<driveVars, journal, token>>

\* buildConflictEntry: the announced remote state, whoever won.
RecordConflict ==
    /\ pc \in {"kept", "taken"}
    /\ journal' = [journal EXCEPT ![Item.path] =
                      [r |-> Item.c, md5 |-> Item.md5,
                       l |-> IF pc = "taken" THEN Item.c ELSE local[Item.path]]]
    /\ ItemDone(FALSE)
    /\ UNCHANGED <<driveVars, local, token>>

----------------------------------------------------------------------------
(* The bisync pass, alone under the write lock (AgentRun).                 *)

\* listRemote: one non-recursive List, whose objects carry no MD5.
Listed(p) == IF p \in Nested THEN 0 ELSE RemoteAt(p)

\* Mutant: only a change of the local file counts.
DivergentLocally(p) ==
    IF journal[p] = NoEntry THEN local[p] # Listed(p) ELSE local[p] # journal[p].l

\* hasDivergence: a journaled MD5 never equals the empty one of the listing.
Divergent(p) ==
    IF journal[p] = NoEntry THEN local[p] # Listed(p)
    ELSE local[p] # journal[p].l \/ journal[p].md5 \/ Listed(p) # journal[p].r

\* diffLocalAgainstRemote and diffRemoteAgainstLocal.
KindOf(p) ==
    CASE local[p] # 0 /\ Listed(p) = 0 -> "local_only"
      [] local[p] = 0 /\ Listed(p) # 0 -> "remote_only"
      [] local[p] # 0 /\ Listed(p) # 0 /\ Divergent(p) -> "conflict"
      [] OTHER -> "same"

Diff(p) == [path |-> p, kind |-> KindOf(p), l |-> local[p], r |-> Listed(p)]

BisyncDiff ==
    /\ Passes
    /\ pc = "idle"
    /\ diffs' = {d \in {Diff(p) : p \in Paths} : d.kind # "same"}
    /\ diffs' # {}
    /\ pc' = "bisync"
    /\ UNCHANGED <<driveVars, diskVars, cache, dirKnown, items, next, lastErr>>

\* syncDiffs goes on to the next difference, whether or not this one failed.
DiffDone(d) ==
    /\ diffs' = diffs \ {d}
    /\ pc' = IF diffs' = {} THEN "idle" ELSE "bisync"
    /\ UNCHANGED <<cache, dirKnown, items, next, lastErr>>

DiffGoesTo(d, step) ==
    /\ diffs' = (diffs \ {d}) \union {[d EXCEPT !.kind = step]}
    /\ UNCHANGED <<pc, cache, dirKnown, items, next, lastErr>>

\* One difference at a time: one that is under way is finished first, and
\* the remote-only files come after all others.
Started == {d \in diffs : d.kind \notin {"local_only", "remote_only", "conflict"}}
Turn(d, kind) ==
    /\ pc = "bisync"
    /\ d.kind = kind
    /\ Started \subseteq {d}
    /\ kind = "remote_only" => \A e \in diffs : e.kind = "remote_only"

\* syncLocalToRemote uploads; so does resolveLocalWins, second.
BisyncUpload(d) ==
    /\ Turn(d, "local_only") \/ Turn(d, "upload")
    /\ \/ CopyFile(d.path, local[d.path]) /\ DiffGoesTo(d, "uploaded")
       \/ CopyFails(d.path) /\ DiffDone(d) /\ UNCHANGED driveVars
    /\ UNCHANGED diskVars

\* syncRemoteToLocal downloads; so does resolveRemoteWins, second.
BisyncDownload(d) ==
    /\ Turn(d, "remote_only") \/ Turn(d, "fetch")
    /\ \/ DownloadFile(d.path) /\ DiffGoesTo(d, "downloaded")
       \/ DownloadFails(d.path) /\ DiffDone(d)
    /\ UNCHANGED <<driveVars, journal, token>>

\* resolveLocalWins, first: the remote file moves aside.
BisyncLocalWins(d) ==
    /\ Turn(d, "conflict")
    /\ ~RemoteNewer(d.l, d.r)
    /\ \/ MoveAside(d.path) /\ DiffGoesTo(d, "upload")
       \/ (Refused \/ At(d.path) = {}) /\ DiffDone(d) /\ UNCHANGED driveVars
    /\ UNCHANGED diskVars

\* resolveRemoteWins, first: the local file moves aside.
BisyncRemoteWins(d) ==
    /\ Turn(d, "conflict")
    /\ RemoteNewer(d.l, d.r)
    /\ \/ local' = [local EXCEPT ![d.path] = 0] /\ DiffGoesTo(d, "fetch")
       \/ "file" \in Faults /\ local' = local /\ DiffDone(d)
    /\ UNCHANGED <<driveVars, journal, token>>

\* journal.Put, last: what was uploaded, or what the listing announced.
BisyncRecord(d) ==
    /\ Turn(d, "uploaded") \/ Turn(d, "downloaded")
    /\ journal' = [journal EXCEPT ![d.path] =
                      IF d.kind = "uploaded" THEN [r |-> d.l, l |-> d.l, md5 |-> FALSE]
                      ELSE [r |-> d.r, l |-> d.r, md5 |-> FALSE]]
    /\ DiffDone(d)
    /\ UNCHANGED <<driveVars, local, token>>

----------------------------------------------------------------------------
\* The process dies and starts again: what is on disk and on Drive stays.
Restart ==
    /\ "crash" \in Faults
    /\ pc' = "idle" /\ items' = {} /\ diffs' = {} /\ lastErr' = FALSE /\ next' = 0
    /\ cache' = [id \in Ids |-> NoPath]
    /\ dirKnown' = FALSE
    /\ UNCHANGED <<driveVars, diskVars>>

RemoteUser ==
    \E id \in Ids :
       \/ \E p \in Paths : RemoteCreate(id, p) \/ RemoteMove(id, p)
       \/ RemoteEdit(id) \/ RemoteTrash(id) \/ RemoteRemove(id)

PullSteps ==
    \/ PollBegin \/ Walk \/ PollChanges \/ PollGone \/ Persist
    \/ ProcessDelete \/ Forget \/ SkipUnchanged \/ Download \/ Record
    \/ LocalWins \/ UploadWinner \/ RemoteWins \/ FetchWinner \/ RecordConflict

BisyncSteps ==
    \/ BisyncDiff
    \/ \E d \in diffs :
          \/ BisyncUpload(d) \/ BisyncDownload(d)
          \/ BisyncLocalWins(d) \/ BisyncRemoteWins(d) \/ BisyncRecord(d)

Next == RemoteUser \/ Expire \/ PullSteps \/ ListFails \/ BisyncSteps \/ Restart

Spec == Init /\ [][Next]_vars

\* A step of the pass on path p that does not fail.
BisyncSucceeds(p) ==
    \E d \in diffs :
       /\ d.path = p
       /\ \/ BisyncUpload(d) \/ BisyncDownload(d)
          \/ BisyncLocalWins(d) \/ BisyncRemoteWins(d) \/ BisyncRecord(d)
       /\ d.kind \in {"uploaded", "downloaded"} \/ diffs' # diffs \ {d}

(***************************************************************************)
(* Fairness.  The pull loop and the bisync ticker keep running (AgentRun   *)
(* shows that neither keeps the lock from the other), the ticker fires     *)
(* again and again, the network is not down for ever (an operation that is *)
(* tried again and again succeeds in the end), and the process does not    *)
(* crash for ever.                                                         *)
(***************************************************************************)
Fairness ==
    /\ WF_vars(PullSteps) /\ WF_vars(BisyncSteps)
    /\ SF_vars(BisyncDiff)
    /\ \A p \in Paths : SF_vars(BisyncSucceeds(p))
    /\ <>[][~Restart]_vars

FairSpec == Spec /\ Fairness

----------------------------------------------------------------------------
(* Properties.                                                             *)

Contents == 0..(2 * MaxHead + 1)
JournalEntries == [r : Contents, l : Contents, md5 : BOOLEAN]
Changes == [path : Paths, del : BOOLEAN, c : Contents, md5 : BOOLEAN, seq : 0..MaxHead]
DiffKinds == {"local_only", "remote_only", "conflict", "upload", "fetch", "uploaded", "downloaded"}
Diffs == [path : Paths, kind : DiffKinds, l : Contents, r : Contents]

\* Every variable stays in its type.
TypeOK ==
    /\ setup \in Setups
    /\ drive \in [Ids -> [state : {"unborn", "live", "trashed", "removed"},
                          path : Paths \union {Aside, NoPath},
                          ver : Contents, seq : 0..MaxHead]]
    /\ head \in 0..MaxHead /\ floor \in 0..(MaxHead + 1)
    /\ local \in [Paths -> Contents]
    /\ journal \in [Paths -> JournalEntries \union {NoEntry}]
    /\ token \in [kind : {"none", "start", "page"}, pos : 0..MaxHead]
    /\ cache \in [Ids -> Paths \union {Aside, NoPath}]
    /\ dirKnown \in BOOLEAN /\ lastErr \in BOOLEAN
    /\ pc \in {"idle", "list", "process", "forget", "record",
               "upload", "kept", "fetch", "taken", "bisync"}
    /\ items \subseteq Changes
    /\ pc \in {"forget", "record", "upload", "kept", "fetch", "taken"} => items # {}
    /\ next \in 0..MaxHead
    /\ diffs \subseteq Diffs

\* The poll has processed the whole feed and nothing happened since.
CaughtUp == pc = "idle" /\ token = Page(head)

\* A move brought back to p the version that the journal records there: the
\* poll skips it, although a newer one was downloaded meanwhile.
TakenForRecorded(p) ==
    "move" \in RemoteOps /\ journal[p] # NoEntry /\ journal[p].r = RemoteAt(p)

\* Whenever the feed is used up, a file on Drive is on the local disk in its
\* current version, or is missing there and listed remote_only by the next
\* bisync pass (a crash between the halves of a deletion, then a reset): no
\* crash, failed listing or token reset leaves a stale version behind.  The
\* exceptions: a file operation failed or was cut off, the remote refuses
\* changes, the file is in a folder, or it was moved back.
LiveMirrored ==
    CaughtUp /\ head < MaxHead /\ Faults \intersect {"torn", "file"} = {} =>
       \A p \in Paths \ Nested :
          RemoteAt(p) # 0 =>
             \/ local[p] = RemoteAt(p)
             \/ KindOf(p) = "remote_only"
             \/ TakenForRecorded(p)

\* Whenever the feed is used up, a version the remote user put in the bin is
\* not on the local disk: a deletion is applied even if the polls that saw it
\* were cut short and the path was used again meanwhile.  The exceptions: a
\* bisync pass that comes first uploads the file as a new one, the full walk
\* after a reset lists no deletions, an operation may fail, a file in a folder
\* may be unresolved, and moved or purged files leave their versions behind.
DeadRemoved ==
    /\ CaughtUp /\ ~Passes
    /\ Faults \intersect {"gone", "file"} = {}
    /\ RemoteOps \intersect {"move", "remove"} = {}
    => \A id \in Ids, p \in Paths \ Nested :
          drive[id].state = "trashed" /\ drive[id].path = p /\ local[p] = drive[id].ver
             => At(p) # {}

\* The bisync pass repairs what a poll failed to download, although the token
\* has passed it: again and again every remote file is current on disk.
Repaired ==
    \A p \in Paths : []<>(RemoteAt(p) # 0 => local[p] = RemoteAt(p))

(* What a comment says and the code does not do.                           *)

\* translateChange: a change is skipped when "its path cannot yet be resolved
\* -- the hourly bisync safety net will catch the latter case".
UnresolvedCaught ==
    \A p \in Paths : []<>(RemoteAt(p) # 0 => local[p] = RemoteAt(p))

============================================================================
