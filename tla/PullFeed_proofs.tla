-------------------------- MODULE PullFeed_proofs --------------------------
(***************************************************************************)
(* Proofs about PullFeed for any number of Drive ids and paths and any set *)
(* of setups.                                                              *)
(***************************************************************************)
EXTENDS PullFeed, WellFoundedInduction, TLAPS

----------------------------------------------------------------------------
(* The inductive invariant.                                                *)

\* Contents that exist while the feed stands at head.
Known == 0..(2 * head + 1)
KnownChanges == [path : Paths, del : BOOLEAN, c : Known, md5 : BOOLEAN, seq : 0..head]
KnownDiffs == [path : Paths, kind : DiffKinds, l : Known, r : Known]
KnownEntries == [r : Known, l : Known, md5 : BOOLEAN]

Files == [state : {"unborn", "live", "trashed", "removed"},
          path : Paths \union {Aside, NoPath}, ver : Known, seq : 0..head]

Busy == {"forget", "record", "upload", "kept", "fetch", "taken"}

TypeInv ==
    /\ setup \in Setups
    /\ drive \in [Ids -> Files]
    /\ head \in Nat /\ head <= MaxHead /\ floor \in 0..(head + 1)
    /\ local \in [Paths -> Known]
    /\ journal \in [Paths -> KnownEntries \union {NoEntry}]
    /\ token \in [kind : {"none", "start", "page"}, pos : 0..head]
    /\ cache \in [Ids -> Paths \union {Aside, NoPath}]
    /\ dirKnown \in BOOLEAN /\ lastErr \in BOOLEAN
    /\ pc \in {"idle", "list", "process", "bisync"} \union Busy
    /\ items \subseteq KnownChanges
    /\ pc \in Busy => items # {}
    /\ next \in 0..head
    /\ diffs \subseteq KnownDiffs

\* Drive: a live file has content and a name, alone among the live files.
DriveInv ==
    /\ \A id \in Ids : Live(id) => drive[id].ver # 0 /\ drive[id].path # NoPath
    /\ \A id \in Ids : drive[id].state = "unborn" => drive[id].path = NoPath
    /\ \A i, j \in Ids : Live(i) /\ Live(j) /\ drive[i].path = drive[j].path
                            /\ drive[i].path \in Paths => i = j

\* The poll and the pass take turns; a file has one entry in either.
TurnInv ==
    /\ pc \in {"idle", "list", "bisync"} => items = {}
    /\ pc # "bisync" => diffs = {}
    /\ pc \in Busy \ {"forget"} => ~Item.del
    /\ pc \in {"forget", "fetch"} => local[Item.path] = 0
    /\ pc = "upload" => local[Item.path] # 0
    /\ \A i, j \in items : i.path = j.path /\ ~i.del /\ ~j.del => i = j
    /\ \A d, e \in diffs : d.path = e.path => d = e
    /\ \A d \in diffs : d.kind \in {"local_only", "conflict", "upload", "uploaded"} =>
          d.l # 0 /\ local[d.path] = d.l

\* The local file at p is not the one that Drive has there as id.
Stale(id, p) ==
    Live(id) /\ drive[id].path = p /\ local[p] # 0 /\ local[p] # drive[id].ver

Excused(id, p) == journal[p] # NoEntry /\ journal[p].r = drive[id].ver

\* The current list still has the file at p.
Pending(p) == \E i \in items : i.path = p /\ ~i.del /\ (pc = "process" \/ i # Item)

\* What the list announces is current unless it changed after the list.
ItemCurrent ==
    \A i \in items, id \in Ids :
       ~i.del /\ Live(id) /\ drive[id].path = i.path /\ drive[id].seq <= next
          => drive[id].ver = i.c

\* A file that is stale is told about by a change still to come or to be
\* processed.
TokenInv ==
    token.kind = "page" => \A p \in Paths \ Nested, id \in Ids :
       Stale(id, p) => drive[id].seq > token.pos \/ Excused(id, p)
ListInv ==
    pc \in {"process"} \union Busy => \A p \in Paths \ Nested, id \in Ids :
       Stale(id, p) => drive[id].seq > next \/ Excused(id, p) \/ Pending(p)
\* One that is about to be recorded changed since it was transferred.
ItemSettled ==
    pc \in Busy => \A id \in Ids :
       Stale(id, Item.path) => drive[id].seq > next /\ drive[id].seq > token.pos
DiffSettled ==
    \A d \in diffs, id \in Ids :
       d.kind \in {"upload", "fetch", "uploaded", "downloaded"} /\ Stale(id, d.path)
          => drive[id].seq > token.pos

Sound == Faults \intersect {"torn", "file"} = {}

FeedInv ==
    Sound /\ head < MaxHead => TokenInv /\ ListInv /\ ItemSettled /\ DiffSettled

\* Without moves versions at a path only grow, and the journal, the list and
\* the differences are behind them.
Ordered(id, p) == local[p] <= drive[id].ver
EntryOld(p) ==
    journal[p] # NoEntry =>
       /\ local[p] # 0 => journal[p].r <= local[p]
       /\ \A id \in At(p) : journal[p].r <= drive[id].ver
ItemOld(i) ==
    ~i.del => \A id \in At(i.path) : i.c <= drive[id].ver
DiffOld(d) ==
    /\ \A id \in At(d.path) : d.r <= drive[id].ver
    /\ d.kind \in {"local_only", "upload", "uploaded"} => d.r <= d.l
    /\ d.kind = "downloaded" => d.r <= local[d.path]

GrowInv ==
    Sound /\ "move" \notin RemoteOps =>
       /\ \A p \in Paths : \A id \in At(p) : Ordered(id, p)
       /\ \A p \in Paths : EntryOld(p)
       /\ \A i \in items : ItemOld(i)
       /\ pc \in {"record", "taken", "upload", "kept"} => Item.c <= local[Item.path]
       /\ \A d \in diffs : DiffOld(d)

IndInv == TypeInv /\ DriveInv /\ TurnInv /\ ItemCurrent /\ FeedInv /\ GrowInv
----------------------------------------------------------------------------
(* The current item, and what is at a path.                                *)

\* The list has a first change.
LEMMA ItemIn ==
  ASSUME items # {}, \A i \in items : i.seq \in Nat
  PROVE  Item \in items /\ \A j \in items : Item.seq <= j.seq
<1> DEFINE S == {i.seq : i \in items}
<1>1. S \in SUBSET Nat /\ S # {}
  OBVIOUS
<1>2. PICK n \in S : \A m \in S : ~(<<m, n>> \in OpToRel(<, Nat))
  BY <1>1, WFMin, NatLessThanWellFounded
<1>3. ASSUME NEW m \in S, m < n PROVE FALSE
  <2>1. <<m, n>> \in OpToRel(<, Nat)
    BY <1>1, <1>3, Zenon DEF OpToRel
  <2> QED
    BY <1>2, <2>1
<1>4. PICK i \in items : i.seq = n
  OBVIOUS
<1>5. ASSUME NEW j \in items PROVE i.seq <= j.seq
  <2>1. j.seq \in S /\ j.seq \in Nat /\ n \in Nat
    BY <1>1
  <2>2. ~(j.seq < n)
    BY <1>3, <2>1
  <2> QED
    BY <1>4, <2>1, <2>2
<1> QED
  BY <1>5 DEF Item

\* The current item of a typed state.
LEMMA ItemTyped ==
  ASSUME TypeInv, items # {}
  PROVE  Item \in items /\ Item \in KnownChanges /\ Item.path \in Paths
<1>1. \A i \in items : i.seq \in Nat /\ i \in KnownChanges /\ i.path \in Paths
  BY DEF TypeInv, KnownChanges
<1> QED
  BY <1>1, ItemIn

\* What RemoteAt says of the file at p.
LEMMA RemoteIs ==
  ASSUME TypeInv, DriveInv, NEW p \in Paths
  PROVE  /\ RemoteAt(p) \in Known
         /\ RemoteAt(p) = 0 <=> At(p) = {}
         /\ \A id \in At(p) : RemoteAt(p) = drive[id].ver /\ At(p) = {id}
<1>1. CASE At(p) = {}
  BY <1>1 DEF RemoteAt, TypeInv, Known
<1>2. ASSUME NEW id \in At(p)
      PROVE  RemoteAt(p) = drive[id].ver /\ At(p) = {id} /\ drive[id].ver # 0 /\ drive[id].ver \in Known
  <2>1. \A j \in At(p) : j = id
    BY <1>2 DEF DriveInv, At
  <2>2. At(p) = {id}
    BY <1>2, <2>1
  <2>3. (CHOOSE j \in At(p) : TRUE) = id
    BY <2>2
  <2>4. id \in Ids /\ drive[id] \in Files /\ Live(id)
    BY <1>2 DEF TypeInv, At
  <2> QED
    BY <2>2, <2>3, <2>4 DEF RemoteAt, DriveInv, Files
<1> QED
  BY <1>1, <1>2

\* The feed grows: what is typed stays typed.
LEMMA Widen ==
  ASSUME head \in Nat, head' \in Nat, head <= head'
  PROVE  /\ Known \subseteq Known' /\ KnownChanges \subseteq KnownChanges'
         /\ KnownDiffs \subseteq KnownDiffs' /\ KnownEntries \subseteq KnownEntries'
         /\ Files \subseteq Files' /\ 0..head \subseteq 0..head'
<1>1. \A a, b \in Nat : a <= b => 0..a \subseteq 0..b /\ 0..(2 * a + 1) \subseteq 0..(2 * b + 1)
  OBVIOUS
<1>2. Known \subseteq Known' /\ 0..head \subseteq 0..head'
  BY <1>1 DEF Known
<1> QED
  BY <1>2 DEF KnownChanges, KnownDiffs, KnownEntries, Files, DiffKinds

----------------------------------------------------------------------------
(* Steps on Drive.                                                         *)

DriveSame == UNCHANGED <<setup, drive, head, floor>>

\* The change of id that comes last in the feed.
DriveMoves(id) ==
    /\ head' = head + 1 /\ head < MaxHead
    /\ UNCHANGED <<setup, floor>>
    /\ drive' \in [Ids -> Files']
    /\ \A j \in Ids \ {id} : drive'[j] = drive[j]
    /\ drive'[id].seq = head + 1
    /\ drive'[id].state # "unborn"
    /\ drive'[id].state = "live" =>
          /\ drive'[id].ver # 0
          /\ drive'[id].path # NoPath
          /\ drive'[id].path \in Paths => \A j \in Ids \ {id} : j \notin At(drive'[id].path)

\* A change by anyone, spelt out.
LEMMA ChangeMoves ==
  ASSUME TypeInv, head < MaxHead, NEW id \in Ids,
         NEW st \in {"live", "trashed", "removed"}, NEW p \in Paths \union {Aside, NoPath}, NEW c,
         c \in 0..(2 * (head + 1) + 1), Change(id, st, p, c),
         st = "live" => /\ c # 0 /\ p # NoPath
                        /\ p \in Paths => \A j \in Ids \ {id} : j \notin At(p)
  PROVE  /\ DriveMoves(id)
         /\ drive'[id] = [state |-> st, path |-> p, ver |-> c, seq |-> head + 1]
<1>1. head' = head + 1 /\ head' \in Nat /\ head \in Nat
  BY DEF Change, TypeInv
<1>2. drive \in [Ids -> Files']
  BY <1>1, Widen DEF TypeInv
<1>3. [state |-> st, path |-> p, ver |-> c, seq |-> head + 1] \in Files'
  BY <1>1 DEF Files, Known
<1>4. /\ drive' \in [Ids -> Files']
      /\ \A j \in Ids \ {id} : drive'[j] = drive[j]
      /\ drive'[id] = [state |-> st, path |-> p, ver |-> c, seq |-> head + 1]
  BY <1>2, <1>3 DEF Change, TypeInv
<1> QED
  BY <1>1, <1>4 DEF Change, DriveMoves

\* MoveFile takes the file at p away.
LEMMA MoveAsideMoves ==
  ASSUME TypeInv, DriveInv, NEW p \in Paths, MoveAside(p)
  PROVE  \E id \in At(p) : /\ id \in Ids /\ At(p) = {id} /\ DriveMoves(id)
                           /\ drive'[id].path = Aside
<1>1. PICK id \in At(p) : Change(id, "live", Aside, drive[id].ver)
  BY DEF MoveAside
<1>2. id \in Ids /\ drive[id] \in Files /\ Live(id) /\ head < MaxHead
  BY <1>1 DEF TypeInv, At, MoveAside
<1>3. drive[id].ver \in 0..(2 * (head + 1) + 1) /\ drive[id].ver # 0
  BY <1>2 DEF Files, Known, TypeInv, DriveInv
<1>4. DriveMoves(id) /\ drive'[id] = [state |-> "live", path |-> Aside, ver |-> drive[id].ver, seq |-> head + 1]
  <2>1. Aside # NoPath /\ Aside \notin Paths
    BY PullAssumption
  <2> DEFINE v == drive[id].ver
  <2>2. v \in 0..(2 * (head + 1) + 1) /\ v # 0 /\ Change(id, "live", Aside, v)
    BY <1>1, <1>3
  <2> HIDE DEF v
  <2>3. DriveMoves(id) /\ drive'[id] = [state |-> "live", path |-> Aside, ver |-> v, seq |-> head + 1]
    BY <1>2, <2>1, <2>2, ChangeMoves
  <2> QED
    BY <2>3 DEF v
<1> QED
  BY <1>1, <1>2, <1>4, RemoteIs

\* CopyFile makes c the content of the file at p.
LEMMA CopyFileMoves ==
  ASSUME TypeInv, DriveInv, NEW p \in Paths, NEW c \in Known, c # 0, CopyFile(p, c)
  PROVE  \E id \in Ids :
            /\ DriveMoves(id) /\ At(p) \subseteq {id}
            /\ drive'[id] = [state |-> "live", path |-> p, ver |-> c, seq |-> head + 1]
<1>0. head < MaxHead /\ c \in 0..(2 * (head + 1) + 1) /\ p # NoPath /\ p \in Paths \union {Aside, NoPath}
  BY PullAssumption DEF CopyFile, Known, TypeInv
<1>1. CASE At(p) # {}
  <2>1. PICK id \in At(p) : Change(id, "live", p, c)
    BY <1>1 DEF CopyFile
  <2>2. At(p) = {id} /\ id \in Ids
    BY <2>1, RemoteIs DEF At
  <2> QED
    BY <1>0, <2>1, <2>2, ChangeMoves
<1>2. CASE At(p) = {}
  <2>1. PICK id \in Unborn : Change(id, "live", p, c)
    BY <1>2 DEF CopyFile
  <2>2. id \in Ids
    BY <2>1 DEF Unborn
  <2> QED
    BY <1>0, <1>2, <2>1, <2>2, ChangeMoves
<1> QED
  BY <1>1, <1>2

\* The remote user.
LEMMA UserMoves ==
  ASSUME TypeInv, DriveInv, RemoteUser
  PROVE  /\ UNCHANGED <<diskVars, memVars>>
         /\ \E id \in Ids :
               /\ DriveMoves(id)
               /\ drive'[id].state = "live" /\ drive'[id].path \in Paths =>
                     \/ drive'[id].ver = Fresh
                     \/ "move" \in RemoteOps
<1>1. PICK id \in Ids :
         \/ \E p \in Paths : RemoteCreate(id, p) \/ RemoteMove(id, p)
         \/ RemoteEdit(id) \/ RemoteTrash(id) \/ RemoteRemove(id)
  BY DEF RemoteUser
<1>2. UserHead <= MaxHead /\ UserHead \in Nat /\ MaxHead \in Nat /\ head \in Nat
  BY PullAssumption DEF TypeInv, UserHead, MaxHead
<1>3. /\ drive[id] \in Files /\ drive[id].path \in Paths \union {Aside, NoPath}
      /\ drive[id].ver \in 0..(2 * (head + 1) + 1)
      /\ Fresh \in 0..(2 * (head + 1) + 1) /\ Fresh # 0
  BY <1>2 DEF TypeInv, Files, Known, Fresh
<1>4. Live(id) /\ drive[id].path # Aside =>
         /\ drive[id].path \in Paths
         /\ drive[id].ver # 0
         /\ \A j \in Ids \ {id} : j \notin At(drive[id].path)
  BY <1>3 DEF DriveInv, At
<1> DEFINE v == drive[id].ver
           q == drive[id].path
           f == Fresh
<1>5. /\ v \in 0..(2 * (head + 1) + 1) /\ f \in 0..(2 * (head + 1) + 1) /\ f # 0
      /\ q \in Paths \union {Aside, NoPath}
      /\ Live(id) /\ q # Aside => q \in Paths /\ v # 0 /\ \A j \in Ids \ {id} : j \notin At(q)
  BY <1>3, <1>4
<1>6. \A p \in Paths : p # NoPath /\ p # Aside
  BY PullAssumption
<1>7. ASSUME NEW p \in Paths, RemoteCreate(id, p) PROVE DriveMoves(id) /\ drive'[id].ver = f
  <2>1. Change(id, "live", p, f) /\ head < MaxHead /\ At(p) = {}
    BY <1>2, <1>7 DEF RemoteCreate, UserTurn
  <2> HIDE DEF f, v, q
  <2>2. DriveMoves(id) /\ drive'[id] = [state |-> "live", path |-> p, ver |-> f, seq |-> head + 1]
    BY <1>5, <1>6, <2>1, ChangeMoves
  <2> QED
    BY <2>2
<1>8. ASSUME NEW p \in Paths, RemoteMove(id, p) PROVE DriveMoves(id) /\ "move" \in RemoteOps
  <2>1. /\ Change(id, "live", p, v) /\ head < MaxHead /\ At(p) = {} /\ Live(id) /\ q # Aside
        /\ "move" \in RemoteOps
    BY <1>2, <1>8 DEF RemoteMove, UserTurn
  <2> HIDE DEF f, v, q
  <2> QED
    BY <1>5, <1>6, <2>1, ChangeMoves
<1>9. ASSUME RemoteEdit(id) PROVE DriveMoves(id) /\ drive'[id].ver = f
  <2>1. Change(id, "live", q, f) /\ head < MaxHead /\ Live(id) /\ q # Aside
    BY <1>2, <1>9 DEF RemoteEdit, UserTurn
  <2> HIDE DEF f, v, q
  <2>2. DriveMoves(id) /\ drive'[id] = [state |-> "live", path |-> q, ver |-> f, seq |-> head + 1]
    BY <1>5, <1>6, <2>1, ChangeMoves
  <2> QED
    BY <2>2
<1>10. ASSUME RemoteTrash(id) \/ RemoteRemove(id) PROVE DriveMoves(id) /\ drive'[id].state # "live"
  <2>1. /\ Change(id, "trashed", q, v) \/ Change(id, "removed", q, v)
        /\ head < MaxHead
    BY <1>2, <1>10 DEF RemoteTrash, RemoteRemove, UserTurn
  <2> HIDE DEF f, v, q
  <2>2. CASE Change(id, "trashed", q, v)
    <3>1. DriveMoves(id) /\ drive'[id] = [state |-> "trashed", path |-> q, ver |-> v, seq |-> head + 1]
      BY <1>5, <2>1, <2>2, ChangeMoves
    <3> QED
      BY <3>1
  <2>3. CASE Change(id, "removed", q, v)
    <3>1. DriveMoves(id) /\ drive'[id] = [state |-> "removed", path |-> q, ver |-> v, seq |-> head + 1]
      BY <1>5, <2>1, <2>3, ChangeMoves
    <3> QED
      BY <3>1
  <2> QED
    BY <2>1, <2>2, <2>3
<1>11. UNCHANGED <<diskVars, memVars>>
  BY <1>1 DEF RemoteCreate, RemoteMove, RemoteEdit, RemoteTrash, RemoteRemove
<1> QED
  BY <1>1, <1>7, <1>8, <1>9, <1>10, <1>11

\* Whose turn it is: the item or the difference that a step is about.
LEMMA DiffTyped ==
  ASSUME TypeInv, NEW d \in diffs
  PROVE  d \in KnownDiffs /\ d.path \in Paths /\ local[d.path] \in Known
<1>1. d \in KnownDiffs
  BY DEF TypeInv
<1>2. d.path \in Paths
  BY <1>1 DEF KnownDiffs
<1> QED
  BY <1>1, <1>2 DEF TypeInv

\* A step of the pass that uploads has a file to upload.
LEMMA UploadHasFile ==
  ASSUME TypeInv, TurnInv, NEW d \in diffs, Turn(d, "local_only") \/ Turn(d, "upload")
  PROVE  local[d.path] # 0
BY DEF TurnInv, Turn

\* The effects of the steps that use the remote file operations.
LEMMA UploadMoves ==
  ASSUME TypeInv, DriveInv, TurnInv, UploadWinner
  PROVE  \/ DriveSame
         \/ \E id \in Ids : /\ DriveMoves(id) /\ At(Item.path) \subseteq {id}
                            /\ drive'[id].state = "live" /\ drive'[id].path = Item.path
                            /\ drive'[id].ver = local[Item.path] /\ pc' = "kept" /\ items' = items
<1> DEFINE p == Item.path
           c == local[Item.path]
<1>1. items # {} /\ p \in Paths /\ c \in Known /\ c # 0
  BY ItemTyped DEF UploadWinner, TurnInv, TypeInv, Busy
<1>2. CASE UNCHANGED driveVars
  BY <1>2 DEF driveVars, DriveSame
<1>3. CASE CopyFile(p, c) /\ ItemGoesTo("kept")
  <2> HIDE DEF p, c
  <2>1. PICK id \in Ids :
            /\ DriveMoves(id) /\ At(p) \subseteq {id}
            /\ drive'[id] = [state |-> "live", path |-> p, ver |-> c, seq |-> head + 1]
    BY <1>1, <1>3, CopyFileMoves
  <2> QED
    BY <1>3, <2>1 DEF p, c, ItemGoesTo
<1> QED
  BY <1>2, <1>3 DEF UploadWinner

LEMMA LocalWinsMoves ==
  ASSUME TypeInv, DriveInv, LocalWins
  PROVE  \/ /\ UNCHANGED driveVars /\ ItemDone(TRUE)
            /\ Refused \/ At(Item.path) = {}
         \/ \E id \in Ids : /\ DriveMoves(id) /\ At(Item.path) = {id} /\ drive'[id].path = Aside
                            /\ pc' = "upload" /\ items' = items
<1> DEFINE p == Item.path
<1>1. items # {} /\ p \in Paths
  BY ItemTyped DEF LocalWins, InProgress
<1>3. CASE MoveAside(p) /\ ItemGoesTo("upload")
  <2> HIDE DEF p
  <2>1. PICK id \in At(p) : id \in Ids /\ At(p) = {id} /\ DriveMoves(id) /\ drive'[id].path = Aside
    BY <1>1, <1>3, MoveAsideMoves
  <2> QED
    BY <1>3, <2>1 DEF p, ItemGoesTo
<1> QED
  BY <1>3 DEF LocalWins

LEMMA BisyncUploadMoves ==
  ASSUME TypeInv, DriveInv, TurnInv, NEW d \in diffs, BisyncUpload(d)
  PROVE  \/ DriveSame /\ DiffDone(d)
         \/ \E id \in Ids : /\ DriveMoves(id) /\ At(d.path) \subseteq {id}
                            /\ drive'[id].state = "live" /\ drive'[id].path = d.path
                            /\ drive'[id].ver = local[d.path] /\ DiffGoesTo(d, "uploaded")
<1> DEFINE p == d.path
           c == local[d.path]
<1>1. p \in Paths /\ c \in Known /\ c # 0
  BY DiffTyped, UploadHasFile DEF BisyncUpload
<1>2. CASE UNCHANGED driveVars /\ DiffDone(d)
  BY <1>2 DEF driveVars, DriveSame
<1>3. CASE CopyFile(p, c) /\ DiffGoesTo(d, "uploaded")
  <2> HIDE DEF p, c
  <2>1. PICK id \in Ids :
            /\ DriveMoves(id) /\ At(p) \subseteq {id}
            /\ drive'[id] = [state |-> "live", path |-> p, ver |-> c, seq |-> head + 1]
    BY <1>1, <1>3, CopyFileMoves
  <2> QED
    BY <1>3, <2>1 DEF p, c
<1> QED
  BY <1>2, <1>3 DEF BisyncUpload

LEMMA BisyncLocalWinsMoves ==
  ASSUME TypeInv, DriveInv, NEW d \in diffs, BisyncLocalWins(d)
  PROVE  \/ DriveSame /\ DiffDone(d)
         \/ \E id \in Ids : /\ DriveMoves(id) /\ At(d.path) = {id} /\ drive'[id].path = Aside
                            /\ DiffGoesTo(d, "upload")
<1> DEFINE p == d.path
<1>1. p \in Paths
  BY DiffTyped
<1>2. CASE UNCHANGED driveVars /\ DiffDone(d)
  BY <1>2 DEF driveVars, DriveSame
<1>3. CASE MoveAside(p) /\ DiffGoesTo(d, "upload")
  <2> HIDE DEF p
  <2>1. PICK id \in At(p) : id \in Ids /\ At(p) = {id} /\ DriveMoves(id) /\ drive'[id].path = Aside
    BY <1>1, <1>3, MoveAsideMoves
  <2> QED
    BY <1>3, <2>1 DEF p
<1> QED
  BY <1>2, <1>3 DEF BisyncLocalWins

\* The steps that leave Drive alone.
Aloof ==
    \/ PollBegin \/ Walk \/ PollChanges \/ PollGone \/ Persist
    \/ ProcessDelete \/ Forget \/ SkipUnchanged \/ Download \/ Record
    \/ RemoteWins \/ FetchWinner \/ RecordConflict
    \/ ListFails \/ BisyncDiff \/ Restart
    \/ \E d \in diffs : BisyncDownload(d) \/ BisyncRemoteWins(d) \/ BisyncRecord(d)

LEMMA AloofSame == ASSUME Aloof PROVE DriveSame
BY DEF Aloof, PollBegin, Walk, PollChanges, PollGone, Persist, ProcessDelete, Forget, SkipUnchanged,
   Download, Record, RemoteWins, FetchWinner, RecordConflict, ListFails, BisyncDiff, Restart,
   BisyncDownload, BisyncRemoteWins, BisyncRecord, driveVars, DriveSame

\* The steps of the specification, those that may change Drive by themselves.
LEMMA NextSteps ==
  ASSUME Next
  PROVE  \/ RemoteUser \/ Expire \/ Aloof \/ LocalWins \/ UploadWinner
         \/ \E d \in diffs : BisyncUpload(d) \/ BisyncLocalWins(d)
BY DEF Next, PullSteps, BisyncSteps, Aloof

\* At most one file changes on Drive.
LEMMA DriveStep ==
  ASSUME TypeInv, DriveInv, TurnInv, [Next]_vars
  PROVE  \/ UNCHANGED <<setup, drive, head>>
         \/ \E id \in Ids : DriveMoves(id)
<1>1. CASE RemoteUser
  BY <1>1, UserMoves
<1>2. CASE Expire
  BY <1>2 DEF Expire
<1>3. CASE Aloof
  BY <1>3, AloofSame DEF DriveSame
<1>4. CASE LocalWins
  BY <1>4, LocalWinsMoves DEF driveVars
<1>5. CASE UploadWinner
  BY <1>5, UploadMoves DEF DriveSame
<1>6. ASSUME NEW d \in diffs, BisyncUpload(d) \/ BisyncLocalWins(d)
      PROVE  DriveSame \/ \E id \in Ids : DriveMoves(id)
  BY <1>6, BisyncUploadMoves, BisyncLocalWinsMoves
<1>7. CASE UNCHANGED vars
  BY <1>7 DEF vars, driveVars
<1> QED
  BY <1>1, <1>2, <1>3, <1>4, <1>5, <1>6, <1>7, NextSteps DEF DriveSame

\* Drive keeps one live file per path.
LEMMA DriveInvStep ==
  ASSUME TypeInv, DriveInv, TurnInv, [Next]_vars
  PROVE  DriveInv'
<1>1. CASE UNCHANGED <<setup, drive, head>>
  BY <1>1 DEF DriveInv, Live
<1>2. ASSUME NEW id \in Ids, DriveMoves(id) PROVE DriveInv'
  BY <1>2 DEF DriveMoves, DriveInv, Live, At
<1> QED
  BY <1>1, <1>2, DriveStep

----------------------------------------------------------------------------
(* Type correctness.                                                       *)

LocalType == local \in [Paths -> Known]
JournalType == journal \in [Paths -> KnownEntries \union {NoEntry}]
TokenType == token \in [kind : {"none", "start", "page"}, pos : 0..head] /\ next \in 0..head
CacheType == cache \in [Ids -> Paths \union {Aside, NoPath}]
FlagType == /\ dirKnown \in BOOLEAN /\ lastErr \in BOOLEAN
            /\ pc \in {"idle", "list", "process", "bisync"} \union Busy
ItemType == items \subseteq KnownChanges /\ (pc \in Busy => items # {})
DiffType == diffs \subseteq KnownDiffs
MemType == LocalType /\ JournalType /\ TokenType /\ CacheType /\ FlagType /\ ItemType /\ DiffType
DriveType == /\ setup \in Setups /\ drive \in [Ids -> Files]
             /\ head \in Nat /\ head <= MaxHead /\ floor \in 0..(head + 1)

LEMMA TypeParts == TypeInv <=> DriveType /\ MemType
BY DEF TypeInv, DriveType, MemType, LocalType, JournalType, TokenType, CacheType, FlagType, ItemType, DiffType

\* What does not change stays typed while the feed grows.
LEMMA Carried ==
  ASSUME MemType, head \in Nat, head' \in Nat, head <= head'
  PROVE  /\ UNCHANGED local => LocalType'
         /\ UNCHANGED journal => JournalType'
         /\ UNCHANGED <<token, next>> => TokenType'
         /\ UNCHANGED cache => CacheType'
         /\ UNCHANGED <<dirKnown, lastErr, pc>> => FlagType'
         /\ items \subseteq KnownChanges'
         /\ diffs \subseteq KnownDiffs'
BY Widen DEF MemType, LocalType, JournalType, TokenType, CacheType, FlagType, ItemType, DiffType

LEMMA DriveTypeStep ==
  ASSUME TypeInv, DriveInv, TurnInv, [Next]_vars
  PROVE  DriveType' /\ head <= head'
<1>0. DriveType /\ TokenType
  BY TypeParts DEF MemType
<1>1. CASE UNCHANGED <<setup, drive, head>>
  <2>1. CASE UNCHANGED floor
    BY <1>0, <1>1, <2>1 DEF DriveType, Files, Known, MaxHead
  <2>2. CASE Expire
    <3>1. floor' \in 0..(head + 1)
      BY <1>0, <2>2 DEF Expire, TokenType, DriveType
    <3> QED
      BY <1>0, <1>1, <3>1 DEF DriveType, Files, Known, MaxHead
  <2>3. floor' = floor \/ Expire
    <3>1. RemoteUser \/ Aloof \/ LocalWins \/ UploadWinner \/ UNCHANGED vars => floor' = floor
      BY UserMoves, AloofSame, LocalWinsMoves, UploadMoves DEF vars, driveVars, DriveSame, DriveMoves
    <3>2. \A d \in diffs : BisyncUpload(d) \/ BisyncLocalWins(d) => floor' = floor
      BY BisyncUploadMoves, BisyncLocalWinsMoves DEF DriveSame, DriveMoves
    <3> QED
      BY <3>1, <3>2, NextSteps
  <2> QED
    BY <2>1, <2>2, <2>3
<1>2. ASSUME NEW id \in Ids, DriveMoves(id) PROVE DriveType' /\ head <= head'
  <2>1. MaxHead \in Nat /\ MaxHead' = MaxHead
    BY <1>0, <1>2, PullAssumption DEF DriveType, MaxHead, DriveMoves
  <2> QED
    BY <1>0, <1>2, <2>1 DEF DriveType, DriveMoves
<1> QED
  BY <1>1, <1>2, DriveStep

\* A change of the feed as the poll lists it.
LEMMA TranslateTyped ==
  ASSUME TypeInv, NEW id \in Ids, Translatable(id)
  PROVE  /\ Translate(id) \in KnownChanges
         /\ Translate(id).seq = drive[id].seq
         /\ ~Translate(id).del /\ DriveInv =>
               /\ Live(id) /\ Translate(id).path = drive[id].path
               /\ Translate(id).c = drive[id].ver
<1>1. drive[id] \in Files /\ cache[id] \in Paths \union {Aside, NoPath} /\ head \in Nat
  BY DEF TypeInv
<1>2. drive[id].ver \in Known /\ drive[id].seq \in 0..head /\ 0 \in Known
  BY <1>1 DEF Files, Known
<1>3. CASE drive[id].state = "removed"
  BY <1>1, <1>2, <1>3 DEF Translatable, Translate, KnownChanges, Live
<1>4. CASE drive[id].state = "trashed"
  BY <1>1, <1>2, <1>4 DEF Translatable, Translate, KnownChanges, Live
<1>5. CASE drive[id].state = "live"
  BY <1>1, <1>2, <1>5 DEF Translatable, Translate, KnownChanges, Live
<1>6. CASE drive[id].state = "unborn"
  <2>1. DriveInv => FALSE
    BY <1>6, PullAssumption DEF DriveInv, Translatable
  <2> QED
    BY <1>1, <1>2, <1>6, <2>1 DEF Translatable, Translate, KnownChanges, Live
<1> QED
  BY <1>1, <1>3, <1>4, <1>5, <1>6 DEF Files

\* The bisync pass lists differences of the right type.
LEMMA DiffListed ==
  ASSUME TypeInv, DriveInv, NEW p \in Paths, KindOf(p) # "same"
  PROVE  /\ Diff(p) \in KnownDiffs
         /\ Diff(p).path = p /\ Diff(p).l = local[p]
         /\ Diff(p).r = (IF p \in Nested THEN 0 ELSE RemoteAt(p))
         /\ Diff(p).kind \in {"local_only", "remote_only", "conflict"}
         /\ Diff(p).kind \in {"local_only", "conflict"} => local[p] # 0
         /\ Diff(p).kind = "local_only" => Diff(p).r = 0
<1>1. local[p] \in Known /\ Listed(p) \in Known /\ Listed(p) = (IF p \in Nested THEN 0 ELSE RemoteAt(p))
  BY RemoteIs DEF Listed, TypeInv, Known
<1>2. /\ KindOf(p) \in {"local_only", "remote_only", "conflict"}
      /\ KindOf(p) \in {"local_only", "conflict"} => local[p] # 0
      /\ KindOf(p) = "local_only" => Listed(p) = 0
  BY DEF KindOf
<1>3. Diff(p) = [path |-> p, kind |-> KindOf(p), l |-> local[p], r |-> Listed(p)]
  BY DEF Diff
<1> HIDE DEF KindOf, Listed
<1> QED
  BY <1>1, <1>2, <1>3 DEF KnownDiffs, DiffKinds

\* Downloads write contents that exist.
LEMMA DownloadTyped ==
  ASSUME TypeInv, DriveInv, NEW p \in Paths, DownloadFile(p) \/ DownloadFails(p)
  PROVE  local' \in [Paths -> Known]
<1>1. RemoteAt(p) \in Known /\ local \in [Paths -> Known] /\ 2 * head + 1 \in Known
  BY RemoteIs DEF TypeInv, Known
<1>2. CASE local' = [local EXCEPT ![p] = RemoteAt(p)]
  BY <1>1, <1>2
<1>3. CASE local' = [local EXCEPT ![p] = 2 * head + 1]
  BY <1>1, <1>3
<1>4. CASE local' = local
  BY <1>1, <1>4
<1> QED
  BY <1>2, <1>3, <1>4 DEF DownloadFile, DownloadFails

LEMMA PullTyped ==
  ASSUME TypeInv, DriveInv, Aloof, pc # "bisync", ~BisyncDiff, ~Restart
  PROVE  MemType'
<1>0. MemType /\ head \in Nat
  BY TypeParts DEF TypeInv
<1>1. /\ head' = head /\ Known' = Known /\ KnownChanges' = KnownChanges /\ KnownEntries' = KnownEntries
      /\ KnownDiffs' = KnownDiffs
  BY AloofSame DEF DriveSame, Known, KnownChanges, KnownEntries, KnownDiffs, DiffKinds
<1> USE DEF MemType, LocalType, JournalType, TokenType, CacheType, FlagType, ItemType, DiffType
<1>2. CASE PollBegin \/ PollGone \/ ListFails
  BY <1>0, <1>1, <1>2 DEF PollBegin, PollGone, ListFails, StartToken, diskVars, memVars, Busy
<1>3. CASE Walk
  <2>1. ASSUME NEW id \in Ids, Live(id), drive[id].path # Aside, DriveInv
        PROVE  [path |-> drive[id].path, del |-> FALSE, c |-> drive[id].ver,
                md5 |-> FALSE, seq |-> drive[id].seq] \in KnownChanges
    BY <2>1 DEF TypeInv, Files, KnownChanges, DriveInv
  <2>2. items' \subseteq KnownChanges
    BY <1>3, <2>1 DEF Walk
  <2>3. cache' \in [Ids -> Paths \union {Aside, NoPath}]
    BY <1>0, <1>3 DEF Walk, TypeInv, Files
  <2>4. UNCHANGED <<local, journal, token, diffs>> /\ next' = token.pos /\ pc' = "process"
        /\ dirKnown' = TRUE /\ lastErr' = FALSE
    BY <1>3 DEF Walk, diskVars
  <2> QED
    BY <1>0, <1>1, <2>2, <2>3, <2>4 DEF Busy
<1>4. CASE PollChanges
  <2>2. items' \subseteq KnownChanges
    BY <1>4, TranslateTyped DEF PollChanges
  <2>3. cache' \in [Ids -> Paths \union {Aside, NoPath}]
    BY <1>0, <1>4 DEF PollChanges, TypeInv, Files
  <2>4. UNCHANGED <<local, journal, token, diffs, dirKnown>> /\ next' = head /\ pc' = "process"
        /\ lastErr' = FALSE
    BY <1>4 DEF PollChanges, diskVars
  <2>5. FlagType' /\ ItemType'
    BY <1>0, <1>1, <2>2, <2>4 DEF Busy
  <2>6. TokenType'
    BY <1>0, <1>1, <2>4
  <2>7. LocalType' /\ JournalType' /\ CacheType' /\ DiffType'
    BY <1>0, <1>1, <2>3, <2>4
  <2> QED
    BY <2>5, <2>6, <2>7
<1>5. CASE Persist
  BY <1>0, <1>1, <1>5 DEF Persist, Page, Busy
<1>6. ASSUME items # {} PROVE Item \in items /\ Item.path \in Paths /\ Item.c \in Known /\ Item.md5 \in BOOLEAN
  BY <1>6, ItemTyped DEF KnownChanges
<1>7. CASE ProcessDelete \/ RemoteWins
  <2>0. 0 \in Known
    BY <1>0 DEF Known
  <2>1. items # {} /\ 0 \in Known
    BY <1>7, <2>0 DEF ProcessDelete, RemoteWins, InProgress
  <2>2. local' \in [Paths -> Known] /\ journal' = journal /\ token' = token
    BY <1>0, <1>6, <1>7, <2>1 DEF ProcessDelete, RemoteWins
  <2>3. ItemGoesTo("forget") \/ ItemGoesTo("fetch") \/ ItemDone(TRUE)
    BY <1>7 DEF ProcessDelete, RemoteWins
  <2> QED
    BY <1>0, <1>1, <2>1, <2>2, <2>3 DEF ItemGoesTo, ItemDone, Busy
<1>8. CASE Forget
  <2>1. journal' \in [Paths -> KnownEntries \union {NoEntry}]
    BY <1>0, <1>8 DEF Forget
  <2> QED
    BY <1>0, <1>1, <1>8, <2>1 DEF Forget, ItemDone, Busy
<1>9. CASE SkipUnchanged
  BY <1>0, <1>1, <1>9 DEF SkipUnchanged, ItemDone, diskVars, Busy
<1>10. CASE Download \/ FetchWinner
  <2>1. items # {}
    BY <1>0, <1>10 DEF Download, FetchWinner, InProgress, Busy
  <2>2. DownloadFile(Item.path) \/ DownloadFails(Item.path)
    BY <1>10 DEF Download, FetchWinner
  <2>3. local' \in [Paths -> Known]
    BY <1>6, <2>1, <2>2, DownloadTyped
  <2>4. /\ journal' = journal /\ token' = token
        /\ ItemGoesTo("record") \/ ItemGoesTo("taken") \/ ItemDone(TRUE)
    BY <1>10 DEF Download, FetchWinner
  <2> QED
    BY <1>0, <1>1, <2>1, <2>3, <2>4 DEF ItemGoesTo, ItemDone, Busy
<1>11. CASE Record \/ RecordConflict
  <2>1. items # {}
    BY <1>0, <1>11 DEF Record, RecordConflict, Busy
  <2>2. \E l \in Known : journal' = [journal EXCEPT ![Item.path] = [r |-> Item.c, l |-> l, md5 |-> Item.md5]]
    BY <1>0, <1>6, <1>11, <2>1 DEF Record, RecordConflict
  <2>3. journal' \in [Paths -> KnownEntries \union {NoEntry}]
    BY <1>0, <1>6, <2>1, <2>2 DEF KnownEntries
  <2>4. ItemDone(FALSE) /\ local' = local /\ token' = token
    BY <1>11 DEF Record, RecordConflict
  <2> QED
    BY <1>0, <1>1, <2>3, <2>4 DEF ItemDone, Busy
<1>12. \A d \in diffs : ~BisyncDownload(d) /\ ~BisyncRemoteWins(d) /\ ~BisyncRecord(d)
  BY DEF BisyncDownload, BisyncRemoteWins, BisyncRecord, Turn
<1> QED
  BY <1>2, <1>3, <1>4, <1>5, <1>7, <1>8, <1>9, <1>10, <1>11, <1>12 DEF Aloof

\* A difference that is finished with, or has come further.
LEMMA DiffMoves ==
  ASSUME TypeInv, NEW d \in diffs, NEW step \in DiffKinds, pc = "bisync", head <= head', head' \in Nat,
         DiffDone(d) \/ DiffGoesTo(d, step)
  PROVE  /\ DiffType' /\ FlagType' /\ ItemType' /\ CacheType' /\ items' = items /\ next' = next
         /\ pc' \in {"idle", "bisync"} /\ (pc' = "idle" => diffs' = {})
<1>0. MemType /\ head \in Nat
  BY TypeParts DEF TypeInv
<1>1. [d EXCEPT !.kind = step] \in KnownDiffs
  BY DiffTyped DEF KnownDiffs
<1>2. diffs' \subseteq KnownDiffs
  BY <1>1 DEF DiffDone, DiffGoesTo, TypeInv
<1>3. DiffType' /\ items \subseteq KnownChanges'
  BY <1>0, <1>2, Widen DEF DiffType, MemType, ItemType
<1>4. items' = items /\ cache' = cache /\ dirKnown' = dirKnown /\ lastErr' = lastErr /\ next' = next
      /\ pc' \in {"idle", "bisync"} /\ (pc' = "idle" => diffs' = {})
  BY DEF DiffDone, DiffGoesTo
<1> QED
  BY <1>0, <1>3, <1>4 DEF MemType, FlagType, ItemType, CacheType, Busy

LEMMA PassTyped ==
  ASSUME TypeInv, DriveInv, TurnInv, BisyncSteps, head <= head', head' \in Nat
  PROVE  MemType'
<1>0. MemType /\ head \in Nat /\ (head' = head => Known' = Known /\ KnownEntries' = KnownEntries /\ KnownDiffs' = KnownDiffs)
  BY TypeParts DEF TypeInv, Known, KnownEntries, KnownDiffs, DiffKinds
<1>1. CASE BisyncDiff
  <2>1. diffs' \subseteq KnownDiffs
    <3> HIDE DEF KindOf, Diff
    <3>1. \A p \in Paths : Diff(p).kind # "same" => KindOf(p) # "same"
      BY DEF Diff
    <3> QED
      BY <1>1, <3>1, DiffListed DEF BisyncDiff
  <2>2. diffs' \subseteq KnownDiffs'
    BY <1>0, <2>1, Widen
  <2>3. UNCHANGED <<local, journal, token, cache, dirKnown, items, next, lastErr>> /\ pc' = "bisync"
    BY <1>1 DEF BisyncDiff, diskVars
  <2>4. LocalType' /\ JournalType' /\ TokenType' /\ CacheType' /\ items' \subseteq KnownChanges'
    BY <1>0, <2>3, Carried
  <2> QED
    BY <1>0, <2>2, <2>3, <2>4 DEF MemType, FlagType, ItemType, DiffType, Busy
<1>2. ASSUME NEW d \in diffs,
             \/ BisyncUpload(d) \/ BisyncDownload(d)
             \/ BisyncLocalWins(d) \/ BisyncRemoteWins(d) \/ BisyncRecord(d)
      PROVE  MemType'
  <2>1. /\ pc = "bisync" /\ token' = token
        /\ \E step \in DiffKinds : DiffDone(d) \/ DiffGoesTo(d, step)
    BY <1>2 DEF BisyncUpload, BisyncDownload, BisyncLocalWins, BisyncRemoteWins, BisyncRecord, Turn,
                DiffKinds, diskVars
  <2>2. DiffType' /\ FlagType' /\ ItemType' /\ CacheType' /\ next' = next
    BY <1>0, <2>1, DiffMoves
  <2>3. TokenType'
    BY <1>0, <2>1, <2>2, Carried
  <2>4. LocalType' /\ JournalType'
    <3>1. CASE BisyncUpload(d) \/ BisyncLocalWins(d)
      BY <1>0, <3>1, Carried DEF BisyncUpload, BisyncLocalWins, diskVars
    <3>2. CASE BisyncDownload(d) \/ BisyncRemoteWins(d)
      <4>1. head' = head /\ journal' = journal
        BY <3>2 DEF BisyncDownload, BisyncRemoteWins, driveVars
      <4>2. d.path \in Paths
        BY DiffTyped
      <4>3. local' \in [Paths -> Known]
        <5>1. CASE BisyncDownload(d)
          BY <4>2, <5>1, DownloadTyped DEF BisyncDownload
        <5>2. CASE BisyncRemoteWins(d)
          BY <1>0, <4>2, <5>2 DEF BisyncRemoteWins, MemType, LocalType, Known
        <5> QED
          BY <3>2, <5>1, <5>2
      <4> QED
        BY <1>0, <4>1, <4>3 DEF LocalType, JournalType, MemType
    <3>3. CASE BisyncRecord(d)
      <4>1. head' = head /\ local' = local
        BY <3>3 DEF BisyncRecord, driveVars
      <4>2. d \in KnownDiffs
        BY DiffTyped
      <4>3. \E c \in Known : journal' = [journal EXCEPT ![d.path] = [r |-> c, l |-> c, md5 |-> FALSE]]
        BY <3>3, <4>2 DEF BisyncRecord, KnownDiffs
      <4>4. journal' \in [Paths -> KnownEntries \union {NoEntry}]
        <5>1. PICK c \in Known : journal' = [journal EXCEPT ![d.path] = [r |-> c, l |-> c, md5 |-> FALSE]]
          BY <4>3
        <5>2. [r |-> c, l |-> c, md5 |-> FALSE] \in KnownEntries
          BY DEF KnownEntries
        <5> QED
          BY <1>0, <5>1, <5>2 DEF MemType, JournalType
      <4> QED
        BY <1>0, <4>1, <4>4 DEF LocalType, JournalType, MemType
    <3> QED
      BY <1>2, <3>1, <3>2, <3>3
  <2> QED
    BY <2>2, <2>3, <2>4 DEF MemType
<1> QED
  BY <1>1, <1>2 DEF BisyncSteps

LEMMA TypeStep ==
  ASSUME TypeInv, DriveInv, TurnInv, [Next]_vars
  PROVE  TypeInv'
<1>0. MemType /\ DriveType' /\ head <= head' /\ head' \in Nat /\ head \in Nat
  BY TypeParts, DriveTypeStep DEF TypeInv, DriveType
<1>1. CASE RemoteUser \/ Expire \/ UNCHANGED vars
  <2>1. UNCHANGED <<local, journal, token, cache, dirKnown, pc, items, next, lastErr, diffs>>
    BY <1>1, UserMoves DEF Expire, vars, diskVars, memVars
  <2>2. /\ LocalType' /\ JournalType' /\ TokenType' /\ CacheType' /\ FlagType'
        /\ items' \subseteq KnownChanges' /\ diffs' \subseteq KnownDiffs'
    BY <1>0, <2>1, Carried
  <2>3. MemType'
    BY <1>0, <2>1, <2>2 DEF MemType, ItemType, DiffType
  <2> QED
    BY <1>0, <2>3, TypeParts, PTL
<1>2. CASE BisyncSteps
  BY <1>0, <1>2, PassTyped, TypeParts, PTL
<1>3. CASE LocalWins \/ UploadWinner
  <2>1. UNCHANGED <<local, journal, token, cache, dirKnown, next, diffs>>
    BY <1>3 DEF LocalWins, UploadWinner, diskVars, ItemGoesTo, ItemDone
  <2>2. /\ LocalType' /\ JournalType' /\ TokenType' /\ CacheType'
        /\ items \subseteq KnownChanges' /\ diffs' \subseteq KnownDiffs'
    BY <1>0, <2>1, Carried
  <2>3. items # {} /\ (ItemDone(TRUE) \/ ItemGoesTo("upload") \/ ItemGoesTo("kept"))
    BY <1>0, <1>3 DEF LocalWins, UploadWinner, InProgress, MemType, ItemType, Busy
  <2>4. FlagType' /\ ItemType'
    BY <1>0, <2>2, <2>3 DEF ItemDone, ItemGoesTo, FlagType, ItemType, MemType, Busy
  <2>5. MemType'
    BY <2>2, <2>4 DEF MemType, DiffType
  <2> QED
    BY <1>0, <2>5, TypeParts, PTL
<1>4. CASE Restart
  <2>1. UNCHANGED <<local, journal, token>> /\ head' = head
    BY <1>4 DEF Restart, driveVars, diskVars
  <2>2. LocalType' /\ JournalType'
    BY <1>0, <2>1, Carried
  <2>3. CacheType' /\ FlagType' /\ ItemType' /\ DiffType'
    BY <1>4 DEF Restart, CacheType, FlagType, ItemType, DiffType, Busy
  <2>4. TokenType'
    BY <1>0, <1>4, <2>1 DEF Restart, TokenType, MemType
  <2>5. MemType'
    BY <2>2, <2>3, <2>4 DEF MemType
  <2> QED
    BY <1>0, <2>5, TypeParts, PTL
<1>5. CASE Aloof /\ ~BisyncSteps /\ ~Restart
  <2>1. pc # "bisync"
    BY <1>5 DEF Aloof, BisyncSteps, PollBegin, Walk, PollChanges, PollGone, Persist, ProcessDelete,
       Forget, SkipUnchanged, Download, Record, RemoteWins, FetchWinner, RecordConflict, ListFails, InProgress
  <2>2. ~BisyncDiff
    BY <1>5 DEF BisyncSteps
  <2> QED
    BY <1>0, <1>5, <2>1, <2>2, PullTyped, TypeParts, PTL
<1> QED
  BY <1>1, <1>2, <1>3, <1>4, <1>5, NextSteps DEF BisyncSteps

----------------------------------------------------------------------------
(* Turns: one item of the poll, or one difference of the pass.             *)

\* A change is finished with.
LEMMA TurnDone ==
  ASSUME TypeInv, TurnInv, pc \in {"process"} \union Busy, NEW err, ItemDone(err)
  PROVE  TurnInv'
<1>1. diffs' = {} /\ items' \subseteq items /\ pc' = "process"
  BY DEF ItemDone, TurnInv, Busy
<1> QED
  BY <1>1 DEF TurnInv, Busy

\* The change comes a step further.
LEMMA TurnGoesOn ==
  ASSUME TypeInv, TurnInv, pc \in {"process"} \union Busy, NEW step \in Busy, ItemGoesTo(step),
         step # "forget" => ~Item.del,
         step \in {"forget", "fetch"} => local'[Item.path] = 0,
         step = "upload" => local'[Item.path] # 0
  PROVE  TurnInv'
<1>1. diffs' = {} /\ items' = items /\ pc' = step
  BY DEF ItemGoesTo, TurnInv, Busy
<1>2. Item' = Item
  BY <1>1 DEF Item
<1> QED
  BY <1>1, <1>2 DEF TurnInv, Busy

\* A difference is finished with, or comes a step further.
LEMMA TurnDiffDone ==
  ASSUME TypeInv, TurnInv, pc = "bisync", NEW d \in diffs, DiffDone(d),
         \A p \in Paths : p # d.path => local'[p] = local[p]
  PROVE  TurnInv'
<1>1. /\ diffs' = diffs \ {d} /\ items' = {} /\ pc' \in {"idle", "bisync"}
      /\ (pc' = "idle" => diffs' = {})
  BY DEF DiffDone, TurnInv
<1>2. \A e \in diffs' : e \in diffs /\ e.path # d.path /\ e.path \in Paths
  BY <1>1, DiffTyped DEF TurnInv
<1> QED
  BY <1>1, <1>2 DEF TurnInv, Busy

LEMMA TurnDiffGoesOn ==
  ASSUME TypeInv, TurnInv, pc = "bisync", NEW d \in diffs, NEW step \in DiffKinds, DiffGoesTo(d, step),
         \A p \in Paths : p # d.path => local'[p] = local[p],
         step \in {"fetch", "downloaded"}
            \/ (step \in {"upload", "uploaded"} /\ d.l # 0 /\ local'[d.path] = d.l)
  PROVE  TurnInv'
<1> DEFINE f == [d EXCEPT !.kind = step]
<1>0. f.path = d.path /\ f.kind = step /\ f.l = d.l
  BY DiffTyped DEF KnownDiffs
<1> HIDE DEF f
<1>1. diffs' = (diffs \ {d}) \union {f} /\ items' = {} /\ pc' = "bisync"
  BY DEF DiffGoesTo, TurnInv, f
<1>2. \A e \in diffs \ {d} : e \in diffs /\ e.path # d.path /\ e.path \in Paths
  BY DiffTyped DEF TurnInv
<1>3. \A e \in diffs \ {d} : e.kind \in {"local_only", "conflict", "upload", "uploaded"} =>
          e.l # 0 /\ local'[e.path] = e.l
  BY <1>2 DEF TurnInv
<1>4. \A e, g \in diffs' : e.path = g.path => e = g
  BY <1>0, <1>1, <1>2 DEF TurnInv
<1>5. \A e \in diffs' : e.kind \in {"local_only", "conflict", "upload", "uploaded"} =>
          e.l # 0 /\ local'[e.path] = e.l
  BY <1>0, <1>1, <1>3
<1> QED
  BY <1>1, <1>4, <1>5 DEF TurnInv, Busy

\* What the poll lists: one change per live file.
LEMMA TurnListed ==
  ASSUME TypeInv, DriveInv, Walk \/ PollChanges, diffs = {}
  PROVE  TurnInv'
<1>1. diffs' = {} /\ pc' = "process"
  BY DEF Walk, PollChanges
<1>2. CASE Walk
  <2>1. \A i \in items' : \E id \in Ids : Live(id) /\ i.path = drive[id].path /\ drive[id].path # Aside
          /\ i = [path |-> drive[id].path, del |-> FALSE, c |-> drive[id].ver,
                        md5 |-> FALSE, seq |-> drive[id].seq]
    BY <1>2 DEF Walk
  <2>2. \A id \in Ids : Live(id) /\ drive[id].path # Aside => drive[id].path \in Paths
    BY DEF TypeInv, Files, DriveInv
  <2>3. \A i, j \in items' : i.path = j.path => i = j
    BY <2>1, <2>2 DEF DriveInv
  <2> QED
    BY <1>1, <2>3 DEF TurnInv, Busy
<1>3. CASE PollChanges
  <2>1. \A i \in items' : \E id \in Ids : i = Translate(id) /\ Translatable(id)
    BY <1>3 DEF PollChanges
  <2>2. \A i \in items' : ~i.del =>
           \E id \in Ids : i = Translate(id) /\ Live(id) /\ i.path = drive[id].path /\ i.path \in Paths
    BY <2>1, TranslateTyped DEF KnownChanges
  <2>3. \A i, j \in items' : i.path = j.path /\ ~i.del /\ ~j.del => i = j
    BY <2>2 DEF DriveInv
  <2> QED
    BY <1>1, <2>3 DEF TurnInv, Busy
<1> QED
  BY <1>2, <1>3

LEMMA TurnStep ==
  ASSUME TypeInv, DriveInv, TurnInv, [Next]_vars
  PROVE  TurnInv'
<1>1. CASE RemoteUser \/ Expire \/ UNCHANGED vars
  <2>1. UNCHANGED <<local, pc, items, diffs>>
    BY <1>1, UserMoves DEF Expire, vars, diskVars, memVars
  <2>2. Item' = Item
    BY <2>1 DEF Item
  <2> QED
    BY <2>1, <2>2 DEF TurnInv
<1>2. CASE PollBegin \/ PollGone \/ ListFails \/ Persist \/ Restart
  BY <1>2 DEF PollBegin, PollGone, ListFails, Persist, Restart, memVars, TurnInv, Busy
<1>3. CASE Walk \/ PollChanges
  <2>1. diffs = {}
    BY <1>3 DEF Walk, PollChanges, TurnInv
  <2> QED
    BY <1>3, <2>1, TurnListed
<1>4. ASSUME items # {} PROVE Item \in items /\ Item.path \in Paths /\ local[Item.path] \in Known
  BY <1>4, ItemTyped DEF TypeInv
<1>5. CASE ProcessDelete \/ RemoteWins
  <2>1. items # {} /\ pc = "process"
    BY <1>5 DEF ProcessDelete, RemoteWins, InProgress
  <2>2. \/ ItemDone(TRUE)
        \/ local' = [local EXCEPT ![Item.path] = 0]
             /\ (ItemGoesTo("forget") \/ (ItemGoesTo("fetch") /\ ~Item.del))
    BY <1>5 DEF ProcessDelete, RemoteWins
  <2>3. CASE ItemDone(TRUE)
    BY <2>1, <2>3, TurnDone
  <2>4. CASE local' = [local EXCEPT ![Item.path] = 0]
             /\ (ItemGoesTo("forget") \/ (ItemGoesTo("fetch") /\ ~Item.del))
    <3>1. local'[Item.path] = 0
      BY <1>4, <2>1, <2>4 DEF TypeInv
    <3> QED
      BY <2>1, <2>4, <3>1, TurnGoesOn DEF Busy
  <2> QED
    BY <2>2, <2>3, <2>4
<1>6. CASE Forget \/ SkipUnchanged \/ Record \/ RecordConflict
  BY <1>6, TurnDone DEF Forget, SkipUnchanged, Record, RecordConflict, InProgress, Busy
<1>7. CASE Download \/ FetchWinner
  <2>1. pc \in {"process"} \union Busy /\ ~Item.del
    BY <1>7 DEF Download, FetchWinner, InProgress, Busy, TurnInv
  <2>2. ItemDone(TRUE) \/ ItemGoesTo("record") \/ ItemGoesTo("taken")
    BY <1>7 DEF Download, FetchWinner
  <2> QED
    BY <2>1, <2>2, TurnDone, TurnGoesOn DEF Busy
<1>8. CASE LocalWins \/ UploadWinner
  <2>1. pc \in {"process"} \union Busy /\ ~Item.del /\ local[Item.path] # 0 /\ local' = local
    BY <1>8 DEF LocalWins, UploadWinner, InProgress, Busy, TurnInv, Conflict, diskVars
  <2>2. ItemDone(TRUE) \/ ItemGoesTo("upload") \/ ItemGoesTo("kept")
    BY <1>8 DEF LocalWins, UploadWinner
  <2> QED
    BY <2>1, <2>2, TurnDone, TurnGoesOn DEF Busy
<1>9. CASE BisyncDiff
  <2>1. /\ diffs' = {e \in {Diff(p) : p \in Paths} : e.kind # "same"} /\ items' = {} /\ pc' = "bisync"
        /\ local' = local
    BY <1>9 DEF BisyncDiff, TurnInv, diskVars
  <2>2. \A p \in Paths : Diff(p).kind = KindOf(p)
    BY DEF Diff
  <2>3. \A e \in diffs' : \E p \in Paths :
           e = Diff(p) /\ e.path = p /\ e.l = local[p] /\ e.kind \in {"local_only", "remote_only", "conflict"}
           /\ (e.kind \in {"local_only", "conflict"} => local[p] # 0)
    BY <2>1, <2>2, DiffListed
  <2>4. \A e, f \in diffs' : e.path = f.path => e = f
    BY <2>3
  <2>5. \A e \in diffs' : e.kind \in {"local_only", "conflict", "upload", "uploaded"} =>
          e.l # 0 /\ local'[e.path] = e.l
    BY <2>1, <2>3
  <2> QED
    BY <2>1, <2>4, <2>5 DEF TurnInv, Busy
<1>10. ASSUME NEW d \in diffs,
             \/ BisyncUpload(d) \/ BisyncDownload(d)
             \/ BisyncLocalWins(d) \/ BisyncRemoteWins(d) \/ BisyncRecord(d)
       PROVE  TurnInv'
  <2>1. pc = "bisync" /\ d.path \in Paths /\ local \in [Paths -> Known]
    BY <1>10, DiffTyped DEF BisyncUpload, BisyncDownload, BisyncLocalWins, BisyncRemoteWins, BisyncRecord, Turn, TypeInv
  <2>2. \A p \in Paths : p # d.path => local'[p] = local[p]
    BY <1>10, <2>1 DEF BisyncUpload, BisyncDownload, BisyncLocalWins, BisyncRemoteWins, BisyncRecord,
       diskVars, DownloadFile, DownloadFails
  <2>3. \/ DiffDone(d) \/ DiffGoesTo(d, "fetch") \/ DiffGoesTo(d, "downloaded")
        \/ (DiffGoesTo(d, "upload") \/ DiffGoesTo(d, "uploaded"))
             /\ local' = local /\ d.kind \in {"local_only", "upload", "conflict"}
    BY <1>10 DEF BisyncUpload, BisyncDownload, BisyncLocalWins, BisyncRemoteWins, BisyncRecord, diskVars, Turn
  <2>4. d.kind \in {"local_only", "upload", "conflict"} => d.l # 0 /\ local[d.path] = d.l
    BY DEF TurnInv
  <2>5. CASE DiffDone(d)
    BY <2>1, <2>2, <2>5, TurnDiffDone
  <2>6. ASSUME NEW step \in {"fetch", "downloaded"}, DiffGoesTo(d, step) PROVE TurnInv'
    BY <2>1, <2>2, <2>6, TurnDiffGoesOn DEF DiffKinds
  <2>7. ASSUME NEW step \in {"upload", "uploaded"}, DiffGoesTo(d, step), local' = local,
               d.kind \in {"local_only", "upload", "conflict"}
        PROVE TurnInv'
    BY <2>1, <2>2, <2>4, <2>7, TurnDiffGoesOn DEF DiffKinds
  <2> QED
    BY <2>3, <2>5, <2>6, <2>7
<1> QED
  BY <1>1, <1>2, <1>3, <1>5, <1>6, <1>7, <1>8, <1>9, <1>10, NextSteps DEF Aloof

----------------------------------------------------------------------------
(* What the list announces is current.                                     *)

OneStep == UNCHANGED <<setup, drive, head>> \/ \E id \in Ids : DriveMoves(id)

\* A file that a step leaves alone, and one that it changes.
LEMMA Moved ==
  ASSUME TypeInv, OneStep, NEW id \in Ids
  PROVE  \/ drive'[id] = drive[id]
         \/ drive'[id].seq > next /\ drive'[id].seq > token.pos /\ drive'[id].seq > head
BY DEF OneStep, DriveMoves, TypeInv

LEMMA CurrentKept ==
  ASSUME TypeInv, OneStep, ItemCurrent, items' \subseteq items, next' = next
  PROVE  ItemCurrent'
<1> SUFFICES ASSUME NEW i \in items', NEW id \in Ids, ~i.del, Live(id)', drive'[id].path = i.path,
                    drive'[id].seq <= next'
             PROVE  drive'[id].ver = i.c
  BY DEF ItemCurrent
<1>1. drive'[id].seq \in Nat /\ next \in Nat
  <2>1. drive[id].seq \in Nat
    BY DEF TypeInv, Files
  <2> QED
    BY <2>1 DEF OneStep, DriveMoves, TypeInv
<1>2. drive'[id] = drive[id]
  BY <1>1, Moved
<1> QED
  BY <1>2 DEF ItemCurrent, Live

\* The steps that list nothing new.
LEMMA ItemsShrink ==
  ASSUME TypeInv, DriveInv, [Next]_vars
  PROVE  Walk \/ PollChanges \/ Restart \/ (items' \subseteq items /\ next' = next)
<1>1. CASE RemoteUser \/ Expire \/ UNCHANGED vars
  BY <1>1, UserMoves DEF Expire, vars, diskVars, memVars
<1>2. CASE PullSteps \/ ListFails
  BY <1>2 DEF PullSteps, ListFails, PollBegin, PollGone, Persist, ProcessDelete,
       Forget, SkipUnchanged, Download, Record, RemoteWins, FetchWinner, RecordConflict, LocalWins,
       UploadWinner, ItemDone, ItemGoesTo, memVars
<1>3. CASE BisyncSteps
  BY <1>3 DEF BisyncSteps, BisyncDiff, BisyncUpload, BisyncDownload, BisyncLocalWins, BisyncRemoteWins,
       BisyncRecord, DiffDone, DiffGoesTo
<1> QED
  BY <1>1, <1>2, <1>3 DEF Next

LEMMA CurrentStep ==
  ASSUME TypeInv, DriveInv, TurnInv, ItemCurrent, [Next]_vars
  PROVE  ItemCurrent'
<1>1. OneStep
  BY DriveStep DEF OneStep
<1>2. CASE items' \subseteq items /\ next' = next
  BY <1>1, <1>2, CurrentKept
<1>3. CASE Restart
  BY <1>3 DEF Restart, ItemCurrent
<1>4. CASE Walk
  <2>1. \A i \in items' : \E id \in Ids : Live(id) /\ i.path = drive[id].path /\ drive[id].path # Aside
          /\ i.c = drive[id].ver
    BY <1>4 DEF Walk
  <2>2. \A id \in Ids : Live(id) /\ drive[id].path # Aside => drive[id].path \in Paths
    BY DEF TypeInv, Files, DriveInv
  <2>3. drive' = drive
    BY <1>4 DEF Walk, driveVars
  <2> QED
    BY <2>1, <2>2, <2>3 DEF DriveInv, ItemCurrent, Live
<1>5. CASE PollChanges
  <2>1. \A i \in items' : \E id \in Ids : i = Translate(id) /\ Translatable(id)
    BY <1>5 DEF PollChanges
  <2>2. \A i \in items' : ~i.del =>
           \E id \in Ids : i = Translate(id) /\ Live(id) /\ i.path = drive[id].path /\ i.path \in Paths
                           /\ i.c = drive[id].ver
    BY <2>1, TranslateTyped DEF KnownChanges
  <2>3. drive' = drive
    BY <1>5 DEF PollChanges, driveVars
  <2> QED
    BY <2>2, <2>3 DEF DriveInv, ItemCurrent, Live
<1> QED
  BY <1>2, <1>3, <1>4, <1>5, ItemsShrink

----------------------------------------------------------------------------
(* A stale file is told about.                                             *)

TokenAt(p) == \A id \in Ids : Stale(id, p) => drive[id].seq > token.pos \/ Excused(id, p)
ListAt(p) == \A id \in Ids : Stale(id, p) => drive[id].seq > next \/ Excused(id, p) \/ Pending(p)
Fine(p) == \A id \in Ids : Stale(id, p) => drive[id].seq > next /\ drive[id].seq > token.pos
Told(p) == \A id \in Ids : Stale(id, p) => drive[id].seq > token.pos

\* A path whose local file and entry stay.
LEMMA StaleKept ==
  ASSUME TypeInv, OneStep, NEW p \in Paths, local'[p] = local[p], NEW id \in Ids, Stale(id, p)'
  PROVE  \/ Stale(id, p) /\ drive'[id] = drive[id]
         \/ drive'[id].seq > next /\ drive'[id].seq > token.pos
BY Moved DEF Stale, Live

LEMMA TokenKept ==
  ASSUME TypeInv, OneStep, NEW p \in Paths, local'[p] = local[p], journal'[p] = journal[p],
         token' = token, TokenAt(p)
  PROVE  TokenAt(p)'
BY StaleKept DEF TokenAt, Excused

LEMMA ListKept ==
  ASSUME TypeInv, OneStep, NEW p \in Paths, local'[p] = local[p], journal'[p] = journal[p],
         next' = next, ListAt(p), Pending(p) => Pending(p)'
  PROVE  ListAt(p)'
BY StaleKept DEF ListAt, Excused

LEMMA FineKept ==
  ASSUME TypeInv, OneStep, NEW p \in Paths, local'[p] = local[p],
         token' = token, next' = next, Fine(p)
  PROVE  Fine(p)'
BY StaleKept DEF Fine

\* Three ways for a path to be fine after a step.
LEMMA FineRemoved ==
  ASSUME NEW p, local'[p] = 0
  PROVE  Fine(p)'
BY DEF Fine, Stale

LEMMA FineFetched ==
  ASSUME TypeInv, DriveInv, NEW p \in Paths, UNCHANGED drive, local'[p] = RemoteAt(p)
  PROVE  Fine(p)'
BY RemoteIs DEF Fine, Stale, At, Live

LEMMA FineGone ==
  ASSUME TypeInv, DriveInv, NEW p \in Paths, UNCHANGED drive, At(p) = {}
  PROVE  Fine(p)'
BY DEF Fine, Stale, At, Live

LEMMA FineMoved ==
  ASSUME TypeInv, NEW p \in Paths, NEW id \in Ids, DriveMoves(id), At(p) \subseteq {id},
         local' = local, drive'[id].path # p \/ drive'[id].ver = local[p]
  PROVE  Fine(p)'
<1> SUFFICES ASSUME NEW j \in Ids, Stale(j, p)' PROVE FALSE
  BY DEF Fine
<1>1. CASE j = id
  BY <1>1 DEF Stale
<1>2. CASE j # id
  BY <1>2 DEF Stale, DriveMoves, At, Live
<1> QED
  BY <1>1, <1>2

FeedParts == TokenInv /\ ListInv /\ ItemSettled /\ DiffSettled

FeedAre ==
    /\ token.kind = "page" => \A p \in Paths \ Nested : TokenAt(p)
    /\ pc \in {"process"} \union Busy => \A p \in Paths \ Nested : ListAt(p)
    /\ pc \in Busy => Fine(Item.path)
    /\ DiffSettled

LEMMA FeedPartsAre == FeedParts <=> FeedAre
BY DEF FeedParts, FeedAre, TokenInv, ListInv, ItemSettled, TokenAt, ListAt, Fine

\* A step that finishes with the current change.
LEMMA FeedDone ==
  ASSUME TypeInv, TurnInv, OneStep, FeedParts, pc \in {"process"} \union Busy, items # {},
         NEW err, ItemDone(err), token' = token, NEW q \in Paths, q = Item.path,
         \A p \in Paths : p # q => local'[p] = local[p] /\ journal'[p] = journal[p],
         q \notin Nested => /\ token.kind = "page" => TokenAt(q)'
                           /\ ListAt(q)'
  PROVE  FeedParts'
<1>1. diffs' = {} /\ items' = items \ {Item} /\ pc' = "process" /\ next' = next
  BY DEF ItemDone, TurnInv, Busy
<1>2. ASSUME NEW p \in Paths \ Nested PROVE (token.kind = "page" => TokenAt(p)') /\ ListAt(p)'
  <2>1. CASE p = q
    BY <2>1
  <2>2. CASE p # q
    <3>1. Pending(p) => Pending(p)'
      BY <1>1, <2>2 DEF Pending
    <3>2. ListAt(p) /\ (token.kind = "page" => TokenAt(p))
      BY <1>2, FeedPartsAre DEF FeedAre
    <3> QED
      BY <1>1, <1>2, <2>2, <3>1, <3>2, TokenKept, ListKept
  <2> QED
    BY <2>1, <2>2
<1>3. /\ token'.kind = "page" => \A p \in Paths \ Nested : TokenAt(p)'
      /\ \A p \in Paths \ Nested : ListAt(p)'
      /\ pc' \notin Busy
      /\ DiffSettled'
  BY <1>1, <1>2 DEF DiffSettled, Busy
<1>4. FeedAre'
  BY <1>1, <1>3 DEF FeedAre
<1> QED
  BY <1>4, FeedPartsAre, PTL

\* A step that takes the current change further.
LEMMA FeedGoesOn ==
  ASSUME TypeInv, TurnInv, OneStep, FeedParts, pc \in {"process"} \union Busy, items # {},
         NEW step \in Busy, ItemGoesTo(step), token' = token, NEW q \in Paths, q = Item.path,
         \A p \in Paths : p # q => local'[p] = local[p] /\ journal'[p] = journal[p],
         Fine(q)'
  PROVE  FeedParts'
<1>1. diffs' = {} /\ items' = items /\ pc' = step /\ next' = next
  BY DEF ItemGoesTo, TurnInv, Busy
<1>2. Item' = Item
  BY <1>1 DEF Item
<1>3. ASSUME NEW p \in Paths \ Nested PROVE (token.kind = "page" => TokenAt(p)') /\ ListAt(p)'
  <2>1. CASE p = q
    BY <2>1 DEF Fine, TokenAt, ListAt
  <2>2. CASE p # q
    <3>1. Pending(p) => Pending(p)'
      BY <1>1, <1>2, <2>2 DEF Pending
    <3>2. ListAt(p) /\ (token.kind = "page" => TokenAt(p))
      BY <1>3, FeedPartsAre DEF FeedAre
    <3> QED
      BY <1>1, <1>3, <2>2, <3>1, <3>2, TokenKept, ListKept
  <2> QED
    BY <2>1, <2>2
<1>4. /\ token'.kind = "page" => \A p \in Paths \ Nested : TokenAt(p)'
      /\ \A p \in Paths \ Nested : ListAt(p)'
      /\ Fine(Item.path)'
      /\ DiffSettled'
  BY <1>1, <1>2, <1>3 DEF DiffSettled
<1>5. FeedAre'
  BY <1>1, <1>4 DEF FeedAre
<1> QED
  BY <1>5, FeedPartsAre, PTL

\* A step of the pass about the difference at q.
LEMMA FeedPass ==
  ASSUME TypeInv, TurnInv, OneStep, FeedParts, pc = "bisync", NEW d \in diffs, token' = token,
         NEW q \in Paths, q = d.path,
         \A p \in Paths : p # q => local'[p] = local[p] /\ journal'[p] = journal[p],
         \/ DiffDone(d) /\ (Told(q)' \/ (local'[q] = local[q] /\ journal'[q] = journal[q]))
         \/ Told(q)' /\ \E step \in DiffKinds : DiffGoesTo(d, step)
  PROVE  FeedParts'
<1>1. pc' \in {"idle", "bisync"}
  BY DEF DiffDone, DiffGoesTo
<1>2. ASSUME NEW p \in Paths \ Nested, token.kind = "page" PROVE TokenAt(p)'
  <2>1. CASE Told(q)' /\ p = q
    BY <2>1 DEF Told, TokenAt
  <2>2. CASE local'[p] = local[p] /\ journal'[p] = journal[p]
    BY <1>2, <2>2, TokenKept, FeedPartsAre DEF FeedAre
  <2> QED
    BY <2>1, <2>2
<1>3. ASSUME NEW e \in diffs', NEW id \in Ids,
             e.kind \in {"upload", "fetch", "uploaded", "downloaded"}, Stale(id, e.path)'
      PROVE  drive'[id].seq > token.pos
  <2>1. CASE e \in diffs /\ e.path # q
    <3>1. e.path \in Paths
      BY <2>1, DiffTyped
    <3> DEFINE p == e.path
    <3>2. local'[p] = local[p] /\ p \in Paths /\ Stale(id, p)'
      BY <1>3, <2>1, <3>1
    <3>3. Stale(id, p) => drive[id].seq > token.pos
      BY <1>3, <2>1 DEF FeedParts, DiffSettled
    <3> HIDE DEF p
    <3> QED
      BY <3>2, <3>3, StaleKept
  <2>2. CASE e.path = q /\ Told(q)'
    BY <1>3, <2>2 DEF Told, Stale, Live
  <2>3. e \in diffs => e = d \/ e.path # q
    BY DEF TurnInv
  <2>4. CASE DiffDone(d)
    BY <2>1, <2>3, <2>4 DEF DiffDone
  <2>5. ASSUME NEW step \in DiffKinds, DiffGoesTo(d, step), Told(q)'
        PROVE  (e \in diffs /\ e.path # q) \/ e.path = q
    BY <2>3, <2>5, DiffTyped DEF DiffGoesTo, KnownDiffs
  <2> QED
    BY <2>1, <2>2, <2>4, <2>5
<1>4. DiffSettled'
  BY <1>3 DEF DiffSettled
<1>5. FeedAre'
  BY <1>1, <1>2, <1>4 DEF FeedAre, Busy
<1> QED
  BY <1>5, FeedPartsAre, PTL

\* Nothing of homedrive's state changes.
LEMMA FeedFrame ==
  ASSUME TypeInv, OneStep, FeedParts, UNCHANGED <<local, journal, pc, items, diffs>>,
         UNCHANGED <<token, next>>
  PROVE  FeedParts'
<1>0. FeedAre /\ Item' = Item
  BY FeedPartsAre DEF Item
<1>1. ASSUME NEW p \in Paths PROVE (TokenAt(p) => TokenAt(p)') /\ (ListAt(p) => ListAt(p)') /\ (Fine(p) => Fine(p)')
  <2>1. Pending(p) => Pending(p)'
    BY <1>0 DEF Pending
  <2> QED
    BY <2>1, TokenKept, ListKept, FineKept
<1>2. DiffSettled'
  <2> SUFFICES ASSUME NEW d \in diffs, NEW id \in Ids,
                      d.kind \in {"upload", "fetch", "uploaded", "downloaded"}, Stale(id, d.path)'
               PROVE  drive'[id].seq > token.pos
    BY DEF DiffSettled
  <2>1. d.path \in Paths /\ (Stale(id, d.path) => drive[id].seq > token.pos)
    BY DiffTyped DEF FeedParts, DiffSettled
  <2> DEFINE p == d.path
  <2>2. p \in Paths /\ Stale(id, p)' /\ (Stale(id, p) => drive[id].seq > token.pos)
    BY <2>1
  <2> HIDE DEF p
  <2> QED
    BY <2>2, StaleKept
<1>3. pc \in Busy => Fine(Item.path)'
  <2> SUFFICES ASSUME pc \in Busy PROVE Fine(Item.path)'
    OBVIOUS
  <2> DEFINE p == Item.path
  <2>1. p \in Paths /\ Fine(p) /\ p' = p
    BY <1>0, ItemTyped DEF FeedAre, TypeInv
  <2>2. Fine(Item.path)' <=> \A id \in Ids : Stale(id, Item.path)' => drive'[id].seq > next /\ drive'[id].seq > token.pos
    BY DEF Fine
  <2>3. \A id \in Ids : Stale(id, Item.path) => drive[id].seq > next /\ drive[id].seq > token.pos
    BY <2>1 DEF Fine
  <2>4. ASSUME NEW id \in Ids, Stale(id, Item.path)' PROVE drive'[id].seq > next /\ drive'[id].seq > token.pos
    BY <1>0, <2>1, <2>3, <2>4, Moved DEF Stale, Live
  <2> QED
    BY <2>2, <2>4
<1>4. FeedAre'
  BY <1>0, <1>1, <1>2, <1>3 DEF FeedAre
<1> QED
  BY <1>4, FeedPartsAre, PTL

\* The poll before and after its list: nothing is recorded.
LEMMA FeedPoll ==
  ASSUME TypeInv, DriveInv, TurnInv, FeedParts,
         PollBegin \/ ListFails \/ PollGone \/ Restart \/ BisyncDiff
  PROVE  FeedParts'
<1>1. /\ UNCHANGED <<local, journal, drive>> /\ pc' \in {"idle", "list", "bisync"}
      /\ token' = token \/ token'.kind # "page"
  BY DEF PollBegin, ListFails, PollGone, Restart, BisyncDiff, driveVars, diskVars, memVars, StartToken
<1>2. DiffSettled'
  <2>1. CASE diffs' = {}
    BY <2>1 DEF DiffSettled
  <2>2. CASE BisyncDiff
    <3>1. \A p \in Paths : Diff(p).kind = KindOf(p)
      BY DEF Diff
    <3>2. \A e \in diffs' : e.kind \in {"local_only", "remote_only", "conflict"}
      BY <2>2, <3>1, DiffListed DEF BisyncDiff
    <3> QED
      BY <3>2 DEF DiffSettled
  <2>3. pc \in {"idle", "list"} => diffs = {}
    BY DEF TurnInv
  <2>4. CASE PollBegin \/ ListFails \/ PollGone \/ Restart
    BY <2>1, <2>3, <2>4 DEF PollBegin, ListFails, PollGone, Restart, memVars
  <2> QED
    BY <2>2, <2>4
<1>3. ASSUME NEW p \in Paths \ Nested, token'.kind = "page" PROVE TokenAt(p)'
  <2>1. TokenAt(p) /\ token' = token
    BY <1>1, <1>3, FeedPartsAre DEF FeedAre
  <2> QED
    BY <1>1, <2>1 DEF TokenAt, Stale, Live, Excused
<1>4. FeedAre'
  BY <1>1, <1>2, <1>3 DEF FeedAre, Busy
<1> QED
  BY <1>4, FeedPartsAre, PTL

\* The list has every file that is stale.
LEMMA FeedListed ==
  ASSUME TypeInv, DriveInv, TurnInv, FeedParts, Walk \/ PollChanges
  PROVE  FeedParts'
<1>1. UNCHANGED <<local, journal, drive, token>> /\ pc' = "process" /\ diffs' = {}
  BY DEF Walk, PollChanges, driveVars, diskVars, TurnInv
<1>2. ASSUME NEW p \in Paths \ Nested, NEW id \in Ids, Stale(id, p)
      PROVE  Excused(id, p) \/ \E i \in items' : i.path = p /\ ~i.del
  <2>1. Live(id) /\ drive[id].path = p /\ p # Aside
    BY <1>2, PullAssumption DEF Stale
  <2>2. CASE Walk
    <3> DEFINE i == [path |-> drive[id].path, del |-> FALSE, c |-> drive[id].ver,
                     md5 |-> FALSE, seq |-> drive[id].seq]
    <3>1. i \in items'
      BY <2>1, <2>2 DEF Walk
    <3>2. i.path = p /\ ~i.del
      BY <2>1
    <3> HIDE DEF i
    <3> QED
      BY <3>1, <3>2
  <2>3. CASE PollChanges
    <3>1. CASE ~Excused(id, p)
      <4>1. drive[id].seq > token.pos
        BY <1>2, <2>3, <3>1, FeedPartsAre DEF FeedAre, TokenAt, PollChanges
      <4>2. Translatable(id) /\ Translate(id).path = p /\ ~Translate(id).del
        BY <1>2, <2>1 DEF Translatable, Translate, Live
      <4> QED
        BY <2>3, <4>1, <4>2 DEF PollChanges
    <3> QED
      BY <3>1
  <2> QED
    BY <2>2, <2>3
<1>3. ASSUME NEW p \in Paths \ Nested PROVE ListAt(p)' /\ (token'.kind = "page" => TokenAt(p)')
  <2>1. \A id \in Ids : (Stale(id, p)' <=> Stale(id, p)) /\ (Excused(id, p)' <=> Excused(id, p))
    BY <1>1 DEF Stale, Excused, Live
  <2>2. ListAt(p)'
    BY <1>1, <1>2, <2>1 DEF ListAt, Pending
  <2>3. token'.kind = "page" => TokenAt(p)'
    BY <1>1, <2>1, FeedPartsAre DEF TokenAt, FeedAre
  <2> QED
    BY <2>2, <2>3
<1>4. FeedAre'
  BY <1>1, <1>3 DEF FeedAre, DiffSettled, Busy
<1> QED
  BY <1>4, FeedPartsAre, PTL

\* The new token passes only what was processed.
LEMMA FeedPersist ==
  ASSUME TypeInv, TurnInv, FeedParts, Persist
  PROVE  FeedParts'
<1>1. /\ UNCHANGED <<local, journal, drive>> /\ pc' = "idle" /\ diffs' = {} /\ token'.pos = next
      /\ items = {} /\ pc = "process"
  BY DEF Persist, driveVars, TurnInv, Page
<1>2. ASSUME NEW p \in Paths \ Nested PROVE TokenAt(p)'
  <2>1. \A id \in Ids : (Stale(id, p)' <=> Stale(id, p)) /\ (Excused(id, p)' <=> Excused(id, p))
    BY <1>1 DEF Stale, Excused, Live
  <2>2. ListAt(p) /\ ~Pending(p)
    BY <1>1, FeedPartsAre DEF FeedAre, Pending
  <2> QED
    BY <1>1, <2>1, <2>2 DEF TokenAt, ListAt
<1>3. FeedAre'
  BY <1>1, <1>2 DEF FeedAre, DiffSettled, Busy
<1> QED
  BY <1>3, FeedPartsAre, PTL

\* The steps of the poll on one change.
LEMMA FeedItem ==
  ASSUME TypeInv, DriveInv, TurnInv, ItemCurrent, FeedParts, Sound, head < MaxHead,
         \/ ProcessDelete \/ Forget \/ SkipUnchanged \/ Download \/ Record
         \/ RemoteWins \/ FetchWinner \/ RecordConflict
  PROVE  FeedParts'
<1>0. /\ items # {} /\ pc \in {"process"} \union Busy /\ token' = token
      /\ UNCHANGED <<drive, head, setup>> /\ OneStep
  BY DEF ProcessDelete, Forget, SkipUnchanged, Download, Record, RemoteWins, FetchWinner, RecordConflict,
     InProgress, TypeInv, Busy, driveVars, diskVars, OneStep
<1>1. PICK q \in Paths : q = Item.path
  BY <1>0, ItemTyped
<1>2. "file" \notin Faults /\ "torn" \notin Faults
  BY DEF Sound
<1>3. local \in [Paths -> Known] /\ journal \in [Paths -> KnownEntries \union {NoEntry}]
  BY DEF TypeInv
<1>4. \A p \in Paths : p # q => local'[p] = local[p] /\ journal'[p] = journal[p]
  BY <1>1, <1>3 DEF ProcessDelete, Forget, SkipUnchanged, Download, Record, RemoteWins, FetchWinner, RecordConflict,
     DownloadFile, DownloadFails, diskVars
<1>5. Fine(q)' => ListAt(q)' /\ TokenAt(q)'
  BY DEF Fine, ListAt, TokenAt
<1>6. pc \in Busy => Fine(q)
  BY <1>1, FeedPartsAre DEF FeedAre
<1>7. CASE ProcessDelete \/ RemoteWins
  <2>1. local'[q] = 0 /\ (ItemGoesTo("forget") \/ ItemGoesTo("fetch"))
    BY <1>1, <1>2, <1>3, <1>7 DEF ProcessDelete, RemoteWins
  <2>2. Fine(q)'
    BY <2>1, FineRemoved
  <2> QED
    BY <1>0, <1>1, <1>4, <2>1, <2>2, FeedGoesOn DEF Busy
<1>8. CASE Forget \/ Record \/ RecordConflict
  <2>1. local' = local /\ ItemDone(FALSE) /\ pc \in Busy /\ next' = next
    BY <1>8 DEF Forget, Record, RecordConflict, ItemDone, Busy
  <2>2. Fine(q)'
    BY <1>0, <1>6, <2>1, FineKept
  <2> QED
    BY <1>0, <1>1, <1>4, <1>5, <2>1, <2>2, FeedDone
<1>9. CASE Download \/ FetchWinner
  <2>1. \/ DownloadFile(q) /\ (ItemGoesTo("record") \/ ItemGoesTo("taken"))
        \/ RemoteAt(q) = 0 /\ ItemDone(TRUE)
    BY <1>1, <1>2, <1>9 DEF Download, FetchWinner, DownloadFails
  <2>2. CASE DownloadFile(q) /\ (ItemGoesTo("record") \/ ItemGoesTo("taken"))
    <3>1. local'[q] = RemoteAt(q)
      BY <1>3, <2>2 DEF DownloadFile
    <3>2. Fine(q)'
      BY <1>0, <3>1, FineFetched
    <3> QED
      BY <1>0, <1>1, <1>4, <2>2, <3>2, FeedGoesOn DEF Busy
  <2>3. CASE RemoteAt(q) = 0 /\ ItemDone(TRUE)
    <3>1. At(q) = {}
      BY <2>3, RemoteIs
    <3>2. Fine(q)'
      BY <1>0, <3>1, FineGone
    <3> QED
      BY <1>0, <1>1, <1>4, <1>5, <2>3, <3>2, FeedDone
  <2> QED
    BY <2>1, <2>2, <2>3
<1>10. CASE SkipUnchanged
  <2>1. /\ UNCHANGED <<local, journal>> /\ ItemDone(FALSE) /\ ~Item.del /\ next' = next
        /\ journal[q] # NoEntry /\ journal[q].r = Item.c
    BY <1>1, <1>10 DEF SkipUnchanged, diskVars, Unchanged, Entry, ItemDone
  <2>2. \A id \in Ids : Stale(id, q) => drive[id].seq > next \/ Excused(id, q)
    <3> SUFFICES ASSUME NEW id \in Ids, Stale(id, q), ~(drive[id].seq > next) PROVE Excused(id, q)
      OBVIOUS
    <3>1. drive[id].seq <= next
      BY DEF TypeInv, Files
    <3>2. Item \in items
      BY <1>0, ItemTyped
    <3>3. drive[id].ver = Item.c
      BY <1>1, <2>1, <3>1, <3>2 DEF ItemCurrent, Stale
    <3> QED
      BY <2>1, <3>3 DEF Excused
  <2>3. ListAt(q)'
    BY <1>0, <2>1, <2>2 DEF ListAt, Stale, Excused, Live
  <2>4. q \notin Nested /\ token.kind = "page" => TokenAt(q)'
    BY <1>0, <2>1, TokenKept, FeedPartsAre DEF FeedAre
  <2> QED
    BY <1>0, <1>1, <1>4, <2>1, <2>3, <2>4, FeedDone
<1> QED
  BY <1>7, <1>8, <1>9, <1>10

\* The steps of the poll that move files on Drive.
LEMMA FeedUpload ==
  ASSUME TypeInv, DriveInv, TurnInv, FeedParts, Sound, head' < MaxHead, LocalWins \/ UploadWinner
  PROVE  FeedParts'
<1>0. /\ items # {} /\ pc \in {"process"} \union Busy /\ token' = token
      /\ UNCHANGED <<local, journal>> /\ next' = next
  BY DEF LocalWins, UploadWinner, InProgress, TypeInv, Busy, diskVars, ItemDone, ItemGoesTo
<1>1. PICK q \in Paths : q = Item.path
  BY <1>0, ItemTyped
<1>3. q # Aside /\ "file" \notin Faults
  BY PullAssumption DEF Sound
<1>4. Fine(q)' => ListAt(q)' /\ TokenAt(q)'
  BY DEF Fine, ListAt, TokenAt
<1>5. CASE LocalWins
  <2>1. CASE UNCHANGED driveVars /\ ItemDone(TRUE) /\ (Refused \/ At(Item.path) = {})
    <3>1. UNCHANGED <<setup, drive, head>> /\ OneStep
      BY <2>1 DEF driveVars, OneStep
    <3>2. At(q) = {}
      BY <1>1, <1>3, <2>1, <3>1, PullAssumption DEF Refused, TypeInv, MaxHead
    <3>3. Fine(q)'
      BY <3>1, <3>2, FineGone
    <3> QED
      BY <1>0, <1>1, <1>4, <2>1, <3>1, <3>3, FeedDone
  <2>2. CASE ItemGoesTo("upload")
    <3>1. PICK id \in Ids : DriveMoves(id) /\ At(q) = {id} /\ drive'[id].path = Aside
      BY <1>1, <1>5, <2>2, LocalWinsMoves DEF ItemGoesTo, ItemDone
    <3>2. Fine(q)' /\ OneStep
      BY <1>0, <1>3, <3>1, FineMoved DEF OneStep
    <3> QED
      BY <1>0, <1>1, <2>2, <3>2, FeedGoesOn DEF Busy
  <2> QED
    BY <1>5, <2>1, <2>2 DEF LocalWins
<1>6. CASE UploadWinner
  <2>0. Fine(q)
    BY <1>1, <1>6, FeedPartsAre DEF FeedAre, UploadWinner, Busy
  <2>1. CASE UNCHANGED driveVars /\ ItemDone(TRUE)
    <3>1. OneStep
      BY <2>1 DEF driveVars, OneStep
    <3>2. Fine(q)'
      BY <1>0, <2>0, <3>1, FineKept
    <3> QED
      BY <1>0, <1>1, <1>4, <2>1, <3>1, <3>2, FeedDone
  <2>2. CASE ItemGoesTo("kept")
    <3>1. OneStep
      BY <1>6, UploadMoves DEF OneStep, DriveSame
    <3>2. Fine(q)'
      <4>1. CASE UNCHANGED drive
        <5>1. DriveSame \/ \E id \in Ids : DriveMoves(id)
          BY <1>6, UploadMoves
        <5> QED
          BY <1>0, <2>0, <3>1, FineKept
      <4>2. ASSUME NEW id \in Ids, DriveMoves(id), At(q) \subseteq {id}, drive'[id].ver = local[q]
            PROVE Fine(q)'
        BY <1>0, <4>2, FineMoved
      <4> QED
        BY <1>1, <1>6, <4>1, <4>2, UploadMoves DEF DriveSame
    <3> QED
      BY <1>0, <1>1, <2>2, <3>1, <3>2, FeedGoesOn DEF Busy
  <2> QED
    BY <1>6, <2>1, <2>2 DEF UploadWinner
<1> QED
  BY <1>5, <1>6

\* The steps of the pass on one difference.
LEMMA FeedDiff ==
  ASSUME TypeInv, DriveInv, TurnInv, FeedParts, Sound, OneStep, NEW d \in diffs,
         \/ BisyncUpload(d) \/ BisyncDownload(d)
         \/ BisyncLocalWins(d) \/ BisyncRemoteWins(d) \/ BisyncRecord(d)
  PROVE  FeedParts'
<1>0. pc = "bisync" /\ token' = token
  BY DEF BisyncUpload, BisyncDownload, BisyncLocalWins, BisyncRemoteWins, BisyncRecord, Turn, diskVars
<1>1. PICK q \in Paths : q = d.path
  BY DiffTyped
<1>3. local \in [Paths -> Known] /\ journal \in [Paths -> KnownEntries \union {NoEntry}] /\ q # Aside
  BY PullAssumption DEF TypeInv
<1>4. \A p \in Paths : p # q => local'[p] = local[p] /\ journal'[p] = journal[p]
  BY <1>1, <1>3 DEF BisyncUpload, BisyncDownload, BisyncLocalWins, BisyncRemoteWins, BisyncRecord,
     DownloadFile, DownloadFails, diskVars
<1>9. Fine(q)' => Told(q)'
  BY DEF Fine, Told
<1>5. CASE BisyncUpload(d) \/ BisyncLocalWins(d)
  <2>1. local' = local /\ journal' = journal
    BY <1>5 DEF BisyncUpload, BisyncLocalWins, diskVars
  <2>2. CASE DiffDone(d)
    BY <1>0, <1>1, <1>4, <2>1, <2>2, FeedPass
  <2>3. ASSUME NEW id \in Ids, DriveMoves(id), At(q) \subseteq {id},
               drive'[id].path = Aside \/ drive'[id].ver = local[q],
               DiffGoesTo(d, "upload") \/ DiffGoesTo(d, "uploaded")
        PROVE  FeedParts'
    <3>1. Fine(q)'
      BY <1>3, <2>1, <2>3, FineMoved
    <3> QED
      BY <1>0, <1>1, <1>4, <1>9, <2>3, <3>1, FeedPass DEF DiffKinds
  <2> QED
    BY <1>1, <1>5, <2>2, <2>3, BisyncUploadMoves, BisyncLocalWinsMoves
<1>6. CASE BisyncDownload(d)
  <2>0. UNCHANGED drive /\ journal' = journal
    BY <1>6 DEF BisyncDownload, driveVars
  <2>1. CASE DownloadFile(q) /\ DiffGoesTo(d, "downloaded")
    <3>1. local'[q] = RemoteAt(q)
      BY <1>3, <2>1 DEF DownloadFile
    <3>2. Fine(q)'
      BY <2>0, <3>1, FineFetched
    <3> QED
      BY <1>0, <1>1, <1>4, <1>9, <2>1, <3>2, FeedPass DEF DiffKinds
  <2>2. CASE UNCHANGED local /\ DiffDone(d)
    BY <1>0, <1>1, <1>4, <2>0, <2>2, FeedPass
  <2>3. CASE "torn" \in Faults
    BY <2>3 DEF Sound
  <2> QED
    BY <1>1, <1>6, <2>1, <2>2, <2>3 DEF BisyncDownload, DownloadFails
<1>7. CASE BisyncRemoteWins(d)
  <2>0. UNCHANGED drive /\ journal' = journal
    BY <1>7 DEF BisyncRemoteWins, driveVars
  <2>1. CASE local' = [local EXCEPT ![q] = 0] /\ DiffGoesTo(d, "fetch")
    <3>1. Fine(q)'
      BY <1>3, <2>1, FineRemoved
    <3> QED
      BY <1>0, <1>1, <1>4, <1>9, <2>1, <3>1, FeedPass DEF DiffKinds
  <2>2. CASE UNCHANGED local /\ DiffDone(d)
    BY <1>0, <1>1, <1>4, <2>0, <2>2, FeedPass
  <2> QED
    BY <1>1, <1>7, <2>1, <2>2 DEF BisyncRemoteWins
<1>8. CASE BisyncRecord(d)
  <2>1. DiffDone(d) /\ local' = local /\ UNCHANGED drive /\ d.kind \in {"uploaded", "downloaded"}
    BY <1>8 DEF BisyncRecord, driveVars, Turn
  <2>2. Told(q)
    BY <1>1, <2>1 DEF Told, FeedParts, DiffSettled
  <2>3. Told(q)'
    BY <1>0, <2>1, <2>2, StaleKept DEF Told
  <2> QED
    BY <1>0, <1>1, <1>4, <2>1, <2>3, FeedPass
<1> QED
  BY <1>5, <1>6, <1>7, <1>8

LEMMA FeedStep ==
  ASSUME TypeInv, DriveInv, TurnInv, ItemCurrent, FeedInv, [Next]_vars
  PROVE  FeedInv'
<1> SUFFICES ASSUME Sound', head' < MaxHead' PROVE FeedParts'
  BY DEF FeedInv, FeedParts
<1>1. OneStep /\ setup' = setup /\ head <= head'
  BY DriveStep, DriveTypeStep DEF OneStep, DriveMoves
<1>2. Sound /\ head' < MaxHead /\ head < MaxHead
  BY <1>1, DriveTypeStep, PullAssumption DEF Sound, Faults, MaxHead, TypeInv, DriveType
<1>3. FeedParts
  BY <1>2 DEF FeedInv, FeedParts
<1>4. CASE RemoteUser \/ Expire \/ UNCHANGED vars
  <2>1. UNCHANGED <<local, journal, pc, items, diffs>> /\ UNCHANGED <<token, next>>
    BY <1>4, UserMoves DEF Expire, vars, diskVars, memVars
  <2> QED
    BY <1>1, <1>3, <2>1, FeedFrame
<1>5. CASE PollBegin \/ ListFails \/ PollGone \/ Restart \/ BisyncDiff
  BY <1>3, <1>5, FeedPoll
<1>6. CASE Walk \/ PollChanges
  BY <1>3, <1>6, FeedListed
<1>7. CASE Persist
  BY <1>3, <1>7, FeedPersist
<1>8. CASE \/ ProcessDelete \/ Forget \/ SkipUnchanged \/ Download \/ Record
           \/ RemoteWins \/ FetchWinner \/ RecordConflict
  BY <1>2, <1>3, <1>8, FeedItem
<1>9. CASE LocalWins \/ UploadWinner
  BY <1>2, <1>3, <1>9, FeedUpload
<1>10. ASSUME NEW d \in diffs,
             \/ BisyncUpload(d) \/ BisyncDownload(d)
             \/ BisyncLocalWins(d) \/ BisyncRemoteWins(d) \/ BisyncRecord(d)
       PROVE  FeedParts'
  BY <1>1, <1>2, <1>3, <1>10, FeedDiff
<1> QED
  BY <1>4, <1>5, <1>6, <1>7, <1>8, <1>9, <1>10, NextSteps DEF Aloof

----------------------------------------------------------------------------
(* Without moves versions grow.                                            *)

\* The file on Drive at p is not older than c.
Above(p, c) == \A id \in At(p) : c <= drive[id].ver
\* A step keeps that so.
Lifts(p) == \A c \in Known : Above(p, c) => Above(p, c)'

PathOld(p) == Above(p, local[p]) /\ EntryOld(p)

GrowParts ==
    /\ \A p \in Paths : PathOld(p)
    /\ \A i \in items : ItemOld(i)
    /\ pc \in {"record", "taken", "upload", "kept"} => Item.c <= local[Item.path]
    /\ \A d \in diffs : DiffOld(d)

LEMMA GrowPartsAre == GrowInv <=> (Sound /\ "move" \notin RemoteOps => GrowParts)
BY DEF GrowInv, GrowParts, PathOld, Above, Ordered

LEMMA LiftsSame == ASSUME UNCHANGED drive, NEW p PROVE Lifts(p)
BY DEF Lifts, Above, At, Live

\* A file that is new at p is newer than all, or none is new at p.
LEMMA LiftsMoved ==
  ASSUME TypeInv, NEW id \in Ids, DriveMoves(id), NEW p,
         \/ drive'[id].state # "live" \/ drive'[id].path # p \/ drive'[id].ver = Fresh
  PROVE  Lifts(p)
<1> SUFFICES ASSUME NEW c \in Known, Above(p, c), NEW j \in Ids, Live(j)', drive'[j].path = p
             PROVE  c <= drive'[j].ver
  BY DEF Lifts, Above, At
<1>1. CASE j = id
  BY <1>1 DEF Fresh, Known, TypeInv, Live
<1>2. CASE j # id
  BY <1>2 DEF DriveMoves, Above, At, Live
<1> QED
  BY <1>1, <1>2

\* After an upload of v to q.
LEMMA AboveCopied ==
  ASSUME TypeInv, NEW id \in Ids, DriveMoves(id), NEW q, At(q) \subseteq {id},
         NEW v, drive'[id].path = q, drive'[id].ver = v, NEW c, c <= v
  PROVE  Above(q, c)'
<1> SUFFICES ASSUME NEW j \in Ids, Live(j)', drive'[j].path = q PROVE c <= drive'[j].ver
  BY DEF Above, At
<1>1. j = id
  BY DEF DriveMoves, At, Live
<1> QED
  BY <1>1

LEMMA PathKept ==
  ASSUME TypeInv, NEW p \in Paths, Lifts(p), local'[p] = local[p], journal'[p] = journal[p], PathOld(p)
  PROVE  PathOld(p)'
<1>1. local[p] \in Known /\ (journal[p] # NoEntry => journal[p].r \in Known)
  BY DEF TypeInv, KnownEntries
<1> QED
  BY <1>1 DEF PathOld, EntryOld, Lifts, Above

LEMMA ItemKept ==
  ASSUME TypeInv, NEW i \in items, Lifts(i.path), ItemOld(i)
  PROVE  ItemOld(i)'
<1>1. i.c \in Known
  BY DEF TypeInv, KnownChanges
<1> QED
  BY <1>1 DEF ItemOld, Lifts, Above

LEMMA DiffKept ==
  ASSUME TypeInv, NEW d \in diffs, Lifts(d.path), DiffOld(d),
         d.kind = "downloaded" => local'[d.path] = local[d.path]
  PROVE  DiffOld(d)'
<1>1. d.r \in Known
  BY DiffTyped DEF KnownDiffs
<1> QED
  BY <1>1 DEF DiffOld, Lifts, Above

ItemBehind == pc \in {"record", "taken", "upload", "kept"} => Item.c <= local[Item.path]

\* A step that changes neither local files nor entries.
LEMMA GrowAll ==
  ASSUME TypeInv, GrowParts, \A p \in Paths : Lifts(p), local' = local, journal' = journal,
         \A i \in items' : i \in items \/ ItemOld(i)', ItemBehind',
         \A d \in diffs' : d \in diffs \/ DiffOld(d)'
  PROVE  GrowParts'
<1>1. \A p \in Paths : PathOld(p)'
  BY PathKept DEF GrowParts
<1>2. \A i \in items' : ItemOld(i)'
  BY ItemKept DEF GrowParts, TypeInv, KnownChanges
<1>3. \A d \in diffs' : DiffOld(d)'
  BY DiffKept, DiffTyped DEF GrowParts
<1> QED
  BY <1>1, <1>2, <1>3 DEF GrowParts, ItemBehind

\* A step about the path q.
LEMMA GrowOne ==
  ASSUME TypeInv, GrowParts, NEW q \in Paths,
         \A p \in Paths : p # q => Lifts(p) /\ local'[p] = local[p] /\ journal'[p] = journal[p],
         PathOld(q)', ItemBehind',
         \A i \in items' : ItemOld(i)' \/ (i \in items /\ (i.path # q \/ Lifts(q))),
         \A d \in diffs' : DiffOld(d)' \/ (d \in diffs /\ d.path # q)
  PROVE  GrowParts'
<1>1. \A p \in Paths : PathOld(p)'
  BY PathKept DEF GrowParts
<1>2. \A i \in items' : ItemOld(i)'
  BY ItemKept DEF GrowParts, TypeInv, KnownChanges
<1>3. \A d \in diffs' : DiffOld(d)'
  BY DiffKept, DiffTyped DEF GrowParts
<1> QED
  BY <1>1, <1>2, <1>3 DEF GrowParts, ItemBehind

\* The poll's steps on one change that leave Drive alone.
LEMMA GrowItem ==
  ASSUME TypeInv, DriveInv, TurnInv, GrowParts, Sound,
         \/ ProcessDelete \/ Forget \/ SkipUnchanged \/ Download \/ Record
         \/ RemoteWins \/ FetchWinner \/ RecordConflict
  PROVE  GrowParts'
<1>0. /\ items # {} /\ pc \in {"process"} \union Busy /\ UNCHANGED drive
      /\ items' \subseteq items /\ diffs' = {}
  BY DEF ProcessDelete, Forget, SkipUnchanged, Download, Record, RemoteWins, FetchWinner, RecordConflict,
     InProgress, TypeInv, TurnInv, Busy, driveVars, diskVars, ItemDone, ItemGoesTo
<1>1. PICK q \in Paths : q = Item.path
  BY <1>0, ItemTyped
<1>2. "file" \notin Faults /\ "torn" \notin Faults
  BY DEF Sound
<1>3. /\ local \in [Paths -> Known] /\ journal \in [Paths -> KnownEntries \union {NoEntry}]
      /\ Item \in items /\ Item.c \in Known
  BY <1>0, ItemTyped DEF TypeInv, KnownChanges
<1>4. \A p \in Paths : Lifts(p) /\ (p # q => local'[p] = local[p] /\ journal'[p] = journal[p])
  BY <1>0, <1>1, <1>3, LiftsSame DEF ProcessDelete, Forget, SkipUnchanged, Download, Record, RemoteWins, FetchWinner,
     RecordConflict, DownloadFile, DownloadFails, diskVars
<1>5. PathOld(q) /\ (~Item.del => Above(q, Item.c))
  BY <1>1, <1>3 DEF GrowParts, ItemOld, Above
<1>6. \A c : Above(q, c)' <=> Above(q, c)
  BY <1>0 DEF Above, At, Live
<1>7. CASE ProcessDelete \/ RemoteWins
  <2>1. local'[q] = 0 /\ journal' = journal /\ pc' \in {"forget", "fetch"}
    BY <1>1, <1>2, <1>3, <1>7 DEF ProcessDelete, RemoteWins, ItemGoesTo
  <2>2. Above(q, 0)
    BY DEF Above, At, TypeInv, Files, Known
  <2>3. PathOld(q)'
    BY <1>5, <1>6, <2>1, <2>2 DEF PathOld, EntryOld, Above
  <2> QED
    BY <1>0, <1>4, <2>1, <2>3, GrowOne DEF ItemBehind
<1>8. CASE Forget
  <2>1. local' = local /\ journal'[q] = NoEntry /\ pc' = "process"
    BY <1>1, <1>3, <1>8 DEF Forget, ItemDone
  <2>3. PathOld(q)'
    BY <1>5, <1>6, <2>1 DEF PathOld, EntryOld
  <2> QED
    BY <1>0, <1>4, <2>1, <2>3, GrowOne DEF ItemBehind
<1>9. CASE Record \/ RecordConflict
  <2>1. /\ local' = local /\ pc' = "process" /\ pc \in {"record", "taken", "kept"} /\ ~Item.del
        /\ journal'[q].r = Item.c
    BY <1>1, <1>3, <1>9 DEF Record, RecordConflict, ItemDone, TurnInv, Busy
  <2>2. Item.c <= local[q]
    BY <1>1, <2>1 DEF GrowParts
  <2>3. EntryOld(q)'
    BY <1>5, <1>6, <2>1, <2>2 DEF EntryOld, Above
  <2>4. PathOld(q)'
    BY <1>5, <1>6, <2>1, <2>3 DEF PathOld
  <2> QED
    BY <1>0, <1>4, <2>1, <2>4, GrowOne DEF ItemBehind
<1>10. CASE Download \/ FetchWinner
  <2>0. ~Item.del /\ journal' = journal
    BY <1>10 DEF Download, FetchWinner, TurnInv, Busy
  <2>1. \/ DownloadFile(q) /\ (ItemGoesTo("record") \/ ItemGoesTo("taken"))
        \/ UNCHANGED local /\ pc' = "process"
    BY <1>1, <1>2, <1>10 DEF Download, FetchWinner, DownloadFails, ItemDone
  <2>2. CASE UNCHANGED local /\ pc' = "process"
    BY <1>0, <1>4, <2>0, <2>2, GrowAll DEF ItemBehind
  <2>3. CASE DownloadFile(q) /\ items' = items
    <3>1. PICK id \in At(q) : local'[q] = drive[id].ver /\ At(q) = {id}
      BY <1>3, <2>3, RemoteIs DEF DownloadFile
    <3>2. Item.c <= local'[q]
      BY <1>5, <2>0, <3>1 DEF Above
    <3>3. Item' = Item
      BY <2>3 DEF Item
    <3>4. ItemBehind'
      BY <1>1, <3>2, <3>3 DEF ItemBehind
    <3>5. drive[id].ver \in Nat
      BY <3>1 DEF At, TypeInv, Files, Known
    <3>6. Above(q, local'[q])
      BY <3>1, <3>5 DEF Above
    <3>7. EntryOld(q)'
      BY <1>5, <1>6, <2>0, <3>1 DEF PathOld, EntryOld, Above
    <3>8. PathOld(q)'
      BY <1>6, <3>6, <3>7 DEF PathOld
    <3> QED
      BY <1>0, <1>4, <3>4, <3>8, GrowOne
  <2> QED
    BY <2>1, <2>2, <2>3 DEF ItemGoesTo
<1>11. CASE SkipUnchanged
  BY <1>0, <1>4, <1>11, GrowAll DEF SkipUnchanged, ItemDone, ItemBehind, diskVars
<1> QED
  BY <1>7, <1>8, <1>9, <1>10, <1>11

\* The steps of the poll that move files on Drive.
LEMMA GrowUpload ==
  ASSUME TypeInv, DriveInv, TurnInv, GrowParts, LocalWins \/ UploadWinner
  PROVE  GrowParts'
<1>0. /\ items # {} /\ pc \in {"process"} \union Busy /\ diffs' = {}
      /\ UNCHANGED <<local, journal>> /\ items' \subseteq items
  BY DEF LocalWins, UploadWinner, InProgress, TypeInv, TurnInv, Busy, diskVars, ItemDone, ItemGoesTo
<1>1. PICK q \in Paths : q = Item.path
  BY <1>0, ItemTyped
<1>2. q # Aside /\ Aside \notin Paths
  BY PullAssumption
<1>3. /\ local[q] \in Known /\ (journal[q] # NoEntry => journal[q].r \in Known)
      /\ Item \in items /\ Item.c \in Known
  BY <1>0, ItemTyped DEF TypeInv, KnownEntries, KnownChanges
<1>4. items' = items => Item' = Item
  BY DEF Item
<1>5. CASE UNCHANGED drive /\ pc' = "process"
  BY <1>0, <1>5, LiftsSame, GrowAll DEF ItemBehind
<1>6. CASE LocalWins /\ ~(UNCHANGED drive /\ pc' = "process")
  <2>1. PICK id \in Ids : DriveMoves(id) /\ drive'[id].path = Aside /\ items' = items
    BY <1>6, LocalWinsMoves DEF driveVars, ItemDone
  <2>2. \A p \in Paths : Lifts(p)
    BY <1>2, <2>1, LiftsMoved
  <2>3. Item.c <= local[q]
    BY <1>1, <1>3, <1>6 DEF LocalWins, RemoteNewer, Known
  <2>4. ItemBehind'
    BY <1>0, <1>1, <1>4, <2>1, <2>3 DEF ItemBehind
  <2> QED
    BY <1>0, <2>1, <2>2, <2>4, GrowAll
<1>7. CASE UploadWinner
  <2>1. Item.c <= local[q] /\ ~Item.del /\ local[q] # 0
    BY <1>1, <1>7 DEF GrowParts, UploadWinner, TurnInv, Busy
  <2>2. ItemBehind'
    <3>1. CASE pc' = "process"
      BY <3>1 DEF ItemBehind
    <3>2. CASE items' = items
      BY <1>0, <1>1, <1>4, <2>1, <3>2 DEF ItemBehind
    <3> QED
      BY <1>7, <3>1, <3>2 DEF UploadWinner, ItemGoesTo, ItemDone
  <2>3. CASE UNCHANGED drive
    BY <1>0, <2>2, <2>3, LiftsSame, GrowAll
  <2>4. ASSUME NEW id \in Ids, DriveMoves(id), At(q) \subseteq {id}, drive'[id].path = q,
               drive'[id].ver = local[q]
        PROVE  GrowParts'
    <3>1. \A p \in Paths : p # q => Lifts(p)
      BY <2>4, LiftsMoved
    <3>2. PathOld(q) /\ local[q] \in Nat
      BY <1>3 DEF GrowParts, Known
    <3>3. \A c \in Known : c <= local[q] => Above(q, c)'
      BY <2>4, AboveCopied
    <3>4. PathOld(q)'
      BY <1>0, <1>3, <2>1, <3>2, <3>3 DEF PathOld, EntryOld, Above
    <3>5. \A i \in items : i.path = q => ItemOld(i)'
      BY <1>1, <1>3, <2>1, <3>3 DEF TurnInv, ItemOld, Above
    <3> QED
      BY <1>0, <2>2, <3>1, <3>4, <3>5, GrowOne
  <2> QED
    BY <1>1, <1>7, <2>3, <2>4, UploadMoves DEF DriveSame
<1> QED
  BY <1>5, <1>6, <1>7

\* A difference that has come a step further.
LEMMA DiffFurther ==
  ASSUME TypeInv, TurnInv, NEW d \in diffs, NEW q, q = d.path,
         NEW step \in {"upload", "uploaded", "fetch", "downloaded"},
         DiffGoesTo(d, step), Above(q, d.r)',
         step \in {"upload", "uploaded"} => d.r <= d.l,
         step = "downloaded" => d.r <= local'[q]
  PROVE  \A e \in diffs' : DiffOld(e)' \/ (e \in diffs /\ e.path # q)
<1> DEFINE f == [d EXCEPT !.kind = step]
<1>0. f.path = q /\ f.kind = step /\ f.l = d.l /\ f.r = d.r
  BY DiffTyped DEF KnownDiffs
<1> HIDE DEF f
<1>1. diffs' = (diffs \ {d}) \union {f}
  BY DEF DiffGoesTo, f
<1>2. \A e \in diffs \ {d} : e.path # q
  BY DEF TurnInv
<1>3. DiffOld(f)'
  BY <1>0 DEF DiffOld, Above
<1> QED
  BY <1>1, <1>2, <1>3

\* The steps of the pass on one difference.
LEMMA GrowDiff ==
  ASSUME TypeInv, DriveInv, TurnInv, GrowParts, Sound, NEW d \in diffs,
         \/ BisyncUpload(d) \/ BisyncDownload(d)
         \/ BisyncLocalWins(d) \/ BisyncRemoteWins(d) \/ BisyncRecord(d)
  PROVE  GrowParts'
<1>0. /\ pc = "bisync" /\ items' = {} /\ pc' \in {"idle", "bisync"} /\ ItemBehind'
  BY DEF BisyncUpload, BisyncDownload, BisyncLocalWins, BisyncRemoteWins, BisyncRecord, Turn, TurnInv,
     DiffDone, DiffGoesTo, ItemBehind
<1>1. PICK q \in Paths : q = d.path
  BY DiffTyped
<1>2. q # Aside /\ Aside \notin Paths /\ "torn" \notin Faults /\ "file" \notin Faults
  BY PullAssumption DEF Sound
<1>3. /\ local \in [Paths -> Known] /\ journal \in [Paths -> KnownEntries \union {NoEntry}]
      /\ d.r \in Known /\ d.l \in Known /\ (journal[q] # NoEntry => journal[q].r \in Known)
      /\ local[q] \in Nat /\ d.r \in Nat /\ d.l \in Nat
  BY DiffTyped DEF TypeInv, KnownDiffs, KnownEntries, Known
<1>4. \A p \in Paths : p # q => local'[p] = local[p] /\ journal'[p] = journal[p]
  BY <1>1, <1>3 DEF BisyncUpload, BisyncDownload, BisyncLocalWins, BisyncRemoteWins, BisyncRecord,
     DownloadFile, DownloadFails, diskVars
<1>5. PathOld(q) /\ DiffOld(d) /\ Above(q, d.r)
  BY <1>1 DEF GrowParts, DiffOld, Above
<1>6. UNCHANGED drive => (\A p : Lifts(p)) /\ (\A c : Above(q, c)' <=> Above(q, c))
  BY LiftsSame DEF Above, At, Live
<1>7. DiffDone(d) => \A e \in diffs' : e \in diffs /\ e.path # q
  BY <1>1 DEF DiffDone, TurnInv
<1>8. CASE UNCHANGED <<drive, local, journal>> /\ DiffDone(d)
  BY <1>0, <1>6, <1>7, <1>8, GrowAll
<1>9. CASE BisyncUpload(d)
  <2>0. /\ local' = local /\ journal' = journal /\ d.kind \in {"local_only", "upload"}
        /\ d.l = local[q] /\ local[q] # 0 /\ d.r <= d.l
    BY <1>1, <1>5, <1>9 DEF BisyncUpload, diskVars, Turn, TurnInv, DiffOld
  <2>1. CASE DriveSame /\ DiffDone(d)
    BY <1>8, <2>0, <2>1 DEF DriveSame
  <2>2. ASSUME NEW id \in Ids, DriveMoves(id), At(q) \subseteq {id}, drive'[id].path = q,
               drive'[id].ver = local[q], DiffGoesTo(d, "uploaded")
        PROVE  GrowParts'
    <3>1. \A p \in Paths : p # q => Lifts(p)
      BY <2>2, LiftsMoved
    <3>3. \A c \in Known : c <= local[q] => Above(q, c)'
      BY <2>2, AboveCopied
    <3>4. PathOld(q)'
      BY <1>3, <1>5, <2>0, <3>3 DEF PathOld, EntryOld, Above
    <3>5. \A e \in diffs' : DiffOld(e)' \/ (e \in diffs /\ e.path # q)
      BY <1>1, <1>3, <2>0, <2>2, <3>3, DiffFurther DEF DiffKinds
    <3> QED
      BY <1>0, <1>4, <3>1, <3>4, <3>5, GrowOne
  <2> QED
    BY <1>1, <1>9, <2>1, <2>2, BisyncUploadMoves
<1>10. CASE BisyncLocalWins(d)
  <2>0. local' = local /\ journal' = journal /\ d.r <= d.l
    BY <1>3, <1>10 DEF BisyncLocalWins, diskVars, RemoteNewer
  <2>1. CASE DriveSame /\ DiffDone(d)
    BY <1>8, <2>0, <2>1 DEF DriveSame
  <2>2. ASSUME NEW id \in Ids, DriveMoves(id), drive'[id].path = Aside, DiffGoesTo(d, "upload")
        PROVE  GrowParts'
    <3>1. \A p \in Paths : Lifts(p)
      BY <1>2, <2>2, LiftsMoved
    <3>2. Above(q, d.r)'
      BY <1>3, <1>5, <3>1 DEF Lifts
    <3>3. \A e \in diffs' : DiffOld(e)' \/ (e \in diffs /\ e.path # q)
      BY <1>1, <2>0, <2>2, <3>2, DiffFurther DEF DiffKinds
    <3> QED
      BY <1>0, <2>0, <3>1, <3>3, GrowAll
  <2> QED
    BY <1>10, <2>1, <2>2, BisyncLocalWinsMoves
<1>11. CASE BisyncDownload(d)
  <2>0. UNCHANGED drive /\ journal' = journal
    BY <1>11 DEF BisyncDownload, driveVars
  <2>1. CASE DownloadFile(q) /\ DiffGoesTo(d, "downloaded")
    <3>1. PICK id \in At(q) : local'[q] = drive[id].ver /\ At(q) = {id}
      BY <1>3, <2>1, RemoteIs DEF DownloadFile
    <3>2. drive[id].ver \in Nat
      BY <3>1 DEF At, TypeInv, Files, Known
    <3>3. Above(q, local'[q]) /\ d.r <= local'[q]
      BY <1>5, <3>1, <3>2 DEF Above
    <3>4. EntryOld(q)'
      BY <1>5, <1>6, <2>0, <3>1 DEF PathOld, EntryOld, Above
    <3>5. PathOld(q)'
      BY <1>6, <2>0, <3>3, <3>4 DEF PathOld
    <3>6. Above(q, d.r)'
      BY <1>5, <1>6, <2>0
    <3>7. \A e \in diffs' : DiffOld(e)' \/ (e \in diffs /\ e.path # q)
      BY <1>1, <2>1, <3>3, <3>6, DiffFurther DEF DiffKinds
    <3> QED
      BY <1>0, <1>4, <1>6, <2>0, <3>5, <3>7, GrowOne
  <2>2. CASE UNCHANGED local /\ DiffDone(d)
    BY <1>8, <2>0, <2>2
  <2> QED
    BY <1>1, <1>2, <1>11, <2>1, <2>2 DEF BisyncDownload, DownloadFails
<1>12. CASE BisyncRemoteWins(d)
  <2>0. /\ UNCHANGED drive /\ journal' = journal
        /\ local' = [local EXCEPT ![q] = 0] /\ DiffGoesTo(d, "fetch")
    BY <1>1, <1>2, <1>12 DEF BisyncRemoteWins, driveVars
  <2>1. local'[q] = 0 /\ Above(q, 0) /\ Above(q, d.r)'
    BY <1>3, <1>5, <1>6, <2>0 DEF Above, At, TypeInv, Files, Known
  <2>2. PathOld(q)'
    BY <1>5, <1>6, <2>0, <2>1 DEF PathOld, EntryOld, Above
  <2>3. \A e \in diffs' : DiffOld(e)' \/ (e \in diffs /\ e.path # q)
    BY <1>1, <2>0, <2>1, DiffFurther DEF DiffKinds
  <2> QED
    BY <1>0, <1>4, <1>6, <2>0, <2>2, <2>3, GrowOne
<1>13. CASE BisyncRecord(d)
  <2>0. /\ UNCHANGED drive /\ local' = local /\ DiffDone(d)
        /\ d.kind \in {"uploaded", "downloaded"}
        /\ journal'[q].r = IF d.kind = "uploaded" THEN d.l ELSE d.r
    BY <1>1, <1>3, <1>13 DEF BisyncRecord, driveVars, Turn
  <2>1. journal'[q].r <= local[q] /\ Above(q, journal'[q].r)
    <3>1. CASE d.kind = "uploaded"
      BY <1>1, <1>3, <1>5, <2>0, <3>1 DEF TurnInv, PathOld
    <3>2. CASE d.kind = "downloaded"
      BY <1>1, <1>5, <2>0, <3>2 DEF DiffOld
    <3> QED
      BY <2>0, <3>1, <3>2
  <2>2. EntryOld(q)'
    BY <1>6, <2>0, <2>1 DEF EntryOld, Above
  <2>3. PathOld(q)'
    BY <1>5, <1>6, <2>0, <2>2 DEF PathOld
  <2> QED
    BY <1>0, <1>4, <1>6, <1>7, <2>0, <2>3, GrowOne
<1> QED
  BY <1>9, <1>10, <1>11, <1>12, <1>13

\* The lists of the poll and of the pass.
LEMMA GrowListed ==
  ASSUME TypeInv, DriveInv, TurnInv, GrowParts, Walk \/ PollChanges \/ BisyncDiff
  PROVE  GrowParts'
<1>0. UNCHANGED <<local, journal, drive>> /\ ItemBehind'
  BY DEF Walk, PollChanges, BisyncDiff, driveVars, diskVars, ItemBehind
<1>1. \A id \in Ids : Live(id) /\ drive[id].path \in Paths => Above(drive[id].path, drive[id].ver)'
  BY <1>0 DEF Above, At, DriveInv, Live, TypeInv, Files, Known
<1>2. CASE Walk
  <2>1. \A i \in items' : \E id \in Ids : Live(id) /\ i.path = drive[id].path /\ drive[id].path # Aside
          /\ i.c = drive[id].ver
    BY <1>2 DEF Walk
  <2>2. \A id \in Ids : Live(id) /\ drive[id].path # Aside => drive[id].path \in Paths
    BY DEF TypeInv, Files, DriveInv
  <2>3. \A i \in items' : ItemOld(i)'
    BY <1>0, <1>1, <2>1, <2>2 DEF ItemOld, Above, At, Live
  <2> QED
    BY <1>0, <1>2, <2>3, LiftsSame, GrowAll DEF Walk
<1>3. CASE PollChanges
  <2>1. \A i \in items' : \E id \in Ids : i = Translate(id) /\ Translatable(id)
    BY <1>3 DEF PollChanges
  <2>2. \A i \in items' : ~i.del =>
           \E id \in Ids : Live(id) /\ i.path = drive[id].path /\ i.path \in Paths
                           /\ i.c = drive[id].ver
    BY <2>1, TranslateTyped DEF KnownChanges
  <2>3. \A i \in items' : ItemOld(i)'
    BY <1>0, <1>1, <2>2 DEF ItemOld, Above, At, Live
  <2> QED
    BY <1>0, <1>3, <2>3, LiftsSame, GrowAll DEF PollChanges
<1>4. CASE BisyncDiff
  <2>1. \A p \in Paths : Diff(p).kind = KindOf(p)
    BY DEF Diff
  <2>2. ASSUME NEW e \in diffs' PROVE DiffOld(e)'
    <3>0. PICK p \in Paths : e = Diff(p) /\ KindOf(p) # "same"
      BY <1>4, <2>1, <2>2 DEF BisyncDiff
    <3>1. /\ e.path = p /\ e.l = local[p]
          /\ e.r = 0 \/ e.r = RemoteAt(p)
          /\ e.kind \in {"local_only", "remote_only", "conflict"}
          /\ e.kind = "local_only" => e.r = 0
      BY <3>0, DiffListed
    <3>2. \A id \in At(p) : drive[id].ver \in Nat /\ local[p] \in Nat
      BY DEF At, TypeInv, Files, Known
    <3>3. \A id \in At(p) : e.r <= drive[id].ver
      <4>1. \A id \in At(p) : RemoteAt(p) = drive[id].ver
        BY RemoteIs
      <4> QED
        BY <3>1, <3>2, <4>1
    <3>4. e.kind = "local_only" => e.r <= e.l
      BY <3>1 DEF TypeInv, Known
    <3>5. At(p)' = At(p)
      BY <1>0 DEF At, Live
    <3> QED
      BY <1>0, <3>1, <3>3, <3>4, <3>5 DEF DiffOld
  <2> QED
    BY <1>0, <1>4, <2>2, LiftsSame, GrowAll DEF BisyncDiff
<1> QED
  BY <1>2, <1>3, <1>4

LEMMA GrowStep ==
  ASSUME TypeInv, DriveInv, TurnInv, GrowInv, [Next]_vars
  PROVE  GrowInv'
<1>0. SUFFICES ASSUME (Sound /\ "move" \notin RemoteOps)' PROVE GrowParts'
  <2>1. GrowInv' <=> (Sound /\ "move" \notin RemoteOps => GrowParts)'
    BY GrowPartsAre, PTL
  <2> QED
    BY <2>1
<1>1. setup' = setup
  BY DriveStep DEF DriveMoves
<1>2. Sound /\ "move" \notin RemoteOps /\ GrowParts
  BY <1>0, <1>1, GrowPartsAre DEF Sound, Faults, RemoteOps
<1>3. CASE RemoteUser \/ Expire \/ UNCHANGED vars
  <2>1. UNCHANGED <<local, journal, pc, items, diffs>>
    BY <1>3, UserMoves DEF Expire, vars, diskVars, memVars
  <2>2. Item' = Item
    BY <2>1 DEF Item
  <2>3. ItemBehind'
    BY <1>2, <2>1, <2>2 DEF ItemBehind, GrowParts
  <2>4. \A p \in Paths : Lifts(p)
    <3>1. CASE RemoteUser
      BY <1>2, <3>1, UserMoves, LiftsMoved
    <3>2. CASE Expire \/ UNCHANGED vars
      BY <3>2, LiftsSame DEF Expire, vars, driveVars
    <3> QED
      BY <1>3, <3>1, <3>2
  <2> QED
    BY <1>2, <2>1, <2>3, <2>4, GrowAll
<1>4. CASE PollBegin \/ ListFails \/ PollGone \/ Restart \/ Persist
  <2>1. /\ UNCHANGED <<local, journal, drive>> /\ pc' \in {"idle", "list"}
        /\ items' \subseteq items /\ diffs' \subseteq diffs
    BY <1>4 DEF PollBegin, ListFails, PollGone, Restart, Persist, driveVars, diskVars, memVars
  <2>2. ItemBehind'
    BY <2>1 DEF ItemBehind
  <2> QED
    BY <1>2, <2>1, <2>2, LiftsSame, GrowAll
<1>5. CASE Walk \/ PollChanges \/ BisyncDiff
  BY <1>2, <1>5, GrowListed
<1>6. CASE \/ ProcessDelete \/ Forget \/ SkipUnchanged \/ Download \/ Record
           \/ RemoteWins \/ FetchWinner \/ RecordConflict
  BY <1>2, <1>6, GrowItem
<1>7. CASE LocalWins \/ UploadWinner
  BY <1>2, <1>7, GrowUpload
<1>8. ASSUME NEW d \in diffs,
             \/ BisyncUpload(d) \/ BisyncDownload(d)
             \/ BisyncLocalWins(d) \/ BisyncRemoteWins(d) \/ BisyncRecord(d)
       PROVE  GrowParts'
  BY <1>2, <1>8, GrowDiff
<1> QED
  BY <1>3, <1>4, <1>5, <1>6, <1>7, <1>8, NextSteps DEF Aloof

----------------------------------------------------------------------------
(* The theorems.                                                           *)

LEMMA InitInv == Init => IndInv
<1> SUFFICES ASSUME Init PROVE IndInv
  OBVIOUS
<1>1. MaxHead \in Nat
  BY PullAssumption DEF Init, MaxHead
<1>2. TypeInv
  <2>1. 0 \in Known /\ 0 \in 0..head /\ head \in Nat /\ head <= MaxHead
    BY <1>1 DEF Init, Known
  <2>2. drive \in [Ids -> Files]
    BY <2>1 DEF Init, Files
  <2>3. /\ local \in [Paths -> Known] /\ journal \in [Paths -> KnownEntries \union {NoEntry}]
        /\ cache \in [Ids -> Paths \union {Aside, NoPath}]
    BY <2>1 DEF Init
  <2>4. token \in [kind : {"none", "start", "page"}, pos : 0..head] /\ next \in 0..head /\ floor \in 0..(head + 1)
    BY <2>1 DEF Init
  <2>5. /\ setup \in Setups /\ dirKnown \in BOOLEAN /\ lastErr \in BOOLEAN /\ pc = "idle"
        /\ items = {} /\ diffs = {}
    BY DEF Init
  <2> QED
    BY <2>1, <2>2, <2>3, <2>4, <2>5 DEF TypeInv, Busy
<1>3. \A id \in Ids : drive[id].state = "unborn" /\ drive[id].path = NoPath /\ ~Live(id)
  BY DEF Init, Live
<1>4. DriveInv /\ TurnInv
  BY <1>3 DEF Init, DriveInv, TurnInv, Busy
<1>5. ItemCurrent /\ FeedInv
  BY DEF Init, ItemCurrent, FeedInv, TokenInv, ListInv, ItemSettled, DiffSettled, Busy
<1>6. GrowInv
  BY <1>3 DEF Init, GrowInv, At, EntryOld
<1> QED
  BY <1>2, <1>4, <1>5, <1>6 DEF IndInv

LEMMA StepInv == IndInv /\ [Next]_vars => IndInv'
<1> SUFFICES ASSUME IndInv, [Next]_vars PROVE IndInv'
  OBVIOUS
<1>1. TypeInv /\ DriveInv /\ TurnInv /\ ItemCurrent /\ FeedInv /\ GrowInv
  BY DEF IndInv
<1>2. TypeInv' /\ DriveInv' /\ TurnInv' /\ ItemCurrent' /\ FeedInv' /\ GrowInv'
  BY <1>1, TypeStep, DriveInvStep, TurnStep, CurrentStep, FeedStep, GrowStep
<1> QED
  BY <1>2 DEF IndInv

LEMMA Inductive == Spec => []IndInv
BY InitInv, StepInv, PTL DEF Spec

\* Contents and positions in the feed stay within the bounds of the setup.
LEMMA TypeInvOK == TypeInv => TypeOK
<1> SUFFICES ASSUME TypeInv PROVE TypeOK
  OBVIOUS
<1>1. MaxHead \in Nat /\ head \in Nat /\ head <= MaxHead
  BY PullAssumption DEF TypeInv, MaxHead
<1>2. Known \subseteq Contents /\ 0..head \subseteq 0..MaxHead /\ 0..(head + 1) \subseteq 0..(MaxHead + 1)
  BY <1>1 DEF Known, Contents
<1>3. /\ KnownChanges \subseteq Changes /\ KnownDiffs \subseteq Diffs /\ KnownEntries \subseteq JournalEntries
      /\ Files \subseteq [state : {"unborn", "live", "trashed", "removed"},
                          path : Paths \union {Aside, NoPath},
                          ver : Contents, seq : 0..MaxHead]
  BY <1>2 DEF KnownChanges, Changes, KnownDiffs, Diffs, KnownEntries, JournalEntries, Files
<1>4. /\ drive \in [Ids -> [state : {"unborn", "live", "trashed", "removed"},
                          path : Paths \union {Aside, NoPath},
                          ver : Contents, seq : 0..MaxHead]]
      /\ local \in [Paths -> Contents] /\ journal \in [Paths -> JournalEntries \union {NoEntry}]
      /\ token \in [kind : {"none", "start", "page"}, pos : 0..MaxHead]
      /\ items \subseteq Changes /\ diffs \subseteq Diffs
      /\ next \in 0..MaxHead /\ floor \in 0..(MaxHead + 1) /\ head \in 0..MaxHead
  BY <1>1, <1>2, <1>3 DEF TypeInv
<1>5. /\ setup \in Setups /\ cache \in [Ids -> Paths \union {Aside, NoPath}]
      /\ dirKnown \in BOOLEAN /\ lastErr \in BOOLEAN
      /\ pc \in {"idle", "list", "process", "forget", "record",
               "upload", "kept", "fetch", "taken", "bisync"}
      /\ pc \in {"forget", "record", "upload", "kept", "fetch", "taken"} => items # {}
  BY DEF TypeInv, Busy
<1> QED
  BY <1>4, <1>5 DEF TypeOK

\* With the feed used up, a stale file is one the journal takes for current.
LEMMA InvMirrored == IndInv => LiveMirrored
<1> SUFFICES ASSUME IndInv, CaughtUp, head < MaxHead, Sound,
                    NEW p \in Paths \ Nested, RemoteAt(p) # 0,
                    local[p] # RemoteAt(p), KindOf(p) # "remote_only"
             PROVE  TakenForRecorded(p)
  BY DEF LiveMirrored, Sound
<1>1. TypeInv /\ DriveInv /\ FeedInv /\ GrowInv
  BY DEF IndInv
<1>2. PICK id \in At(p) : RemoteAt(p) = drive[id].ver
  BY <1>1, RemoteIs
<1>3. local[p] # 0
  BY DEF KindOf, Listed
<1>4. Stale(id, p) /\ id \in Ids
  BY <1>2, <1>3 DEF Stale, At
<1>5. token.kind = "page" /\ token.pos = head
  BY DEF CaughtUp, Page
<1>6. ~(drive[id].seq > token.pos)
  BY <1>1, <1>4, <1>5 DEF TypeInv, Files
<1>7. Excused(id, p)
  BY <1>1, <1>4, <1>5, <1>6 DEF FeedInv, TokenInv
<1>8. ASSUME "move" \notin RemoteOps PROVE FALSE
  <2>1. local[p] <= drive[id].ver /\ journal[p].r <= local[p]
    BY <1>1, <1>2, <1>3, <1>7, <1>8 DEF GrowInv, Ordered, EntryOld, Excused
  <2>2. local[p] \in Nat /\ drive[id].ver \in Nat
    BY <1>1, <1>4 DEF TypeInv, Files, Known
  <2> QED
    BY <1>2, <1>7, <2>1, <2>2 DEF Excused
<1> QED
  BY <1>2, <1>7, <1>8 DEF TakenForRecorded, Excused

\* TypeOK holds in every state: no content, position or step leaves its type,
\* whatever the users, the network and crashes do.
THEOREM TypeCorrect == Spec => []TypeOK
<1>1. IndInv => TypeOK
  BY TypeInvOK DEF IndInv
<1> QED
  BY <1>1, Inductive, PTL

\* LiveMirrored holds in every state: whatever crashes, failed listings and
\* expired tokens cut a poll short, the page token that Puller.poll persists
\* never passes a change whose file is stale on disk.
THEOREM Mirrored == Spec => []LiveMirrored
BY Inductive, InvMirrored, PTL

----------------------------------------------------------------------------
(* A file in the bin is not on disk.                                       *)

\* The exceptions of DeadRemoved.
Quiet ==
    /\ ~Passes
    /\ Faults \intersect {"gone", "file"} = {}
    /\ RemoteOps \intersect {"move", "remove"} = {}

Binned(id, p) == drive[id].state = "trashed" /\ drive[id].path = p

\* How far the feed has been listed.
Processing == pc \in {"process"} \union Busy
Reach == IF Processing THEN next ELSE token.pos

\* The deletion of id has been listed, and it has been processed.
Applied(id, p) ==
    /\ Binned(id, p) /\ drive[id].seq <= Reach
    /\ \A i \in items : i.seq # drive[id].seq

\* A position belongs to one change; the file at a path is newer than those of
\* that path in the bin, and no content is ahead of the feed.
BinDrive ==
    /\ floor = 0
    /\ \A id \in Ids :
          /\ drive[id].state # "removed" /\ drive[id].ver <= 2 * head
          /\ drive[id].state # "unborn" => drive[id].ver # 0 /\ drive[id].seq # 0
          /\ drive[id].state = "trashed" => drive[id].path \in Paths
    /\ \A i, j \in Ids : drive[i].seq = drive[j].seq /\ drive[i].seq # 0 => i = j
    /\ \A i, j \in Ids, p \in Paths : Binned(i, p) /\ j \in At(p) => drive[i].seq < drive[j].seq

\* Deletions are listed as such, before the file that has their path now.
BinList ==
    /\ pc # "bisync" /\ (pc # "idle" => token.kind # "none")
    /\ Processing => token.pos <= next /\ (token.kind = "start" => next = token.pos)
    /\ \A i \in items, id \in Ids, p \in Paths : Binned(id, p) /\ i.seq = drive[id].seq => i.del /\ i.path = p
    /\ token.kind = "page" => \A i \in items : i.seq > token.pos /\ (~i.del => i.md5)
    /\ token.kind = "start" => \A i \in items : ~i.del
    /\ \A i, j \in items : i.path = j.path /\ i.del /\ ~j.del => i.seq < j.seq

\* A version that is in the bin and at its path again was uploaded before the
\* deletion was listed.
Again(n) ==
    \A p \in Paths \ Nested : \A i \in Ids : \A j \in At(p) :
       Binned(i, p) /\ drive[i].seq <= n /\ drive[i].ver = drive[j].ver => drive[j].seq <= n
BinAgain == Again(token.pos) /\ (Processing => Again(next))

\* The version v is neither on disk nor on Drive at p.
Absent(p, v) == local[p] # v /\ \A j \in At(p) : drive[j].ver # v

\* What was binned before the first walk never comes to the disk.
BinStart ==
    /\ token.kind = "none" =>
          /\ token.pos = 0 /\ \A p \in Paths : local[p] = 0
          /\ \A i, j \in Ids : drive[i].state # "unborn" /\ drive[j].state # "unborn"
                                  /\ drive[i].ver = drive[j].ver => i = j
    /\ token.kind = "start" =>
          \A p \in Paths \ Nested : \A id \in Ids :
             Binned(id, p) /\ drive[id].seq <= token.pos => Absent(p, drive[id].ver)

\* A version v in the bin, with its deletion processed, is on disk only if it is
\* on Drive again or another deletion is due (OnDisk); then the disk does not
\* conflict with the journal (NoConflict), which has no other version
\* (Recorded), and so no resolution is about it (OutOfStep).
OnDisk(p, v) ==
    local[p] = v => At(p) # {} \/ \E a \in Ids : Binned(a, p) /\ ~Applied(a, p)
NoConflict(p, v) ==
    local[p] = v => journal[p] = NoEntry \/ journal[p].l = v
Recorded(p, v) ==
    (\E j \in At(p) : drive[j].ver = v)
       => journal[p] = NoEntry \/ journal[p] = [r |-> v, l |-> v, md5 |-> TRUE]
OutOfStep(p, v) ==
    /\ pc \in {"upload", "kept", "fetch", "taken"} /\ p = Item.path => Absent(p, v)
    /\ pc = "record" /\ p = Item.path /\ (\E j \in At(p) : drive[j].ver = v)
          => local[p] = v /\ Item.c = v /\ Item.md5
BinClaim(p, v) == OnDisk(p, v) /\ NoConflict(p, v) /\ Recorded(p, v) /\ OutOfStep(p, v)
BinDisk ==
    \A p \in Paths \ Nested : \A id \in Ids : Applied(id, p) => BinClaim(p, drive[id].ver)

BinParts == BinDrive /\ BinList /\ BinAgain /\ BinStart /\ BinDisk
BinInv == Quiet => BinParts

\* Steps on Drive: at p id gets content c, goes to the bin or is moved aside.
Changed(id, f) ==
    head' = head + 1 /\ drive'[id] = f /\ \A j \in Ids \ {id} : drive'[j] = drive[j]
Written(id, p, c) ==
    /\ At(p) \subseteq {id}
    /\ drive[id].state = "unborn" \/ id \in At(p)
    /\ Changed(id, [state |-> "live", path |-> p, ver |-> c, seq |-> head + 1])
Thrown(id, p) ==
    /\ At(p) = {id}
    /\ Changed(id, [state |-> "trashed", path |-> p, ver |-> drive[id].ver, seq |-> head + 1])
Shifted(id, p) ==
    /\ At(p) = {id}
    /\ Changed(id, [state |-> "live", path |-> Aside, ver |-> drive[id].ver, seq |-> head + 1])

\* The remote user.
LEMMA BinUser ==
  ASSUME TypeInv, DriveInv, Quiet, BinDrive, RemoteUser
  PROVE  /\ UNCHANGED <<diskVars, memVars, setup, floor>>
         /\ \E id \in Ids, p \in Paths : Written(id, p, Fresh) \/ Thrown(id, p)
<1>1. PICK id \in Ids :
         \/ \E p \in Paths : RemoteCreate(id, p)
         \/ RemoteEdit(id) \/ RemoteTrash(id)
  BY DEF RemoteUser, Quiet, RemoteMove, RemoteRemove, UserTurn
<1>2. drive \in [Ids -> Files] /\ drive[id] \in Files
  BY DEF TypeInv
<1>3. Live(id) /\ drive[id].path # Aside => drive[id].path \in Paths /\ At(drive[id].path) = {id}
  <2>1. Live(id) /\ drive[id].path # Aside => drive[id].path \in Paths
    BY <1>2 DEF Files, DriveInv
  <2> QED BY <2>1 DEF DriveInv, At
<1>4. \A st, p, c : Change(id, st, p, c) =>
         Changed(id, [state |-> st, path |-> p, ver |-> c, seq |-> head + 1]) /\ UNCHANGED <<setup, floor>>
  BY <1>2 DEF Change, Changed
<1>5. ASSUME NEW p \in Paths, RemoteCreate(id, p) PROVE Written(id, p, Fresh)
  <2>1. Change(id, "live", p, Fresh) /\ At(p) = {} /\ drive[id].state = "unborn"
    BY <1>5 DEF RemoteCreate, Unborn
  <2> QED BY <1>4, <2>1 DEF Written
<1>6. ASSUME RemoteEdit(id) PROVE drive[id].path \in Paths /\ Written(id, drive[id].path, Fresh)
  <2>1. Change(id, "live", drive[id].path, Fresh) /\ Live(id) /\ drive[id].path # Aside
    BY <1>6 DEF RemoteEdit
  <2> QED BY <1>3, <1>4, <2>1 DEF Written
<1>7. ASSUME RemoteTrash(id) PROVE drive[id].path \in Paths /\ Thrown(id, drive[id].path)
  <2>1. Change(id, "trashed", drive[id].path, drive[id].ver) /\ Live(id) /\ drive[id].path # Aside
    BY <1>7 DEF RemoteTrash
  <2> QED BY <1>3, <1>4, <2>1 DEF Thrown
<1>8. UNCHANGED <<diskVars, memVars, setup, floor>>
  BY <1>1 DEF RemoteCreate, RemoteEdit, RemoteTrash, Change
<1> QED
  BY <1>1, <1>5, <1>6, <1>7, <1>8

\* The steps of the poll that change Drive.
LEMMA BinLocalWins ==
  ASSUME TypeInv, DriveInv, LocalWins
  PROVE  \/ UNCHANGED <<setup, drive, head, floor>> /\ ItemDone(TRUE)
         \/ /\ UNCHANGED <<setup, floor>> /\ ItemGoesTo("upload")
            /\ \E id \in Ids : Shifted(id, Item.path)
<1>1. items # {} /\ Item.path \in Paths
  BY ItemTyped DEF LocalWins, InProgress
<1>2. CASE MoveAside(Item.path) /\ ItemGoesTo("upload")
  <2>1. PICK id \in At(Item.path) : Change(id, "live", Aside, drive[id].ver)
    BY <1>2 DEF MoveAside
  <2>2. id \in Ids /\ At(Item.path) = {id}
    BY <1>1, <2>1, RemoteIs DEF At
  <2>3. Changed(id, [state |-> "live", path |-> Aside, ver |-> drive[id].ver, seq |-> head + 1])
    BY <2>1, <2>2 DEF Change, Changed, TypeInv
  <2> QED BY <1>2, <2>1, <2>2, <2>3 DEF Shifted, Change
<1> QED BY <1>2 DEF LocalWins, driveVars

LEMMA BinUpload ==
  ASSUME TypeInv, DriveInv, TurnInv, UploadWinner
  PROVE  \/ UNCHANGED <<setup, drive, head, floor>> /\ ItemDone(TRUE)
         \/ /\ UNCHANGED <<setup, floor>> /\ ItemGoesTo("kept")
            /\ \E id \in Ids : Written(id, Item.path, local[Item.path])
<1>1. items # {} /\ Item.path \in Paths
  BY ItemTyped DEF UploadWinner, TypeInv, Busy
<1>2. CASE CopyFile(Item.path, local[Item.path]) /\ ItemGoesTo("kept")
  <2>1. PICK id \in Ids : /\ Change(id, "live", Item.path, local[Item.path])
                          /\ id \in At(Item.path) \/ (At(Item.path) = {} /\ id \in Unborn)
    BY <1>2 DEF CopyFile, At, Unborn
  <2>2. At(Item.path) \subseteq {id}
    BY <1>1, <2>1, RemoteIs
  <2>3. Changed(id, [state |-> "live", path |-> Item.path, ver |-> local[Item.path], seq |-> head + 1])
    BY <2>1 DEF Change, Changed, TypeInv
  <2> QED BY <1>2, <2>1, <2>2, <2>3 DEF Written, Change, Unborn
<1> QED BY <1>2 DEF UploadWinner, driveVars

\* What is at a path after such a step.
LEMMA WrittenAt ==
  ASSUME TypeInv, NEW id \in Ids, NEW p \in Paths, NEW c, Written(id, p, c), NEW q \in Paths
  PROVE  /\ q = p => At(q)' = {id} /\ drive'[id].ver = c /\ drive'[id].seq = head + 1
         /\ q # p => At(q)' = At(q) /\ \A j \in At(q) : drive'[j] = drive[j]
         /\ \A a \in Ids : (Binned(a, q)' <=> Binned(a, q)) /\ (Binned(a, q) => drive'[a] = drive[a])
<1>1. /\ drive'[id].state = "live" /\ drive'[id].path = p /\ drive'[id].ver = c /\ drive'[id].seq = head + 1
      /\ \A j \in Ids \ {id} : drive'[j] = drive[j]
      /\ At(p) \subseteq {id} /\ (drive[id].state = "unborn" \/ id \in At(p))
  BY DEF Written, Changed
<1>2. drive[id].state # "trashed" /\ (Live(id) => drive[id].path = p)
  BY <1>1 DEF At, Live
<1> QED BY <1>1, <1>2 DEF At, Live, Binned

LEMMA ThrownAt ==
  ASSUME TypeInv, NEW id \in Ids, NEW p \in Paths, Thrown(id, p), NEW q \in Paths
  PROVE  /\ q = p => At(q)' = {}
         /\ q # p => At(q)' = At(q) /\ \A j \in At(q) : drive'[j] = drive[j]
         /\ Binned(id, p)' /\ drive'[id].seq = head + 1 /\ drive'[id].ver = drive[id].ver
         /\ \A a \in Ids \ {id} : (Binned(a, q)' <=> Binned(a, q)) /\ drive'[a] = drive[a]
<1>1. /\ drive'[id].state = "trashed" /\ drive'[id].path = p
      /\ drive'[id].seq = head + 1 /\ drive'[id].ver = drive[id].ver
      /\ \A j \in Ids \ {id} : drive'[j] = drive[j]
      /\ At(p) = {id}
  BY DEF Thrown, Changed
<1>2. drive[id].state = "live" /\ drive[id].path = p
  <2>1. id \in At(p)
    BY <1>1
  <2> QED BY <2>1 DEF At, Live
<1>3. \A j \in Ids : (j \in At(q))' <=> (j # id /\ j \in At(q))
  BY <1>1, <1>2 DEF At, Live
<1>4. At(q) \subseteq Ids /\ At(q)' \subseteq Ids
  BY DEF At
<1>5. q = p => At(q)' = {}
  BY <1>1, <1>3, <1>4
<1>6. q # p => At(q)' = At(q) /\ \A j \in At(q) : drive'[j] = drive[j]
  <2>1. q # p => id \notin At(q)
    BY <1>2 DEF At
  <2> QED BY <1>1, <1>3, <1>4, <2>1
<1>7. Binned(id, p)'
  BY <1>1 DEF Binned
<1>8. \A a \in Ids \ {id} : (Binned(a, q)' <=> Binned(a, q)) /\ drive'[a] = drive[a]
  BY <1>1 DEF Binned
<1> QED BY <1>1, <1>5, <1>6, <1>7, <1>8

LEMMA ShiftedAt ==
  ASSUME TypeInv, NEW id \in Ids, NEW p \in Paths, Shifted(id, p), NEW q \in Paths
  PROVE  /\ q = p => At(q)' = {}
         /\ q # p => At(q)' = At(q) /\ \A j \in At(q) : drive'[j] = drive[j]
         /\ \A a \in Ids : (Binned(a, q)' <=> Binned(a, q)) /\ (Binned(a, q) => drive'[a] = drive[a])
<1>1. /\ drive'[id].state = "live" /\ drive'[id].path = Aside
      /\ \A j \in Ids \ {id} : drive'[j] = drive[j]
      /\ At(p) = {id}
  BY DEF Shifted, Changed
<1>2. drive[id].state = "live" /\ drive[id].path = p /\ Aside \notin Paths
  <2>1. id \in At(p)
    BY <1>1
  <2> QED BY <2>1, PullAssumption DEF At, Live
<1>3. \A j \in Ids : (j \in At(q))' <=> (j # id /\ j \in At(q))
  BY <1>1, <1>2 DEF At, Live
<1>4. At(q) \subseteq Ids /\ At(q)' \subseteq Ids
  BY DEF At
<1>5. q = p => At(q)' = {}
  BY <1>1, <1>3, <1>4
<1>6. q # p => At(q)' = At(q) /\ \A j \in At(q) : drive'[j] = drive[j]
  <2>1. q # p => id \notin At(q)
    BY <1>2 DEF At
  <2> QED BY <1>1, <1>3, <1>4, <2>1
<1>7. \A a \in Ids : (Binned(a, q)' <=> Binned(a, q)) /\ (Binned(a, q) => drive'[a] = drive[a])
  BY <1>1, <1>2 DEF Binned
<1> QED BY <1>5, <1>6, <1>7

\* The steps on Drive that a quiet behaviour has.
QuietStep ==
    /\ floor' = floor
    /\ \/ UNCHANGED <<drive, head>>
       \/ \E id \in Ids, p \in Paths :
             \/ Thrown(id, p) \/ Shifted(id, p)
             \/ \E c \in 1..(2 * (head + 1)) : Written(id, p, c)

\* A changed id is the last in the feed.
LEMMA QuietMoved ==
  ASSUME TypeInv, QuietStep, NEW id \in Ids
  PROVE  drive'[id] = drive[id] \/ (drive'[id].seq = head + 1 /\ head' = head + 1)
<1>1. ASSUME NEW k \in Ids, NEW p \in Paths, NEW c,
             Thrown(k, p) \/ Shifted(k, p) \/ Written(k, p, c)
      PROVE  drive'[id] = drive[id] \/ (drive'[id].seq = head + 1 /\ head' = head + 1)
  BY <1>1 DEF Thrown, Shifted, Written, Changed
<1> QED BY <1>1 DEF QuietStep

LEMMA QuietDrive ==
  ASSUME TypeInv, DriveInv, BinDrive, QuietStep
  PROVE  BinDrive'
<1>1. CASE UNCHANGED <<drive, head>>
  BY <1>1 DEF BinDrive, QuietStep, Binned, At, Live
<1>2. ASSUME NEW id \in Ids, NEW p \in Paths,
             \/ Thrown(id, p) \/ Shifted(id, p)
             \/ \E c \in 1..(2 * (head + 1)) : Written(id, p, c)
      PROVE  BinDrive'
  <2>1. head \in Nat /\ head' = head + 1 /\ floor' = 0
    BY <1>2 DEF TypeInv, Thrown, Shifted, Written, Changed, QuietStep, BinDrive
  <2>2. \A j \in Ids : drive[j] \in Files /\ drive[j].seq \in 0..head /\ drive[j].ver \in Nat
    BY DEF TypeInv, Files, Known
  <2> DEFINE fields == /\ \A j \in Ids \ {id} : drive'[j] = drive[j]
                       /\ drive'[id].seq = head + 1 /\ drive'[id].state \in {"live", "trashed"}
                       /\ drive'[id].state = "trashed" => drive'[id].path = p /\ Thrown(id, p)
  <2>a. Thrown(id, p) => fields
    BY DEF Thrown, Changed
  <2>b. Shifted(id, p) => fields
    BY DEF Shifted, Changed
  <2>c. ASSUME NEW c, Written(id, p, c) PROVE fields
    BY <2>c DEF Written, Changed
  <2>3. fields
    BY <1>2, <2>a, <2>b, <2>c
  <2>4. drive'[id].ver # 0 /\ drive'[id].ver <= 2 * head' /\ drive'[id].ver \in Nat
    <3>1. CASE Thrown(id, p) \/ Shifted(id, p)
      <4>0. drive'[id].ver = drive[id].ver /\ id \in At(p)
        BY <3>1 DEF Thrown, Shifted, Changed
      <4>1. drive'[id].ver = drive[id].ver /\ Live(id)
        BY <4>0 DEF At
      <4>2. drive[id].ver # 0 /\ drive[id].ver <= 2 * head
        BY <4>1 DEF BinDrive, DriveInv
      <4> QED BY <2>1, <2>2, <4>1, <4>2
    <3>2. ASSUME NEW c \in 1..(2 * (head + 1)), Written(id, p, c) PROVE drive'[id].ver = c
      BY <3>2 DEF Written, Changed
    <3> QED BY <1>2, <2>1, <3>1, <3>2
  <2>5. drive'[id].state = "trashed" => drive'[id].path = p
    BY <2>3
  <2>6. \A j \in Ids : /\ drive'[j].state # "removed" /\ drive'[j].ver <= 2 * head'
                       /\ drive'[j].state # "unborn" => drive'[j].ver # 0 /\ drive'[j].seq # 0
                       /\ drive'[j].state = "trashed" => drive'[j].path \in Paths
    <3> SUFFICES ASSUME NEW j \in Ids
                 PROVE  /\ drive'[j].state # "removed" /\ drive'[j].ver <= 2 * head'
                        /\ drive'[j].state # "unborn" => drive'[j].ver # 0 /\ drive'[j].seq # 0
                        /\ drive'[j].state = "trashed" => drive'[j].path \in Paths
      OBVIOUS
    <3>1. CASE j = id
      BY <2>1, <2>3, <2>4, <2>5, <3>1
    <3>2. CASE j # id
      <4>1. /\ drive[j].state # "removed" /\ drive[j].ver <= 2 * head /\ drive'[j] = drive[j]
            /\ drive[j].state # "unborn" => drive[j].ver # 0 /\ drive[j].seq # 0
            /\ drive[j].state = "trashed" => drive[j].path \in Paths
        BY <2>3, <3>2 DEF BinDrive
      <4>2. drive[j].ver <= 2 * head'
        BY <2>1, <2>2, <4>1
      <4> QED BY <4>1, <4>2
    <3> QED BY <3>1, <3>2
  <2>7. \A i, j \in Ids : drive'[i].seq = drive'[j].seq /\ drive'[i].seq # 0 => i = j
    <3>1. \A j \in Ids : j # id => drive'[j].seq < head + 1
      BY <2>1, <2>2, <2>3
    <3>2. \A i, j \in Ids : drive[i].seq = drive[j].seq /\ drive[i].seq # 0 => i = j
      BY DEF BinDrive
    <3> QED BY <2>1, <2>3, <3>1, <3>2
  <2>8. ASSUME NEW i \in Ids, NEW j \in Ids, NEW q \in Paths, Binned(i, q)', (j \in At(q))'
        PROVE  drive'[i].seq < drive'[j].seq
    <3>1. drive'[i].state = "trashed" /\ drive'[i].path = q /\ drive'[j].state = "live" /\ drive'[j].path = q
      BY <2>8 DEF Binned, At, Live
    <3>2. CASE j = id
      <4>1. i # id
        BY <3>1, <3>2
      <4> QED BY <2>1, <2>2, <2>3, <3>2, <4>1
    <3>3. CASE j # id /\ i # id
      <4>1. Binned(i, q) /\ j \in At(q) /\ drive'[i] = drive[i] /\ drive'[j] = drive[j]
        BY <2>3, <3>1, <3>3 DEF Binned, At, Live
      <4> QED BY <4>1 DEF BinDrive
    <3>4. CASE j # id /\ i = id
      <4>1. Thrown(id, p) /\ q = p
        BY <2>3, <3>1, <3>4
      <4>2. At(q)' = {}
        BY <4>1, ThrownAt
      <4> QED BY <2>8, <4>2
    <3> QED BY <3>2, <3>3, <3>4
  <2> QED BY <2>1, <2>6, <2>7, <2>8 DEF BinDrive
<1> QED BY <1>1, <1>2 DEF QuietStep

\* The steps of a quiet behaviour: the remote user's, those that handle the
\* current change, and those of the poll around them.
UserStep ==
    /\ UNCHANGED <<diskVars, memVars, setup, floor>>
    /\ \E id \in Ids, p \in Paths : Written(id, p, Fresh) \/ Thrown(id, p)
ItemStep ==
    \/ ProcessDelete \/ Forget \/ SkipUnchanged \/ Download \/ Record
    \/ LocalWins \/ UploadWinner \/ RemoteWins \/ FetchWinner \/ RecordConflict
PollStep == PollBegin \/ Walk \/ PollChanges \/ Persist \/ ListFails \/ Restart

LEMMA QuietNext ==
  ASSUME IndInv, Quiet, BinDrive, BinList, [Next]_vars
  PROVE  UNCHANGED vars \/ UserStep \/ PollStep \/ ItemStep
<1>1. TypeInv /\ DriveInv /\ TurnInv /\ floor = 0 /\ pc # "bisync" /\ diffs = {} /\ token.pos \in Nat
  BY DEF IndInv, BinDrive, BinList, TurnInv, TypeInv
<1>2. ~Passes /\ "gone" \notin Faults
  BY DEF Quiet
<1>3. ~Expire /\ ~PollGone /\ ~BisyncSteps
  BY <1>1, <1>2 DEF Expire, PollGone, TokenRefused, BisyncSteps, BisyncDiff
<1>4. RemoteUser => UserStep
  BY <1>1, BinUser DEF UserStep
<1> QED
  BY <1>3, <1>4 DEF Next, PullSteps, PollStep, ItemStep

\* The steps that finish with the current change, or take it further.
Onward ==
    \/ items' = items /\ pc' \in Busy
    \/ items' = items \ {Item} /\ pc' = "process" /\ (Item.del => Forget)
ItemFrame ==
    /\ Processing /\ items # {}
    /\ UNCHANGED <<setup, floor, token, next, diffs>>
    /\ Onward

LEMMA ItemFrames ==
  ASSUME TypeInv, TurnInv, Quiet, ItemStep
  PROVE  ItemFrame
<1> USE DEF ItemFrame, Onward, Processing
<1>0. "file" \notin Faults /\ (pc \in Busy => items # {})
  BY DEF Quiet, TypeInv
<1>1. pc \in Busy \ {"forget"} => ~Item.del
  BY DEF TurnInv
<1>2. CASE ProcessDelete
  BY <1>0, <1>2 DEF ProcessDelete, InProgress, ItemGoesTo, driveVars, Busy
<1>3. CASE Forget
  BY <1>0, <1>3 DEF Forget, ItemDone, driveVars, Busy
<1>4. CASE SkipUnchanged
  BY <1>4 DEF SkipUnchanged, InProgress, ItemDone, driveVars, diskVars
<1>5. CASE Download
  BY <1>5 DEF Download, InProgress, ItemDone, ItemGoesTo, driveVars, Busy
<1>6. CASE Record
  BY <1>0, <1>1, <1>6 DEF Record, ItemDone, driveVars, Busy
<1>7. CASE LocalWins
  <2>1. UNCHANGED <<setup, floor>>
    BY <1>7 DEF LocalWins, MoveAside, Change, driveVars
  <2> QED BY <1>7, <2>1 DEF LocalWins, InProgress, ItemDone, ItemGoesTo, diskVars, Busy
<1>8. CASE UploadWinner
  <2>1. UNCHANGED <<setup, floor>>
    BY <1>8 DEF UploadWinner, CopyFile, Change, driveVars
  <2> QED BY <1>0, <1>1, <1>8, <2>1 DEF UploadWinner, ItemDone, ItemGoesTo, diskVars, Busy
<1>9. CASE RemoteWins
  BY <1>0, <1>9 DEF RemoteWins, InProgress, ItemGoesTo, driveVars, Busy
<1>10. CASE FetchWinner
  BY <1>0, <1>1, <1>10 DEF FetchWinner, ItemDone, ItemGoesTo, driveVars, Busy
<1>11. CASE RecordConflict
  BY <1>0, <1>1, <1>11 DEF RecordConflict, ItemDone, driveVars, Busy
<1> QED
  BY <1>2, <1>3, <1>4, <1>5, <1>6, <1>7, <1>8, <1>9, <1>10, <1>11 DEF ItemStep

\* They touch the path of the current change only: on disk ...
ItemDisk ==
    /\ \A q \in Paths \ {Item.path} : local'[q] = local[q] /\ journal'[q] = journal[q]
    /\ local'[Item.path] \in {local[Item.path], 0, RemoteAt(Item.path), 2 * head + 1}

LEMMA ItemDisks ==
  ASSUME TypeInv, TurnInv, Quiet, ItemStep
  PROVE  ItemDisk
<1>0. local \in [Paths -> Known] /\ journal \in [Paths -> KnownEntries \union {NoEntry}] /\ Item.path \in Paths
  BY ItemFrames, ItemTyped DEF ItemFrame, TypeInv
<1>1. \/ local' = local
      \/ local' = [local EXCEPT ![Item.path] = 0]
      \/ local' = [local EXCEPT ![Item.path] = RemoteAt(Item.path)]
      \/ local' = [local EXCEPT ![Item.path] = 2 * head + 1]
  BY DEF ItemStep, ProcessDelete, Forget, SkipUnchanged, Download, Record, LocalWins, UploadWinner,
         RemoteWins, FetchWinner, RecordConflict, DownloadFile, DownloadFails, diskVars
<1>2. journal' = journal \/ \E e : journal' = [journal EXCEPT ![Item.path] = e]
  BY DEF ItemStep, ProcessDelete, Forget, SkipUnchanged, Download, Record, LocalWins, UploadWinner,
         RemoteWins, FetchWinner, RecordConflict, diskVars
<1>3. \A q \in Paths \ {Item.path} : local'[q] = local[q]
  BY <1>0, <1>1
<1>4. \A q \in Paths \ {Item.path} : journal'[q] = journal[q]
  BY <1>0, <1>2
<1>5. local'[Item.path] \in {local[Item.path], 0, RemoteAt(Item.path), 2 * head + 1}
  BY <1>0, <1>1
<1> QED BY <1>3, <1>4, <1>5 DEF ItemDisk

\* ... and on Drive.
ItemDrive ==
    \/ UNCHANGED <<drive, head>>
    \/ LocalWins /\ pc' = "upload" /\ \E k \in Ids : Shifted(k, Item.path)
    \/ /\ UploadWinner /\ pc = "upload" /\ local[Item.path] # 0
       /\ \E k \in Ids : Written(k, Item.path, local[Item.path])

LEMMA ItemDrives ==
  ASSUME TypeInv, DriveInv, TurnInv, ItemStep
  PROVE  ItemDrive
<1>1. CASE LocalWins
  BY <1>1, BinLocalWins DEF ItemDrive, ItemGoesTo
<1>2. CASE UploadWinner
  <2>1. pc = "upload" /\ local[Item.path] # 0
    BY <1>2 DEF UploadWinner, TurnInv
  <2> QED BY <1>2, <2>1, BinUpload DEF ItemDrive
<1>3. CASE ~LocalWins /\ ~UploadWinner
  BY <1>3 DEF ItemStep, ItemDrive, ProcessDelete, Forget, SkipUnchanged, Download, Record,
         RemoteWins, FetchWinner, RecordConflict, driveVars
<1> QED BY <1>1, <1>2, <1>3

\* What a step may put at p: on disk what Drive has there, nothing or a cut-off
\* file, on Drive a fresh version or the local one.
Moves(p) ==
    /\ local'[p] \in {local[p], 0, RemoteAt(p), 2 * head + 1}
    /\ \A j \in At(p)' : \/ j \in At(p) /\ drive'[j] = drive[j]
                         \/ drive'[j].ver = Fresh
                         \/ pc = "upload" /\ p = Item.path /\ drive'[j].ver = local[p]
QuietMoves == UNCHANGED setup /\ QuietStep /\ \A p \in Paths : Moves(p)

LEMMA PollSame ==
  ASSUME UNCHANGED vars \/ PollStep
  PROVE  UNCHANGED <<setup, drive, head, floor, local, journal>>
BY DEF PollStep, PollBegin, Walk, PollChanges, Persist, ListFails, Restart, driveVars, diskVars, memVars, vars

LEMMA MovesWritten ==
  ASSUME TypeInv, NEW id \in Ids, NEW p \in Paths, NEW c, Written(id, p, c),
         c = Fresh \/ (pc = "upload" /\ p = Item.path /\ c = local[p]), NEW q \in Paths,
         local'[q] \in {local[q], 0, RemoteAt(q), 2 * head + 1}
  PROVE  Moves(q)
<1>1. CASE q = p
  <2>1. At(q)' = {id} /\ drive'[id].ver = c
    BY <1>1, WrittenAt
  <2> QED BY <1>1, <2>1 DEF Moves
<1>2. CASE q # p
  <2>1. At(q)' = At(q) /\ \A j \in At(q) : drive'[j] = drive[j]
    BY <1>2, WrittenAt
  <2> QED BY <2>1 DEF Moves
<1> QED BY <1>1, <1>2

LEMMA MovesGone ==
  ASSUME TypeInv, NEW id \in Ids, NEW p \in Paths, Thrown(id, p) \/ Shifted(id, p),
         NEW q \in Paths, local'[q] \in {local[q], 0, RemoteAt(q), 2 * head + 1}
  PROVE  Moves(q)
<1>1. CASE q = p
  <2>1. At(q)' = {}
    BY <1>1, ThrownAt, ShiftedAt
  <2> QED BY <2>1 DEF Moves
<1>2. CASE q # p
  <2>1. At(q)' = At(q) /\ \A j \in At(q) : drive'[j] = drive[j]
    BY <1>2, ThrownAt, ShiftedAt
  <2> QED BY <2>1 DEF Moves
<1> QED BY <1>1, <1>2

LEMMA QuietAll ==
  ASSUME TypeInv, DriveInv, TurnInv, Quiet,
         UNCHANGED vars \/ UserStep \/ PollStep \/ ItemStep
  PROVE  QuietMoves
<1>0. head \in Nat /\ local \in [Paths -> Known]
  BY DEF TypeInv
<1>1. CASE UNCHANGED vars \/ PollStep
  <2>1. UNCHANGED <<setup, drive, head, floor, local, journal>>
    BY <1>1, PollSame
  <2>2. \A p : At(p)' = At(p)
    BY <2>1 DEF At, Live
  <2> QED BY <2>1, <2>2 DEF QuietMoves, QuietStep, Moves
<1>2. CASE UserStep
  <2>1. UNCHANGED <<local, setup, floor>>
    BY <1>2 DEF UserStep, diskVars
  <2>2. PICK id \in Ids, p \in Paths : Written(id, p, Fresh) \/ Thrown(id, p)
    BY <1>2 DEF UserStep
  <2>3. Fresh \in 1..(2 * (head + 1))
    BY <1>0 DEF Fresh
  <2>4. QuietStep
    BY <2>1, <2>2, <2>3 DEF QuietStep
  <2>5. \A q \in Paths : Moves(q)
    BY <2>1, <2>2, MovesWritten, MovesGone
  <2> QED BY <2>1, <2>4, <2>5 DEF QuietMoves
<1>3. CASE ItemStep
  <2>1. ItemFrame /\ ItemDisk /\ ItemDrive
    BY <1>3, ItemFrames, ItemDisks, ItemDrives
  <2>2. Item.path \in Paths /\ UNCHANGED <<setup, floor>>
    BY <2>1, ItemTyped DEF ItemFrame
  <2>3. \A q \in Paths : local'[q] \in {local[q], 0, RemoteAt(q), 2 * head + 1}
    BY <2>1, <2>2 DEF ItemDisk
  <2>4. CASE UNCHANGED <<drive, head>>
    <3>1. \A p : At(p)' = At(p)
      BY <2>4 DEF At, Live
    <3> QED BY <2>2, <2>3, <2>4, <3>1 DEF QuietMoves, QuietStep, Moves
  <2>5. ASSUME NEW k \in Ids, Shifted(k, Item.path) PROVE QuietMoves
    <3>1. QuietStep
      BY <2>2, <2>5 DEF QuietStep
    <3>2. \A q \in Paths : Moves(q)
      BY <2>2, <2>3, <2>5, MovesGone
    <3> QED BY <2>2, <3>1, <3>2 DEF QuietMoves
  <2>6. ASSUME NEW k \in Ids, Written(k, Item.path, local[Item.path]),
             local[Item.path] # 0, pc = "upload"
      PROVE  QuietMoves
    <3>0. local[Item.path] \in 1..(2 * (head + 1))
      BY <1>0, <2>2, <2>6 DEF Known
    <3>1. QuietStep
      BY <2>2, <2>6, <3>0 DEF QuietStep
    <3>2. \A q \in Paths : Moves(q)
      BY <2>2, <2>3, <2>6, MovesWritten
    <3> QED BY <2>2, <3>1, <3>2 DEF QuietMoves
  <2> QED BY <2>1, <2>4, <2>5, <2>6 DEF ItemDrive
<1> QED BY <1>1, <1>2, <1>3

\* A version that is nowhere stays away, and then nothing is claimed of it.
LEMMA AbsentKept ==
  ASSUME TypeInv, DriveInv, NEW p \in Paths, Moves(p), NEW v \in 1..(2 * head), Absent(p, v)
  PROVE  Absent(p, v)'
<1>1. head \in Nat /\ local[p] # v /\ \A j \in At(p) : drive[j].ver # v
  BY DEF TypeInv, Absent
<1>2. RemoteAt(p) # v
  <2>1. CASE At(p) = {}
    BY <2>1 DEF RemoteAt
  <2>2. ASSUME NEW j \in At(p) PROVE RemoteAt(p) # v
    BY <1>1, RemoteIs
  <2> QED BY <2>1, <2>2
<1>3. local'[p] # v
  BY <1>1, <1>2 DEF Moves
<1>4. Fresh # v
  BY <1>1 DEF Fresh
<1>5. \A j \in At(p)' : drive'[j].ver # v
  BY <1>1, <1>4 DEF Moves
<1> QED BY <1>3, <1>5 DEF Absent

LEMMA AbsentClaim ==
  ASSUME NEW p \in Paths, NEW v, Absent(p, v)'
  PROVE  BinClaim(p, v)'
BY DEF Absent, BinClaim, OnDisk, NoConflict, Recorded, OutOfStep

\* The bin only grows.
LEMMA BinnedKept ==
  ASSUME TypeInv, QuietStep, NEW a \in Ids, NEW q \in Paths, Binned(a, q)
  PROVE  Binned(a, q)' /\ drive'[a] = drive[a]
<1>1. CASE UNCHANGED <<drive, head>>
  BY <1>1 DEF Binned
<1>2. ASSUME NEW k \in Ids, NEW p \in Paths, Thrown(k, p) PROVE Binned(a, q)' /\ drive'[a] = drive[a]
  <2>1. a # k
    <3>1. k \in At(p)
      BY <1>2 DEF Thrown
    <3> QED BY <3>1 DEF At, Live, Binned
  <2> QED BY <1>2, <2>1, ThrownAt
<1>3. ASSUME NEW k \in Ids, NEW p \in Paths, Shifted(k, p) PROVE Binned(a, q)' /\ drive'[a] = drive[a]
  BY <1>3, ShiftedAt
<1>4. ASSUME NEW k \in Ids, NEW p \in Paths, NEW c, Written(k, p, c) PROVE Binned(a, q)' /\ drive'[a] = drive[a]
  BY <1>4, WrittenAt
<1> QED BY <1>1, <1>2, <1>3, <1>4 DEF QuietStep

\* The list.
TokenOrder ==
    /\ pc # "bisync" /\ (pc # "idle" => token.kind # "none")
    /\ Processing => token.pos <= next /\ (token.kind = "start" => next = token.pos)

LEMMA ListFewer ==
  ASSUME TypeInv, QuietStep, BinList, TokenOrder', items' \subseteq items,
         items' = {} \/ token' = token
  PROVE  BinList'
<1>1. CASE items' = {}
  BY <1>1 DEF BinList, TokenOrder
<1>2. CASE token' = token
  <2>1. ASSUME NEW i \in items', NEW id \in Ids, NEW p \in Paths, Binned(id, p)', i.seq = drive'[id].seq
        PROVE  i.del /\ i.path = p
    <3>1. i \in items /\ i.seq \in 0..head /\ head \in Nat
      BY DEF TypeInv, KnownChanges
    <3>2. drive'[id] = drive[id]
      BY <2>1, <3>1, QuietMoved
    <3>3. Binned(id, p)
      BY <2>1, <3>2 DEF Binned
    <3> QED BY <2>1, <3>1, <3>2, <3>3 DEF BinList
  <2>2. token'.kind = "page" => \A i \in items' : i.seq > token'.pos /\ (~i.del => i.md5)
    BY <1>2 DEF BinList
  <2>3. token'.kind = "start" => \A i \in items' : ~i.del
    BY <1>2 DEF BinList
  <2>4. \A i, j \in items' : i.path = j.path /\ i.del /\ ~j.del => i.seq < j.seq
    BY DEF BinList
  <2> QED BY <2>1, <2>2, <2>3, <2>4 DEF BinList, TokenOrder
<1> QED BY <1>1, <1>2

\* A full walk lists what is live.
LEMMA BinWalk ==
  ASSUME TypeInv, DriveInv, BinDrive, BinList, Walk
  PROVE  BinList'
<1>1. /\ pc = "list" /\ token' = token /\ token.kind = "start" /\ next' = token.pos /\ pc' = "process"
      /\ drive' = drive /\ token.pos \in Nat
  BY DEF Walk, driveVars, diskVars, TypeInv
<1>2. ASSUME NEW i \in items'
      PROVE  ~i.del /\ \E k \in Ids : Live(k) /\ i.seq = drive[k].seq
  BY DEF Walk
<1>3. ASSUME NEW i \in items', NEW id \in Ids, NEW p \in Paths, Binned(id, p)' PROVE i.seq # drive'[id].seq
  <2>1. drive[id].state = "trashed"
    BY <1>1, <1>3 DEF Binned
  <2>2. PICK k \in Ids : Live(k) /\ i.seq = drive[k].seq
    BY <1>2
  <2>3. k # id /\ drive[id].seq # 0
    BY <2>1, <2>2 DEF Live, BinDrive
  <2> QED BY <1>1, <2>2, <2>3 DEF BinDrive
<1> QED BY <1>1, <1>2, <1>3 DEF BinList, Processing, Busy

\* The feed lists a path's deletions before the file that has it now.
LEMMA BinChanges ==
  ASSUME TypeInv, DriveInv, BinDrive, BinList, PollChanges
  PROVE  BinList'
<1>1. /\ pc = "list" /\ token' = token /\ token.kind = "page" /\ next' = head /\ pc' = "process"
      /\ drive' = drive /\ token.pos \in Nat /\ head \in Nat /\ token.pos <= head
  BY DEF PollChanges, driveVars, diskVars, TypeInv
<1>2. ASSUME NEW i \in items'
      PROVE  \E k \in Ids : /\ drive[k].seq > token.pos /\ i.seq = drive[k].seq /\ i.path = drive[k].path
                            /\ i.path \in Paths
                            /\ \/ drive[k].state = "trashed" /\ i.del
                               \/ Live(k) /\ ~i.del /\ i.md5
  <2>1. PICK k \in Ids : drive[k].seq > token.pos /\ Translatable(k) /\ i = Translate(k)
    BY DEF PollChanges
  <2>2. drive[k].state # "removed" /\ drive[k] \in Files
    BY DEF BinDrive, TypeInv
  <2>3. drive[k].path \in Paths /\ drive[k].state # "unborn"
    BY <2>1, <2>2, PullAssumption DEF Translatable, DriveInv
  <2>4. drive[k].state \in {"live", "trashed"}
    BY <2>2, <2>3 DEF Files
  <2> QED BY <2>1, <2>2, <2>3, <2>4 DEF Translate, Live
<1>3. ASSUME NEW i \in items', NEW id \in Ids, NEW p \in Paths, Binned(id, p)', i.seq = drive'[id].seq
      PROVE  i.del /\ i.path = p
  <2>1. drive[id].state = "trashed" /\ drive[id].path = p /\ i.seq = drive[id].seq /\ drive[id].seq # 0
    BY <1>1, <1>3 DEF Binned, BinDrive
  <2>2. PICK k \in Ids : /\ i.seq = drive[k].seq /\ i.path = drive[k].path
                         /\ (drive[k].state = "trashed" /\ i.del) \/ Live(k)
    BY <1>2
  <2>3. k = id
    BY <2>1, <2>2 DEF BinDrive
  <2> QED BY <2>1, <2>2, <2>3 DEF Live
<1>4. ASSUME NEW i \in items', NEW j \in items', i.path = j.path, i.del, ~j.del
      PROVE  i.seq < j.seq
  <2>1. PICK k \in Ids : drive[k].state = "trashed" /\ i.seq = drive[k].seq /\ i.path = drive[k].path /\ i.path \in Paths
    BY <1>2, <1>4
  <2>2. PICK m \in Ids : Live(m) /\ j.seq = drive[m].seq /\ j.path = drive[m].path
    BY <1>2, <1>4
  <2>3. Binned(k, i.path) /\ m \in At(i.path)
    BY <1>4, <2>1, <2>2 DEF Binned, At
  <2> QED BY <2>1, <2>2, <2>3 DEF BinDrive
<1>5. \A i \in items' : i.seq > token'.pos /\ (~i.del => i.md5)
  BY <1>1, <1>2
<1>6. pc' # "bisync" /\ (pc' # "idle" => token'.kind # "none")
  BY <1>1
<1>7. Processing' => token'.pos <= next' /\ (token'.kind = "start" => next' = token'.pos)
  BY <1>1
<1>8. token'.kind # "start"
  BY <1>1
<1> QED BY <1>3, <1>4, <1>5, <1>6, <1>7, <1>8 DEF BinList

LEMMA BinListStep ==
  ASSUME TypeInv, TypeInv', DriveInv, TurnInv, TurnInv', Quiet, BinDrive, BinList, QuietStep,
         UNCHANGED vars \/ UserStep \/ PollStep \/ ItemStep
  PROVE  BinList'
<1>0. TokenOrder /\ token.pos \in Nat /\ next \in Nat /\ (pc \in {"idle", "list"} => items = {})
  BY DEF BinList, TokenOrder, TypeInv, TurnInv
<1>1. CASE UNCHANGED vars \/ UserStep
  <2>1. UNCHANGED <<pc, token, next, items>>
    BY <1>1 DEF UserStep, vars, diskVars, memVars
  <2> QED BY <1>0, <2>1, ListFewer DEF TokenOrder, Processing
<1>2. CASE Walk
  BY <1>2, BinWalk
<1>3. CASE PollChanges
  BY <1>3, BinChanges
<1>4. CASE PollBegin \/ ListFails \/ Restart
  <2>1. TokenOrder'
    BY <1>0, <1>4 DEF PollBegin, ListFails, Restart, TokenOrder, Processing, Busy, diskVars, StartToken
  <2>2. items' = {}
    BY <1>0, <1>4 DEF PollBegin, ListFails, Restart
  <2> QED BY <2>1, <2>2, ListFewer
<1>5. CASE Persist
  <2>1. TokenOrder' /\ items' = {}
    BY <1>5 DEF Persist, TokenOrder, Processing, Busy
  <2> QED BY <2>1, ListFewer
<1>6. CASE ItemStep
  <2>1. ItemFrame
    BY <1>6, ItemFrames
  <2>2. TokenOrder' /\ items' \subseteq items /\ token' = token
    BY <1>0, <2>1 DEF ItemFrame, Onward, TokenOrder, Processing, Busy
  <2> QED BY <2>2, ListFewer
<1> QED BY <1>1, <1>2, <1>3, <1>4, <1>5, <1>6 DEF PollStep

\* Deletions are applied one by one, by Forget.
Back(p) == \A a \in Ids : Applied(a, p)' => Applied(a, p) /\ drive'[a] = drive[a]

LEMMA BackKept ==
  ASSUME TypeInv, QuietStep, NEW p \in Paths, token'.pos \in 0..head, next' \in 0..head,
         \A a \in Ids : /\ Binned(a, p) /\ drive[a].seq <= Reach'
                        /\ \A i \in items' : i.seq # drive[a].seq
                        => drive[a].seq <= Reach /\ \A i \in items : i.seq # drive[a].seq
  PROVE  Back(p)
<1> SUFFICES ASSUME NEW a \in Ids, Applied(a, p)' PROVE Applied(a, p) /\ drive'[a] = drive[a]
  BY DEF Back
<1>1. head \in Nat /\ Reach' \in 0..head
  BY DEF TypeInv, Reach
<1>2. Binned(a, p)' /\ drive'[a].seq <= Reach' /\ \A i \in items' : i.seq # drive'[a].seq
  BY DEF Applied
<1>3. drive'[a] = drive[a]
  BY <1>1, <1>2, QuietMoved
<1>4. Binned(a, p)
  BY <1>2, <1>3 DEF Binned
<1> QED BY <1>2, <1>3, <1>4 DEF Applied

LEMMA BackPoll ==
  ASSUME TypeInv, TypeInv', TurnInv, BinDrive, BinList, QuietStep,
         UNCHANGED vars \/ UserStep \/ PollStep, PollBegin => token.kind # "none",
         NEW p \in Paths \ Nested
  PROVE  Back(p)
<1> DEFINE Due(a) == /\ Binned(a, p) /\ drive[a].seq <= Reach'
                     /\ \A i \in items' : i.seq # drive[a].seq
           Done(a) == drive[a].seq <= Reach /\ \A i \in items : i.seq # drive[a].seq
<1>0. /\ head \in Nat /\ token.pos \in 0..head /\ next \in 0..head
      /\ \A a \in Ids : drive[a].seq \in 0..head
      /\ pc \in {"idle", "list"} => items = {}
  BY DEF TypeInv, Files, TurnInv
<1>1. CASE UNCHANGED vars \/ UserStep \/ ListFails \/ PollBegin
  <2>1. items' = items /\ token' = token /\ next' = next
    BY <1>1 DEF UserStep, vars, diskVars, memVars, ListFails, PollBegin
  <2>2. Processing' <=> Processing
    BY <1>1 DEF UserStep, vars, memVars, ListFails, PollBegin, Processing, Busy
  <2>3. Reach' = Reach
    BY <2>1, <2>2 DEF Reach
  <2>4. \A a \in Ids : Due(a) => Done(a)
    BY <2>1, <2>3
  <2> QED BY <1>0, <2>1, <2>4, BackKept
<1>2. CASE Walk
  <2>1. /\ items = {} /\ token' = token /\ Reach = token.pos /\ Reach' = token.pos /\ next' = token.pos
    BY <1>0, <1>2 DEF Walk, diskVars, Reach, Processing, Busy
  <2>2. \A a \in Ids : Due(a) => Done(a)
    BY <2>1
  <2> QED BY <1>0, <2>1, <2>2, BackKept
<1>3. CASE PollChanges
  <2>1. items = {} /\ token' = token /\ Reach = token.pos /\ next' = head /\ drive' = drive
    BY <1>0, <1>3 DEF PollChanges, diskVars, driveVars, Reach, Processing, Busy
  <2>2. ASSUME NEW a \in Ids, Due(a), drive[a].seq > token.pos PROVE FALSE
    <3>1. Translatable(a)
      BY <2>2 DEF Translatable, Binned
    <3>2. Translate(a) \in items'
      BY <1>3, <2>2, <3>1 DEF PollChanges
    <3>3. Translate(a).seq = drive[a].seq
      BY DEF Translate
    <3> QED BY <2>2, <3>2, <3>3
  <2>3. \A a \in Ids : Due(a) => Done(a)
    BY <1>0, <2>1, <2>2
  <2> QED BY <1>0, <2>1, <2>3, BackKept
<1>4. CASE Persist
  <2>1. items = {} /\ token'.pos = next /\ Reach = next /\ Reach' = next /\ next' = next
    BY <1>4 DEF Persist, Page, Reach, Processing, Busy
  <2>2. \A a \in Ids : Due(a) => Done(a)
    BY <2>1
  <2> QED BY <1>0, <2>1, <2>2, BackKept
<1>5. CASE Restart
  <2>1. token' = token /\ next' = 0 /\ Reach' = token.pos
    BY <1>5 DEF Restart, diskVars, Reach, Processing, Busy
  <2>2. token.pos <= Reach
    BY <1>0 DEF Reach, BinList
  <2>3. ASSUME NEW a \in Ids, Due(a), NEW i \in items, i.seq = drive[a].seq PROVE FALSE
    <3>1. i.del
      BY <2>3 DEF BinList
    <3>2. token.kind = "page"
      BY <1>0, <3>1 DEF BinList, TypeInv
    <3>3. drive[a].seq > token.pos
      BY <2>3, <3>2 DEF BinList
    <3> QED BY <1>0, <2>1, <2>3, <3>3
  <2>4. \A a \in Ids : Due(a) => drive[a].seq <= Reach
    <3>1. Reach \in Nat /\ token.pos \in Nat /\ \A a \in Ids : drive[a].seq \in Nat
      BY <1>0 DEF Reach
    <3> QED BY <2>1, <2>2, <3>1
  <2>5. \A a \in Ids : Due(a) => Done(a)
    BY <2>3, <2>4
  <2> QED BY <1>0, <2>1, <2>5, BackKept
<1> QED BY <1>1, <1>2, <1>3, <1>4, <1>5 DEF PollStep

LEMMA BackItem ==
  ASSUME TypeInv, TurnInv, Quiet, BinList, QuietStep, ItemStep,
         NEW p \in Paths, Forget => p # Item.path
  PROVE  Back(p)
<1>1. ItemFrame /\ Item \in items
  BY ItemFrames, ItemTyped DEF ItemFrame
<1>2. token' = token /\ next' = next /\ token.pos \in 0..head /\ next \in 0..head /\ Reach' = Reach
  BY <1>1 DEF ItemFrame, Onward, TypeInv, Reach, Processing
<1>3. ASSUME NEW a \in Ids, Binned(a, p), \A i \in items' : i.seq # drive[a].seq, NEW i \in items
      PROVE  i.seq # drive[a].seq
  <2>1. CASE i \in items'
    BY <1>3, <2>1
  <2>2. CASE i \notin items'
    <3>1. i = Item /\ (i.del => Forget)
      BY <1>1, <2>2 DEF ItemFrame, Onward
    <3> QED BY <1>3, <3>1 DEF BinList
  <2> QED BY <2>1, <2>2
<1> QED BY <1>2, <1>3, BackKept

\* An upload does not bring back a version whose deletion was listed.
LEMMA UploadNew ==
  ASSUME TypeInv, TurnInv, BinList, BinDisk, pc = "upload", Item.path \notin Nested,
         NEW i \in Ids, Binned(i, Item.path), drive[i].seq <= next
  PROVE  drive[i].ver # local[Item.path]
<1>1. Item \in items /\ Item \in KnownChanges /\ Item.path \in Paths /\ items # {}
  BY ItemTyped DEF TypeInv, Busy
<1>2. ~Item.del
  BY DEF TurnInv, Busy
<1>3. \A j \in items : j.seq \in Nat
  BY DEF TypeInv, KnownChanges
<1>4. \A j \in items : Item.seq <= j.seq
  BY <1>1, <1>3, ItemIn
<1>5. ASSUME NEW j \in items, j.seq = drive[i].seq PROVE FALSE
  <2>1. j.del /\ j.path = Item.path
    BY <1>1, <1>5 DEF BinList
  <2>2. j.seq < Item.seq
    BY <1>1, <1>2, <2>1 DEF BinList
  <2> QED BY <1>1, <1>3, <1>4, <2>2
<1>6. Applied(i, Item.path)
  BY <1>5 DEF Applied, Reach, Processing, Busy
<1>7. OutOfStep(Item.path, drive[i].ver)
  BY <1>1, <1>6 DEF BinDisk, BinClaim
<1> QED BY <1>7 DEF OutOfStep, Absent

\* A version in the bin and at its path again.
LEMMA AgainKept ==
  ASSUME TypeInv, DriveInv, TurnInv, BinDrive, BinList, BinDisk, QuietMoves,
         NEW n \in 0..head, Again(n), pc = "upload" => n <= next
  PROVE  Again(n)'
<1> SUFFICES ASSUME NEW p \in Paths \ Nested, NEW i \in Ids, NEW j \in At(p)',
                    Binned(i, p)', drive'[i].seq <= n, drive'[i].ver = drive'[j].ver
             PROVE  drive'[j].seq <= n
  BY DEF Again
<1>1. head \in Nat /\ next \in Nat /\ drive[i] \in Files /\ drive[i].seq \in Nat /\ drive[i].ver \in Nat
  BY DEF TypeInv, Files, Known
<1>2. drive'[i] = drive[i] /\ Binned(i, p)
  <2>1. drive'[i] = drive[i]
    BY <1>1, QuietMoved DEF QuietMoves
  <2> QED BY <2>1 DEF Binned
<1>3. Moves(p)
  BY DEF QuietMoves
<1>4. CASE j \in At(p) /\ drive'[j] = drive[j]
  BY <1>2, <1>4 DEF Again
<1>5. CASE drive'[j].ver = Fresh
  <2>1. drive[i].ver <= 2 * head
    BY DEF BinDrive
  <2> QED BY <1>1, <1>2, <1>5, <2>1 DEF Fresh
<1>6. CASE pc = "upload" /\ p = Item.path /\ drive'[j].ver = local[p]
  <2>1. drive[i].seq <= next
    BY <1>1, <1>2, <1>6
  <2> QED BY <1>2, <1>6, <2>1, UploadNew
<1> QED BY <1>3, <1>4, <1>5, <1>6 DEF Moves

LEMMA BinAgainStep ==
  ASSUME TypeInv, DriveInv, TurnInv, Quiet, BinParts, QuietMoves,
         UNCHANGED vars \/ UserStep \/ PollStep \/ ItemStep
  PROVE  BinAgain'
<1>0. /\ head \in Nat /\ token.pos \in 0..head /\ next \in 0..head
      /\ BinDrive /\ BinList /\ BinDisk /\ BinAgain
  BY DEF TypeInv, BinParts
<1>1. pc = "upload" => token.pos <= next
  BY <1>0 DEF BinList, Processing, Busy
<1>2. PICK k : k = token.pos
  OBVIOUS
<1>3. PICK l : l = next
  OBVIOUS
<1>4. PICK h : h = head
  OBVIOUS
<1>5. Again(k)'
  <2>1. Again(k) /\ k \in 0..head
    BY <1>0, <1>2 DEF BinAgain
  <2>2. pc = "upload" => k <= next
    BY <1>1, <1>2
  <2> QED BY <1>0, <2>1, <2>2, AgainKept
<1>6. Processing => Again(l)'
  <2>1. Processing => Again(l)
    BY <1>0, <1>3 DEF BinAgain
  <2>2. l \in 0..head /\ l <= next
    BY <1>0, <1>3
  <2> QED BY <1>0, <2>1, <2>2, AgainKept
<1>7. UNCHANGED head => Again(h)'
  <2>1. ASSUME UNCHANGED head PROVE \A j \in Ids : drive'[j] = drive[j] /\ drive[j].seq <= h
    <3>1. head' # head + 1
      BY <1>0, <2>1
    <3>2. \A j \in Ids : drive'[j] = drive[j]
      BY <3>1, QuietMoved DEF QuietMoves
    <3> QED BY <1>4, <3>2 DEF TypeInv, Files
  <2> QED BY <2>1 DEF Again, At
<1>8. token'.pos = k \/ (UNCHANGED head /\ token'.pos = h) \/ (Processing /\ token'.pos = l)
  <2>1. CASE UNCHANGED vars \/ UserStep
    BY <2>1, <1>2 DEF UserStep, vars, diskVars
  <2>2. CASE ItemStep
    BY <2>2, <1>2, ItemFrames DEF ItemFrame
  <2>3. CASE PollStep
    BY <2>3, <1>2, <1>3, <1>4 DEF PollStep, PollBegin, Walk, PollChanges, Persist, ListFails, Restart, driveVars,
           diskVars, StartToken, Page, Processing
  <2> QED BY <2>1, <2>2, <2>3
<1>9. Processing' => \/ next' = k \/ (UNCHANGED head /\ next' = h) \/ (Processing /\ next' = l)
  <2>1. CASE UNCHANGED vars \/ UserStep
    BY <2>1, <1>3 DEF UserStep, vars, memVars, Processing
  <2>2. CASE ItemStep
    BY <2>2, <1>3, ItemFrames DEF ItemFrame
  <2>3. CASE PollStep
    BY <2>3, <1>2, <1>4 DEF PollStep, PollBegin, Walk, PollChanges, Persist, ListFails, Restart, driveVars,
           diskVars, Processing, Busy
  <2> QED BY <2>1, <2>2, <2>3
<1>10. Again(token.pos)'
  BY <1>5, <1>6, <1>7, <1>8 DEF Again
<1>11. Processing' => Again(next)'
  BY <1>5, <1>6, <1>7, <1>9 DEF Again
<1> QED BY <1>10, <1>11 DEF BinAgain

\* Versions of before the first walk.
LEMMA NoneStep ==
  ASSUME TypeInv, DriveInv, TurnInv, Quiet, BinParts, QuietMoves,
         UNCHANGED vars \/ UserStep \/ PollStep \/ ItemStep, token'.kind = "none"
  PROVE  /\ token'.pos = 0 /\ \A p \in Paths : local'[p] = 0
         /\ \A i, j \in Ids : drive'[i].state # "unborn" /\ drive'[j].state # "unborn"
                                 /\ drive'[i].ver = drive'[j].ver => i = j
<1>0. head \in Nat /\ BinDrive /\ BinList /\ BinStart
  BY DEF TypeInv, BinParts
<1>1. ~ItemStep
  <2>1. ItemStep => pc # "idle" /\ token' = token
    BY ItemFrames DEF ItemFrame, Processing, Busy
  <2> QED BY <1>0, <2>1 DEF BinList
<1>2. token' = token /\ token.kind = "none" /\ local' = local
  <2>1. CASE UNCHANGED vars \/ UserStep
    BY <2>1 DEF UserStep, vars, diskVars
  <2>2. CASE PollStep
    BY <2>2 DEF PollStep, PollBegin, Walk, PollChanges, Persist, ListFails, Restart, diskVars, StartToken, Page
  <2> QED BY <1>1, <2>1, <2>2
<1>3. /\ token.pos = 0 /\ \A p \in Paths : local[p] = 0
      /\ \A i, j \in Ids : drive[i].state # "unborn" /\ drive[j].state # "unborn"
                              /\ drive[i].ver = drive[j].ver => i = j
  BY <1>0, <1>2 DEF BinStart
<1>4. ASSUME NEW i \in Ids, NEW j \in Ids, drive'[i].state # "unborn", drive'[j].state # "unborn",
             drive'[i].ver = drive'[j].ver
      PROVE  i = j
  <2>0. \A k \in Ids : drive[k].ver <= 2 * head /\ drive[k].ver \in Nat
    BY <1>0 DEF BinDrive, TypeInv, Files, Known
  <2>1. CASE UNCHANGED vars \/ PollStep
    <3>1. drive' = drive
      BY <2>1, PollSame
    <3> QED BY <1>3, <1>4, <3>1
  <2>2. ASSUME NEW id \in Ids, NEW p \in Paths, Written(id, p, Fresh) PROVE i = j
    <3>1. drive'[id].ver = Fresh /\ \A k \in Ids \ {id} : drive'[k] = drive[k]
      BY <2>2 DEF Written, Changed
    <3>2. \A k \in Ids : drive[k].ver # Fresh
      BY <1>0, <2>0 DEF Fresh
    <3> QED BY <1>3, <1>4, <3>1, <3>2
  <2>3. ASSUME NEW id \in Ids, NEW p \in Paths, Thrown(id, p) PROVE i = j
    <3>1. drive'[id].ver = drive[id].ver /\ \A k \in Ids \ {id} : drive'[k] = drive[k]
      BY <2>3 DEF Thrown, Changed
    <3>2. id \in At(p)
      BY <2>3 DEF Thrown
    <3>3. drive[id].state # "unborn"
      BY <3>2 DEF At, Live
    <3> QED BY <1>3, <1>4, <3>1, <3>3
  <2> QED BY <1>1, <2>1, <2>2, <2>3 DEF UserStep
<1> QED BY <1>2, <1>3, <1>4

LEMMA BinStartStep ==
  ASSUME TypeInv, DriveInv, TurnInv, Quiet, BinParts, QuietMoves,
         UNCHANGED vars \/ UserStep \/ PollStep \/ ItemStep
  PROVE  BinStart'
<1>0. /\ head \in Nat /\ token.pos \in 0..head /\ BinDrive /\ BinStart
      /\ \A id \in Ids : drive[id].ver \in Nat /\ drive[id].seq \in Nat
  BY DEF TypeInv, BinParts, Files, Known
<1>1. ASSUME token'.kind = "start", NEW p \in Paths \ Nested, NEW id \in Ids,
             Binned(id, p)', drive'[id].seq <= token'.pos
      PROVE  Absent(p, drive[id].ver)'
  <2>1. token' = token \/ (token.kind = "none" /\ PollBegin)
    <3>1. CASE UNCHANGED vars \/ UserStep
      BY <3>1 DEF UserStep, vars, diskVars
    <3>2. CASE ItemStep
      BY <3>2, ItemFrames DEF ItemFrame
    <3>3. CASE PollStep
      BY <1>1, <3>3 DEF PollStep, PollBegin, Walk, PollChanges, Persist, ListFails, Restart, diskVars, Page
    <3> QED BY <3>1, <3>2, <3>3
  <2>2. CASE token' = token
    <3>1. drive'[id] = drive[id]
      <4>1. drive'[id].seq # head + 1
        BY <1>0, <1>1, <2>2
      <4> QED BY <4>1, QuietMoved DEF QuietMoves
    <3>2. Binned(id, p) /\ drive[id].seq <= token.pos
      BY <1>1, <2>2, <3>1 DEF Binned
    <3>3. PICK v : v = drive[id].ver
      OBVIOUS
    <3>4. v \in 1..(2 * head)
      BY <1>0, <3>2, <3>3 DEF BinDrive, Binned
    <3>5. Absent(p, v)
      BY <1>0, <1>1, <2>2, <3>2, <3>3 DEF BinStart
    <3>6. Absent(p, v)'
      BY <3>4, <3>5, AbsentKept DEF QuietMoves
    <3> QED BY <3>1, <3>3, <3>6 DEF Absent
  <2>3. CASE token.kind = "none" /\ PollBegin
    <3>1. drive' = drive /\ local' = local
      BY <2>3, PollSame DEF PollStep
    <3>2. drive[id].state = "trashed" /\ drive[id].ver # 0
      BY <1>0, <1>1, <3>1 DEF Binned, BinDrive
    <3>3. local[p] = 0
      BY <1>0, <2>3 DEF BinStart
    <3>4. ASSUME NEW j \in At(p) PROVE drive[j].ver # drive[id].ver
      <4>1. j \in Ids /\ drive[j].state = "live"
        BY DEF At, Live
      <4> QED BY <1>0, <2>3, <3>2, <4>1 DEF BinStart
    <3>5. At(p)' = At(p)
      BY <3>1 DEF At, Live
    <3> QED BY <3>1, <3>2, <3>3, <3>4, <3>5 DEF Absent
  <2> QED BY <2>1, <2>2, <2>3
<1> QED BY <1>1, NoneStep DEF BinStart

\* Where a step leaves everything at p as it was.
Untouched(p) ==
    /\ local'[p] = local[p] /\ journal'[p] = journal[p]
    /\ At(p)' = At(p) /\ \A j \in At(p) : drive'[j] = drive[j]
Critical == pc \in {"upload", "kept", "fetch", "taken", "record"}

\* Some deletion at p is due.
DueAt(p) == \E a \in Ids : Binned(a, p) /\ ~Applied(a, p)

LEMMA DueKept ==
  ASSUME TypeInv, QuietStep, NEW p \in Paths, Back(p), DueAt(p)
  PROVE  DueAt(p)'
<1>1. PICK a \in Ids : Binned(a, p) /\ ~Applied(a, p)
  BY DEF DueAt
<1>2. Binned(a, p)' /\ ~Applied(a, p)'
  BY <1>1, BinnedKept DEF Back
<1> QED BY <1>2 DEF DueAt

LEMMA UntouchedClaims ==
  ASSUME TypeInv, QuietStep, NEW p \in Paths, NEW v, Back(p), Untouched(p),
         OnDisk(p, v), NoConflict(p, v), Recorded(p, v)
  PROVE  OnDisk(p, v)' /\ NoConflict(p, v)' /\ Recorded(p, v)'
<1>1. OnDisk(p, v)'
  BY DueKept DEF OnDisk, DueAt, Untouched
<1>2. NoConflict(p, v)'
  BY DEF NoConflict, Untouched
<1>3. Recorded(p, v)'
  BY DEF Recorded, Untouched
<1> QED BY <1>1, <1>2, <1>3

LEMMA UntouchedClaim ==
  ASSUME TypeInv, QuietStep, NEW p \in Paths, NEW v, Back(p), Untouched(p), BinClaim(p, v),
         ~Critical' \/ (items' = items /\ p # Item.path) \/ (items' = items /\ pc' = pc)
  PROVE  BinClaim(p, v)'
<1>1. OnDisk(p, v)' /\ NoConflict(p, v)' /\ Recorded(p, v)'
  BY UntouchedClaims DEF BinClaim
<1>2. OutOfStep(p, v)'
  <2>1. CASE ~Critical'
    BY <2>1 DEF OutOfStep, Critical
  <2>2. CASE items' = items
    <3>1. Item' = Item
      BY <2>2 DEF Item
    <3>2. CASE p # Item.path
      BY <3>1, <3>2 DEF OutOfStep
    <3>3. CASE pc' = pc
      <4>1. Absent(p, v) => Absent(p, v)'
        BY DEF Absent, Untouched
      <4>2. OutOfStep(p, v)
        BY DEF BinClaim
      <4> QED BY <3>1, <3>3, <4>1, <4>2 DEF OutOfStep, Untouched
    <3> QED BY <2>1, <2>2, <3>2, <3>3
  <2> QED BY <2>1, <2>2
<1> QED BY <1>1, <1>2 DEF BinClaim

\* The current change is that of a version which is in the bin and at p again.
LEMMA Announced ==
  ASSUME TypeInv, ItemCurrent, BinList, BinAgain, BinStart, Processing, items # {}, ~Item.del,
         Item.path \notin Nested, NEW id \in Ids, Applied(id, Item.path),
         NEW j \in At(Item.path), drive[j].ver = drive[id].ver
  PROVE  Item.c = drive[id].ver /\ Item.md5
<1>1. Item \in items /\ Item.path \in Paths \ Nested
  BY ItemTyped
<1>2. Binned(id, Item.path) /\ drive[id].seq <= next
  BY DEF Applied, Reach
<1>3. drive[j].seq <= next
  BY <1>1, <1>2 DEF BinAgain, Again
<1>4. j \in Ids /\ Live(j) /\ drive[j].path = Item.path
  BY DEF At
<1>5. Item.c = drive[id].ver
  BY <1>1, <1>3, <1>4 DEF ItemCurrent
<1>6. token.kind # "start"
  <2>1. ASSUME token.kind = "start" PROVE Absent(Item.path, drive[id].ver)
    BY <1>1, <1>2, <2>1 DEF BinList, BinStart
  <2> QED BY <2>1 DEF Absent
<1>7. token.kind = "page"
  BY <1>6 DEF BinList, TypeInv, Processing, Busy
<1> QED BY <1>1, <1>5, <1>7 DEF BinList

\* Each step on the current change, at its path.
LEMMA ClaimDelete ==
  ASSUME TypeInv, DriveInv, Quiet, ProcessDelete, NEW p \in Paths, p = Item.path,
         NEW v, v # 0, BinClaim(p, v)
  PROVE  BinClaim(p, v)'
<1>1. local'[p] = 0 /\ UNCHANGED <<drive, journal>> /\ pc' = "forget"
  BY DEF ProcessDelete, Quiet, ItemGoesTo, driveVars, TypeInv
<1>2. Recorded(p, v)'
  BY <1>1 DEF BinClaim, Recorded, At, Live
<1>3. OutOfStep(p, v)'
  BY <1>1 DEF OutOfStep
<1> QED BY <1>1, <1>2, <1>3 DEF BinClaim, OnDisk, NoConflict

LEMMA ClaimForget ==
  ASSUME TypeInv, TurnInv, Forget, NEW p \in Paths, p = Item.path, NEW v, v # 0
  PROVE  BinClaim(p, v)'
<1>1. local'[p] = 0 /\ journal'[p] = NoEntry /\ pc' = "process"
  BY DEF Forget, ItemDone, TurnInv, TypeInv
<1> QED BY <1>1 DEF BinClaim, OnDisk, NoConflict, Recorded, OutOfStep

LEMMA ClaimRecord ==
  ASSUME TypeInv, Record, QuietStep, NEW p \in Paths, p = Item.path, Back(p), NEW v, BinClaim(p, v)
  PROVE  BinClaim(p, v)'
<1>1. /\ journal'[p] = [r |-> Item.c, l |-> local[p], md5 |-> Item.md5]
      /\ pc = "record" /\ pc' = "process" /\ UNCHANGED <<local, drive>>
  BY DEF Record, ItemDone, TypeInv, driveVars
<1>2. At(p)' = At(p)
  BY <1>1 DEF At, Live
<1>3. OnDisk(p, v)'
  BY <1>1, <1>2, DueKept DEF BinClaim, OnDisk, DueAt
<1>4. NoConflict(p, v)'
  BY <1>1 DEF NoConflict
<1>5. Recorded(p, v)'
  <2>1. ASSUME NEW j \in At(p), drive[j].ver = v PROVE local[p] = v /\ Item.c = v /\ Item.md5
    BY <1>1, <2>1 DEF BinClaim, OutOfStep
  <2>2. ASSUME NEW j \in At(p), drive[j].ver = v PROVE journal'[p] = [r |-> v, l |-> v, md5 |-> TRUE]
    <3>1. Item.md5 \in BOOLEAN
      BY ItemTyped, <1>1 DEF TypeInv, Busy, KnownChanges
    <3>2. Item.md5 = TRUE /\ local[p] = v /\ Item.c = v
      BY <2>1, <2>2, <3>1
    <3> QED BY <1>1, <3>2
  <2> QED BY <1>1, <1>2, <2>2 DEF Recorded
<1>6. OutOfStep(p, v)'
  BY <1>1 DEF OutOfStep
<1> QED BY <1>3, <1>4, <1>5, <1>6 DEF BinClaim

LEMMA ClaimDownload ==
  ASSUME TypeInv, DriveInv, Quiet, Download, QuietStep, NEW p \in Paths, p = Item.path, Back(p),
         NEW v \in 1..(2 * head), BinClaim(p, v),
         \A j \in At(p) : drive[j].ver = v => Item.c = v /\ Item.md5
  PROVE  BinClaim(p, v)'
<1>1. UNCHANGED <<drive, journal>> /\ head \in Nat /\ At(p)' = At(p)
  BY DEF Download, driveVars, At, Live, TypeInv
<1>2. Recorded(p, v) /\ Recorded(p, v)' /\ OnDisk(p, v) /\ NoConflict(p, v)
  BY <1>1 DEF BinClaim, Recorded
<1>3. \/ local'[p] = RemoteAt(p) /\ RemoteAt(p) # 0 /\ pc' = "record" /\ items' = items
      \/ local'[p] = local[p] /\ pc' = "process"
      \/ local'[p] = 2 * head + 1 /\ pc' = "process"
  BY DEF Download, DownloadFile, DownloadFails, ItemGoesTo, ItemDone, TypeInv
<1>4. CASE local'[p] = RemoteAt(p) /\ RemoteAt(p) # 0 /\ pc' = "record" /\ items' = items
  <2>1. PICK j \in At(p) : RemoteAt(p) = drive[j].ver /\ At(p) = {j}
    BY <1>4, RemoteIs
  <2>2. Item' = Item
    BY <1>4 DEF Item
  <2>3. OnDisk(p, v)'
    BY <1>1, <2>1 DEF OnDisk
  <2>4. NoConflict(p, v)'
    BY <1>1, <1>2, <1>4, <2>1 DEF NoConflict, Recorded
  <2>5. OutOfStep(p, v)'
    <3>1. (\E k \in At(p)' : drive'[k].ver = v) => local'[p] = v /\ Item.c = v /\ Item.md5
      BY <1>1, <1>4, <2>1
    <3> QED BY <1>4, <2>2, <3>1 DEF OutOfStep
  <2> QED BY <1>2, <2>3, <2>4, <2>5 DEF BinClaim
<1>5. CASE local'[p] = local[p] /\ pc' = "process"
  BY <1>1, <1>5, UntouchedClaim DEF Untouched, Critical
<1>6. CASE local'[p] = 2 * head + 1 /\ pc' = "process"
  <2>1. local'[p] # v
    BY <1>1, <1>6
  <2> QED BY <1>2, <1>6, <2>1 DEF BinClaim, OnDisk, NoConflict, OutOfStep
<1> QED BY <1>3, <1>4, <1>5, <1>6

LEMMA ClaimLocalWins ==
  ASSUME TypeInv, DriveInv, Quiet, LocalWins, QuietStep, NEW p \in Paths, p = Item.path, Back(p),
         NEW v, v # 0, BinClaim(p, v)
  PROVE  BinClaim(p, v)'
<1>1. UNCHANGED <<local, journal>> /\ journal[p] # NoEntry /\ local[p] # journal[p].l
  BY DEF LocalWins, Conflict, Entry, diskVars
<1>2. local[p] # v
  BY <1>1 DEF BinClaim, NoConflict
<1>3. CASE UNCHANGED <<setup, drive, head, floor>> /\ ItemDone(TRUE)
  <2>1. Untouched(p) /\ ~Critical'
    BY <1>1, <1>3 DEF Untouched, Critical, ItemDone, At, Live
  <2> QED BY <2>1, UntouchedClaim
<1>4. ASSUME NEW k \in Ids, Shifted(k, p) PROVE BinClaim(p, v)'
  <2>1. At(p)' = {}
    BY <1>4, ShiftedAt
  <2>2. Absent(p, v)'
    BY <1>1, <1>2, <2>1 DEF Absent
  <2> QED BY <2>2, AbsentClaim
<1> QED BY <1>3, <1>4, BinLocalWins

LEMMA ClaimRemoteWins ==
  ASSUME TypeInv, Quiet, RemoteWins, NEW p \in Paths, p = Item.path,
         NEW v, v # 0, BinClaim(p, v),
         \A j \in At(p) : drive[j].ver = v => Item.c = v /\ Item.md5
  PROVE  BinClaim(p, v)'
<1>1. /\ local'[p] = 0 /\ drive' = drive /\ journal[p] # NoEntry /\ ~SameMD5
  BY DEF RemoteWins, Conflict, Entry, Quiet, driveVars, TypeInv
<1>2. ASSUME NEW j \in At(p), drive[j].ver = v PROVE FALSE
  <2>1. journal[p] = [r |-> v, l |-> v, md5 |-> TRUE]
    BY <1>1, <1>2 DEF BinClaim, Recorded
  <2>2. Item.c = v /\ Item.md5
    BY <1>2
  <2> QED BY <1>1, <2>1, <2>2 DEF SameMD5, Entry
<1>3. At(p)' = At(p)
  BY <1>1 DEF At, Live
<1>4. Absent(p, v)'
  BY <1>1, <1>2, <1>3 DEF Absent
<1> QED BY <1>4, AbsentClaim

LEMMA ClaimItem ==
  ASSUME TypeInv, DriveInv, TurnInv, ItemCurrent, Quiet, BinParts, QuietMoves, ItemStep,
         NEW p \in Paths \ Nested, NEW id \in Ids, Applied(id, p)', NEW v, v = drive'[id].ver
  PROVE  BinClaim(p, v)'
<1>0. /\ BinDrive /\ BinList /\ BinAgain /\ BinStart /\ BinDisk /\ QuietStep
      /\ head \in Nat /\ drive[id].ver \in Nat
  BY DEF BinParts, QuietMoves, TypeInv, Files, Known
<1>1. ItemFrame /\ ItemDisk /\ ItemDrive
  BY ItemFrames, ItemDisks, ItemDrives
<1>2. Item.path \in Paths /\ Processing /\ items # {}
  BY <1>1, ItemTyped DEF ItemFrame
<1>3. CASE Forget /\ p = Item.path
  <2>1. drive' = drive
    BY <1>3 DEF Forget, driveVars
  <2>2. v # 0
    BY <1>0, <2>1 DEF Applied, Binned, BinDrive
  <2> QED BY <1>3, <2>2, ClaimForget
<1>4. CASE ~(Forget /\ p = Item.path)
  <2>1. Back(p)
    BY <1>0, <1>4, BackItem
  <2>2. Applied(id, p) /\ v = drive[id].ver
    BY <2>1 DEF Back
  <2>3. BinClaim(p, v) /\ v \in 1..(2 * head)
    BY <1>0, <2>2 DEF BinDisk, Applied, Binned, BinDrive
  <2>4. CASE p # Item.path
    <3>1. At(p)' = At(p) /\ \A j \in At(p) : drive'[j] = drive[j]
      <4>1. CASE UNCHANGED <<drive, head>>
        BY <4>1 DEF At, Live
      <4>2. ASSUME NEW k \in Ids, Shifted(k, Item.path)
            PROVE  At(p)' = At(p) /\ \A j \in At(p) : drive'[j] = drive[j]
        BY <1>2, <2>4, <4>2, ShiftedAt
      <4>3. ASSUME NEW k \in Ids, Written(k, Item.path, local[Item.path])
            PROVE  At(p)' = At(p) /\ \A j \in At(p) : drive'[j] = drive[j]
        BY <1>2, <2>4, <4>3, WrittenAt
      <4> QED BY <1>1, <4>1, <4>2, <4>3 DEF ItemDrive
    <3>2. Untouched(p)
      BY <1>1, <2>4, <3>1 DEF Untouched, ItemDisk
    <3>3. ~Critical' \/ items' = items
      BY <1>1 DEF ItemFrame, Onward, Critical
    <3> QED BY <1>0, <2>1, <2>3, <2>4, <3>2, <3>3, UntouchedClaim
  <2>5. CASE p = Item.path /\ pc \in {"upload", "kept", "fetch", "taken"}
    <3>1. Absent(p, v)
      BY <2>3, <2>5 DEF BinClaim, OutOfStep
    <3>2. Absent(p, v)'
      BY <2>3, <3>1, AbsentKept DEF QuietMoves
    <3> QED BY <3>2, AbsentClaim
  <2>6. CASE p = Item.path /\ pc \notin {"upload", "kept", "fetch", "taken"}
    <3>1. ~Item.del => \A j \in At(p) : drive[j].ver = v => Item.c = v /\ Item.md5
      BY <1>0, <1>2, <2>2, <2>6, Announced
    <3>2. CASE ProcessDelete
      BY <2>3, <2>6, <3>2, ClaimDelete
    <3>3. CASE SkipUnchanged
      <4>1. Untouched(p) /\ ~Critical'
        BY <3>3 DEF SkipUnchanged, ItemDone, Untouched, Critical, driveVars, diskVars, At, Live
      <4> QED BY <1>0, <2>1, <2>3, <4>1, UntouchedClaim
    <3>4. CASE Download
      <4>1. \A j \in At(p) : drive[j].ver = v => Item.c = v /\ Item.md5
        BY <3>1, <3>4 DEF Download
      <4>2. v # 0
        BY <2>3
      <4> QED BY <1>0, <2>1, <2>3, <2>6, <3>4, <4>1, <4>2, ClaimDownload
    <3>5. CASE Record
      BY <1>0, <2>1, <2>3, <2>6, <3>5, ClaimRecord
    <3>6. CASE LocalWins
      BY <1>0, <2>1, <2>3, <2>6, <3>6, ClaimLocalWins
    <3>7. CASE RemoteWins
      <4>1. \A j \in At(p) : drive[j].ver = v => Item.c = v /\ Item.md5
        BY <3>1, <3>7 DEF RemoteWins
      <4>2. v # 0
        BY <2>3
      <4> QED BY <2>3, <2>6, <3>7, <4>1, <4>2, ClaimRemoteWins
    <3>8. ~UploadWinner /\ ~FetchWinner /\ ~RecordConflict /\ ~Forget
      BY <1>4, <2>6 DEF UploadWinner, FetchWinner, RecordConflict
    <3> QED BY <3>2, <3>3, <3>4, <3>5, <3>6, <3>7, <3>8 DEF ItemStep
  <2> QED BY <2>4, <2>5, <2>6
<1> QED BY <1>3, <1>4

\* A step of the remote user.
LEMMA ClaimUser ==
  ASSUME TypeInv, TypeInv', DriveInv, TurnInv, Quiet, BinParts, QuietMoves, UserStep,
         NEW p \in Paths \ Nested, NEW id \in Ids, Applied(id, p)', NEW v, v = drive'[id].ver
  PROVE  BinClaim(p, v)'
<1>0. /\ BinDrive /\ BinList /\ BinDisk /\ QuietStep
      /\ head \in Nat /\ drive[id].ver \in Nat /\ token.pos \in 0..head /\ next \in 0..head
  BY DEF BinParts, QuietMoves, TypeInv, Files, Known
<1>1. UNCHANGED <<local, journal, token, pc, items, next>>
  BY DEF UserStep, diskVars, memVars
<1>2. Back(p)
  <2>1. ~PollBegin
    BY <1>1 DEF PollBegin
  <2> QED BY <1>0, <2>1, BackPoll
<1>3. Applied(id, p) /\ v = drive[id].ver
  BY <1>2 DEF Back
<1>4. BinClaim(p, v) /\ v \in 1..(2 * head)
  BY <1>0, <1>3 DEF BinDisk, Applied, Binned, BinDrive
<1>5. Absent(p, v) => Absent(p, v)'
  BY <1>4, AbsentKept DEF QuietMoves
<1>6. Item' = Item
  BY <1>1 DEF Item
<1>7. ASSUME At(p)' = At(p), \A j \in At(p) : drive'[j] = drive[j] PROVE BinClaim(p, v)'
  <2>1. Untouched(p)
    BY <1>1, <1>7 DEF Untouched
  <2> QED BY <1>0, <1>1, <1>2, <1>4, <2>1, UntouchedClaim
<1>8. NoConflict(p, v)'
  BY <1>1, <1>4 DEF BinClaim, NoConflict
<1>9. ASSUME ~\E j \in At(p)' : drive'[j].ver = v, OnDisk(p, v)' PROVE BinClaim(p, v)'
  <2>1. Recorded(p, v)'
    BY <1>9 DEF Recorded
  <2>2. OutOfStep(p, v)'
    BY <1>1, <1>4, <1>5, <1>6, <1>9 DEF BinClaim, OutOfStep
  <2> QED BY <1>8, <1>9, <2>1, <2>2 DEF BinClaim
<1>10. ASSUME NEW k \in Ids, NEW q \in Paths, Written(k, q, Fresh) PROVE BinClaim(p, v)'
  <2>1. CASE q # p
    BY <1>7, <1>10, <2>1, WrittenAt
  <2>2. CASE q = p
    <3>1. At(p)' = {k} /\ drive'[k].ver = Fresh
      BY <1>10, <2>2, WrittenAt
    <3>2. Fresh # v
      BY <1>0, <1>4 DEF Fresh
    <3>3. OnDisk(p, v)'
      BY <3>1 DEF OnDisk
    <3> QED BY <1>9, <3>1, <3>2, <3>3
  <2> QED BY <2>1, <2>2
<1>11. ASSUME NEW k \in Ids, NEW q \in Paths, Thrown(k, q) PROVE BinClaim(p, v)'
  <2>1. CASE q # p
    BY <1>7, <1>11, <2>1, ThrownAt
  <2>2. CASE q = p
    <3>1. At(p)' = {} /\ Binned(k, p)' /\ drive'[k].seq = head + 1
      BY <1>11, <2>2, ThrownAt
    <3>2. ~Applied(k, p)'
      <4>1. Reach' \in 0..head
        BY <1>0, <1>1 DEF Reach
      <4> QED BY <1>0, <3>1, <4>1 DEF Applied
    <3>3. OnDisk(p, v)'
      BY <3>1, <3>2 DEF OnDisk
    <3> QED BY <1>9, <3>1, <3>3
  <2> QED BY <2>1, <2>2
<1> QED BY <1>10, <1>11 DEF UserStep

LEMMA BinDiskStep ==
  ASSUME TypeInv, TypeInv', DriveInv, TurnInv, ItemCurrent, Quiet, BinParts, BinStart', QuietMoves,
         UNCHANGED vars \/ UserStep \/ PollStep \/ ItemStep
  PROVE  BinDisk'
<1> SUFFICES ASSUME NEW p \in Paths \ Nested, NEW id \in Ids, Applied(id, p)'
             PROVE  BinClaim(p, drive[id].ver)'
  BY DEF BinDisk
<1>0. BinDrive /\ BinList /\ BinDisk /\ QuietStep
  BY DEF BinParts, QuietMoves
<1>1. PICK v : v = drive'[id].ver
  OBVIOUS
<1>2. CASE ItemStep
  BY <1>1, <1>2, ClaimItem
<1>3. CASE UserStep
  BY <1>1, <1>3, ClaimUser
<1>4. CASE PollBegin /\ token.kind = "none"
  <2>1. token'.kind = "start" /\ Reach' = token'.pos
    BY <1>4 DEF PollBegin, StartToken, Reach, Processing, Busy
  <2>2. Absent(p, drive[id].ver)'
    BY <2>1 DEF BinStart, Applied
  <2>3. Absent(p, v)'
    BY <1>1, <2>2 DEF Absent
  <2> QED BY <1>1, <2>3, AbsentClaim
<1>5. CASE (UNCHANGED vars \/ PollStep) /\ (PollBegin => token.kind # "none")
  <2>1. Back(p)
    BY <1>0, <1>5, BackPoll
  <2>2. Applied(id, p) /\ v = drive[id].ver
    BY <1>1, <2>1 DEF Back
  <2>3. BinClaim(p, v)
    BY <1>0, <2>2 DEF BinDisk
  <2>4. UNCHANGED <<drive, local, journal>>
    BY <1>5, PollSame
  <2>5. Untouched(p)
    BY <2>4 DEF Untouched, At, Live
  <2>6. ~Critical' \/ (items' = items /\ pc' = pc)
    BY <1>5 DEF PollStep, PollBegin, Walk, PollChanges, Persist, ListFails, Restart, Critical, vars, memVars
  <2> QED BY <1>0, <1>1, <2>1, <2>3, <2>5, <2>6, UntouchedClaim
<1> QED BY <1>2, <1>3, <1>4, <1>5 DEF PollStep

LEMMA InitBin == Init => BinInv
<1> SUFFICES ASSUME Init PROVE BinParts
  BY DEF BinInv
<1>1. \A id \in Ids : drive[id].state = "unborn" /\ drive[id].ver = 0 /\ drive[id].seq = 0
  BY DEF Init
<1>2. /\ head = 0 /\ floor = 0 /\ items = {} /\ pc = "idle" /\ next = 0
      /\ token.kind = "none" /\ token.pos = 0 /\ \A p \in Paths : local[p] = 0
  BY DEF Init
<1>3. \A id \in Ids, p \in Paths : ~Binned(id, p)
  BY <1>1 DEF Binned
<1>4. BinDrive
  BY <1>1, <1>2, <1>3 DEF BinDrive
<1>5. BinList
  BY <1>2 DEF BinList, Processing, Busy
<1>6. BinAgain /\ BinDisk
  BY <1>3 DEF BinAgain, Again, BinDisk, Applied
<1>7. BinStart
  BY <1>1, <1>2 DEF BinStart
<1> QED BY <1>4, <1>5, <1>6, <1>7 DEF BinParts

LEMMA StepBin == IndInv /\ IndInv' /\ BinInv /\ [Next]_vars => BinInv'
<1> SUFFICES ASSUME IndInv, IndInv', BinInv, [Next]_vars, Quiet'
             PROVE  BinParts'
  BY DEF BinInv
<1>1. /\ TypeInv /\ DriveInv /\ TurnInv /\ ItemCurrent /\ TypeInv' /\ TurnInv'
  BY DEF IndInv
<1>2. setup' = setup
  BY <1>1, DriveStep DEF DriveSame, DriveMoves
<1>3. Quiet
  BY <1>2 DEF Quiet, Passes, Faults, RemoteOps
<1>4. BinParts /\ BinDrive /\ BinList
  BY <1>3 DEF BinInv, BinParts
<1>5. UNCHANGED vars \/ UserStep \/ PollStep \/ ItemStep
  BY <1>3, <1>4, QuietNext
<1>6. QuietMoves /\ QuietStep
  BY <1>1, <1>3, <1>5, QuietAll DEF QuietMoves
<1>7. BinDrive'
  BY <1>1, <1>4, <1>6, QuietDrive
<1>8. BinList'
  BY <1>1, <1>3, <1>4, <1>5, <1>6, BinListStep
<1>9. BinAgain'
  BY <1>1, <1>3, <1>4, <1>5, <1>6, BinAgainStep
<1>10. BinStart'
  BY <1>1, <1>3, <1>4, <1>5, <1>6, BinStartStep
<1>11. BinDisk'
  BY <1>1, <1>3, <1>4, <1>5, <1>6, <1>10, BinDiskStep
<1> QED BY <1>7, <1>8, <1>9, <1>10, <1>11 DEF BinParts

LEMMA InvDead == IndInv /\ BinInv => DeadRemoved
<1> SUFFICES ASSUME IndInv, BinInv, CaughtUp, Quiet, NEW id \in Ids, NEW p \in Paths \ Nested,
                    Binned(id, p), local[p] = drive[id].ver
             PROVE  At(p) # {}
  BY DEF DeadRemoved, Quiet, Binned
<1>1. pc = "idle" /\ token.pos = head /\ items = {}
  BY DEF CaughtUp, Page, IndInv, TurnInv
<1>2. Reach = head
  BY <1>1 DEF Reach, Processing, Busy
<1>3. \A a \in Ids : Binned(a, p) => Applied(a, p)
  BY <1>1, <1>2 DEF Applied, IndInv, TypeInv, Files
<1>4. OnDisk(p, drive[id].ver)
  BY <1>3 DEF BinInv, BinParts, BinDisk, BinClaim
<1> QED BY <1>3, <1>4 DEF OnDisk

\* DeadRemoved holds in every state: whatever crashes, failed listings and
\* cut-off downloads interrupt the polls, and however often a path is deleted,
\* made anew or uploaded again by a conflict, once the feed is used up
\* processChange has left no version that is in the bin on disk.
THEOREM BinnedRemoved == Spec => []DeadRemoved
<1>1. Init => BinInv
  BY InitBin
<1>2. IndInv /\ IndInv' /\ BinInv /\ [Next]_vars => BinInv'
  BY StepBin
<1>3. IndInv /\ BinInv => DeadRemoved
  BY InvDead
<1> QED BY <1>1, <1>2, <1>3, Inductive, PTL DEF Spec
=============================================================================
