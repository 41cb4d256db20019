---------------------- MODULE ConflictRetention_proofs ----------------------
(***************************************************************************)
(* Proofs about ConflictRetention for any number of slots and any set of   *)
(* configurations and faults.                                              *)
(***************************************************************************)
EXTENDS ConflictRetention, FiniteSetTheorems, WellFoundedInduction, TLAPS

----------------------------------------------------------------------------
(* Numbers and sequences.                                                  *)

\* A set of natural numbers that is not empty has a least element.
LEMMA LeastNat ==
  ASSUME NEW S \in SUBSET Nat, S # {}
  PROVE  \E n \in S : \A m \in S : n <= m
<1>1. PICK n \in S : \A m \in S : ~(<<m, n>> \in OpToRel(<, Nat))
  BY WFMin, NatLessThanWellFounded
<1>2. ASSUME NEW m \in S, m < n PROVE FALSE
  <2>1. <<m, n>> \in OpToRel(<, Nat)
    BY <1>2, Zenon DEF OpToRel
  <2> QED
    BY <1>1, <2>1
<1> QED
  BY <1>2

\* RemoveFirst leaves a sequence with no new elements.
LEMMA RemoveFirstType ==
  ASSUME NEW S, NEW f \in Seq(S), NEW e
  PROVE  RemoveFirst(f, e) \in Seq(S)
<1> DEFINE I == {i \in 1..Len(f) : f[i] = e}
<1>1. CASE I = {}
  BY <1>1 DEF RemoveFirst
<1>2. CASE I # {}
  <2>0. I \in SUBSET Nat
    OBVIOUS
  <2>1. PICK k \in I : \A m \in I : k <= m
    BY <1>2, <2>0, LeastNat
  <2>2. Min(I) \in I
    <3> HIDE DEF I
    <3> QED
      BY <2>1 DEF Min
  <2>3. RemoveFirst(f, e) = RemoveAt(f, Min(I))
    BY <1>2 DEF RemoveFirst, SelectInSeq
  <2>4. \A i \in 1..Len(f) : RemoveAt(f, i) \in Seq(S)
    BY DEF RemoveAt
  <2> QED
    BY <2>2, <2>3, <2>4
<1> QED
  BY <1>1, <1>2

----------------------------------------------------------------------------
(* The order of the journal entries.                                       *)

Entry == [l : Contents, r : Contents, md5 : BOOLEAN, side : {"local", "remote"}]

\* The entries have a strict total order by last_synced_at.
OrderInv ==
    /\ \A s \in Slots : older[s] \subseteq Journaled /\ s \notin older[s]
    /\ \A s \in Slots \ Journaled : older[s] = {}
    /\ \A s, t \in Journaled : s = t \/ s \in older[t] \/ t \in older[s]
    /\ \A s, t, u \in Slots : s \in older[t] /\ t \in older[u] => s \in older[u]

\* There are finitely many slots.
LEMMA FiniteSlots == IsFiniteSet(Slots) /\ IsFiniteSet(Siblings)
<1>1. 0 \in Int /\ 1 \in Int /\ MaxN \in Int
  BY RetentionAssumption
<1>2. IsFiniteSet(0..MaxN) /\ IsFiniteSet(1..MaxN)
  BY <1>1, FS_Interval
<1> QED
  BY <1>2 DEF Slots, Siblings

\* The siblings newer than one of them are finitely many.
LEMMA NewerFinite ==
  ASSUME NEW s
  PROVE  IsFiniteSet(Newer(s)) /\ Cardinality(Newer(s)) \in Nat
<1>1. IsFiniteSet(Siblings)
  BY FiniteSlots
<1>2. Newer(s) \in SUBSET Siblings
  BY DEF Newer
<1>3. IsFiniteSet(Newer(s))
  BY <1>1, <1>2, FS_Subset
<1> QED
  BY <1>3, FS_CardinalityType

\* Fewer siblings are newer than the newer one of two.
LEMMA NewerFewer ==
  ASSUME OrderInv, NEW s \in Siblings, NEW m \in Siblings, s \in older[m]
  PROVE  Cardinality(Newer(m)) < Cardinality(Newer(s))
<1>0. Siblings \subseteq Slots
  BY RetentionAssumption DEF Siblings, Slots
<1>1. Newer(m) \in SUBSET Newer(s) /\ m \in Newer(s) /\ m \notin Newer(m)
  BY <1>0 DEF OrderInv, Newer
<1>2. /\ IsFiniteSet(Newer(m)) /\ Cardinality(Newer(m)) \in Nat
      /\ IsFiniteSet(Newer(s)) /\ Cardinality(Newer(s)) \in Nat
  BY NewerFinite
<1>3. /\ Cardinality(Newer(m)) <= Cardinality(Newer(s))
      /\ Cardinality(Newer(s)) # Cardinality(Newer(m))
  BY <1>1, <1>2, FS_Subset
<1> QED
  BY <1>2, <1>3

\* Among siblings there is a newest one.
LEMMA NewestOf ==
  ASSUME OrderInv, NEW T \in SUBSET Siblings, T # {}
  PROVE  \E s \in T : \A m \in T : s \notin older[m]
<1> DEFINE C == {Cardinality(Newer(s)) : s \in T}
<1>1. C \in SUBSET Nat /\ C # {}
  BY NewerFinite
<1>2. PICK c \in C : \A d \in C : c <= d
  BY <1>1, LeastNat
<1>3. PICK s \in T : c = Cardinality(Newer(s))
  BY <1>2
<1>4. ASSUME NEW m \in T, s \in older[m] PROVE FALSE
  <2>1. Cardinality(Newer(m)) < Cardinality(Newer(s))
    BY <1>4, NewerFewer
  <2>2. c <= Cardinality(Newer(m))
    BY <1>2
  <2> QED
    BY <1>3, <2>1, <2>2, NewerFinite
<1> QED
  BY <1>4

\* What is evicted next is one of those to evict, and the newest of them.
LEMMA NextEvictedIs ==
  ASSUME OrderInv, evicting \subseteq Siblings, evicting # {}
  PROVE  NextEvicted \in evicting /\ \A m \in evicting : NextEvicted \notin older[m]
<1>1. \E s \in evicting : \A m \in evicting : s \notin older[m]
  BY NewestOf
<1> QED
  BY <1>1 DEF NextEvicted

\* A number that NextOldN hands out has no entry.
LEMMA NextOldNIs ==
  ASSUME Free # {}
  PROVE  NextOldN \in Siblings /\ journal[NextOldN] = NoEntry
<1>1. Free \in SUBSET Nat
  BY RetentionAssumption DEF Free, Siblings
<1>2. \E n \in Free : \A m \in Free : n <= m
  BY <1>1, LeastNat
<1>3. NextOldN \in Free
  BY <1>2 DEF NextOldN
<1> QED
  BY <1>3 DEF Free

\* An entry is an entry.
LEMMA EntryIs ==
  ASSUME setup \in Setups, NEW e \in Entry
  PROVE  e # NoEntry
<1>1. Contents \subseteq Nat
  BY RetentionAssumption DEF Contents, MaxEdits
<1>2. e \in [l : Nat, r : Nat, md5 : BOOLEAN, side : {"local", "remote"}]
  BY <1>1 DEF Entry
<1> QED
  BY <1>2, RetentionAssumption

\* An entry that is put becomes the newest.
LEMMA PutOrder ==
  ASSUME OrderInv, journal \in [Slots -> Entry \union {NoEntry}],
         NEW s \in Slots, NEW e \in Entry, e # NoEntry, Put(s, e)
  PROVE  OrderInv' /\ Journaled' = Journaled \union {s}
<1>1. Journaled' = Journaled \union {s}
  BY DEF Put, Journaled
<1>2. \A t \in Slots : older'[t] = (IF t = s THEN Journaled ELSE older[t]) \ {s}
  BY DEF Put
<1>3. \A t \in Slots : older'[t] \subseteq Journaled' /\ t \notin older'[t]
  BY <1>1, <1>2 DEF OrderInv
<1>4. \A t \in Slots \ Journaled' : older'[t] = {}
  BY <1>1, <1>2 DEF OrderInv
<1>5. \A t, u \in Journaled' : t = u \/ t \in older'[u] \/ u \in older'[t]
  BY <1>1, <1>2 DEF OrderInv, Journaled
<1>6. \A t, u, v \in Slots : t \in older'[u] /\ u \in older'[v] => t \in older'[v]
  BY <1>1, <1>2 DEF OrderInv
<1> QED
  BY <1>1, <1>3, <1>4, <1>5, <1>6 DEF OrderInv

\* An entry that is deleted leaves the order of the others as it is.
LEMMA DeleteOrder ==
  ASSUME OrderInv, journal \in [Slots -> Entry \union {NoEntry}],
         NEW s \in Slots, Delete(s)
  PROVE  OrderInv' /\ Journaled' = Journaled \ {s}
<1>1. Journaled' = Journaled \ {s}
  BY DEF Delete, Journaled
<1>2. \A t \in Slots : older'[t] = (IF t = s THEN {} ELSE older[t]) \ {s}
  BY DEF Delete
<1>3. \A t \in Slots : older'[t] \subseteq Journaled' /\ t \notin older'[t]
  BY <1>1, <1>2 DEF OrderInv
<1>4. \A t \in Slots \ Journaled' : older'[t] = {}
  BY <1>1, <1>2 DEF OrderInv
<1>5. \A t, u \in Journaled' : t = u \/ t \in older'[u] \/ u \in older'[t]
  BY <1>1, <1>2 DEF OrderInv, Journaled
<1>6. \A t, u, v \in Slots : t \in older'[u] /\ u \in older'[v] => t \in older'[v]
  BY <1>1, <1>2 DEF OrderInv
<1> QED
  BY <1>1, <1>3, <1>4, <1>5, <1>6 DEF OrderInv

----------------------------------------------------------------------------
(* The type invariant, in four parts.                                      *)

Feed == [slot : Slots, del : BOOLEAN]
FilesOK ==
    /\ local \in [Slots -> Contents] /\ remote \in [Slots -> Contents]
    /\ feed \in Seq(Feed)
    /\ edits \in 1..MaxEdits
    /\ kept \subseteq Contents
EntriesOK ==
    /\ journal \in [Slots -> Entry \union {NoEntry}]
    /\ older \in [Slots -> SUBSET Slots]
    /\ expired \subseteq Journaled \intersect Siblings
    /\ OrderInv
Jobs == [pc : {"idle", "aside", "note", "prune", "unjournal", "win", "settle", "pass"},
         by : {"none", "pull", "bisync"}, slot : Slots, n : Siblings,
         win : {"none", "local", "remote"}, l : Contents, r : Contents]
Diffs == [slot : Slots, kind : {"local_only", "remote_only", "conflict"}, l : Contents, r : Contents]
JobOK == job \in Jobs /\ diffs \subseteq Diffs /\ marked \in BOOLEAN

\* Only the GC has something to evict, and an eviction is under way until its
\* entry is deleted.
GcOK ==
    /\ evicting \subseteq Journaled \intersect Siblings
    /\ evicting # {} => job.pc \in {"prune", "unjournal"}
    /\ job.pc = "unjournal" => evicting # {}

TypeInv == setup \in Setups /\ FilesOK /\ EntriesOK /\ JobOK /\ GcOK

\* The watcher's events, which no other part depends on, are those of siblings.
EventsOK ==
    /\ events \subseteq [slot : Siblings, op : {"create", "remove", "upload", "delete"}]
    /\ "push" \notin Resolvers => events = {}

\* The parts are the types the runs check.
LEMMA TypeInvIs == TypeInv /\ EventsOK => TypeOK
  BY DEF TypeInv, TypeOK, FilesOK, EntriesOK, JobOK, GcOK, Feed, Entry, Jobs, Diffs, EventsOK

\* The slots, and the contents of this configuration.
LEMMA SlotsAre ==
  /\ Siblings \subseteq Slots /\ 0 \in Slots /\ 0 \notin Siblings /\ 1 \in Siblings
  /\ setup \in Setups => Contents \subseteq Nat /\ {0, 1} \subseteq Contents /\ 1 \in 1..MaxEdits
  BY RetentionAssumption DEF Siblings, Slots, Contents, MaxEdits

\* A file that is in sync satisfies the type invariant.
LEMMA InitType == Init => TypeInv
<1> SUFFICES ASSUME Init PROVE TypeInv
  OBVIOUS
<1>1. setup \in Setups
  BY DEF Init
<1>2. FilesOK
  BY <1>1, SlotsAre DEF Init, FilesOK
<1>3. journal \in [Slots -> Entry \union {NoEntry}]
  BY <1>1, SlotsAre DEF Init, Entry
<1>4. Journaled \subseteq {0}
  BY <1>1, SlotsAre DEF Init, Journaled
<1>5. EntriesOK
  BY <1>3, <1>4, SlotsAre DEF Init, EntriesOK, OrderInv
<1>6. JobOK
  BY <1>1, SlotsAre DEF Init, JobOK, Jobs, NoJob
<1>7. GcOK
  BY DEF Init, GcOK, NoJob
<1> QED
  BY <1>1, <1>2, <1>5, <1>6, <1>7 DEF TypeInv

\* Drive's operations keep the types of the files.
LEMMA UploadType ==
  ASSUME FilesOK, NEW s \in Slots, NEW c \in Contents, Upload(s, c)
  PROVE  remote' \in [Slots -> Contents] /\ feed' \in Seq(Feed)
<1>1. Changed(s) \in Feed
  BY DEF Changed, Feed
<1>2. RemoveFirst(feed, Changed(s)) \in Seq(Feed)
  BY RemoveFirstType DEF FilesOK
<1> QED
  BY <1>1, <1>2 DEF Upload, FilesOK

\* The same for a move,
LEMMA MoveType ==
  ASSUME FilesOK, 0 \in Contents, NEW s \in Slots, NEW n \in Slots, MoveFile(s, n)
  PROVE  remote' \in [Slots -> Contents] /\ feed' \in Seq(Feed)
<1>1. Changed(n) \in Feed
  BY DEF Changed, Feed
<1>2. RemoveFirst(feed, Changed(s)) \in Seq(Feed)
  BY RemoveFirstType DEF FilesOK
<1>3. RemoveFirst(RemoveFirst(feed, Changed(s)), Changed(n)) \in Seq(Feed)
  BY <1>2, RemoveFirstType
<1> QED
  BY <1>1, <1>3 DEF MoveFile, FilesOK

\* and for a deletion.
LEMMA DeleteFileType ==
  ASSUME FilesOK, 0 \in Contents, NEW s \in Slots, DeleteFile(s)
  PROVE  remote' \in [Slots -> Contents] /\ feed' \in Seq(Feed)
<1>1. Gone(s) \in Feed
  BY DEF Gone, Feed
<1>2. RemoveFirst(feed, Changed(s)) \in Seq(Feed)
  BY RemoveFirstType DEF FilesOK
<1>3. CASE remote[s] = 0
  BY <1>3 DEF DeleteFile, FilesOK
<1>4. CASE remote[s] # 0
  BY <1>1, <1>2, <1>4 DEF DeleteFile, FilesOK
<1> QED
  BY <1>3, <1>4

\* The journal's operations keep the types and the order of the entries.
LEMMA PutType ==
  ASSUME setup \in Setups, setup' = setup, EntriesOK,
         NEW s \in Slots, NEW e \in Entry, Put(s, e)
  PROVE  EntriesOK' /\ Journaled' = Journaled \union {s}
<1>1. OrderInv' /\ Journaled' = Journaled \union {s}
  BY EntryIs, PutOrder DEF EntriesOK
<1>2. Entry' = Entry
  BY DEF Entry, Contents, MaxEdits
<1>3. journal' \in [Slots -> Entry \union {NoEntry}] /\ expired' = expired \ {s}
  BY DEF Put, EntriesOK
<1>4. older' \in [Slots -> SUBSET Slots]
  BY DEF Put, EntriesOK, Journaled
<1> QED
  BY <1>1, <1>2, <1>3, <1>4 DEF EntriesOK

\* The same for a deletion.
LEMMA DeleteType ==
  ASSUME setup' = setup, EntriesOK, NEW s \in Slots, Delete(s)
  PROVE  EntriesOK' /\ Journaled' = Journaled \ {s}
<1>1. OrderInv' /\ Journaled' = Journaled \ {s}
  BY DeleteOrder DEF EntriesOK
<1>2. Entry' = Entry
  BY DEF Entry, Contents, MaxEdits
<1>3. journal' \in [Slots -> Entry \union {NoEntry}] /\ expired' = expired \ {s}
  BY DEF Delete, EntriesOK
<1>4. older' \in [Slots -> SUBSET Slots]
  BY DEF Delete, EntriesOK, Journaled
<1> QED
  BY <1>1, <1>2, <1>3, <1>4 DEF EntriesOK

\* What is left alone keeps its type.
LEMMA SameType ==
  ASSUME setup' = setup
  PROVE  /\ Contents' = Contents /\ Entry' = Entry /\ Jobs' = Jobs /\ Diffs' = Diffs
         /\ MaxEdits' = MaxEdits
         /\ FilesOK /\ UNCHANGED <<files, edits, kept>> => FilesOK'
         /\ EntriesOK /\ UNCHANGED entries => EntriesOK' /\ Journaled' = Journaled
         /\ JobOK /\ UNCHANGED <<job, diffs, marked>> => JobOK'
<1>1. Contents' = Contents /\ MaxEdits' = MaxEdits
  BY DEF Contents, MaxEdits
<1>2. Entry' = Entry /\ Jobs' = Jobs /\ Diffs' = Diffs
  BY <1>1 DEF Entry, Jobs, Diffs
<1>3. FilesOK /\ UNCHANGED <<files, edits, kept>> => FilesOK'
  BY <1>1 DEF FilesOK, files
<1>4. EntriesOK /\ UNCHANGED entries => EntriesOK' /\ Journaled' = Journaled
  BY <1>2 DEF EntriesOK, entries, OrderInv, Journaled
<1>5. JobOK /\ UNCHANGED <<job, diffs, marked>> => JobOK'
  BY <1>2 DEF JobOK
<1> QED
  BY <1>1, <1>2, <1>3, <1>4, <1>5

\* The watcher and the pushes of siblings keep the type invariant.
LEMMA EventType ==
  ASSUME TypeInv, NEW s \in Siblings, FireEvent(s) \/ PushSibling(s) \/ PushRemoved(s)
  PROVE  TypeInv'
<1>s. setup \in Setups /\ setup' = setup /\ UNCHANGED <<local, edits, kept, job, evicting, diffs, marked>>
  BY DEF TypeInv, FireEvent, PushSibling, PushRemoved, TakesEvent, users
<1>0. /\ FilesOK /\ EntriesOK /\ JobOK /\ GcOK
      /\ local \in [Slots -> Contents] /\ remote \in [Slots -> Contents] /\ feed \in Seq(Feed)
      /\ 0 \in Contents /\ s \in Slots
      /\ Contents' = Contents /\ MaxEdits' = MaxEdits
  BY <1>s, SlotsAre, SameType DEF TypeInv, FilesOK
<1>e. PushEntry(s) \in Entry /\ [l |-> 0, r |-> 0, md5 |-> FALSE, side |-> "local"] \in Entry
  BY <1>0 DEF PushEntry, Entry
<1>1. remote' \in [Slots -> Contents] /\ feed' \in Seq(Feed)
  <2>1. CASE UNCHANGED <<remote, feed>>
    BY <1>0, <2>1
  <2>2. CASE Upload(s, local[s])
    BY <1>0, <2>2, UploadType
  <2>3. CASE DeleteFile(s)
    BY <1>0, <2>3, DeleteFileType
  <2> QED
    BY <2>1, <2>2, <2>3 DEF FireEvent, PushSibling, PushRemoved
<1>2. EntriesOK' /\ Journaled \subseteq Journaled'
  <2>1. CASE UNCHANGED entries
    BY <1>0, <1>s, <2>1, SameType
  <2>2. ASSUME NEW e \in Entry, Put(s, e) PROVE EntriesOK' /\ Journaled \subseteq Journaled'
    BY <1>0, <1>s, <2>2, PutType
  <2> QED
    BY <1>e, <2>1, <2>2 DEF FireEvent, PushSibling, PushRemoved
<1>3. FilesOK'
  BY <1>0, <1>1, <1>s DEF FilesOK
<1>4. JobOK' /\ GcOK'
  BY <1>0, <1>2, <1>s, SameType DEF GcOK
<1> QED
  BY <1>2, <1>3, <1>4, <1>s DEF TypeInv

\* The users' edits, a push and the polls keep the type invariant.
LEMMA PollType ==
  ASSUME TypeInv,
         \/ LocalEdit \/ RemoteEdit \/ PushFile
         \/ \E s \in Slots : PullSkip(s) \/ PullDownload(s) \/ PullConflict(s) \/ PullDelete(s)
  PROVE  TypeInv'
<1>s. setup \in Setups /\ setup' = setup
  BY DEF TypeInv, LocalEdit, RemoteEdit, PushFile, PullSkip, PullDownload, PullConflict, PullDelete,
         users
<1>0. /\ FilesOK /\ EntriesOK /\ JobOK /\ GcOK
      /\ local \in [Slots -> Contents] /\ remote \in [Slots -> Contents]
      /\ 0 \in Contents /\ 0 \in Slots /\ Siblings \subseteq Slots
      /\ Contents' = Contents /\ MaxEdits' = MaxEdits /\ Jobs' = Jobs
  BY <1>s, SlotsAre, SameType DEF TypeInv, FilesOK
<1>1. CASE LocalEdit \/ RemoteEdit
  <2>1. edits + 1 \in Contents /\ edits' = edits + 1 /\ edits' \in 1..MaxEdits
    BY <1>1, <1>s, RetentionAssumption
       DEF LocalEdit, RemoteEdit, Edits, TypeInv, FilesOK, Contents, MaxEdits
  <2>2. FilesOK'
    BY <1>0, <1>1, <2>1, UploadType DEF LocalEdit, RemoteEdit, FilesOK
  <2>3. EntriesOK' /\ JobOK' /\ Journaled' = Journaled
    BY <1>0, <1>1, <1>s, SameType DEF LocalEdit, RemoteEdit
  <2>4. GcOK'
    BY <1>0, <1>1, <2>3 DEF LocalEdit, RemoteEdit, GcOK
  <2> QED
    BY <1>s, <2>2, <2>3, <2>4 DEF TypeInv
<1>2. CASE PushFile
  <2>1. PushEntry(0) \in Entry
    BY <1>0 DEF Entry, PushEntry
  <2>2. EntriesOK' /\ Journaled' = Journaled \union {0}
    BY <1>0, <1>2, <1>s, <2>1, PutType DEF PushFile
  <2>3. FilesOK'
    BY <1>0, <1>2, UploadType DEF PushFile, FilesOK, users
  <2>4. JobOK'
    BY <1>0, <1>2, <1>s, SameType DEF PushFile
  <2>5. GcOK'
    BY <1>0, <1>2, <2>2 DEF PushFile, GcOK
  <2> QED
    BY <1>s, <2>2, <2>3, <2>4, <2>5 DEF TypeInv
<1>3. ASSUME NEW s \in Slots, PullSkip(s) PROVE TypeInv'
  <2>1. FilesOK'
    BY <1>0, <1>3 DEF PullSkip, Delivered, FilesOK, users
  <2>2. EntriesOK' /\ JobOK' /\ Journaled' = Journaled
    BY <1>0, <1>3, <1>s, SameType DEF PullSkip
  <2>3. GcOK'
    BY <1>0, <1>3, <2>2 DEF PullSkip, GcOK
  <2> QED
    BY <1>s, <2>1, <2>2, <2>3 DEF TypeInv
<1>4. ASSUME NEW s \in Slots, PullDownload(s) PROVE TypeInv'
  <2>1. [l |-> remote[s], r |-> remote[s], md5 |-> TRUE, side |-> "remote"] \in Entry
    BY <1>0 DEF Entry
  <2>2. EntriesOK' /\ Journaled \subseteq Journaled'
    <3>1. CASE UNCHANGED entries
      BY <3>1, <1>0, <1>s, SameType
    <3>2. CASE ~UNCHANGED entries
      BY <3>2, <1>0, <1>4, <1>s, <2>1, PutType DEF PullDownload
    <3> QED
      BY <3>1, <3>2
  <2>3. FilesOK'
    BY <1>0, <1>4 DEF PullDownload, Delivered, FilesOK, users
  <2>4. JobOK'
    BY <1>0, <1>4, <1>s, SameType DEF PullDownload
  <2>5. GcOK'
    BY <1>0, <1>4, <2>2 DEF PullDownload, GcOK
  <2> QED
    BY <1>s, <2>2, <2>3, <2>4, <2>5 DEF TypeInv
<1>5. ASSUME NEW s \in Slots, PullConflict(s) PROVE TypeInv'
  <2>1. DetermineWinner(local[s], remote[s]) \in {"local", "remote"}
    BY DEF DetermineWinner, NewerWins
  <2>2. NextOldN \in Siblings
    BY <1>5, NextOldNIs DEF PullConflict
  <2>3. job' \in Jobs
    BY <1>0, <1>5, <2>1, <2>2 DEF PullConflict, Jobs
  <2>4. FilesOK'
    BY <1>0, <1>5 DEF PullConflict, Delivered, FilesOK, users
  <2>5. EntriesOK' /\ Journaled' = Journaled
    BY <1>0, <1>5, <1>s, SameType DEF PullConflict
  <2>6. JobOK'
    BY <1>0, <1>5, <1>s, <2>3, SameType DEF PullConflict, JobOK
  <2>7. GcOK'
    BY <1>0, <1>5, <2>5 DEF PullConflict, Delivered, GcOK
  <2> QED
    BY <1>s, <2>4, <2>5, <2>6, <2>7 DEF TypeInv
<1>6. ASSUME NEW s \in Slots, PullDelete(s) PROVE TypeInv'
  <2>1. EntriesOK'
    BY <1>0, <1>6, <1>s, DeleteType DEF PullDelete
  <2>2. FilesOK'
    BY <1>0, <1>6 DEF PullDelete, FilesOK, users
  <2>3. JobOK'
    BY <1>0, <1>6, <1>s, SameType DEF PullDelete
  <2>4. GcOK'
    BY <1>0, <1>6 DEF PullDelete, GcOK
  <2> QED
    BY <1>s, <2>1, <2>2, <2>3, <2>4 DEF TypeInv
<1> QED
  BY <1>1, <1>2, <1>3, <1>4, <1>5, <1>6

\* A job without its resolution, and a job that moves on, are jobs.
LEMMA JobsAre ==
  ASSUME setup \in Setups, job \in Jobs
  PROVE  /\ NoJob \in Jobs /\ [NoJob EXCEPT !.pc = "pass", !.by = "bisync"] \in Jobs
         /\ \A pc \in {"note", "prune", "unjournal", "win", "settle"} :
               [job EXCEPT !.pc = pc] \in Jobs
  BY SlotsAre DEF Jobs, NoJob

\* The steps of a resolution that move files keep the type invariant.
LEMMA ResolveType ==
  ASSUME TypeInv, LocalAside \/ RemoteAside \/ FetchWinner \/ FileMissing \/ StoreFails
  PROVE  TypeInv'
<1>s. setup \in Setups /\ setup' = setup
  BY DEF TypeInv, LocalAside, RemoteAside, FetchWinner, FileMissing, StoreFails, users
<1>0. /\ FilesOK /\ EntriesOK /\ JobOK /\ GcOK
      /\ local \in [Slots -> Contents] /\ remote \in [Slots -> Contents]
      /\ 0 \in Contents /\ Contents' = Contents /\ MaxEdits' = MaxEdits /\ Jobs' = Jobs
      /\ job \in Jobs /\ job.slot \in Slots /\ job.n \in Slots /\ kept \subseteq Contents
  BY <1>s, SlotsAre, SameType DEF TypeInv, FilesOK, JobOK, Jobs
<1>1. EntriesOK' /\ Journaled' = Journaled /\ UNCHANGED <<evicting, diffs, marked>>
  BY <1>0, <1>s, SameType DEF LocalAside, RemoteAside, FetchWinner, FileMissing, StoreFails
<1>2. job' \in Jobs /\ job'.pc # "unjournal"
  <2>1. \/ job' = NoJob \/ job' = [NoJob EXCEPT !.pc = "pass", !.by = "bisync"]
        \/ \E pc \in {"note", "win", "settle"} : job' = [job EXCEPT !.pc = pc]
    BY DEF LocalAside, RemoteAside, FetchWinner, FileMissing, StoreFails, Finish, AfterRename, Goes
  <2>2. job' \in Jobs
    BY <1>s, <1>0, <2>1, JobsAre
  <2>3. NoJob.pc = "idle" /\ [NoJob EXCEPT !.pc = "pass", !.by = "bisync"].pc = "pass"
    BY DEF NoJob
  <2>4. \A pc : [job EXCEPT !.pc = pc].pc = pc
    BY <1>0 DEF Jobs
  <2> QED
    BY <2>1, <2>2, <2>3, <2>4
<1>3. JobOK' /\ GcOK'
  <2>1. evicting = {}
    BY <1>0 DEF GcOK, LocalAside, RemoteAside, FetchWinner, FileMissing, StoreFails
  <2> QED
    BY <1>0, <1>1, <1>2, <1>s, <2>1, SameType DEF JobOK, GcOK
<1>4. FilesOK'
  <2>1. CASE LocalAside
    BY <1>0, <2>1 DEF LocalAside, FilesOK, users
  <2>2. CASE RemoteAside
    BY <1>0, <2>2, MoveType DEF RemoteAside, FilesOK, users
  <2>3. CASE FetchWinner
    BY <1>0, <2>3, UploadType DEF FetchWinner, FilesOK, users
  <2>4. CASE FileMissing \/ StoreFails
    BY <1>0, <1>s, <2>4, SameType DEF FileMissing, StoreFails, users
  <2> QED
    BY <2>1, <2>2, <2>3, <2>4
<1> QED
  BY <1>s, <1>1, <1>3, <1>4 DEF TypeInv

\* The journal entries of winners and losers, and the GC, keep it.
LEMMA RecordType ==
  ASSUME TypeInv, NoteLoser \/ RecordWinner \/ Age \/ RemoveEvicted \/ DeleteEntry \/ PruneDone
                  \/ RemoteFails
  PROVE  TypeInv'
<1>s. setup \in Setups /\ setup' = setup
  BY DEF TypeInv, NoteLoser, RecordWinner, Age, RemoveEvicted, DeleteEntry, PruneDone, RemoteFails,
         users
<1>0. /\ FilesOK /\ EntriesOK /\ JobOK /\ GcOK
      /\ local \in [Slots -> Contents] /\ remote \in [Slots -> Contents]
      /\ 0 \in Contents /\ 0 \in Slots /\ Siblings \subseteq Slots
      /\ Contents' = Contents /\ MaxEdits' = MaxEdits /\ Jobs' = Jobs
      /\ job \in Jobs /\ job.slot \in Slots /\ job.n \in Siblings
      /\ job.l \in Contents /\ job.r \in Contents /\ kept \subseteq Contents
  BY <1>s, SlotsAre, SameType DEF TypeInv, FilesOK, JobOK, Jobs
<1>j. ASSUME \/ job' = job \/ job' = NoJob
             \/ job' = [NoJob EXCEPT !.pc = "pass", !.by = "bisync"]
             \/ \E pc \in {"note", "prune", "unjournal", "win"} : job' = [job EXCEPT !.pc = pc]
      PROVE  job' \in Jobs
  BY <1>j, <1>s, <1>0, JobsAre
<1>1. CASE NoteLoser
  <2>1. LoserEntry \in Entry
    BY <1>0 DEF LoserEntry, Entry
  <2>2. EntriesOK' /\ Journaled' = Journaled \union {job.n}
    BY <1>0, <1>1, <1>s, <2>1, PutType DEF NoteLoser
  <2>3. FilesOK'
    BY <1>0, <1>1, <1>s, SameType DEF NoteLoser, users
  <2>4. job' \in Jobs
    BY <1>1, <1>j DEF NoteLoser, Goes, Finish
  <2>5. JobOK'
    BY <1>0, <1>1, <1>s, <2>4, SameType DEF NoteLoser, JobOK
  <2>6. GcOK'
    <3>1. evicting = {}
      BY <1>0, <1>1 DEF NoteLoser, GcOK
    <3>2. CASE job.by = "pull"
      <4>1. evicting' = SelectEvictions' /\ job'.pc = "prune"
        BY <1>0, <1>1, <3>2 DEF NoteLoser, Goes, Jobs
      <4> QED
        BY <4>1 DEF GcOK, SelectEvictions
    <3>3. CASE job.by # "pull"
      <4>1. job' = NoJob \/ job' = [NoJob EXCEPT !.pc = "pass", !.by = "bisync"]
        BY <1>1, <3>3 DEF NoteLoser, Finish
      <4>2. NoJob.pc = "idle" /\ [NoJob EXCEPT !.pc = "pass", !.by = "bisync"].pc = "pass"
        BY DEF NoJob
      <4>3. evicting' = {}
        BY <1>1, <3>1, <3>3 DEF NoteLoser
      <4> QED
        BY <4>1, <4>2, <4>3 DEF GcOK
    <3> QED
      BY <3>2, <3>3
  <2> QED
    BY <1>s, <2>2, <2>3, <2>5, <2>6 DEF TypeInv
<1>2. CASE RecordWinner
  <2>1. WinnerEntry \in Entry
    BY <1>0 DEF WinnerEntry, Entry
  <2>2. EntriesOK'
    BY <1>0, <1>2, <1>s, <2>1, PutType DEF RecordWinner
  <2>3. FilesOK'
    BY <1>0, <1>2, <1>s, SameType DEF RecordWinner, users
  <2>4. job' \in Jobs
    BY <1>2, <1>j DEF RecordWinner, Goes
  <2>5. JobOK'
    BY <1>0, <1>2, <1>s, <2>4, SameType DEF RecordWinner, JobOK
  <2>6. GcOK'
    <3>1. evicting = {} /\ evicting' = {}
      BY <1>0, <1>2 DEF RecordWinner, GcOK
    <3>2. job'.pc # "unjournal"
      BY <1>0, <1>2 DEF RecordWinner, Goes, NoJob, Jobs
    <3> QED
      BY <3>1, <3>2 DEF GcOK
  <2> QED
    BY <1>s, <2>2, <2>3, <2>5, <2>6 DEF TypeInv
<1>3. CASE Age
  <2>1. FilesOK' /\ JobOK'
    BY <1>0, <1>3, <1>s, SameType DEF Age, users
  <2>2. Journaled' = Journaled /\ expired' \subseteq Journaled \intersect Siblings
    BY <1>0, <1>3 DEF Age, Journaled, EntriesOK
  <2>3. OrderInv'
    BY <1>0, <1>3, <2>2 DEF Age, EntriesOK, OrderInv
  <2>4. EntriesOK'
    BY <1>0, <1>3, <1>s, <2>2, <2>3, SameType DEF Age, EntriesOK
  <2>5. GcOK'
    BY <1>0, <1>3, <2>2 DEF Age, GcOK
  <2> QED
    BY <1>s, <2>1, <2>4, <2>5 DEF TypeInv
<1>4. CASE RemoveEvicted
  <2>1. NextEvicted \in evicting /\ NextEvicted \in Slots
    BY <1>0, <1>4, NextEvictedIs DEF RemoveEvicted, GcOK, EntriesOK
  <2>2. EntriesOK' /\ Journaled' = Journaled
    BY <1>0, <1>4, <1>s, SameType DEF RemoveEvicted
  <2>3. FilesOK'
    BY <1>0, <1>4, <2>1, DeleteFileType DEF RemoveEvicted, RemoveLocal, FilesOK, users
  <2>4. job' \in Jobs /\ job'.pc = "unjournal"
    BY <1>0, <1>4, <1>j DEF RemoveEvicted, Goes, Jobs
  <2>5. JobOK' /\ GcOK'
    BY <1>0, <1>4, <1>s, <2>2, <2>4, SameType DEF RemoveEvicted, JobOK, GcOK
  <2> QED
    BY <1>s, <2>2, <2>3, <2>5 DEF TypeInv
<1>5. CASE DeleteEntry
  <2>1. NextEvicted \in evicting /\ NextEvicted \in Slots
    BY <1>0, <1>5, NextEvictedIs DEF DeleteEntry, GcOK, EntriesOK
  <2>2. EntriesOK' /\ Journaled \ {NextEvicted} \subseteq Journaled'
    <3>1. CASE UNCHANGED entries
      BY <3>1, <1>0, <1>s, SameType
    <3>2. CASE Delete(NextEvicted)
      BY <3>2, <1>0, <1>s, <2>1, DeleteType
    <3> QED
      BY <1>5, <3>1, <3>2 DEF DeleteEntry
  <2>3. FilesOK'
    BY <1>0, <1>5, <1>s, SameType DEF DeleteEntry, users
  <2>4. job' \in Jobs /\ job'.pc = "prune"
    BY <1>0, <1>5, <1>j DEF DeleteEntry, Goes, Jobs
  <2>5. JobOK' /\ GcOK'
    BY <1>0, <1>5, <1>s, <2>2, <2>4, SameType DEF DeleteEntry, JobOK, GcOK
  <2> QED
    BY <1>s, <2>2, <2>3, <2>5 DEF TypeInv
<1>6. CASE PruneDone
  <2>1. FilesOK' /\ EntriesOK'
    BY <1>0, <1>6, <1>s, SameType DEF PruneDone, users
  <2>2. job' \in Jobs /\ job'.pc # "unjournal" /\ evicting' = {}
    BY <1>0, <1>6, <1>j DEF PruneDone, Goes, NoJob, Jobs
  <2>3. JobOK' /\ GcOK'
    BY <1>0, <1>6, <1>s, <2>2, SameType DEF PruneDone, JobOK, GcOK
  <2> QED
    BY <1>s, <2>1, <2>3 DEF TypeInv
<1>7. CASE RemoteFails
  <2>1. FilesOK' /\ EntriesOK' /\ Journaled' = Journaled
    BY <1>0, <1>7, <1>s, SameType DEF RemoteFails, users
  <2>2. job' \in Jobs /\ evicting' \subseteq evicting
    BY <1>0, <1>7, <1>j DEF RemoteFails, Finish
  <2>3. /\ evicting' # {} => job'.pc \in {"prune", "unjournal"}
        /\ job'.pc # "unjournal"
    <3>1. CASE job' = job
      BY <1>0, <1>7, <3>1, <2>2 DEF RemoteFails, GcOK
    <3>2. CASE job' # job
      <4>1. evicting' = {}
        BY <1>0, <1>7, <3>2 DEF RemoteFails, GcOK
      <4>2. job' = NoJob \/ job' = [NoJob EXCEPT !.pc = "pass", !.by = "bisync"]
        BY <1>7, <3>2 DEF RemoteFails, Finish
      <4>3. NoJob.pc = "idle" /\ [NoJob EXCEPT !.pc = "pass", !.by = "bisync"].pc = "pass"
        BY DEF NoJob
      <4> QED
        BY <4>1, <4>2, <4>3
    <3> QED
      BY <3>1, <3>2
  <2>4. JobOK' /\ GcOK'
    BY <1>0, <1>7, <1>s, <2>1, <2>2, <2>3, SameType DEF RemoteFails, JobOK, GcOK
  <2> QED
    BY <1>s, <2>1, <2>4 DEF TypeInv
<1> QED
  BY <1>1, <1>2, <1>3, <1>4, <1>5, <1>6, <1>7

\* The bisync pass and a crash keep it.
LEMMA PassType ==
  ASSUME TypeInv,
         \/ BisyncDiff \/ BisyncEnd \/ Crash
         \/ \E d \in diffs : BisyncUpload(d) \/ BisyncDownload(d) \/ BisyncConflict(d)
  PROVE  TypeInv'
<1>s. setup \in Setups /\ setup' = setup
  BY DEF TypeInv, BisyncDiff, BisyncEnd, Crash, BisyncUpload, BisyncDownload, BisyncConflict, users
<1>0. /\ FilesOK /\ EntriesOK /\ JobOK /\ GcOK
      /\ local \in [Slots -> Contents] /\ remote \in [Slots -> Contents]
      /\ 0 \in Contents /\ 0 \in Slots /\ Siblings \subseteq Slots
      /\ Contents' = Contents /\ MaxEdits' = MaxEdits /\ Jobs' = Jobs /\ Diffs' = Diffs
      /\ job \in Jobs /\ diffs \subseteq Diffs
  BY <1>s, SlotsAre, SameType DEF TypeInv, FilesOK, JobOK
<1>j. /\ NoJob \in Jobs /\ NoJob.pc = "idle"
      /\ [NoJob EXCEPT !.pc = "pass", !.by = "bisync"] \in Jobs
      /\ [NoJob EXCEPT !.pc = "pass", !.by = "bisync"].pc = "pass"
  BY <1>s, <1>0, JobsAre DEF NoJob
<1>1. CASE BisyncDiff
  <2>1. FilesOK' /\ EntriesOK' /\ Journaled' = Journaled
    BY <1>0, <1>1, <1>s, SameType DEF BisyncDiff, users
  <2>2. diffs' \subseteq Diffs
    BY <1>0, <1>1 DEF BisyncDiff, Diffs, KindOf
  <2>3. JobOK' /\ GcOK'
    BY <1>0, <1>1, <1>j, <2>1, <2>2 DEF BisyncDiff, JobOK, GcOK
  <2> QED
    BY <1>s, <2>1, <2>3 DEF TypeInv
<1>2. CASE BisyncEnd
  <2>1. FilesOK' /\ EntriesOK' /\ Journaled' = Journaled
    BY <1>0, <1>2, <1>s, SameType DEF BisyncEnd, users
  <2>2. /\ job' \in Jobs /\ job'.pc # "unjournal"
        /\ evicting' # {} => job'.pc = "prune"
    BY <1>0, <1>2, <1>s, <1>j, JobsAre DEF BisyncEnd, Goes, Jobs
  <2>3. evicting' \subseteq Journaled \intersect Siblings
    BY <1>2 DEF BisyncEnd, SelectEvictions
  <2>4. JobOK' /\ GcOK'
    BY <1>0, <1>2, <2>1, <2>2, <2>3 DEF BisyncEnd, JobOK, GcOK
  <2> QED
    BY <1>s, <2>1, <2>4 DEF TypeInv
<1>3. CASE Crash
  <2>1. EntriesOK' /\ Journaled' = Journaled
    BY <1>0, <1>3, <1>s, SameType DEF Crash
  <2>2. Changed(job.slot) \in Feed
    BY <1>0 DEF Changed, Feed, Jobs
  <2>3. <<Changed(job.slot)>> \o feed \in Seq(Feed)
    BY <1>0, <2>2 DEF FilesOK
  <2>4. FilesOK'
    BY <1>0, <1>3, <2>3 DEF Crash, FilesOK, users
  <2>5. JobOK' /\ GcOK'
    BY <1>0, <1>3, <1>j, <2>1 DEF Crash, JobOK, GcOK
  <2> QED
    BY <1>s, <2>1, <2>4, <2>5 DEF TypeInv
<1>4. ASSUME NEW d \in diffs, BisyncUpload(d) PROVE TypeInv'
  <2>1. d \in Diffs /\ d.slot \in Slots /\ d.l \in Contents /\ d.r \in Contents
    BY <1>0 DEF Diffs
  <2>2. [l |-> d.l, r |-> local[d.slot], md5 |-> FALSE, side |-> "local"] \in Entry
    BY <1>0, <2>1 DEF Entry
  <2>3. EntriesOK' /\ Journaled \subseteq Journaled'
    <3>1. CASE UNCHANGED entries
      BY <3>1, <1>0, <1>s, SameType
    <3>2. CASE ~UNCHANGED entries
      BY <3>2, <1>0, <1>4, <1>s, <2>1, <2>2, PutType DEF BisyncUpload
    <3> QED
      BY <3>1, <3>2
  <2>4. FilesOK'
    BY <1>0, <1>4, <2>1, UploadType DEF BisyncUpload, FilesOK, users
  <2>5. JobOK' /\ GcOK'
    BY <1>0, <1>4, <2>3 DEF BisyncUpload, Take, JobOK, GcOK
  <2> QED
    BY <1>s, <2>3, <2>4, <2>5 DEF TypeInv
<1>5. ASSUME NEW d \in diffs, BisyncDownload(d) PROVE TypeInv'
  <2>1. d \in Diffs /\ d.slot \in Slots /\ d.l \in Contents /\ d.r \in Contents
    BY <1>0 DEF Diffs
  <2>2. [l |-> d.r, r |-> d.r, md5 |-> FALSE, side |-> "remote"] \in Entry
    BY <1>0, <2>1 DEF Entry
  <2>3. EntriesOK' /\ Journaled \subseteq Journaled'
    <3>1. CASE UNCHANGED entries
      BY <3>1, <1>0, <1>s, SameType
    <3>2. CASE ~UNCHANGED entries
      BY <3>2, <1>0, <1>5, <1>s, <2>1, <2>2, PutType DEF BisyncDownload
    <3> QED
      BY <3>1, <3>2
  <2>4. FilesOK'
    BY <1>0, <1>5, <2>1 DEF BisyncDownload, FilesOK, users
  <2>5. JobOK' /\ GcOK'
    BY <1>0, <1>5, <2>3 DEF BisyncDownload, Take, JobOK, GcOK
  <2> QED
    BY <1>s, <2>3, <2>4, <2>5 DEF TypeInv
<1>6. ASSUME NEW d \in diffs, BisyncConflict(d) PROVE TypeInv'
  <2>1. d \in Diffs /\ d.slot \in Slots /\ d.l \in Contents /\ d.r \in Contents
    BY <1>0 DEF Diffs
  <2>2. NewerWins(d.l, d.r) \in {"local", "remote"} /\ NextOldN \in Siblings
    BY <1>6, NextOldNIs DEF BisyncConflict, NewerWins
  <2>3. job' \in Jobs /\ job'.pc = "aside"
    BY <1>0, <1>6, <2>1, <2>2 DEF BisyncConflict, Jobs
  <2>4. FilesOK' /\ EntriesOK' /\ Journaled' = Journaled
    BY <1>0, <1>6, <1>s, SameType DEF BisyncConflict, users
  <2>5. evicting = {}
    BY <1>0, <1>6 DEF BisyncConflict, Take, GcOK
  <2>6. JobOK' /\ GcOK'
    BY <1>0, <1>6, <2>3, <2>4, <2>5 DEF BisyncConflict, Take, JobOK, GcOK
  <2> QED
    BY <1>s, <2>4, <2>6 DEF TypeInv
<1> QED
  BY <1>1, <1>2, <1>3, <1>4, <1>5, <1>6

\* The type invariant is inductive.
LEMMA NextType == TypeInv /\ [Next]_vars => TypeInv'
<1>1. ASSUME TypeInv, UNCHANGED vars PROVE TypeInv'
  <2>1. setup' = setup /\ UNCHANGED <<job, evicting>>
    BY <1>1 DEF vars, users
  <2>2. FilesOK' /\ EntriesOK' /\ Journaled' = Journaled /\ JobOK'
    BY <1>1, <2>1, SameType DEF vars, users, TypeInv
  <2> QED
    BY <1>1, <2>1, <2>2 DEF TypeInv, GcOK
<1> QED
  BY <1>1, EventType, PollType, ResolveType, RecordType, PassType DEF Next, NothingToDo

\* No step changes the configuration.
LEMMA SetupStep == [Next]_vars => setup' = setup
  BY DEF Next, vars, users, LocalEdit, RemoteEdit, PushFile,
     NothingToDo, PullSkip, PullDownload, PullConflict, PullDelete, LocalAside, RemoteAside, NoteLoser,
     RemoveEvicted, PruneDone, FetchWinner, RecordWinner, RemoteFails, FileMissing, DeleteEntry, Age,
     BisyncDiff, BisyncEnd, Crash, BisyncUpload, BisyncDownload, BisyncConflict,
     FireEvent, PushSibling, PushRemoved, TakesEvent, StoreFails

\* An event is raised for a sibling only.
LEMMA NextEvents == TypeInv /\ EventsOK /\ [Next]_vars => EventsOK'
<1> SUFFICES ASSUME TypeInv, EventsOK, [Next]_vars PROVE EventsOK'
  OBVIOUS
<1>0. /\ job.slot \in Slots /\ job.n \in Slots /\ \A d \in diffs : d.slot \in Slots
      /\ \A s \in Slots : s \in Siblings \/ s = 0
  BY SlotsAre, RetentionAssumption DEF TypeInv, JobOK, Jobs, Diffs, Slots, Siblings
<1>r. Resolvers' = Resolvers
  BY SetupStep DEF Resolvers
<1>1. ASSUME NEW s \in Slots, NEW op \in {"create", "remove"}, events' = Raised(s, op) PROVE EventsOK'
  BY <1>0, <1>1, <1>r DEF EventsOK, Raised
<1>2. CASE events' \subseteq events
  BY <1>2, <1>r DEF EventsOK
<1>3. ASSUME NEW s \in Siblings, FireEvent(s) \/ PushSibling(s) \/ PushRemoved(s) PROVE EventsOK'
  BY <1>3, <1>r DEF EventsOK, FireEvent, PushSibling, PushRemoved, TakesEvent
<1>4. CASE \/ LocalEdit \/ RemoteEdit \/ PushFile \/ Age \/ NothingToDo \/ UNCHANGED vars
           \/ \E s \in Slots : PullSkip(s) \/ PullConflict(s)
           \/ RemoteAside \/ NoteLoser \/ DeleteEntry \/ PruneDone \/ RecordWinner
           \/ RemoteFails \/ StoreFails \/ FileMissing \/ BisyncDiff \/ BisyncEnd \/ Crash
           \/ \E d \in diffs : BisyncUpload(d) \/ BisyncConflict(d)
  BY <1>2, <1>4 DEF LocalEdit, RemoteEdit, PushFile, Age, NothingToDo, vars, files, PullSkip,
     PullConflict, RemoteAside, NoteLoser, DeleteEntry, PruneDone, RecordWinner, RemoteFails,
     StoreFails, FileMissing, BisyncDiff, BisyncEnd, Crash, BisyncUpload, BisyncConflict
<1>5. ASSUME NEW s \in Slots, PullDownload(s) \/ PullDelete(s) PROVE EventsOK'
  BY <1>1, <1>2, <1>5 DEF PullDownload, PullDelete
<1>6. CASE LocalAside \/ FetchWinner
  BY <1>0, <1>1, <1>2, <1>6 DEF LocalAside, FetchWinner
<1>7. CASE RemoveEvicted
  <2>1. NextEvicted \in Slots
    BY <1>7, SlotsAre, NextEvictedIs DEF RemoveEvicted, TypeInv, GcOK, EntriesOK
  <2> QED
    BY <1>1, <1>2, <1>7, <2>1 DEF RemoveEvicted, RemoveLocal
<1>8. ASSUME NEW d \in diffs, BisyncDownload(d) PROVE EventsOK'
  BY <1>0, <1>1, <1>2, <1>8 DEF BisyncDownload
<1> QED
  BY <1>3, <1>4, <1>5, <1>6, <1>7, <1>8 DEF Next

(***************************************************************************)
(* Every variable stays in its type, for every configuration, and whatever *)
(* fails: the GC evicts journaled siblings only, and every number that     *)
(* NextOldN hands out is a sibling's.                                      *)
(***************************************************************************)
THEOREM TypeCorrect == Spec => []TypeOK
<1>1. Init => EventsOK
  BY DEF Init, EventsOK
<1> QED
  BY <1>1, InitType, NextType, NextEvents, TypeInvIs, PTL DEF Spec

----------------------------------------------------------------------------
(* What the GC evicts.                                                     *)

\* A sibling older than one that has expired has expired.
ExpiredInv ==
    \A m \in expired : \A s \in Journaled \intersect Siblings : s \in older[m] => s \in expired

(***************************************************************************)
(* The count that justifies an eviction: of the siblings newer than s, and *)
(* not to be evicted themselves, there are max_per_file.  (When the GC has *)
(* evicted some of the newer ones, the number of newer ones has gone down, *)
(* so that the property alone is not inductive.)                           *)
(***************************************************************************)
Outnumbered(s, T) == MaxPerFile > 0 /\ Cardinality(Newer(s) \ T) >= MaxPerFile
ReasonInv == \A s \in evicting : s \in expired \/ Outnumbered(s, evicting)

\* The file of the eviction under way is gone.
FileGone(s) == (IF journal[s].side = "remote" THEN remote ELSE local)[s] = 0
GoneInv == job.pc = "unjournal" => FileGone(NextEvicted)

GcInv == ExpiredInv /\ ReasonInv /\ GoneInv

\* There is only one that is to be evicted next.
LEMMA NextEvictedUnique ==
  TypeInv => \A s \in evicting : (\A m \in evicting : s \notin older[m]) => s = NextEvicted
<1> SUFFICES ASSUME TypeInv, NEW s \in evicting, \A m \in evicting : s \notin older[m]
             PROVE  s = NextEvicted
  OBVIOUS
<1>1. NextEvicted \in evicting /\ \A m \in evicting : NextEvicted \notin older[m]
  BY NextEvictedIs DEF TypeInv, EntriesOK, GcOK
<1> QED
  BY <1>1 DEF TypeInv, EntriesOK, GcOK, OrderInv

\* The max_per_file newest siblings are never outnumbered, so that those which
\* outnumber an older one stay.
LEMMA Selected ==
  TypeInv /\ ExpiredInv
    => \A s \in SelectEvictions : s \in expired \/ Outnumbered(s, SelectEvictions)
<1> SUFFICES ASSUME TypeInv, ExpiredInv, NEW s \in SelectEvictions, s \notin expired
             PROVE  Outnumbered(s, SelectEvictions)
  OBVIOUS
<1> DEFINE k == MaxPerFile
           J == Journaled \intersect Siblings
           K == {m \in J : Cardinality(Newer(m)) < k}
<1>1. k \in Nat /\ k > 0 /\ s \in J /\ Cardinality(Newer(s)) >= k
  BY RetentionAssumption DEF SelectEvictions, TypeInv, MaxPerFile
<1>2. OrderInv /\ Siblings \subseteq Slots
  BY SlotsAre DEF TypeInv, EntriesOK
<1>3. Newer(s) \subseteq J
  BY <1>1, <1>2 DEF Newer, OrderInv, Journaled
<1>4. \A m \in Newer(s) : m \notin expired
  BY <1>1 DEF Newer, ExpiredInv
<1>5. K \subseteq Newer(s)
  <2> SUFFICES ASSUME NEW m \in K PROVE s \in older[m]
    BY DEF Newer
  <2>1. m # s
    BY <1>1, NewerFinite
  <2>2. ASSUME m \in older[s] PROVE FALSE
    <3>1. Cardinality(Newer(s)) < Cardinality(Newer(m))
      BY <1>1, <1>2, <2>2, NewerFewer
    <3> QED
      BY <1>1, <3>1, NewerFinite
  <2> QED
    BY <1>1, <1>2, <2>1, <2>2 DEF OrderInv
<1>6. K \subseteq Newer(s) \ SelectEvictions
  <2>1. \A m \in K : m \notin SelectEvictions
    <3> SUFFICES ASSUME NEW m \in K PROVE m \notin SelectEvictions
      OBVIOUS
    <3>1. ~(Cardinality(Newer(m)) >= k)
      BY <1>1, NewerFinite
    <3>2. m \notin expired
      BY <1>4, <1>5
    <3> QED
      BY <3>1, <3>2 DEF SelectEvictions
  <2> QED
    BY <1>5, <2>1
<1>7. IsFiniteSet(Newer(s) \ SelectEvictions)
  BY NewerFinite, FS_Subset
<1>8. IsFiniteSet(K) /\ Cardinality(K) \in Nat
        /\ Cardinality(K) <= Cardinality(Newer(s) \ SelectEvictions)
        /\ Cardinality(Newer(s) \ SelectEvictions) \in Nat
  BY <1>6, <1>7, FS_Subset, FS_CardinalityType
<1>9. Cardinality(K) >= k
  <2> SUFFICES ASSUME Cardinality(K) < k PROVE FALSE
    BY <1>1, <1>8
  <2>1. s \in J \ K
    BY <1>1, NewerFinite
  <2>2. PICK m \in J \ K : \A u \in J \ K : m \notin older[u]
    BY <1>2, <2>1, NewestOf
  <2>3. Newer(m) \in SUBSET K
    BY <1>2, <2>2 DEF Newer, OrderInv, Journaled
  <2>4. Cardinality(Newer(m)) <= Cardinality(K)
    BY <1>8, <2>3, FS_Subset
  <2>5. Cardinality(Newer(m)) < k
    BY <1>1, <1>8, <2>4, NewerFinite
  <2> QED
    BY <2>2, <2>5
<1> HIDE DEF K, k
<1> QED
  BY <1>1, <1>8, <1>9 DEF Outnumbered, k

\* What a step may do to the journal.
LEMMA EntriesStep ==
  ASSUME TypeInv, [Next]_vars
  PROVE  \/ UNCHANGED entries \/ Age
         \/ \E s \in Slots : \/ Delete(s) /\ (DeleteEntry \/ PullDelete(s))
                           \/ \E e \in Entry : Put(s, e)
<1>0. /\ job.slot \in Slots /\ job.n \in Slots /\ 0 \in Slots
      /\ local \in [Slots -> Contents] /\ remote \in [Slots -> Contents] /\ 0 \in Contents
      /\ job.l \in Contents /\ job.r \in Contents
      /\ \A d \in diffs : d.slot \in Slots /\ d.l \in Contents /\ d.r \in Contents
  BY SlotsAre DEF TypeInv, FilesOK, JobOK, Jobs, Diffs
<1>e. \A l, r \in Contents : \A m \in BOOLEAN :
         \A side \in {"local", "remote"} : [l |-> l, r |-> r, md5 |-> m, side |-> side] \in Entry
  BY DEF Entry
<1>1. CASE \/ LocalEdit \/ RemoteEdit \/ NothingToDo \/ UNCHANGED vars
           \/ \E s \in Slots : PullSkip(s) \/ PullConflict(s) \/ PullDelete(s)
  BY <1>0, <1>1 DEF LocalEdit, RemoteEdit, NothingToDo, PullSkip, PullConflict, PullDelete, vars
<1>2. CASE \/ LocalAside \/ RemoteAside \/ RemoveEvicted \/ PruneDone
           \/ FetchWinner \/ RemoteFails \/ StoreFails \/ FileMissing
  BY <1>0, <1>2 DEF LocalAside, RemoteAside, RemoveEvicted, PruneDone,
                    FetchWinner, RemoteFails, StoreFails, FileMissing
<1>3. CASE DeleteEntry
  <2>1. NextEvicted \in Slots
    BY <1>3, SlotsAre, NextEvictedIs DEF DeleteEntry, TypeInv, GcOK, EntriesOK
  <2> QED
    BY <1>3, <2>1 DEF DeleteEntry
<1>4. CASE BisyncDiff \/ BisyncEnd \/ Crash \/ \E d \in diffs : BisyncConflict(d)
  BY <1>0, <1>4 DEF BisyncDiff, BisyncEnd, Crash, BisyncConflict
<1>5. CASE PushFile \/ NoteLoser \/ RecordWinner
  <2>1. LoserEntry \in Entry /\ WinnerEntry \in Entry
    BY <1>0 DEF LoserEntry, WinnerEntry, Entry
  <2> QED
    BY <1>0, <1>5, <1>e, <2>1 DEF PushFile, PushEntry, NoteLoser, RecordWinner
<1>6. CASE \E s \in Slots : PullDownload(s)
  BY <1>0, <1>6, <1>e DEF PullDownload
<1>7. CASE \E d \in diffs : BisyncUpload(d) \/ BisyncDownload(d)
  BY <1>0, <1>7, <1>e DEF BisyncUpload, BisyncDownload
<1>8. CASE \E s \in Siblings : FireEvent(s) \/ PushSibling(s) \/ PushRemoved(s)
  <2>1. Siblings \subseteq Slots
    BY SlotsAre
  <2> QED
    BY <1>0, <1>8, <1>e, <2>1 DEF FireEvent, PushSibling, PushRemoved, PushEntry
<1> QED
  BY <1>1, <1>2, <1>3, <1>4, <1>5, <1>6, <1>7, <1>8 DEF Next

\* Siblings expire from the oldest on, and a new entry is the newest.
LEMMA NextExpired == TypeInv /\ ExpiredInv /\ [Next]_vars => ExpiredInv'
<1> SUFFICES ASSUME TypeInv, ExpiredInv, [Next]_vars PROVE ExpiredInv'
  OBVIOUS
<1>0. OrderInv /\ Siblings \subseteq Slots /\ expired \subseteq Siblings /\ 0 \notin Siblings
  BY SlotsAre DEF TypeInv, EntriesOK
<1>1. CASE UNCHANGED entries
  BY <1>1 DEF entries, ExpiredInv, Journaled
<1>2. CASE Age
  BY <1>0, <1>2 DEF Age, ExpiredInv, Journaled
<1>3. ASSUME NEW s \in Slots, Delete(s) \/ \E e \in Entry : Put(s, e) PROVE ExpiredInv'
  <2>1. expired' = expired \ {s}
    BY <1>3 DEF Delete, Put
  <2>2. \A m \in expired' : older'[m] = older[m] \ {s}
    BY <1>0, <1>3, <2>1 DEF Delete, Put
  <2> QED
    BY <1>0, <2>1, <2>2 DEF ExpiredInv, OrderInv
<1> QED
  BY <1>1, <1>2, <1>3, EntriesStep

\* While the GC is at work, only these steps take place.
LEMMA GcSteps ==
  ASSUME TypeInv, [Next]_vars, job.pc \in {"prune", "unjournal"}
  PROVE  \/ LocalEdit \/ RemoteEdit \/ PushFile \/ Age \/ UNCHANGED vars
         \/ \E s \in Siblings : FireEvent(s)
         \/ RemoveEvicted \/ DeleteEntry \/ PruneDone \/ RemoteFails \/ Crash
  BY DEF Next, PullSkip, PullDownload, PullConflict, PullDelete, Delivered, NothingToDo,
         LocalAside, RemoteAside, NoteLoser, FetchWinner, RecordWinner, FileMissing, StoreFails,
         BisyncDiff, BisyncEnd, BisyncUpload, BisyncDownload, BisyncConflict, Take,
         PushSibling, PushRemoved, TakesEvent

\* A step outside the GC leaves nothing to evict, or selects it.
LEMMA OtherSteps ==
  ASSUME TypeInv, [Next]_vars, job.pc \notin {"prune", "unjournal"}
  PROVE  \/ evicting' = {}
         \/ NoteLoser /\ evicting' = SelectEvictions'
         \/ BisyncEnd /\ evicting' = SelectEvictions
<1>0. evicting = {}
  BY DEF TypeInv, GcOK
<1>1. CASE evicting' = evicting
  BY <1>0, <1>1
<1>2. CASE NoteLoser \/ BisyncEnd \/ Crash
  BY <1>0, <1>2 DEF NoteLoser, BisyncEnd, Crash
<1>3. CASE \/ RemoveEvicted \/ DeleteEntry \/ PruneDone \/ RemoteFails
  BY <1>0, <1>3 DEF RemoveEvicted, DeleteEntry, PruneDone, RemoteFails
<1>4. CASE \/ LocalEdit \/ RemoteEdit \/ PushFile \/ Age \/ NothingToDo \/ UNCHANGED vars
           \/ \E s \in Slots : PullSkip(s) \/ PullDownload(s) \/ PullConflict(s) \/ PullDelete(s)
  BY <1>1, <1>4 DEF LocalEdit, RemoteEdit, PushFile, Age, NothingToDo, vars,
               PullSkip, PullDownload, PullConflict, PullDelete
<1>5. CASE \/ LocalAside \/ RemoteAside \/ FetchWinner \/ RecordWinner \/ FileMissing \/ BisyncDiff
           \/ \E d \in diffs : BisyncUpload(d) \/ BisyncDownload(d) \/ BisyncConflict(d)
  BY <1>1, <1>5 DEF LocalAside, RemoteAside, FetchWinner, RecordWinner, FileMissing, BisyncDiff,
               BisyncUpload, BisyncDownload, BisyncConflict
<1>6. CASE \/ StoreFails
           \/ \E s \in Siblings : FireEvent(s) \/ PushSibling(s) \/ PushRemoved(s)
  BY <1>1, <1>6 DEF StoreFails, FireEvent, PushSibling, PushRemoved, TakesEvent
<1> QED
  BY <1>2, <1>3, <1>4, <1>5, <1>6 DEF Next

\* Each eviction keeps its reason: those that outnumber a sibling are not
\* evicted, and no step of anybody else makes one of them older.
LEMMA NextReason ==
  TypeInv /\ TypeInv' /\ ExpiredInv /\ ExpiredInv' /\ ReasonInv /\ [Next]_vars => ReasonInv'
<1> SUFFICES ASSUME TypeInv, TypeInv', ExpiredInv, ExpiredInv', ReasonInv, [Next]_vars
             PROVE  ReasonInv'
  OBVIOUS
<1>0. /\ OrderInv /\ Siblings \subseteq Slots /\ 0 \in Slots /\ 0 \notin Siblings
      /\ evicting \subseteq Siblings /\ expired \subseteq Siblings
      /\ MaxPerFile \in Nat
  BY SlotsAre, RetentionAssumption DEF TypeInv, EntriesOK, GcOK, MaxPerFile
<1>1. CASE job.pc \notin {"prune", "unjournal"}
  <2>1. CASE evicting' = {}
    BY <2>1 DEF ReasonInv
  <2>2. CASE evicting' = SelectEvictions'
    <3>1. (\A s \in SelectEvictions : s \in expired \/ Outnumbered(s, SelectEvictions))'
      BY Selected, PTL
    <3> QED
      BY <2>2, <3>1 DEF ReasonInv
  <2>3. CASE BisyncEnd /\ evicting' = SelectEvictions
    <3>1. \A s \in SelectEvictions : s \in expired \/ Outnumbered(s, SelectEvictions)
      BY Selected
    <3> QED
      BY <2>3, <3>1 DEF BisyncEnd, entries, users, ReasonInv, Outnumbered, MaxPerFile, Newer
  <2> QED
    BY <1>1, <2>1, <2>2, <2>3, OtherSteps
<1>2. CASE job.pc \in {"prune", "unjournal"}
  <2>1. ASSUME evicting' \subseteq evicting, setup' = setup,
               \A s \in evicting' : /\ s \in expired => s \in expired'
                                    /\ Newer(s) \ evicting \subseteq Newer(s)' \ evicting'
        PROVE  ReasonInv'
    <3> SUFFICES ASSUME NEW s \in evicting', s \notin expired' PROVE Outnumbered(s, evicting)'
      BY DEF ReasonInv
    <3>1. MaxPerFile > 0 /\ Cardinality(Newer(s) \ evicting) >= MaxPerFile
      BY <2>1 DEF ReasonInv, Outnumbered
    <3>2. IsFiniteSet(Newer(s)' \ evicting')
      <4>1. IsFiniteSet(Siblings) /\ (Newer(s)' \ evicting') \in SUBSET Siblings
        BY FiniteSlots DEF Newer
      <4> QED
        BY <4>1, FS_Subset
    <3>3. /\ Cardinality(Newer(s) \ evicting) <= Cardinality(Newer(s)' \ evicting')
          /\ Cardinality(Newer(s) \ evicting) \in Nat /\ Cardinality(Newer(s)' \ evicting') \in Nat
      BY <2>1, <3>2, FS_Subset, FS_CardinalityType
    <3>4. MaxPerFile' = MaxPerFile
      BY <2>1 DEF MaxPerFile
    <3>5. MaxPerFile' > 0 /\ Cardinality(Newer(s)' \ evicting') >= MaxPerFile'
      BY <1>0, <3>1, <3>3, <3>4
    <3> QED
      BY <3>5 DEF Outnumbered
  <2>2. CASE \/ LocalEdit \/ RemoteEdit \/ RemoveEvicted \/ PruneDone \/ RemoteFails \/ UNCHANGED vars
             \/ \E s \in Siblings : FireEvent(s)
    <3>1. UNCHANGED entries /\ evicting' \subseteq evicting /\ setup' = setup
      BY <2>2 DEF LocalEdit, RemoteEdit, RemoveEvicted, PruneDone, RemoteFails, vars, users, FireEvent
    <3>2. \A s \in evicting' : Newer(s)' = Newer(s) /\ expired' = expired
      BY <3>1 DEF entries, Newer
    <3> QED
      BY <2>1, <3>1, <3>2
  <2>3. CASE Age
    <3>1. older' = older /\ evicting' = evicting /\ setup' = setup /\ expired \subseteq expired'
      BY <2>3 DEF Age, users
    <3>2. \A s \in evicting' : Newer(s)' = Newer(s)
      BY <3>1 DEF Newer
    <3> QED
      BY <2>1, <3>1, <3>2
  <2>4. CASE PushFile
    <3>1. evicting' = evicting /\ setup' = setup /\ expired' = expired \ {0}
      BY <2>4 DEF PushFile, Put, users
    <3>2. \A m \in Siblings : older'[m] = older[m] \ {0}
      BY <1>0, <2>4 DEF PushFile, Put
    <3>3. \A s \in evicting' : Newer(s)' = Newer(s)
      BY <1>0, <3>1, <3>2 DEF Newer
    <3> QED
      BY <1>0, <2>1, <3>1, <3>3
  <2>5. CASE DeleteEntry
    <3>0. NextEvicted \in evicting /\ NextEvicted \in Slots
      BY <1>0, <2>5, NextEvictedIs DEF DeleteEntry, TypeInv, GcOK
    <3>1. evicting' = evicting \ {NextEvicted} /\ setup' = setup
      BY <2>5 DEF DeleteEntry, users
    <3>2. CASE UNCHANGED entries
      <4>1. \A s \in evicting' : Newer(s)' = Newer(s) /\ expired' = expired
        BY <3>2 DEF entries, Newer
      <4> QED
        BY <2>1, <3>1, <4>1
    <3>3. CASE Delete(NextEvicted)
      <4>1. expired' = expired \ {NextEvicted}
        BY <3>3 DEF Delete
      <4>2. \A m \in Siblings \ {NextEvicted} : older'[m] = older[m] \ {NextEvicted}
        BY <1>0, <3>3 DEF Delete
      <4>3. \A s \in evicting' : Newer(s) \ evicting \subseteq Newer(s)' \ evicting'
        BY <3>0, <3>1, <4>2 DEF Newer
      <4> QED
        BY <2>1, <3>1, <4>1, <4>3
    <3> QED
      BY <2>5, <3>2, <3>3 DEF DeleteEntry
  <2>6. CASE Crash
    BY <2>6 DEF Crash, ReasonInv
  <2> QED
    BY <1>2, <2>2, <2>3, <2>4, <2>5, <2>6, GcSteps
<1> QED
  BY <1>1, <1>2

\* Between the removal of a sibling's file and of its entry, nobody brings the
\* file back, and what is evicted next stays the same.
LEMMA NextGone == TypeInv /\ TypeInv' /\ GoneInv /\ [Next]_vars => GoneInv'
<1> SUFFICES ASSUME TypeInv, TypeInv', GoneInv, [Next]_vars, job'.pc = "unjournal"
             PROVE  FileGone(NextEvicted)'
  BY DEF GoneInv
<1>0. /\ OrderInv /\ Siblings \subseteq Slots /\ 0 \in Slots /\ 0 \notin Siblings
      /\ local \in [Slots -> Contents] /\ remote \in [Slots -> Contents]
      /\ journal \in [Slots -> Entry \union {NoEntry}] /\ job \in Jobs
      /\ evicting \subseteq Siblings /\ evicting' \subseteq Siblings /\ evicting' # {}
  BY SlotsAre DEF TypeInv, FilesOK, EntriesOK, JobOK, GcOK
<1>1. job.pc \in {"prune", "unjournal"}
  <2> SUFFICES ASSUME job.pc \notin {"prune", "unjournal"} PROVE FALSE
    BY <1>0
  <2>1. NoteLoser \/ BisyncEnd
    BY <1>0, OtherSteps
  <2>2. job' = [job EXCEPT !.pc = "prune"] \/ job' = NoJob
        \/ job' = [NoJob EXCEPT !.pc = "pass", !.by = "bisync"]
    BY <2>1 DEF NoteLoser, BisyncEnd, Goes, Finish
  <2>3. NoJob.pc = "idle" /\ [NoJob EXCEPT !.pc = "pass", !.by = "bisync"].pc = "pass"
        /\ [job EXCEPT !.pc = "prune"].pc = "prune"
    BY <1>0 DEF NoJob, Jobs
  <2> QED
    BY <2>2, <2>3
<1>2. ASSUME evicting' = evicting, evicting # {},
             \A s, m \in evicting : s \in older'[m] <=> s \in older[m]
      PROVE  NextEvicted' = NextEvicted /\ NextEvicted \in Siblings
  <2>1. NextEvicted \in evicting /\ \A m \in evicting : NextEvicted \notin older[m]
    BY <1>0, <1>2, NextEvictedIs
  <2>2. (\A s \in evicting : (\A m \in evicting : s \notin older[m]) => s = NextEvicted)'
    BY NextEvictedUnique, PTL
  <2> QED
    BY <1>0, <1>2, <2>1, <2>2
<1>3. CASE LocalEdit \/ RemoteEdit \/ Age \/ UNCHANGED vars \/ \E s \in Siblings : FireEvent(s)
  <2>1. /\ UNCHANGED <<evicting, older, journal, job>>
        /\ \A s \in Siblings : local'[s] = local[s] /\ remote'[s] = remote[s]
    <3>1. UNCHANGED <<evicting, older, journal, job>>
      BY <1>3 DEF LocalEdit, RemoteEdit, Age, vars, entries, FireEvent
    <3>2. local' = local \/ local' = [local EXCEPT ![0] = edits + 1]
      BY <1>3 DEF LocalEdit, RemoteEdit, Age, vars, files, FireEvent
    <3>3. remote' = remote \/ remote' = [remote EXCEPT ![0] = edits + 1]
      BY <1>3 DEF LocalEdit, RemoteEdit, Upload, Age, vars, files, FireEvent
    <3> QED
      BY <1>0, <3>1, <3>2, <3>3
  <2>2. NextEvicted' = NextEvicted /\ NextEvicted \in Siblings
    BY <1>0, <1>2, <2>1
  <2>3. FileGone(NextEvicted)
    BY <2>1 DEF GoneInv
  <2> QED
    BY <2>1, <2>2, <2>3 DEF FileGone
<1>4. CASE PushFile
  <2>1. /\ UNCHANGED <<evicting, job, local>>
        /\ \A s \in Siblings : remote'[s] = remote[s] /\ journal'[s] = journal[s]
        /\ \A s \in Siblings : older'[s] = older[s] \ {0}
    BY <1>0, <1>4 DEF PushFile, Upload, Put
  <2>2. NextEvicted' = NextEvicted /\ NextEvicted \in Siblings
    BY <1>0, <1>2, <2>1
  <2>3. FileGone(NextEvicted)
    BY <2>1 DEF GoneInv
  <2> QED
    BY <2>1, <2>2, <2>3 DEF FileGone
<1>5. CASE RemoveEvicted
  <2> DEFINE s == NextEvicted
  <2>1. evicting # {} /\ UNCHANGED <<evicting, older, journal>>
    BY <1>5 DEF RemoveEvicted, entries
  <2>2. NextEvicted' = s /\ s \in Siblings
    BY <1>2, <2>1
  <2>3. (IF journal[s].side = "remote" THEN remote'[s] ELSE local'[s]) = 0
    <3> HIDE DEF s
    <3>1. CASE journal[s].side = "remote"
      <4>1. DeleteFile(s)
        BY <1>5, <3>1 DEF RemoveEvicted, s
      <4> QED
        BY <1>0, <2>2, <3>1, <4>1 DEF DeleteFile
    <3>2. CASE journal[s].side # "remote"
      BY <1>0, <1>5, <2>2, <3>2 DEF RemoveEvicted, RemoveLocal, s
    <3> QED
      BY <3>1, <3>2
  <2> QED
    BY <2>1, <2>2, <2>3 DEF FileGone
<1>6. CASE DeleteEntry \/ PruneDone \/ RemoteFails \/ Crash
  <2>1. \/ job' = NoJob \/ job' = [NoJob EXCEPT !.pc = "pass", !.by = "bisync"]
        \/ \E pc \in {"prune", "win"} : job' = [job EXCEPT !.pc = pc]
        \/ job' = job /\ job.pc = "prune"
    BY <1>6 DEF DeleteEntry, PruneDone, RemoteFails, Crash, Goes, Finish
  <2>2. /\ NoJob.pc = "idle" /\ [NoJob EXCEPT !.pc = "pass", !.by = "bisync"].pc = "pass"
        /\ \A pc : [job EXCEPT !.pc = pc].pc = pc
    BY <1>0 DEF NoJob, Jobs
  <2> QED
    BY <2>1, <2>2
<1> QED
  BY <1>1, <1>3, <1>4, <1>5, <1>6, GcSteps

\* The GC's invariant is inductive, given the types.
LEMMA GcInductive ==
  /\ Init => TypeInv /\ GcInv
  /\ TypeInv /\ GcInv /\ [Next]_vars => TypeInv' /\ GcInv'
<1>1. Init => TypeInv /\ GcInv
  BY InitType DEF Init, GcInv, ExpiredInv, ReasonInv, GoneInv, NoJob
<1>2. TypeInv /\ GcInv /\ [Next]_vars => TypeInv' /\ GcInv'
  BY NextType, NextExpired, NextReason, NextGone DEF GcInv
<1> QED
  BY <1>1, <1>2

\* While the GC is at work, only its DeleteEntry removes a sibling's entry.
LEMMA OnlyDeleteEntry ==
  ASSUME TypeInv, [Next]_vars, job.pc \in {"prune", "unjournal"},
         NEW s \in Siblings, journal[s] # NoEntry, journal'[s] = NoEntry
  PROVE  DeleteEntry /\ s = NextEvicted /\ s \in evicting /\ UNCHANGED files
<1>0. /\ OrderInv /\ Siblings \subseteq Slots /\ 0 \in Slots /\ 0 \notin Siblings
      /\ evicting \subseteq Siblings /\ journal \in [Slots -> Entry \union {NoEntry}]
  BY SlotsAre DEF TypeInv, EntriesOK, GcOK
<1>1. CASE DeleteEntry
  <2>1. NextEvicted \in evicting
    BY <1>0, <1>1, NextEvictedIs DEF DeleteEntry, TypeInv, GcOK
  <2> QED
    BY <1>0, <1>1, <2>1 DEF DeleteEntry, Delete, entries
<1>2. CASE PushFile
  BY <1>0, <1>2 DEF PushFile, Put
<1>3. CASE \/ LocalEdit \/ RemoteEdit \/ Age \/ UNCHANGED vars \/ RemoveEvicted \/ PruneDone
           \/ RemoteFails \/ Crash \/ \E t \in Siblings : FireEvent(t)
  BY <1>3 DEF LocalEdit, RemoteEdit, Age, vars, RemoveEvicted, PruneDone, RemoteFails, Crash, entries,
              FireEvent
<1> QED
  BY <1>1, <1>2, <1>3, GcSteps

(***************************************************************************)
(* Whatever fails, wherever the process dies and whoever pushes or edits   *)
(* at the same time, the GC never takes a sibling's entry while the file   *)
(* is still on the side it was on.                                         *)
(***************************************************************************)
THEOREM EvictsFileFirst == Spec => EvictLeavesNoFile
<1>1. TypeInv /\ GcInv /\ [Next]_vars
        => [\A s \in Siblings :
              job.pc \in {"prune", "unjournal"} /\ journal[s] # NoEntry /\ journal'[s] = NoEntry
                => (IF journal[s].side = "remote" THEN remote' ELSE local')[s] = 0]_vars
  <2> SUFFICES ASSUME TypeInv, GcInv, [Next]_vars, NEW s \in Siblings,
                      job.pc \in {"prune", "unjournal"}, journal[s] # NoEntry, journal'[s] = NoEntry
               PROVE  (IF journal[s].side = "remote" THEN remote' ELSE local')[s] = 0
    OBVIOUS
  <2>1. DeleteEntry /\ s = NextEvicted /\ UNCHANGED files
    BY OnlyDeleteEntry
  <2>2. FileGone(s)
    BY <2>1 DEF GcInv, GoneInv, DeleteEntry
  <2> QED
    BY <2>1, <2>2 DEF FileGone, files
<1> QED
  BY <1>1, GcInductive, PTL DEF Spec, EvictLeavesNoFile

(***************************************************************************)
(* For every limit and every history, the GC forgets a sibling only when   *)
(* it is too old or when there are max_per_file newer entries, although it *)
(* takes the newest of its selection first and pushes put entries back.    *)
(***************************************************************************)
THEOREM EvictsOldestFirst == Spec => EvictsOldest
<1>1. TypeInv /\ GcInv /\ [Next]_vars
        => [\A s \in Siblings :
              job.pc \in {"prune", "unjournal"} /\ journal[s] # NoEntry /\ journal'[s] = NoEntry
                => \/ s \in expired
                   \/ MaxPerFile > 0
                        /\ Cardinality({m \in Siblings : s \in older[m]}) >= MaxPerFile]_vars
  <2> SUFFICES ASSUME TypeInv, GcInv, [Next]_vars, NEW s \in Siblings,
                      job.pc \in {"prune", "unjournal"}, journal[s] # NoEntry, journal'[s] = NoEntry
               PROVE  \/ s \in expired
                      \/ MaxPerFile > 0 /\ Cardinality(Newer(s)) >= MaxPerFile
    BY DEF Newer
  <2>1. s \in expired \/ Outnumbered(s, evicting)
    BY OnlyDeleteEntry DEF GcInv, ReasonInv
  <2>2. Newer(s) \ evicting \in SUBSET Newer(s)
    OBVIOUS
  <2>3. /\ Cardinality(Newer(s) \ evicting) <= Cardinality(Newer(s))
        /\ Cardinality(Newer(s) \ evicting) \in Nat /\ Cardinality(Newer(s)) \in Nat
    BY <2>2, NewerFinite, FS_Subset, FS_CardinalityType
  <2>4. MaxPerFile \in Nat
    BY RetentionAssumption DEF TypeInv, MaxPerFile
  <2> QED
    BY <2>1, <2>3, <2>4 DEF Outnumbered
<1> QED
  BY <1>1, GcInductive, PTL DEF Spec, EvictsOldest

----------------------------------------------------------------------------
(* Drive's feed.                                                           *)

\* RemoveFirst takes the element out of a sequence without duplicates.
LEMMA RemoveFirstIs ==
  ASSUME NEW S, NEW f \in Seq(S), NEW e,
         \A i, j \in 1..Len(f) : i # j => f[i] # f[j]
  PROVE  /\ \A i \in 1..Len(RemoveFirst(f, e)) :
               RemoveFirst(f, e)[i] # e /\ \E j \in 1..Len(f) : RemoveFirst(f, e)[i] = f[j]
         /\ \A i, j \in 1..Len(RemoveFirst(f, e)) : i # j => RemoveFirst(f, e)[i] # RemoveFirst(f, e)[j]
<1> DEFINE I == {i \in 1..Len(f) : f[i] = e}
<1>1. CASE I = {}
  BY <1>1 DEF RemoveFirst
<1>2. CASE I # {}
  <2>0. I \in SUBSET Nat
    OBVIOUS
  <2>1. PICK k \in I : \A m \in I : k <= m
    BY <1>2, <2>0, LeastNat
  <2>2. Min(I) \in I
    <3> HIDE DEF I
    <3> QED
      BY <2>1 DEF Min
  <2>3. RemoveFirst(f, e) = RemoveAt(f, Min(I))
    BY <1>2 DEF RemoveFirst, SelectInSeq
  <2>4. PICK k2 \in 1..Len(f) : f[k2] = e /\ RemoveFirst(f, e) = RemoveAt(f, k2)
    BY <2>2, <2>3
  <2>5. /\ RemoveAt(f, k2) \in Seq(S) /\ Len(RemoveAt(f, k2)) = Len(f) - 1
        /\ \A i \in 1..(Len(f) - 1) : RemoveAt(f, k2)[i] = IF i < k2 THEN f[i] ELSE f[i + 1]
    <3> DEFINE a == SubSeq(f, 1, k2 - 1)
               b == SubSeq(f, k2 + 1, Len(f))
    <3>1. a \in Seq(S) /\ Len(a) = k2 - 1 /\ \A i \in 1..(k2 - 1) : a[i] = f[i]
      BY <2>4
    <3>2. b \in Seq(S) /\ Len(b) = Len(f) - k2 /\ \A i \in 1..(Len(f) - k2) : b[i] = f[k2 + i]
      BY <2>4
    <3> HIDE DEF a, b
    <3>3. a \o b \in Seq(S) /\ Len(a \o b) = Len(f) - 1
      <4>0. a \in Seq(S) /\ b \in Seq(S)
        BY <3>1, <3>2
      <4>1. a \o b \in Seq(S)
        BY <4>0
      <4>2. Len(a \o b) = Len(a) + Len(b)
        BY <4>0
      <4> QED
        BY <2>4, <3>1, <3>2, <4>1, <4>2
    <3>4. \A i \in 1..(Len(f) - 1) : (a \o b)[i] = IF i < k2 THEN f[i] ELSE f[i + 1]
      <4> SUFFICES ASSUME NEW i \in 1..(Len(f) - 1)
                   PROVE  (a \o b)[i] = IF i < k2 THEN f[i] ELSE f[i + 1]
        OBVIOUS
      <4>1. CASE i < k2
        BY <3>1, <3>2, <4>1
      <4>2. CASE ~(i < k2)
        <5>1. i - (k2 - 1) \in 1..Len(b) /\ k2 + (i - (k2 - 1)) = i + 1
          BY <3>2, <4>2
        <5>2. (a \o b)[i] = b[i - (k2 - 1)]
          BY <3>1, <3>2, <4>2
        <5> QED
          BY <3>2, <4>2, <5>1, <5>2
      <4> QED
        BY <4>1, <4>2
    <3> QED
      BY <3>3, <3>4 DEF RemoveAt, a, b
  <2> DEFINE g == RemoveAt(f, k2)
             at(i) == IF i < k2 THEN i ELSE i + 1
  <2>6. \A i \in 1..Len(g) : at(i) \in 1..Len(f) /\ at(i) # k2 /\ g[i] = f[at(i)]
    BY <2>5
  <2>7. \A i, j \in 1..Len(g) : i # j => at(i) # at(j)
    BY <2>5
  <2> HIDE DEF g, at
  <2>8. \A i \in 1..Len(g) : g[i] # e /\ \E j \in 1..Len(f) : g[i] = f[j]
    BY <2>4, <2>6
  <2>9. \A i, j \in 1..Len(g) : i # j => g[i] # g[j]
    BY <2>6, <2>7
  <2> QED
    BY <2>4, <2>8, <2>9 DEF g
<1> QED
  BY <1>1, <1>2

\* The feed f, of a Drive with contents r, has one entry for each object that
\* changed, and none for an object that is gone.
FeedOK(f, r) ==
    /\ \A i \in 1..Len(f) : f[i].del = FALSE /\ r[f[i].slot] # 0
    /\ \A i, j \in 1..Len(f) : i # j => f[i] # f[j]

\* The feed after an upload,
LEMMA FeedUpload ==
  ASSUME NEW f \in Seq(Feed), NEW r \in [Slots -> Contents], FeedOK(f, r),
         NEW s \in Slots, NEW c, c # 0
  PROVE  FeedOK(Append(RemoveFirst(f, Changed(s)), Changed(s)), [r EXCEPT ![s] = c])
<1> DEFINE g == RemoveFirst(f, Changed(s))
           h == Append(g, Changed(s))
<1>1. g \in Seq(Feed) /\ Changed(s) \in Feed /\ Changed(s).slot = s /\ Changed(s).del = FALSE
  BY RemoveFirstType DEF Changed, Feed
<1>2. /\ \A i \in 1..Len(g) : g[i] # Changed(s) /\ \E j \in 1..Len(f) : g[i] = f[j]
      /\ \A i, j \in 1..Len(g) : i # j => g[i] # g[j]
  BY RemoveFirstIs DEF FeedOK
<1> HIDE DEF g
<1>3. /\ Len(h) = Len(g) + 1 /\ h[Len(g) + 1] = Changed(s)
      /\ \A i \in 1..Len(g) : h[i] = g[i]
  BY <1>1
<1> HIDE DEF h
<1>4. \A i \in 1..Len(h) : i \in 1..Len(g) \/ i = Len(g) + 1
  BY <1>1, <1>3
<1>5. \A i \in 1..Len(g) : g[i] \in Feed /\ g[i].del = FALSE /\ r[g[i].slot] # 0
  BY <1>1, <1>2 DEF FeedOK
<1>6. \A i \in 1..Len(h) : h[i].del = FALSE /\ [r EXCEPT ![s] = c][h[i].slot] # 0
  <2>1. \A t \in Slots : r[t] # 0 \/ t = s => [r EXCEPT ![s] = c][t] # 0
    OBVIOUS
  <2>2. \A i \in 1..Len(g) : g[i].slot \in Slots
    BY <1>5 DEF Feed
  <2> QED
    BY <1>1, <1>3, <1>4, <1>5, <2>1, <2>2
<1>7. \A i, j \in 1..Len(h) : i # j => h[i] # h[j]
  BY <1>2, <1>3, <1>4
<1> QED
  BY <1>6, <1>7 DEF FeedOK, h, g

\* and after a move to a name that was free.
LEMMA FeedMove ==
  ASSUME NEW f \in Seq(Feed), NEW r \in [Slots -> Contents], FeedOK(f, r), 0 \in Contents,
         NEW s \in Slots, NEW n \in Slots, s # n, r[s] # 0
  PROVE  FeedOK(Append(RemoveFirst(RemoveFirst(f, Changed(s)), Changed(n)), Changed(n)),
                [r EXCEPT ![n] = r[s], ![s] = 0])
<1> DEFINE g == RemoveFirst(f, Changed(s))
           z == [r EXCEPT ![s] = 0]
<1>1. g \in Seq(Feed) /\ z \in [Slots -> Contents]
  BY RemoveFirstType
<1>2. /\ \A i \in 1..Len(g) : g[i] # Changed(s) /\ \E j \in 1..Len(f) : g[i] = f[j]
      /\ \A i, j \in 1..Len(g) : i # j => g[i] # g[j]
  BY RemoveFirstIs DEF FeedOK
<1>3. \A i \in 1..Len(g) : g[i].del = FALSE /\ z[g[i].slot] # 0
  <2> HIDE DEF g
  <2> SUFFICES ASSUME NEW i \in 1..Len(g) PROVE g[i].del = FALSE /\ z[g[i].slot] # 0
    OBVIOUS
  <2>1. g[i] \in Feed /\ g[i].del = FALSE /\ r[g[i].slot] # 0 /\ g[i] # Changed(s)
    BY <1>1, <1>2 DEF FeedOK
  <2>2. g[i].slot # s
    BY <2>1 DEF Feed, Changed
  <2> QED
    BY <2>1, <2>2 DEF Feed
<1>4. FeedOK(g, z)
  BY <1>2, <1>3 DEF FeedOK
<1> HIDE DEF g
<1>5. FeedOK(Append(RemoveFirst(g, Changed(n)), Changed(n)), [z EXCEPT ![n] = r[s]])
  BY <1>1, <1>4, FeedUpload
<1>6. [z EXCEPT ![n] = r[s]] = [r EXCEPT ![n] = r[s], ![s] = 0]
  OBVIOUS
<1> QED
  BY <1>5, <1>6 DEF g

\* The feed without its first entry is one.
LEMMA FeedTail ==
  ASSUME NEW f \in Seq(Feed), NEW r, FeedOK(f, r), f # <<>>
  PROVE  FeedOK(Tail(f), r)
<1> DEFINE g == Tail(f)
<1>1. Len(g) = Len(f) - 1 /\ \A i \in 1..Len(g) : i + 1 \in 1..Len(f) /\ g[i] = f[i + 1]
  OBVIOUS
<1> HIDE DEF g
<1>2. \A i, j \in 1..Len(g) : i # j => i + 1 # j + 1
  OBVIOUS
<1> QED
  BY <1>1, <1>2 DEF FeedOK, g

----------------------------------------------------------------------------
(* When a loser is kept, and when its number is not given out again.       *)

\* Retention evicts nothing: there is no limit, or it is as high as the numbers go.
NoLimit == (MaxPerFile = 0 \/ MaxPerFile >= MaxN) /\ ~MaxAge

LEMMA NothingSelected == TypeInv /\ NoLimit /\ expired = {} => SelectEvictions = {}
<1> SUFFICES ASSUME TypeInv, NoLimit, expired = {}, NEW s \in Siblings
             PROVE  ~(MaxPerFile > 0 /\ Cardinality(Newer(s)) >= MaxPerFile)
  BY DEF SelectEvictions
<1>0. MaxN \in Nat /\ MaxPerFile \in Nat
  BY RetentionAssumption DEF TypeInv, MaxPerFile
<1>1. Newer(s) \in SUBSET (Siblings \ {s})
  BY SlotsAre DEF Newer, TypeInv, EntriesOK, OrderInv
<1>2. IsFiniteSet(Siblings) /\ Cardinality(Siblings) = MaxN
  BY <1>0, FS_Interval DEF Siblings
<1>3. IsFiniteSet(Siblings \ {s}) /\ Cardinality(Siblings \ {s}) = MaxN - 1
  BY <1>2, FS_RemoveElement
<1>4. Cardinality(Newer(s)) <= MaxN - 1 /\ Cardinality(Newer(s)) \in Nat
  BY <1>1, <1>3, NewerFinite, FS_Subset
<1> QED
  BY <1>0, <1>4 DEF NoLimit

(***************************************************************************)
(* The configurations and faults for which losers are kept: no crash, no   *)
(* entry that cannot be written, and either losers that stay on one side,  *)
(* or no eviction and no bisync pass with remote operations that fail.     *)
(* (RetentionReuse shows a loser that is lost where retention meets        *)
(* bisync.)                                                                *)
(***************************************************************************)
Safe ==
    /\ Faults \subseteq {"remote"}
    /\ \/ LocalLosers
       \/ NoLimit /\ ("bisync" \notin Resolvers \/ "remote" \notin Faults)

Placed(s) == local[s] # 0 \/ remote[s] # 0

\* The loser has its new name and no entry yet.
Unnoted == job.pc = "note" \/ (job.by = "bisync" /\ job.pc \in {"win", "settle"})

\* The feed is what Drive holds.
FeedInv == FeedOK(feed, remote)

\* Every sibling has an entry, but the loser that is not yet noted; the number
\* a resolution has chosen is free until then.
CoverInv ==
    /\ \A s \in Siblings : Placed(s) => s \in Journaled \/ (s = job.n /\ Unnoted)
    /\ job.pc = "aside" => job.n \notin Journaled /\ ~Placed(job.n)

\* The copies of a sibling are the same, and a loser that is kept is one.
KeptInv ==
    /\ \A s \in Siblings : local[s] = 0 \/ remote[s] = 0 \/ local[s] = remote[s]
    /\ \A c \in kept : c # 0 /\ \E s \in Siblings : local[s] = c \/ remote[s] = c

\* The pass's differences are still as they were found, since retention is off
\* and each resolution has a slot and a number of its own.
DiffsOK ==
    \A d \in diffs :
       /\ d.slot \in Journaled \union {0}
       /\ d.kind # "remote_only" <=> local[d.slot] # 0
       /\ d.kind # "local_only" <=> remote[d.slot] # 0
       /\ \A e \in diffs : e.slot = d.slot => e = d
       /\ job.pc # "pass" => d.slot \notin {job.slot, job.n}
PassInv ==
    /\ job.by = "bisync" => "bisync" \in Resolvers
    /\ job.by = "none" => job.pc = "idle"
    /\ job.pc = "pass" => job.by = "bisync"
    /\ diffs # {} => job.by = "bisync" /\ job.pc \in {"pass", "aside", "win", "settle", "note"}
    /\ DiffsOK
    /\ job.by = "bisync" /\ job.pc \in {"aside", "win"} =>
          /\ job.win \in {"local", "remote"}
          /\ job.win = "remote" \/ job.pc = "aside" => remote[job.slot] # 0
          /\ job.win = "local" \/ job.pc = "aside" => local[job.slot] # 0

\* Losers on the local side: what is on Drive, in the feed and in the journal.
LocalOnly ==
    /\ \A s \in Siblings : remote[s] = 0 /\ (journal[s] # NoEntry => journal[s].side = "local")
    /\ \A i \in 1..Len(feed) : feed[i].slot = 0
    /\ job.by # "bisync" /\ job.slot = 0 /\ (job.pc # "idle" => job.win = "remote")

\* What retention may evict under either condition.
EvictInv ==
    /\ NoLimit => expired = {} /\ evicting = {}
    /\ LocalLosers => LocalOnly

\* What the watcher saw of losers on the local side: none is to be uploaded,
\* since each has the time of its entry, and those to be deleted are gone.
LocalEvents ==
    /\ \A e \in events : IF e.op = "create" THEN local[e.slot] # 0
                         ELSE e.op \in {"remove", "delete"} /\ local[e.slot] = 0
    /\ \A s \in Siblings : local[s] # 0 /\ journal[s] # NoEntry => journal[s].l = local[s]
    /\ job.pc = "aside" => events = {} /\ local[0] = job.l
    /\ job.pc = "note" => local[job.n] = job.l

\* Without evictions no sibling is removed, and none is to be deleted on Drive.
EventInv ==
    IF LocalLosers THEN LocalEvents ELSE \A e \in events : e.op \in {"create", "upload"}

KeepInv == FeedInv /\ CoverInv /\ KeptInv /\ PassInv /\ EvictInv /\ EventInv

\* A poll reads the feed as far as its first entry.
Read == feed' = feed \/ (feed # <<>> /\ feed' = Tail(feed))

\* The copy of a slot's content from Drive, and to Drive.
CopyDown(s) == remote[s] # 0 /\ local' = [local EXCEPT ![s] = remote[s]] /\ UNCHANGED <<remote, kept>>
CopyUp(s) == local[s] # 0 /\ Upload(s, local[s]) /\ UNCHANGED <<local, kept>>

\* What is evicted under these conditions is a local file.
LEMMA EvictedLocal ==
  ASSUME TypeInv, Safe, KeepInv, evicting # {}
  PROVE  /\ LocalLosers /\ NextEvicted \in Siblings /\ NextEvicted \in evicting
         /\ journal[NextEvicted] # NoEntry
         /\ journal[NextEvicted].side = "local" /\ remote[NextEvicted] = 0
<1>1. LocalLosers
  BY DEF Safe, KeepInv, EvictInv
<1>2. NextEvicted \in evicting /\ NextEvicted \in Siblings /\ journal[NextEvicted] # NoEntry
  BY NextEvictedIs DEF TypeInv, EntriesOK, GcOK, Journaled
<1> QED
  BY <1>1, <1>2 DEF KeepInv, EvictInv, LocalOnly

\* No poll finds a deletion.
LEMMA FeedHead ==
  ASSUME TypeInv, KeepInv
  PROVE  /\ feed # <<>> => Head(feed).del = FALSE /\ remote[Head(feed).slot] # 0
         /\ \A s \in Slots : ~PullDelete(s)
<1>1. feed # <<>> => 1 \in 1..Len(feed) /\ Head(feed) = feed[1]
  BY DEF TypeInv, FilesOK
<1>2. feed # <<>> => Head(feed).del = FALSE /\ remote[Head(feed).slot] # 0
  BY <1>1 DEF KeepInv, FeedInv, FeedOK
<1> QED
  BY <1>2 DEF PullDelete, Gone

\* What a push of a sibling's event does: it copies, or it puts back the entry
\* of one that was evicted.
LEMMA SiblingPush ==
  ASSUME TypeInv, Safe, KeepInv, NEW s \in Siblings
  PROVE  /\ PushSibling(s) => ~LocalLosers /\ (UNCHANGED <<local, remote, feed, kept, entries>> \/ CopyUp(s))
         /\ PushRemoved(s) => /\ LocalLosers /\ job.pc = "idle" /\ local[s] = 0
                              /\ UNCHANGED <<local, remote, feed, kept>>
<1>1. ASSUME PushSibling(s)
      PROVE  ~LocalLosers /\ (UNCHANGED <<local, remote, feed, kept, entries>> \/ CopyUp(s))
  <2>1. [slot |-> s, op |-> "upload"] \in events
    BY <1>1 DEF PushSibling, TakesEvent
  <2>2. ~LocalLosers
    BY <2>1 DEF KeepInv, EventInv, LocalEvents
  <2> QED
    BY <1>1, <2>2 DEF PushSibling, TakesEvent, CopyUp
<1>2. ASSUME PushRemoved(s)
      PROVE  LocalLosers /\ job.pc = "idle" /\ local[s] = 0 /\ UNCHANGED <<local, remote, feed, kept>>
  <2>1. [slot |-> s, op |-> "delete"] \in events
    BY <1>2 DEF PushRemoved, TakesEvent
  <2>2. LocalLosers /\ local[s] = 0
    BY <2>1 DEF KeepInv, EventInv, LocalEvents
  <2>3. remote[s] = 0 /\ job.pc = "idle"
    BY <1>2, <2>2 DEF PushRemoved, TakesEvent, LocalLosers, KeepInv, EvictInv, LocalOnly
  <2> QED
    BY <1>2, <2>2, <2>3 DEF PushRemoved, TakesEvent, DeleteFile
<1> QED
  BY <1>1, <1>2

\* What a step does to files and feed: nothing ever deletes on Drive.
LEMMA FileSteps ==
  ASSUME TypeInv, Safe, KeepInv, [Next]_vars
  PROVE  \/ UNCHANGED <<local, remote, kept>> /\ Read
         \/ \E s \in Slots : CopyDown(s) /\ Read
         \/ \E s \in Slots : CopyUp(s)
         \/ LocalEdit \/ RemoteEdit \/ LocalAside \/ RemoteAside
         \/ RemoveEvicted /\ LocalLosers /\ RemoveLocal(NextEvicted)
<1>0. /\ job.slot \in Slots /\ 0 \in Slots
      /\ \A d \in diffs : d.slot \in Slots
           /\ (d.kind = "local_only" => local[d.slot] # 0)
           /\ (d.kind = "remote_only" => remote[d.slot] # 0)
  BY SlotsAre DEF TypeInv, JobOK, Jobs, Diffs, KeepInv, PassInv, DiffsOK
<1>f. feed # <<>> => Head(feed).del = FALSE /\ remote[Head(feed).slot] # 0
  BY FeedHead
<1>1. CASE \/ Age \/ NoteLoser \/ DeleteEntry \/ PruneDone \/ RecordWinner \/ RemoteFails \/ FileMissing
           \/ NothingToDo \/ BisyncDiff \/ BisyncEnd \/ UNCHANGED vars
  BY <1>1 DEF Age, NoteLoser, DeleteEntry, PruneDone, RecordWinner, RemoteFails, FileMissing,
              NothingToDo, BisyncDiff, BisyncEnd, vars, files, Read
<1>2. CASE LocalEdit \/ RemoteEdit \/ LocalAside \/ RemoteAside
  BY <1>2
<1>3. CASE PushFile
  BY <1>0, <1>3 DEF PushFile, CopyUp
<1>4. ASSUME NEW s \in Slots, PullSkip(s) \/ PullConflict(s)
      PROVE  UNCHANGED <<local, remote, kept>> /\ Read
  BY <1>4 DEF PullSkip, PullConflict, Delivered, Read
<1>5. ASSUME NEW s \in Slots, PullDownload(s)
      PROVE  Read /\ (UNCHANGED <<local, remote, kept>> \/ CopyDown(s))
  <2>1. Head(feed).slot = s /\ feed # <<>>
    BY <1>5 DEF PullDownload, Delivered, Changed
  <2> QED
    BY <1>5, <1>f, <2>1 DEF PullDownload, Delivered, Read, CopyDown
<1>6. ASSUME NEW s \in Slots, PullDelete(s) PROVE FALSE
  BY <1>6, FeedHead
<1>7. CASE FetchWinner
  BY <1>0, <1>7 DEF FetchWinner, CopyUp, CopyDown, Read
<1>8. CASE RemoveEvicted
  <2>1. evicting # {}
    BY <1>8 DEF RemoveEvicted
  <2>2. LocalLosers /\ journal[NextEvicted].side = "local"
    BY <2>1, EvictedLocal
  <2> QED
    BY <1>8, <2>2 DEF RemoveEvicted
<1>9. CASE Crash \/ StoreFails
  BY <1>9 DEF Crash, StoreFails, Safe
<1>11. ASSUME NEW s \in Siblings, FireEvent(s) \/ PushSibling(s) \/ PushRemoved(s)
       PROVE  (UNCHANGED <<local, remote, kept>> /\ Read) \/ (s \in Slots /\ CopyUp(s))
  BY <1>11, SiblingPush, SlotsAre DEF FireEvent, Read
<1>10. ASSUME NEW d \in diffs, BisyncUpload(d) \/ BisyncDownload(d) \/ BisyncConflict(d)
       PROVE  \/ UNCHANGED <<local, remote, kept>> /\ Read
              \/ CopyDown(d.slot) /\ Read
              \/ CopyUp(d.slot)
  BY <1>0, <1>10 DEF BisyncUpload, BisyncDownload, BisyncConflict, Take, CopyUp, CopyDown, Read, files
<1> QED
  <2>1. CASE \E s \in Slots : PullSkip(s) \/ PullDownload(s) \/ PullConflict(s) \/ PullDelete(s)
    BY <2>1, <1>4, <1>5, <1>6
  <2>2. CASE \E d \in diffs : BisyncUpload(d) \/ BisyncDownload(d) \/ BisyncConflict(d)
    BY <2>2, <1>10, <1>0
  <2> QED
    BY <1>1, <1>2, <1>3, <1>7, <1>8, <1>9, <1>11, <2>1, <2>2 DEF Next

\* The feed stays what Drive holds.
LEMMA NextFeed ==
  ASSUME TypeInv, Safe, KeepInv, [Next]_vars
  PROVE  FeedInv'
<1>0. /\ feed \in Seq(Feed) /\ remote \in [Slots -> Contents] /\ FeedOK(feed, remote)
      /\ 0 \in Contents /\ 0 \in Slots /\ job.slot \in Slots /\ job.n \in Slots
  BY SlotsAre DEF TypeInv, FilesOK, JobOK, Jobs, KeepInv, FeedInv
<1>1. CASE remote' = remote /\ Read
  BY <1>0, <1>1, FeedTail DEF Read, FeedInv
<1>2. ASSUME NEW s \in Slots, NEW c, c # 0, Upload(s, c) PROVE FeedInv'
  BY <1>0, <1>2, FeedUpload DEF Upload, FeedInv
<1>3. CASE LocalEdit
  BY <1>0, <1>3 DEF LocalEdit, FeedInv
<1>4. CASE RemoteEdit
  <2>1. edits + 1 # 0
    BY RetentionAssumption DEF TypeInv, FilesOK, MaxEdits
  <2> QED
    BY <1>0, <1>2, <1>4, <2>1 DEF RemoteEdit
<1>5. CASE LocalAside
  BY <1>0, <1>5 DEF LocalAside, FeedInv
<1>6. CASE RemoteAside
  <2>1. job.slot # job.n /\ remote[job.slot] # 0
    BY <1>6 DEF RemoteAside, KeepInv, CoverInv, Placed
  <2> QED
    BY <1>0, <1>6, <2>1, FeedMove DEF RemoteAside, MoveFile, FeedInv
<1>7. CASE RemoveLocal(NextEvicted)
  BY <1>0, <1>7 DEF RemoveLocal, FeedInv
<1> QED
  BY <1>1, <1>2, <1>3, <1>4, <1>5, <1>6, <1>7, FileSteps DEF CopyUp, CopyDown

\* The loser's new name is not that of the slot it comes from.
LEMMA AsideTo ==
  ASSUME TypeInv, KeepInv, LocalAside \/ RemoteAside
  PROVE  /\ job.slot # job.n /\ job.slot \in Slots /\ job.n \in Siblings /\ Siblings \subseteq Slots
         /\ local[job.n] = 0 /\ remote[job.n] = 0 /\ 0 \notin Siblings
  BY SlotsAre DEF LocalAside, RemoteAside, KeepInv, CoverInv, Placed, TypeInv, JobOK, Jobs

\* No step takes the last copy of a loser, or makes the copies differ.
LEMMA NextKept ==
  ASSUME TypeInv, Safe, KeepInv, [Next]_vars
  PROVE  KeptInv'
<1>0. /\ local \in [Slots -> Contents] /\ remote \in [Slots -> Contents]
      /\ 0 \in Slots /\ Siblings \subseteq Slots /\ 0 \notin Siblings
      /\ \A s \in Siblings : local[s] = 0 \/ remote[s] = 0 \/ local[s] = remote[s]
      /\ \A c \in kept : c # 0 /\ \E s \in Siblings : local[s] = c \/ remote[s] = c
  BY SlotsAre DEF TypeInv, FilesOK, KeepInv, KeptInv
<1>1. CASE UNCHANGED <<local, remote, kept>>
  BY <1>0, <1>1 DEF KeptInv
<1>2. ASSUME NEW s \in Slots, CopyDown(s) \/ CopyUp(s) PROVE KeptInv'
  <2>1. \A t \in Siblings : \/ local'[t] = local[t] /\ remote'[t] = remote[t]
                            \/ t = s /\ local'[t] = remote[t] /\ remote'[t] = remote[t] /\ remote[t] # 0
                            \/ t = s /\ local'[t] = local[t] /\ remote'[t] = local[t] /\ local[t] # 0
    BY <1>0, <1>2 DEF CopyDown, CopyUp, Upload
  <2>2. kept' = kept
    BY <1>2 DEF CopyDown, CopyUp
  <2>3. \A t \in Siblings : local'[t] = 0 \/ remote'[t] = 0 \/ local'[t] = remote'[t]
    BY <1>0, <2>1
  <2>4. \A t \in Siblings, c \in kept : local[t] = c \/ remote[t] = c => local'[t] = c \/ remote'[t] = c
    BY <1>0, <2>1
  <2> QED
    BY <1>0, <2>2, <2>3, <2>4 DEF KeptInv
<1>3. CASE LocalEdit \/ RemoteEdit
  <2>1. /\ kept' = kept
        /\ local' = local \/ local' = [local EXCEPT ![0] = edits + 1]
        /\ remote' = remote \/ remote' = [remote EXCEPT ![0] = edits + 1]
    BY <1>3 DEF LocalEdit, RemoteEdit, Upload
  <2>2. \A t \in Siblings : local'[t] = local[t] /\ remote'[t] = remote[t]
    BY <1>0, <2>1
  <2> QED
    BY <1>0, <2>1, <2>2 DEF KeptInv
<1>4. CASE LocalAside
  <2>1. /\ job.slot # job.n /\ job.slot \in Slots /\ job.n \in Siblings
        /\ local[job.n] = 0 /\ remote[job.n] = 0
    BY <1>4, AsideTo
  <2>2. /\ local' = [local EXCEPT ![job.n] = local[job.slot], ![job.slot] = 0] /\ remote' = remote
        /\ kept' = kept \union {local[job.slot]} /\ local[job.slot] # 0
    BY <1>4 DEF LocalAside
  <2>3. /\ local'[job.n] = local[job.slot] /\ local'[job.slot] = 0
        /\ \A t \in Slots \ {job.n, job.slot} : local'[t] = local[t]
    BY <1>0, <2>1, <2>2
  <2>4. \A t \in Siblings : local'[t] = 0 \/ remote'[t] = 0 \/ local'[t] = remote'[t]
    BY <1>0, <2>1, <2>2, <2>3
  <2>5. \A c \in kept' : c # 0 /\ \E s \in Siblings : local'[s] = c \/ remote'[s] = c
    BY <1>0, <2>1, <2>2, <2>3
  <2> QED
    BY <2>4, <2>5 DEF KeptInv
<1>5. CASE RemoteAside
  <2>1. /\ job.slot # job.n /\ job.slot \in Slots /\ job.n \in Siblings
        /\ local[job.n] = 0 /\ remote[job.n] = 0
    BY <1>5, AsideTo
  <2>2. /\ remote' = [remote EXCEPT ![job.n] = remote[job.slot], ![job.slot] = 0] /\ local' = local
        /\ kept' = kept \union {remote[job.slot]} /\ remote[job.slot] # 0
    BY <1>5 DEF RemoteAside, MoveFile
  <2>3. /\ remote'[job.n] = remote[job.slot] /\ remote'[job.slot] = 0
        /\ \A t \in Slots \ {job.n, job.slot} : remote'[t] = remote[t]
    BY <1>0, <2>1, <2>2
  <2>4. \A t \in Siblings : local'[t] = 0 \/ remote'[t] = 0 \/ local'[t] = remote'[t]
    BY <1>0, <2>1, <2>2, <2>3
  <2>5. \A c \in kept' : c # 0 /\ \E s \in Siblings : local'[s] = c \/ remote'[s] = c
    BY <1>0, <2>1, <2>2, <2>3
  <2> QED
    BY <2>4, <2>5 DEF KeptInv
<1>6. CASE RemoveEvicted /\ LocalLosers /\ RemoveLocal(NextEvicted)
  <2> DEFINE e == NextEvicted
  <2>1. e \in Siblings /\ \A s \in Siblings : remote[s] = 0
    BY <1>6, EvictedLocal DEF RemoveEvicted, KeepInv, EvictInv, LocalOnly
  <2>2. local' = [local EXCEPT ![e] = 0] /\ remote' = remote /\ kept' = kept \ {local[e]}
    BY <1>6 DEF RemoveLocal
  <2> HIDE DEF e
  <2>3. local'[e] = 0 /\ \A s \in Siblings \ {e} : local'[s] = local[s]
    BY <1>0, <2>1, <2>2
  <2> QED
    BY <1>0, <2>1, <2>2, <2>3 DEF KeptInv
<1> QED
  BY <1>1, <1>2, <1>3, <1>4, <1>5, <1>6, FileSteps

\* A sibling appears only as the loser that is renamed.
LEMMA PlacedStep ==
  ASSUME TypeInv, Safe, KeepInv, [Next]_vars, NEW s \in Siblings, Placed(s)'
  PROVE  Placed(s) \/ (s = job.n /\ (LocalAside \/ RemoteAside))
<1>0. /\ local \in [Slots -> Contents] /\ remote \in [Slots -> Contents]
      /\ 0 \in Slots /\ Siblings \subseteq Slots /\ 0 \notin Siblings
  BY SlotsAre DEF TypeInv, FilesOK
<1>1. CASE UNCHANGED <<local, remote, kept>>
  BY <1>1 DEF Placed
<1>2. ASSUME NEW t \in Slots, CopyDown(t) \/ CopyUp(t) PROVE Placed(s)
  BY <1>0, <1>2 DEF CopyDown, CopyUp, Upload, Placed
<1>3. CASE LocalEdit \/ RemoteEdit
  <2>1. /\ local' = local \/ local' = [local EXCEPT ![0] = edits + 1]
        /\ remote' = remote \/ remote' = [remote EXCEPT ![0] = edits + 1]
    BY <1>3 DEF LocalEdit, RemoteEdit, Upload
  <2> QED
    BY <1>0, <2>1 DEF Placed
<1>4. CASE LocalAside \/ RemoteAside
  <2>1. /\ local' = local \/ local' = [local EXCEPT ![job.n] = local[job.slot], ![job.slot] = 0]
        /\ remote' = remote \/ remote' = [remote EXCEPT ![job.n] = remote[job.slot], ![job.slot] = 0]
    BY <1>4 DEF LocalAside, RemoteAside, MoveFile
  <2>2. s # job.n => (local'[s] = local[s] \/ local'[s] = 0) /\ (remote'[s] = remote[s] \/ remote'[s] = 0)
    BY <1>0, <2>1
  <2> QED
    BY <1>4, <2>2 DEF Placed
<1>5. CASE RemoveLocal(NextEvicted)
  <2>1. remote' = remote /\ (local'[s] = local[s] \/ local'[s] = 0)
    BY <1>0, <1>5 DEF RemoveLocal
  <2> QED
    BY <2>1 DEF Placed
<1> QED
  BY <1>1, <1>2, <1>3, <1>4, <1>5, FileSteps

\* A job moves on, ends, or goes back to the pass.
Moves(pc) == /\ job'.pc = pc /\ job'.by = job.by /\ job'.slot = job.slot /\ job'.n = job.n
             /\ job'.win = job.win
Ends == job'.pc = "idle" /\ job'.by = "none" /\ job'.slot = 0
Passes == job'.pc = "pass" /\ job'.by = "bisync" /\ job'.slot = 0

\* Where each step takes the job.
LEMMA JobSteps ==
  ASSUME TypeInv
  PROVE
  /\ LocalAside \/ RemoteAside => job.pc = "aside"
        /\ ((job.by = "pull" /\ Moves("note")) \/ (job.by # "pull" /\ Moves("win")))
  /\ NoteLoser => job.pc = "note"
        /\ \/ job.by = "pull" /\ Moves("prune")
           \/ job.by = "none" /\ Ends
           \/ job.by = "bisync" /\ Passes
  /\ RemoveEvicted => job.pc = "prune" /\ Moves("unjournal")
  /\ DeleteEntry => job.pc = "unjournal" /\ Moves("prune")
  /\ PruneDone => job.pc = "prune"
        /\ ((job.by = "pull" /\ Moves("win")) \/ (job.by # "pull" /\ Ends))
  /\ FetchWinner => job.pc = "win" /\ Moves("settle")
  /\ RecordWinner => job.pc = "settle"
        /\ ((job.by = "pull" /\ Ends) \/ (job.by # "pull" /\ Moves("note")))
  /\ FileMissing => job.pc \in {"aside", "win"}
        /\ ((job.by = "bisync" /\ Passes) \/ (job.by # "bisync" /\ Ends))
  /\ RemoteFails => \/ job.pc = "prune" /\ job' = job
                    \/ /\ job.pc \in {"aside", "win"}
                       /\ ((job.by = "bisync" /\ Passes) \/ (job.by # "bisync" /\ Ends))
  /\ BisyncDiff => job.pc = "idle" /\ Passes
  /\ BisyncEnd => job.pc = "pass" /\ (Moves("prune") \/ Ends)
  /\ \/ LocalEdit \/ RemoteEdit \/ PushFile \/ Age \/ NothingToDo \/ UNCHANGED vars
     \/ \E s \in Siblings : FireEvent(s) \/ PushSibling(s) \/ PushRemoved(s)
     \/ \E s \in Slots : PullSkip(s) \/ PullDownload(s)
     \/ \E d \in diffs : BisyncUpload(d) \/ BisyncDownload(d)
     => job' = job
<1>0. job \in Jobs /\ job.by \in {"none", "pull", "bisync"}
  BY DEF TypeInv, JobOK, Jobs
<1>1. ASSUME NEW pc, Goes(pc) PROVE Moves(pc)
  BY <1>0, <1>1 DEF Goes, Moves, Jobs
<1>2. job' = NoJob => Ends
  BY DEF NoJob, Ends
<1>3. job' = [NoJob EXCEPT !.pc = "pass", !.by = "bisync"] => Passes
  BY DEF NoJob, Passes
<1>4. Finish => (job.by = "bisync" /\ Passes) \/ (job.by # "bisync" /\ Ends)
  BY <1>2, <1>3 DEF Finish
<1>5. AfterRename => (job.by = "pull" /\ Moves("note")) \/ (job.by # "pull" /\ Moves("win"))
  BY <1>1 DEF AfterRename
<1> QED
  BY <1>0, <1>1, <1>2, <1>3, <1>4, <1>5
     DEF LocalAside, RemoteAside, NoteLoser, RemoveEvicted, DeleteEntry,
         PruneDone, FetchWinner, RecordWinner, FileMissing, RemoteFails, BisyncDiff, BisyncEnd,
         LocalEdit, RemoteEdit, PushFile, Age, NothingToDo, vars, PullSkip, PullDownload,
         BisyncUpload, BisyncDownload, FireEvent, PushSibling, PushRemoved, TakesEvent

\* A bisync resolution finds what it needs, and is not interrupted.
LEMMA BisyncGoesOn ==
  ASSUME TypeInv, Safe, KeepInv, job.by = "bisync"
  PROVE  ~RemoteFails /\ ~FileMissing
<1>1. ~LocalLosers /\ "bisync" \in Resolvers /\ "remote" \notin Faults
  BY DEF Safe, KeepInv, EvictInv, LocalOnly, PassInv
<1>2. ASSUME FileMissing PROVE FALSE
  <2>1. /\ job.win \in {"local", "remote"} /\ job.pc \in {"aside", "win"}
        /\ job.win = "remote" \/ job.pc = "aside" => remote[job.slot] # 0
        /\ job.win = "local" \/ job.pc = "aside" => local[job.slot] # 0
    BY <1>2 DEF FileMissing, KeepInv, PassInv
  <2> QED
    BY <1>2, <2>1 DEF FileMissing
<1> QED
  BY <1>1, <1>2 DEF RemoteFails

\* Only the GC forgets a sibling, and only one that is gone on both sides.
LEMMA JournaledStep ==
  ASSUME TypeInv, GcInv, Safe, KeepInv, [Next]_vars, NEW s \in Journaled, s \notin Journaled'
  PROVE  s \in Siblings /\ DeleteEntry /\ ~Placed(s)
<1>0. /\ setup \in Setups /\ journal \in [Slots -> Entry \union {NoEntry}] /\ s \in Slots
      /\ journal[s] # NoEntry /\ journal'[s] = NoEntry /\ OrderInv /\ evicting \subseteq Siblings
  BY DEF TypeInv, EntriesOK, GcOK, Journaled
<1>1. PICK t \in Slots : \/ Delete(t) /\ (DeleteEntry \/ PullDelete(t))
                         \/ \E e \in Entry : Put(t, e)
  BY <1>0, EntriesStep DEF entries, Age
<1>2. CASE \E e \in Entry : Put(t, e)
  BY <1>0, <1>2, EntryIs DEF Put
<1>3. CASE Delete(t) /\ DeleteEntry
  <2>1. evicting # {} /\ job.pc = "unjournal"
    BY <1>3 DEF DeleteEntry, TypeInv, GcOK
  <2>2. /\ NextEvicted \in Siblings /\ journal[NextEvicted].side = "local" /\ remote[NextEvicted] = 0
        /\ local[NextEvicted] = 0
    BY <2>1, EvictedLocal DEF GcInv, GoneInv, FileGone
  <2>3. s = NextEvicted
    BY <1>0, <1>3, <2>2, SlotsAre DEF DeleteEntry, Delete, entries
  <2> QED
    BY <1>3, <2>2, <2>3 DEF Placed
<1> QED
  BY <1>1, <1>2, <1>3, FeedHead

\* Every sibling keeps its entry, and the number of a resolution stays free.
LEMMA NextCover ==
  ASSUME TypeInv, TypeInv', GcInv, Safe, KeepInv, [Next]_vars
  PROVE  CoverInv'
<1>0. /\ 0 \in Slots /\ Siblings \subseteq Slots /\ 0 \notin Siblings
      /\ job.n \in Siblings /\ job.by \in {"none", "pull", "bisync"}
      /\ job.by = "none" => job.pc = "idle"
      /\ \A s \in Siblings : Placed(s) => s \in Journaled \/ (s = job.n /\ Unnoted)
      /\ job.pc = "aside" => job.n \notin Journaled /\ ~Placed(job.n)
  BY SlotsAre DEF TypeInv, JobOK, Jobs, KeepInv, CoverInv, PassInv
<1>p. \A s \in Siblings : Placed(s)' => Placed(s) \/ (s = job.n /\ (LocalAside \/ RemoteAside))
  BY PlacedStep
<1>q. \A s \in Journaled : s \in Journaled' \/ (DeleteEntry /\ ~Placed(s))
  BY JournaledStep
<1>c. ASSUME \A s \in Siblings : Placed(s) => s \in Journaled, ~LocalAside, ~RemoteAside,
             job'.pc # "aside"
      PROVE  CoverInv'
  BY <1>c, <1>p, <1>q DEF CoverInv
<1>1. CASE job' = job /\ (job.pc = "aside" => Journaled' = Journaled \/ Journaled' = Journaled \union {0})
  <2>1. ~LocalAside /\ ~RemoteAside
    BY <1>1, JobSteps DEF Moves, Ends, Passes
  <2>2. Unnoted' = Unnoted
    BY <1>1 DEF Unnoted
  <2>3. \A s \in Siblings : Placed(s)' => s \in Journaled' \/ (s = job'.n /\ Unnoted')
    BY <1>0, <1>1, <1>p, <1>q, <2>1, <2>2
  <2>4. job'.pc = "aside" => job'.n \notin Journaled' /\ ~Placed(job.n)'
    BY <1>0, <1>1, <1>p, <2>1
  <2> QED
    BY <1>1, <2>3, <2>4 DEF CoverInv, Placed
<1>2. CASE \/ LocalEdit \/ RemoteEdit \/ Age \/ NothingToDo \/ UNCHANGED vars
           \/ \E s \in Siblings : FireEvent(s) \/ PushRemoved(s)
           \/ \E s \in Slots : PullSkip(s) \/ PullDownload(s)
           \/ \E d \in diffs : BisyncUpload(d) \/ BisyncDownload(d)
  <2>1. job' = job
    BY <1>2, JobSteps
  <2>2. job.pc = "aside" => journal' = journal
    BY <1>2, SiblingPush DEF LocalEdit, RemoteEdit, Age, NothingToDo, vars, entries, PullSkip,
                PullDownload, Delivered, BisyncUpload, BisyncDownload, Take, FireEvent
  <2>3. job.pc = "aside" => Journaled' = Journaled
    BY <2>2 DEF Journaled
  <2> QED
    BY <1>1, <2>1, <2>3
<1>12. ASSUME NEW s \in Siblings, PushSibling(s) PROVE CoverInv'
  <2>1. job' = job
    BY <1>12, JobSteps
  <2>2. journal' = journal \/ (local[s] # 0 /\ journal' = [journal EXCEPT ![s] = PushEntry(s)])
    BY <1>12 DEF PushSibling, Put, entries
  <2>3. job.pc = "aside" => (job.n \in Journaled' <=> job.n \in Journaled)
    <3>1. job.pc = "aside" => journal' = journal \/ s # job.n
      BY <1>0, <2>2 DEF Placed
    <3>2. journal \in [Slots -> Entry \union {NoEntry}]
      BY DEF TypeInv, EntriesOK
    <3> QED
      BY <1>0, <2>2, <3>1, <3>2 DEF Journaled
  <2>4. ~LocalAside /\ ~RemoteAside /\ Unnoted' = Unnoted
    BY <2>1, JobSteps DEF Unnoted, Moves, Ends, Passes
  <2>5. \A t \in Siblings : Placed(t)' => t \in Journaled' \/ (t = job'.n /\ Unnoted')
    BY <1>0, <1>p, <1>q, <1>12, <2>1, <2>4, JobSteps
  <2>6. job'.pc = "aside" => job'.n \notin Journaled' /\ ~Placed(job.n)'
    BY <1>0, <1>p, <2>1, <2>3, <2>4
  <2> QED
    BY <2>1, <2>5, <2>6 DEF CoverInv, Placed
<1>3. CASE PushFile
  <2>1. job' = job /\ Put(0, PushEntry(0))
    BY <1>3 DEF PushFile
  <2>2. journal' = [journal EXCEPT ![0] = PushEntry(0)]
    BY <2>1 DEF Put
  <2>3. \A s \in Siblings : journal'[s] = journal[s]
    BY <1>0, <2>2 DEF TypeInv, EntriesOK
  <2>4. job.n \in Journaled' <=> job.n \in Journaled
    BY <1>0, <2>3 DEF Journaled
  <2>5. ~LocalAside /\ ~RemoteAside /\ Unnoted' = Unnoted
    BY <2>1, JobSteps DEF Unnoted, Moves, Ends, Passes
  <2>6. \A s \in Siblings : Placed(s)' => s \in Journaled' \/ (s = job'.n /\ Unnoted')
    BY <1>0, <1>p, <1>q, <2>1, <2>5
  <2>7. job'.pc = "aside" => job'.n \notin Journaled' /\ ~Placed(job.n)'
    BY <1>0, <1>p, <2>1, <2>4, <2>5
  <2> QED
    BY <2>1, <2>6, <2>7 DEF CoverInv, Placed
<1>4. CASE (\E s \in Slots : PullConflict(s)) \/ (\E d \in diffs : BisyncConflict(d))
  <2>1. /\ job.pc \in {"idle", "pass"} /\ UNCHANGED <<local, remote, journal>>
        /\ Free # {} /\ job'.pc = "aside" /\ job'.n = NextOldN
    BY <1>4 DEF PullConflict, Delivered, BisyncConflict, Take, files, entries
  <2>2. NextOldN \in Siblings /\ NextOldN \notin Journaled
    BY <2>1, NextOldNIs DEF Journaled
  <2>3. \A s \in Siblings : Placed(s) => s \in Journaled
    BY <1>0, <2>1 DEF Unnoted
  <2> QED
    BY <2>1, <2>2, <2>3 DEF CoverInv, Placed, Journaled
<1>5. CASE LocalAside \/ RemoteAside
  <2>1. job'.pc \in {"note", "win"} /\ job'.by = job.by /\ job'.n = job.n /\ job.pc = "aside"
        /\ (job.by = "pull" => job'.pc = "note") /\ (job.by # "pull" => job'.pc = "win")
    BY <1>5, JobSteps DEF Moves, Ends, Passes
  <2>2. Unnoted'
    BY <1>0, <2>1 DEF Unnoted
  <2>3. ~DeleteEntry
    BY <2>1, JobSteps
  <2>4. \A s \in Siblings : Placed(s) => s \in Journaled
    BY <1>0, <2>1 DEF Unnoted
  <2> QED
    BY <1>p, <1>q, <2>1, <2>2, <2>3, <2>4 DEF CoverInv
<1>6. CASE NoteLoser
  <2>1. ~DeleteEntry /\ ~LocalAside /\ ~RemoteAside /\ job'.pc # "aside"
    BY <1>6, JobSteps DEF Moves, Ends, Passes
  <2>2. job.n \in Journaled'
    <3>1. LoserEntry \in Entry /\ Put(job.n, LoserEntry) /\ setup \in Setups
      BY <1>6, SlotsAre DEF NoteLoser, LoserEntry, Entry, TypeInv, JobOK, Jobs
    <3>2. LoserEntry # NoEntry /\ journal \in [Slots -> Entry \union {NoEntry}]
      BY <3>1, EntryIs DEF TypeInv, EntriesOK
    <3> QED
      BY <1>0, <3>1, <3>2 DEF Put, Journaled
  <2> QED
    BY <1>0, <1>p, <1>q, <2>1, <2>2 DEF CoverInv
<1>7. CASE RecordWinner \/ FetchWinner
  <2>1. /\ ~DeleteEntry /\ ~LocalAside /\ ~RemoteAside /\ job'.pc # "aside"
        /\ Unnoted => Unnoted' /\ job'.n = job.n
    <3>1. CASE FetchWinner
      BY <1>0, <3>1, JobSteps DEF Unnoted, Moves, Ends, Passes
    <3>2. CASE RecordWinner
      BY <1>0, <3>2, JobSteps DEF Unnoted, Moves, Ends, Passes
    <3> QED
      BY <1>7, <3>1, <3>2
  <2> QED
    BY <1>0, <1>p, <1>q, <2>1 DEF CoverInv
<1>8. CASE RemoveEvicted \/ DeleteEntry \/ PruneDone \/ BisyncDiff \/ BisyncEnd
  <2>1. ~LocalAside /\ ~RemoteAside /\ job'.pc # "aside" /\ ~Unnoted
    BY <1>8, JobSteps DEF Unnoted, Moves, Ends, Passes
  <2> QED
    BY <1>0, <1>c, <2>1
<1>9. CASE RemoteFails \/ FileMissing
  <2>1. CASE job' = job
    <3>1. journal' = journal
      BY <1>9 DEF RemoteFails, FileMissing, entries
    <3> QED
      BY <1>1, <2>1, <3>1 DEF Journaled
  <2>2. CASE job' # job
    <3>1. job.by # "bisync" /\ job.pc \in {"aside", "win"} /\ Ends
      BY <1>9, <2>2, BisyncGoesOn, JobSteps
    <3>2. ~LocalAside /\ ~RemoteAside /\ job'.pc # "aside" /\ ~Unnoted
      BY <3>1, JobSteps DEF Unnoted, Moves, Ends
    <3> QED
      BY <1>0, <1>c, <3>2
  <2> QED
    BY <2>1, <2>2
<1>10. CASE \E s \in Slots : PullDelete(s)
  BY <1>10, FeedHead
<1>11. CASE Crash \/ StoreFails
  BY <1>11 DEF Crash, StoreFails, Safe
<1> QED
  BY <1>2, <1>3, <1>4, <1>5, <1>6, <1>7, <1>8, <1>9, <1>10, <1>11, <1>12 DEF Next

\* A slot has a file on the same sides as before.
SameSides(s) == (local'[s] # 0 <=> local[s] # 0) /\ (remote'[s] # 0 <=> remote[s] # 0)

\* Differences whose slots nothing has happened to are still as they were found.
LEMMA DiffsStep ==
  ASSUME DiffsOK, diffs' \subseteq diffs, \A e \in diffs' : SameSides(e.slot),
         Journaled \subseteq Journaled',
         job'.pc # "pass" => \A e \in diffs' : e.slot \notin {job'.slot, job'.n}
  PROVE  DiffsOK'
  BY DEF DiffsOK, SameSides

\* The pass's differences stay as they were found.
LEMMA NextPass ==
  ASSUME TypeInv, TypeInv', GcInv, Safe, KeepInv, [Next]_vars
  PROVE  PassInv'
<1>0. /\ 0 \in Slots /\ Siblings \subseteq Slots /\ 0 \notin Siblings
      /\ local \in [Slots -> Contents] /\ remote \in [Slots -> Contents]
      /\ job.n \in Siblings /\ job.slot \in Slots /\ job.by \in {"none", "pull", "bisync"}
      /\ \A d \in diffs : d.slot \in Slots
  BY SlotsAre DEF TypeInv, FilesOK, JobOK, Jobs, Diffs
<1>i. /\ job.by = "bisync" => "bisync" \in Resolvers
      /\ job.by = "none" => job.pc = "idle"
      /\ job.pc = "pass" => job.by = "bisync"
      /\ diffs # {} => job.by = "bisync" /\ job.pc \in {"pass", "aside", "win", "settle", "note"}
      /\ DiffsOK
      /\ job.by = "bisync" /\ job.pc \in {"aside", "win"} =>
            /\ job.win \in {"local", "remote"}
            /\ job.win = "remote" \/ job.pc = "aside" => remote[job.slot] # 0
            /\ job.win = "local" \/ job.pc = "aside" => local[job.slot] # 0
  BY DEF KeepInv, PassInv, DiffsOK
<1>r. Resolvers' = Resolvers
  BY SetupStep DEF Resolvers
<1>q. Journaled \subseteq Journaled' \/ DeleteEntry
  BY JournaledStep
<1>n. ASSUME diffs' = {}, job'.by # "bisync", job'.by = "none" => job'.pc = "idle", job'.pc # "pass"
      PROVE  PassInv'
  BY <1>n DEF PassInv, DiffsOK
<1>1. CASE LocalEdit \/ RemoteEdit \/ Age \/ NothingToDo \/ UNCHANGED vars \/ \E s \in Siblings : FireEvent(s)
  <2>1. job' = job /\ diffs' = diffs
    BY <1>1, JobSteps DEF LocalEdit, RemoteEdit, Age, NothingToDo, vars, FireEvent
  <2>2. \A s \in Slots : SameSides(s)
    <3>1. /\ local' = local \/ (local[0] # 0 /\ local' = [local EXCEPT ![0] = edits + 1])
          /\ remote' = remote \/ (remote[0] # 0 /\ remote' = [remote EXCEPT ![0] = edits + 1])
      BY <1>1 DEF LocalEdit, RemoteEdit, Upload, Age, NothingToDo, vars, files, FireEvent
    <3>2. edits + 1 # 0
      BY RetentionAssumption DEF TypeInv, FilesOK, MaxEdits
    <3> QED
      BY <1>0, <3>1, <3>2 DEF SameSides
  <2>3. journal' = journal
    BY <1>1 DEF LocalEdit, RemoteEdit, Age, NothingToDo, vars, entries, FireEvent
  <2>4. Journaled' = Journaled
    BY <2>3 DEF Journaled
  <2>5. DiffsOK'
    BY <1>0, <1>i, <2>1, <2>2, <2>4, DiffsStep DEF DiffsOK
  <2>6. job'.by = "bisync" /\ job'.pc \in {"aside", "win"} =>
            /\ job'.win \in {"local", "remote"}
            /\ job'.win = "remote" \/ job'.pc = "aside" => remote'[job'.slot] # 0
            /\ job'.win = "local" \/ job'.pc = "aside" => local'[job'.slot] # 0
    BY <1>0, <1>i, <2>1, <2>2 DEF SameSides
  <2> QED
    BY <1>i, <1>r, <2>1, <2>5, <2>6 DEF PassInv, DiffsOK
<1>2. CASE \/ PushFile
           \/ \E s \in Siblings : PushSibling(s) \/ PushRemoved(s)
           \/ \E s \in Slots : PullSkip(s) \/ PullDownload(s)
  <2>1. /\ job' = job /\ diffs' = diffs /\ (job.by # "bisync" \/ job.pc = "idle")
    BY <1>2, JobSteps DEF PushFile, Sharing, PullSkip, PullDownload, Delivered,
                          PushSibling, PushRemoved, TakesEvent
  <2>2. diffs' = {}
    BY <1>i, <2>1
  <2>3. job.by = "bisync" => job.pc \notin {"aside", "win"}
    BY <2>1
  <2> QED
    BY <1>i, <1>r, <2>1, <2>2, <2>3 DEF PassInv, DiffsOK
<1>3. CASE \E s \in Slots : PullConflict(s)
  <2>1. job'.by = "pull" /\ job'.pc = "aside" /\ diffs' = diffs /\ job.pc = "idle"
    BY <1>3 DEF PullConflict, Delivered
  <2> QED
    BY <1>i, <1>n, <2>1
<1>4. CASE BisyncDiff
  <2>1. Passes /\ job.pc = "idle" /\ "bisync" \in Resolvers /\ UNCHANGED <<local, remote, journal>>
    BY <1>4, JobSteps DEF BisyncDiff, files, entries
  <2>2. \A s \in Siblings : Placed(s) => s \in Journaled
    BY <2>1 DEF KeepInv, CoverInv, Unnoted
  <2>3. \A d \in diffs' : /\ d.slot \in Slots /\ KindOf(d.slot) # "same" /\ d.kind = KindOf(d.slot)
                          /\ d = [slot |-> d.slot, kind |-> KindOf(d.slot),
                                  l |-> local[d.slot], r |-> remote[d.slot]]
    BY <1>4 DEF BisyncDiff
  <2>4. \A s \in Slots : KindOf(s) # "same" =>
           /\ KindOf(s) # "remote_only" <=> local[s] # 0
           /\ KindOf(s) # "local_only" <=> remote[s] # 0
           /\ Placed(s)
    BY DEF KindOf, Placed
  <2>5. \A s \in Slots : s \in Siblings \/ s = 0
    BY RetentionAssumption DEF Slots, Siblings
  <2>6. DiffsOK'
    <3>1. \A d \in diffs' : /\ d.slot \in Journaled \union {0}
                            /\ d.kind # "remote_only" <=> local[d.slot] # 0
                            /\ d.kind # "local_only" <=> remote[d.slot] # 0
      BY <2>2, <2>3, <2>4, <2>5
    <3>2. \A d, e \in diffs' : e.slot = d.slot => e = d
      BY <2>3
    <3>3. Journaled' = Journaled
      BY <2>1 DEF Journaled
    <3> QED
      BY <2>1, <3>1, <3>2, <3>3 DEF DiffsOK, Passes
  <2> QED
    BY <1>r, <2>1, <2>6 DEF PassInv, DiffsOK, Passes
<1>5. CASE BisyncEnd
  <2>1. diffs' = {} /\ (Moves("prune") \/ Ends) /\ job.pc = "pass"
    BY <1>5, JobSteps DEF BisyncEnd
  <2> QED
    BY <1>i, <1>r, <2>1 DEF PassInv, DiffsOK, Moves, Ends
<1>6. ASSUME NEW d \in diffs, BisyncUpload(d) \/ BisyncDownload(d) PROVE PassInv'
  <2>1. job' = job /\ job.pc = "pass" /\ diffs' = diffs \ {d} /\ ~DeleteEntry
    BY <1>6, JobSteps DEF BisyncUpload, BisyncDownload, Take
  <2>2. /\ local' = local \/ local' = [local EXCEPT ![d.slot] = remote[d.slot]]
        /\ remote' = remote \/ remote' = [remote EXCEPT ![d.slot] = local[d.slot]]
    BY <1>6 DEF BisyncUpload, BisyncDownload, Upload
  <2>3. \A s \in Slots : s # d.slot => SameSides(s)
    BY <1>0, <2>2 DEF SameSides
  <2>4. \A e \in diffs' : e.slot # d.slot
    BY <1>i, <2>1 DEF DiffsOK
  <2>5. DiffsOK'
    BY <1>0, <1>i, <1>q, <2>1, <2>3, <2>4, DiffsStep
  <2> QED
    BY <1>i, <1>r, <2>1, <2>5 DEF PassInv, DiffsOK
<1>7. ASSUME NEW d \in diffs, BisyncConflict(d) PROVE PassInv'
  <2>1. /\ job.pc = "pass" /\ diffs' = diffs \ {d} /\ UNCHANGED <<local, remote, journal>>
        /\ d.kind = "conflict" /\ Free # {}
    BY <1>7 DEF BisyncConflict, Take, files, entries
  <2>2. /\ job'.pc = "aside" /\ job'.by = "bisync" /\ job'.slot = d.slot /\ job'.n = NextOldN
        /\ job'.win \in {"local", "remote"}
    BY <1>7 DEF BisyncConflict, NewerWins
  <2>3. NextOldN \in Siblings /\ NextOldN \notin Journaled
    BY <2>1, NextOldNIs DEF Journaled
  <2>4. \A e \in diffs' : e.slot \notin {job'.slot, job'.n} /\ SameSides(e.slot)
    BY <1>0, <1>i, <2>1, <2>2, <2>3 DEF DiffsOK, SameSides
  <2>5. Journaled' = Journaled
    BY <2>1 DEF Journaled
  <2>6. DiffsOK'
    BY <1>i, <2>1, <2>4, <2>5, DiffsStep
  <2>7. local'[job'.slot] # 0 /\ remote'[job'.slot] # 0
    BY <1>i, <2>1, <2>2 DEF DiffsOK
  <2> QED
    BY <1>i, <1>r, <2>2, <2>6, <2>7 DEF PassInv, DiffsOK
<1>8. CASE \/ LocalAside \/ RemoteAside \/ NoteLoser \/ RemoveEvicted \/ DeleteEntry \/ PruneDone
           \/ FetchWinner \/ RecordWinner \/ RemoteFails \/ FileMissing
  <2>0. diffs' = diffs /\ job.pc # "idle"
    BY <1>8, JobSteps DEF LocalAside, RemoteAside, NoteLoser, RemoveEvicted, DeleteEntry, PruneDone,
                          FetchWinner, RecordWinner, RemoteFails, FileMissing
  <2>1. CASE job.by # "bisync"
    <3>1. diffs' = {} /\ job.by # "none"
      BY <1>0, <1>i, <2>0, <2>1
    <3>2. job'.by # "bisync" /\ (job'.by = "none" => job'.pc = "idle") /\ job'.pc # "pass"
      BY <1>0, <1>8, <1>i, <2>0, <2>1, <3>1, JobSteps DEF Moves, Ends
    <3> QED
      BY <1>n, <3>1, <3>2
  <2>2. CASE job.by = "bisync" /\ (RemoveEvicted \/ DeleteEntry \/ PruneDone)
    <3>1. job.pc \in {"prune", "unjournal"} /\ (Ends \/ Moves("prune") \/ Moves("unjournal"))
      BY <2>2, JobSteps
    <3>2. diffs' = {}
      BY <1>i, <2>0, <3>1
    <3> QED
      BY <1>i, <1>r, <2>2, <3>1, <3>2 DEF PassInv, DiffsOK, Moves, Ends
  <2>3. CASE job.by = "bisync" /\ (LocalAside \/ RemoteAside)
    <3>1. job.pc = "aside" /\ Moves("win") /\ ~DeleteEntry
      BY <2>3, JobSteps
    <3>2. /\ local' = local \/ local' = [local EXCEPT ![job.n] = local[job.slot], ![job.slot] = 0]
          /\ remote' = remote \/ remote' = [remote EXCEPT ![job.n] = remote[job.slot], ![job.slot] = 0]
          /\ job.win = "remote" => remote' = remote
          /\ job.win = "local" => local' = local
      BY <2>3 DEF LocalAside, RemoteAside, MoveFile
    <3>3. \A s \in Slots : s \notin {job.n, job.slot} => SameSides(s)
      BY <1>0, <3>2 DEF SameSides
    <3>4. \A e \in diffs' : e.slot \notin {job.n, job.slot} /\ e.slot \in Slots
      BY <1>0, <1>i, <2>0, <3>1 DEF DiffsOK
    <3>5. DiffsOK'
      BY <1>i, <1>q, <2>0, <3>1, <3>3, <3>4, DiffsStep DEF Moves
    <3>6. /\ job'.win \in {"local", "remote"} /\ job'.pc = "win" /\ job'.slot = job.slot
          /\ job'.by = "bisync"
          /\ job'.win = "remote" => remote'[job'.slot] # 0
          /\ job'.win = "local" => local'[job'.slot] # 0
      BY <1>i, <2>3, <3>1, <3>2 DEF Moves
    <3> QED
      BY <1>i, <1>r, <2>3, <3>5, <3>6 DEF PassInv, DiffsOK
  <2>4. CASE job.by = "bisync" /\ (FetchWinner \/ RecordWinner \/ NoteLoser)
    <3>1. /\ job.pc \in {"win", "settle", "note"} /\ (Moves("settle") \/ Moves("note") \/ Passes)
          /\ ~DeleteEntry
      BY <2>4, JobSteps
    <3>2. /\ local' = local \/ local' = [local EXCEPT ![job.slot] = remote[job.slot]]
          /\ remote' = remote \/ remote' = [remote EXCEPT ![job.slot] = local[job.slot]]
      BY <2>4 DEF FetchWinner, Upload, RecordWinner, NoteLoser, files
    <3>3. \A s \in Slots : s # job.slot => SameSides(s)
      BY <1>0, <3>2 DEF SameSides
    <3>4. \A e \in diffs' : e.slot \notin {job.n, job.slot} /\ e.slot \in Slots
      BY <1>0, <1>i, <2>0, <3>1 DEF DiffsOK
    <3>5. DiffsOK'
      BY <1>i, <1>q, <2>0, <3>1, <3>3, <3>4, DiffsStep DEF Moves, Passes
    <3> QED
      BY <1>i, <1>r, <2>4, <3>1, <3>5 DEF PassInv, DiffsOK, Moves, Passes
  <2> QED
    BY <1>8, <2>1, <2>2, <2>3, <2>4, BisyncGoesOn
<1>9. CASE \E s \in Slots : PullDelete(s)
  BY <1>9, FeedHead
<1>10. CASE Crash \/ StoreFails
  BY <1>10 DEF Crash, StoreFails, Safe
<1> QED
  BY <1>1, <1>2, <1>3, <1>4, <1>5, <1>6, <1>7, <1>8, <1>9, <1>10 DEF Next

\* The feed of a Drive that has only the file: an upload adds no other slot.
LEMMA FeedOfFile ==
  ASSUME NEW f \in Seq(Feed), NEW r, FeedOK(f, r), \A i \in 1..Len(f) : f[i].slot = 0, 0 \in Slots
  PROVE  /\ \A i \in 1..Len(Append(RemoveFirst(f, Changed(0)), Changed(0))) :
               Append(RemoveFirst(f, Changed(0)), Changed(0))[i].slot = 0
         /\ f # <<>> => \A i \in 1..Len(Tail(f)) : Tail(f)[i].slot = 0
<1> DEFINE g == RemoveFirst(f, Changed(0))
           h == Append(g, Changed(0))
<1>1. g \in Seq(Feed) /\ Changed(0) \in Feed /\ Changed(0).slot = 0
  BY RemoveFirstType DEF Changed, Feed
<1>2. \A i \in 1..Len(g) : \E j \in 1..Len(f) : g[i] = f[j]
  BY RemoveFirstIs DEF FeedOK
<1> HIDE DEF g
<1>3. /\ Len(h) = Len(g) + 1 /\ h[Len(g) + 1] = Changed(0)
      /\ \A i \in 1..Len(g) : h[i] = g[i]
  BY <1>1
<1> HIDE DEF h
<1>4. \A i \in 1..Len(h) : i \in 1..Len(g) \/ i = Len(g) + 1
  BY <1>1, <1>3
<1>5. \A i \in 1..Len(h) : h[i].slot = 0
  BY <1>1, <1>2, <1>3, <1>4
<1>6. f # <<>> => \A i \in 1..Len(Tail(f)) : i + 1 \in 1..Len(f) /\ Tail(f)[i] = f[i + 1]
  OBVIOUS
<1> QED
  BY <1>5, <1>6 DEF h, g

\* Where nothing is selected nothing is evicted; other losers stay on the local side.
LEMMA NextEvict ==
  ASSUME TypeInv, TypeInv', GcInv, Safe, KeepInv, [Next]_vars
  PROVE  EvictInv'
<1>0. /\ 0 \in Slots /\ Siblings \subseteq Slots /\ 0 \notin Siblings
      /\ remote \in [Slots -> Contents] /\ journal \in [Slots -> Entry \union {NoEntry}]
      /\ feed \in Seq(Feed) /\ FeedOK(feed, remote) /\ job.n \in Siblings
  BY SlotsAre DEF TypeInv, FilesOK, EntriesOK, JobOK, Jobs, KeepInv, FeedInv
<1>s. setup' = setup /\ (NoLimit' <=> NoLimit) /\ (LocalLosers' <=> LocalLosers)
      /\ MaxPerFile' = MaxPerFile
  BY SetupStep DEF NoLimit, LocalLosers, Prompt, Restless, MaxPerFile, MaxAge, Policy, Resolvers
<1>1. ASSUME NoLimit PROVE expired' = {} /\ evicting' = {}
  <2>1. expired = {} /\ evicting = {} /\ ~MaxAge
    BY <1>1 DEF KeepInv, EvictInv, NoLimit
  <2>2. expired' = {}
    BY <2>1, EntriesStep DEF entries, Age, Delete, Put
  <2>3. SelectEvictions = {} /\ SelectEvictions' = {}
    <3>1. TypeInv' /\ NoLimit' /\ (expired = {})'
      BY <1>1, <1>s, <2>2
    <3>2. (SelectEvictions = {})'
      BY <3>1, NothingSelected, PTL
    <3> QED
      BY <1>1, <2>1, <3>2, NothingSelected
  <2>4. CASE job.pc \notin {"prune", "unjournal"}
    BY <2>2, <2>3, <2>4, OtherSteps
  <2>5. CASE job.pc \in {"prune", "unjournal"}
    BY <2>1, <2>2, <2>5, GcSteps DEF LocalEdit, RemoteEdit, PushFile, Age, vars,
       RemoveEvicted, DeleteEntry, PruneDone, RemoteFails, Crash, FireEvent
  <2> QED
    BY <2>2, <2>4, <2>5
<1>2. ASSUME LocalLosers PROVE LocalOnly'
  <2>0. /\ LocalOnly /\ "bisync" \notin Resolvers /\ Policy = "remote_wins" /\ diffs = {}
        /\ job.by \in {"none", "pull"}
    BY <1>2 DEF KeepInv, EvictInv, PassInv, LocalOnly, LocalLosers, TypeInv, JobOK, Jobs
  <2>h. feed # <<>> => 1 \in 1..Len(feed) /\ Head(feed) = feed[1]
    BY <1>0
  <2>1. ASSUME NEW s \in Slots, Head(feed) = Changed(s), feed # <<>> PROVE s = 0
    BY <2>0, <2>1, <2>h DEF LocalOnly, Changed
  <2>2. /\ job'.by # "bisync" /\ job'.slot = 0 /\ (job'.pc # "idle" => job'.win = "remote")
    <3>1. CASE job' = job
      BY <2>0, <3>1 DEF LocalOnly
    <3>2. ASSUME NEW s \in Slots, PullConflict(s)
          PROVE  job'.by # "bisync" /\ job'.slot = 0 /\ job'.win = "remote"
      BY <2>0, <2>1, <3>2 DEF PullConflict, Delivered, DetermineWinner
    <3>3. CASE \/ LocalAside \/ RemoteAside \/ NoteLoser \/ RemoveEvicted \/ DeleteEntry \/ PruneDone
               \/ FetchWinner \/ RecordWinner \/ RemoteFails \/ FileMissing
      <4>1. job.pc # "idle"
        BY <3>3, JobSteps
      <4>2. job' = job \/ Ends \/ \E pc : Moves(pc)
        BY <2>0, <3>3, JobSteps
      <4> QED
        BY <2>0, <4>1, <4>2 DEF LocalOnly, Ends, Moves
    <3>4. CASE BisyncDiff \/ BisyncEnd
      <4>1. job.pc # "pass"
        BY <2>0, <3>4 DEF BisyncDiff, KeepInv, EvictInv, PassInv
      <4> QED
        BY <2>0, <3>4, <4>1 DEF BisyncDiff, BisyncEnd
    <3> QED
      BY <2>0, <3>1, <3>2, <3>3, <3>4, JobSteps, FeedHead DEF Next, Crash, StoreFails, Safe
  <2>3. ~RemoteAside /\ ~BisyncEnd /\ ~BisyncDiff
    BY <2>0 DEF RemoteAside, BisyncEnd, BisyncDiff, KeepInv, PassInv, LocalOnly
  <2>4. \/ UNCHANGED <<remote, feed>>
        \/ remote' = remote /\ feed # <<>> /\ feed' = Tail(feed)
        \/ \E c : Upload(0, c)
    <3>1. CASE FetchWinner
      <4>1. job.win = "remote"
        BY <2>0, <3>1 DEF FetchWinner, LocalOnly
      <4> QED
        BY <3>1, <4>1 DEF FetchWinner
    <3>2. CASE RemoveEvicted
      BY <3>2, FileSteps, EvictedLocal DEF RemoveEvicted, RemoveLocal
    <3>3. CASE \/ LocalEdit \/ RemoteEdit \/ PushFile \/ Age \/ NothingToDo \/ UNCHANGED vars
               \/ \E s \in Siblings : FireEvent(s) \/ PushSibling(s) \/ PushRemoved(s)
      BY <1>2, <3>3, SiblingPush
         DEF LocalEdit, RemoteEdit, PushFile, Age, NothingToDo, vars, files, FireEvent
    <3>4. CASE \E s \in Slots : PullSkip(s) \/ PullDownload(s) \/ PullConflict(s)
      BY <3>4 DEF PullSkip, PullDownload, PullConflict, Delivered
    <3>5. CASE \/ LocalAside \/ NoteLoser \/ DeleteEntry \/ PruneDone
               \/ RecordWinner \/ RemoteFails \/ FileMissing
      BY <3>5 DEF LocalAside, NoteLoser, DeleteEntry, PruneDone, RecordWinner, RemoteFails, FileMissing,
                  files
    <3> QED
      BY <2>0, <2>3, <3>1, <3>2, <3>3, <3>4, <3>5, FeedHead DEF Next, Crash, StoreFails, Safe
  <2>5. \A i \in 1..Len(feed') : feed'[i].slot = 0
    <3> DEFINE f == Append(RemoveFirst(feed, Changed(0)), Changed(0))
    <3>1. /\ \A i \in 1..Len(feed) : feed[i].slot = 0
          /\ \A i \in 1..Len(f) : f[i].slot = 0
          /\ feed # <<>> => \A i \in 1..Len(Tail(feed)) : Tail(feed)[i].slot = 0
      BY <1>0, <2>0, FeedOfFile DEF LocalOnly
    <3>2. feed' = feed \/ (feed # <<>> /\ feed' = Tail(feed)) \/ feed' = f
      BY <2>4 DEF Upload
    <3> HIDE DEF f
    <3> QED
      BY <3>1, <3>2
  <2>6. \A s \in Siblings : remote'[s] = 0
    BY <1>0, <2>0, <2>4 DEF LocalOnly, Upload
  <2>7. \A s \in Siblings : journal'[s] # NoEntry => journal'[s].side = "local"
    <3>0. \A s \in Siblings : journal[s] # NoEntry => journal[s].side = "local"
      BY <2>0 DEF LocalOnly
    <3>1. CASE NoteLoser
      <4>1. LoserEntry.side = "local" /\ Put(job.n, LoserEntry)
        BY <2>0, <3>1 DEF NoteLoser, LoserEntry, LocalOnly
      <4> QED
        BY <1>0, <3>0, <4>1 DEF Put
    <3>2. ASSUME NEW e, Put(0, e) PROVE \A s \in Siblings : journal'[s] = journal[s]
      BY <1>0, <3>2 DEF Put
    <3>3. CASE PushFile \/ RecordWinner
      BY <2>0, <3>0, <3>2, <3>3 DEF PushFile, RecordWinner, LocalOnly
    <3>4. CASE \E s \in Slots : PullDownload(s)
      BY <2>1, <3>0, <3>2, <3>4 DEF PullDownload, Delivered, entries
    <3>5. CASE DeleteEntry
      BY <1>0, <3>0, <3>5 DEF DeleteEntry, Delete, entries
    <3>6. CASE journal' = journal
      BY <3>0, <3>6
    <3>7. CASE \/ LocalEdit \/ RemoteEdit \/ Age \/ NothingToDo \/ UNCHANGED vars
               \/ \E s \in Slots : PullSkip(s) \/ PullConflict(s)
               \/ LocalAside \/ RemoveEvicted \/ PruneDone \/ FetchWinner \/ RemoteFails \/ FileMissing
      BY <3>6, <3>7 DEF LocalEdit, RemoteEdit, Age, NothingToDo, vars, entries, PullSkip, PullConflict,
         LocalAside, RemoveEvicted, PruneDone, FetchWinner, RemoteFails, FileMissing
    <3>8. ASSUME NEW t \in Siblings, FireEvent(t) \/ PushSibling(t) \/ PushRemoved(t)
          PROVE  \A s \in Siblings : journal'[s] # NoEntry => journal'[s].side = "local"
      <4>1. ~PushSibling(t)
        BY <1>2, SiblingPush
      <4>2. \/ journal' = journal
            \/ journal' = [journal EXCEPT ![t] = [l |-> 0, r |-> 0, md5 |-> FALSE, side |-> "local"]]
        BY <3>8, <4>1 DEF FireEvent, PushRemoved, Put, entries
      <4> QED
        BY <1>0, <3>0, <4>2
    <3> QED
      BY <2>0, <2>3, <3>1, <3>3, <3>4, <3>5, <3>7, <3>8, FeedHead DEF Next, Crash, StoreFails, Safe
  <2> QED
    BY <2>2, <2>5, <2>6, <2>7 DEF LocalOnly
<1> QED
  BY <1>s, <1>1, <1>2 DEF EvictInv

\* What an event becomes of, where nothing is evicted.
LEMMA NextUploads ==
  ASSUME TypeInv, Safe, KeepInv, ~LocalLosers, [Next]_vars
  PROVE  \A e \in events' : e.op \in {"create", "upload"}
<1>0. /\ \A e \in events : e.op \in {"create", "upload"}
      /\ evicting = {} /\ \A s \in Slots : ~PullDelete(s)
  BY FeedHead DEF Safe, KeepInv, EventInv, EvictInv
<1>1. ASSUME NEW s, events' = Raised(s, "create") PROVE \A e \in events' : e.op \in {"create", "upload"}
  BY <1>0, <1>1 DEF Raised
<1>2. CASE events' \subseteq events
  BY <1>0, <1>2
<1>3. ASSUME NEW s \in Siblings, FireEvent(s) \/ PushSibling(s) \/ PushRemoved(s)
      PROVE  \A e \in events' : e.op \in {"create", "upload"}
  BY <1>0, <1>3 DEF FireEvent, PushSibling, PushRemoved, TakesEvent
<1>4. CASE \/ LocalEdit \/ RemoteEdit \/ PushFile \/ Age \/ NothingToDo \/ UNCHANGED vars
           \/ \E s \in Slots : PullSkip(s) \/ PullConflict(s)
           \/ RemoteAside \/ NoteLoser \/ DeleteEntry \/ PruneDone \/ RecordWinner
           \/ RemoteFails \/ StoreFails \/ FileMissing \/ BisyncDiff \/ BisyncEnd \/ Crash
           \/ \E d \in diffs : BisyncUpload(d) \/ BisyncConflict(d)
  BY <1>2, <1>4 DEF LocalEdit, RemoteEdit, PushFile, Age, NothingToDo, vars, files, PullSkip,
     PullConflict, RemoteAside, NoteLoser, DeleteEntry, PruneDone, RecordWinner, RemoteFails,
     StoreFails, FileMissing, BisyncDiff, BisyncEnd, Crash, BisyncUpload, BisyncConflict
<1>5. CASE \/ LocalAside \/ FetchWinner \/ \E s \in Slots : PullDownload(s)
           \/ \E d \in diffs : BisyncDownload(d)
  BY <1>1, <1>2, <1>5 DEF LocalAside, FetchWinner, PullDownload, BisyncDownload
<1> QED
  BY <1>0, <1>3, <1>4, <1>5 DEF Next, RemoveEvicted

\* What becomes of an event, and of the entries, of losers on the local side.
LEMMA NextLocalEvents ==
  ASSUME TypeInv, TypeInv', Safe, KeepInv, LocalLosers, EventsOK, [Next]_vars
  PROVE  LocalEvents'
<1>0. /\ 0 \in Slots /\ Siblings \subseteq Slots /\ 0 \notin Siblings
      /\ local \in [Slots -> Contents] /\ journal \in [Slots -> Entry \union {NoEntry}]
      /\ remote \in [Slots -> Contents] /\ setup \in Setups
      /\ job.n \in Siblings /\ job.slot = 0 /\ job.by # "bisync" /\ diffs = {}
      /\ job.pc # "idle" => job.win = "remote" /\ job.by = "pull"
      /\ \A e \in events : e.slot \in Siblings
      /\ \A s \in Slots : ~PullDelete(s)
  BY SlotsAre, FeedHead
     DEF TypeInv, FilesOK, EntriesOK, JobOK, Jobs, KeepInv, EvictInv, PassInv, LocalOnly, EventsOK
<1>i. /\ \A e \in events : IF e.op = "create" THEN local[e.slot] # 0
                            ELSE e.op \in {"remove", "delete"} /\ local[e.slot] = 0
      /\ \A s \in Siblings : local[s] # 0 /\ journal[s] # NoEntry => journal[s].l = local[s]
      /\ job.pc = "aside" => events = {} /\ local[0] = job.l
      /\ job.pc = "note" => local[job.n] = job.l
  BY DEF KeepInv, EventInv, LocalEvents
<1>l. Prompt /\ "local" \notin Restless /\ Policy = "remote_wins" /\ "bisync" \notin Resolvers
  BY DEF LocalLosers
<1>z. \A s \in Siblings : remote[s] = 0
  BY DEF KeepInv, EvictInv, LocalOnly
<1>h. ASSUME NEW s \in Slots, Delivered(s) PROVE s = 0
  <2>1. feed # <<>> /\ Head(feed) = Changed(s) /\ feed \in Seq(Feed)
    BY <1>h DEF Delivered, TypeInv, FilesOK
  <2>2. 1 \in 1..Len(feed) /\ Head(feed) = feed[1]
    BY <2>1
  <2> QED
    BY <2>1, <2>2 DEF KeepInv, EvictInv, LocalOnly, Changed
\* Steps that concern the file only.
<1>f. ASSUME events' \subseteq events, \A s \in Siblings : local'[s] = local[s],
             \A s \in Siblings : journal'[s] = journal[s],
             job' = job \/ job'.pc \notin {"aside", "note"}, job.pc = "aside" => local'[0] = local[0]
      PROVE  LocalEvents'
  BY <1>0, <1>i, <1>f DEF LocalEvents
<1>1. CASE \/ LocalEdit \/ RemoteEdit \/ PushFile \/ Age \/ NothingToDo \/ UNCHANGED vars
           \/ \E s \in Slots : PullSkip(s) \/ PullDownload(s)
  <2>1. job' = job
    BY <1>1, JobSteps
  <2>2. events' = events
    BY <1>1, <1>h DEF LocalEdit, RemoteEdit, PushFile, Age, NothingToDo, vars, files, PullSkip,
       PullDownload, Raised
  <2>3. local' = local \/ (job.pc # "aside" /\ \E c : local' = [local EXCEPT ![0] = c])
    BY <1>1, <1>h, <1>l DEF LocalEdit, Edits, RemoteEdit, PushFile, Age, NothingToDo, vars, files,
       PullSkip, PullDownload, Delivered
  <2>4. journal' = journal \/ \E c : journal' = [journal EXCEPT ![0] = c]
    BY <1>1, <1>h DEF LocalEdit, RemoteEdit, PushFile, Age, NothingToDo, vars, entries,
       PullSkip, PullDownload, Put
  <2> QED
    BY <1>0, <1>f, <2>1, <2>2, <2>3, <2>4
<1>2. CASE PruneDone \/ FetchWinner \/ RecordWinner \/ RemoteFails \/ FileMissing
  <2>1. job' = job \/ job'.pc \notin {"aside", "note"}
    BY <1>0, <1>2, JobSteps DEF Moves, Ends
  <2>2. events' = events
    BY <1>0, <1>2 DEF PruneDone, FetchWinner, RecordWinner, RemoteFails, FileMissing, files, Raised
  <2>3. local' = local \/ (job.pc # "aside" /\ \E c : local' = [local EXCEPT ![0] = c])
    BY <1>0, <1>2 DEF PruneDone, FetchWinner, RecordWinner, RemoteFails, FileMissing, files
  <2>4. journal' = journal \/ \E c : journal' = [journal EXCEPT ![0] = c]
    BY <1>0, <1>2 DEF PruneDone, FetchWinner, RecordWinner, RemoteFails, FileMissing, entries, Put
  <2> QED
    BY <1>0, <1>f, <2>1, <2>2, <2>3, <2>4
<1>3. ASSUME NEW s \in Slots, PullConflict(s) PROVE LocalEvents'
  <2>1. /\ s = 0 /\ UNCHANGED <<local, journal, events>> /\ events = {}
        /\ job'.pc = "aside" /\ job'.l = local[s]
    BY <1>3, <1>h, <1>l DEF PullConflict, entries
  <2> QED
    BY <1>i, <2>1 DEF LocalEvents
<1>4. CASE LocalAside
  <2>1. /\ job.pc = "aside" /\ job'.pc = "note" /\ job'.n = job.n /\ job'.l = job.l
        /\ events' \subseteq {[slot |-> job.n, op |-> "create"]} /\ journal' = journal
        /\ local' = [local EXCEPT ![job.n] = local[0], ![0] = 0] /\ local[0] # 0
    <3>1. job \in Jobs
      BY DEF TypeInv, JobOK
    <3> QED
      BY <1>0, <1>4, <1>i, <3>1 DEF LocalAside, AfterRename, Goes, Raised, entries, Jobs
  <2>2. local'[job.n] = job.l /\ job.l # 0 /\ \A s \in Siblings \ {job.n} : local'[s] = local[s]
    BY <1>0, <1>i, <2>1
  <2>3. journal[job.n] = NoEntry
    BY <1>0, <2>1 DEF KeepInv, CoverInv, Journaled
  <2> QED
    BY <1>0, <1>i, <2>1, <2>2, <2>3 DEF LocalEvents
<1>5. CASE NoteLoser
  <2>1. /\ job.pc = "note" /\ job'.pc = "prune" /\ UNCHANGED <<local, events>>
        /\ journal' = [journal EXCEPT ![job.n] = LoserEntry] /\ LoserEntry.l = job.l
    BY <1>0, <1>5, JobSteps DEF NoteLoser, Put, files, LoserEntry, Moves
  <2>2. \A s \in Siblings : local'[s] # 0 /\ journal'[s] # NoEntry => journal'[s].l = local'[s]
    BY <1>0, <1>i, <2>1
  <2> QED
    BY <1>i, <2>1, <2>2 DEF LocalEvents
<1>6. CASE RemoveEvicted
  <2>1. /\ job'.pc = "unjournal" /\ journal' = journal /\ RemoveLocal(NextEvicted)
        /\ NextEvicted \in Siblings
    BY <1>6, FileSteps, EvictedLocal, JobSteps DEF RemoveEvicted, entries, Moves
  <2> DEFINE v == NextEvicted
  <2>2. /\ local' = [local EXCEPT ![v] = 0]
        /\ events' = IF local[v] = 0 THEN events ELSE Raised(v, "remove")
    BY <2>1 DEF RemoveLocal
  <2>3. v \in Siblings
    BY <2>1
  <2> HIDE DEF v
  <2>4. \A e \in events' : \/ e \in events /\ (e.slot = v => local[v] = 0 \/ e.op \notin {"create", "remove"})
                           \/ e = [slot |-> v, op |-> "remove"]
    <3>1. \A e \in events : e = [slot |-> e.slot, op |-> e.op] /\ e.op \in {"create", "remove", "upload", "delete"}
      BY DEF EventsOK
    <3>2. CASE local[v] = 0
      BY <2>2, <3>2
    <3>3. CASE local[v] # 0
      <4>1. events # {} => events' = (events \ Debounced(v)) \union {[slot |-> v, op |-> "remove"]}
        BY <1>0, <2>2, <2>3, <3>3 DEF Raised, EventsOK
      <4>2. events = {} => \A e \in events' : e = [slot |-> v, op |-> "remove"]
        BY <2>2, <3>3 DEF Raised
      <4>3. \A e \in events : e.slot = v /\ e.op \in {"create", "remove"} => e \in Debounced(v)
        BY <3>1 DEF Debounced
      <4> QED
        BY <4>1, <4>2, <4>3
    <3> QED
      BY <3>2, <3>3
  <2>5. local'[v] = 0 /\ \A s \in Siblings \ {v} : local'[s] = local[s]
    BY <1>0, <2>2, <2>3
  <2>6. \A e \in events' : IF e.op = "create" THEN local'[e.slot] # 0
                           ELSE e.op \in {"remove", "delete"} /\ local'[e.slot] = 0
    BY <1>0, <1>i, <2>4, <2>5
  <2>7. \A s \in Siblings : local'[s] # 0 /\ journal'[s] # NoEntry => journal'[s].l = local'[s]
    BY <1>i, <2>1, <2>5
  <2> QED
    BY <2>1, <2>6, <2>7 DEF LocalEvents
<1>7. CASE DeleteEntry
  <2>1. job'.pc = "prune" /\ UNCHANGED <<local, events>>
    BY <1>7, JobSteps DEF DeleteEntry, files, Moves
  <2>2. \A s \in Siblings : journal'[s] = journal[s] \/ journal'[s] = NoEntry
    BY <1>0, <1>7 DEF DeleteEntry, Delete, entries
  <2> QED
    BY <1>i, <2>1, <2>2 DEF LocalEvents
<1>8. ASSUME NEW s \in Siblings, FireEvent(s) PROVE LocalEvents'
  <2>1. UNCHANGED <<local, journal, job>> /\ job.pc = "idle"
    BY <1>8, <1>l DEF FireEvent, entries
  <2>2. PICK e \in events : /\ e.slot = s /\ e.op \in {"create", "remove"}
                            /\ events' = (events \ {e}) \union
                                             CASE e.op = "remove" -> {[slot |-> s, op |-> "delete"]}
                                               [] SelfInduced(s) -> {}
                                               [] OTHER -> {[slot |-> s, op |-> "upload"]}
    BY <1>8 DEF FireEvent, Debounced
  <2>3. e.op = "create" => SelfInduced(s)
    <3>1. e.op = "create" => local[s] # 0
      BY <1>i, <2>2
    <3>2. local[s] # 0 => journal[s] # NoEntry
      BY <2>1 DEF KeepInv, CoverInv, Unnoted, Placed, Journaled
    <3> QED
      BY <1>i, <3>1, <3>2 DEF SelfInduced
  <2>4. events' \subseteq events \/ (e.op = "remove" /\ events' \subseteq events \union {[slot |-> s, op |-> "delete"]})
    BY <2>2, <2>3
  <2>5. \A d \in events' : IF d.op = "create" THEN local[d.slot] # 0
                           ELSE d.op \in {"remove", "delete"} /\ local[d.slot] = 0
    BY <1>i, <2>2, <2>4
  <2> QED
    BY <1>i, <2>1, <2>5 DEF LocalEvents
<1>9. ASSUME NEW s \in Siblings, PushSibling(s) \/ PushRemoved(s) PROVE LocalEvents'
  <2>1. ~PushSibling(s) /\ job.pc = "idle" /\ local[s] = 0 /\ local' = local
    BY <1>9, SiblingPush
  <2>2. job' = job /\ events' \subseteq events
    BY <1>9, JobSteps DEF PushSibling, PushRemoved, TakesEvent
  <2>3. \A t \in Siblings \ {s} : journal'[t] = journal[t]
    BY <1>0, <1>9, <2>1 DEF PushRemoved, Put, entries
  <2> QED
    BY <1>i, <2>1, <2>2, <2>3 DEF LocalEvents
<1>10. ~RemoteAside /\ ~BisyncDiff /\ ~BisyncEnd /\ ~Crash /\ ~StoreFails
  BY <1>0, <1>l DEF RemoteAside, BisyncDiff, BisyncEnd, Crash, StoreFails, Safe, KeepInv, PassInv
<1> QED
  BY <1>0, <1>1, <1>2, <1>3, <1>4, <1>5, <1>6, <1>7, <1>8, <1>9, <1>10 DEF Next

\* Initially there is no loser.
LEMMA InitKeep == Init => KeepInv
<1> SUFFICES ASSUME Init PROVE KeepInv
  OBVIOUS
<1>0. 0 \in Slots /\ Siblings \subseteq Slots /\ 0 \notin Siblings
  BY SlotsAre
<1>1. \A s \in Siblings : local[s] = 0 /\ remote[s] = 0 /\ journal[s] = NoEntry
  BY <1>0 DEF Init
<1>2. feed = <<>> /\ diffs = {} /\ expired = {} /\ evicting = {} /\ kept = {}
  BY DEF Init
<1>3. job.pc = "idle" /\ job.by = "none" /\ job.slot = 0
  BY DEF Init, NoJob
<1>4. FeedInv
  BY <1>2 DEF FeedInv, FeedOK
<1>5. CoverInv /\ KeptInv
  BY <1>1, <1>2, <1>3 DEF CoverInv, KeptInv, Placed
<1>6. PassInv /\ EvictInv
  BY <1>1, <1>2, <1>3 DEF PassInv, DiffsOK, EvictInv, LocalOnly
<1>7. EventInv
  BY <1>1, <1>3 DEF Init, EventInv, LocalEvents
<1> QED
  BY <1>4, <1>5, <1>6, <1>7 DEF KeepInv

\* The invariant is inductive in a safe configuration, which stays one.
LEMMA KeepInductive ==
  /\ Init => TypeInv /\ EventsOK /\ GcInv /\ (Safe => KeepInv)
  /\ TypeInv /\ EventsOK /\ GcInv /\ (Safe => KeepInv) /\ [Next]_vars
       => TypeInv' /\ EventsOK' /\ GcInv' /\ (Safe' => KeepInv')
<1>1. [Next]_vars => (Safe' <=> Safe) /\ (LocalLosers' <=> LocalLosers)
  BY SetupStep DEF Safe, LocalLosers, Prompt, Restless, NoLimit, MaxPerFile, MaxAge, Policy, Resolvers,
                   Faults
<1>2. TypeInv /\ TypeInv' /\ EventsOK /\ GcInv /\ Safe /\ KeepInv /\ [Next]_vars => EventInv'
  BY <1>1, NextUploads, NextLocalEvents DEF EventInv
<1>3. TypeInv /\ TypeInv' /\ EventsOK /\ GcInv /\ Safe /\ KeepInv /\ [Next]_vars => KeepInv'
  BY <1>2, NextFeed, NextCover, NextKept, NextPass, NextEvict DEF KeepInv
<1>4. Init => EventsOK
  BY DEF Init, EventsOK
<1> QED
  BY <1>1, <1>3, <1>4, InitKeep, NextEvents, GcInductive

(***************************************************************************)
(* In a safe configuration, between operations every sibling on either     *)
(* side has a journal entry, so that no later conflict takes its number.   *)
(***************************************************************************)
THEOREM SiblingsJournaled == Spec => [](Safe => JournalCovers)
<1>1. Safe /\ KeepInv => JournalCovers
  BY DEF KeepInv, CoverInv, Unnoted, Placed, Journaled, JournalCovers
<1> QED
  BY <1>1, KeepInductive, PTL DEF Spec

(***************************************************************************)
(* In a safe configuration, a loser that retention has not evicted is      *)
(* still there, however many conflicts, polls, pushes, edits and passes    *)
(* follow.                                                                 *)
(***************************************************************************)
THEOREM LosersPreserved == Spec => [](Safe => Preserved)
<1>1. KeepInv => Preserved
  BY DEF KeepInv, KeptInv, Preserved
<1> QED
  BY <1>1, KeepInductive, PTL DEF Spec

----------------------------------------------------------------------------
(* How many siblings the GC leaves.                                        *)

\* Among journaled slots there is an oldest one.
LEMMA OldestOf ==
  ASSUME OrderInv, NEW T \in SUBSET Slots, T # {}
  PROVE  \E s \in T : \A m \in T : m \notin older[s]
<1> DEFINE C == {Cardinality(older[s]) : s \in T}
<1>1. ASSUME NEW s \in T PROVE IsFiniteSet(older[s]) /\ Cardinality(older[s]) \in Nat
  <2>1. older[s] \in SUBSET Slots
    BY <1>1 DEF OrderInv, Journaled
  <2>2. IsFiniteSet(older[s])
    BY <2>1, FiniteSlots, FS_Subset
  <2> QED
    BY <2>2, FS_CardinalityType
<1>2. C \in SUBSET Nat /\ C # {}
  BY <1>1
<1>3. PICK c \in C : \A d \in C : c <= d
  BY <1>2, LeastNat
<1>4. PICK s \in T : c = Cardinality(older[s])
  BY <1>3
<1>5. ASSUME NEW m \in T, m \in older[s] PROVE FALSE
  <2>1. older[m] \in SUBSET older[s] /\ m \notin older[m]
    BY <1>5 DEF OrderInv, Journaled
  <2>2. /\ Cardinality(older[m]) <= Cardinality(older[s])
        /\ Cardinality(older[m]) # Cardinality(older[s])
    BY <1>1, <1>5, <2>1, FS_Subset
  <2>3. c <= Cardinality(older[m])
    BY <1>3
  <2> QED
    BY <1>1, <1>4, <2>2, <2>3
<1> QED
  BY <1>5

\* Those that are not outnumbered are at most max_per_file.
LEMMA Survivors ==
  TypeInv /\ MaxPerFile > 0
    => \A T \in SUBSET ((Journaled \intersect Siblings) \ SelectEvictions) : Cardinality(T) <= MaxPerFile
<1> SUFFICES ASSUME TypeInv, MaxPerFile > 0,
                    NEW T \in SUBSET ((Journaled \intersect Siblings) \ SelectEvictions)
             PROVE  Cardinality(T) <= MaxPerFile
  OBVIOUS
<1>0. OrderInv /\ Siblings \subseteq Slots /\ MaxPerFile \in Nat
  BY SlotsAre, RetentionAssumption DEF TypeInv, EntriesOK, MaxPerFile
<1>1. IsFiniteSet(T)
  <2>1. IsFiniteSet(Siblings) /\ T \in SUBSET Siblings
    BY FiniteSlots
  <2> QED
    BY <2>1, FS_Subset
<1>2. CASE T = {}
  BY <1>0, <1>2, FS_EmptySet
<1>3. CASE T # {}
  <2>1. PICK s \in T : \A m \in T : m \notin older[s]
    BY <1>0, <1>3, OldestOf
  <2>2. (T \ {s}) \in SUBSET Newer(s)
    BY <1>0, <2>1 DEF OrderInv, Newer
  <2>3. ~(Cardinality(Newer(s)) >= MaxPerFile)
    BY <2>1 DEF SelectEvictions
  <2>4. Cardinality(T \ {s}) = Cardinality(T) - 1 /\ Cardinality(T) \in Nat
    BY <1>1, <2>1, FS_RemoveElement, FS_CardinalityType
  <2>5. Cardinality(T \ {s}) <= Cardinality(Newer(s)) /\ Cardinality(Newer(s)) \in Nat
    BY <2>2, NewerFinite, FS_Subset
  <2> QED
    BY <1>0, <2>3, <2>4, <2>5
<1> QED
  BY <1>2, <1>3

\* The local siblings that are not about to be evicted, and the one that the GC
\* has not yet counted.
Pending == evicting \union (IF job.pc = "note" THEN {job.n} ELSE {})
Unpruned == {s \in Siblings : local[s] # 0} \ Pending
LimitInv == Safe /\ LocalLosers /\ MaxPerFile > 0 => Cardinality(Unpruned) <= MaxPerFile

\* A set of siblings that has not grown is within the limit still.
LEMMA WithinLimit ==
  ASSUME TypeInv, NEW T \in SUBSET Siblings, NEW U \in SUBSET T, Cardinality(T) <= MaxPerFile
  PROVE  Cardinality(U) <= MaxPerFile
<1>1. IsFiniteSet(T)
  BY FiniteSlots, FS_Subset
<1>2. Cardinality(U) <= Cardinality(T) /\ Cardinality(U) \in Nat /\ Cardinality(T) \in Nat
  BY <1>1, FS_Subset, FS_CardinalityType
<1>3. MaxPerFile \in Nat
  BY RetentionAssumption DEF TypeInv, MaxPerFile
<1> QED
  BY <1>2, <1>3

\* Each selection leaves max_per_file siblings, and only a resolution adds one.
LEMMA NextLimit ==
  ASSUME TypeInv, TypeInv', GcInv, Safe, KeepInv, KeepInv', LocalLosers, MaxPerFile > 0,
         Cardinality(Unpruned) <= MaxPerFile, [Next]_vars
  PROVE  Cardinality(Unpruned') <= MaxPerFile
<1>0. /\ 0 \in Slots /\ Siblings \subseteq Slots /\ 0 \notin Siblings
      /\ local \in [Slots -> Contents] /\ job.n \in Siblings
      /\ job.by \in {"none", "pull"} /\ job.slot = 0 /\ (job.pc # "idle" => job.win = "remote" /\ job.by = "pull")
      /\ diffs = {}
  BY SlotsAre DEF TypeInv, FilesOK, JobOK, Jobs, KeepInv, EvictInv, PassInv, LocalOnly
<1>s. MaxPerFile' = MaxPerFile
  BY SetupStep DEF MaxPerFile
<1>1. SUFFICES ASSUME ~NoteLoser PROVE Unpruned' \in SUBSET Unpruned
  <2>1. CASE Unpruned' \in SUBSET Unpruned
    BY <2>1, WithinLimit DEF Unpruned
  <2>2. CASE NoteLoser
    <3>1. evicting' = SelectEvictions' /\ job'.pc = "prune"
      BY <1>0, <2>2, JobSteps DEF NoteLoser, Moves
    <3>2. Unpruned' \in SUBSET ((Journaled' \intersect Siblings) \ SelectEvictions')
      BY <3>1 DEF Unpruned, Pending, KeepInv, CoverInv, Unnoted, Placed
    <3>3. MaxPerFile' > 0
      BY <1>s
    <3>4. (TypeInv /\ MaxPerFile > 0
             => \A T \in SUBSET ((Journaled \intersect Siblings) \ SelectEvictions) :
                   Cardinality(T) <= MaxPerFile)'
      BY Survivors, PTL
    <3> QED
      BY <1>s, <3>2, <3>3, <3>4
  <2> QED
    BY <1>1, <2>1, <2>2
<1>2. Unpruned \subseteq Siblings /\ Unpruned' \subseteq Siblings
  BY DEF Unpruned
<1>3. CASE RemoveEvicted
  <2>1. job.pc = "prune" /\ job'.pc = "unjournal" /\ evicting' = evicting
    BY <1>3, JobSteps DEF Moves, RemoveEvicted
  <2>2. \A s \in Siblings : local'[s] = local[s] \/ local'[s] = 0
    BY <1>0, <1>3, FileSteps, EvictedLocal DEF RemoveEvicted, RemoveLocal
  <2> QED
    BY <2>1, <2>2 DEF Unpruned, Pending
<1>4. CASE DeleteEntry
  <2>1. /\ job.pc = "unjournal" /\ job'.pc = "prune" /\ evicting' = evicting \ {NextEvicted}
        /\ local' = local /\ evicting # {}
    BY <1>4, JobSteps DEF Moves, DeleteEntry, files, TypeInv, GcOK
  <2>2. local[NextEvicted] = 0
    BY <2>1, EvictedLocal DEF GcInv, GoneInv, FileGone
  <2> QED
    BY <2>1, <2>2 DEF Unpruned, Pending
<1>5. CASE LocalAside
  <2>1. job.pc = "aside" /\ job'.pc = "note" /\ job'.n = job.n /\ evicting' = evicting
    BY <1>0, <1>5, JobSteps DEF Moves, LocalAside
  <2>2. \A s \in Siblings : s # job.n => local'[s] = local[s]
    BY <1>0, <1>5 DEF LocalAside
  <2> QED
    BY <2>1, <2>2 DEF Unpruned, Pending
<1>6. ASSUME job' = job \/ (job.pc # "note" /\ job'.pc # "note"), evicting' = evicting,
             \A s \in Siblings : local'[s] = local[s]
      PROVE  Unpruned' \in SUBSET Unpruned
  BY <1>6 DEF Unpruned, Pending
<1>7. CASE \/ LocalEdit \/ RemoteEdit \/ PushFile \/ Age \/ NothingToDo \/ UNCHANGED vars
           \/ \E s \in Siblings : FireEvent(s) \/ PushSibling(s) \/ PushRemoved(s)
           \/ \E s \in Slots : PullSkip(s)
  <2>1. job' = job
    BY <1>7, JobSteps
  <2>2. evicting' = evicting /\ (local' = local \/ local' = [local EXCEPT ![0] = edits + 1])
    BY <1>7 DEF LocalEdit, RemoteEdit, PushFile, Age, NothingToDo, vars, files, PullSkip,
       FireEvent, PushSibling, PushRemoved, TakesEvent
  <2>3. \A s \in Siblings : local'[s] = local[s]
    BY <1>0, <2>2
  <2> QED
    BY <1>6, <2>1, <2>2, <2>3
<1>8. ASSUME NEW s \in Slots, PullDownload(s) \/ PullConflict(s) PROVE Unpruned' \in SUBSET Unpruned
  <2>1. s = 0
    <3>1. feed # <<>> /\ Head(feed) = Changed(s) /\ feed \in Seq(Feed)
      BY <1>8 DEF PullDownload, PullConflict, Delivered, TypeInv, FilesOK
    <3>2. 1 \in 1..Len(feed) /\ Head(feed) = feed[1]
      BY <3>1
    <3> QED
      BY <3>1, <3>2 DEF KeepInv, EvictInv, LocalOnly, Changed
  <2>2. job.pc # "note" /\ job'.pc # "note" /\ evicting' = evicting
    BY <1>8 DEF PullDownload, PullConflict, Delivered
  <2>3. local' = local \/ local' = [local EXCEPT ![0] = remote[0]]
    BY <1>8, <2>1 DEF PullDownload, PullConflict
  <2>4. \A t \in Siblings : local'[t] = local[t]
    BY <1>0, <2>3
  <2> QED
    BY <1>6, <2>2, <2>4
<1>9. CASE PruneDone \/ FetchWinner \/ RecordWinner \/ FileMissing
  <2>1. job.pc # "note" /\ job'.pc # "note"
    BY <1>0, <1>9, JobSteps DEF Moves, Ends
  <2>2. evicting' = evicting /\ (local' = local \/ local' = [local EXCEPT ![0] = remote[0]])
    BY <1>0, <1>9 DEF PruneDone, FetchWinner, RecordWinner, FileMissing, files
  <2>3. \A t \in Siblings : local'[t] = local[t]
    BY <1>0, <2>2
  <2> QED
    BY <1>6, <2>1, <2>2, <2>3
<1>10. CASE RemoteFails
  <2>1. evicting = {} \/ journal[NextEvicted].side = "local"
    BY EvictedLocal
  <2>2. job.pc # "note" /\ job'.pc # "note"
    BY <1>0, <1>10, JobSteps DEF Ends
  <2>3. evicting' = evicting /\ local' = local
    BY <1>10, <2>1 DEF RemoteFails, files
  <2> QED
    BY <1>6, <2>2, <2>3
<1>11. ~RemoteAside /\ ~BisyncEnd /\ ~BisyncDiff /\ ~Crash /\ ~StoreFails
  BY <1>0 DEF RemoteAside, BisyncEnd, BisyncDiff, Crash, StoreFails, Safe, LocalLosers, KeepInv, PassInv
<1> QED
  BY <1>0, <1>1, <1>3, <1>4, <1>5, <1>7, <1>8, <1>9, <1>10, <1>11, FeedHead DEF Next

(***************************************************************************)
(* Where losers stay on the local side, no more than max_per_file siblings *)
(* are left between operations, on disk and Drive together, although the   *)
(* watcher sees every loser that is renamed and every sibling that is      *)
(* evicted, and the pushes of those events put entries back.               *)
(***************************************************************************)
THEOREM NoMoreThanMax == Spec => []AtMostMaxPerFile
<1>1. Init => LimitInv
  <2> SUFFICES ASSUME Init, Safe, LocalLosers, MaxPerFile > 0 PROVE Cardinality(Unpruned) <= MaxPerFile
    BY DEF LimitInv
  <2>1. \A s \in Siblings : local[s] = 0
    BY SlotsAre DEF Init
  <2>2. Unpruned = {}
    BY <2>1 DEF Unpruned
  <2>3. MaxPerFile \in Nat
    BY RetentionAssumption DEF Init, MaxPerFile
  <2> QED
    BY <2>2, <2>3, FS_EmptySet
<1>2. TypeInv /\ TypeInv' /\ GcInv /\ (Safe => KeepInv) /\ (Safe' => KeepInv') /\ LimitInv /\ [Next]_vars
        => LimitInv'
  <2> SUFFICES ASSUME TypeInv, TypeInv', GcInv, Safe => KeepInv, Safe' => KeepInv', LimitInv, [Next]_vars
               PROVE  LimitInv'
    OBVIOUS
  <2>1. (Safe' <=> Safe) /\ (LocalLosers' <=> LocalLosers) /\ MaxPerFile' = MaxPerFile
    BY SetupStep DEF Safe, LocalLosers, Prompt, Restless, NoLimit, MaxPerFile, MaxAge, Policy, Resolvers,
                     Faults
  <2> QED
    BY <2>1, NextLimit DEF LimitInv
<1>3. TypeInv /\ (Safe => KeepInv) /\ LimitInv => AtMostMaxPerFile
  <2> SUFFICES ASSUME TypeInv, KeepInv, Safe, LocalLosers, LimitInv, job.pc = "idle", MaxPerFile > 0
               PROVE  Cardinality({s \in Siblings : local[s] # 0})
                        + Cardinality({s \in Siblings : remote[s] # 0}) <= MaxPerFile
    BY DEF AtMostMaxPerFile, Safe
  <2>1. Unpruned = {s \in Siblings : local[s] # 0}
    BY DEF TypeInv, GcOK, Unpruned, Pending
  <2>2. {s \in Siblings : remote[s] # 0} = {}
    BY DEF KeepInv, EvictInv, LocalOnly
  <2>3. IsFiniteSet(Unpruned)
    <3>1. IsFiniteSet(Siblings) /\ Unpruned \in SUBSET Siblings
      BY FiniteSlots DEF Unpruned
    <3> QED
      BY <3>1, FS_Subset
  <2>4. Cardinality(Unpruned) <= MaxPerFile /\ Cardinality(Unpruned) \in Nat
    BY <2>3, FS_CardinalityType DEF LimitInv
  <2>5. Cardinality({s \in Siblings : remote[s] # 0}) = 0
    BY <2>2, FS_EmptySet
  <2>6. MaxPerFile \in Nat
    BY RetentionAssumption DEF TypeInv, MaxPerFile
  <2> QED
    BY <2>1, <2>4, <2>5, <2>6
<1> QED
  BY <1>1, <1>2, <1>3, KeepInductive, PTL DEF Spec
=============================================================================
