-------------------------- MODULE DirRename_proofs --------------------------
(***************************************************************************)
(* Theorems about DirRename.                                               *)
(***************************************************************************)
EXTENDS DirRename, SequenceTheorems, TLAPS

Chars == Nat \ {0}

LEMMA NamesAreSeqs ==
    /\ \A d \in Dirs \union Leaves : d \in Seq(Chars) /\ d # <<>>
    /\ \A d \in Dirs \union Leaves : d \in Seq(Nat)
BY DirRenameAssumption, SeqMonotonic DEF Chars

\* What is at each place of the path of a file.
LEMMA PathShape ==
    ASSUME NEW d \in Dirs, NEW l \in Leaves
    PROVE  /\ PathOf(d, l) \in Seq(Nat)
           /\ Len(PathOf(d, l)) = Len(d) + 1 + Len(l)
           /\ \A i \in 1..Len(d) : PathOf(d, l)[i] = d[i]
           /\ PathOf(d, l)[Len(d) + 1] = 0
           /\ \A i \in 1..Len(l) : PathOf(d, l)[Len(d) + 1 + i] = l[i]
<1>1. d \in Seq(Nat) /\ l \in Seq(Nat) /\ <<0>> \in Seq(Nat)
  BY NamesAreSeqs
<1>2. /\ d \o <<0>> \in Seq(Nat) /\ Len(d \o <<0>>) = Len(d) + 1
      /\ \A i \in 1..Len(d) : (d \o <<0>>)[i] = d[i]
      /\ (d \o <<0>>)[Len(d) + 1] = 0
  BY <1>1, ConcatProperties
<1>3. PathOf(d, l) = (d \o <<0>>) \o l
  BY DEF PathOf
<1>4. QED
  BY <1>1, <1>2, <1>3, ConcatProperties
\* A name has no separator in it.
LEMMA NoSeparator ==
    ASSUME NEW d \in Dirs \union Leaves
    PROVE  \A i \in 1..Len(d) : d[i] # 0
<1>1. d \in Seq(Chars)
  BY NamesAreSeqs
<1>2. \A i \in 1..Len(d) : d[i] \in Chars
  BY <1>1, ElementOfSeq
<1>3. QED
  BY <1>2 DEF Chars

LEMMA NameLength ==
    ASSUME NEW d \in Dirs \union Leaves
    PROVE  d \in Seq(Nat) /\ Len(d) \in Nat /\ Len(d) > 0
BY NamesAreSeqs, EmptySeq, LenProperties

\* What it takes for a path to begin with a name, place by place.
LEMMA PrefixPlaces ==
    ASSUME NEW s \in Seq(Nat), NEW p \in Seq(Nat)
    PROVE  IsPrefix(s, p) <=> Len(s) <= Len(p) /\ \A i \in 1..Len(s) : s[i] = p[i]
<1>1. Len(s) \in Nat /\ Len(p) \in Nat
  BY LenProperties
<1>2. SubSeq(s, 1, Len(s)) = s
  BY SubSeqFull
<1>3. ASSUME Len(s) <= Len(p)
      PROVE  /\ SubSeq(p, 1, Len(s)) \in Seq(Nat)
             /\ Len(SubSeq(p, 1, Len(s))) = Len(s)
             /\ \A i \in 1..Len(s) : SubSeq(p, 1, Len(s))[i] = p[i]
  <2>1. \A i \in 1..Len(s) : i \in 1..Len(p)
    BY <1>1, <1>3
  <2>2. QED
    BY <1>1, <1>3, <2>1, SubSeqProperties
<1>4. ASSUME Len(s) <= Len(p)
      PROVE  SubSeq(p, 1, Len(s)) = s <=> \A i \in 1..Len(s) : s[i] = p[i]
  BY <1>3, <1>4, SeqEqual
<1>5. QED
  BY <1>2, <1>4 DEF IsPrefix

\* A file is in one directory, whatever the names look like.
LEMMA InPath ==
    ASSUME NEW d \in Dirs, NEW l \in Leaves, NEW from \in Dirs
    PROVE  In(from, PathOf(d, l)) <=> d = from
<1> DEFINE p == PathOf(d, l)
           s == Append(from, 0)
<1>1. /\ Len(d) \in Nat /\ Len(l) \in Nat /\ Len(from) \in Nat
      /\ d \in Seq(Nat) /\ from \in Seq(Nat)
  BY NameLength
<1>2. /\ s \in Seq(Nat) /\ Len(s) = Len(from) + 1
      /\ s[Len(from) + 1] = 0 /\ \A i \in 1..Len(from) : s[i] = from[i]
  BY <1>1, AppendProperties
<1>3. In(from, p) <=> Len(s) <= Len(p) /\ \A i \in 1..Len(s) : s[i] = p[i]
  BY <1>2, PathShape, PrefixPlaces DEF In
<1> HIDE DEF p, s
<1>4. /\ Len(p) = Len(d) + 1 + Len(l) /\ p[Len(d) + 1] = 0
      /\ \A i \in 1..Len(d) : p[i] = d[i]
  BY PathShape DEF p
<1>5. ASSUME In(from, p) PROVE d = from
  <2>1. ASSUME Len(from) < Len(d) PROVE FALSE
    <3>1. Len(from) + 1 \in 1..Len(d) /\ Len(from) + 1 \in 1..Len(s)
      BY <1>1, <1>2, <2>1
    <3>2. d[Len(from) + 1] = 0
      BY <1>2, <1>3, <1>4, <1>5, <3>1
    <3>3. QED
      BY <3>1, <3>2, NoSeparator
  <2>2. ASSUME Len(d) < Len(from) PROVE FALSE
    <3>1. Len(d) + 1 \in 1..Len(from) /\ Len(d) + 1 \in 1..Len(s)
      BY <1>1, <1>2, <2>2
    <3>2. from[Len(d) + 1] = 0
      BY <1>2, <1>3, <1>4, <1>5, <3>1
    <3>3. QED
      BY <3>1, <3>2, NoSeparator
  <2>3. Len(d) = Len(from) /\ \A i \in 1..Len(d) : d[i] = from[i]
    BY <1>1, <1>2, <1>3, <1>4, <1>5, <2>1, <2>2
  <2>4. QED
    BY <1>1, <2>3, SeqEqual
<1>6. ASSUME d = from PROVE In(from, p)
  BY <1>1, <1>2, <1>3, <1>4, <1>6
<1>7. QED
  BY <1>5, <1>6 DEF p

\* A path is its directory's name and what follows it.
LEMMA PathTail ==
    ASSUME NEW d \in Dirs, NEW l \in Leaves
    PROVE  /\ <<0>> \o l \in Seq(Nat) /\ Len(<<0>> \o l) = Len(l) + 1
           /\ PathOf(d, l) = d \o (<<0>> \o l)
<1>1. d \in Seq(Nat) /\ l \in Seq(Nat) /\ <<0>> \in Seq(Nat) /\ Len(<<0>>) = 1 /\ Len(l) \in Nat
  BY NameLength
<1>2. PathOf(d, l) = (d \o <<0>>) \o l
  BY DEF PathOf
<1>3. (d \o <<0>>) \o l = d \o (<<0>> \o l)
  BY <1>1, ConcatAssociative
<1>4. <<0>> \o l \in Seq(Nat) /\ Len(<<0>> \o l) = Len(<<0>>) + Len(l)
  BY <1>1, ConcatProperties
<1>5. QED
  BY <1>1, <1>2, <1>3, <1>4

\* The new name of a file in a renamed directory.
LEMMA RenamedPath ==
    ASSUME NEW d \in Dirs, NEW l \in Leaves, NEW to \in Dirs
    PROVE  Renamed(PathOf(d, l), d, to) = PathOf(to, l)
<1> DEFINE p == PathOf(d, l)
           r == <<0>> \o l
<1>1. /\ Len(d) \in Nat /\ Len(l) \in Nat /\ d \in Seq(Nat)
      /\ r \in Seq(Nat) /\ Len(r) = Len(l) + 1 /\ p = d \o r
      /\ Len(p) = Len(d) + 1 + Len(l)
  BY NameLength, PathTail, PathShape
<1> HIDE DEF p, r
<1>2. /\ Len(d) + 1 \in Len(d) + 1 .. Len(d) + Len(r)
      /\ Len(p) \in Len(d) + 1 .. Len(d) + Len(r)
      /\ Len(d) + 1 - Len(d) = 1 /\ Len(p) - Len(d) = Len(r)
  BY <1>1
<1>3. SubSeq(p, Len(d) + 1, Len(p)) = SubSeq(r, 1, Len(r))
  <2>1. SubSeq(d \o r, Len(d) + 1, Len(p)) = SubSeq(r, Len(d) + 1 - Len(d), Len(p) - Len(d))
    BY <1>1, <1>2, SubSeqOfConcat2
  <2>2. QED
    BY <1>1, <1>2, <2>1
<1>4. SubSeq(r, 1, Len(r)) = r
  BY <1>1, SubSeqFull
<1>5. QED
  BY <1>3, <1>4, PathTail DEF Renamed, p, r

\* A path tells its directory and its file.
LEMMA PathOfInjective ==
    ASSUME NEW d \in Dirs, NEW l \in Leaves, NEW e \in Dirs, NEW m \in Leaves,
           PathOf(d, l) = PathOf(e, m)
    PROVE  d = e /\ l = m
<1>1. d = e
  BY InPath
<1>2. /\ d \in Seq(Nat) /\ l \in Seq(Nat) /\ m \in Seq(Nat) /\ <<0>> \in Seq(Nat)
      /\ <<0>> \o l \in Seq(Nat) /\ <<0>> \o m \in Seq(Nat)
  BY NameLength, PathTail
<1>3. d \o (<<0>> \o l) = d \o (<<0>> \o m)
  BY <1>1, PathTail
<1>4. <<0>> \o l = <<0>> \o m
  BY <1>2, <1>3, ConcatSimplifications
<1>5. l = m
  BY <1>2, <1>4, ConcatSimplifications
<1>6. QED
  BY <1>1, <1>5

\* With names apart the journal's prefix is the directory.
LEMMA PrefixIsDir ==
    ASSUME NamesApart, NEW d \in Dirs, NEW l \in Leaves, NEW from \in Dirs
    PROVE  IsPrefix(from, PathOf(d, l)) <=> d = from
<1> DEFINE p == PathOf(d, l)
<1>1. /\ Len(d) \in Nat /\ Len(l) \in Nat /\ Len(from) \in Nat
      /\ d \in Seq(Nat) /\ from \in Seq(Nat)
  BY NameLength
<1>2. /\ p \in Seq(Nat) /\ Len(p) = Len(d) + 1 + Len(l) /\ p[Len(d) + 1] = 0
      /\ \A i \in 1..Len(d) : p[i] = d[i]
  BY PathShape
<1> HIDE DEF p
<1>3. IsPrefix(from, p) <=> Len(from) <= Len(p) /\ \A i \in 1..Len(from) : from[i] = p[i]
  BY <1>1, <1>2, PrefixPlaces
<1>4. ASSUME IsPrefix(from, p) PROVE d = from
  <2>1. ASSUME Len(d) < Len(from) PROVE FALSE
    <3>1. Len(d) + 1 \in 1..Len(from)
      BY <1>1, <2>1
    <3>2. from[Len(d) + 1] = 0
      BY <1>2, <1>3, <1>4, <3>1
    <3>3. QED
      BY <3>1, <3>2, NoSeparator
  <2>2. Len(from) <= Len(d) /\ \A i \in 1..Len(from) : from[i] = d[i]
    BY <1>1, <1>2, <1>3, <1>4, <2>1
  <2>3. IsPrefix(from, d)
    BY <1>1, <2>2, PrefixPlaces
  <2>4. QED
    BY <2>3 DEF NamesApart
<1>5. ASSUME d = from PROVE IsPrefix(from, p)
  BY <1>1, <1>2, <1>3, <1>5
<1>6. QED
  BY <1>4, <1>5 DEF p
----------------------------------------------------------------------------
(* Renames of whole trees.                                                 *)

\* What a rename makes of a path.
Key(p, from, to) == IF In(from, p) THEN Renamed(p, from, to) ELSE p

\* No file is in a directory.
Free(f, d) == ~\E p \in DOMAIN f : In(d, p)

LEMMA PathParts ==
    ASSUME NEW p \in Paths
    PROVE  \E d \in Dirs, l \in Leaves : p = PathOf(d, l)
BY DEF Paths

LEMMA KeyPath ==
    ASSUME NEW p \in Paths, NEW from \in Dirs, NEW to \in Dirs
    PROVE  /\ Key(p, from, to) \in Paths
           /\ In(from, p) => In(to, Key(p, from, to)) /\ Key(p, from, to) = Renamed(p, from, to)
           /\ ~In(from, p) => Key(p, from, to) = p
<1>1. PICK d \in Dirs, l \in Leaves : p = PathOf(d, l)
  BY PathParts
<1>2. CASE d = from
  <2>1. In(from, p) /\ Key(p, from, to) = PathOf(to, l)
    BY <1>1, <1>2, InPath, RenamedPath DEF Key
  <2>2. PathOf(to, l) \in Paths /\ In(to, PathOf(to, l))
    BY InPath DEF Paths
  <2>3. QED
    BY <2>1, <2>2 DEF Key
<1>3. CASE d # from
  BY <1>1, <1>3, InPath DEF Key
<1>4. QED
  BY <1>2, <1>3

\* Two files of one directory keep apart.
LEMMA RenamedInjective ==
    ASSUME NEW p \in Paths, NEW q \in Paths, NEW from \in Dirs, NEW to \in Dirs,
           In(from, p), In(from, q), Renamed(p, from, to) = Renamed(q, from, to)
    PROVE  p = q
<1>1. PICK d \in Dirs, l \in Leaves : p = PathOf(d, l)
  BY PathParts
<1>2. PICK e \in Dirs, m \in Leaves : q = PathOf(e, m)
  BY PathParts
<1>3. d = from /\ e = from
  BY <1>1, <1>2, InPath
<1>4. PathOf(to, l) = PathOf(to, m)
  BY <1>1, <1>2, <1>3, RenamedPath
<1>5. QED
  BY <1>1, <1>2, <1>3, <1>4, PathOfInjective

\* A rename to a free name brings no two files together.
LEMMA KeyInjective ==
    ASSUME NEW D \in SUBSET Paths, NEW from \in Dirs, NEW to \in Dirs,
           \A p \in D : ~In(to, p),
           NEW p \in D, NEW q \in D, Key(p, from, to) = Key(q, from, to)
    PROVE  p = q
<1>1. p \in Paths /\ q \in Paths
  OBVIOUS
<1>2. CASE In(from, p) /\ In(from, q)
  BY <1>1, <1>2, RenamedInjective DEF Key
<1>3. CASE ~In(from, p) /\ ~In(from, q)
  BY <1>3 DEF Key
<1>4. CASE In(from, p) /\ ~In(from, q)
  BY <1>1, <1>4, KeyPath
<1>5. CASE ~In(from, p) /\ In(from, q)
  BY <1>1, <1>5, KeyPath
<1>6. QED
  BY <1>2, <1>3, <1>4, <1>5

LEMMA MovedFunction ==
    ASSUME NEW f, NEW from, NEW to
    PROVE  Moved(f, from, to) =
             [q \in {Key(p, from, to) : p \in DOMAIN f} |->
                f[CHOOSE p \in DOMAIN f : Key(p, from, to) = q]]
BY DEF Moved, Key

\* A rename of a tree gives a tree, whether its new name is free or not.
LEMMA MovedTree ==
    ASSUME NEW f, IsTree(f), NEW from \in Dirs, NEW to \in Dirs
    PROVE  /\ IsTree(Moved(f, from, to))
           /\ DOMAIN Moved(f, from, to) = {Key(p, from, to) : p \in DOMAIN f}
<1>1. DOMAIN f \subseteq Paths /\ f \in [DOMAIN f -> Versions]
  BY DEF IsTree
<1>2. \A p \in DOMAIN f : Key(p, from, to) \in Paths
  BY <1>1, KeyPath
<1>3. \A q \in {Key(p, from, to) : p \in DOMAIN f} :
         f[CHOOSE p \in DOMAIN f : Key(p, from, to) = q] \in Versions
  BY <1>1
<1>4. QED
  BY <1>2, <1>3, MovedFunction DEF IsTree

\* The transaction's result, by its parts.
Old(from) == {p \in DOMAIN journal : IsPrefix(from, p)}
Stay(from, to) ==
    {p \in Old(from) : Renamed(p, from, to) \in Old(from) =>
        Renamed(p, from, to) = p \/ Before(Renamed(p, from, to), p)}
New(from, to) == {Renamed(p, from, to) : p \in Stay(from, to)}

LEMMA RewriteFunction ==
    ASSUME NEW from, NEW to
    PROVE  RewritePrefix(from, to) =
             [q \in (DOMAIN journal \ Old(from)) \union New(from, to) |->
                IF q \in New(from, to)
                THEN journal[CHOOSE p \in Stay(from, to) : Renamed(p, from, to) = q]
                ELSE journal[q]]
BY DEF RewritePrefix, Old, Stay, New

LEMMA OldIsDir ==
    ASSUME NamesApart, DOMAIN journal \subseteq Paths, NEW from \in Dirs
    PROVE  Old(from) = {p \in DOMAIN journal : In(from, p)}
<1>1. \A p \in DOMAIN journal : IsPrefix(from, p) <=> In(from, p)
  <2> TAKE p \in DOMAIN journal
  <2>1. PICK d \in Dirs, l \in Leaves : p = PathOf(d, l)
    BY PathParts
  <2>2. QED
    BY <2>1, PrefixIsDir, InPath
<1>2. QED
  BY <1>1 DEF Old

\* With names apart the rewrite makes no path that nobody made.
LEMMA RewriteTree ==
    ASSUME NamesApart, IsTree(journal), NEW from \in Dirs, NEW to \in Dirs
    PROVE  IsTree(RewritePrefix(from, to))
<1>1. DOMAIN journal \subseteq Paths /\ journal \in [DOMAIN journal -> Versions]
  BY DEF IsTree
<1>2. Old(from) = {p \in DOMAIN journal : In(from, p)}
  BY <1>1, OldIsDir
<1>3. Stay(from, to) \subseteq Old(from)
  BY DEF Stay
<1>4. New(from, to) \subseteq Paths
  BY <1>1, <1>2, <1>3, KeyPath DEF New
<1>5. \A q \in New(from, to) :
         journal[CHOOSE p \in Stay(from, to) : Renamed(p, from, to) = q] \in Versions
  BY <1>1, <1>2, <1>3 DEF New
<1>6. QED
  BY <1>1, <1>4, <1>5, RewriteFunction DEF IsTree

\* To a free name, the rewrite does to the entries what the move did to the
\* files: it loses none, and touches no other directory.
LEMMA RewriteIsMove ==
    ASSUME NamesApart, IsTree(journal), NEW from \in Dirs, NEW to \in Dirs, Free(journal, to)
    PROVE  RewritePrefix(from, to) = Moved(journal, from, to)
<1>1. DOMAIN journal \subseteq Paths
  BY DEF IsTree
<1>2. Old(from) = {p \in DOMAIN journal : In(from, p)}
  BY <1>1, OldIsDir
<1>3. \A p \in Old(from) : Renamed(p, from, to) = Key(p, from, to) /\ Renamed(p, from, to) \notin DOMAIN journal
  BY <1>1, <1>2, KeyPath DEF Free
<1>4. Stay(from, to) = Old(from)
  BY <1>2, <1>3 DEF Stay
<1>5. (DOMAIN journal \ Old(from)) \union New(from, to) = {Key(p, from, to) : p \in DOMAIN journal}
  <2>1. \A p \in DOMAIN journal \ Old(from) : Key(p, from, to) = p
    BY <1>2 DEF Key
  <2>2. New(from, to) = {Key(p, from, to) : p \in Old(from)}
    BY <1>3, <1>4 DEF New
  <2>3. QED
    BY <1>2, <2>1, <2>2
<1>6. ASSUME NEW q \in {Key(p, from, to) : p \in DOMAIN journal}
      PROVE  (IF q \in New(from, to)
              THEN journal[CHOOSE p \in Stay(from, to) : Renamed(p, from, to) = q]
              ELSE journal[q]) = journal[CHOOSE p \in DOMAIN journal : Key(p, from, to) = q]
  <2>1. PICK p \in DOMAIN journal : Key(p, from, to) = q
    OBVIOUS
  <2>2. \A r \in DOMAIN journal : Key(r, from, to) = q => r = p
    BY <1>1, <2>1, KeyInjective DEF Free
  <2>3. (CHOOSE r \in DOMAIN journal : Key(r, from, to) = q) = p
    BY <2>1, <2>2
  <2>4. CASE q \in New(from, to)
    <3>1. PICK s \in Stay(from, to) : Renamed(s, from, to) = q
      BY <2>4 DEF New
    <3>2. \A r \in Stay(from, to) : Renamed(r, from, to) = q => r = p
      BY <1>2, <1>3, <1>4, <2>2
    <3>3. (CHOOSE r \in Stay(from, to) : Renamed(r, from, to) = q) = p
      BY <3>1, <3>2
    <3>4. QED
      BY <2>3, <2>4, <3>3
  <2>5. CASE q \notin New(from, to)
    <3>1. p \notin Old(from)
      BY <1>3, <1>4, <2>1, <2>5 DEF New
    <3>2. p = q
      BY <1>2, <2>1, <3>1 DEF Key
    <3>3. QED
      BY <2>3, <2>5, <3>2
  <2>6. QED
    BY <2>4, <2>5
<1> DEFINE keys == {Key(p, from, to) : p \in DOMAIN journal}
           g(q) == IF q \in New(from, to)
                   THEN journal[CHOOSE p \in Stay(from, to) : Renamed(p, from, to) = q]
                   ELSE journal[q]
           h(q) == journal[CHOOSE p \in DOMAIN journal : Key(p, from, to) = q]
<1>7. \A q \in keys : g(q) = h(q)
  BY <1>6
<1>8. RewritePrefix(from, to) = [q \in keys |-> g(q)]
  BY <1>5, RewriteFunction
<1>9. Moved(journal, from, to) = [q \in keys |-> h(q)]
  BY MovedFunction
<1> HIDE DEF keys, g, h
<1>10. QED
  BY <1>7, <1>8, <1>9
----------------------------------------------------------------------------
(* Types.                                                                  *)

\* What a job is about is of the kind its step needs.
GoodJob(j) ==
    /\ j \in Jobs
    /\ j.pc \in {"open", "send", "record"} => j.path \in Paths
    /\ j.pc \in {"send", "record"} => j.ver \in Versions
    /\ j.pc \in {"move", "rewrite"} => j.path \in Dirs /\ j.to \in Dirs

CountOK == count \in [edits : 0..setup.edits, renames : Nat, crashes : Nat]

TypeInv ==
    /\ TypeOK
    /\ \A w \in Workers : GoodJob(jobs[w])
    /\ CountOK

\* No step changes the configuration, or what depends on it alone.
LEMMA Fixed ==
    ASSUME Next
    PROVE  /\ setup' = setup /\ Workers' = Workers /\ Versions' = Versions /\ Jobs' = Jobs
           /\ \A j : GoodJob(j)' <=> GoodJob(j)
           /\ \A f : IsTree(f)' <=> IsTree(f)
<1>1. setup' = setup
  BY DEF Next, User, Work, Edit, Rename, TakeEvent, Open, Send, SendFails, Record,
         TakeRename, MoveFile, MoveFails, Rewrite, Pass, Crash, Rest, drive, vars
<1>2. QED
  BY <1>1 DEF Workers, Versions, Jobs, GoodJob, IsTree

LEMMA SetupFacts ==
    ASSUME setup \in Setups
    PROVE  /\ setup.leaves \subseteq Leaves /\ setup.workers \in Nat \ {0}
           /\ setup.edits \in Nat /\ MaxAttempts \in Nat \ {0}
           /\ 1 \in Versions
BY DirRenameAssumption DEF Versions

LEMMA PutTree ==
    ASSUME NEW f, IsTree(f), NEW p \in Paths, NEW v \in Versions
    PROVE  IsTree(Put(f, p, v))
BY DEF IsTree, Put

LEMMA IdleGood == setup \in Setups => GoodJob(Idle)
BY SetupFacts DEF GoodJob, Jobs, Idle

LEMMA AgainGood ==
    ASSUME NEW j, GoodJob(j), NEW pc, setup \in Setups,
           \/ pc = "open" /\ j.pc \in {"open", "send"}
           \/ pc = "move" /\ j.pc = "move"
    PROVE  GoodJob(Again(j, pc))
<1>1. CASE j.tries + 1 < MaxAttempts
  <2> DEFINE k == [j EXCEPT !.pc = pc, !.tries = @ + 1]
  <2>1. j \in Jobs /\ j.tries \in 0..(MaxAttempts - 1) /\ MaxAttempts \in Nat
    BY SetupFacts DEF GoodJob, Jobs
  <2>2. j.tries + 1 \in 0..(MaxAttempts - 1)
    BY <1>1, <2>1
  <2>3. k \in Jobs
    BY <2>1, <2>2 DEF Jobs
  <2>4. k.pc = pc /\ k.path = j.path /\ k.to = j.to
    BY <2>1 DEF Jobs
  <2> HIDE DEF k
  <2>5. GoodJob(k)
    BY <2>3, <2>4 DEF GoodJob
  <2>6. QED
    BY <1>1, <2>5 DEF Again, k
<1>2. CASE ~(j.tries + 1 < MaxAttempts)
  BY <1>2, IdleGood DEF Again
<1>3. QED
  BY <1>1, <1>2

\* One worker's job is replaced by a good one.
LEMMA JobStep ==
    ASSUME TypeInv, Next, NEW w \in Workers, NEW j, GoodJob(j), jobs' = [jobs EXCEPT ![w] = j]
    PROVE  jobs' \in [Workers -> Jobs]' /\ (\A v \in Workers : GoodJob(jobs[v]))'
<1>1. /\ jobs \in [Workers -> Jobs] /\ \A v \in Workers : GoodJob(jobs[v])
      /\ j \in Jobs
  BY DEF TypeInv, TypeOK, GoodJob
<1>2. jobs' \in [Workers -> Jobs] /\ \A v \in Workers : GoodJob(jobs'[v])
  BY <1>1
<1>3. QED
  BY <1>2, Fixed DEF GoodJob

LEMMA InitTypes == Init => TypeInv
<1> SUFFICES ASSUME Init PROVE TypeInv
  OBVIOUS
<1>1. setup \in Setups
  BY DEF Init
<1>2. PICK S \in SUBSET Dirs : local = [p \in {PathOf(d, l) : d \in S, l \in setup.leaves} |-> 1]
  BY DEF Init
<1>3. {PathOf(d, l) : d \in S, l \in setup.leaves} \subseteq Paths
  BY <1>1, SetupFacts DEF Paths
<1>4. IsTree(local) /\ IsTree(remote) /\ IsTree(journal)
  <2>1. IsTree(local)
    BY <1>1, <1>2, <1>3, SetupFacts DEF IsTree
  <2>2. QED
    BY <2>1 DEF Init
<1>5. \A w \in Workers : GoodJob(jobs[w])
  BY <1>1, IdleGood DEF Init
<1>6. jobs \in [Workers -> Jobs]
  BY <1>1, IdleGood DEF Init, GoodJob
<1>7. CountOK
  BY <1>1, SetupFacts DEF Init, CountOK
<1>8. QED
  BY <1>1, <1>4, <1>5, <1>6, <1>7 DEF TypeInv, TypeOK, Init
LEMMA UserTypes ==
    ASSUME TypeInv, Next, User
    PROVE  TypeInv'
<1> USE DEF TypeInv, TypeOK
<1>1. ASSUME NEW p \in DOMAIN local, Edit(p) PROVE TypeInv'
  <2>1. /\ p \in Paths /\ count.edits \in 0..setup.edits /\ setup.edits \in Nat
        /\ count.edits + 2 \in Versions /\ count.edits + 1 \in 0..setup.edits
    BY <1>1, SetupFacts DEF IsTree, Edit, CountOK, Versions
  <2>2. IsTree(local)'
    BY <1>1, <2>1, Fixed DEF IsTree, Edit
  <2>3. events' \in Seq(Paths)
    BY <1>1, <2>1, AppendProperties DEF Edit
  <2>4. CountOK'
    BY <1>1, <2>1, Fixed DEF CountOK, Edit
  <2>5. QED
    BY <1>1, <2>2, <2>3, <2>4, Fixed DEF Edit, drive, IsTree, GoodJob
<1>2. ASSUME NEW from \in Dirs, NEW to \in Dirs, Rename(from, to) PROVE TypeInv'
  <2>1. IsTree(local)'
    BY <1>2, MovedTree, Fixed DEF Rename, IsTree
  <2>2. renames' \in Seq([from : Dirs, to : Dirs])
    BY <1>2, AppendProperties DEF Rename
  <2>3. CountOK'
    BY <1>2, Fixed DEF CountOK, Rename
  <2>4. QED
    BY <1>2, <2>1, <2>2, <2>3, Fixed DEF Rename, drive, IsTree, GoodJob
<1>3. QED
  BY <1>1, <1>2 DEF User

\* What a worker's step leaves alone.
LEMMA WorkFrame ==
    ASSUME TypeInv, Next, NEW w \in Workers, Work(w)
    PROVE  /\ IsTree(local)' /\ CountOK' /\ setup' \in Setups
           /\ local' = local /\ count' = count
<1>1. local' = local /\ count' = count
  BY DEF Work, TakeEvent, Open, Send, SendFails, Record, TakeRename, MoveFile, MoveFails, Rewrite
<1>2. QED
  BY <1>1, Fixed DEF TypeInv, TypeOK, CountOK, IsTree

LEMMA TakeTypes ==
    ASSUME TypeInv, Next, NEW w \in Workers, TakeEvent(w) \/ TakeRename(w)
    PROVE  TypeInv'
<1>0. Work(w)
  BY DEF Work
<1>1. CASE TakeEvent(w)
  <2> DEFINE j == [Idle EXCEPT !.pc = "open", !.path = Head(events)]
  <2>1. events \in Seq(Paths) /\ events # <<>> /\ setup \in Setups
    BY <1>1 DEF TakeEvent, TypeInv, TypeOK
  <2>2. Head(events) \in Paths /\ Tail(events) \in Seq(Paths)
    BY <2>1, HeadTailProperties
  <2>3. GoodJob(j)
    <3>1. Idle \in Jobs
      BY <2>1, IdleGood DEF GoodJob
    <3>2. j \in Jobs
      BY <2>2, <3>1 DEF Jobs
    <3>3. j.pc = "open" /\ j.path = Head(events)
      BY DEF Idle
    <3> HIDE DEF j
    <3>4. QED
      BY <2>2, <3>2, <3>3 DEF GoodJob
  <2>4. jobs' = [jobs EXCEPT ![w] = j]
    BY <1>1 DEF TakeEvent
  <2> HIDE DEF j
  <2>5. QED
    BY <1>0, <1>1, <2>2, <2>3, <2>4, JobStep, WorkFrame, Fixed DEF TakeEvent, TypeInv, TypeOK, drive, IsTree
<1>2. CASE TakeRename(w)
  <2> DEFINE from == Head(renames).from
             to == Head(renames).to
             j == [Idle EXCEPT !.pc = "move", !.path = from, !.to = to]
  <2>1. renames \in Seq([from : Dirs, to : Dirs]) /\ renames # <<>> /\ setup \in Setups
    BY <1>2 DEF TakeRename, TypeInv, TypeOK
  <2>2. Head(renames) \in [from : Dirs, to : Dirs] /\ Tail(renames) \in Seq([from : Dirs, to : Dirs])
    BY <2>1, HeadTailProperties
  <2>3. GoodJob(j)
    <3>1. Idle \in Jobs
      BY <2>1, IdleGood DEF GoodJob
    <3>2. from \in Dirs /\ to \in Dirs
      BY <2>2
    <3> HIDE DEF from, to
    <3>3. j \in Jobs
      BY <3>1, <3>2 DEF Jobs
    <3>4. j.pc = "move" /\ j.path = from /\ j.to = to
      BY DEF Idle
    <3> HIDE DEF j
    <3>5. QED
      BY <3>2, <3>3, <3>4 DEF GoodJob
  <2>4. jobs' = [jobs EXCEPT ![w] = j]
    BY <1>2 DEF TakeRename
  <2> HIDE DEF j
  <2>5. QED
    BY <1>0, <1>2, <2>2, <2>3, <2>4, JobStep, WorkFrame, Fixed DEF TakeRename, TypeInv, TypeOK, drive, IsTree
<1>3. QED
  BY <1>1, <1>2

\* A job of which only the step or the version changes.
LEMMA JobAt ==
    ASSUME TypeInv, NEW w \in Workers
    PROVE  /\ GoodJob(jobs[w]) /\ jobs[w] \in Jobs /\ setup \in Setups
           /\ jobs \in [Workers -> Jobs]
BY DEF TypeInv, TypeOK, GoodJob

LEMMA OpenTypes ==
    ASSUME TypeInv, Next, NEW w \in Workers, Open(w)
    PROVE  TypeInv'
<1> DEFINE j == IF jobs[w].path \in DOMAIN local
                THEN [jobs[w] EXCEPT !.pc = "send", !.ver = local[jobs[w].path]]
                ELSE Again(jobs[w], "open")
<1>1. jobs' = [jobs EXCEPT ![w] = j]
  BY JobAt DEF Open
<1>2. GoodJob(j)
  <2>1. CASE jobs[w].path \in DOMAIN local
    <3>1. local[jobs[w].path] \in Versions /\ jobs[w].path \in Paths
      BY <2>1 DEF TypeInv, TypeOK, IsTree
    <3>2. QED
      BY <2>1, <3>1, JobAt DEF GoodJob, Jobs
  <2>2. CASE jobs[w].path \notin DOMAIN local
    BY <2>2, JobAt, AgainGood DEF Open
  <2>3. QED
    BY <2>1, <2>2
<1> HIDE DEF j
<1>3. QED
  BY <1>1, <1>2, JobStep, WorkFrame, Fixed DEF Open, Work, TypeInv, TypeOK, drive, IsTree

LEMMA SendTypes ==
    ASSUME TypeInv, Next, NEW w \in Workers, Send(w) \/ SendFails(w)
    PROVE  TypeInv'
<1>0. /\ jobs[w].pc = "send" /\ jobs[w].path \in Paths /\ jobs[w].ver \in Versions
      /\ IsTree(remote)
  BY JobAt DEF Send, SendFails, GoodJob, TypeInv, TypeOK
<1>1. IsTree(Put(remote, jobs[w].path, jobs[w].ver))
  BY <1>0, PutTree
<1>2. IsTree(remote)'
  <2>1. IsTree(remote')
    BY <1>0, <1>1 DEF Send, SendFails
  <2>2. QED
    BY <2>1, Fixed DEF IsTree
<1>3. CASE Send(w)
  <2> DEFINE j == [jobs[w] EXCEPT !.pc = "record"]
  <2>1. jobs' = [jobs EXCEPT ![w] = j]
    BY <1>3, JobAt DEF Send
  <2>2. GoodJob(j)
    BY <1>0, JobAt DEF GoodJob, Jobs
  <2> HIDE DEF j
  <2>3. QED
    BY <1>2, <1>3, <2>1, <2>2, JobStep, WorkFrame, Fixed DEF Send, Work, TypeInv, TypeOK, drive, IsTree
<1>4. CASE SendFails(w)
  <2>1. jobs' = [jobs EXCEPT ![w] = Again(jobs[w], "open")]
    BY <1>4, JobAt DEF SendFails
  <2>2. GoodJob(Again(jobs[w], "open"))
    BY <1>0, JobAt, AgainGood
  <2>3. QED
    BY <1>2, <1>4, <2>1, <2>2, JobStep, WorkFrame, Fixed DEF SendFails, Work, TypeInv, TypeOK, drive, IsTree
<1>5. QED
  BY <1>3, <1>4

LEMMA MoveTypes ==
    ASSUME TypeInv, Next, NEW w \in Workers, MoveFile(w) \/ MoveFails(w)
    PROVE  TypeInv'
<1>0. /\ jobs[w].pc = "move" /\ jobs[w].path \in Dirs /\ jobs[w].to \in Dirs
      /\ IsTree(remote)
  BY JobAt DEF MoveFile, MoveFails, GoodJob, TypeInv, TypeOK
<1>1. IsTree(Moved(remote, jobs[w].path, jobs[w].to))
  BY <1>0, MovedTree
<1>2. IsTree(remote)'
  <2>1. IsTree(remote')
    BY <1>0, <1>1 DEF MoveFile, MoveFails
  <2>2. QED
    BY <2>1, Fixed DEF IsTree
<1>3. CASE MoveFile(w)
  <2> DEFINE j == [jobs[w] EXCEPT !.pc = "rewrite"]
  <2>1. jobs' = [jobs EXCEPT ![w] = j]
    BY <1>3, JobAt DEF MoveFile
  <2>2. GoodJob(j)
    BY <1>0, JobAt DEF GoodJob, Jobs
  <2> HIDE DEF j
  <2>3. QED
    BY <1>2, <1>3, <2>1, <2>2, JobStep, WorkFrame, Fixed DEF MoveFile, Work, TypeInv, TypeOK, drive, IsTree
<1>4. CASE MoveFails(w)
  <2>1. jobs' = [jobs EXCEPT ![w] = Again(jobs[w], "move")]
    BY <1>4, JobAt DEF MoveFails
  <2>2. GoodJob(Again(jobs[w], "move"))
    BY <1>0, JobAt, AgainGood
  <2>3. QED
    BY <1>2, <1>4, <2>1, <2>2, JobStep, WorkFrame, Fixed DEF MoveFails, Work, TypeInv, TypeOK, drive, IsTree
<1>5. QED
  BY <1>3, <1>4

LEMMA JournalTypes ==
    ASSUME TypeInv, Next, NEW w \in Workers, Record(w) \/ Rewrite(w)
    PROVE  TypeInv'
<1>1. ASSUME NamesApart PROVE IsTree(journal)'
  <2>0. IsTree(journal)
    BY <1>1 DEF TypeInv, TypeOK
  <2>1. CASE Record(w)
    <3>1. IsTree(Put(journal, jobs[w].path, jobs[w].ver))
      BY <2>0, <2>1, JobAt, PutTree DEF Record, GoodJob
    <3>2. IsTree(journal')
      BY <2>0, <2>1, <3>1 DEF Record
    <3>3. QED
      BY <3>2, Fixed DEF IsTree
  <2>2. CASE Rewrite(w)
    <3>1. IsTree(RewritePrefix(jobs[w].path, jobs[w].to))
      BY <1>1, <2>0, <2>2, JobAt, RewriteTree DEF Rewrite, GoodJob
    <3>2. IsTree(journal')
      BY <2>0, <2>2, <3>1 DEF Rewrite
    <3>3. QED
      BY <3>2, Fixed DEF IsTree
  <2>3. QED
    BY <2>1, <2>2
<1>2. jobs' = [jobs EXCEPT ![w] = Idle] /\ GoodJob(Idle)
  BY JobAt, IdleGood DEF Record, Rewrite
<1>3. /\ Work(w) /\ remote' = remote /\ events' = events /\ renames' = renames
  BY DEF Work, Record, Rewrite
<1>4. QED
  BY <1>1, <1>2, <1>3, JobStep, WorkFrame, Fixed DEF TypeInv, TypeOK, IsTree, NamesApart

LEMMA PassTypes ==
    ASSUME TypeInv, Next, Pass \/ Crash
    PROVE  TypeInv'
<1>1. CASE Pass
  <2>1. IsTree(remote')
    BY <1>1 DEF Pass, TypeInv, TypeOK, IsTree
  <2>2. NamesApart => IsTree(journal')
    BY <1>1 DEF Pass, TypeInv, TypeOK, IsTree
  <2>3. IsTree(remote)' /\ (NamesApart => IsTree(journal)')
    BY <2>1, <2>2, Fixed DEF IsTree
  <2>4. QED
    BY <1>1, <2>3, Fixed DEF Pass, TypeInv, TypeOK, IsTree, NamesApart, CountOK, GoodJob
<1>2. CASE Crash
  <2>1. jobs' \in [Workers -> Jobs] /\ \A w \in Workers : GoodJob(jobs'[w])
    BY <1>2, IdleGood DEF Crash, TypeInv, TypeOK, GoodJob
  <2>2. (\A w \in Workers : GoodJob(jobs[w]))' /\ (jobs \in [Workers -> Jobs])'
    BY <2>1, Fixed DEF GoodJob
  <2>3. CountOK'
    BY <1>2, Fixed DEF Crash, CountOK, TypeInv
  <2>4. QED
    BY <1>2, <2>2, <2>3, Fixed DEF Crash, TypeInv, TypeOK, IsTree, NamesApart, drive
<1>3. QED
  BY <1>1, <1>2

LEMMA StepTypes == TypeInv /\ [Next]_vars => TypeInv'
<1> SUFFICES ASSUME TypeInv, [Next]_vars PROVE TypeInv'
  OBVIOUS
<1>1. CASE UNCHANGED vars
  BY <1>1 DEF vars, drive, TypeInv, TypeOK, IsTree, GoodJob, CountOK, Jobs, Versions, Workers, NamesApart
<1>2. CASE Next
  <2>1. CASE User
    BY <1>2, <2>1, UserTypes
  <2>2. ASSUME NEW w \in Workers, Work(w) PROVE TypeInv'
    BY <1>2, <2>2, TakeTypes, OpenTypes, SendTypes, MoveTypes, JournalTypes DEF Work
  <2>3. CASE Pass \/ Crash
    BY <1>2, <2>3, PassTypes
  <2>4. CASE Rest
    BY <1>1, <2>4 DEF Rest
  <2>5. QED
    BY <1>2, <2>1, <2>2, <2>3, <2>4 DEF Next
<1>3. QED
  BY <1>1, <1>2

\* Every variable keeps its type.  The files on both sides, and with names
\* apart the entries, are at paths that the user made, whatever is renamed by
\* handleDirRename and rewritten by RewritePrefix, with any number of workers.
THEOREM TypeCorrect == Spec => []TypeOK
<1>1. TypeInv => TypeOK
  BY DEF TypeInv
<1>2. QED
  BY <1>1, InitTypes, StepTypes, PTL DEF Spec
----------------------------------------------------------------------------
(* The entries follow Drive.                                               *)

Orderly ==
    /\ setup.workers = 1 /\ Faults \subseteq {"refused"}
    /\ count.crashes = 0 /\ NamesApart

\* Between its two steps, the worker's job is what the entries lack.
EntriesInv ==
    Orderly =>
      /\ jobs[1].pc = "record" => remote = Put(journal, jobs[1].path, jobs[1].ver)
      /\ jobs[1].pc = "rewrite" =>
            /\ Free(journal, jobs[1].to)
            /\ remote = Moved(journal, jobs[1].path, jobs[1].to)
      /\ jobs[1].pc \notin {"record", "rewrite"} => journal = remote

LEMMA OneWorker ==
    ASSUME TypeInv, setup.workers = 1
    PROVE  Workers = {1} /\ jobs \in [{1} -> Jobs] /\ GoodJob(jobs[1]) /\ setup \in Setups
BY DEF TypeInv, TypeOK, Workers

LEMMA InitEntries == Init => EntriesInv
<1> SUFFICES ASSUME Init, Orderly PROVE journal = remote /\ jobs[1].pc = "idle"
  BY DEF EntriesInv
<1>1. 1 \in Workers
  BY DEF Orderly, Workers
<1>2. QED
  BY <1>1 DEF Init, Idle

LEMMA WorkEntries ==
    ASSUME TypeInv, Next, Work(1), EntriesInv, Orderly
    PROVE  EntriesInv'
<1>0. /\ jobs \in [{1} -> Jobs] /\ GoodJob(jobs[1])
      /\ "lost" \notin Faults /\ "store" \notin Faults
      /\ setup \in Setups
  BY OneWorker DEF Orderly
<1> SUFFICES /\ (jobs[1].pc = "record" => remote = Put(journal, jobs[1].path, jobs[1].ver))'
             /\ (jobs[1].pc = "rewrite" =>
                   /\ Free(journal, jobs[1].to)
                   /\ remote = Moved(journal, jobs[1].path, jobs[1].to))'
             /\ (jobs[1].pc \notin {"record", "rewrite"} => journal = remote)'
  BY DEF EntriesInv
<1>1. \A pc \in {"open", "move"} : Again(jobs[1], pc).pc \in {"open", "move", "idle"}
  BY <1>0 DEF Again, Idle, Jobs
<1>2. ASSUME jobs[1].pc \notin {"record", "rewrite"}, jobs'[1].pc \notin {"record", "rewrite"},
             remote' = remote, journal' = journal
      PROVE  EntriesInv'
  BY <1>2 DEF EntriesInv
<1>3. CASE TakeEvent(1) \/ TakeRename(1)
  <2>1. jobs'[1].pc \in {"open", "move"}
    BY <1>0, <1>3 DEF TakeEvent, TakeRename, Idle
  <2>2. jobs[1].pc = "idle"
    BY <1>3 DEF TakeEvent, TakeRename, Idle
  <2>3. QED
    BY <1>3, <2>1, <2>2 DEF TakeEvent, TakeRename, drive, EntriesInv
<1>4. CASE Open(1)
  <2>1. jobs'[1].pc \in {"send", "open", "idle", "move"}
    BY <1>0, <1>1, <1>4 DEF Open, Jobs
  <2>2. QED
    BY <1>4, <2>1 DEF Open, drive, EntriesInv
<1>5. CASE SendFails(1)
  <2>1. jobs'[1].pc \in {"open", "idle", "move"} /\ remote' = remote
    BY <1>0, <1>1, <1>5 DEF SendFails
  <2>2. QED
    BY <1>5, <2>1 DEF SendFails, EntriesInv
<1>6. CASE MoveFails(1)
  <2>1. jobs'[1].pc \in {"open", "idle", "move"} /\ remote' = remote
    BY <1>0, <1>1, <1>6 DEF MoveFails
  <2>2. QED
    BY <1>6, <2>1 DEF MoveFails, EntriesInv
<1>7. CASE Send(1)
  <2>1. jobs'[1].pc = "record" /\ jobs'[1].path = jobs[1].path /\ jobs'[1].ver = jobs[1].ver
    BY <1>0, <1>7 DEF Send, Jobs
  <2>2. journal = remote
    BY <1>7 DEF Send, EntriesInv
  <2>3. QED
    BY <1>7, <2>1, <2>2 DEF Send
<1>8. CASE Record(1)
  <2>1. jobs'[1].pc = "idle"
    BY <1>0, <1>8 DEF Record, Idle
  <2>2. QED
    BY <1>0, <1>8, <2>1 DEF Record, EntriesInv
<1>9. CASE MoveFile(1)
  <2>1. jobs'[1].pc = "rewrite" /\ jobs'[1].path = jobs[1].path /\ jobs'[1].to = jobs[1].to
    BY <1>0, <1>9 DEF MoveFile, Jobs
  <2>2. journal = remote /\ Free(remote, jobs[1].to)
    BY <1>9 DEF MoveFile, CanMove, Free, EntriesInv
  <2>3. QED
    BY <1>9, <2>1, <2>2 DEF MoveFile, Free
<1>10. CASE Rewrite(1)
  <2>1. jobs'[1].pc = "idle"
    BY <1>0, <1>10 DEF Rewrite, Idle
  <2>2. /\ jobs[1].pc = "rewrite" /\ jobs[1].path \in Dirs /\ jobs[1].to \in Dirs
        /\ journal' = RewritePrefix(jobs[1].path, jobs[1].to) /\ remote' = remote
    BY <1>0, <1>10 DEF Rewrite, GoodJob
  <2>3. /\ NamesApart /\ IsTree(journal) /\ Free(journal, jobs[1].to)
        /\ remote = Moved(journal, jobs[1].path, jobs[1].to)
    BY <2>2 DEF EntriesInv, Orderly, TypeInv, TypeOK
  <2>4. journal' = remote'
    BY <2>2, <2>3, RewriteIsMove
  <2>5. QED
    BY <2>1, <2>4
<1>11. QED
  BY <1>3, <1>4, <1>5, <1>6, <1>7, <1>8, <1>9, <1>10 DEF Work

LEMMA StepEntries == TypeInv /\ EntriesInv /\ [Next]_vars => EntriesInv'
<1> SUFFICES ASSUME TypeInv, EntriesInv, [Next]_vars PROVE EntriesInv'
  OBVIOUS
<1>1. CASE UNCHANGED vars
  BY <1>1 DEF vars, drive, EntriesInv, Orderly, Faults, NamesApart
<1>2. CASE Next
  <2> SUFFICES ASSUME Orderly' PROVE EntriesInv'
    BY DEF EntriesInv
  <2>1. Orderly /\ ~Crash
    <3>1. setup' = setup
      BY <1>2, Fixed
    <3>2. count.crashes \in Nat
      BY DEF TypeInv, CountOK
    <3>3. /\ Crash => count'.crashes = count.crashes + 1
          /\ ~Crash => count'.crashes = count.crashes
      <4>1. count \in [edits : 0..setup.edits, renames : Nat, crashes : Nat]
        BY DEF TypeInv, CountOK
      <4>2. QED
        BY <1>2, <4>1, WorkFrame DEF Next, User, Edit, Rename, Pass, Crash, Rest, vars
    <3>4. QED
      BY <3>1, <3>2, <3>3 DEF Orderly, Faults, NamesApart
  <2>2. CASE User
    <3>1. remote' = remote /\ journal' = journal /\ jobs' = jobs
      BY <2>2 DEF User, Edit, Rename, drive
    <3>2. QED
      BY <2>1, <3>1 DEF EntriesInv, Free, Moved, Put
  <2>3. ASSUME NEW w \in Workers, Work(w) PROVE EntriesInv'
    <3>1. w = 1
      BY <2>1, OneWorker DEF Orderly
    <3>2. QED
      BY <1>2, <2>1, <2>3, <3>1, WorkEntries
  <2>4. CASE Pass
    <3>1. jobs[1].pc = "idle" /\ jobs' = jobs
      BY <2>1, <2>4, OneWorker DEF Pass, Orderly, Idle
    <3>2. journal = remote
      BY <2>1, <3>1 DEF EntriesInv
    <3>3. journal' = remote'
      BY <2>4, <3>2 DEF Pass
    <3>4. QED
      BY <3>1, <3>3 DEF EntriesInv
  <2>5. CASE Rest
    BY <1>1, <2>5 DEF Rest
  <2>6. QED
    BY <1>2, <2>1, <2>2, <2>3, <2>4, <2>5 DEF Next
<1>3. QED
  BY <1>1, <1>2

\* At rest the entries are those of the files on Drive, whatever uploads,
\* renames and passes took place and however often a call was refused: the two
\* steps of handleDirRename end with journal and Drive alike, and RewritePrefix
\* loses no entry and touches those of no other directory (with RcloneFS, whose
\* MoveFile refuses a folder, no rename gets as far as the rewrite).
THEOREM EntriesFollowDrive == Spec => []EntriesFollow
<1>1. TypeInv /\ EntriesInv => EntriesFollow
  <2> SUFFICES ASSUME TypeInv, EntriesInv, Quiet, Orderly PROVE journal = remote
    BY DEF EntriesFollow, Orderly
  <2>1. jobs[1].pc = "idle"
    BY OneWorker DEF Quiet, Orderly, Idle
  <2>2. QED
    BY <2>1 DEF EntriesInv
<1>2. QED
  BY <1>1, InitTypes, StepTypes, InitEntries, StepEntries, PTL DEF Spec
=============================================================================
