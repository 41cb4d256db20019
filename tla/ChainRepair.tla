---------------------------- MODULE ChainRepair ----------------------------
(***************************************************************************)
(* The repair of nested conflict losers: f.old.1.old.1 and its like are    *)
(* renamed to f.old.<N>, on each side by itself, and their journal entries *)
(* go with them (internal/syncer/repair.go, runChainRepair of bisync.go).  *)
(* The names are read and written with OldSuffix.                          *)
(***************************************************************************)
EXTENDS OldSuffix

CONSTANT Setups  \* the format, the files there may be and what goes wrong: one of these

\* The literal before the number has a character that is not a digit.  (New
\* only asks for one character; with digits alone a suffix could not be told
\* from the number that follows it.)
IsMatcher(m) ==
    /\ m.pre \in Seq(Int) /\ m.post \in Seq(Int)
    /\ \E i \in DOMAIN m.pre : ~IsDigit(m.pre[i])

\* A loser of a loser of ... the file of that stem, which is no loser itself.
IsLink(m, g) ==
    /\ g = [stem |-> g.stem, chain |-> g.chain]
    /\ g.stem \in Seq(Int) \ {<<>>} /\ ~TrimOne(m, g.stem).ok
    /\ g.chain \in Seq(Nat \ {0}) /\ Len(g.chain) <= MaxDepth

ASSUME RepairAssumption ==
    \A s \in Setups :
       /\ IsMatcher(s.matcher)
       /\ IsFiniteSet(s.links) /\ Cardinality(s.links) <= MaxProbe
       /\ \A g \in s.links : IsLink(s.matcher, g)
       /\ s.layouts \subseteq {"local", "remote", "mirrored", "apart"}
       /\ s.folders \subseteq {g.stem : g \in s.links}
       /\ s.faults \subseteq {"refused", "lost", "store", "crash"}

VARIABLES
    setup,    \* which of Setups this behaviour belongs to
    files,    \* on each side, the paths and what they contain
    journal,  \* the paths that have an entry, and the content that it describes
    marker,   \* old_chain_repair_v1 is "done"
    pass,     \* the repair that is going on
    given     \* files and journal to begin with (auxiliary)

disk == <<files, journal, marker>>
still == <<setup, given>>
vars == <<disk, pass, still>>

Sides == {"local", "remote"}
Matcher == setup.matcher
Faults == setup.faults

\* The name of a link, by what the suffixes are to mean.
NameOf(m, g) ==
    LET name[i \in 0..Len(g.chain)] ==
            IF i = 0 THEN g.stem ELSE Format(m, name[i - 1], g.chain[i])
    IN name[Len(g.chain)]
Name(g) == NameOf(Matcher, g)

\* A file at a path.  Its content is known by where it was first.
At(path, side, link) == [path |-> path, side |-> side, link |-> link]
Contents(fs) == {[side |-> f.side, link |-> f.link] : f \in fs}

Existing(side) == {f.path : f \in files[side]}

\* walkLocal sees every file, listRemote the root of Drive alone (List(""));
\* setup.folders are the files that are in a folder, their losers with them.
Listed(side) == {f \in files[side] : side = "local" \/ f.link.stem \notin setup.folders}

NoLink == [path |-> <<>>, side |-> "none"]
NoPass == [pc |-> "idle", dry |-> FALSE, found |-> [s \in Sides |-> {}],
           todo |-> {}, link |-> NoLink, target |-> <<>>, entry |-> {}]

\* What the sides have to begin with: everything is on one of them, both are
\* alike, or both have the files and each loser is on the side it was made on.
Starts(S) ==
    LET plain == {g \in setup.links : g.chain = <<>>}
    IN [local : {S}, remote : {{}}, layout : {"local"}]
         \union [local : {{}}, remote : {S}, layout : {"remote"}]
         \union [local : {S}, remote : {S}, layout : {"mirrored"}]
         \union {[local |-> T \union plain, remote |-> (S \ T) \union plain, layout |-> "apart"]
                   : T \in SUBSET S}

\* A journal entry describes each loser.
Init ==
    /\ setup \in Setups
    /\ \E S \in SUBSET setup.links : \E at \in Starts(S) :
        /\ at.layout \in setup.layouts
        /\ files = [s \in Sides |->
              {At(Name(g), IF g \in at.local THEN "local" ELSE s, g) : g \in at[s]}]
        /\ journal = {At(Name(g), IF g \in at.local THEN "local" ELSE "remote", g)
                         : g \in at.local \union at.remote}
    /\ marker = FALSE
    /\ pass = NoPass
    /\ given = [files |-> files, journal |-> journal]

----------------------------------------------------------------------------
(* The candidates and their targets.                                       *)

Depth(p) == BaseOf(Matcher, p).depth

\* findCandidates: a nested link whose base exists on the same side.
Candidates(found) ==
    UNION {{[path |-> p, side |-> s] : p \in
              {q \in found[s] : Depth(q) >= 2 /\ BaseOf(Matcher, q).base \in found[s]}} : s \in Sides}

\* Deepest first, then by path; the two sides of a path in either order.
Before(p, q) ==
    \/ Depth(p) > Depth(q)
    \/ /\ Depth(p) = Depth(q)
       /\ \/ IsStrictPrefix(p, q)
          \/ \E i \in DOMAIN p \intersect DOMAIN q :
                p[i] < q[i] /\ \A j \in 1..(i - 1) : p[j] = q[j]

\* Mutant: shallow links first.
NextUpShallow(todo) == {c \in todo : ~\E d \in todo : Depth(d.path) < Depth(c.path)}

NextUp(todo) == {c \in todo : ~\E d \in todo : Before(d.path, c.path)}

\* The next number in the live set of that side.
Target(c, found) ==
    LET base == BaseOf(Matcher, c.path).base
    IN Format(Matcher, base, NextOldN(Matcher, base, found[c.side]).n)

----------------------------------------------------------------------------
(* A pass, under the write lock: nothing else touches the files meanwhile. *)

\* Mutant: the marker is set at the start.
BeginMarked(dry, auto) ==
    /\ pass = NoPass
    /\ auto => ~marker /\ ~dry
    /\ LET found == [s \in Sides |-> {f.path : f \in Listed(s)}]
       IN pass' = [NoPass EXCEPT !.pc = "next", !.dry = dry, !.found = found,
                                 !.todo = Candidates(found)]
    /\ marker' = (marker \/ ~dry)
    /\ UNCHANGED <<files, journal, still>>

\* runChainRepair: on request, for show or in earnest, or by the first bisync
\* pass that finds no marker.
Begin(dry, auto) ==
    /\ pass = NoPass
    /\ auto => ~marker /\ ~dry
    /\ LET found == [s \in Sides |-> {f.path : f \in Listed(s)}]
       IN pass' = [NoPass EXCEPT !.pc = "next", !.dry = dry, !.found = found,
                                 !.todo = Candidates(found)]
    /\ UNCHANGED <<disk, still>>

\* A dry run only reports.
Show(c) ==
    /\ pass.pc = "next" /\ pass.dry
    /\ pass' = [pass EXCEPT !.todo = @ \ {c}]
    /\ UNCHANGED <<disk, still>>

\* The files after the rename: on the local disk a file in its place is
\* replaced, on Drive there are then two of that name.
Moved(c, target) ==
    LET stay == {f \in files[c.side] : f.path # c.path /\ (c.side = "local" => f.path # target)}
        move == {f \in files[c.side] : f.path = c.path}
    IN [files EXCEPT ![c.side] = stay \union {[f EXCEPT !.path = target] : f \in move}]

\* What JournalGet may return: nothing, too, when the store fails, as the error
\* is ignored.
JournalGet(path) ==
    {{e \in journal : e.path = path}} \union (IF "store" \in Faults THEN {{}} ELSE {})

\* Mutant: the live set is not updated.
RenameForgotten(c) ==
    /\ pass.pc = "next" /\ ~pass.dry
    /\ LET target == Target(c, pass.found)
       IN /\ files' = Moved(c, target)
          /\ pass' = [pass EXCEPT !.pc = "delete", !.todo = @ \ {c}, !.link = c, !.target = target,
                        !.entry = {e \in journal : e.path = c.path}]
    /\ UNCHANGED <<journal, marker, still>>

\* repairOne: the rename and the live set; then JournalGet.
Rename(c) ==
    /\ pass.pc = "next" /\ ~pass.dry
    /\ LET target == Target(c, pass.found)
       IN /\ files' = Moved(c, target)
          /\ \E entry \in JournalGet(c.path) :
                pass' = [pass EXCEPT !.pc = "delete", !.todo = @ \ {c}, !.link = c, !.target = target,
                           !.entry = entry, !.found[c.side] = (@ \ {c.path}) \union {target}]
    /\ UNCHANGED <<journal, marker, still>>

\* The rename fails, or it succeeds on Drive and the answer is lost: the link
\* is reported and the next one follows.
RenameFails(c) ==
    /\ pass.pc = "next" /\ ~pass.dry
    /\ \/ "refused" \in Faults /\ files' = files
       \/ "lost" \in Faults /\ c.side = "remote" /\ files' = Moved(c, Target(c, pass.found))
    /\ pass' = [pass EXCEPT !.todo = @ \ {c}]
    /\ UNCHANGED <<journal, marker, still>>

\* An error is ignored here as well: the old entry then stays.
JournalDelete ==
    /\ pass.pc = "delete"
    /\ \/ journal' = {e \in journal : e.path # pass.link.path}
       \/ "store" \in Faults /\ journal' = journal
    /\ pass' = [pass EXCEPT !.pc = "put"]
    /\ UNCHANGED <<files, marker, still>>

\* The link has been dealt with.
Goes == pass' = [pass EXCEPT !.pc = "next", !.link = NoLink, !.target = <<>>, !.entry = {}]

\* Mutant: the entry is put back under the old name.
JournalPutOld ==
    /\ pass.pc = "put"
    /\ journal' = journal \union pass.entry
    /\ Goes
    /\ UNCHANGED <<files, marker, still>>

JournalPut ==
    /\ pass.pc = "put"
    /\ journal' = IF pass.entry = {} THEN journal
                  ELSE {e \in journal : e.path # pass.target}
                         \union {[e EXCEPT !.path = pass.target] : e \in pass.entry}
    /\ Goes
    /\ UNCHANGED <<files, marker, still>>

JournalPutFails ==
    /\ "store" \in Faults
    /\ pass.pc = "put" /\ pass.entry # {}
    /\ Goes
    /\ UNCHANGED <<disk, still>>

\* RepairChains never reports an error: the marker is set unless the pass was
\* a dry run, or the store refuses.
Finish ==
    /\ pass.pc = "next" /\ pass.todo = {}
    /\ \/ marker' = (marker \/ ~pass.dry)
       \/ "store" \in Faults /\ ~pass.dry /\ marker' = marker
    /\ pass' = NoPass
    /\ UNCHANGED <<files, journal, still>>

\* The process ends in the middle, and starts again.
Crash ==
    /\ "crash" \in Faults
    /\ pass # NoPass
    /\ pass' = NoPass
    /\ UNCHANGED <<disk, still>>

Next ==
    \/ \E dry \in BOOLEAN, auto \in BOOLEAN : Begin(dry, auto)
    \/ \E c \in NextUp(pass.todo) : Show(c) \/ Rename(c) \/ RenameFails(c)
    \/ JournalDelete \/ JournalPut \/ JournalPutFails
    \/ Finish
    \/ Crash

Spec == Init /\ [][Next]_vars

----------------------------------------------------------------------------
(* Properties.                                                             *)

Stems == {g.stem : g \in setup.links}
Numbered == {Format(Matcher, stem, n) : stem \in Stems, n \in 1..MaxProbe}
Paths == {Name(g) : g \in setup.links} \union Numbered

\* The types of the variables; every path is one that was there or has one
\* suffix, with a number from 1 to MaxProbe.
TypeOK ==
    /\ setup \in Setups
    /\ \A f \in journal \union UNION {files[s] : s \in Sides} : f.path \in Paths /\ f.link \in setup.links
    /\ marker \in BOOLEAN
    /\ pass.pc \in {"idle", "next", "delete", "put"} /\ pass.dry \in BOOLEAN
    /\ \A s \in Sides : pass.found[s] \subseteq Paths
    /\ pass.target \in Numbered \union {<<>>}
    /\ Cardinality(pass.entry) <= 1

\* "Content is never deleted, only renamed" (RepairChains): whatever fails and
\* wherever the process ends, each side keeps everything it had, and what is
\* no nested link stays where it is.
Survives ==
    \A s \in Sides :
       /\ Contents(files[s]) = Contents(given.files[s])
       /\ \A f \in files[s] : Len(f.link.chain) < 2 => f.path = Name(f.link)

\* The marker says that the nested links have been renumbered (PLAN.md 11.5),
\* so that no later pass looks again: of what the repair can see, the local
\* disk and the root of Drive, each is then a loser of its file with one
\* suffix.  (A rename that was refused is not tried again.)
DoneFlat ==
    marker /\ pass = NoPass /\ "refused" \notin Faults =>
        \A s \in Sides : \A f \in Listed(s) :
           f.link.stem \in Existing(s) /\ Len(f.link.chain) >= 2
              => \E n \in 1..MaxProbe : f.path = Format(Matcher, f.link.stem, n)

\* One path has one entry for both sides: they rename alike unless they have
\* different losers, or Drive's are in a folder where the repair does not look.
OneEntry == Faults = {} /\ "apart" \notin setup.layouts /\ setup.folders = {}

\* repairOne carries the journal entry over: what an entry described before is
\* described by the entry of the path it now has.
EntriesCarried ==
    pass = NoPass /\ OneEntry =>
        \A s \in Sides : \A f \in files[s] :
            Contents({f}) \subseteq Contents(given.journal) => f \in journal

\* The next conflict, on a file or on a loser, numbers its loser by the entries
\* of the journal (journal.Exists): the name that it gets after a repair is
\* free on both sides, and it hangs off the file that it comes from while that
\* has an entry (#65), off the loser otherwise.
NextFree ==
    pass = NoPass /\ OneEntry =>
        LET entries == {e.path : e \in journal}
        IN \A s \in Sides : \A f \in files[s] :
             LET r == NextOldN(Matcher, f.path, entries)
             IN /\ \A side \in Sides : Format(Matcher, r.base, r.n) \notin Existing(side)
                /\ r.base = IF f.link.stem \in entries THEN f.link.stem ELSE f.path
=============================================================================
