---------------------------- MODULE MCChainRepair ----------------------------
(* Instances of ChainRepair for TLC; -1 is a dot, 11 and 12 are letters.    *)
EXTENDS ChainRepair

\* ".%d", "..%d", ".%d-" and "f.%d.".
Plain == [pre |-> <<-1>>, post |-> <<>>]
Formats ==
    {Plain, [pre |-> <<-1, -1>>, post |-> <<>>], [pre |-> <<-1>>, post |-> <<12>>],
     [pre |-> <<11, -1>>, post |-> <<-1>>]}

\* The file f and its losers: two levels of nesting, links beside each other
\* and numbers that are taken.  f.01 is a file of its own, with a loser.
Link(stem, chains) == {[stem |-> stem, chain |-> c] : c \in chains}
SomeLinks == Link(<<11>>, {<<>>, <<1>>, <<2>>, <<1, 1>>, <<1, 2>>, <<1, 1, 1>>})
FewLinks == Link(<<11>>, {<<>>, <<1>>, <<1, 1>>, <<1, 1, 1>>})
OddLinks == FewLinks \union Link(<<11, -1, 0, 1>>, {<<>>, <<1>>})

OneSide == {"local", "remote", "mirrored"}

RepairSetups ==
    [matcher : {Plain}, links : {SomeLinks}, layouts : {OneSide}, folders : {{}},
     faults : {{"lost", "store", "crash"}}]
    \union
    [matcher : {Plain}, links : {FewLinks}, layouts : {OneSide \union {"apart"}}, folders : {{}, {<<11>>}},
     faults : {{"refused", "lost", "store", "crash"}}]
    \union
    [matcher : {Plain}, links : {OddLinks}, layouts : {OneSide},
     folders : {{<<11>>}, {<<11, -1, 0, 1>>}},
     faults : {{"lost", "store", "crash"}}]
    \union
    [matcher : Formats, links : {SomeLinks, OddLinks}, layouts : {OneSide}, folders : {{}}, faults : {{}}]
=============================================================================
