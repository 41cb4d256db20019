----------------------------- MODULE GoRWMutex -----------------------------
(***************************************************************************)
(* The reader/writer lock that homedrive shares between push workers, the  *)
(* pull loop, bisync and on-demand chain repair: bisyncMu, a Go            *)
(* sync.RWMutex.  The lock itself is Go's standard library; it is modelled *)
(* from how the agent relies on it:                                        *)
(*   - Lock first takes an inner mutex (one writer at a time), which also  *)
(*     announces the writer, then waits for the readers that are inside;   *)
(*   - RLock is immediate while no writer is announced and queues the      *)
(*     reader otherwise, so a writer cannot be starved by new readers;     *)
(*   - Unlock lets in every queued reader before the next writer.          *)
(***************************************************************************)

CONSTANT NoProc    \* "nobody holds the inner mutex"

VARIABLES
    wHolder,    \* the process that holds the inner mutex, or NoProc
    wGranted,   \* that process has Lock: every earlier reader has left
    rActive,    \* readers that hold RLock
    rBlocked    \* readers queued behind the announced writer

lockVars == <<wHolder, wGranted, rActive, rBlocked>>

LockInit ==
    /\ wHolder = NoProc
    /\ wGranted = FALSE
    /\ rActive = {}
    /\ rBlocked = {}

\* The call of RLock: in at once, or queued behind an announced writer.
RLock(p) ==
    /\ IF wHolder = NoProc
       THEN rActive' = rActive \union {p} /\ rBlocked' = rBlocked
       ELSE rActive' = rActive /\ rBlocked' = rBlocked \union {p}
    /\ UNCHANGED <<wHolder, wGranted>>

RUnlock(p) ==
    /\ rActive' = rActive \ {p}
    /\ UNCHANGED <<wHolder, wGranted, rBlocked>>

\* The first half of Lock: the inner mutex, which announces the writer.
LockAnnounce(p) ==
    /\ wHolder = NoProc
    /\ wHolder' = p
    /\ UNCHANGED <<wGranted, rActive, rBlocked>>

\* The second half of Lock: the readers that were inside have left.
LockGranted(p) ==
    /\ wHolder = p
    /\ rActive = {}
    /\ wGranted' = TRUE
    /\ UNCHANGED <<wHolder, rActive, rBlocked>>

Unlock(p) ==
    /\ wHolder' = NoProc
    /\ wGranted' = FALSE
    /\ rActive' = rActive \union rBlocked
    /\ rBlocked' = {}
============================================================================
