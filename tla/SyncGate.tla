------------------------------ MODULE SyncGate ------------------------------
(***************************************************************************)
(* What the shared RWMutex is for, as an abstract specification: push      *)
(* workers and polls use the files, the remote and the journal together;   *)
(* a bisync pass or a chain repair uses them alone.  docs/architecture.md: *)
(* the write lock blocks "all push and pull workers until the comparison   *)
(* completes.  This prevents race conditions between the bisync diff and   *)
(* in-flight operations."                                                  *)
(***************************************************************************)
CONSTANTS
    Readers,   \* push workers and the pull loop
    Writers,   \* bisync and the chain repair handlers
    Nobody     \* "no writer is inside"

VARIABLES
    inside,    \* the readers that use the data
    owner      \* the writer that uses the data, or Nobody

gateVars == <<inside, owner>>

Init == inside = {} /\ owner = Nobody

EnterShared(r) ==
    /\ owner = Nobody
    /\ r \notin inside
    /\ inside' = inside \union {r}
    /\ owner' = owner

LeaveShared(r) ==
    /\ r \in inside
    /\ inside' = inside \ {r}
    /\ owner' = owner

EnterExclusive(w) ==
    /\ owner = Nobody
    /\ inside = {}
    /\ owner' = w
    /\ inside' = inside

\* The writer leaves, and any readers it kept waiting come in at once.
LeaveExclusive ==
    /\ owner # Nobody
    /\ owner' = Nobody
    /\ inside' \in SUBSET Readers

Next ==
    \/ \E r \in Readers : EnterShared(r) \/ LeaveShared(r)
    \/ \E w \in Writers : EnterExclusive(w)
    \/ LeaveExclusive

Spec == Init /\ [][Next]_gateVars
============================================================================
