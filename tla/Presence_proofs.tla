--------------------------- MODULE Presence_proofs ---------------------------
(***************************************************************************)
(* Proofs about Presence for any number of connections and any choice of   *)
(* what goes wrong.                                                        *)
(***************************************************************************)
EXTENDS Presence, TLAPS

Messages == {"online", "offline", "DISCONNECT"}

\* A process that has not connected yet, or that has gone, has no connection
\* and no handler; without a connection nothing is on the wire, but what a
\* process that has gone sent last; a handler belongs to a connection made.
ClientInv ==
    /\ process \in {"new", "gone"} => conn = 0 /\ handlers = 0
    /\ conn = 0 /\ process # "gone" => wire = <<>>
    /\ handlers <= used

TypeInv == TypeOK /\ ClientInv

\* The state before the first connection satisfies the type invariant.
LEMMA InitType == Init => TypeInv
  BY PresenceAssumption DEF Init, TypeInv, TypeOK, ClientInv

\* The client's steps keep the type invariant.
LEMMA ClientType ==
  ASSUME TypeInv,
         \/ Connect \/ ConnectFails \/ OnConnect \/ ConnectionLost
         \/ Close \/ WaitForToken \/ Disconnect \/ Crash \/ Start
  PROVE  TypeInv'
<1> USE PresenceAssumption DEF TypeInv, TypeOK, ClientInv
<1>1. CASE Connect
  <2>1. used' \in 0..MaxSessions /\ used' # 0 /\ handlers' \in 0..MaxSessions /\ handlers' <= used'
    BY <1>1 DEF Connect
  <2>2. conn' = used' /\ session' = used' /\ wire' = <<>> /\ faults' = faults
    BY <1>1 DEF Connect
  <2>3. process' \in {"running", "offline", "disconnect"}
    BY <1>1 DEF Connect, Connecting
  <2>4. retained' \in {"none", "online", "offline"}
    BY <1>1 DEF Connect, Will
  <2> QED
    BY <2>1, <2>2, <2>3, <2>4
<1>2. CASE ConnectFails \/ WaitForToken
  BY <1>2 DEF ConnectFails, WaitForToken
<1>3. CASE ConnectionLost \/ Crash \/ Start
  <2>1. wire' = <<>> /\ UNCHANGED <<faults, session, retained, used>> /\ conn' \in {0, conn}
    BY <1>3 DEF ConnectionLost, Crash, Start
  <2>2. /\ handlers' \in 0..MaxSessions /\ handlers' <= used
        /\ process' \in {"new", "gone"} => conn' = 0 /\ handlers' = 0
    BY <1>3 DEF ConnectionLost, Crash, Start
  <2>3. process' \in {"new", "running", "offline", "disconnect", "gone"}
    BY <1>3 DEF ConnectionLost, Crash, Start
  <2> QED
    BY <2>1, <2>2, <2>3
<1>4. CASE OnConnect
  BY <1>4 DEF OnConnect
<1>5. CASE Close
  BY <1>5 DEF Close
<1>6. CASE Disconnect
  BY <1>6 DEF Disconnect
<1> QED
  BY <1>1, <1>2, <1>3, <1>4, <1>5, <1>6

\* The broker's steps keep the type invariant.
LEMMA BrokerType ==
  ASSUME TypeInv, SessionEnds \/ Receive
  PROVE  TypeInv'
<1> USE PresenceAssumption DEF TypeInv, TypeOK, ClientInv, client
<1>1. CASE SessionEnds
  BY <1>1 DEF SessionEnds, Will
<1>2. CASE Receive
  <2>1. Tail(wire) \in Seq(Messages) /\ Head(wire) \in Messages
    BY <1>2 DEF Receive, Messages
  <2> QED
    BY <1>2, <2>1 DEF Receive, Messages
<1> QED
  BY <1>1, <1>2

\* The type invariant is inductive.
LEMMA NextType == TypeInv /\ [Next]_vars => TypeInv'
<1>1. ASSUME TypeInv, UNCHANGED vars PROVE TypeInv'
  BY <1>1 DEF TypeInv, TypeOK, ClientInv, vars, client
<1> QED
  BY <1>1, ClientType, BrokerType DEF Next

\* Every variable of the client and of the broker stays in its type; the
\* broker's session is the client's, an older one or none.
THEOREM TypeCorrect == Spec => []TypeOK
<1>1. TypeInv => TypeOK
  BY DEF TypeInv
<1> QED
  BY <1>1, InitType, NextType, PTL DEF Spec

----------------------------------------------------------------------------
(* A broker without a session does not show the agent as online.           *)

\* What is shown in place of r once the broker has received the first n
\* messages of m.
ShownAfter(r, m, n) == IF n = 0 THEN r ELSE m[n]

(***************************************************************************)
(* When no handler and no connection falls into Close: the broker shows    *)
(* nothing it has no session for; once Close is under way, "offline" is    *)
(* the last word on the connection; and a DISCONNECT, which suppresses the *)
(* will, comes last and after that word.                                   *)
(***************************************************************************)
OfflineInv ==
    "race" \notin faults =>
       /\ session = 0 => retained # "online"
       /\ process \in {"offline", "disconnect"} =>
             handlers = 0 /\ (conn # 0 => ShownAfter(retained, wire, Len(wire)) # "online")
       /\ \A i \in 1..Len(wire) :
             wire[i] = "DISCONNECT" =>
                process = "gone" /\ i = Len(wire) /\ ShownAfter(retained, wire, i - 1) # "online"

\* The client's steps keep it: Close sends "offline" before Disconnect.
LEMMA ClientOffline ==
  ASSUME TypeInv, OfflineInv,
         \/ Connect \/ ConnectFails \/ OnConnect \/ ConnectionLost
         \/ Close \/ WaitForToken \/ Disconnect \/ Crash \/ Start
  PROVE  OfflineInv'
<1>0. faults' = faults
  BY DEF Connect, ConnectFails, OnConnect, ConnectionLost, Close, WaitForToken,
         Disconnect, Crash, Start
<1> SUFFICES ASSUME "race" \notin faults PROVE OfflineInv'
  BY <1>0 DEF OfflineInv
<1> USE PresenceAssumption DEF TypeInv, TypeOK, ClientInv, OfflineInv, ShownAfter
<1>1. CASE Connect
  BY <1>1 DEF Connect, Connecting, Will
<1>2. CASE ConnectFails \/ WaitForToken \/ Start \/ Crash \/ ConnectionLost
  BY <1>2 DEF ConnectFails, WaitForToken, Start, Crash, ConnectionLost
<1>3. CASE OnConnect
  BY <1>3 DEF OnConnect
<1>4. CASE Close
  BY <1>4 DEF Close
<1>5. CASE Disconnect
  BY <1>5 DEF Disconnect
<1> QED
  BY <1>1, <1>2, <1>3, <1>4, <1>5

\* The broker's steps keep it: a will says "offline", and so does what came
\* before a DISCONNECT.
LEMMA BrokerOffline ==
  ASSUME TypeInv, OfflineInv, SessionEnds \/ Receive
  PROVE  OfflineInv'
<1>0. faults' = faults
  BY DEF SessionEnds, Receive, client
<1> SUFFICES ASSUME "race" \notin faults PROVE OfflineInv'
  BY <1>0 DEF OfflineInv
<1>t. wire \in Seq(Messages)
  BY DEF TypeInv, TypeOK, Messages
<1>1. CASE SessionEnds
  BY <1>1 DEF SessionEnds, Will, OfflineInv, ShownAfter, client
<1>2. CASE Receive
  <2>0. /\ wire # <<>> /\ wire' = Tail(wire) /\ UNCHANGED <<process, conn, handlers>>
        /\ session = 0 => session' = session /\ retained' = retained
        /\ session # 0 /\ wire[1] = "DISCONNECT" => session' = 0 /\ retained' = retained
        /\ session # 0 /\ wire[1] # "DISCONNECT" => session' = session /\ retained' = wire[1]
    BY <1>2, <1>t DEF Receive, client
  <2>1. Len(wire') = Len(wire) - 1 /\ Len(wire) \in Nat /\ Len(wire) > 0
    BY <2>0, <1>t
  <2>2. \A i \in 1..Len(wire') : wire'[i] = wire[i + 1]
    BY <2>0, <2>1, <1>t
  <2>3. session' = 0 => retained' # "online"
    <3>1. 1 \in 1..Len(wire) /\ 1 - 1 = 0
      BY <2>1
    <3>2. wire[1] = "DISCONNECT" => ShownAfter(retained, wire, 0) # "online"
      BY <3>1 DEF OfflineInv
    <3> QED
      BY <2>0, <3>2 DEF OfflineInv, ShownAfter
  <2>4. \A n \in 0..Len(wire') :
           ShownAfter(retained, wire, n + 1) # "online" => ShownAfter(retained', wire', n) # "online"
    <3> SUFFICES ASSUME NEW n \in 0..Len(wire'), ShownAfter(retained, wire, n + 1) # "online"
                 PROVE  ShownAfter(retained', wire', n) # "online"
      OBVIOUS
    <3>1. ShownAfter(retained, wire, n + 1) = wire[n + 1]
      BY <2>1 DEF ShownAfter
    <3>2. CASE n = 0
      BY <2>0, <2>3, <3>1, <3>2 DEF ShownAfter, OfflineInv
    <3>3. CASE n # 0
      BY <2>1, <2>2, <3>1, <3>3 DEF ShownAfter
    <3> QED
      BY <3>2, <3>3
  <2>5. process' \in {"offline", "disconnect"} =>
             handlers' = 0 /\ (conn' # 0 => ShownAfter(retained', wire', Len(wire')) # "online")
    <3>1. Len(wire') \in 0..Len(wire') /\ Len(wire') + 1 = Len(wire)
      BY <2>1
    <3>2. ShownAfter(retained, wire, Len(wire)) # "online"
             => ShownAfter(retained', wire', Len(wire')) # "online"
      BY <2>4, <3>1
    <3> QED
      BY <2>0, <3>2 DEF OfflineInv, ShownAfter
  <2>6. ASSUME NEW i \in 1..Len(wire'), wire'[i] = "DISCONNECT"
        PROVE  process' = "gone" /\ i = Len(wire') /\ ShownAfter(retained', wire', i - 1) # "online"
    <3>1. wire[i + 1] = "DISCONNECT" /\ i + 1 \in 1..Len(wire)
      BY <2>1, <2>2, <2>6
    <3>2. process = "gone" /\ i + 1 = Len(wire) /\ ShownAfter(retained, wire, i) # "online"
      BY <3>1 DEF OfflineInv
    <3>3. i - 1 \in 0..Len(wire') /\ (i - 1) + 1 = i
      BY <2>1
    <3>4. ShownAfter(retained', wire', i - 1) # "online"
      BY <2>4, <3>2, <3>3
    <3>5. i = Len(wire')
      BY <2>1, <3>2
    <3> QED
      BY <2>0, <3>2, <3>4, <3>5
  <2> QED
    BY <2>3, <2>5, <2>6 DEF OfflineInv
<1> QED
  BY <1>1, <1>2

\* It is inductive, given the types.
LEMMA NextOffline == TypeInv /\ OfflineInv /\ [Next]_vars => OfflineInv'
<1>1. ASSUME OfflineInv, UNCHANGED vars PROVE OfflineInv'
  BY <1>1 DEF OfflineInv, ShownAfter, vars, client
<1> QED
  BY <1>1, ClientOffline, BrokerOffline DEF Next

(***************************************************************************)
(* However often the connection is lost, whichever side notices first, and *)
(* whether the agent is closed or killed, an agent that has gone and left  *)
(* nothing with the broker is not shown as online (unless Close races with *)
(* a handler or a connection).                                             *)
(***************************************************************************)
THEOREM GoneIsOffline == Spec => []GoneOffline
<1>1. Init => TypeInv /\ OfflineInv
  BY InitType DEF Init, OfflineInv, ShownAfter
<1>2. TypeInv /\ OfflineInv /\ [Next]_vars => TypeInv' /\ OfflineInv'
  BY NextType, NextOffline
<1>3. OfflineInv => GoneOffline
  BY DEF OfflineInv, GoneOffline
<1> QED
  BY <1>1, <1>2, <1>3, PTL DEF Spec
==============================================================================
