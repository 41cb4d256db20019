------------------------------ MODULE Presence ------------------------------
(***************************************************************************)
(* The retained "online" topic of an agent: the MQTT client connects,      *)
(* loses its connection, connects again and is closed, while the broker    *)
(* publishes its will when a session ends without a DISCONNECT             *)
(* (internal/mqtt/mqtt.go).                                                *)
(*                                                                         *)
(* The paho client and the broker are external.  What is assumed of them:  *)
(* a session delivers in order; a CONNECT with the same client id ends the *)
(* session before it; paho connects again by itself until Disconnect, and  *)
(* runs the OnConnect handler in a goroutine of its own.  What is in       *)
(* flight when a connection is lost is lost.                               *)
(***************************************************************************)
EXTENDS Naturals, Sequences

CONSTANTS
    MaxSessions,  \* bound on connections
    FaultSets     \* bound: what goes wrong, one of these sets

ASSUME PresenceAssumption ==
    /\ MaxSessions \in Nat \ {0}
    /\ \A s \in FaultSets : s \subseteq {"drop", "crash", "race"}

VARIABLES
    faults,    \* what goes wrong in this behaviour
    process,   \* what the agent is doing
    conn,      \* the connection the client holds, 0 if it is not open
    handlers,  \* OnConnect handlers that have not run yet
    wire,      \* what the client has sent on its connection, not yet received
    session,   \* the session of the broker, 0 if there is none
    retained,  \* the retained message of the online topic
    used       \* connections made so far

client == <<faults, process, conn, handlers>>
vars == <<client, wire, session, retained, used>>

Init ==
    /\ faults \in FaultSets
    /\ process = "new" /\ conn = 0 /\ handlers = 0
    /\ wire = <<>> /\ session = 0 /\ retained = "none" /\ used = 0

\* The broker ends the session and publishes its will.
Will == IF session = 0 THEN retained ELSE "offline"

----------------------------------------------------------------------------
(* The connection.                                                         *)

\* Until Disconnect is called, paho may reconnect, while Close is under way too
\* (a race).
Connecting ==
    process \in {"new", "running"} \union (IF "race" \in faults THEN {"offline", "disconnect"} ELSE {})

\* Mutant: the client id is new each time, so that no session is taken over.
ConnectOther ==
    /\ Connecting /\ conn = 0 /\ used < MaxSessions
    /\ used' = used + 1 /\ conn' = used' /\ session' = IF session = 0 THEN used' ELSE session
    /\ retained' = retained
    /\ handlers' = handlers + 1
    /\ process' = IF process = "new" THEN "running" ELSE process
    /\ wire' = <<>> /\ faults' = faults

\* Connect or reconnect; a session that is left over ends with its will.
Connect ==
    /\ Connecting /\ conn = 0 /\ used < MaxSessions
    /\ used' = used + 1 /\ conn' = used' /\ session' = used'
    /\ retained' = Will
    /\ handlers' = handlers + 1
    /\ process' = IF process = "new" THEN "running" ELSE process
    /\ wire' = <<>> /\ faults' = faults

\* New fails, and newAgent with it.
ConnectFails ==
    /\ process = "new"
    /\ process' = "gone"
    /\ UNCHANGED <<faults, conn, handlers, wire, session, retained, used>>

\* Mutant: only the first connection is announced.
OnConnectOnce ==
    /\ handlers > 0
    /\ handlers' = handlers - 1
    /\ wire' = IF conn = 1 THEN Append(wire, "online") ELSE wire
    /\ UNCHANGED <<faults, process, conn, session, retained, used>>

\* onConnect: "online" on whatever connection there is by now.
OnConnect ==
    /\ handlers > 0
    /\ handlers' = handlers - 1
    /\ wire' = IF conn # 0 THEN Append(wire, "online") ELSE wire
    /\ UNCHANGED <<faults, process, conn, session, retained, used>>

\* The network fails, while there is a connection left to recover with.
MayDrop ==
    /\ "drop" \in faults
    /\ used < MaxSessions

\* onConnectionLost: the client notices first, or after the broker.
ConnectionLost ==
    /\ conn # 0
    /\ MayDrop \/ session # conn
    /\ conn' = 0 /\ wire' = <<>>
    /\ UNCHANGED <<faults, process, handlers, session, retained, used>>

\* The broker gives up a session: it notices first, or after the client.
SessionEnds ==
    /\ session # 0
    /\ MayDrop \/ (conn # session /\ wire = <<>>)
    /\ retained' = Will
    /\ session' = 0
    /\ UNCHANGED <<client, wire, used>>

\* The broker receives the next message; after a DISCONNECT there is no will.
Receive ==
    /\ wire # <<>>
    /\ wire' = Tail(wire)
    /\ IF session = 0 THEN UNCHANGED <<session, retained>>
       ELSE IF Head(wire) = "DISCONNECT" THEN session' = 0 /\ UNCHANGED retained
       ELSE retained' = Head(wire) /\ UNCHANGED session
    /\ UNCHANGED <<client, used>>

----------------------------------------------------------------------------
(* The end.                                                                *)

\* Mutant: closed without a word.
CloseSilent ==
    /\ process = "running"
    /\ handlers = 0 \/ "race" \in faults
    /\ process' = "disconnect" /\ wire' = wire
    /\ UNCHANGED <<faults, conn, handlers, session, retained, used>>

\* Close: "offline" if the connection is open; the handler of that connection
\* has run by then, or not (a race).
Close ==
    /\ process = "running"
    /\ handlers = 0 \/ "race" \in faults
    /\ IF conn # 0 THEN process' = "offline" /\ wire' = Append(wire, "offline")
       ELSE process' = "disconnect" /\ wire' = wire
    /\ UNCHANGED <<faults, conn, handlers, session, retained, used>>

\* waitForToken: the message has arrived, or the context has ended.
WaitForToken ==
    /\ process = "offline"
    /\ process' = "disconnect"
    /\ UNCHANGED <<faults, conn, handlers, wire, session, retained, used>>

\* Disconnect, and the end of the process.
Disconnect ==
    /\ process = "disconnect"
    /\ process' = "gone"
    /\ wire' = IF conn # 0 THEN Append(wire, "DISCONNECT") ELSE wire
    /\ conn' = 0 /\ handlers' = 0
    /\ UNCHANGED <<faults, session, retained, used>>

\* The process is killed.
Crash ==
    /\ "crash" \in faults
    /\ process # "gone"
    /\ process' = "gone" /\ conn' = 0 /\ handlers' = 0 /\ wire' = <<>>
    /\ UNCHANGED <<faults, session, retained, used>>

\* The agent is started again.
Start ==
    /\ process = "gone" /\ used < MaxSessions
    /\ process' = "new" /\ wire' = <<>>
    /\ UNCHANGED <<faults, conn, handlers, session, retained, used>>

Next ==
    \/ Connect \/ ConnectFails \/ OnConnect \/ ConnectionLost \/ SessionEnds \/ Receive
    \/ Close \/ WaitForToken \/ Disconnect \/ Crash \/ Start

\* Reconnecting, handlers and deliveries go on, and what has broken is noticed;
\* nobody has to close or to start the agent, and no connection has to break.
Spec ==
    /\ Init /\ [][Next]_vars
    /\ WF_vars(Connect) /\ WF_vars(OnConnect) /\ WF_vars(Receive)
    /\ WF_vars(conn # session /\ (ConnectionLost \/ SessionEnds))
    /\ WF_vars(WaitForToken) /\ WF_vars(Disconnect)

----------------------------------------------------------------------------
(* Properties.                                                             *)

\* The types of the variables; the broker has the session of the client, an
\* older one or none.
TypeOK ==
    /\ faults \in FaultSets
    /\ process \in {"new", "running", "offline", "disconnect", "gone"}
    /\ used \in 0..MaxSessions
    /\ conn \in {0, used} /\ session \in 0..used
    /\ conn # 0 => session \in {0, conn}
    /\ handlers \in 0..MaxSessions
    /\ wire \in Seq({"online", "offline", "DISCONNECT"})
    /\ retained \in {"none", "online", "offline"}

\* "If the daemon crashes or loses connectivity, the broker delivers the LWT"
\* (docs/home-assistant.md), and Close publishes the same before it
\* disconnects: an agent that has gone, and of which nothing is left with the
\* broker, is not shown as online.  (Unless a handler runs, or a connection is
\* made, while Close is under way: mqtt.go does not keep them apart.)
GoneOffline ==
    process = "gone" /\ session = 0 /\ wire = <<>> /\ "race" \notin faults => retained # "online"

\* "It publishes the online retained message after each (re)connection"
\* (onConnect): however often the connection is lost, and whichever side
\* notices first, an agent that stays is shown as online in the end, and one
\* that has gone is not (with the same exception).
Shown ==
    /\ <>[](process = "running") => <>[](retained = "online")
    /\ <>[](process = "gone" /\ "race" \notin faults) => <>[](retained # "online")
=============================================================================
