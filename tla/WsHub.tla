------------------------------- MODULE WsHub -------------------------------
(***************************************************************************)
(* The WebSocket hub (src/internal/interfaces/websocket/hub.go): the run   *)
(* goroutine that owns the client map, the goroutine that forwards in-app  *)
(* notifications, the read and write pumps of every connection, the sweep  *)
(* of stale clients and Shutdown.                                          *)
(*                                                                         *)
(* A client is one connection.  Notifications are numbered as they are     *)
(* handed to NotifyInAppMessage, so that order and loss can be told.       *)
(***************************************************************************)
EXTENDS Integers, Sequences, FiniteSets

CONSTANTS
    Clients,        \* connections
    Users,
    Token,          \* the claims of the token each connection presents
    Empty, Absent,  \* a claim that is the empty string; one that is missing or no string
    NotifyCap,      \* capacity of NewInAppNotificationCh
    BroadcastCap,   \* capacity of broadcast
    RegisterCap,    \* capacity of register
    UnregisterCap,  \* capacity of unregister
    SendCap,        \* capacity of a client's send channel
    MaxNotes,       \* bound: notifications handed to the hub
    Pong            \* the answer to a client's "ping"

Notes == Users \X (1 .. MaxNotes)

Claim == Users \union {Empty, Absent}

ASSUME HubAssumption ==
    /\ {Empty, Absent} \cap Users = {} /\ Empty # Absent
    /\ Token \in [Clients -> [user_id : Claim, sub : Claim, id : Claim]]
    /\ IsFiniteSet(Clients)
    /\ NotifyCap \in Nat \ {0} /\ BroadcastCap \in Nat \ {0} /\ RegisterCap \in Nat \ {0}
    /\ UnregisterCap \in Nat \ {0} /\ SendCap \in Nat \ {0}
    /\ MaxNotes \in Nat
    /\ Pong \notin Notes

\* The user_id of the token, else its sub, which may be empty, else its id.  A token that
\* is missing, or that jwt.Parse refuses, is one without any claim.
Subject(claims) ==
    IF claims.user_id \notin {Empty, Absent} THEN claims.user_id
    ELSE IF claims.sub # Absent THEN claims.sub ELSE claims.id

UserOf(c) == Subject(Token[c])

\* The others are answered 401, and no goroutine is started for them.
Authenticated == {c \in Clients : UserOf(c) \in Users}

VARIABLES
    clients,    \* the connections in the hub's map
    total,      \* totalClients
    notify, broadcast, register, unregister,    \* the hub's channels
    loop,       \* where the run goroutine is
    note,       \* the notification a fan-out delivers
    targets,    \* the clients a fan-out or a sweep has still to serve
    forwarder,  \* TRUE while startKafkaSubscriberForwarder runs
    send,       \* each client's send channel
    closed,     \* the clients whose send channel is closed
    sock,       \* each client's connection
    reader,     \* where each readPump is
    writer,     \* where each writePump is
    silent,     \* clients last seen more than 2 * pongWait ago
    stopping,   \* how far Shutdown has come
    panicked,   \* the process died of a send on a closed channel
    count,      \* notifications handed to the hub so far
    delivered   \* the notifications written to each connection

chans == <<notify, broadcast, register, unregister>>
run   == <<loop, note, targets>>
pumps == <<sock, reader, writer, silent>>
vars  == <<clients, total, notify, broadcast, register, unregister, loop, note,
           targets, forwarder, send, closed, sock, reader, writer, silent,
           stopping, panicked, count, delivered>>

Up == ~panicked
Entries(s) == {s[i] : i \in 1 .. Len(s)}

Init ==
    /\ clients = {} /\ total = 0
    /\ notify = <<>> /\ broadcast = <<>> /\ register = <<>> /\ unregister = <<>>
    /\ loop = "select" /\ note = Pong /\ targets = {}
    /\ forwarder = TRUE
    /\ send = [c \in Clients |-> <<>>]
    /\ closed = {}
    /\ sock = [c \in Clients |-> "none"]
    /\ reader = [c \in Clients |-> "none"]
    /\ writer = [c \in Clients |-> "none"]
    /\ silent = {}
    /\ stopping = "no"
    /\ panicked = FALSE
    /\ count = 0
    /\ delivered = [c \in Clients |-> <<>>]

-----------------------------------------------------------------------------
(***************************************************************************)
(* NotifyInAppMessage and the forwarder: both drop when a channel is full. *)
(***************************************************************************)

\* Mutant: the channel has no bound.
NotifyUnbounded(u) ==
    /\ Up /\ count < MaxNotes
    /\ count' = count + 1
    /\ notify' = Append(notify, <<u, count'>>)
    /\ UNCHANGED <<clients, total, broadcast, register, unregister, run, forwarder, send,
                   closed, pumps, stopping, panicked, delivered>>

Notify(u) ==
    /\ Up /\ count < MaxNotes
    /\ count' = count + 1
    /\ notify' = IF Len(notify) < NotifyCap THEN Append(notify, <<u, count'>>) ELSE notify
    /\ UNCHANGED <<clients, total, broadcast, register, unregister, run, forwarder, send,
                   closed, pumps, stopping, panicked, delivered>>

\* Mutant: the forwarder puts the newest notification first.
ForwardsNewestFirst ==
    /\ Up /\ forwarder /\ notify # <<>>
    /\ notify' = Tail(notify)
    /\ broadcast' = IF Len(broadcast) < BroadcastCap
                    THEN <<Head(notify)>> \o broadcast ELSE broadcast
    /\ UNCHANGED <<clients, total, register, unregister, run, forwarder, send,
                   closed, pumps, stopping, panicked, count, delivered>>

Forward ==
    /\ Up /\ forwarder /\ notify # <<>>
    /\ notify' = Tail(notify)
    /\ broadcast' = IF Len(broadcast) < BroadcastCap
                    THEN Append(broadcast, Head(notify)) ELSE broadcast
    /\ UNCHANGED <<clients, total, register, unregister, run, forwarder, send,
                   closed, pumps, stopping, panicked, count, delivered>>

ForwarderStops ==
    /\ Up /\ forwarder /\ stopping # "no"
    /\ forwarder' = FALSE
    /\ UNCHANGED <<clients, total, chans, run, send, closed, pumps, stopping, panicked,
                   count, delivered>>

(***************************************************************************)
(* The run goroutine: one case of its select at a time.                    *)
(***************************************************************************)

HandleRegister ==
    /\ Up /\ loop = "select" /\ register # <<>>
    /\ register' = Tail(register)
    /\ clients' = clients \union {Head(register)}
    /\ total' = total + 1
    /\ UNCHANGED <<notify, broadcast, unregister, run, forwarder, send, closed, pumps,
                   stopping, panicked, count, delivered>>

\* Mutant: the count goes down for a client that is not in the map, too.
UnregisterAlwaysCounts ==
    /\ Up /\ loop = "select" /\ unregister # <<>>
    /\ unregister' = Tail(unregister)
    /\ clients' = clients \ {Head(unregister)}
    /\ closed' = closed \union (clients \cap {Head(unregister)})
    /\ total' = total - 1
    /\ UNCHANGED <<notify, broadcast, register, run, forwarder, send, pumps,
                   stopping, panicked, count, delivered>>

\* Mutant: the send channel is closed although the client stays in the map.
UnregisterKeepsClient ==
    /\ Up /\ loop = "select" /\ unregister # <<>>
    /\ unregister' = Tail(unregister)
    /\ closed' = closed \union (clients \cap {Head(unregister)})
    /\ UNCHANGED <<clients, total, notify, broadcast, register, run, forwarder, send, pumps,
                   stopping, panicked, count, delivered>>

\* A client that is not in the map, any more or yet, is left alone.
HandleUnregister ==
    /\ Up /\ loop = "select" /\ unregister # <<>>
    /\ unregister' = Tail(unregister)
    /\ clients' = clients \ {Head(unregister)}
    /\ closed' = closed \union (clients \cap {Head(unregister)})
    /\ total' = IF Head(unregister) \in clients THEN total - 1 ELSE total
    /\ UNCHANGED <<notify, broadcast, register, run, forwarder, send, pumps,
                   stopping, panicked, count, delivered>>

\* handleBroadcast reads the user's clients under RLock and then lets go of it.
BroadcastBegins ==
    /\ Up /\ loop = "select" /\ broadcast # <<>>
    /\ broadcast' = Tail(broadcast)
    /\ note' = Head(broadcast)
    /\ targets' = {c \in clients : UserOf(c) = Head(broadcast)[1]}
    /\ loop' = IF targets' = {} THEN "select" ELSE "fanout"
    /\ UNCHANGED <<clients, total, notify, register, unregister, forwarder, send, closed,
                   pumps, stopping, panicked, count, delivered>>

LeaveTarget(c) ==
    /\ c \in targets
    /\ targets' = targets \ {c}
    /\ loop' = IF targets' = {} THEN "select" ELSE loop
    /\ UNCHANGED note

\* The non-blocking send to one client, on a channel that may have been closed.
FanOut(c) ==
    /\ Up /\ loop = "fanout" /\ LeaveTarget(c)
    /\ panicked' = (c \in closed)
    /\ send' = IF c \notin closed /\ Len(send[c]) < SendCap
               THEN [send EXCEPT ![c] = Append(@, note)] ELSE send
    /\ UNCHANGED <<clients, total, chans, forwarder, closed, pumps, stopping, count, delivered>>

\* handlePing looks for stale clients.  The ticker's 54 s leave the hub the time to
\* handle what it has queued before: no stale client waits in unregister still.
SweepBegins ==
    /\ Up /\ loop = "select"
    /\ targets' = clients \cap silent
    /\ targets' # {} /\ targets' \cap Entries(unregister) = {}
    /\ loop' = "sweep"
    /\ UNCHANGED <<clients, total, chans, note, forwarder, send, closed, pumps, stopping,
                   panicked, count, delivered>>

\* Mutant: a stale connection is closed, but nobody asks to unregister it.
SweepOnlyCloses(c) ==
    /\ Up /\ loop = "sweep" /\ LeaveTarget(c)
    /\ sock' = [sock EXCEPT ![c] = "shut"]
    /\ UNCHANGED <<clients, total, chans, forwarder, send, closed,
                   reader, writer, silent, stopping, panicked, count, delivered>>

\* The blocking send on unregister, whose only receiver is this goroutine.
Sweep(c) ==
    /\ Up /\ loop = "sweep" /\ LeaveTarget(c)
    /\ Len(unregister) < UnregisterCap
    /\ unregister' = Append(unregister, c)
    /\ sock' = [sock EXCEPT ![c] = "shut"]
    /\ UNCHANGED <<clients, total, notify, broadcast, register, forwarder, send, closed,
                   reader, writer, silent, stopping, panicked, count, delivered>>

RunStops ==
    /\ Up /\ loop = "select" /\ stopping # "no"
    /\ loop' = "gone"
    /\ UNCHANGED <<clients, total, chans, note, targets, forwarder, send, closed, pumps,
                   stopping, panicked, count, delivered>>

(***************************************************************************)
(* A connection: ServeWS, readPump, writePump.                             *)
(***************************************************************************)

Connect(c) ==
    /\ c \in Authenticated
    /\ Up /\ reader[c] = "none" /\ Len(register) < RegisterCap
    /\ register' = Append(register, c)
    /\ sock' = [sock EXCEPT ![c] = "open"]
    /\ reader' = [reader EXCEPT ![c] = "reading"]
    /\ writer' = [writer EXCEPT ![c] = "writing"]
    /\ UNCHANGED <<clients, total, notify, broadcast, unregister, run, forwarder, send,
                   closed, silent, stopping, panicked, count, delivered>>

ReaderMoves(c, from, to) ==
    /\ Up /\ reader[c] = from
    /\ reader' = [reader EXCEPT ![c] = to]
    /\ UNCHANGED <<clients, total, notify, broadcast, register, run, forwarder, closed,
                   writer, silent, stopping, count, delivered>>

ReaderGetsPing(c) ==
    /\ sock[c] = "open"
    /\ ReaderMoves(c, "reading", "answer")
    /\ UNCHANGED <<unregister, send, sock, panicked>>

ReaderAnswers(c) ==
    /\ ReaderMoves(c, "answer", "reading")
    /\ panicked' = (c \in closed)
    /\ send' = IF c \notin closed /\ Len(send[c]) < SendCap
               THEN [send EXCEPT ![c] = Append(@, Pong)] ELSE send
    /\ UNCHANGED <<unregister, sock>>

\* The peer has gone, the read deadline has passed or the connection was closed.
ReaderFails(c) ==
    /\ ReaderMoves(c, "reading", "leaving")
    /\ UNCHANGED <<unregister, send, sock, panicked>>

\* Mutant: readPump asks twice to be unregistered.
ReaderLeavesTwice(c) ==
    /\ Len(unregister) < UnregisterCap
    /\ ReaderMoves(c, "leaving", "gone")
    /\ unregister' = unregister \o <<c, c>>
    /\ sock' = [sock EXCEPT ![c] = "shut"]
    /\ UNCHANGED <<send, panicked>>

\* The deferred unregister, a blocking send, and conn.Close.
ReaderLeaves(c) ==
    /\ Len(unregister) < UnregisterCap
    /\ ReaderMoves(c, "leaving", "gone")
    /\ unregister' = Append(unregister, c)
    /\ sock' = [sock EXCEPT ![c] = "shut"]
    /\ UNCHANGED <<send, panicked>>

WriterWrites(c) ==
    /\ Up /\ writer[c] = "writing" /\ send[c] # <<>> /\ sock[c] = "open"
    /\ send' = [send EXCEPT ![c] = Tail(@)]
    /\ delivered' = IF Head(send[c]) = Pong THEN delivered
                    ELSE [delivered EXCEPT ![c] = Append(@, Head(send[c]))]
    /\ UNCHANGED <<clients, total, chans, run, forwarder, closed, pumps, stopping,
                   panicked, count>>

\* A write or a ping fails, or the closed send channel is drained.
WriterLeaves(c) ==
    /\ Up /\ writer[c] = "writing"
    /\ writer' = [writer EXCEPT ![c] = "gone"]
    /\ sock' = [sock EXCEPT ![c] = "shut"]
    /\ UNCHANGED <<clients, total, chans, run, forwarder, send, closed, reader, silent,
                   stopping, panicked, count, delivered>>

\* lastSeen falls behind by 2 * pongWait.  The read deadline is pongWait, so by then
\* readPump is long gone and its unregister handled.
Silence(c) ==
    /\ Up /\ reader[c] = "gone" /\ c \notin silent \union Entries(unregister)
    /\ silent' = silent \union {c}
    /\ UNCHANGED <<clients, total, chans, run, forwarder, send, closed, sock, reader, writer,
                   stopping, panicked, count, delivered>>

(***************************************************************************)
(* Shutdown: the stop signal, then, under the lock, every client.          *)
(***************************************************************************)

ShutdownSignals ==
    /\ Up /\ stopping = "no"
    /\ stopping' = "signalled"
    /\ UNCHANGED <<clients, total, chans, run, forwarder, send, closed, pumps, panicked,
                   count, delivered>>

\* totalClients keeps its value.
ShutdownCloses ==
    /\ Up /\ stopping = "signalled"
    /\ stopping' = "done"
    /\ closed' = closed \union clients
    /\ sock' = [c \in Clients |-> IF c \in clients THEN "shut" ELSE sock[c]]
    /\ clients' = {}
    /\ UNCHANGED <<total, chans, run, forwarder, send, reader, writer, silent, panicked,
                   count, delivered>>

Terminated ==
    /\ panicked \/ (stopping = "done" /\ loop = "gone")
    /\ UNCHANGED vars

Hub == \/ HandleRegister \/ HandleUnregister \/ BroadcastBegins \/ SweepBegins \/ RunStops
       \/ \E c \in Clients : FanOut(c) \/ Sweep(c)

Connection(c) ==
    \/ Connect(c) \/ ReaderGetsPing(c) \/ ReaderAnswers(c) \/ ReaderFails(c) \/ ReaderLeaves(c)
    \/ WriterWrites(c) \/ WriterLeaves(c) \/ Silence(c)

Next ==
    \/ \E u \in Users : Notify(u)
    \/ Forward \/ ForwarderStops
    \/ Hub
    \/ \E c \in Clients : Connection(c)
    \/ ShutdownSignals \/ ShutdownCloses
    \/ Terminated

Spec == Init /\ [][Next]_vars

(***************************************************************************)
(* Go's select picks among the ready cases at random, so that none waits   *)
(* for ever: strong fairness of the cases of run.  Blocked senders are     *)
(* served first in, first out.  Time passes for a connection that is gone. *)
(* Nothing forces a connection, a failure, a notification or Shutdown.     *)
(***************************************************************************)
Fairness ==
    /\ SF_vars(HandleRegister) /\ SF_vars(HandleUnregister)
    /\ SF_vars(BroadcastBegins) /\ SF_vars(SweepBegins)
    /\ WF_vars(\E c \in Clients : FanOut(c) \/ Sweep(c))
    /\ \A c \in Clients : SF_vars(ReaderLeaves(c)) /\ WF_vars(ReaderAnswers(c)) /\ SF_vars(Silence(c))

FairSpec == Spec /\ Fairness

-----------------------------------------------------------------------------
(***************************************************************************)
(* Properties.                                                             *)
(***************************************************************************)

\* Every variable stays in its type, the channels within their capacities.
TypeOK ==
    /\ clients \subseteq Clients
    /\ total \in Int
    /\ notify \in Seq(Notes) /\ Len(notify) <= NotifyCap
    /\ broadcast \in Seq(Notes) /\ Len(broadcast) <= BroadcastCap
    /\ register \in Seq(Clients) /\ Len(register) <= RegisterCap
    /\ unregister \in Seq(Clients) /\ Len(unregister) <= UnregisterCap
    /\ loop \in {"select", "fanout", "sweep", "gone"}
    /\ note \in Notes \union {Pong}
    /\ targets \subseteq Clients
    /\ forwarder \in BOOLEAN
    /\ send \in [Clients -> Seq(Notes \union {Pong})]
    /\ \A c \in Clients : Len(send[c]) <= SendCap
    /\ closed \subseteq Clients
    /\ sock \in [Clients -> {"none", "open", "shut"}]
    /\ reader \in [Clients -> {"none", "reading", "answer", "leaving", "gone"}]
    /\ writer \in [Clients -> {"none", "writing", "gone"}]
    /\ silent \subseteq Clients
    /\ stopping \in {"no", "signalled", "done"}
    /\ panicked \in BOOLEAN
    /\ count \in 0 .. MaxNotes
    /\ delivered \in [Clients -> Seq(Notes)]

\* The map and what is derived from it agree, whatever order registrations, requests
\* of the pumps and the sweep are handled in: a client of the map has an open send
\* channel (the hub would close it twice otherwise), and until Shutdown
\* totalClients, which GetMetrics reports, counts the map.
MapConsistent ==
    /\ clients \cap closed = {}
    /\ stopping # "done" => total = Cardinality(clients)

\* Only Shutdown, which closes send channels under the feet of a fan-out and of a
\* readPump about to answer, can make a send hit a closed channel.
PanicOnlyAtShutdown == panicked => stopping # "no"

\* A connection is written the notifications of its own user only, each at most
\* once and in the order in which they were handed to NotifyInAppMessage.
OrderedDelivery ==
    \A c \in Clients : \A i \in 1 .. Len(delivered[c]) :
        /\ delivered[c][i][1] = UserOf(c)
        /\ i > 1 => delivered[c][i - 1][2] < delivered[c][i][2]

\* handlePing sends on unregister from the goroutine that alone receives from it.
\* It never blocks there while there are no more connections than the channel holds.
SweepNeverBlocks ==
    (loop = "sweep" /\ Cardinality(Authenticated) <= UnregisterCap)
        => Len(unregister) < UnregisterCap

\* A connection whose readPump has ended does not stay in the map: its own request
\* or, when that overtook its registration, the sweep removes it.
DeadClientsLeave ==
    \A c \in Clients : <>[](reader[c] = "gone" => (c \notin clients \/ stopping # "no"))

\* The comment of handleBroadcast (hub.go:179): "Entire process protected from race
\* by RLock".  The send channels of its targets are then not closed while it runs.
FanOutProtected == loop = "fanout" => targets \cap closed = {}
=============================================================================
