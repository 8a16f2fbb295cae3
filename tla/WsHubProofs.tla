----------------------------- MODULE WsHubProofs -----------------------------
(***************************************************************************)
(* Proofs about WsHub, for any connections, users, tokens, capacities and  *)
(* number of notifications: type correctness, the consistency of the       *)
(* client map, what a panic needs, the order of delivery, and that the     *)
(* sweep does not block.                                                   *)
(***************************************************************************)
EXTENDS WsHub, FiniteSetTheorems, FunctionTheorems, SequenceTheorems, TLAPS

Distinct(s) == \A i, j \in 1 .. Len(s) : s[i] = s[j] => i = j

\* The notifications of a sequence, answers to pings left out, in ascending order.
Ordered(s) ==
    \A i, j \in 1 .. Len(s) : (i < j /\ s[i] # Pong /\ s[j] # Pong) => s[i][2] < s[j][2]

\* A connection asks to be registered once, and is neither in the map nor closed before
\* that request is handled.
RegisterInv ==
    /\ Distinct(register)
    /\ \A c \in Entries(register) : reader[c] # "none" /\ c \notin clients \union closed
    /\ \A c \in clients \union closed : reader[c] # "none"
    /\ \A c \in Clients : reader[c] # "none" => c \in Authenticated

\* Only connections whose readPump has ended ask to be unregistered, fall silent, or are
\* closed before Shutdown closes what is left.
LeavingInv ==
    /\ Distinct(unregister)
    /\ \A c \in Entries(unregister) \union silent : reader[c] = "gone"
    /\ stopping # "done" => \A c \in closed : reader[c] = "gone"

\* The run goroutine alone takes clients out of the map, until Shutdown does.
LoopInv ==
    /\ loop \in {"fanout", "sweep"} => targets # {}
    /\ (loop \in {"fanout", "sweep"} /\ stopping # "done") => targets \subseteq clients
    /\ loop = "sweep" => (targets \subseteq silent /\ targets \cap Entries(unregister) = {})

\* What a connection has been given, and what is still on the way to everybody.
Given(c) == Entries(delivered[c]) \union (Entries(send[c]) \ {Pong})
Ahead    == Entries(broadcast) \union Entries(notify)

\* Every stage a notification passes is in order, and ahead of the stages before it: the
\* two channels of the hub, ...
ChannelOrder ==
    /\ Ordered(broadcast) /\ Ordered(notify)
    /\ \A x \in Entries(broadcast), y \in Entries(notify) : x[2] < y[2]
    /\ \A x \in Ahead : x[2] <= count

\* ... a connection, which is given what its own user is notified of, ...
ConnectionOrder(c) ==
    /\ Ordered(delivered[c]) /\ Ordered(send[c])
    /\ \A x \in Entries(delivered[c]), y \in Entries(send[c]) \ {Pong} : x[2] < y[2]
    /\ \A x \in Given(c) : x[1] = UserOf(c) /\ x[2] <= count
    /\ \A x \in Given(c), y \in Ahead : x[2] < y[2]

\* ... and the notification of a fan-out, for the targets it has not been sent to yet.
FanOutOrder ==
    loop = "fanout" =>
        /\ note \in Notes /\ note[2] <= count
        /\ \A y \in Ahead : note[2] < y[2]
        /\ \A c \in targets : /\ note[1] = UserOf(c)
                              /\ \A x \in Given(c) : x[2] < note[2]

OrderInv == ChannelOrder /\ (\A c \in Clients : ConnectionOrder(c)) /\ FanOutOrder

IInv == TypeOK /\ RegisterInv /\ LeavingInv /\ LoopInv /\ MapConsistent /\ PanicOnlyAtShutdown /\ OrderInv

-----------------------------------------------------------------------------
(***************************************************************************)
(* Channels as sequences.                                                  *)
(***************************************************************************)

\* Appending adds one entry.
LEMMA AppendEntries ==
    ASSUME NEW S, NEW s \in Seq(S), NEW x \in S
    PROVE  Entries(Append(s, x)) = Entries(s) \union {x}
  <1>1. /\ Len(Append(s, x)) = Len(s) + 1 /\ Len(s) \in Nat
        /\ \A i \in 1 .. Len(s) : Append(s, x)[i] = s[i]
        /\ Append(s, x)[Len(s) + 1] = x
    BY AppendProperties, LenProperties
  <1>2. ASSUME NEW i \in 1 .. Len(s) + 1
        PROVE  Append(s, x)[i] \in Entries(s) \union {x}
    <2>1. CASE i = Len(s) + 1
      BY <1>1, <2>1
    <2>2. CASE i \in 1 .. Len(s)
      BY <1>1, <2>2 DEF Entries
    <2> QED BY <1>1, <2>1, <2>2
  <1>3. ASSUME NEW i \in 1 .. Len(s) PROVE s[i] \in Entries(Append(s, x))
    <2>1. i \in 1 .. Len(Append(s, x)) /\ Append(s, x)[i] = s[i]
      BY <1>1
    <2> QED BY <2>1 DEF Entries
  <1>4. x \in Entries(Append(s, x))
    <2>1. Len(s) + 1 \in 1 .. Len(Append(s, x))
      BY <1>1
    <2> QED BY <1>1, <2>1 DEF Entries
  <1> QED BY <1>1, <1>2, <1>3, <1>4 DEF Entries

\* Receiving takes the head away.
LEMMA TailEntries ==
    ASSUME NEW S, NEW s \in Seq(S), s # <<>>
    PROVE  Entries(s) = {Head(s)} \union Entries(Tail(s))
  <1>1. /\ Len(Tail(s)) = Len(s) - 1 /\ Len(s) \in Nat \ {0}
        /\ \A i \in 1 .. Len(Tail(s)) : Tail(s)[i] = s[i + 1]
        /\ Head(s) = s[1]
    BY HeadTailProperties, LenProperties, EmptySeq
  <1>2. ASSUME NEW i \in 1 .. Len(s) PROVE s[i] \in {Head(s)} \union Entries(Tail(s))
    <2>1. CASE i = 1
      BY <1>1, <2>1
    <2>2. CASE i # 1
      <3>1. i - 1 \in 1 .. Len(Tail(s)) /\ Tail(s)[i - 1] = s[i]
        BY <1>1, <2>2
      <3> QED BY <3>1 DEF Entries
    <2> QED BY <2>1, <2>2
  <1>3. ASSUME NEW i \in 1 .. Len(Tail(s)) PROVE Tail(s)[i] \in Entries(s)
    <2>1. i + 1 \in 1 .. Len(s) /\ Tail(s)[i] = s[i + 1]
      BY <1>1
    <2> QED BY <2>1 DEF Entries
  <1>4. Head(s) \in Entries(s)
    BY <1>1 DEF Entries
  <1> QED BY <1>2, <1>3, <1>4 DEF Entries

LEMMA AppendDistinct ==
    ASSUME NEW S, NEW s \in Seq(S), NEW x \in S, Distinct(s), x \notin Entries(s)
    PROVE  Distinct(Append(s, x))
  <1>1. /\ Len(Append(s, x)) = Len(s) + 1 /\ Len(s) \in Nat
        /\ \A i \in 1 .. Len(s) : Append(s, x)[i] = s[i]
        /\ Append(s, x)[Len(s) + 1] = x
    BY AppendProperties, LenProperties
  <1>2. \A i \in 1 .. Len(s) : s[i] # x
    BY DEF Entries
  <1> QED BY <1>1, <1>2 DEF Distinct

LEMMA TailDistinct ==
    ASSUME NEW S, NEW s \in Seq(S), s # <<>>, Distinct(s)
    PROVE  Distinct(Tail(s)) /\ Head(s) \notin Entries(Tail(s))
  <1>1. /\ Len(Tail(s)) = Len(s) - 1 /\ Len(s) \in Nat \ {0}
        /\ \A i \in 1 .. Len(Tail(s)) : Tail(s)[i] = s[i + 1]
        /\ Head(s) = s[1]
    BY HeadTailProperties, LenProperties, EmptySeq
  <1>2. \A i \in 1 .. Len(Tail(s)) : i + 1 \in 1 .. Len(s) /\ i + 1 # 1
    BY <1>1
  <1>3. Distinct(Tail(s))
    BY <1>1, <1>2 DEF Distinct
  <1>4. ASSUME NEW i \in 1 .. Len(Tail(s)) PROVE Tail(s)[i] # Head(s)
    <2>1. 1 \in 1 .. Len(s)
      BY <1>1
    <2> QED BY <1>1, <1>2, <2>1 DEF Distinct
  <1> QED BY <1>3, <1>4 DEF Entries

\* A sequence stays in order when what is appended comes after its entries ...
LEMMA AppendOrdered ==
    ASSUME NEW S, NEW s \in Seq(S), NEW x \in S, Ordered(s),
           x # Pong => \A y \in Entries(s) \ {Pong} : y[2] < x[2]
    PROVE  Ordered(Append(s, x))
  <1>1. /\ Len(Append(s, x)) = Len(s) + 1 /\ Len(s) \in Nat
        /\ \A i \in 1 .. Len(s) : Append(s, x)[i] = s[i]
        /\ Append(s, x)[Len(s) + 1] = x
    BY AppendProperties, LenProperties
  <1> SUFFICES ASSUME NEW i \in 1 .. Len(s) + 1, NEW j \in 1 .. Len(s) + 1, i < j,
                      Append(s, x)[i] # Pong, Append(s, x)[j] # Pong
               PROVE  Append(s, x)[i][2] < Append(s, x)[j][2]
    BY <1>1 DEF Ordered
  <1>2. i \in 1 .. Len(s) /\ Append(s, x)[i] = s[i] /\ s[i] \in Entries(s)
    BY <1>1 DEF Entries
  <1>3. CASE j = Len(s) + 1
    BY <1>1, <1>2, <1>3
  <1>4. CASE j \in 1 .. Len(s)
    BY <1>1, <1>2, <1>4 DEF Ordered
  <1> QED BY <1>1, <1>3, <1>4

\* ... and when its head is taken, which the others come after.
LEMMA TailOrdered ==
    ASSUME NEW S, NEW s \in Seq(S), s # <<>>, Ordered(s)
    PROVE  /\ Ordered(Tail(s))
           /\ Head(s) # Pong => \A y \in Entries(Tail(s)) \ {Pong} : Head(s)[2] < y[2]
  <1>1. /\ Len(Tail(s)) = Len(s) - 1 /\ Len(s) \in Nat \ {0}
        /\ \A i \in 1 .. Len(Tail(s)) : Tail(s)[i] = s[i + 1]
        /\ Head(s) = s[1]
    BY HeadTailProperties, LenProperties, EmptySeq
  <1>2. \A i \in 1 .. Len(Tail(s)) : i + 1 \in 1 .. Len(s) /\ 1 < i + 1
    BY <1>1
  <1>3. Ordered(Tail(s))
    <2> SUFFICES ASSUME NEW i \in 1 .. Len(Tail(s)), NEW j \in 1 .. Len(Tail(s)), i < j,
                        Tail(s)[i] # Pong, Tail(s)[j] # Pong
                 PROVE  Tail(s)[i][2] < Tail(s)[j][2]
      BY DEF Ordered
    <2>1. i + 1 < j + 1
      OBVIOUS
    <2> QED BY <1>1, <1>2, <2>1 DEF Ordered
  <1>4. ASSUME Head(s) # Pong, NEW i \in 1 .. Len(Tail(s)), Tail(s)[i] # Pong
        PROVE  Head(s)[2] < Tail(s)[i][2]
    <2>1. 1 \in 1 .. Len(s)
      BY <1>1
    <2> QED BY <1>1, <1>2, <1>4, <2>1 DEF Ordered
  <1> QED BY <1>3, <1>4 DEF Entries

-----------------------------------------------------------------------------

LEMMA NotesFacts ==
    /\ Pong \notin Notes
    /\ \A x \in Notes : x[1] \in Users /\ x[2] \in Nat
    /\ \A u \in Users, n \in 1 .. MaxNotes : <<u, n>> \in Notes /\ <<u, n>>[1] = u /\ <<u, n>>[2] = n
  <1>1. Pong \notin Notes
    BY HubAssumption DEF HubAssumption
  <1>2. ASSUME NEW x \in Notes PROVE x[1] \in Users /\ x[2] \in Nat
    <2>1. PICK u \in Users, n \in 1 .. MaxNotes : x = <<u, n>>
      BY DEF Notes
    <2> QED BY <2>1
  <1>3. \A u \in Users, n \in 1 .. MaxNotes : <<u, n>> \in Notes /\ <<u, n>>[1] = u /\ <<u, n>>[2] = n
    BY DEF Notes
  <1> QED BY <1>1, <1>2, <1>3

LEMMA InitIInv == Init => IInv
  <1> SUFFICES ASSUME Init PROVE IInv
    OBVIOUS
  <1> USE HubAssumption DEF HubAssumption, Init, Entries
  <1>1. TypeOK
    <2>1. /\ notify \in Seq(Notes) /\ broadcast \in Seq(Notes)
          /\ register \in Seq(Clients) /\ unregister \in Seq(Clients)
          /\ Len(notify) = 0 /\ Len(broadcast) = 0 /\ Len(register) = 0 /\ Len(unregister) = 0
      OBVIOUS
    <2>2. /\ send \in [Clients -> Seq(Notes \union {Pong})] /\ \A c \in Clients : Len(send[c]) = 0
          /\ delivered \in [Clients -> Seq(Notes)]
      OBVIOUS
    <2>3. /\ sock \in [Clients -> {"none", "open", "shut"}]
          /\ reader \in [Clients -> {"none", "reading", "answer", "leaving", "gone"}]
          /\ writer \in [Clients -> {"none", "writing", "gone"}]
      OBVIOUS
    <2>4. /\ clients \subseteq Clients /\ targets \subseteq Clients
          /\ closed \subseteq Clients /\ silent \subseteq Clients
          /\ total \in Int /\ count \in 0 .. MaxNotes
      OBVIOUS
    <2>5. /\ loop \in {"select", "fanout", "sweep", "gone"} /\ note \in Notes \union {Pong}
          /\ forwarder \in BOOLEAN /\ panicked \in BOOLEAN
          /\ stopping \in {"no", "signalled", "done"}
      OBVIOUS
    <2>6. /\ NotifyCap \in Nat /\ BroadcastCap \in Nat /\ RegisterCap \in Nat
          /\ UnregisterCap \in Nat /\ SendCap \in Nat
      OBVIOUS
    <2> QED BY ONLY <2>1, <2>2, <2>3, <2>4, <2>5, <2>6 DEF TypeOK
  <1>2. RegisterInv /\ LeavingInv /\ LoopInv
    BY DEF RegisterInv, LeavingInv, LoopInv, Distinct
  <1>3. MapConsistent /\ PanicOnlyAtShutdown
    BY FS_EmptySet DEF MapConsistent, PanicOnlyAtShutdown
  <1>4. OrderInv
    BY DEF OrderInv, ChannelOrder, ConnectionOrder, FanOutOrder, Ordered, Given, Ahead
  <1> QED BY <1>1, <1>2, <1>3, <1>4 DEF IInv

\* What a send channel takes in without blocking.
LEMMA SendType ==
    ASSUME TypeOK, NEW c \in Clients, NEW x \in Notes \union {Pong}, Len(send[c]) < SendCap
    PROVE  /\ [send EXCEPT ![c] = Append(@, x)] \in [Clients -> Seq(Notes \union {Pong})]
           /\ \A d \in Clients : Len([send EXCEPT ![c] = Append(@, x)][d]) <= SendCap
  <1>1. send[c] \in Seq(Notes \union {Pong}) /\ SendCap \in Nat
    BY HubAssumption DEF TypeOK, HubAssumption
  <1>2. Append(send[c], x) \in Seq(Notes \union {Pong}) /\ Len(Append(send[c], x)) <= SendCap
    BY <1>1, AppendProperties, LenProperties
  <1> QED BY <1>1, <1>2 DEF TypeOK

LEMMA TypeNext == TypeOK /\ LoopInv /\ [Next]_vars => TypeOK'
  <1> SUFFICES ASSUME TypeOK, LoopInv, [Next]_vars PROVE TypeOK'
    OBVIOUS
  <1> USE HubAssumption DEF HubAssumption, chans, run, pumps
  <1>1. ASSUME NEW u \in Users, Notify(u) PROVE TypeOK'
    <2>1. count' \in 0 .. MaxNotes /\ <<u, count'>> \in Notes
      BY <1>1, NotesFacts DEF Notify, TypeOK
    <2>2. notify' \in Seq(Notes) /\ Len(notify') <= NotifyCap
      BY <1>1, <2>1, AppendProperties DEF Notify, TypeOK
    <2> QED BY <1>1, <2>1, <2>2 DEF Notify, TypeOK
  <1>2. CASE Forward
    <2>1. notify' \in Seq(Notes) /\ Len(notify') <= NotifyCap /\ Head(notify) \in Notes
      BY <1>2, HeadTailProperties DEF Forward, TypeOK
    <2>2. broadcast' \in Seq(Notes) /\ Len(broadcast') <= BroadcastCap
      BY <1>2, <2>1, AppendProperties DEF Forward, TypeOK
    <2> QED BY <1>2, <2>1, <2>2 DEF Forward, TypeOK
  <1>3. CASE ForwarderStops
    BY <1>3 DEF ForwarderStops, TypeOK
  <1>4. CASE HandleRegister
    <2>1. register' \in Seq(Clients) /\ Len(register') <= RegisterCap /\ Head(register) \in Clients
      BY <1>4, HeadTailProperties DEF HandleRegister, TypeOK
    <2> QED BY <1>4, <2>1 DEF HandleRegister, TypeOK
  <1>5. CASE HandleUnregister
    <2>1. unregister' \in Seq(Clients) /\ Len(unregister') <= UnregisterCap
      BY <1>5, HeadTailProperties DEF HandleUnregister, TypeOK
    <2>2. clients' \subseteq Clients /\ closed' \subseteq Clients /\ total' \in Int
      BY <1>5 DEF HandleUnregister, TypeOK
    <2> QED BY <1>5, <2>1, <2>2 DEF HandleUnregister, TypeOK
  <1>6. CASE BroadcastBegins
    <2>1. broadcast' \in Seq(Notes) /\ Len(broadcast') <= BroadcastCap /\ note' \in Notes
      BY <1>6, HeadTailProperties DEF BroadcastBegins, TypeOK
    <2>2. targets' \subseteq Clients /\ loop' \in {"select", "fanout"}
      BY <1>6 DEF BroadcastBegins, TypeOK
    <2> QED BY <1>6, <2>1, <2>2 DEF BroadcastBegins, TypeOK
  <1>7. CASE SweepBegins
    BY <1>7 DEF SweepBegins, TypeOK
  <1>8. CASE RunStops
    BY <1>8 DEF RunStops, TypeOK
  <1>9. ASSUME NEW c \in Clients, FanOut(c) PROVE TypeOK'
    <2>1. /\ send' \in [Clients -> Seq(Notes \union {Pong})]
          /\ \A d \in Clients : Len(send'[d]) <= SendCap
      <3>1. note \in Notes \union {Pong}
        BY DEF TypeOK
      <3> QED BY <1>9, <3>1, SendType DEF FanOut, TypeOK
    <2>2. targets' \subseteq Clients /\ loop' \in {"select", "fanout"} /\ panicked' \in BOOLEAN
      BY <1>9 DEF FanOut, LeaveTarget, TypeOK
    <2> QED BY <1>9, <2>1, <2>2 DEF FanOut, LeaveTarget, TypeOK
  <1>10. ASSUME NEW c \in Clients, Sweep(c) PROVE TypeOK'
    <2>1. unregister' \in Seq(Clients) /\ Len(unregister') <= UnregisterCap
      BY <1>10, AppendProperties DEF Sweep, TypeOK
    <2>2. targets' \subseteq Clients /\ loop' \in {"select", "sweep"}
      BY <1>10 DEF Sweep, LeaveTarget, TypeOK
    <2> QED BY <1>10, <2>1, <2>2 DEF Sweep, LeaveTarget, TypeOK
  <1>11. ASSUME NEW c \in Clients, Connect(c) PROVE TypeOK'
    <2>1. register' \in Seq(Clients) /\ Len(register') <= RegisterCap
      BY <1>11, AppendProperties DEF Connect, TypeOK
    <2> QED BY <1>11, <2>1 DEF Connect, TypeOK
  <1>12. ASSUME NEW c \in Clients, ReaderGetsPing(c) PROVE TypeOK'
    BY <1>12 DEF ReaderGetsPing, ReaderMoves, TypeOK
  <1>13. ASSUME NEW c \in Clients, ReaderAnswers(c) PROVE TypeOK'
    <2>1. /\ send' \in [Clients -> Seq(Notes \union {Pong})]
          /\ \A d \in Clients : Len(send'[d]) <= SendCap
      BY <1>13, SendType DEF ReaderAnswers, TypeOK
    <2> QED BY <1>13, <2>1 DEF ReaderAnswers, ReaderMoves, TypeOK
  <1>14. ASSUME NEW c \in Clients, ReaderFails(c) PROVE TypeOK'
    BY <1>14 DEF ReaderFails, ReaderMoves, TypeOK
  <1>15. ASSUME NEW c \in Clients, ReaderLeaves(c) PROVE TypeOK'
    <2>1. unregister' \in Seq(Clients) /\ Len(unregister') <= UnregisterCap
      BY <1>15, AppendProperties DEF ReaderLeaves, TypeOK
    <2> QED BY <1>15, <2>1 DEF ReaderLeaves, ReaderMoves, TypeOK
  <1>16. ASSUME NEW c \in Clients, WriterWrites(c) PROVE TypeOK'
    <2>1. /\ Tail(send[c]) \in Seq(Notes \union {Pong}) /\ Len(Tail(send[c])) <= Len(send[c])
          /\ Head(send[c]) \in Notes \union {Pong}
      BY <1>16, HeadTailProperties DEF WriterWrites, TypeOK
    <2>2. send' \in [Clients -> Seq(Notes \union {Pong})] /\ \A d \in Clients : Len(send'[d]) <= SendCap
      BY <1>16, <2>1 DEF WriterWrites, TypeOK
    <2>3. delivered' \in [Clients -> Seq(Notes)]
      BY <1>16, <2>1, AppendProperties DEF WriterWrites, TypeOK
    <2> QED BY <1>16, <2>2, <2>3 DEF WriterWrites, TypeOK
  <1>17. ASSUME NEW c \in Clients, WriterLeaves(c) PROVE TypeOK'
    BY <1>17 DEF WriterLeaves, TypeOK
  <1>18. ASSUME NEW c \in Clients, Silence(c) PROVE TypeOK'
    BY <1>18 DEF Silence, TypeOK
  <1>19. CASE ShutdownSignals
    BY <1>19 DEF ShutdownSignals, TypeOK
  <1>20. CASE ShutdownCloses
    BY <1>20 DEF ShutdownCloses, TypeOK
  <1>21. CASE UNCHANGED vars
    BY <1>21 DEF vars, TypeOK
  <1> QED
    BY <1>1, <1>2, <1>3, <1>4, <1>5, <1>6, <1>7, <1>8, <1>9, <1>10, <1>11, <1>12, <1>13, <1>14,
       <1>15, <1>16, <1>17, <1>18, <1>19, <1>20, <1>21 DEF Next, Hub, Connection, Terminated

\* A readPump that has begun stays so, and one that has ended does not come back; only
\* the connections of the authenticated begin one.
LEMMA ReaderNext ==
    TypeOK /\ [Next]_vars =>
        \A c \in Clients : /\ reader[c] # "none" => reader'[c] # "none"
                           /\ reader[c] = "gone" => reader'[c] = "gone"
                           /\ reader'[c] # "none" => reader[c] # "none" \/ c \in Authenticated
  <1> SUFFICES ASSUME TypeOK, [Next]_vars, NEW c \in Clients
               PROVE  /\ reader[c] # "none" => reader'[c] # "none"
                      /\ reader[c] = "gone" => reader'[c] = "gone"
                      /\ reader'[c] # "none" => reader[c] # "none" \/ c \in Authenticated
    OBVIOUS
  <1>1. CASE UNCHANGED reader
    BY <1>1
  <1>2. ASSUME NEW d \in Clients, Connect(d)
        PROVE  reader' = [reader EXCEPT ![d] = "reading"] /\ reader[d] = "none" /\ d \in Authenticated
    BY <1>2 DEF Connect
  <1>3. ASSUME NEW d \in Clients,
               ReaderGetsPing(d) \/ ReaderAnswers(d) \/ ReaderFails(d) \/ ReaderLeaves(d)
        PROVE  /\ reader[d] \notin {"none", "gone"}
               /\ \E to \in {"reading", "answer", "leaving", "gone"} : reader' = [reader EXCEPT ![d] = to]
    BY <1>3 DEF ReaderGetsPing, ReaderAnswers, ReaderFails, ReaderLeaves, ReaderMoves
  <1>4. CASE \E d \in Clients : \/ Connect(d) \/ ReaderGetsPing(d) \/ ReaderAnswers(d)
                                \/ ReaderFails(d) \/ ReaderLeaves(d)
    BY <1>2, <1>3, <1>4 DEF TypeOK
  <1>5. CASE ~\E d \in Clients : \/ Connect(d) \/ ReaderGetsPing(d) \/ ReaderAnswers(d)
                                 \/ ReaderFails(d) \/ ReaderLeaves(d)
    <2>1. UNCHANGED reader
      BY <1>5 DEF Next, Hub, Connection, Terminated, vars, chans, run, pumps, Notify, Forward,
         ForwarderStops, HandleRegister, HandleUnregister, BroadcastBegins, SweepBegins, RunStops,
         FanOut, Sweep, WriterWrites, WriterLeaves, Silence, ShutdownSignals, ShutdownCloses
    <2> QED BY <1>1, <2>1
  <1> QED BY <1>4, <1>5

LEMMA RegisterNext == TypeOK /\ RegisterInv /\ [Next]_vars => RegisterInv'
  <1> SUFFICES ASSUME TypeOK, RegisterInv, [Next]_vars PROVE RegisterInv'
    OBVIOUS
  <1>1. \A c \in Clients : /\ reader[c] # "none" => reader'[c] # "none"
                           /\ reader'[c] # "none" => c \in Authenticated
    BY ReaderNext DEF RegisterInv
  <1>2. /\ register \in Seq(Clients) /\ Entries(register) \subseteq Clients
        /\ clients \subseteq Clients /\ closed \subseteq Clients
    BY ElementOfSeq DEF TypeOK, Entries
  <1>3. CASE HandleRegister
    <2>1. register # <<>> /\ register' = Tail(register)
      BY <1>3 DEF HandleRegister
    <2>2. /\ Distinct(register') /\ Head(register) \notin Entries(register')
          /\ Entries(register) = {Head(register)} \union Entries(register')
      BY <1>2, <2>1, TailDistinct, TailEntries DEF RegisterInv
    <2>3. clients' = clients \union {Head(register)} /\ closed' = closed /\ reader' = reader
      BY <1>3 DEF HandleRegister, pumps
    <2> QED BY <2>2, <2>3 DEF RegisterInv, Authenticated
  <1>4. CASE HandleUnregister
    <2>1. register' = register /\ reader' = reader /\ clients' \union closed' = clients \union closed
      BY <1>4 DEF HandleUnregister, pumps
    <2> QED BY <2>1 DEF RegisterInv, Entries, Authenticated
  <1>5. ASSUME NEW c \in Clients, Connect(c) PROVE RegisterInv'
    <2>1. reader[c] = "none" /\ register' = Append(register, c) /\ c \notin Entries(register)
      BY <1>5 DEF Connect, RegisterInv
    <2>2. Distinct(register') /\ Entries(register') = Entries(register) \union {c}
      BY <1>2, <2>1, AppendDistinct, AppendEntries DEF RegisterInv
    <2>3. clients' = clients /\ closed' = closed /\ reader'[c] # "none" /\ c \notin clients \union closed
      BY <1>5, <2>1 DEF Connect, TypeOK, RegisterInv
    <2> QED BY <1>1, <1>2, <2>2, <2>3 DEF RegisterInv, Authenticated
  <1>6. CASE ShutdownCloses
    <2>1. register' = register /\ reader' = reader /\ clients' \union closed' = clients \union closed
      BY <1>6 DEF ShutdownCloses, chans
    <2> QED BY <2>1 DEF RegisterInv, Entries, Authenticated
  <1>7. CASE ~(HandleRegister \/ HandleUnregister \/ ShutdownCloses \/ \E c \in Clients : Connect(c))
    <2>1. UNCHANGED <<register, clients, closed>>
      BY <1>7 DEF Next, Hub, Connection, Terminated, vars, chans, run, pumps, Notify, Forward,
         ForwarderStops, BroadcastBegins, SweepBegins, RunStops, FanOut, Sweep, ReaderMoves,
         ReaderGetsPing, ReaderAnswers, ReaderFails, ReaderLeaves, WriterWrites, WriterLeaves,
         Silence, ShutdownSignals
    <2> QED BY <1>1, <1>2, <2>1 DEF RegisterInv, Entries, Authenticated
  <1> QED BY <1>3, <1>4, <1>5, <1>6, <1>7

\* Whoever asks to be unregistered has not asked already: readPump asks as it ends, and
\* the sweep asks for silent clients that do not wait in unregister.
LEMMA LeavingNext == TypeOK /\ LeavingInv /\ LoopInv /\ [Next]_vars => LeavingInv'
  <1> SUFFICES ASSUME TypeOK, LeavingInv, LoopInv, [Next]_vars PROVE LeavingInv'
    OBVIOUS
  <1>1. \A c \in Clients : reader[c] = "gone" => reader'[c] = "gone"
    BY ReaderNext
  <1>2. /\ unregister \in Seq(Clients) /\ Entries(unregister) \subseteq Clients
        /\ silent \subseteq Clients /\ closed \subseteq Clients /\ targets \subseteq Clients
    BY ElementOfSeq DEF TypeOK, Entries
  <1>3. CASE HandleUnregister
    <2>1. unregister # <<>> /\ unregister' = Tail(unregister)
      BY <1>3 DEF HandleUnregister
    <2>2. Distinct(unregister') /\ Entries(unregister) = {Head(unregister)} \union Entries(unregister')
      BY <1>2, <2>1, TailDistinct, TailEntries DEF LeavingInv
    <2>3. /\ closed' \subseteq closed \union {Head(unregister)}
          /\ reader' = reader /\ silent' = silent /\ stopping' = stopping
      BY <1>3 DEF HandleUnregister, pumps
    <2> QED BY <2>2, <2>3 DEF LeavingInv
  <1>4. ASSUME NEW c \in Clients, Sweep(c) PROVE LeavingInv'
    <2>1. /\ unregister' = Append(unregister, c) /\ c \notin Entries(unregister) /\ reader[c] = "gone"
          /\ UNCHANGED <<reader, silent, stopping, closed>>
      BY <1>4 DEF Sweep, LeaveTarget, LoopInv, LeavingInv
    <2>2. Distinct(unregister') /\ Entries(unregister') = Entries(unregister) \union {c}
      BY <1>2, <2>1, AppendDistinct, AppendEntries DEF LeavingInv
    <2> QED BY <2>1, <2>2 DEF LeavingInv
  <1>5. ASSUME NEW c \in Clients, ReaderLeaves(c) PROVE LeavingInv'
    <2>1. /\ unregister' = Append(unregister, c) /\ c \notin Entries(unregister) /\ reader'[c] = "gone"
          /\ UNCHANGED <<silent, stopping, closed>>
      BY <1>5 DEF ReaderLeaves, ReaderMoves, LeavingInv, TypeOK
    <2>2. Distinct(unregister') /\ Entries(unregister') = Entries(unregister) \union {c}
      BY <1>2, <2>1, AppendDistinct, AppendEntries DEF LeavingInv
    <2> QED BY <1>1, <1>2, <2>1, <2>2 DEF LeavingInv
  <1>6. ASSUME NEW c \in Clients, Silence(c) PROVE LeavingInv'
    BY <1>6 DEF Silence, LeavingInv, chans, Entries
  <1>7. CASE ShutdownSignals \/ ShutdownCloses
    BY <1>7 DEF ShutdownSignals, ShutdownCloses, LeavingInv, chans, pumps, Entries
  <1>8. CASE ~(\/ HandleUnregister \/ ShutdownSignals \/ ShutdownCloses
               \/ \E c \in Clients : Sweep(c) \/ ReaderLeaves(c) \/ Silence(c))
    <2>1. UNCHANGED <<unregister, silent, stopping, closed>>
      BY <1>8 DEF Next, Hub, Connection, Terminated, vars, chans, run, pumps, Notify, Forward,
         ForwarderStops, HandleRegister, BroadcastBegins, SweepBegins, RunStops, FanOut, Connect,
         ReaderMoves, ReaderGetsPing, ReaderAnswers, ReaderFails, WriterWrites, WriterLeaves
    <2> QED BY <1>1, <1>2, <2>1 DEF LeavingInv, Entries
  <1> QED BY <1>3, <1>4, <1>5, <1>6, <1>7, <1>8

LEMMA LoopNext == TypeOK /\ LeavingInv /\ LoopInv /\ [Next]_vars => LoopInv'
  <1> SUFFICES ASSUME TypeOK, LeavingInv, LoopInv, [Next]_vars PROVE LoopInv'
    OBVIOUS
  <1>1. unregister \in Seq(Clients)
    BY DEF TypeOK
  <1>2. CASE HandleRegister \/ HandleUnregister \/ RunStops
    BY <1>2 DEF HandleRegister, HandleUnregister, RunStops, LoopInv, run
  <1>3. CASE BroadcastBegins
    BY <1>3 DEF BroadcastBegins, LoopInv
  <1>4. CASE SweepBegins
    BY <1>4 DEF SweepBegins, LoopInv, chans, pumps, Entries
  <1>5. ASSUME NEW c \in Clients, FanOut(c) PROVE LoopInv'
    BY <1>5 DEF FanOut, LeaveTarget, LoopInv
  <1>6. ASSUME NEW c \in Clients, Sweep(c) PROVE LoopInv'
    <2>1. Entries(unregister') = Entries(unregister) \union {c}
      BY <1>1, <1>6, AppendEntries DEF Sweep
    <2> QED BY <1>6, <2>1 DEF Sweep, LeaveTarget, LoopInv
  <1>7. ASSUME NEW c \in Clients, ReaderLeaves(c) PROVE LoopInv'
    <2>1. Entries(unregister') = Entries(unregister) \union {c}
      BY <1>1, <1>7, AppendEntries DEF ReaderLeaves
    <2>2. c \notin silent /\ UNCHANGED <<loop, targets, clients, silent, stopping>>
      BY <1>7 DEF ReaderLeaves, ReaderMoves, LeavingInv, run
    <2> QED BY <2>1, <2>2 DEF LoopInv
  <1>8. ASSUME NEW c \in Clients, Silence(c) PROVE LoopInv'
    BY <1>8 DEF Silence, LoopInv, run, chans, Entries
  <1>9. CASE ShutdownSignals \/ ShutdownCloses
    BY <1>9 DEF ShutdownSignals, ShutdownCloses, LoopInv, run, chans, pumps, Entries
  <1>10. CASE ~(\/ Hub \/ ShutdownSignals \/ ShutdownCloses
                \/ \E c \in Clients : ReaderLeaves(c) \/ Silence(c))
    <2>1. UNCHANGED <<loop, targets, unregister, clients, silent, stopping>>
      BY <1>10 DEF Next, Connection, Terminated, vars, chans, run, pumps, Notify, Forward,
         ForwarderStops, Connect, ReaderMoves, ReaderGetsPing, ReaderAnswers, ReaderFails,
         WriterWrites, WriterLeaves
    <2> QED BY <2>1 DEF LoopInv, Entries
  <1> QED BY <1>2, <1>3, <1>4, <1>5, <1>6, <1>7, <1>8, <1>9, <1>10 DEF Hub

\* A registration adds a client the map does not have, an unregistration takes away one
\* it has, and each moves totalClients with the map.
LEMMA MapNext == TypeOK /\ RegisterInv /\ MapConsistent /\ [Next]_vars => MapConsistent'
  <1> SUFFICES ASSUME TypeOK, RegisterInv, MapConsistent, [Next]_vars PROVE MapConsistent'
    OBVIOUS
  <1>1. IsFiniteSet(clients) /\ Cardinality(clients) \in Nat
    BY FS_Subset, FS_CardinalityType, HubAssumption DEF TypeOK, HubAssumption
  <1>2. CASE HandleRegister
    <2>1. register \in Seq(Clients) /\ register # <<>>
      BY <1>2 DEF HandleRegister, TypeOK
    <2>2. Head(register) \notin clients \union closed
      BY <2>1, TailEntries DEF RegisterInv
    <2>3. Cardinality(clients \union {Head(register)}) = Cardinality(clients) + 1
      BY <1>1, <2>2, FS_AddElement
    <2>4. /\ clients' = clients \union {Head(register)} /\ closed' = closed
          /\ total' = total + 1 /\ stopping' = stopping
      BY <1>2 DEF HandleRegister
    <2> QED BY <1>1, <2>2, <2>3, <2>4 DEF MapConsistent
  <1>3. CASE HandleUnregister
    <2> DEFINE h == Head(unregister)
    <2>1. Cardinality(clients \ {h}) = IF h \in clients THEN Cardinality(clients) - 1 ELSE Cardinality(clients)
      BY <1>1, FS_RemoveElement
    <2>2. /\ clients' = clients \ {h} /\ closed' = closed \union (clients \cap {h})
          /\ total' = (IF h \in clients THEN total - 1 ELSE total) /\ stopping' = stopping
      BY <1>3 DEF HandleUnregister
    <2> HIDE DEF h
    <2> QED BY <1>1, <2>1, <2>2 DEF MapConsistent
  <1>4. CASE ShutdownCloses
    BY <1>4 DEF ShutdownCloses, MapConsistent
  <1>5. CASE ShutdownSignals
    BY <1>5 DEF ShutdownSignals, MapConsistent
  <1>6. CASE ~(HandleRegister \/ HandleUnregister \/ ShutdownSignals \/ ShutdownCloses)
    <2>1. UNCHANGED <<clients, closed, total, stopping>>
      BY <1>6 DEF Next, Hub, Connection, Terminated, vars, chans, run, pumps, Notify, Forward,
         ForwarderStops, BroadcastBegins, SweepBegins, RunStops, FanOut, Sweep, Connect,
         ReaderMoves, ReaderGetsPing, ReaderAnswers, ReaderFails, ReaderLeaves,
         WriterWrites, WriterLeaves, Silence
    <2> QED BY <2>1 DEF MapConsistent
  <1> QED BY <1>2, <1>3, <1>4, <1>5, <1>6

\* Until Shutdown, a fan-out sends to clients of the map, which are open, and a readPump
\* that answers is not among the closed.
LEMMA PanicNext ==
    /\ TypeOK /\ LeavingInv /\ LoopInv /\ MapConsistent /\ PanicOnlyAtShutdown
    /\ [Next]_vars
    => PanicOnlyAtShutdown'
  <1> SUFFICES ASSUME TypeOK, LeavingInv, LoopInv, MapConsistent, PanicOnlyAtShutdown, [Next]_vars
               PROVE  PanicOnlyAtShutdown'
    OBVIOUS
  <1>1. ASSUME NEW c \in Clients, FanOut(c) PROVE PanicOnlyAtShutdown'
    <2>1. stopping = "no" => c \notin closed
      BY <1>1 DEF FanOut, LeaveTarget, LoopInv, MapConsistent
    <2> QED BY <1>1, <2>1 DEF FanOut, PanicOnlyAtShutdown
  <1>2. ASSUME NEW c \in Clients, ReaderAnswers(c) PROVE PanicOnlyAtShutdown'
    <2>1. stopping = "no" => c \notin closed
      BY <1>2 DEF ReaderAnswers, ReaderMoves, LeavingInv
    <2> QED BY <1>2, <2>1 DEF ReaderAnswers, ReaderMoves, PanicOnlyAtShutdown
  <1>3. CASE ShutdownSignals \/ ShutdownCloses
    BY <1>3 DEF ShutdownSignals, ShutdownCloses, PanicOnlyAtShutdown
  <1>4. CASE ~(\/ ShutdownSignals \/ ShutdownCloses
               \/ \E c \in Clients : FanOut(c) \/ ReaderAnswers(c))
    <2>1. UNCHANGED <<panicked, stopping>>
      BY <1>4 DEF Next, Hub, Connection, Terminated, vars, chans, run, pumps, Notify, Forward,
         ForwarderStops, HandleRegister, HandleUnregister, BroadcastBegins, SweepBegins, RunStops,
         Sweep, Connect, ReaderMoves, ReaderGetsPing, ReaderFails, ReaderLeaves,
         WriterWrites, WriterLeaves, Silence
    <2> QED BY <2>1 DEF PanicOnlyAtShutdown
  <1> QED BY <1>1, <1>2, <1>3, <1>4

-----------------------------------------------------------------------------
(***************************************************************************)
(* The order of delivery.                                                  *)
(***************************************************************************)

\* The entries of the channels are notifications, and those of send answers, too.
LEMMA StageTypes ==
    ASSUME TypeOK
    PROVE  /\ Entries(broadcast) \subseteq Notes /\ Entries(notify) \subseteq Notes
           /\ \A c \in Clients : /\ Entries(send[c]) \subseteq Notes \union {Pong}
                                 /\ Entries(delivered[c]) \subseteq Notes
                                 /\ Given(c) \subseteq Notes
  BY ElementOfSeq DEF TypeOK, Entries, Given

\* What is put into send after everything given before keeps the order there.
LEMMA SendOrdered ==
    ASSUME TypeOK, OrderInv, NEW c \in Clients, NEW x \in Notes \union {Pong},
           x # Pong => \A y \in Given(c) : y[2] < x[2]
    PROVE  /\ Ordered(Append(send[c], x))
           /\ Entries(Append(send[c], x)) = Entries(send[c]) \union {x}
  <1>1. send[c] \in Seq(Notes \union {Pong}) /\ Ordered(send[c])
    BY DEF TypeOK, OrderInv, ConnectionOrder
  <1>2. x # Pong => \A y \in Entries(send[c]) \ {Pong} : y[2] < x[2]
    BY DEF Given
  <1> QED BY <1>1, <1>2, AppendOrdered, AppendEntries

LEMMA OrderNext == TypeOK /\ OrderInv /\ [Next]_vars => OrderInv'
  <1> SUFFICES ASSUME TypeOK, OrderInv, [Next]_vars PROVE OrderInv'
    OBVIOUS
  <1>0. /\ count \in Nat /\ MaxNotes \in Nat
        /\ ChannelOrder /\ (\A c \in Clients : ConnectionOrder(c)) /\ FanOutOrder
    BY HubAssumption DEF TypeOK, HubAssumption, OrderInv
  <1>1. ASSUME NEW u \in Users, Notify(u) PROVE OrderInv'
    <2> DEFINE new == <<u, count'>>
    <2>1. /\ count' = count + 1 /\ new \in Notes /\ new[2] = count'
          /\ UNCHANGED <<broadcast, loop, note, targets, send, delivered>>
      BY <1>0, <1>1, NotesFacts DEF Notify, run
    <2>2. /\ Ordered(notify') /\ Entries(notify') \subseteq Entries(notify) \union {new}
      <3>1. CASE notify' = notify
        BY <1>0, <3>1 DEF ChannelOrder
      <3>2. CASE notify' = Append(notify, new)
        <4>1. \A y \in Entries(notify) \ {Pong} : y[2] < new[2]
          BY <1>0, <2>1, StageTypes, NotesFacts DEF ChannelOrder, Ahead
        <4>2. notify \in Seq(Notes) /\ Ordered(notify)
          BY <1>0 DEF TypeOK, ChannelOrder
        <4> HIDE DEF new
        <4> QED BY <2>1, <3>2, <4>1, <4>2, AppendOrdered, AppendEntries
      <3> QED BY <1>1, <3>1, <3>2 DEF Notify
    <2> HIDE DEF new
    <2>3. /\ Entries(broadcast') = Entries(broadcast) /\ Ahead' \subseteq Ahead \union {new}
          /\ \A c \in Clients : /\ Given(c)' = Given(c)
                                /\ Entries(delivered'[c]) = Entries(delivered[c])
                                /\ Entries(send'[c]) = Entries(send[c])
      BY <2>1, <2>2 DEF Given, Ahead, Entries
    <2>4. \A x \in Ahead : x[2] <= count /\ x[2] \in Nat
      BY <1>0, StageTypes, NotesFacts DEF ChannelOrder, Ahead
    <2>5. ChannelOrder'
      BY <1>0, <2>1, <2>2, <2>3, <2>4 DEF ChannelOrder, Ahead
    <2>6. ASSUME NEW c \in Clients PROVE ConnectionOrder(c)'
      <3>1. \A x \in Given(c) : x[2] <= count /\ x[2] \in Nat
        BY <1>0, StageTypes, NotesFacts DEF ConnectionOrder
      <3> QED BY <1>0, <2>1, <2>3, <3>1 DEF ConnectionOrder
    <2>7. FanOutOrder'
      <3>1. note \in Notes => note[2] \in Nat
        BY NotesFacts
      <3>2. targets \subseteq Clients
        BY DEF TypeOK
      <3> QED BY <1>0, <2>1, <2>3, <3>1, <3>2 DEF FanOutOrder
    <2> QED BY <2>5, <2>6, <2>7 DEF OrderInv
  <1>2. CASE Forward
    <2>1. /\ notify \in Seq(Notes) /\ notify # <<>> /\ notify' = Tail(notify) /\ Head(notify) \in Notes
          /\ UNCHANGED <<loop, note, targets, send, delivered, count>>
      BY <1>2, HeadTailProperties DEF Forward, TypeOK, run
    <2>2. /\ Ordered(notify') /\ Entries(notify) = {Head(notify)} \union Entries(notify')
          /\ \A y \in Entries(notify') \ {Pong} : Head(notify)[2] < y[2]
      BY <1>0, <2>1, TailOrdered, TailEntries, NotesFacts DEF ChannelOrder
    <2>3. /\ Ordered(broadcast')
          /\ Entries(broadcast') \subseteq Entries(broadcast) \union {Head(notify)}
      <3>1. CASE broadcast' = broadcast
        BY <1>0, <3>1 DEF ChannelOrder
      <3>2. CASE broadcast' = Append(broadcast, Head(notify))
        <4>1. \A y \in Entries(broadcast) \ {Pong} : y[2] < Head(notify)[2]
          BY <1>0, <2>2 DEF ChannelOrder
        <4>2. broadcast \in Seq(Notes) /\ Ordered(broadcast)
          BY <1>0 DEF TypeOK, ChannelOrder
        <4> QED BY <2>1, <3>2, <4>1, <4>2, AppendOrdered, AppendEntries
      <3> QED BY <1>2, <3>1, <3>2 DEF Forward
    <2>4. /\ Ahead' \subseteq Ahead
          /\ \A c \in Clients : /\ Given(c)' = Given(c)
                                /\ Entries(delivered'[c]) = Entries(delivered[c])
                                /\ Entries(send'[c]) = Entries(send[c])
      BY <2>1, <2>2, <2>3 DEF Given, Ahead, Entries
    <2>5. ChannelOrder'
      <3>1. \A x \in Entries(broadcast'), y \in Entries(notify') : x[2] < y[2]
        BY <1>0, <2>2, <2>3, StageTypes, NotesFacts DEF ChannelOrder
      <3> QED BY <1>0, <2>1, <2>2, <2>3, <2>4, <3>1 DEF ChannelOrder
    <2>6. ASSUME NEW c \in Clients PROVE ConnectionOrder(c)'
      BY <1>0, <2>1, <2>4 DEF ConnectionOrder
    <2>7. FanOutOrder'
      <3>1. targets \subseteq Clients
        BY DEF TypeOK
      <3> QED BY <1>0, <2>1, <2>4, <3>1 DEF FanOutOrder
    <2> QED BY <2>5, <2>6, <2>7 DEF OrderInv
  <1>3. CASE BroadcastBegins
    <2>1. /\ broadcast \in Seq(Notes) /\ broadcast # <<>> /\ broadcast' = Tail(broadcast)
          /\ Head(broadcast) \in Notes /\ note' = Head(broadcast)
          /\ targets' = {c \in clients : UserOf(c) = Head(broadcast)[1]}
          /\ UNCHANGED <<notify, send, delivered, count>>
      BY <1>3, HeadTailProperties DEF BroadcastBegins, TypeOK
    <2>2. /\ Ordered(broadcast') /\ Entries(broadcast) = {Head(broadcast)} \union Entries(broadcast')
          /\ \A y \in Entries(broadcast') \ {Pong} : Head(broadcast)[2] < y[2]
      BY <1>0, <2>1, TailOrdered, TailEntries, NotesFacts DEF ChannelOrder
    <2>3. /\ Entries(notify') = Entries(notify) /\ Ahead = {Head(broadcast)} \union Ahead'
          /\ \A c \in Clients : /\ Given(c)' = Given(c)
                                /\ Entries(delivered'[c]) = Entries(delivered[c])
                                /\ Entries(send'[c]) = Entries(send[c])
      BY <2>1, <2>2 DEF Given, Ahead, Entries
    <2>4. ChannelOrder'
      BY <1>0, <2>1, <2>2, <2>3 DEF ChannelOrder
    <2>5. ASSUME NEW c \in Clients PROVE ConnectionOrder(c)'
      BY <1>0, <2>1, <2>3 DEF ConnectionOrder
    <2>6. FanOutOrder'
      <3>1. \A y \in Ahead' : note'[2] < y[2]
        BY <1>0, <2>1, <2>2, <2>3, StageTypes, NotesFacts DEF ChannelOrder, Ahead
      <3>2. \A c \in targets' : /\ c \in Clients /\ note'[1] = UserOf(c)
                                /\ \A x \in Given(c) : x[2] < note'[2]
        BY <1>0, <2>1, <2>3 DEF ConnectionOrder, TypeOK
      <3>3. note' \in Notes /\ note'[2] <= count'
        BY <1>0, <2>1, <2>3 DEF ChannelOrder
      <3> QED BY <2>3, <3>1, <3>2, <3>3 DEF FanOutOrder
    <2> QED BY <2>4, <2>5, <2>6 DEF OrderInv
  <1>4. ASSUME NEW c \in Clients, FanOut(c) PROVE OrderInv'
    <2>1. /\ loop = "fanout" /\ c \in targets /\ targets' = targets \ {c} /\ targets \subseteq Clients
          /\ UNCHANGED <<notify, broadcast, note, delivered, count>>
      BY <1>4 DEF FanOut, LeaveTarget, chans, TypeOK
    <2>2. /\ note \in Notes /\ note[2] <= count /\ note[1] = UserOf(c)
          /\ \A y \in Ahead : note[2] < y[2]
          /\ \A x \in Given(c) : x[2] < note[2]
      BY <1>0, <2>1 DEF FanOutOrder
    <2>3. /\ Ahead' = Ahead /\ Entries(broadcast') = Entries(broadcast)
          /\ Entries(notify') = Entries(notify)
          /\ \A d \in Clients : Entries(delivered'[d]) = Entries(delivered[d])
      BY <2>1 DEF Ahead, Entries
    <2>4. /\ Ordered(send'[c]) /\ Entries(send'[c]) \subseteq Entries(send[c]) \union {note}
          /\ \A d \in Clients \ {c} : send'[d] = send[d]
      <3>1. CASE send' = send
        BY <1>0, <3>1 DEF ConnectionOrder
      <3>2. CASE send' = [send EXCEPT ![c] = Append(@, note)]
        BY <2>2, <3>2, SendOrdered, NotesFacts DEF TypeOK
      <3> QED BY <1>4, <3>1, <3>2 DEF FanOut
    <2>5. /\ Given(c)' \subseteq Given(c) \union {note}
          /\ \A d \in Clients \ {c} : Given(d)' = Given(d) /\ Entries(send'[d]) = Entries(send[d])
      BY <2>3, <2>4 DEF Given
    <2>6. ChannelOrder'
      BY <1>0, <2>1, <2>3 DEF ChannelOrder
    <2>7. ASSUME NEW d \in Clients \ {c} PROVE ConnectionOrder(d)'
      BY <1>0, <2>1, <2>3, <2>4, <2>5 DEF ConnectionOrder
    <2>8. ConnectionOrder(c)'
      <3>1. \A x \in Entries(delivered'[c]), y \in Entries(send'[c]) \ {Pong} : x[2] < y[2]
        BY <1>0, <2>2, <2>3, <2>4 DEF ConnectionOrder, Given
      <3> QED BY <1>0, <2>1, <2>2, <2>3, <2>4, <2>5, <3>1 DEF ConnectionOrder
    <2>9. FanOutOrder'
      BY <1>0, <2>1, <2>3, <2>5 DEF FanOutOrder
    <2> QED BY <2>6, <2>7, <2>8, <2>9 DEF OrderInv
  <1>5. ASSUME NEW c \in Clients, ReaderAnswers(c) PROVE OrderInv'
    <2>1. UNCHANGED <<notify, broadcast, loop, note, targets, delivered, count>>
      BY <1>5 DEF ReaderAnswers, ReaderMoves, run
    <2>2. \A d \in Clients : Ordered(send'[d]) /\ Entries(send'[d]) \ {Pong} = Entries(send[d]) \ {Pong}
      <3>1. CASE send' = send
        BY <1>0, <3>1 DEF ConnectionOrder
      <3>2. CASE send' = [send EXCEPT ![c] = Append(@, Pong)]
        <4>1. Ordered(send'[c]) /\ Entries(send'[c]) = Entries(send[c]) \union {Pong}
          BY <3>2, SendOrdered DEF TypeOK
        <4>2. \A d \in Clients \ {c} : send'[d] = send[d]
          BY <3>2 DEF TypeOK
        <4> QED BY <1>0, <4>1, <4>2 DEF ConnectionOrder
      <3> QED BY <1>5, <3>1, <3>2 DEF ReaderAnswers
    <2>3. /\ Ahead' = Ahead /\ Entries(broadcast') = Entries(broadcast)
          /\ Entries(notify') = Entries(notify)
          /\ \A d \in Clients : Entries(delivered'[d]) = Entries(delivered[d]) /\ Given(d)' = Given(d)
      BY <2>1, <2>2 DEF Ahead, Given, Entries
    <2>4. ChannelOrder'
      BY <1>0, <2>1, <2>3 DEF ChannelOrder
    <2>5. ASSUME NEW d \in Clients PROVE ConnectionOrder(d)'
      BY <1>0, <2>1, <2>2, <2>3 DEF ConnectionOrder
    <2>6. FanOutOrder'
      <3>1. targets \subseteq Clients
        BY DEF TypeOK
      <3> QED BY <1>0, <2>1, <2>3, <3>1 DEF FanOutOrder
    <2> QED BY <2>4, <2>5, <2>6 DEF OrderInv
  <1>6. ASSUME NEW c \in Clients, WriterWrites(c) PROVE OrderInv'
    <2>1. /\ send[c] # <<>> /\ send[c] \in Seq(Notes \union {Pong}) /\ Head(send[c]) \in Notes \union {Pong}
          /\ send' = [send EXCEPT ![c] = Tail(@)]
          /\ UNCHANGED <<notify, broadcast, loop, note, targets, count>>
      BY <1>6, HeadTailProperties DEF WriterWrites, TypeOK, chans, run
    <2>2. /\ Ordered(send'[c]) /\ Entries(send[c]) = {Head(send[c])} \union Entries(send'[c])
          /\ Head(send[c]) # Pong => \A y \in Entries(send'[c]) \ {Pong} : Head(send[c])[2] < y[2]
      <3>1. Ordered(send[c]) /\ send'[c] = Tail(send[c])
        BY <1>0, <2>1 DEF ConnectionOrder, TypeOK
      <3> QED BY <2>1, <3>1, TailOrdered, TailEntries
    <2>3. \A d \in Clients \ {c} : send'[d] = send[d] /\ delivered'[d] = delivered[d]
      BY <1>6, <2>1 DEF WriterWrites, TypeOK
    <2>4. Ahead' = Ahead /\ Entries(broadcast') = Entries(broadcast) /\ Entries(notify') = Entries(notify)
      BY <2>1 DEF Ahead, Entries
    <2>5. /\ Ordered(delivered'[c]) /\ Given(c)' \subseteq Given(c)
          /\ \A x \in Entries(delivered'[c]), y \in Entries(send'[c]) \ {Pong} : x[2] < y[2]
      <3>1. CASE Head(send[c]) = Pong
        <4>1. delivered' = delivered
          BY <1>6, <3>1 DEF WriterWrites
        <4> QED BY <1>0, <2>2, <4>1 DEF ConnectionOrder, Given
      <3>2. CASE Head(send[c]) # Pong
        <4>1. delivered'[c] = Append(delivered[c], Head(send[c])) /\ delivered[c] \in Seq(Notes)
          BY <1>6, <3>2 DEF WriterWrites, TypeOK
        <4>2. Ordered(delivered[c]) /\ \A x \in Entries(delivered[c]) : x[2] < Head(send[c])[2]
          BY <1>0, <2>2, <3>2 DEF ConnectionOrder
        <4>3. /\ Ordered(delivered'[c])
              /\ Entries(delivered'[c]) = Entries(delivered[c]) \union {Head(send[c])}
          BY <2>1, <3>2, <4>1, <4>2, AppendOrdered, AppendEntries
        <4>4. Given(c)' \subseteq Given(c)
          BY <2>2, <3>2, <4>3 DEF Given
        <4> QED BY <1>0, <2>2, <3>2, <4>3, <4>4 DEF ConnectionOrder
      <3> QED BY <3>1, <3>2
    <2>6. \A d \in Clients : Given(d)' \subseteq Given(d)
      BY <2>3, <2>5 DEF Given
    <2>7. ChannelOrder'
      BY <1>0, <2>1, <2>4 DEF ChannelOrder
    <2>8. ASSUME NEW d \in Clients PROVE ConnectionOrder(d)'
      BY <1>0, <2>1, <2>2, <2>3, <2>4, <2>5, <2>6 DEF ConnectionOrder
    <2>9. FanOutOrder'
      <3>1. targets \subseteq Clients
        BY DEF TypeOK
      <3> QED BY <1>0, <2>1, <2>4, <2>6, <3>1 DEF FanOutOrder
    <2> QED BY <2>7, <2>8, <2>9 DEF OrderInv
  <1>7. CASE SweepBegins \/ RunStops \/ \E c \in Clients : Sweep(c)
    <2>1. UNCHANGED <<notify, broadcast, send, delivered, count>>
      BY <1>7 DEF SweepBegins, RunStops, Sweep, chans
    <2>2. loop' # "fanout"
      BY <1>7 DEF SweepBegins, RunStops, Sweep, LeaveTarget
    <2> QED BY <1>0, <2>1, <2>2 DEF OrderInv, ChannelOrder, ConnectionOrder, FanOutOrder, Given, Ahead
  <1>8. CASE ~(\/ Forward \/ BroadcastBegins \/ SweepBegins \/ RunStops
               \/ \E u \in Users : Notify(u)
               \/ \E c \in Clients : FanOut(c) \/ Sweep(c) \/ ReaderAnswers(c) \/ WriterWrites(c))
    <2>1. UNCHANGED <<notify, broadcast, loop, note, targets, send, delivered, count>>
      BY <1>8 DEF Next, Hub, Connection, Terminated, vars, chans, run, pumps, ForwarderStops,
         HandleRegister, HandleUnregister, Connect, ReaderMoves, ReaderGetsPing, ReaderFails,
         ReaderLeaves, WriterLeaves, Silence, ShutdownSignals, ShutdownCloses
    <2> QED BY <1>0, <2>1 DEF OrderInv, ChannelOrder, ConnectionOrder, FanOutOrder, Given, Ahead
  <1> QED BY <1>1, <1>2, <1>3, <1>4, <1>5, <1>6, <1>7, <1>8

-----------------------------------------------------------------------------

LEMMA Invariance == Spec => []IInv
  <1>1. IInv /\ [Next]_vars => IInv'
    BY TypeNext, RegisterNext, LeavingNext, LoopNext, MapNext, PanicNext, OrderNext DEF IInv
  <1> QED BY InitIInv, <1>1, PTL DEF Spec

\* Type correctness: no channel of the hub or of a client ever exceeds its capacity.
THEOREM TypeCorrect == Spec => []TypeOK
  <1>1. IInv => TypeOK
    BY DEF IInv
  <1> QED BY Invariance, <1>1, PTL

\* A client of the map has an open send channel, and until Shutdown totalClients counts
\* the map, in whatever order registrations, departures and sweeps are handled.
THEOREM MapStaysConsistent == Spec => []MapConsistent
  <1>1. IInv => MapConsistent
    BY DEF IInv
  <1> QED BY Invariance, <1>1, PTL

\* No send hits a closed channel before Shutdown has begun.
THEOREM NoPanicBeforeShutdown == Spec => []PanicOnlyAtShutdown
  <1>1. IInv => PanicOnlyAtShutdown
    BY DEF IInv
  <1> QED BY Invariance, <1>1, PTL

\* A connection is written only what its own user is notified of, once and in order.
THEOREM DeliveredInOrder == Spec => []OrderedDelivery
  <1>1. IInv => OrderedDelivery
    <2> SUFFICES ASSUME IInv, NEW c \in Clients, NEW i \in 1 .. Len(delivered[c])
                 PROVE  /\ delivered[c][i][1] = UserOf(c)
                        /\ i > 1 => delivered[c][i - 1][2] < delivered[c][i][2]
      BY DEF OrderedDelivery
    <2>1. Ordered(delivered[c]) /\ \A x \in Given(c) : x[1] = UserOf(c)
      BY DEF IInv, OrderInv, ConnectionOrder
    <2>2. delivered[c][i] \in Given(c)
      BY DEF Given, Entries
    <2>3. delivered[c] \in Seq(Notes) /\ Len(delivered[c]) \in Nat
      BY DEF IInv, TypeOK
    <2>4. ASSUME i > 1 PROVE delivered[c][i - 1][2] < delivered[c][i][2]
      <3>1. i - 1 \in 1 .. Len(delivered[c]) /\ i - 1 < i
        BY <2>3, <2>4
      <3>2. delivered[c][i - 1] # Pong /\ delivered[c][i] # Pong
        BY <2>3, <3>1, ElementOfSeq, NotesFacts
      <3> QED BY <2>1, <3>1, <3>2 DEF Ordered
    <2> QED BY <2>1, <2>2, <2>4
  <1> QED BY Invariance, <1>1, PTL

\* With no more connections than unregister holds, the sweep finds room for each of its
\* targets: the requests that wait are of other connections, each one's at most once.
THEOREM SweepHasRoom == Spec => []SweepNeverBlocks
  <1>1. IInv => SweepNeverBlocks
    <2> SUFFICES ASSUME IInv, loop = "sweep", Cardinality(Authenticated) <= UnregisterCap
                 PROVE  Len(unregister) < UnregisterCap
      BY DEF SweepNeverBlocks
    <2> DEFINE n    == Len(unregister)
               rest == Entries(unregister)
    <2>1. unregister \in Seq(Clients) /\ n \in Nat /\ Distinct(unregister)
      BY DEF IInv, TypeOK, LeavingInv
    <2>2. PICK c \in targets : TRUE
      BY DEF IInv, LoopInv
    <2>3. /\ c \in Authenticated /\ c \notin rest
          /\ rest \subseteq Authenticated
      <3>1. \A d \in Clients : reader[d] = "gone" => d \in Authenticated
        BY DEF IInv, RegisterInv
      <3>2. \A d \in rest \union {c} : d \in Clients /\ reader[d] = "gone"
        BY <2>1, ElementOfSeq DEF IInv, TypeOK, LoopInv, LeavingInv, Entries
      <3>3. c \notin rest
        BY <2>2 DEF IInv, LoopInv
      <3> QED BY <3>1, <3>2, <3>3
    <2>4. IsFiniteSet(Authenticated) /\ Cardinality(Authenticated) \in Nat
      BY FS_Subset, FS_CardinalityType, HubAssumption DEF HubAssumption, Authenticated
    <2>5. /\ IsFiniteSet(Authenticated \ {c})
          /\ Cardinality(Authenticated \ {c}) = Cardinality(Authenticated) - 1
      BY <2>3, <2>4, FS_RemoveElement
    <2>6. unregister \in Injection(1 .. n, Authenticated \ {c})
      <3>1. unregister \in [1 .. n -> Authenticated \ {c}]
        BY <2>1, <2>3, LenProperties DEF Entries
      <3> QED BY <2>1, <3>1 DEF Injection, IsInjective, Distinct
    <2>7. Cardinality(1 .. n) <= Cardinality(Authenticated \ {c})
      BY <2>5, <2>6, FS_Injection
    <2>8. Cardinality(1 .. n) = n
      BY <2>1, FS_Interval
    <2> QED BY <2>1, <2>4, <2>5, <2>7, <2>8, HubAssumption DEF HubAssumption
  <1> QED BY Invariance, <1>1, PTL
=============================================================================
