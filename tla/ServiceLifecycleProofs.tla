------------------------ MODULE ServiceLifecycleProofs ------------------------
(***************************************************************************)
(* Proofs about ServiceLifecycle and MailSender, for any senders, number   *)
(* of attempts and size of the pool: type correctness, that an SMTP        *)
(* connection has one user, that Shutdown closes nothing under a mail that *)
(* is being sent, that only an attempt given up on can panic, and what     *)
(* /ready answers meanwhile.                                               *)
(***************************************************************************)
EXTENDS ServiceLifecycle, FiniteSetTheorems, TLAPS

\* The attempts that Send has not come to yet: the next one is to be launched when
\* Send is between two, and the present one is under way when Send waits.
LaterAttemptsWait ==
    \A s \in Senders, n \in 1 .. MaxRetries :
        \/ spc[s] \in {"idle", "start"} /\ n >= try[s]
        \/ spc[s] = "wait" /\ n > try[s]
        => apc[<<s, n>>] = "none"

\* An attempt holds a connection while it talks to the server, and only then.
HeldWhileUsed ==
    \A a \in Attempts : conn[a] # NoConn <=> apc[a] \in {"smtp", "back"}

\* The connection an attempt may still dial exists nowhere yet.
UndialledIsNowhere ==
    \A a \in Attempts : apc[a] \in {"none", "get", "dial"} =>
        a \notin pooled /\ \A b \in Attempts : conn[b] # a

MailInv ==
    /\ MailTypeOK /\ IsFiniteSet(pooled)
    /\ LaterAttemptsWait /\ HeldWhileUsed /\ UndialledIsNowhere /\ OneUserPerConnection

Closing == {"producer", "db", "tracer", "metrics", "exited"}

\* What is open, by where main is.
OpenedInv ==
    /\ phase = "config" => opened = {}
    /\ phase = "boot" /\ "consumer" \in opened => opened = Resources
    /\ phase \in {"wired", "running", "hub"} => opened = Resources
    /\ phase = "consumer" =>
           opened \in {Resources \ {"hub"}, Resources \ {"hub", "consumer"}}
    /\ phase \in {"server", "mail"} => opened = Resources \ {"hub", "consumer"}
    /\ phase \in Closing => "consumer" \notin opened
    /\ phase = "aborted" /\ "consumer" \in opened => Resources \ opened \subseteq {"hub"}

\* The gRPC server accepts requests from Start to Shutdown only, and the server phase
\* of Shutdown is where its draining happens.
ServingInv ==
    /\ grpc = "stopping" => phase = "server"
    /\ grpc \in {"starting", "serving"} => phase \in {"running", "hub", "consumer", "server"}
    /\ grpc = "missed" => phase \in {"mail", "aborted"} \union Closing

\* When somebody is sending a mail.
SendingInv ==
    /\ \A s \in Workers : Active(s) => phase \in {"running", "hub", "consumer", "aborted"}
    /\ \A s \in Senders \ Workers :
           Active(s) => grpc \in {"serving", "stopping"} \/ phase = "aborted"

\* When the pool is closed, and what has died by that.
ClosedInv ==
    /\ closed => phase \in Closing \union {"aborted"}
    /\ panicked => closed /\ phase \in Closing \ {"exited"}

LifeInv == phase \in Phases /\ opened \subseteq Resources /\ OpenedInv /\ ServingInv /\ SendingInv /\ ClosedInv

IInv == TypeOK /\ MailInv /\ LifeInv /\ PanicOnlyByOrphan

\* A step of the senders, of their attempts, or of the pool.
MailNext ==
    \/ \E s \in Senders : Send(s) \/ RateLimited(s) \/ Sends(s)
    \/ \E a \in Attempts : Attempting(a)
    \/ ClosePool

-----------------------------------------------------------------------------

LEMMA AttemptFacts ==
    /\ MaxRetries \in Nat /\ 1 \in 1 .. MaxRetries
    /\ PoolSize \in Nat
    /\ \A s \in Senders, n \in 1 .. MaxRetries : <<s, n>> \in Attempts
    /\ \A a \in Attempts : a[1] \in Senders /\ a[2] \in 1 .. MaxRetries /\ a = <<a[1], a[2]>>
  BY MailAssumption DEF MailAssumption, Attempts

LEMMA MailInitInv == MailInit => MailInv
  <1> SUFFICES ASSUME MailInit PROVE MailInv
    OBVIOUS
  <1> USE DEF MailInit
  <1>1. IsFiniteSet(pooled) /\ Cardinality(pooled) <= PoolSize
    BY FS_EmptySet, AttemptFacts
  <1>2. MailTypeOK
    BY <1>1, AttemptFacts DEF MailTypeOK, Resting
  <1>3. LaterAttemptsWait
    BY AttemptFacts DEF LaterAttemptsWait
  <1>4. HeldWhileUsed
    BY DEF HeldWhileUsed
  <1>5. UndialledIsNowhere
    BY MailAssumption DEF UndialledIsNowhere, MailAssumption
  <1>6. OneUserPerConnection
    BY DEF OneUserPerConnection
  <1> QED BY <1>1, <1>2, <1>3, <1>4, <1>5, <1>6 DEF MailInv

\* Taking from the pool and putting back keep it within its size.
LEMMA PoolNext ==
    ASSUME MailInv, MailNext
    PROVE  /\ pooled' \subseteq Attempts /\ IsFiniteSet(pooled')
           /\ Cardinality(pooled') <= PoolSize
  <1> USE DEF MailInv, MailTypeOK
  <1>0. Cardinality(pooled) \in Nat /\ PoolSize \in Nat
    BY FS_CardinalityType, AttemptFacts
  <1>1. ASSUME NEW a \in Attempts, GetPooled(a)
        PROVE  /\ pooled' \subseteq Attempts /\ IsFiniteSet(pooled')
               /\ Cardinality(pooled') <= PoolSize
    <2>1. PICK c \in pooled : pooled' = pooled \ {c}
      BY <1>1 DEF GetPooled
    <2>2. IsFiniteSet(pooled \ {c}) /\ Cardinality(pooled \ {c}) = Cardinality(pooled) - 1
      BY FS_RemoveElement
    <2> QED BY <1>0, <2>1, <2>2
  <1>2. ASSUME NEW a \in Attempts, Put(a)
        PROVE  /\ pooled' \subseteq Attempts /\ IsFiniteSet(pooled')
               /\ Cardinality(pooled') <= PoolSize
    <2>1. conn[a] \in Attempts
      BY <1>2 DEF Put, LetsGo, AttemptEnds, AttemptGoto, HeldWhileUsed
    <2>2. CASE Cardinality(pooled) < PoolSize
      <3>1. /\ IsFiniteSet(pooled \cup {conn[a]})
            /\ Cardinality(pooled \cup {conn[a]}) \in {Cardinality(pooled), Cardinality(pooled) + 1}
        BY FS_AddElement
      <3>2. pooled' = pooled \cup {conn[a]}
        BY <1>2, <2>2 DEF Put
      <3> QED BY <1>0, <2>1, <2>2, <3>1, <3>2
    <2>3. CASE ~(Cardinality(pooled) < PoolSize)
      BY <1>2, <2>3 DEF Put
    <2> QED BY <2>2, <2>3
  <1>3. CASE ClosePool
    BY <1>0, <1>3, FS_EmptySet DEF ClosePool
  <1>4. CASE /\ ~ClosePool
             /\ \A a \in Attempts : ~GetPooled(a) /\ ~Put(a)
    <2>1. UNCHANGED pooled
      BY <1>4 DEF MailNext, Sends, Attempting, Send, RateLimited, Launch, Receive, TimesOut,
         GetNone, GetClosed, Panics, Dial, DialFails, Talk, Discard, PutClosed, attempts
    <2> QED BY <2>1
  <1> QED BY <1>1, <1>2, <1>3, <1>4

LEMMA MailTypeNext == ASSUME MailInv, MailNext PROVE MailTypeOK'
  <1> USE DEF MailInv, MailTypeOK
  <1>1. CASE \E s \in Senders : Send(s) \/ RateLimited(s)
    BY <1>1, PoolNext DEF Send, RateLimited, Goto, attempts, Resting
  <1>2. ASSUME NEW s \in Senders, Launch(s) PROVE MailTypeOK'
    BY <1>2, PoolNext DEF Launch, Goto, Resting
  <1>3. ASSUME NEW s \in Senders, Receive(s) \/ TimesOut(s) PROVE MailTypeOK'
    <2>1. UNCHANGED <<attempts, closed>>
      BY <1>3 DEF Receive, TimesOut
    <2>2. spc' \in [Senders -> Resting \union {"start", "wait"}] /\ try' \in [Senders -> 1 .. MaxRetries]
      BY <1>3, AttemptFacts DEF Receive, TimesOut, TriesAgain, Goto, Resting
    <2> QED BY <2>1, <2>2, PoolNext DEF attempts
  <1>4. ASSUME NEW a \in Attempts, GetPooled(a) PROVE MailTypeOK'
    <2>1. /\ apc' \in [Attempts -> {"none", "get", "dial", "smtp", "back", "over"}]
          /\ conn' \in [Attempts -> Attempts \union {NoConn}]
      BY <1>4 DEF GetPooled, AttemptGoto
    <2> QED BY <1>4, <2>1, PoolNext DEF GetPooled
  <1>5. ASSUME NEW a \in Attempts, GetNone(a) \/ Talk(a) \/ Dial(a) PROVE MailTypeOK'
    BY <1>5, PoolNext DEF GetNone, Talk, Dial, AttemptGoto
  <1>6. ASSUME NEW a \in Attempts, GetClosed(a) \/ PutClosed(a) PROVE MailTypeOK'
    BY <1>6, PoolNext DEF GetClosed, PutClosed, Panics
  <1>7. ASSUME NEW a \in Attempts, DialFails(a) \/ Put(a) \/ Discard(a) PROVE MailTypeOK'
    <2>1. /\ apc' \in [Attempts -> {"none", "get", "dial", "smtp", "back", "over"}]
          /\ result' \in [Attempts -> {"none", "ok", "error"}]
      BY <1>7 DEF DialFails, Put, Discard, LetsGo, AttemptEnds, AttemptGoto
    <2>2. conn' \in [Attempts -> Attempts \union {NoConn}]
      BY <1>7 DEF DialFails, Put, Discard, LetsGo
    <2>3. UNCHANGED <<spc, try, panicked, closed>>
      BY <1>7 DEF DialFails, Put, Discard
    <2> QED BY <2>1, <2>2, <2>3, PoolNext
  <1>8. CASE ClosePool
    BY <1>8, PoolNext DEF ClosePool
  <1> QED
    BY <1>1, <1>2, <1>3, <1>4, <1>5, <1>6, <1>7, <1>8 DEF MailNext, Sends, Attempting

LEMMA LaterNext == ASSUME MailInv, MailNext PROVE LaterAttemptsWait'
  <1> USE DEF MailInv, MailTypeOK
  <1>1. CASE \E s \in Senders : Send(s) \/ RateLimited(s)
    BY <1>1 DEF Send, RateLimited, Goto, attempts, LaterAttemptsWait
  <1>2. ASSUME NEW s \in Senders, Launch(s) PROVE LaterAttemptsWait'
    <2> SUFFICES ASSUME NEW r \in Senders, NEW n \in 1 .. MaxRetries,
                        \/ spc'[r] \in {"idle", "start"} /\ n >= try'[r]
                        \/ spc'[r] = "wait" /\ n > try'[r]
                 PROVE  apc'[<<r, n>>] = "none"
      BY DEF LaterAttemptsWait
    <2>1. <<r, n>> # This(s)
      BY <1>2, AttemptFacts DEF Launch, Goto, This
    <2>2. apc'[<<r, n>>] = apc[<<r, n>>]
      BY <1>2, <2>1, AttemptFacts DEF Launch
    <2>3. \/ spc[r] \in {"idle", "start"} /\ n >= try[r]
          \/ spc[r] = "wait" /\ n > try[r]
      BY <1>2, AttemptFacts DEF Launch, Goto
    <2> QED BY <2>2, <2>3 DEF LaterAttemptsWait
  <1>3. ASSUME NEW s \in Senders, Receive(s) \/ TimesOut(s) PROVE LaterAttemptsWait'
    <2> SUFFICES ASSUME NEW r \in Senders, NEW n \in 1 .. MaxRetries,
                        \/ spc'[r] \in {"idle", "start"} /\ n >= try'[r]
                        \/ spc'[r] = "wait" /\ n > try'[r]
                 PROVE  apc'[<<r, n>>] = "none"
      BY DEF LaterAttemptsWait
    <2>1. UNCHANGED apc
      BY <1>3 DEF Receive, TimesOut, attempts
    <2>2. \/ spc[r] \in {"idle", "start"} /\ n >= try[r]
          \/ spc[r] = "wait" /\ n > try[r]
      <3>1. CASE r = s
        <4>1. /\ spc[s] = "wait" /\ spc'[s] \in {"sent", "start", "failed"}
              /\ spc'[s] = "start" => try'[s] = try[s] + 1
          BY <1>3 DEF Receive, TimesOut, TriesAgain, Goto
        <4> QED BY <3>1, <4>1, AttemptFacts
      <3>2. CASE r # s
        BY <1>3, <3>2 DEF Receive, TimesOut, TriesAgain, Goto
      <3> QED BY <3>1, <3>2
    <2> QED BY <2>1, <2>2 DEF LaterAttemptsWait
  <1>4. CASE (\E a \in Attempts : Attempting(a)) \/ ClosePool
    <2>1. UNCHANGED <<spc, try>>
      BY <1>4 DEF Attempting, GetPooled, GetNone, GetClosed, PutClosed, Panics, Dial, DialFails,
         Talk, Put, Discard, ClosePool
    <2>2. \A b \in Attempts : apc[b] = "none" => apc'[b] = "none"
      BY <1>4 DEF Attempting, GetPooled, GetNone, GetClosed, PutClosed, Panics, Dial, DialFails,
         Talk, Put, Discard, ClosePool, LetsGo, AttemptEnds, AttemptGoto
    <2> QED BY <2>1, <2>2, AttemptFacts DEF LaterAttemptsWait
  <1> QED BY <1>1, <1>2, <1>3, <1>4 DEF MailNext, Sends

LEMMA HeldNext == ASSUME MailInv, MailNext PROVE HeldWhileUsed'
  <1> USE DEF MailInv, MailTypeOK
  <1>0. NoConn \notin Attempts
    BY MailAssumption DEF MailAssumption
  <1>1. ASSUME NEW s \in Senders, Launch(s) PROVE HeldWhileUsed'
    <2>1. apc[This(s)] = "none" /\ This(s) \in Attempts
      BY <1>1, AttemptFacts DEF Launch, Goto, LaterAttemptsWait, This
    <2> QED BY <1>1, <2>1 DEF Launch, HeldWhileUsed
  <1>2. ASSUME NEW a \in Attempts, Attempting(a) PROVE HeldWhileUsed'
    <2>1. CASE GetPooled(a)
      BY <1>0, <2>1 DEF GetPooled, AttemptGoto, HeldWhileUsed
    <2>2. CASE GetNone(a) \/ Dial(a) \/ Talk(a)
      BY <1>0, <2>2 DEF GetNone, Dial, Talk, AttemptGoto, HeldWhileUsed
    <2>3. CASE GetClosed(a) \/ PutClosed(a)
      BY <2>3 DEF GetClosed, PutClosed, Panics, HeldWhileUsed
    <2>4. CASE DialFails(a)
      BY <2>4 DEF DialFails, AttemptEnds, AttemptGoto, HeldWhileUsed
    <2>5. CASE Put(a) \/ Discard(a)
      BY <2>5 DEF Put, Discard, LetsGo, AttemptEnds, AttemptGoto, HeldWhileUsed
    <2> QED BY <1>2, <2>1, <2>2, <2>3, <2>4, <2>5 DEF Attempting
  <1>3. CASE /\ \A s \in Senders : ~Launch(s)
             /\ \A a \in Attempts : ~Attempting(a)
    <2>1. UNCHANGED <<apc, conn>>
      BY <1>3 DEF MailNext, Sends, Send, RateLimited, Receive, TimesOut, ClosePool, attempts
    <2> QED BY <2>1 DEF HeldWhileUsed
  <1> QED BY <1>1, <1>2, <1>3

\* A connection comes from a dial or from the pool, and from nowhere else.
LEMMA ConnNext == ASSUME MailInv, MailNext PROVE UndialledIsNowhere' /\ OneUserPerConnection'
  <1> USE DEF MailInv, MailTypeOK
  <1>0. NoConn \notin Attempts
    BY MailAssumption DEF MailAssumption
  <1>1. ASSUME NEW s \in Senders, Launch(s) PROVE UndialledIsNowhere' /\ OneUserPerConnection'
    <2>1. apc[This(s)] = "none" /\ This(s) \in Attempts
      BY <1>1, AttemptFacts DEF Launch, Goto, LaterAttemptsWait, This
    <2> QED BY <1>1, <2>1 DEF Launch, UndialledIsNowhere, OneUserPerConnection
  <1>2. ASSUME NEW a \in Attempts, Attempting(a)
        PROVE  UndialledIsNowhere' /\ OneUserPerConnection'
    <2>1. CASE GetPooled(a)
      <3>1. PICK c \in pooled :
              /\ pooled' = pooled \ {c}
              /\ \/ AttemptGoto(a, "get", "smtp") /\ conn' = [conn EXCEPT ![a] = c]
                 \/ AttemptGoto(a, "get", "dial") /\ UNCHANGED conn
        BY <2>1 DEF GetPooled
      <3>2. \A b \in Attempts : conn[b] # c
        BY <1>0 DEF OneUserPerConnection
      <3>3. \A b \in Attempts : apc'[b] \in {"none", "get", "dial"} => apc[b] \in {"none", "get", "dial"}
        BY <3>1 DEF AttemptGoto
      <3>4. c # NoConn /\ \A b \in Attempts : apc[b] \in {"none", "get", "dial"} => b # c
        BY <1>0 DEF UndialledIsNowhere
      <3>5. UndialledIsNowhere'
        BY <3>1, <3>3, <3>4 DEF UndialledIsNowhere
      <3>6. OneUserPerConnection'
        BY <3>1, <3>2, <3>4 DEF OneUserPerConnection
      <3> QED BY <3>5, <3>6
    <2>2. CASE GetNone(a) \/ Talk(a)
      BY <2>2 DEF GetNone, Talk, AttemptGoto, UndialledIsNowhere, OneUserPerConnection
    <2>3. CASE Dial(a)
      <3>1. /\ conn' = [conn EXCEPT ![a] = a] /\ UNCHANGED pooled
            /\ apc[a] = "dial" /\ apc' = [apc EXCEPT ![a] = "smtp"]
        BY <2>3 DEF Dial, AttemptGoto
      <3>2. a \notin pooled /\ \A b \in Attempts : conn[b] # a
        BY <3>1 DEF UndialledIsNowhere
      <3>3. UndialledIsNowhere'
        BY <3>1 DEF UndialledIsNowhere
      <3>4. OneUserPerConnection'
        BY <3>1, <3>2 DEF OneUserPerConnection
      <3> QED BY <3>3, <3>4
    <2>4. CASE GetClosed(a) \/ PutClosed(a)
      BY <2>4 DEF GetClosed, PutClosed, Panics, UndialledIsNowhere, OneUserPerConnection
    <2>5. CASE DialFails(a)
      BY <2>5 DEF DialFails, AttemptEnds, AttemptGoto, UndialledIsNowhere, OneUserPerConnection
    <2>6. CASE Put(a) \/ Discard(a)
      <3>1. /\ apc[a] = "back" /\ apc' = [apc EXCEPT ![a] = "over"]
            /\ conn' = [conn EXCEPT ![a] = NoConn]
            /\ pooled' \subseteq pooled \union {conn[a]}
        BY <2>6 DEF Put, Discard, LetsGo, AttemptEnds, AttemptGoto
      <3>2. conn[a] # NoConn
        BY <3>1 DEF HeldWhileUsed
      <3>3. UndialledIsNowhere'
        BY <1>0, <3>1 DEF UndialledIsNowhere
      <3>4. OneUserPerConnection'
        BY <3>1, <3>2 DEF OneUserPerConnection
      <3> QED BY <3>3, <3>4
    <2> QED BY <1>2, <2>1, <2>2, <2>3, <2>4, <2>5, <2>6 DEF Attempting
  <1>3. CASE /\ \A s \in Senders : ~Launch(s)
             /\ \A a \in Attempts : ~Attempting(a)
    <2>1. UNCHANGED <<apc, conn>> /\ pooled' \subseteq pooled
      BY <1>3 DEF MailNext, Sends, Send, RateLimited, Receive, TimesOut, ClosePool, attempts
    <2> QED BY <2>1 DEF UndialledIsNowhere, OneUserPerConnection
  <1> QED BY <1>1, <1>2, <1>3

LEMMA MailInvNext == MailInv /\ (MailNext \/ UNCHANGED mailVars) => MailInv'
  <1>1. ASSUME MailInv, MailNext PROVE MailInv'
    BY <1>1, PoolNext, MailTypeNext, LaterNext, HeldNext, ConnNext DEF MailInv
  <1>2. ASSUME MailInv, UNCHANGED mailVars PROVE MailInv'
    BY <1>2 DEF MailInv, MailTypeOK, LaterAttemptsWait, HeldWhileUsed, UndialledIsNowhere,
       OneUserPerConnection, mailVars, attempts
  <1> QED BY <1>1, <1>2

-----------------------------------------------------------------------------

LEMMA ResourceFacts ==
    /\ Resources = {"tracer", "metrics", "db", "cache", "mail", "hub", "producer", "consumer"}
    /\ Range(ShutdownOrder) =
           {"hub", "consumer", "server", "mail", "producer", "db", "tracer", "metrics"}
  BY DEF Resources, Range, BootOrder, ShutdownOrder

\* The order of Shutdown, step by step.
LEMMA NextPhaseFacts ==
    /\ phase = "hub" => NextPhase = "consumer"
    /\ phase = "consumer" => NextPhase = "server"
    /\ phase = "server" => NextPhase = "mail"
    /\ phase = "mail" => NextPhase = "producer"
    /\ phase = "producer" => NextPhase = "db"
    /\ phase = "db" => NextPhase = "tracer"
    /\ phase = "tracer" => NextPhase = "metrics"
    /\ phase = "metrics" => NextPhase = "exited"
  <1>1. ASSUME NEW n \in 1 .. 8, phase = ShutdownOrder[n]
        PROVE  NextPhase = IF n = 8 THEN "exited" ELSE ShutdownOrder[n + 1]
    <2>1. \A i \in 1 .. 8 : ShutdownOrder[i] = phase => i = n
      BY <1>1 DEF ShutdownOrder
    <2>2. (CHOOSE i \in 1 .. 8 : ShutdownOrder[i] = phase) = n
      BY <1>1, <2>1
    <2>3. DOMAIN ShutdownOrder = 1 .. 8 /\ Len(ShutdownOrder) = 8
      BY DEF ShutdownOrder
    <2> DEFINE at == CHOOSE i \in DOMAIN ShutdownOrder : ShutdownOrder[i] = phase
    <2>4. at = n
      BY <2>2, <2>3, Zenon
    <2>5. NextPhase = IF at = Len(ShutdownOrder) THEN "exited" ELSE ShutdownOrder[at + 1]
      BY DEF NextPhase
    <2> HIDE DEF at
    <2> QED BY <2>3, <2>4, <2>5
  <1> QED BY <1>1 DEF ShutdownOrder

\* The last thing that NewContainer opens is the consumer.
LEMMA LastOpened ==
    ASSUME opened \subseteq Resources, Booting("consumer"), "consumer" \notin opened
    PROVE  opened \union {"consumer"} = Resources
  <1> DEFINE R1 == {"tracer"}
             R2 == R1 \union {"metrics"}
             R3 == R2 \union {"db"}
             R4 == R3 \union {"cache"}
             R5 == R4 \union {"mail"}
             R6 == R5 \union {"hub"}
             R7 == R6 \union {"producer"}
  <1>1. IsFiniteSet(R1) /\ Cardinality(R1) = 1
    BY FS_Singleton
  <1>2. IsFiniteSet(R2) /\ Cardinality(R2) = 2
    <2> "metrics" \notin R1
      OBVIOUS
    <2> HIDE DEF R1
    <2> QED BY <1>1, FS_AddElement
  <1>3. IsFiniteSet(R3) /\ Cardinality(R3) = 3
    <2> "db" \notin R2
      OBVIOUS
    <2> HIDE DEF R2
    <2> QED BY <1>2, FS_AddElement
  <1>4. IsFiniteSet(R4) /\ Cardinality(R4) = 4
    <2> "cache" \notin R3
      OBVIOUS
    <2> HIDE DEF R3
    <2> QED BY <1>3, FS_AddElement
  <1>5. IsFiniteSet(R5) /\ Cardinality(R5) = 5
    <2> "mail" \notin R4
      OBVIOUS
    <2> HIDE DEF R4
    <2> QED BY <1>4, FS_AddElement
  <1>6. IsFiniteSet(R6) /\ Cardinality(R6) = 6
    <2> "hub" \notin R5
      OBVIOUS
    <2> HIDE DEF R5
    <2> QED BY <1>5, FS_AddElement
  <1>7. IsFiniteSet(R7) /\ Cardinality(R7) = 7
    <2> "producer" \notin R6
      OBVIOUS
    <2> HIDE DEF R6
    <2> QED BY <1>6, FS_AddElement
  <1>8. opened \subseteq R7 /\ R7 \union {"consumer"} = Resources
    BY ResourceFacts
  <1> HIDE DEF R7
  <1>9. IsFiniteSet(opened) /\ Cardinality(opened) \in Nat
    BY <1>7, <1>8, FS_Subset, FS_CardinalityType
  <1>10. Cardinality(opened) = 7
    <2>1. BootOrder[Cardinality(opened) + 1] = "consumer" /\ Cardinality(opened) <= 7
      BY <1>7, <1>8, FS_Subset DEF Booting
    <2>2. \A n \in 1 .. 7 : BootOrder[n] # "consumer"
      BY DEF BootOrder
    <2> QED BY <1>9, <2>1, <2>2
  <1>11. opened = R7
    BY <1>7, <1>8, <1>10, FS_Subset
  <1> QED BY <1>8, <1>11

LEMMA InitIInv == Init => IInv
  <1> SUFFICES ASSUME Init PROVE IInv
    OBVIOUS
  <1> USE DEF Init
  <1>1. MailInv
    BY MailInitInv
  <1>2. \A s \in Senders : ~Active(s)
    BY DEF MailInit, Active, Resting
  <1>3. ~closed /\ ~panicked
    BY DEF MailInit
  <1>4. TypeOK
    BY <1>1 DEF TypeOK, MailInv, Phases
  <1>5. LifeInv
    BY <1>2, <1>3, LifecycleAssumption
    DEF LifeInv, OpenedInv, ServingInv, SendingInv, ClosedInv, Phases, Closing, LifecycleAssumption
  <1> QED BY <1>1, <1>3, <1>4, <1>5 DEF IInv, PanicOnlyByOrphan

\* Main moves mails only by closing their pool.
LEMMA MailSteps == Next => MailNext \/ UNCHANGED mailVars
  BY DEF Next, LoadConfig, NewContainer, NewTracer, Initialize, NewDB, NewRedisCache, NewEmailSender,
     NewHub, NewProducer, NewConsumer, Opens, OpenFails, Wire, Start, Listen, ListenFails, Signal,
     Shutdown, CloseHub, CloseConsumer, ConsumerLeft, StopServer, ServerLeft, CloseMail,
     CloseProducer, CloseDB, CloseTracer, CloseMetrics, Closes, WorkerBegins, RequestBegins,
     SendGoesOn, AttemptGoesOn, MailNext

LEMMA LifeTypeNext ==
    ASSUME TypeOK, ServingInv, Next
    PROVE  /\ phase' \in Phases /\ opened' \subseteq Resources
           /\ grpc' \in {"off", "starting", "serving", "stopping", "missed"}
  <1> USE ResourceFacts DEF TypeOK, Phases, Over
  <1>1. CASE LoadConfig \/ Wire \/ Start \/ Listen \/ ListenFails
    BY <1>1 DEF LoadConfig, Wire, Start, Listen, ListenFails
  <1>2. CASE NewContainer
    BY <1>2 DEF NewContainer, NewTracer, Initialize, NewDB, NewRedisCache, NewEmailSender, NewHub,
       NewProducer, NewConsumer, Opens, OpenFails
  <1>3. CASE Signal
    BY <1>3 DEF Signal, ShutdownOrder
  <1>4. CASE Shutdown
    <2>1. NextPhase \in Phases \/ phase \notin Range(ShutdownOrder)
      BY NextPhaseFacts
    <2>2. CASE CloseHub \/ CloseProducer \/ CloseDB \/ CloseTracer \/ CloseMetrics
      BY <2>1, <2>2 DEF CloseHub, CloseProducer, CloseDB, CloseTracer, CloseMetrics, Closes
    <2>3. CASE CloseConsumer \/ ConsumerLeft
      BY <2>1, <2>3 DEF CloseConsumer, ConsumerLeft
    <2>4. CASE StopServer \/ ServerLeft \/ CloseMail
      <3>1. UNCHANGED opened \/ opened' = opened \ {"mail"}
        BY <2>4 DEF StopServer, ServerLeft, CloseMail
      <3>2. /\ phase \in {"server", "mail"} /\ phase' \in {phase, NextPhase}
            /\ grpc' \in {grpc, "off", "stopping", "missed"}
        BY <2>4 DEF StopServer, ServerLeft, CloseMail, ServingInv
      <3> QED BY <2>1, <3>1, <3>2
    <2> QED BY <1>4, <2>2, <2>3, <2>4 DEF Shutdown
  <1>5. CASE UNCHANGED life
    BY <1>5 DEF life
  <1> QED BY <1>1, <1>2, <1>3, <1>4, <1>5 DEF Next, WorkerBegins, RequestBegins, SendGoesOn, AttemptGoesOn

\* NewContainer opens the consumer after everything else.
LEMMA OpenedNext == ASSUME TypeOK, LifeInv, Next PROVE OpenedInv'
  <1> USE DEF LifeInv, OpenedInv, Closing
  <1>1. CASE LoadConfig \/ Wire \/ Start \/ Signal
    BY <1>1 DEF LoadConfig, Wire, Start, Signal, ShutdownOrder
  <1>2. CASE Listen \/ UNCHANGED life
    BY <1>2 DEF Listen, life
  <1>3. CASE ListenFails
    <2>1. grpc \in {"starting", "missed"} /\ phase' = "aborted" /\ UNCHANGED opened
      BY <1>3 DEF ListenFails
    <2> QED BY <2>1, ResourceFacts DEF ServingInv
  <1>4. ASSUME NEW res \in Resources, Opens(res) PROVE OpenedInv'
    <2>1. /\ phase = "boot" /\ UNCHANGED phase /\ opened' = opened \union {res}
          /\ "consumer" \notin opened
      BY <1>4 DEF Opens, Booting
    <2>2. "consumer" \in opened' => opened' = Resources
      BY <1>4, <2>1, LastOpened DEF Opens
    <2> QED BY <2>1, <2>2
  <1>5. ASSUME NEW res \in Resources, OpenFails(res) PROVE OpenedInv'
    BY <1>5 DEF OpenFails, Booting
  <1>6. CASE Shutdown
    <2>1. CASE CloseHub
      BY <2>1, NextPhaseFacts, ResourceFacts DEF CloseHub, Closes
    <2>2. CASE CloseConsumer
      BY <2>2, ResourceFacts DEF CloseConsumer
    <2>3. CASE ConsumerLeft
      BY <2>3, NextPhaseFacts, ResourceFacts DEF ConsumerLeft
    <2>4. CASE StopServer \/ ServerLeft
      <3>1. phase = "server" /\ UNCHANGED opened /\ phase' \in {phase, NextPhase}
        BY <2>4 DEF StopServer, ServerLeft, ServingInv
      <3> QED BY <3>1, NextPhaseFacts
    <2>5. CASE CloseMail
      <3>1. phase = "mail" /\ phase' = NextPhase /\ opened' \subseteq opened
        BY <2>5 DEF CloseMail
      <3> QED BY <3>1, NextPhaseFacts
    <2>6. CASE CloseProducer \/ CloseDB \/ CloseTracer \/ CloseMetrics
      <3>1. /\ phase \in Closing \ {"exited"} /\ phase' = NextPhase /\ opened' \subseteq opened
        BY <2>6 DEF CloseProducer, CloseDB, CloseTracer, CloseMetrics, Closes
      <3>2. NextPhase \in Closing
        BY <3>1, NextPhaseFacts
      <3> QED BY <3>1, <3>2
    <2> QED BY <1>6, <2>1, <2>2, <2>3, <2>4, <2>5, <2>6 DEF Shutdown
  <1>7. CASE NewContainer
    <2>1. \E res \in Resources : Opens(res) \/ OpenFails(res)
      BY <1>7, ResourceFacts DEF NewContainer, NewTracer, Initialize, NewDB, NewRedisCache,
         NewEmailSender, NewHub, NewProducer, NewConsumer
    <2> QED BY <1>4, <1>5, <2>1
  <1> QED
    BY <1>1, <1>2, <1>3, <1>6, <1>7 DEF Next, WorkerBegins, RequestBegins, SendGoesOn, AttemptGoesOn

\* Before Start nothing is served, and StopServer ends it.
LEMMA ServingNext == ASSUME TypeOK, LifeInv, Next PROVE ServingInv'
  <1> USE DEF LifeInv, ServingInv, Closing
  <1>1. CASE LoadConfig \/ Wire \/ Start \/ Signal
    BY <1>1 DEF TypeOK, LoadConfig, Wire, Start, Signal, ShutdownOrder
  <1>2. CASE Listen \/ ListenFails \/ UNCHANGED life
    BY <1>2 DEF Listen, ListenFails, life
  <1>3. CASE NewContainer
    <2>1. phase = "boot" /\ UNCHANGED grpc
      BY <1>3 DEF NewContainer, NewTracer, Initialize, NewDB, NewRedisCache, NewEmailSender, NewHub,
         NewProducer, NewConsumer, Opens, OpenFails, Booting
    <2> QED BY <2>1 DEF TypeOK
  <1>4. CASE Shutdown
    <2>1. CASE CloseHub \/ CloseConsumer \/ ConsumerLeft
      BY <2>1, NextPhaseFacts DEF CloseHub, CloseConsumer, ConsumerLeft, Closes
    <2>2. CASE StopServer \/ ServerLeft
      BY <2>2, NextPhaseFacts DEF StopServer, ServerLeft
    <2>3. CASE CloseMail
      BY <2>3, NextPhaseFacts DEF CloseMail
    <2>4. CASE CloseProducer \/ CloseDB \/ CloseTracer \/ CloseMetrics
      BY <2>4, NextPhaseFacts DEF CloseProducer, CloseDB, CloseTracer, CloseMetrics, Closes
    <2> QED BY <1>4, <2>1, <2>2, <2>3, <2>4 DEF Shutdown
  <1> QED
    BY <1>1, <1>2, <1>3, <1>4 DEF Next, WorkerBegins, RequestBegins, SendGoesOn, AttemptGoesOn

\* A sender gets active only by beginning to send.
LEMMA ActiveNext ==
    ASSUME TypeOK, Next, NEW s \in Senders, Active(s)'
    PROVE  Active(s) \/ WorkerBegins(s) \/ RequestBegins(s)
  <1> USE DEF TypeOK, MailTypeOK, Active, Resting
  <1>1. ASSUME NEW r \in Senders, WorkerBegins(r) \/ RequestBegins(r), r # s
        PROVE  Active(s)
    BY <1>1 DEF WorkerBegins, RequestBegins, Send, RateLimited, Goto
  <1>2. ASSUME NEW r \in Senders, SendGoesOn(r) PROVE Active(s)
    BY <1>2 DEF SendGoesOn, Sends, Launch, Receive, TimesOut, TriesAgain, Goto
  <1>3. ASSUME NEW a \in Attempts, AttemptGoesOn(a) PROVE Active(s)
    BY <1>3 DEF AttemptGoesOn, Attempting, GetPooled, GetNone, GetClosed, PutClosed, Panics, Dial,
       DialFails, Talk, Put, Discard
  <1>4. CASE LoadConfig \/ NewContainer \/ Wire \/ Start \/ Listen \/ ListenFails \/ Signal \/ Shutdown
    <2>1. UNCHANGED spc
      BY <1>4 DEF LoadConfig, NewContainer, NewTracer, Initialize, NewDB, NewRedisCache,
         NewEmailSender, NewHub, NewProducer, NewConsumer, Opens, OpenFails, Wire, Start, Listen,
         ListenFails, Signal, Shutdown, CloseHub, CloseConsumer, ConsumerLeft, StopServer, ServerLeft,
         CloseMail, ClosePool, CloseProducer, CloseDB, CloseTracer, CloseMetrics, Closes, mailVars
    <2> QED BY <2>1
  <1> QED BY <1>1, <1>2, <1>3, <1>4 DEF Next

\* Who sends has the resources of its kind: a worker the consumer, a request the server.
LEMMA SendingNext == ASSUME TypeOK, LifeInv, Next PROVE SendingInv'
  <1> USE DEF LifeInv, SendingInv
  <1>0. Workers \subseteq Senders
    BY LifecycleAssumption DEF LifecycleAssumption
  <1>1. ASSUME NEW s \in Workers, Active(s)'
        PROVE  phase' \in {"running", "hub", "consumer", "aborted"}
    <2>1. Active(s) \/ WorkerBegins(s)
      BY <1>0, <1>1, ActiveNext DEF RequestBegins
    <2>2. phase \in {"running", "hub", "consumer", "aborted"}
      BY <1>1, <2>1 DEF WorkerBegins
    <2>3. phase' \in {phase, "aborted", "hub", "consumer"} \/ ConsumerLeft
      <3>1. CASE Signal \/ Listen \/ ListenFails \/ UNCHANGED life
        BY <3>1 DEF Signal, Listen, ListenFails, ShutdownOrder, life
      <3>2. CASE Shutdown
        BY <2>2, <3>2, NextPhaseFacts
        DEF Shutdown, CloseHub, CloseConsumer, StopServer, ServerLeft, CloseMail, CloseProducer,
            CloseDB, CloseTracer, CloseMetrics, Closes, ServingInv
      <3>3. CASE LoadConfig \/ NewContainer \/ Wire \/ Start
        BY <2>2, <3>3
        DEF LoadConfig, NewContainer, NewTracer, Initialize, NewDB, NewRedisCache,
            NewEmailSender, NewHub, NewProducer, NewConsumer, Opens, OpenFails, Booting, Wire, Start
      <3> QED
        BY <3>1, <3>2, <3>3 DEF Next, WorkerBegins, RequestBegins, SendGoesOn, AttemptGoesOn
    <2>4. ~ConsumerLeft
      <3>1. CASE Active(s)
        BY <1>1, <3>1 DEF ConsumerLeft
      <3>2. CASE WorkerBegins(s)
        <4>1. UNCHANGED phase
          BY <3>2 DEF WorkerBegins, life
        <4> QED BY <4>1, NextPhaseFacts DEF ConsumerLeft
      <3> QED BY <2>1, <3>1, <3>2
    <2> QED BY <2>2, <2>3, <2>4
  <1>2. ASSUME NEW s \in Senders \ Workers, Active(s)'
        PROVE  grpc' \in {"serving", "stopping"} \/ phase' = "aborted"
    <2>1. Active(s) \/ RequestBegins(s)
      BY <1>2, ActiveNext DEF WorkerBegins
    <2>2. CASE phase = "aborted"
      <3>1. UNCHANGED phase
        BY <2>2, <1>2, <2>1 DEF Next, LoadConfig, NewContainer, NewTracer, Initialize, NewDB,
           NewRedisCache, NewEmailSender, NewHub, NewProducer, NewConsumer, Opens, OpenFails, Booting,
           Wire, Start, Listen, ListenFails, Signal, Shutdown, CloseHub, CloseConsumer, ConsumerLeft,
           StopServer, ServerLeft, CloseMail, CloseProducer, CloseDB, CloseTracer, CloseMetrics,
           Closes, WorkerBegins, RequestBegins, SendGoesOn, AttemptGoesOn, Alive, Over, life
      <3> QED BY <2>2, <3>1
    <2>3. CASE phase # "aborted"
      <3>1. grpc \in {"serving", "stopping"}
        BY <1>2, <2>1, <2>3 DEF RequestBegins
      <3>2. UNCHANGED grpc \/ grpc' = "stopping" \/ ServerLeft
        <4>1. CASE LoadConfig \/ Wire \/ Start \/ Signal \/ Listen \/ ListenFails
          BY <3>1, <4>1 DEF ServingInv, LoadConfig, Wire, Start, Signal, Listen, ListenFails
        <4>2. CASE NewContainer
          BY <4>2 DEF NewContainer, NewTracer, Initialize, NewDB, NewRedisCache, NewEmailSender,
             NewHub, NewProducer, NewConsumer, Opens, OpenFails
        <4>3. CASE Shutdown
          BY <3>1, <4>3 DEF Shutdown, CloseHub, CloseConsumer, ConsumerLeft, StopServer, CloseMail,
             CloseProducer, CloseDB, CloseTracer, CloseMetrics, Closes
        <4>4. CASE UNCHANGED life
          BY <4>4 DEF life
        <4> QED
          BY <4>1, <4>2, <4>3, <4>4 DEF Next, WorkerBegins, RequestBegins, SendGoesOn, AttemptGoesOn
      <3>3. ~ServerLeft
        <4>1. CASE Active(s)
          BY <1>2, <4>1 DEF ServerLeft
        <4>2. CASE RequestBegins(s)
          BY <4>2 DEF RequestBegins, life, ServerLeft
        <4> QED BY <2>1, <4>1, <4>2
      <3> QED BY <3>1, <3>2, <3>3
    <2> QED BY <2>2, <2>3
  <1> QED BY <1>1, <1>2

\* The pool is closed by CloseMail, and main goes on from there to the end of Shutdown.
LEMMA ClosedNext == ASSUME TypeOK, LifeInv, Next PROVE ClosedInv'
  <1> USE DEF LifeInv, ClosedInv, Closing
  <1>1. CASE LoadConfig \/ Wire \/ Start \/ Signal \/ Listen \/ ListenFails
    <2>1. UNCHANGED <<closed, panicked>> /\ (phase' = phase \/ phase' = "aborted" \/ ~closed)
      BY <1>1 DEF LoadConfig, Wire, Start, Signal, Listen, ListenFails, mailVars, attempts
    <2> QED
      BY <1>1, <2>1 DEF LoadConfig, Wire, Start, Signal, Listen, ListenFails, mailVars, attempts, Alive
  <1>2. CASE NewContainer
    BY <1>2 DEF NewContainer, NewTracer, Initialize, NewDB, NewRedisCache, NewEmailSender, NewHub,
       NewProducer, NewConsumer, Opens, OpenFails, Booting, Alive, mailVars, attempts
  <1>3. CASE Shutdown
    <2>1. CASE CloseHub \/ CloseConsumer \/ ConsumerLeft \/ StopServer \/ ServerLeft
      <3>1. ~panicked /\ UNCHANGED <<closed, panicked>> /\ phase \in {"hub", "consumer", "server"}
        BY <2>1 DEF CloseHub, CloseConsumer, ConsumerLeft, StopServer, ServerLeft, Closes, Alive,
           ServingInv, mailVars, attempts
      <3> QED BY <3>1
    <2>2. CASE CloseMail
      BY <2>2, NextPhaseFacts DEF CloseMail, ClosePool, Alive
    <2>3. CASE CloseProducer \/ CloseDB \/ CloseTracer \/ CloseMetrics
      BY <2>3, NextPhaseFacts DEF CloseProducer, CloseDB, CloseTracer, CloseMetrics, Closes, Alive,
         mailVars, attempts
    <2> QED BY <1>3, <2>1, <2>2, <2>3 DEF Shutdown
  <1>4. CASE \E s \in Senders : WorkerBegins(s) \/ RequestBegins(s) \/ SendGoesOn(s)
    BY <1>4 DEF WorkerBegins, RequestBegins, SendGoesOn, Send, RateLimited, Sends, Launch, Receive,
       TimesOut, attempts, life
  <1>5. ASSUME NEW a \in Attempts, AttemptGoesOn(a) PROVE ClosedInv'
    <2>1. Alive /\ UNCHANGED life /\ UNCHANGED closed /\ (UNCHANGED panicked \/ closed)
      BY <1>5 DEF AttemptGoesOn, Attempting, GetPooled, GetNone, GetClosed, PutClosed, Panics, Dial,
         DialFails, Talk, Put, Discard
    <2> QED BY <2>1 DEF Alive, Over, life
  <1> QED BY <1>1, <1>2, <1>3, <1>4, <1>5 DEF Next

\* By the time the pool is closed nobody waits for an attempt.
LEMMA PanicNext ==
    ASSUME TypeOK, LifeInv, PanicOnlyByOrphan, Next
    PROVE  PanicOnlyByOrphan'
  <1> USE DEF PanicOnlyByOrphan
  <1>0. Alive /\ ~panicked
    BY DEF Next, LoadConfig, NewContainer, NewTracer, Initialize, NewDB,
           NewRedisCache, NewEmailSender, NewHub, NewProducer, NewConsumer, Opens, OpenFails, Booting,
           Wire, Start, Listen, ListenFails, Signal, Shutdown, CloseHub, CloseConsumer, ConsumerLeft,
           StopServer, ServerLeft, CloseMail, CloseProducer, CloseDB, CloseTracer, CloseMetrics,
           Closes, WorkerBegins, RequestBegins, SendGoesOn, AttemptGoesOn, Alive
  <1>1. ASSUME NEW a \in Attempts, AttemptGoesOn(a), GetClosed(a) \/ PutClosed(a)
        PROVE  PanicOnlyByOrphan'
    <2>1. closed /\ apc[a] \in {"get", "back"} /\ UNCHANGED <<spc, try, apc, phase>>
      BY <1>1 DEF GetClosed, PutClosed, Panics, AttemptGoesOn, life
    <2>2. phase \in Closing \ {"exited"}
      BY <1>0, <2>1 DEF LifeInv, ClosedInv, Alive, Over, Closing
    <2>3. \A s \in Senders : ~Active(s)
      BY <2>2 DEF LifeInv, SendingInv, ServingInv, Closing
    <2>4. \A b \in Attempts : Abandoned(b)
      BY <2>3, AttemptFacts DEF Abandoned, Active, Resting
    <2>5. \A b \in Attempts : Abandoned(b)'
      BY <2>1, <2>4 DEF Abandoned
    <2> QED BY <2>1, <2>2, <2>5 DEF Closing
  <1>2. CASE \A a \in Attempts : ~(AttemptGoesOn(a) /\ (GetClosed(a) \/ PutClosed(a)))
    <2>1. UNCHANGED panicked
      BY <1>2 DEF Next, LoadConfig, NewContainer, NewTracer, Initialize, NewDB,
           NewRedisCache, NewEmailSender, NewHub, NewProducer, NewConsumer, Opens, OpenFails,
           Wire, Start, Listen, ListenFails, Signal, Shutdown, CloseHub, CloseConsumer, ConsumerLeft,
           StopServer, ServerLeft, CloseMail, ClosePool, CloseProducer, CloseDB, CloseTracer,
           CloseMetrics, Closes, WorkerBegins, RequestBegins, SendGoesOn, AttemptGoesOn, Attempting,
           GetPooled, GetNone, Dial, DialFails, Talk, Put, Discard, Send, RateLimited, Sends,
           Launch, Receive, TimesOut, mailVars, attempts
    <2> QED BY <1>0, <2>1
  <1> QED BY <1>1, <1>2

LEMMA Invariance == IInv /\ [Next]_vars => IInv'
  <1>1. ASSUME IInv, Next PROVE IInv'
    <2>1. MailInv'
      BY <1>1, MailSteps, MailInvNext DEF IInv
    <2>2. TypeOK'
      BY <1>1, <2>1, LifeTypeNext DEF IInv, TypeOK, MailInv, LifeInv
    <2>3. LifeInv'
      BY <1>1, <2>2, OpenedNext, ServingNext, SendingNext, ClosedNext DEF IInv, LifeInv, TypeOK
    <2>4. PanicOnlyByOrphan'
      BY <1>1, PanicNext DEF IInv
    <2> QED BY <2>1, <2>2, <2>3, <2>4 DEF IInv
  <1>2. ASSUME IInv, UNCHANGED vars PROVE IInv'
    <2>1. UNCHANGED <<mailVars, spc, try, apc, closed, panicked, phase, opened, grpc>>
      BY <1>2 DEF vars, mailVars, attempts, life
    <2>2. MailInv'
      BY <1>2, <2>1, MailInvNext DEF IInv
    <2>3. TypeOK'
      BY <1>2, <2>1, <2>2 DEF IInv, TypeOK, MailInv
    <2>4. LifeInv'
      BY <1>2, <2>1 DEF IInv, LifeInv, OpenedInv, ServingInv, SendingInv, ClosedInv, Active
    <2>5. PanicOnlyByOrphan'
      BY <1>2, <2>1 DEF IInv, PanicOnlyByOrphan, Abandoned
    <2> QED BY <2>2, <2>3, <2>4, <2>5 DEF IInv
  <1> QED BY <1>1, <1>2

LEMMA AlwaysIInv == Spec => []IInv
  BY InitIInv, Invariance, PTL DEF Spec

-----------------------------------------------------------------------------

\* Every variable keeps its type, and the pool its size.
THEOREM TypeCorrect == Spec => []TypeOK
  <1>1. IInv => TypeOK
    BY DEF IInv
  <1> QED BY <1>1, AlwaysIInv, PTL

\* A connection is never in two hands, nor in the pool while one uses it, although
\* attempts that Send has given up on go on beside their successors.
THEOREM ConnectionsAreExclusive == Spec => []OneUserPerConnection
  <1>1. IInv => OneUserPerConnection
    BY DEF IInv, MailInv
  <1> QED BY <1>1, AlwaysIInv, PTL

\* Shutdown closes nothing under a worker or a request that is sending a mail.
THEOREM DrainComesFirst == Spec => []DrainedBeforeClosed
  <1>1. IInv => DrainedBeforeClosed
    <2> SUFFICES ASSUME IInv, phase # "aborted", NEW s \in Senders, Active(s)
                 PROVE  {"cache", "mail", "producer", "db"} \subseteq opened
      BY DEF DrainedBeforeClosed
    <2>1. phase \in {"running", "hub", "consumer", "server"}
      BY DEF IInv, LifeInv, SendingInv, ServingInv
    <2> QED BY <2>1, ResourceFacts DEF IInv, LifeInv, OpenedInv
  <1> QED BY <1>1, AlwaysIInv, PTL

\* The pool that Shutdown closes can make only an attempt panic that was given up on.
THEOREM OnlyOrphansPanic == Spec => []PanicOnlyByOrphan
  <1>1. IInv => PanicOnlyByOrphan
    BY DEF IInv
  <1> QED BY <1>1, AlwaysIInv, PTL

\* While /ready answers 200, at most the WebSocket hub is closed.
THEOREM NotReadyWhileClosing == Spec => []ReadyBeforeDrain
  <1>1. IInv => ReadyBeforeDrain
    <2> SUFFICES ASSUME IInv, NEW database \in BOOLEAN, NEW redis \in BOOLEAN,
                        NEW memoryHigh \in BOOLEAN, Ready(database, redis, memoryHigh)
                 PROVE  Resources \ opened \subseteq {"hub"}
      BY DEF ReadyBeforeDrain
    <2>1. "consumer" \in opened /\ phase \notin {"config", "boot"}
      <3>1. Checks(database, redis, memoryHigh).kafka # "unhealthy"
        <4> DEFINE c == Checks(database, redis, memoryHigh)
        <4>1. "unhealthy" \notin Range(c)
          BY DEF Ready, OverallStatus
        <4>2. "kafka" \in DOMAIN c
          BY DEF Checks
        <4> QED BY <4>1, <4>2 DEF Range
      <3> QED BY <3>1 DEF Checks, CheckKafka, Health, Ready
    <2> QED
      BY <2>1, ResourceFacts DEF IInv, LifeInv, OpenedInv, Phases, Over, Closing
  <1> QED BY <1>1, AlwaysIInv, PTL
=============================================================================
