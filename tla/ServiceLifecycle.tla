-------------------------- MODULE ServiceLifecycle --------------------------
(***************************************************************************)
(* The life of the process: NewContainer, Start and Shutdown of            *)
(* src/internal/bootstrap/di.go under src/cmd/server/main.go, with the     *)
(* mails that Kafka workers and gRPC requests are sending meanwhile        *)
(* (MailSender), and what /ready answers at any moment.                    *)
(***************************************************************************)
EXTENDS MailSender, Sequences, SequencesExt

CONSTANTS
    Workers     \* senders that are Kafka workers; the others are gRPC requests

ASSUME LifecycleAssumption == Workers \subseteq Senders

VARIABLES
    phase,      \* where main is
    opened,     \* what NewContainer has opened and Shutdown not closed
    grpc        \* the goroutine that serves gRPC

life == <<phase, opened, grpc>>
vars == <<mailVars, life>>

\* The order of initObservability and initInfrastructure.
BootOrder == <<"tracer", "metrics", "db", "cache", "mail", "hub", "producer", "consumer">>
Resources == Range(BootOrder)

\* Mutant: the e-mail pool is closed before the gRPC server has drained.
MailBeforeServer == <<"hub", "consumer", "mail", "server", "producer", "db", "tracer", "metrics">>

\* The order of Shutdown.
ShutdownOrder == <<"hub", "consumer", "server", "mail", "producer", "db", "tracer", "metrics">>

Over   == {"exited", "aborted"}
Phases == {"config", "boot", "wired", "running"} \union Range(ShutdownOrder) \union Over

Init ==
    /\ MailInit
    /\ phase = "config" /\ opened = {} /\ grpc = "off"

Alive == phase \notin Over /\ ~panicked

-----------------------------------------------------------------------------
(***************************************************************************)
(* NewContainer, and main up to the signal.                                *)
(***************************************************************************)

\* The environment is read and checked; what is missing or invalid ends the process.
LoadConfig ==
    /\ Alive /\ phase = "config" /\ phase' \in {"boot", "aborted"}
    /\ UNCHANGED <<mailVars, opened, grpc>>

Booting(res) ==
    /\ Alive /\ phase = "boot" /\ opened # Resources
    /\ BootOrder[Cardinality(opened) + 1] = res

Opens(res) ==
    /\ Booting(res)
    /\ opened' = opened \union {res}
    /\ UNCHANGED <<mailVars, phase, grpc>>

\* main exits, and nothing that is open already is closed.
OpenFails(res) ==
    /\ Booting(res)
    /\ phase' = "aborted"
    /\ UNCHANGED <<mailVars, opened, grpc>>

\* The collector's address is parsed; nothing is sent yet.
NewTracer == Opens("tracer") \/ OpenFails("tracer")

\* A registry of its own has no counter yet that it could refuse.
Initialize == Opens("metrics")

\* Connects; the migration behind it may fail, too.
NewDB == Opens("db") \/ OpenFails("db")

\* Pings for three seconds.
NewRedisCache == Opens("cache") \/ OpenFails("cache")

\* Dials nothing, and the pool's size is a positive default.
NewEmailSender == Opens("mail")

NewHub == Opens("hub")

NewProducer == Opens("producer") \/ OpenFails("producer")
NewConsumer == Opens("consumer") \/ OpenFails("consumer")

NewContainer ==
    \/ NewTracer \/ Initialize \/ NewDB \/ NewRedisCache
    \/ NewEmailSender \/ NewHub \/ NewProducer \/ NewConsumer

\* Repositories, services, event handlers and the gRPC server are wired; /ready answers.
Wire ==
    /\ Alive /\ phase = "boot" /\ opened = Resources /\ phase' = "wired"
    /\ UNCHANGED <<mailVars, opened, grpc>>

\* StartConsuming; the goroutines of the two servers begin.
Start ==
    /\ Alive /\ phase = "wired" /\ phase' = "running" /\ grpc' = "starting"
    /\ UNCHANGED <<mailVars, opened>>

Listen ==
    /\ Alive /\ grpc = "starting" /\ grpc' = "serving"
    /\ UNCHANGED <<mailVars, phase, opened>>

\* The address is in use, or GracefulStop came before Serve: Logger.Fatal ends the
\* process, wherever main is.
ListenFails ==
    /\ Alive /\ grpc \in {"starting", "missed"}
    /\ phase' = "aborted" /\ grpc' = "off"
    /\ UNCHANGED <<mailVars, opened>>

Signal ==
    /\ Alive /\ phase = "running" /\ phase' = ShutdownOrder[1]
    /\ UNCHANGED <<mailVars, opened, grpc>>

(***************************************************************************)
(* Shutdown.                                                               *)
(***************************************************************************)

NextPhase ==
    LET n == CHOOSE i \in DOMAIN ShutdownOrder : ShutdownOrder[i] = phase
    IN  IF n = Len(ShutdownOrder) THEN "exited" ELSE ShutdownOrder[n + 1]

\* Closing that does not wait; an error is logged and the next component follows.
Closes(res) ==
    /\ Alive /\ phase = res
    /\ opened' = opened \ {res} /\ phase' = NextPhase
    /\ UNCHANGED <<mailVars, grpc>>

CloseHub      == Closes("hub")
CloseProducer == Closes("producer")
CloseDB       == Closes("db")

\* Hands over the spans it has, until the context of Shutdown is over.
CloseTracer   == Closes("tracer")
CloseMetrics  == Closes("metrics")

\* Consumer.Close closes closeCh ...
CloseConsumer ==
    /\ Alive /\ phase = "consumer" /\ "consumer" \in opened
    /\ opened' = opened \ {"consumer"}
    /\ UNCHANGED <<mailVars, phase, grpc>>

\* ... and waits for its workers.
ConsumerLeft ==
    /\ phase = "consumer" /\ "consumer" \notin opened
    /\ \A s \in Workers : ~Active(s)
    /\ Alive /\ phase' = NextPhase
    /\ UNCHANGED <<mailVars, opened, grpc>>

\* GracefulStop refuses new requests and waits for the others; a goroutine that has not
\* called Serve yet will find the server stopped.
StopServer ==
    /\ Alive /\ phase = "server"
    /\ \/ grpc = "serving" /\ grpc' = "stopping" /\ UNCHANGED phase
       \/ grpc = "starting" /\ grpc' = "missed" /\ phase' = NextPhase
    /\ UNCHANGED <<mailVars, opened>>

\* Mutant: Stop instead of GracefulStop.
ServerStopsAtOnce ==
    /\ Alive /\ grpc = "stopping" /\ grpc' = "off" /\ phase' = NextPhase
    /\ UNCHANGED <<mailVars, opened>>

ServerLeft ==
    /\ Alive /\ grpc = "stopping" /\ grpc' = "off" /\ phase' = NextPhase
    /\ \A s \in Senders \ Workers : ~Active(s)
    /\ UNCHANGED <<mailVars, opened>>

CloseMail ==
    /\ Alive /\ phase = "mail" /\ ClosePool
    /\ opened' = opened \ {"mail"} /\ phase' = NextPhase
    /\ UNCHANGED grpc

Shutdown ==
    \/ CloseHub \/ CloseConsumer \/ ConsumerLeft \/ StopServer \/ ServerLeft
    \/ CloseMail \/ CloseProducer \/ CloseDB \/ CloseTracer \/ CloseMetrics

(***************************************************************************)
(* Mails meanwhile.  A worker may take one more job while Consumer.Close   *)
(* waits for it; a request is served from Serve to GracefulStop.           *)
(***************************************************************************)

\* The handler of an event calls EmailSender.Send.
WorkerBegins(s) ==
    /\ Alive /\ s \in Workers /\ phase \in {"running", "hub", "consumer"}
    /\ Send(s) \/ RateLimited(s)
    /\ UNCHANGED life

\* So does ForgotPassword, and SendOTP in the same way.
RequestBegins(s) ==
    /\ Alive /\ s \notin Workers /\ grpc = "serving"
    /\ Send(s) \/ RateLimited(s)
    /\ UNCHANGED life

SendGoesOn(s)    == Alive /\ Sends(s) /\ UNCHANGED life
AttemptGoesOn(a) == Alive /\ Attempting(a) /\ UNCHANGED life

Next ==
    \/ LoadConfig \/ NewContainer \/ Wire \/ Start \/ Listen \/ ListenFails \/ Signal
    \/ Shutdown
    \/ \E s \in Senders : WorkerBegins(s) \/ RequestBegins(s) \/ SendGoesOn(s)
    \/ \E a \in Attempts : AttemptGoesOn(a)

Spec == Init /\ [][Next]_vars

\* main goes on with Shutdown, and Send with what it can do by itself; neither the SMTP
\* server nor the signal is bound to come.
Fairness ==
    /\ WF_vars(Shutdown)
    /\ \A s \in Senders : WF_vars(SendGoesOn(s))

FairSpec == Spec /\ Fairness

-----------------------------------------------------------------------------
(***************************************************************************)
(* /ready: checkReadiness and determineOverallStatus.                      *)
(***************************************************************************)

Health(ok) == IF ok THEN "healthy" ELSE "unhealthy"

\* Mutant: the consumer's HealthCheck does not look at closeCh.
KafkaAlwaysHealthy == "healthy"

CheckKafka == Health("consumer" \in opened)

Checks(database, redis, memoryHigh) ==
    [database |-> Health("db" \in opened /\ database),
     redis |-> Health(redis),
     kafka |-> CheckKafka,
     memory |-> IF memoryHigh THEN "degraded" ELSE "healthy"]

OverallStatus(checks) ==
    IF "unhealthy" \in Range(checks) THEN "unhealthy"
    ELSE IF "degraded" \in Range(checks) THEN "degraded" ELSE "healthy"

\* The status of the answer is 200; the health server runs from Wire on.
Ready(database, redis, memoryHigh) ==
    phase \notin {"config", "boot"} /\ OverallStatus(Checks(database, redis, memoryHigh)) # "unhealthy"

-----------------------------------------------------------------------------
(***************************************************************************)
(* Properties.                                                             *)
(***************************************************************************)

\* Every variable stays in its type.
TypeOK ==
    /\ MailTypeOK
    /\ phase \in Phases
    /\ opened \subseteq Resources
    /\ grpc \in {"off", "starting", "serving", "stopping", "missed"}

\* Whoever is sending a mail finds Redis, the pool, the producer and the database open:
\* Shutdown drains the workers and the requests before it closes what they use, and
\* main does not return while one is at work.
DrainedBeforeClosed ==
    (phase # "aborted" /\ ~panicked /\ \E s \in Senders : Active(s))
        => {"cache", "mail", "producer", "db"} \subseteq opened

\* Of the panics, those on the closed mail pool (WsHub has the others of Shutdown): only
\* an attempt that its Send has given up on meets it, in Shutdown.  The drain waits for
\* Send, never for what Send has left behind.
PanicOnlyByOrphan ==
    panicked => /\ phase \in {"producer", "db", "tracer", "metrics"}
                /\ \E a \in Attempts : apc[a] \in {"get", "back"}
                /\ \A a \in Attempts : apc[a] \in {"get", "back"} => Abandoned(a)

\* While /ready answers 200, nothing but the WebSocket hub has been closed, whatever the
\* database, Redis and the memory look like: traffic is turned away before the drain.
ReadyBeforeDrain ==
    \A database, redis, memoryHigh \in BOOLEAN :
        Ready(database, redis, memoryHigh) => Resources \ opened \subseteq {"hub"}

\* A Shutdown comes to an end although the SMTP server may never answer, because Send
\* waits for each attempt a bounded time only.
ShutdownEnds == (phase \in Range(ShutdownOrder)) ~> ~Alive
=============================================================================
