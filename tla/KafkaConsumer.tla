--------------------------- MODULE KafkaConsumer ---------------------------
(***************************************************************************)
(* The Kafka consumer of the notification service                          *)
(* (src/internal/infrastructure/kafka/consumer.go): one sarama session at  *)
(* a time, one ConsumeClaim goroutine per partition, a bounded jobs        *)
(* channel, a pool of workers that run the handlers of a message with      *)
(* retries, and Close.                                                     *)
(*                                                                         *)
(* The broker and the sarama library are not in the repository.  They      *)
(* appear only through what the code relies on: a session starts at the    *)
(* committed offsets, marked offsets are committed while the session runs  *)
(* and when it ends, Consume returns once every ConsumeClaim has returned, *)
(* and the end of one ConsumeClaim ends the session.                       *)
(***************************************************************************)
EXTENDS Integers, Sequences, FiniteSets

CONSTANTS
    Partitions,     \* the partitions of the subscribed topics
    LogEnd,         \* the last offset of every partition's log
    Workers,        \* the goroutines of the worker pool (ConsumerConfig.Workers)
    Handlers,       \* the handlers registered for a topic
    BufferSize,     \* the capacity of the jobs channel
    Retries,        \* ConsumerConfig.Retries
    MaxFaults,      \* bound: broker errors, rebalances, lost commits, crashes
    NoJob           \* what an idle worker holds

Offsets   == 1 .. LogEnd
Messages  == Partitions \X Offsets

ASSUME ConsumerAssumption ==
    /\ LogEnd \in Nat
    /\ BufferSize \in Nat \ {0}
    /\ Retries \in Nat \ {0}
    /\ MaxFaults \in Nat
    /\ Workers # {}
    /\ Handlers # {}
    /\ NoJob \notin Messages

VARIABLES
    committed,  \* the group's committed offset at the broker, per partition
    marked,     \* one past the last marked offset: what the session would commit,
                \* and the offset of the message a claim reads or holds
    claim,      \* where each ConsumeClaim goroutine is
    loop,       \* where the consume loop of startSubscription is
    ending,     \* the session's context is done
    jobs,       \* the jobs channel
    adapter,    \* how far closeJobs has come
    job,        \* the message each worker holds
    attempt,    \* per worker and handler: the attempt running, 0 once returned
    exited,     \* the workers that have returned
    closer,     \* how far Close has come
    ctxDone,    \* the application's context was cancelled under a live consumer
    panicked,   \* the process died of a send on a closed channel
    faults,     \* faults so far
    handled,    \* ghost: message and handler pairs whose executeHandler returned
    lost,       \* ghost: committed messages that were in memory at a crash
    redelivery  \* ghost: a crash or a lost commit has allowed a second delivery

broker   == <<committed, marked>>
session  == <<claim, ending>>
pool     == <<job, attempt, exited, handled>>
shutdown == <<closer, ctxDone>>
history  == <<faults, lost, redelivery>>
vars     == <<committed, marked, claim, loop, ending, jobs, adapter, job,
              attempt, exited, closer, ctxDone, panicked, faults, handled,
              lost, redelivery>>

ClaimStates   == {"off", "recv", "send", "mark", "close"}
LoopStates    == {"check", "consume", "session", "failed", "exiting", "gone"}
AdapterStates == {"open", "stopped", "closed"}
CloserStates  == {"open", "signalled", "leaving", "waiting", "closed"}
Positions     == 1 .. LogEnd + 1

Queued      == {jobs[i] : i \in 1 .. Len(jobs)}
Held        == {job[w] : w \in Workers} \ {NoJob}
Resolved(m) == \A h \in Handlers : <<m, h>> \in handled
Idle        == [h \in Handlers |-> 0]
Up          == ~panicked
CloseSignalled == closer # "open"
GroupClosed    == closer \in {"leaving", "waiting", "closed"}

-----------------------------------------------------------------------------

Init ==
    /\ committed = [p \in Partitions |-> 1]
    /\ marked = committed
    /\ claim = [p \in Partitions |-> "off"]
    /\ loop = "check"
    /\ ending = FALSE
    /\ jobs = <<>>
    /\ adapter = "open"
    /\ job = [w \in Workers |-> NoJob]
    /\ attempt = [w \in Workers |-> Idle]
    /\ exited = {}
    /\ closer = "open"
    /\ ctxDone = FALSE
    /\ panicked = FALSE
    /\ faults = 0
    /\ handled = {}
    /\ lost = {}
    /\ redelivery = FALSE

Fault == faults < MaxFaults /\ faults' = faults + 1

(***************************************************************************)
(* The consume loop of startSubscription.                                  *)
(***************************************************************************)

LoopMoves(from, to) ==
    /\ Up /\ loop = from /\ loop' = to
    /\ UNCHANGED <<broker, session, jobs, adapter, pool, shutdown, panicked, history>>

\* Mutant: the loop looks at its context only, not at closeCh.
LoopIgnoresClose == LoopMoves("check", IF ctxDone THEN "exiting" ELSE "consume")

LoopCheck == LoopMoves("check", IF CloseSignalled \/ ctxDone THEN "exiting" ELSE "consume")

StartSession(offsets) ==
    /\ Up /\ loop = "consume" /\ ~GroupClosed /\ ~ctxDone
    /\ loop' = "session"
    /\ ending' = FALSE
    /\ claim' = [p \in Partitions |-> "recv"]
    /\ marked' = offsets
    /\ UNCHANGED <<committed, jobs, adapter, pool, shutdown, panicked, history>>

\* Consume joins the group; sarama starts every claim at its committed offset.
JoinGroup == StartSession(committed)

\* Consume returns an error other than context.Canceled.
ConsumeFails ==
    /\ Up /\ loop = "consume"
    /\ \/ GroupClosed /\ UNCHANGED faults
       \/ Fault
    /\ loop' = "failed"
    /\ UNCHANGED <<broker, session, jobs, adapter, pool, shutdown, panicked, lost, redelivery>>

ConsumeCanceled == ctxDone /\ LoopMoves("consume", "check")

\* Mutant: the loop returns on the first error of Consume.
LoopReturnsOnError == LoopMoves("failed", "exiting")

\* The non-blocking send of the error on errorsCh, then the two-second sleep.
LoopReports ==
    /\ Up /\ loop = "failed"
    /\ loop' = "check"
    /\ panicked' = (closer = "closed")
    /\ UNCHANGED <<broker, session, jobs, adapter, pool, shutdown, history>>

\* What ends a session from outside: a rebalance, the group's Close, the context.
SessionCancelled ==
    /\ Up /\ loop = "session" /\ ~ending
    /\ \/ (GroupClosed \/ ctxDone) /\ UNCHANGED faults
       \/ Fault
    /\ ending' = TRUE
    /\ UNCHANGED <<broker, claim, loop, jobs, adapter, pool, shutdown, panicked, lost, redelivery>>

AllClaimsReturned == ending /\ \A p \in Partitions : claim[p] = "off"

\* Mutant: a session that ends does not flush its marks.
SessionEndsUnflushed == AllClaimsReturned /\ LoopMoves("session", "check")

\* Consume returns nil once every claim has; the flush of the marks may be lost.
SessionEnds ==
    /\ Up /\ loop = "session" /\ AllClaimsReturned
    /\ loop' = "check"
    /\ \/ committed' = marked /\ UNCHANGED <<faults, redelivery>>
       \/ Fault /\ redelivery' = TRUE /\ UNCHANGED committed
    /\ UNCHANGED <<marked, session, jobs, adapter, pool, shutdown, panicked, lost>>

AutoCommit ==
    /\ Up /\ loop = "session" /\ marked # committed
    /\ committed' = marked
    /\ UNCHANGED <<marked, session, loop, jobs, adapter, pool, shutdown, panicked, history>>

LoopGone == adapter = "closed" /\ LoopMoves("exiting", "gone")

(***************************************************************************)
(* closeJobs, under its sync.Once: the loop as it returns, and a claim     *)
(* that sees the context done, ask for it.                                 *)
(***************************************************************************)

AdapterMoves(from, to) ==
    /\ Up /\ adapter = from /\ adapter' = to
    /\ UNCHANGED <<broker, session, loop, jobs, pool, shutdown, panicked, history>>

CloseJobsAsked == loop = "exiting" \/ \E p \in Partitions : claim[p] = "close"

\* Mutant: Close closes the jobs channel itself, ahead of the session's end.
CloseStopsAtOnce == (CloseSignalled \/ CloseJobsAsked) /\ AdapterMoves("open", "stopped")

CloseStopped == CloseJobsAsked /\ AdapterMoves("open", "stopped")

CloseJobsChannel == AdapterMoves("stopped", "closed")

(***************************************************************************)
(* ConsumeClaim, one goroutine per partition.                              *)
(***************************************************************************)

ClaimMoves(p, from, to) ==
    /\ Up /\ claim[p] = from
    /\ claim' = [claim EXCEPT ![p] = to]
    /\ UNCHANGED <<broker, loop, adapter, pool, shutdown, panicked, history>>

ClaimReceives(p) == marked[p] <= LogEnd /\ ClaimMoves(p, "recv", "send") /\ UNCHANGED <<ending, jobs>>

\* sarama closes Messages() once the session's context is done.
ClaimRangeEnds(p) == ending /\ ClaimMoves(p, "recv", "off") /\ UNCHANGED <<ending, jobs>>

\* The message claim p has received from sarama.
Current(p) == <<p, marked[p]>>

SendOnJobs(p) ==
    /\ adapter # "closed"
    /\ jobs' = Append(jobs, Current(p))
    /\ ClaimMoves(p, "send", "mark")
    /\ UNCHANGED ending

\* Mutant: the jobs channel has no bound.
EnqueuesUnbounded(p) == SendOnJobs(p)

\* Mutant: a claim that finds the jobs channel full drops the message.
DropsWhenFull(p) ==
    \/ Len(jobs) < BufferSize /\ SendOnJobs(p)
    \/ Len(jobs) = BufferSize /\ ClaimMoves(p, "send", "mark") /\ UNCHANGED <<ending, jobs>>

ClaimEnqueues(p) == Len(jobs) < BufferSize /\ SendOnJobs(p)

ClaimMarks(p) ==
    /\ Up /\ claim[p] = "mark"
    /\ marked' = [marked EXCEPT ![p] = @ + 1]
    /\ claim' = [claim EXCEPT ![p] = "recv"]
    /\ UNCHANGED <<committed, ending, loop, jobs, adapter, pool, shutdown, panicked, history>>

\* case <-h.ctx.Done(): closeJobs, then return; the return ends the session.
ClaimSeesCtxDone(p) == ctxDone /\ ClaimMoves(p, "send", "close") /\ UNCHANGED <<ending, jobs>>

ClaimHasClosed(p) ==
    adapter = "closed" /\ ClaimMoves(p, "close", "off") /\ ending' = TRUE /\ UNCHANGED jobs

ClaimSeesStopped(p) ==
    adapter # "open" /\ ClaimMoves(p, "send", "off") /\ ending' = TRUE /\ UNCHANGED jobs

\* The select picks the send although jobs is closed.
ClaimSendPanics(p) ==
    /\ Up /\ claim[p] = "send" /\ adapter = "closed"
    /\ panicked' = TRUE
    /\ UNCHANGED <<broker, session, loop, jobs, adapter, pool, shutdown, history>>

(***************************************************************************)
(* The worker pool: worker, executeHandler and reportHandlerError.         *)
(***************************************************************************)

WorkerTakes(w) ==
    /\ Up /\ w \notin exited /\ job[w] = NoJob /\ jobs # <<>>
    /\ job' = [job EXCEPT ![w] = Head(jobs)]
    /\ jobs' = Tail(jobs)
    /\ attempt' = [attempt EXCEPT ![w] = [h \in Handlers |-> 1]]
    /\ UNCHANGED <<broker, session, loop, adapter, exited, handled, shutdown, panicked, history>>

HandlerSucceeds(w, h) ==
    /\ Up /\ attempt[w][h] \in 1 .. Retries
    /\ attempt' = [attempt EXCEPT ![w][h] = 0]
    /\ handled' = handled \union {<<job[w], h>>}
    /\ UNCHANGED <<broker, session, loop, jobs, adapter, job, exited, shutdown, panicked, history>>

HandlerFails(w, h) ==
    /\ Up /\ attempt[w][h] \in 1 .. Retries
    /\ attempt' = [attempt EXCEPT ![w][h] = @ + 1]
    /\ UNCHANGED <<broker, session, loop, jobs, adapter, job, exited, handled, shutdown, panicked, history>>

\* The attempts are used up: the error is reported on errorsCh and dropped.
HandlerGivesUp(w, h) ==
    /\ Up /\ attempt[w][h] = Retries + 1
    /\ attempt' = [attempt EXCEPT ![w][h] = 0]
    /\ handled' = handled \union {<<job[w], h>>}
    /\ panicked' = (closer = "closed")
    /\ UNCHANGED <<broker, session, loop, jobs, adapter, job, exited, shutdown, history>>

\* wg.Wait returns.
WorkerFinishes(w) ==
    /\ Up /\ job[w] # NoJob /\ attempt[w] = Idle
    /\ job' = [job EXCEPT ![w] = NoJob]
    /\ UNCHANGED <<broker, session, loop, jobs, adapter, attempt, exited, handled, shutdown, panicked, history>>

\* The select of an idle worker picks stopped, whatever jobs still holds.
WorkerExits(w) ==
    /\ Up /\ w \notin exited /\ job[w] = NoJob /\ adapter # "open"
    /\ exited' = exited \union {w}
    /\ UNCHANGED <<broker, session, loop, jobs, adapter, job, attempt, handled, shutdown, panicked, history>>

(***************************************************************************)
(* Close, the application's context, and the crash of the process.         *)
(***************************************************************************)

CloserMoves(from, to) ==
    /\ Up /\ closer = from /\ closer' = to
    /\ UNCHANGED <<broker, session, loop, jobs, adapter, pool, ctxDone, panicked, history>>

CloseBegins == CloserMoves("open", "signalled")

\* consumerGroup.Close makes a running session end ...
GroupCloses == CloserMoves("signalled", "leaving")

\* ... and returns when no Consume runs any more.
GroupLeft == loop # "session" /\ CloserMoves("leaving", "waiting")

\* Mutant: Close does not wait for the pool (no workersWg.Wait).
CloseSkipsWait == CloserMoves("waiting", "closed")

\* workersWg.Wait returns, errorsCh is closed.
WorkersLeft == exited = Workers /\ CloserMoves("waiting", "closed")

\* The caller of StartConsuming cancels its context before Close has returned.
CancelCtx ==
    /\ Up /\ ~ctxDone /\ closer # "closed"
    /\ ctxDone' = TRUE
    /\ UNCHANGED <<broker, session, loop, jobs, adapter, pool, closer, panicked, history>>

\* The process dies and is started again: only the broker's offsets survive.
Crash ==
    /\ Up /\ closer # "closed" /\ Fault
    /\ lost' = lost \union {m \in Queued \union Held : m[2] < committed[m[1]]}
    /\ redelivery' = TRUE
    /\ marked' = committed
    /\ claim' = [p \in Partitions |-> "off"]
    /\ loop' = "check"
    /\ ending' = FALSE
    /\ jobs' = <<>>
    /\ adapter' = "open"
    /\ job' = [w \in Workers |-> NoJob]
    /\ attempt' = [w \in Workers |-> Idle]
    /\ exited' = {}
    /\ closer' = "open"
    /\ ctxDone' = FALSE
    /\ UNCHANGED <<committed, panicked, handled>>

\* Nothing is left to do: Close has returned and the loop is gone, or a panic.
Terminated ==
    /\ panicked \/ (closer = "closed" /\ loop = "gone")
    /\ UNCHANGED vars

Loop == \/ LoopCheck \/ JoinGroup \/ ConsumeFails \/ ConsumeCanceled \/ LoopReports
        \/ SessionCancelled \/ SessionEnds \/ AutoCommit \/ LoopGone
        \/ CloseStopped \/ CloseJobsChannel

Claim(p) == \/ ClaimReceives(p) \/ ClaimRangeEnds(p) \/ ClaimEnqueues(p) \/ ClaimMarks(p)
            \/ ClaimSeesCtxDone(p) \/ ClaimHasClosed(p) \/ ClaimSeesStopped(p)
            \/ ClaimSendPanics(p)

Worker(w) == \/ WorkerTakes(w) \/ WorkerFinishes(w) \/ WorkerExits(w)
             \/ \E h \in Handlers :
                    HandlerSucceeds(w, h) \/ HandlerFails(w, h) \/ HandlerGivesUp(w, h)

Closer == CloseBegins \/ GroupCloses \/ GroupLeft \/ WorkersLeft

Next ==
    \/ Loop
    \/ \E p \in Partitions : Claim(p)
    \/ \E w \in Workers : Worker(w)
    \/ Closer
    \/ CancelCtx
    \/ Crash
    \/ Terminated

Spec == Init /\ [][Next]_vars

(***************************************************************************)
(* Goroutines that can run do run; the broker and the handlers (30 s       *)
(* timeout) answer.  A blocked send is queued first in, first out by the   *)
(* Go runtime, hence strong fairness of a claim.  Faults, Close and the    *)
(* cancellation are never forced.                                          *)
(***************************************************************************)
ConsumeLoop == \/ LoopCheck \/ JoinGroup \/ ConsumeFails \/ ConsumeCanceled
               \/ LoopReports \/ SessionEnds \/ LoopGone
SessionTold == (GroupClosed \/ ctxDone) /\ SessionCancelled

Fairness ==
    /\ WF_vars(ConsumeLoop)
    /\ WF_vars(SessionTold)
    /\ WF_vars(CloseStopped \/ CloseJobsChannel)
    /\ WF_vars(GroupCloses \/ GroupLeft \/ WorkersLeft)
    /\ \A p \in Partitions : SF_vars(Claim(p))
    /\ \A w \in Workers : WF_vars(Worker(w))

FairSpec == Spec /\ Fairness

-----------------------------------------------------------------------------
(***************************************************************************)
(* Properties.                                                             *)
(***************************************************************************)

\* Every variable stays in its type; the jobs channel within its capacity.
TypeOK ==
    /\ committed \in [Partitions -> Positions]
    /\ marked \in [Partitions -> Positions]
    /\ claim \in [Partitions -> ClaimStates]
    /\ loop \in LoopStates
    /\ ending \in BOOLEAN
    /\ jobs \in Seq(Messages) /\ Len(jobs) <= BufferSize
    /\ adapter \in AdapterStates
    /\ job \in [Workers -> Messages \union {NoJob}]
    /\ attempt \in [Workers -> [Handlers -> 0 .. Retries + 1]]
    /\ exited \subseteq Workers
    /\ closer \in CloserStates
    /\ ctxDone \in BOOLEAN
    /\ panicked \in BOOLEAN
    /\ faults \in 0 .. MaxFaults
    /\ handled \subseteq Messages \X Handlers
    /\ lost \subseteq Messages
    /\ redelivery \in BOOLEAN

\* A message whose offset the group has committed is never delivered again, so it
\* must not be forgotten: it waits in jobs, a worker holds it, every handler has
\* had its attempts on it, or it was in memory at a crash.  ConsumeClaim keeps
\* this by marking a message only after the send on jobs (consumer.go:303).
Accounted(m) == m \in Queued \union Held \union lost \/ Resolved(m)
CommittedIsAccounted ==
    \A p \in Partitions : \A o \in Offsets : o < committed[p] => Accounted(<<p, o>>)

\* Unless a crash or a lost commit lets the broker deliver a message twice, the
\* pool never has two copies of it, and never starts one that is resolved: a
\* rebalance and an orderly end of a session alone duplicate nothing.
OneDelivery ==
    ~redelivery =>
        /\ \A i, j \in 1 .. Len(jobs) : jobs[i] = jobs[j] => i = j
        /\ \A v, w \in Workers : job[v] = job[w] /\ job[v] # NoJob => v = w
        /\ Queued \cap Held = {}
        /\ \A m \in Queued, h \in Handlers : <<m, h>> \notin handled

\* A send on a closed channel (jobs in ConsumeClaim, errorsCh in the loop and in
\* reportHandlerError) kills the process only if the context of StartConsuming
\* was cancelled before Close had returned; cmd/server/main.go cancels it later.
PanicNeedsEarlyCancel == panicked => ctxDone

\* Once Close has returned no handler runs, so that what Shutdown closes next
\* (the e-mail pool, the database) is not in use by a handler (di.go:417).
ClosedIsQuiet ==
    closer = "closed" => \A w \in Workers : job[w] = NoJob /\ attempt[w] = Idle

\* The group's committed offset never moves backwards, whatever session commits.
CommitNeverRegresses == [][\A p \in Partitions : committed'[p] >= committed[p]]_vars

\* The consumer implements MessageLedger, whatever sessions, workers and crashes do: it
\* takes no committed message, lets go of none that is not resolved, commits only what
\* is accounted for, never takes a commit back, and only a crash loses anything.
Ledger == INSTANCE MessageLedger WITH
    committed <- {m \in Messages : m[2] < committed[m[1]]},
    memory    <- Queued \union Held,
    resolved  <- {m \in Messages : Resolved(m)}

KeepsLedger == Ledger!Spec

\* Close returns: the claims, the loop and the workers all let go of each other,
\* even with jobs full and the claims blocked on it.
CloseTerminates ==
    (closer = "signalled") ~> (closer = "closed" \/ panicked \/ (closer = "open" /\ redelivery))

\* While nobody closes the consumer, every message of the log reaches every
\* handler, through rebalances, broker errors and crashes, except those that were
\* committed and still in memory at a crash.
EventuallyHandled ==
    \A m \in Messages :
        <>(Resolved(m) \/ m \in lost \/ CloseSignalled \/ ctxDone)

\* What the comment of Close (consumer.go:207, "gracefully shuts down the consumer
\* group and worker pool") and docs/overview.md:7 promise together: without a crash,
\* a committed message has been handled when Close returns.
GracefulCloseDrains ==
    (closer = "closed" /\ lost = {}) =>
        \A p \in Partitions : \A o \in Offsets : o < committed[p] => Resolved(<<p, o>>)
=============================================================================
