# Verification of the EduLearn notification service

TLA+ models of the notification service (Go), the TLC runs that check them on
small instances, and TLAPS proofs of what holds for every instance. The models
are written from the source; every definition that stands for code is listed
with its file and lines in `PROJECT.json` under `map`.

## 1. The system

The service turns Kafka events and gRPC requests into e-mails, one-time
passwords (OTP) and in-app notifications that are pushed over WebSocket.

    Kafka -> consumer -> jobs channel -> workers -> handler -+-> Redis / Postgres
                                                             +-> EmailSender -> SMTP
                                                             +-> WebSocket hub -> browsers
    gRPC  -> services -> repository / OTP store / senders

| Component (under `src/internal`) | State | Operations |
|---|---|---|
| Kafka consumer, `infrastructure/kafka/consumer.go` | jobs channel, `stopped`, `closeCh`, `errorsCh`, worker group; the group's offsets at the broker | RegisterHandlers, StartConsuming, ConsumeClaim, worker, executeHandler, closeJobs, Close, HealthCheck |
| Event handlers, `application/events` | none of their own | Handle of the OTP-request, forgot-password, e-mail and in-app events |
| Notification repository, `infrastructure/database/gorm` | tables `notifications`, `processed_notifications`; Redis keys `processed:*`, `notification:*`, `user_notifications:*` | Save, Get, List, MarkAsRead, MarkAllAsRead, Delete, Clear, CheckIfProcessed, MarkAsProcessed |
| E-mail sender, `infrastructure/email` | SMTP connection pool, pool of e-mail values, metrics | Send (rate limit, attempts, timeout), Close |
| WebSocket hub, `interfaces/websocket/hub.go` | client map, `totalClients`, five channels, one send channel per client | ServeWS, NotifyInAppMessage, Broadcast, run, readPump, writePump, handlePing, Shutdown, GetMetrics |
| OTP service and store, `application/services/email_otp_service.go`, `infrastructure/redis` | Redis key `otp:<email>` | SendOTP, VerifyOTP |
| Rate limiter, `infrastructure/ratelimit` | one counter per key and window | Allow, Reset |
| Notification service and sender strategies, `application/services`, `infrastructure/notification` | none | CreateAndQueue and the CRUD calls |
| Broker adapter and producer, `infrastructure/kafka` | publish counters | Publish, PublishOTPVerifiedEvent, PublishBatch |
| Bootstrap, `bootstrap/di.go`, `cmd/server/main.go` | the container | Start, Shutdown |
| gRPC interface, `interfaces/grpc`, `infrastructure/grpc` | none of its own | SendOTP, VerifyOTP, ForgotPassword, the six calls on notifications; Serve, GracefulStop; interceptors |
| Authentication of WebSocket connections, `interfaces/websocket/auth.go` | none | Authenticate |
| Health checks, `infrastructure/health` | none | /healthz, /ready |
| Templates, observability, configuration | no state a property depends on | |

How they interact: the consumer calls the handlers from its workers, several at
a time and each up to `Retries` times; the handlers call the repository, the
OTP store and the sender, and hand in-app messages to the hub through a channel
that drops when it is full; Shutdown stops the hub first, then the consumer,
then the sender's pool and the stores. The application's context is cancelled
only after that.

What is hard, and what makes each part correct:

* *Consumer*: offsets are marked when a message is put on a channel in memory,
  before any handler has run. It is correct when no committed message is
  forgotten, nothing is delivered twice without a cause, no goroutine sends on a
  closed channel, and Close returns, and returns only when no handler runs.
* *Handlers*: check, effect and marker are separate steps on two stores, around
  an e-mail that cannot be taken back. They are correct when the markers tell
  the truth and duplicates have only the causes that cannot be avoided. Two of
  the stores are not theirs alone: users delete notifications, and Redis keeps one
  OTP per address, for whoever stores one.
* *Hub*: one goroutine owns the map, but pumps, Shutdown and the sweep work on
  the same channels. It is correct when the map, the count and the channels
  agree, a user sees only their own notifications, in order, and dead
  connections leave.
* *Repository*: two kinds of cache entries beside the rows, filled and
  invalidated in steps of their own. It is correct when a stale entry has one of
  a few known causes and does not last, and nobody sees another user's rows.
* *OTP*: codes are saved, verified and deleted by address, so that requests for
  the same address act on each other's codes. It is correct when a code is
  accepted once, and a mailed code stays usable, but for the known races.
* *Rate limiter*: a counter per window, counted after the window was computed.
* *Sender and lifecycle*: attempts that outlive the call that made them use a
  pool that Shutdown closes. It is correct when no connection has two users and
  Shutdown drains before it closes, and ends.

`PROJECT.json` lists these hazards one by one, at the line where they bite.

## 2. Modules

| Module | Models | Kind |
|---|---|---|
| `MessageLedger` | what the consumer promises for a topic's messages | abstract specification |
| `KafkaConsumer` | the consumer, with the broker and sarama as its environment | specification, mutants, properties |
| `MCKafkaConsumer` | symmetry for TLC | instance |
| `KafkaConsumerProofs` | TLAPS proofs about `KafkaConsumer` | proofs |
| `EventDelivery` | the four handlers, the processed markers, the fate of a mail | specification, mutants, properties |
| `MCEventDelivery` | symmetry | instance |
| `EventDeliveryProofs` | TLAPS proofs about `EventDelivery` | proofs |
| `WsHub` | the hub, its clients, the sweep and Shutdown | specification, mutants, properties |
| `MCWsHub` | tokens of the connections, symmetry | instance |
| `WsHubProofs` | TLAPS proofs about `WsHub` | proofs |
| `NotificationStore` | gRPC calls on notifications, service, repository, caches; CreateAndQueue | specification, mutants, properties |
| `MCNotificationStore` | owners and calls | instance |
| `NotificationStoreProofs` | TLAPS proofs about `NotificationStore` | proofs |
| `OtpService` | SendOTP, VerifyOTP, the code in Redis, the event of a verification | specification, mutants, properties |
| `MCOtpService` | symmetry | instance |
| `OtpServiceProofs` | TLAPS proofs about `OtpService` | proofs |
| `RateLimiter` | the fixed-window limiter | specification, mutants, properties |
| `MCRateLimiter` | symmetry | instance |
| `RateLimiterProofs` | TLAPS proofs about `RateLimiter` | proofs |
| `MailSender` | EmailSender.Send, its attempts and the SMTP pool | component, extended by `ServiceLifecycle` |
| `ServiceLifecycle` | configuration, NewContainer, Start, Shutdown with mails under way, /ready | composition, mutants, properties |
| `MCServiceLifecycle` | nothing but the name | instance |
| `ServiceLifecycleProofs` | TLAPS proofs about `ServiceLifecycle` and `MailSender` | proofs |

The modules meet where the components do. `ServiceLifecycle` composes the
process with `MailSender` by extending it: main's steps and the sender's
interleave, and Consumer.Close and GracefulStop wait for the sender's calls.
`EventDelivery` says what becomes of the mails whose attempts `MailSender` lets
interleave, and takes the limiter's answer as a choice that `RateLimiter`
resolves. `NotificationStore` takes in-app events as calls of SaveNotification;
the rest of their handler is in `EventDelivery`.

A definition whose comment begins with *Mutant:* is not part of a
specification: it is a plausible bug of the definition that follows, and TLC
finds the property named with it in `PROJECT.json` violated when it takes that
definition's place.

### 2.1 KafkaConsumer

| Variable | Code |
|---|---|
| `committed`, `marked` | the group's offsets at the broker; the offsets passed to `session.MarkMessage`, which are also where each claim reads |
| `claim[p]` | where `ConsumeClaim` of partition `p` is: in the range, in the select, before `MarkMessage`, in `closeJobs` |
| `loop` | the goroutine of `startSubscription` that calls `Consume` |
| `ending` | the session's context is done |
| `jobs` | the jobs channel (`BufferSize` is its capacity) |
| `adapter` | `closeJobs`: `stopped` closed, then `jobs` closed |
| `job[w]`, `attempt[w][h]`, `exited` | a worker's message, the attempt each handler is in, the workers that have returned |
| `closer` | `Close`: `closeCh` closed, group closing, waiting for the workers, `errorsCh` closed |
| `ctxDone` | the context given to StartConsuming is cancelled |
| `handled`, `lost`, `redelivery`, `faults` | history: resolved pairs, committed messages in memory at a crash, whether the broker may deliver twice, the number of faults |

Every communication on a channel, every call of sarama and every return of a
handler is an action of its own; the select of ConsumeClaim is four actions
(`ClaimEnqueues`, `ClaimSeesCtxDone`, `ClaimSeesStopped` and, when `jobs` is
closed already, `ClaimSendPanics`). sarama is outside the repository: a session
starts at the committed offsets, marks are committed while it runs or when it
ends (the flush may be lost), Consume returns once all claims have returned,
and a claim that returns ends the session. A message's content, the topic and
the logging are left out; every topic has the same `Handlers`.

`MessageLedger` is what the consumer promises of all this to the rest of the
system: a message is *taken* while it is not committed, *resolved* by the
handlers, *let go of*, and committed only while it is in memory, resolved or was
lost; a commit is for good and only a crash loses anything. `KafkaConsumer`
implements it (`KeepsLedger`) with the mapping

    committed  the messages below the group's offsets
    memory     what is on the jobs channel (`Queued`) or with a worker (`Held`); a
               message in a claim's hand is taken only when the claim enqueues it
    resolved   the messages every handler has had its attempts on
    lost       the same variable

Positions, sessions, marks, the adapter and Close disappear in the ledger: their
steps are stutters, but for those that take, commit or lose a message.

### 2.2 EventDelivery

A delivery is one message in the hands of a worker. `pc[d]` walks through
Handle: *check* (Redis), *count* (database), *refill*, *prepare* (OTP, template),
*allow* (rate limiter), *smtp*, *save*, *push*, *mark*, *fill*. `run[d]` is the
run of Handle inside `executeHandler`, `try[d]` the attempt inside `Send`.
`cache`, `marker`, `rows` and `otp` are the stores; `otp` has one code per address,
as the key is `otp:<email>`. `accepted` holds the SMTP
attempts the server took over, `refused` those it refused at the end of DATA
(the code takes them for sent), `orphans` those whose caller has timed out.
`excused` records the events to which something exceptional happened: an
attempt that timed out or left an empty mail, a marker that could not be
written, a crash, an overlap with another delivery. Any call to Redis, the
database or SMTP may fail; a write that fails may have taken effect all the same
(its reply was lost). In-app events without EventID share the row id of the
empty string (`NoId`).

The table and the OTP keys have other hands on them. `RowsDeleted` is what
DeleteNotification (one row) and ClearNotifications (those of a user) do to the table:
any set of rows may go, up to `MaxRemovals` times each, and the id can then be inserted
again; `removals` counts it. `CodeReplaced` is a SaveOTP of the gRPC calls, SendOTP's new
code or the one a failed VerifyOTP stores again, and `CodeRemoved` the DeleteOTP of a
successful one or the expiry: what the calls do inside is in `OtpService`, here they may
come at any time. `displaced` records the OTP events whose code another hand, the OTP
events of the same address included, has replaced or removed since they stored it.

Malformed events are refused in every run and so use up their retries. A crash
ends every delivery that is running or waiting for its next run; mails in
transit may still arrive.

`Valid` are the kinds of event whose payload the Validate methods accept.
`Composes` draws a code for every run of the OTP handler and stores it for the address
(`StoresCode`); `RenderFails` are the
templates that cannot be found, parsed or executed.

### 2.3 WsHub

`clients` is the set of connections in the map, `total` is `totalClients`;
`notify`, `broadcast`, `register`, `unregister` and `send[c]` are the channels
with their capacities; `loop` is the run goroutine between, and in the middle
of, its cases, with `note` and `targets` for a fan-out or a sweep in progress;
`sock`, `reader`, `writer` are a connection and its two pumps; `closed` the
closed send channels; `stopping` the progress of Shutdown, whose signal and
whose walk over the clients are two steps. Notifications are numbered in the
order in which they are handed to NotifyInAppMessage. A connection presents a
token; `Subject` is the user its claims name (`user_id`, else `sub`, which may be
empty, else `id`), and a connection that names none is refused.

Time is abstracted by two facts of the code's constants: the read deadline
(60 s) is shorter than the age at which a client is stale (120 s), so a stale
client's readPump is gone (`Silence`), and the ticker's period (54 s) leaves the
hub the time to handle the requests queued before (`SweepBegins`).

### 2.4 NotificationStore

`rows` is the table: `absent`, `unread` or `read` for each id, and ids are in
the order of `created_at`. `cache` has a key `notification:<id>` per notification
and a key `user_notifications:<user>:page1` per user. A request `r` makes a call
`call[r]`, is at the step `pc[r]`, and has read, or answers, `got[r]`. A call is a
record of its kind, user, id, page size and *shape*: `first` is an unfiltered
first page, which is cached; `second` stands for every query that is not; `none`
is a request without Params, whose handler panics and is recovered.

A read is *lookup* (Redis), *find* or *count* and *page* (database), *fill*
(Redis). A write is *write* (database), *dropEntry* (only MarkAsRead and
DeleteNotification delete the notification's own key), *dropPage*. What the five
writing methods of the repository do is one record each: the rows affected, what
they become, whether it is an error that there are none, and which key is
deleted first. Any step may fail; a write may take effect and be reported as
failed. CreateAndQueue goes on with *send*: the in-app strategy saves the notification
a second time and invalidates the page (*dropAgain*) before it pushes (*push*).

`excused` is a history of keys: those that a known cause has left stale. A key
leaves it as soon as it tells the truth again.

### 2.5 OtpService

One address, as all keys carry it. `stored` is the Redis key, `mpc[s]` and
`vpc[v]` are the SendOTP and VerifyOTP requests; a SendOTP request is also the code
it draws. `copy[v]` is the OTP a verification has read. *read* is GetOTP with the
comparison; a failed one goes on to SaveOTP in two steps, as the remaining time
to live is computed first and refused when it is over (*resave*, *set*); a
successful one to DeleteOTP and the event (*delete*, *publish*). `lapsed` are the
codes whose time is over, which Redis may notice a little later (`Expire`).
A crash cuts requests off and resets the counters; Redis survives.
`latest` and `excused` are history.

### 2.6 RateLimiter

One key. `window[s]` is the window a caller computed from the clock before its
Incr, `counter[w]` and `expiring` are the window's key and whether it has an
expiry; Incr and Expire are two commands, and each may fail with or without
effect. `late` is history: windows counted again after their key had expired.

### 2.7 MailSender and ServiceLifecycle

`spc[s]`, `try[s]` are a call of Send and its attempt. The attempt `a` is a goroutine
of its own: `apc[a]` is *get*, *dial*, *smtp*, *back* (the deferred return of the
connection), *over*; Send receives its result or times out, and the attempt goes
on. A connection carries the name of the attempt that dialled it; `pooled` is the
pool's channel, `closed` whether it was closed. Receiving from and sending to the
closed channel panic outside of the attempt's recover (`GetClosed`, `PutClosed`).

`phase` is where main is: *config*, *boot* (`opened` grows in `BootOrder`), *wired*,
*running*, the eight parts of `ShutdownOrder`, *exited* or *aborted* (os.Exit and
Logger.Fatal). `grpc` is the goroutine of the gRPC server, which may call Serve
before, during or after GracefulStop. Senders are Kafka workers or gRPC requests;
Consumer.Close waits for the former, GracefulStop for the latter. `Ready` is the
answer of /ready in a state, for any answers of the dependencies.

## 3. Runs

| Run | Instance | Shows |
|---|---|---|
| `consumer_pool` | 2 partitions of 1 message, 2 workers, 1 handler, jobs of 1, 2 attempts, 1 fault, fair | `TypeOK`, `CommittedIsAccounted`, `OneDelivery`, `PanicNeedsEarlyCancel`, `ClosedIsQuiet`, `CloseTerminates`, `EventuallyHandled`; the refinement `KeepsLedger` |
| `consumer_drain` | 2 partitions of 2 messages, 2 workers, 1 attempt, 1 fault | violation of `GracefulCloseDrains` |
| `delivery_safety` | 2 deliveries over 5 events (two OTP events of one address, in-app with and without EventID, malformed), 2 runs, 2 SMTP attempts, 1 crash, each row deleted once, the OTP key replaced and removed by others | `TypeOK`, `MarkedAfterEffect`, `MailedOnceUnlessExcused`, `PushedOnceUnlessDeleted`, `StoredCodeWasMailed` |
| `delivery_duplicates` | 2 deliveries over 4 events (e-mail, the two in-app ones, malformed), no crash and no deletion | violation of `NoDuplicateDelivery` |
| `hub_safety` | 3 connections, one of them refused, the others of one user; 2 users, 2 notifications, broadcast of 2, other channels of 1, unregister of 2 | `TypeOK`, `MapConsistent`, `PanicOnlyAtShutdown`, `OrderedDelivery`, `SweepNeverBlocks` |
| `hub_liveness` | 2 connections, no notifications, fair | `DeadClientsLeave` |
| `hub_fanout` | 2 connections, 2 notifications | violation of `FanOutProtected` |
| `store_caches` | 2 requests, 2 notifications of one user, 1 of them stored; another user who asks for one; page sizes 0 and 1; 2 writes; keys expire | `TypeOK`, `StaleOnlyWhenExcused`, `OwnNotificationsOnly`, `LongPageOnlyFromCache`, `CreatePushesOnlyDeleted`, `StalenessEnds` |
| `limiter_windows` | 5 callers, rate 2, 3 windows | `TypeOK`, `RatePerWindow`, `RefusedOnlyWhenUsedUp` |
| `otp_safety` | 2 SendOTP, one of them without a user id, 3 VerifyOTP, 2 attempts allowed, 1 crash | `TypeOK`, `AcceptedOnceUnlessExcused`, `StoredIsLatest`, `MailedCodeStaysUsable`, `PublishMetricsAgree` |
| `otp_attempts` | as `otp_safety`, 3 attempts allowed, no crash | violation of `AttemptsAreLimited` |
| `service_shutdown` | a worker's and a request's Send of 2 attempts each, pool of 1, fair | `TypeOK`, `OneUserPerConnection`, `DrainedBeforeClosed`, `PanicOnlyByOrphan`, `ReadyBeforeDrain`, `ShutdownEnds` |

Bounds, and why they are enough.

* *Consumer*: two partitions and a channel of one make claims block and compete; two
  workers make completion out of order and an exit beside a running handler possible;
  two attempts are what a retry needs. One fault (a broker error, a rebalance, a lost
  commit or a crash) is enough for every property to be tested by its mutant. One
  message a partition is what liveness lets TLC afford; `consumer_drain` has two, so
  that there is a message behind the one in progress, and the safety properties are
  proved for any number (4.1).
* *Delivery*: two deliveries are what a race needs; two runs and two attempts are
  what retries inside retries need. One deletion per row lets an id be inserted
  again, once more than the primary key would allow. The two OTP events are of one
  address, so that each can displace the other's code, and both deliveries may be of one
  of them, so that a retry or a redelivery replaces its own. In Handle an OTP event does all that a
  forgot-password or an e-mail event does, and stores a code before; the latter are in
  `delivery_duplicates` and in the proofs.
* *Hub*: two connections of one user let a fan-out be interrupted between two
  sends; the second user's notifications must reach neither. `UnregisterCap` is the
  number of connections, which is the condition under which the code's blocking
  send in handlePing is safe (64 in the code): with more stale connections than
  that the hub would block itself.
* *Store*: `MaxWrites` is two, so that a write can invalidate what a read between two
  writes has filled; two requests are what each of the races needs. Size 0 asks
  for the default of ten, more than there are, and size 1 for less, so that a page
  cached for one size can answer a request for the other. The second user owns
  nothing and asks for a notification of the first; that no list shows the rows of
  another is left to the proof (`OthersStayHidden`). StalenessEnds needs no
  more than that the writes come to an end.
* *Limiter*: five callers are more than twice the rate, so that a window can fill,
  refuse and fill again after its key has expired; the third window keeps the
  clock going while a late caller still counts in the first.
* *OTP*: two codes are what a verification of an older one needs beside a newer;
  three verifications let one store again what a second deletes while a third
  reads. `MaxAttempts` is two instead of three in `otp_safety`, and three in
  `otp_attempts`, where all three verifications are wrong guesses.
* *Lifecycle*: a pool of one connection is full and empty within one mail; two
  attempts let an abandoned one run beside its successor.

Deadlock is checked except where the instance ends: clients of `RateLimiter` and
`OtpService` are used up, and the process of `ServiceLifecycle` exits.

Fairness. Goroutines that can run are run by the Go scheduler (weak fairness of
the loop, the closer, the workers, the pumps' answers, the steps of Shutdown and
of Send). A goroutine blocked in a channel send is queued first in, first out,
and select chooses at random among ready cases: strong fairness of a claim, of a
leaving pump and of the cases of `run`. Handlers return, as each has a context of
30 s, and Send stops waiting for an attempt after SendTimeout: that `TimesOut` is
a step of a fair action is what `ShutdownEnds` rests on. Redis drops a key when its
expiry is reached (weak fairness of `Expire` in `NotificationStore`). Nothing forces a
fault, a rebalance, an answer of the SMTP server, a call of Close or Shutdown, a
connection, a request or the next step of one.

Disagreements with what the repository says of itself, each found by a run:

* `consumer_drain`: Close is called graceful, but idle workers leave although
  `jobs` holds messages whose offsets are committed; they are lost.
* `delivery_duplicates`: "Duplicate delivery prevention" does not hold for two
  deliveries of an event that overlap, or when the marker of the first is lost.
* `hub_fanout`: handleBroadcast is said to be protected by RLock, but lets go of
  it before it sends, and Shutdown closes the channels in between.
* `otp_attempts`: `MaxOTPAttempts = 3` (otp.go:16), "maximum OTP attempts exceeded"
  (otp.go:78) and "Update attempts in storage" (email_otp_service.go:113) describe a
  limit, but Verify returns for a wrong code before it counts the attempt (otp.go:71):
  what is stored again has none counted, and the code verifies after any number of
  wrong guesses.

What the passing properties say of the code, where it may surprise:

* `StaleOnlyWhenExcused` lists every way in which Redis comes to differ from the
  database: an invalidation that failed, a write whose reply was lost, a read that
  filled the cache after a write it had not seen, and MarkAllAsRead and
  ClearNotifications, which delete the page but no notification's own key.
* `LongPageOnlyFromCache`: the page's key does not carry its size, so that a cached
  page may be longer than asked for. The property permits that, as nothing in the
  repository forbids it; what it rules out is that the database answers such a page.
* `CreatePushesOnlyDeleted`: CreateAndQueue saves an in-app notification, and its
  strategy saves it again; the primary key makes the second save fail, and the
  push never happens unless the row was deleted in between.
* `PushedOnceUnlessDeleted`: the primary key is what keeps a redelivered in-app event
  from being pushed again, also after a lost marker or a crash. It does so only as long
  as the row is there: once the user has deleted it, a redelivery saves and pushes it
  again. Events without EventID share one row id, so that the second is lost, or pushed
  if the first row has been deleted.
* `StoredCodeWasMailed` excepts another hand on the key of the address: a second OTP
  event or a SendOTP whose mail fails leaves a code nobody was sent in place of the
  mailed one, and a verification or the expiry removes what is there.
* `AcceptedOnceUnlessExcused`, `StoredIsLatest`, `MailedCodeStaysUsable`: a failed
  verification stores again what it has read, and a successful one deletes by
  address; in a race either acts on a code it has not read.
* `PanicOnlyByOrphan`: Shutdown waits for Send but not for the attempts Send has given
  up on; such an attempt, and nothing else, can panic on the closed pool.
* A gRPC server whose Serve comes after GracefulStop ends the process with
  Logger.Fatal in the middle of Shutdown (`ListenFails` after `StopServer`).

## 4. Proofs

### 4.1 KafkaConsumer

`KafkaConsumerProofs` proves, for any partitions, log length, workers, handlers,
buffer size, attempts and number of faults (`ConsumerAssumption` is all that is
assumed of them):

| Theorem | Statement |
|---|---|
| `TypeCorrect` | `Spec => []TypeOK` |
| `CommittedAccounted` | `Spec => []CommittedIsAccounted` |
| `NoPanic` | `Spec => []PanicNeedsEarlyCancel` |
| `QuietWhenClosed` | `Spec => []ClosedIsQuiet` |
| `CommitMonotone` | `Spec => CommitNeverRegresses` |
| `LedgerImplemented` | `Spec => KeepsLedger` |
| `DeliveredOnce` | `Spec => []OneDelivery` |

The inductive invariant `IInv` has four parts. `TypeOK`. `PoolInv`: a worker
without a message runs no handler, and one that has left holds none; this makes
a returned worker group quiet. `SessionInv`: committed offsets are at most the
marked ones, and every *marked* message is accounted for; the properties speak of
committed messages only, but a commit copies the marks, so the invariant must be
about them, and about the message a claim has put on `jobs` and not yet marked.
`ShutdownInv`: how far the loop, the claims, `closeJobs` and Close can be
from each other: the jobs channel is closed only when no claim of the session
can be in its select, unless the context was cancelled, and `errorsCh` only when
the workers have left. `Invariance` proves `Spec => []IInv` from `InitIInv`,
`TypeNext`, `PoolNext`, `SessionNext` and `ShutdownNext`; each of these has one
step per action.

`LedgerNext` maps every step, under `IInv`, to a step of `MessageLedger` or to a
stutter: `ClaimEnqueues` takes a message, the handlers' ends resolve it, the
commits commit, a crash loses; that only accounted messages are committed is
`SessionInv`.

`DeliveredOnce` has to say how far a claim has come, as the property speaks only of
the copies in the pool. `Sent` are the messages below the partition's mark, and the
one at the mark that the claim has yet to mark; `Seen` are those the pool holds or has
handled. As long as nothing allows a redelivery, what is seen was sent (`SentInv`), a
new session goes on where the marks ended (`GoesOnInv`), and a claim puts on `jobs` what
is not yet sent.

### 4.2 RateLimiter

`RateLimiterProofs` proves, for any finite set of callers, rate and number of windows
(`LimiterAssumption`):

| Theorem | Statement |
|---|---|
| `TypeCorrect` | `Spec => []TypeOK` |
| `RateHolds` | `Spec => []RatePerWindow` |
| `RefusalsJustified` | `Spec => []RefusedOnlyWhenUsedUp` |

The invariant adds to the three that a caller past its first step has a window
(`WindowInv`) and that no key counts more calls than have been made in its window
(`CountInv`): a refusal means a count above the rate, so that many calls were
made. `RatePerWindow` is kept because the count a call is let through with is
above the number let through before, or else the window is in `late`. The rest is
counting: adding a caller to a set that lacks it adds one to its size.

### 4.3 OtpService

`OtpServiceProofs` proves, for any requests, attempts allowed and crashes
(`OtpAssumption`):

| Theorem | Statement |
|---|---|
| `TypeCorrect` | `Spec => []TypeOK` |
| `AcceptedOnce` | `Spec => []AcceptedOnceUnlessExcused` |
| `LatestStored` | `Spec => []StoredIsLatest` |

`StoredIsLatest` is inductive with the types. A code accepted twice needs three facts:
a code not asked for yet is stored nowhere (`DrawnInv`), so that no SendOTP brings an accepted code
back; an accepted code whose delete is over is gone, or excused (`GoneInv`); and a
verification that reads a code in between two others' read and delete excuses it
(`OnceInv`). `CopyInv` keeps what a verification has read an OTP.

`MailedCodesStayUsable` (`Spec => []MailedCodeStaysUsable`) and `MetricsAgree`
(`Spec => []PublishMetricsAgree`) are kept apart from `IInv`. For the first the code
saved last is followed from its save, before anybody knows whether the mail went out:
it stays in Redis until a verification that accepted it is past its delete
(`UsableInv`). For the second, only finitely many verifications are answered at any
time, though there may be infinitely many to come (`MetricsInv`).

### 4.4 EventDelivery

`EventDeliveryProofs` proves, for any deliveries, events, addresses, retries, deletions
and crashes
(`DeliveryAssumption`):

| Theorem | Statement |
|---|---|
| `TypeCorrect` | `Spec => []TypeOK` |
| `MarksFollowEffects` | `Spec => []MarkedAfterEffect` |
| `DuplicatesAreExcused` | `Spec => []MailedOnceUnlessExcused` |
| `RepeatedPushesCostDeletions` | `Spec => []PushedOnceUnlessDeleted` |
| `StoredCodesAreMailed` | `Spec => []StoredCodeWasMailed` |

The steps are first reduced to what they have in common: those of one delivery leave
the others where they are (`Alone`), follow Handle (`Flow`) and change one thing at
each place (`Alters`); each part of the invariant is proved from these three.
`RouteInv` says which events come to which part of Handle, `EffectInv` that a run at
its marker has had the effect. `PushInv` makes `PushedOnceUnlessDeleted` inductive by
counting: the runs that have pushed a row and those about to are at most its deletions,
and one more while the row is there; an insert needs the row to be absent, and a
deletion takes the row and adds one to the count. That
mails are not repeated needs `ExcuseInv` (two deliveries at work on one event, and
attempts given up on, have excused it) and `MailInv` (otherwise a mail handed over is
marked or being marked, and a run that still has to send meets neither mail nor
marker). `ReportedOnce` counts refusals after DATA as well, for the property's count
of accepted mails alone is not kept by a retry. `CodeInv` follows the stored code from
its save to the end of Send, for the events that are neither excused nor displaced: as
long as no other hand has been on the key of the address, it holds the code of the run
that is at work, or of the mail that was sent.

### 4.5 WsHub

`WsHubProofs` proves, for any finite set of connections, any users, tokens, capacities
and number of notifications (`HubAssumption`):

| Theorem | Statement |
|---|---|
| `TypeCorrect` | `Spec => []TypeOK` |
| `MapStaysConsistent` | `Spec => []MapConsistent` |
| `NoPanicBeforeShutdown` | `Spec => []PanicOnlyAtShutdown` |
| `DeliveredInOrder` | `Spec => []OrderedDelivery` |
| `SweepHasRoom` | `Spec => []SweepNeverBlocks` |

`MapConsistent` holds since a connection asks to be registered once, before anything
else happens to it (`RegisterInv`), only a connection that has left asks to be
unregistered, and only such a one is closed before Shutdown (`LeavingInv`), and the
`run` goroutine alone takes clients out of the map (`LoopInv`). `OrderInv` is one
statement for the whole way of a notification: each of the two hub channels and each
connection's channel is in ascending order and ahead of the one behind it, and the
notification of a fan-out is ahead of all that its targets still wait for.
`SweepNeverBlocks` is counting: what waits on `unregister` are distinct
connections, none of them a target of the sweep.

### 4.6 ServiceLifecycle and MailSender

`ServiceLifecycleProofs` proves, for any senders, number of attempts and size of the
pool (`LifecycleAssumption`, `MailAssumption`):

| Theorem | Statement |
|---|---|
| `TypeCorrect` | `Spec => []TypeOK` |
| `ConnectionsAreExclusive` | `Spec => []OneUserPerConnection` |
| `DrainComesFirst` | `Spec => []DrainedBeforeClosed` |
| `OnlyOrphansPanic` | `Spec => []PanicOnlyByOrphan` |
| `NotReadyWhileClosing` | `Spec => []ReadyBeforeDrain` |

`MailInv` is about the sender alone: the attempts Send has not come to have not
started (`LaterAttemptsWait`), an attempt holds a connection exactly while it uses it
(`HeldWhileUsed`), and the connection an attempt may still dial is nowhere yet
(`UndialledIsNowhere`). `LifeInv` ties main to the rest: what is open by where main is
(`OpenedInv`), when gRPC accepts (`ServingInv`), when somebody can be sending
(`SendingInv`: the drain is over before the phases that close), and when the pool is
closed (`ClosedInv`). An attempt that is not abandoned belongs to a Send under way,
which excludes a closed pool.

### 4.7 NotificationStore

`NotificationStoreProofs` proves, for any requests, finite set of notifications, users,
owners, calls and page sizes (`StoreAssumption`):

| Theorem | Statement |
|---|---|
| `TypeCorrect` | `Spec => []TypeOK` |
| `StaleKeysAreExcused` | `Spec => []StaleOnlyWhenExcused` |
| `OthersStayHidden` | `Spec => []OwnNotificationsOnly` |
| `PagesAreInOrder` | `Spec => []LongPageOnlyFromCache` |
| `PushesFollowDeletes` | `Spec => []CreatePushesOnlyDeleted` |

`Newest` chooses the enumeration of a set of notifications from the newest on; the
pages are what their definition says only if there is one. `RankOrders` constructs it
without induction: the rank of a notification is the number of those no older, a
one-to-one map onto 1 .. n because a finite set maps one-to-one only onto all of a set
of its size. `SelectFacts` then says of every query that its page is one of `PagesOf`
the user (own notifications, newest first) and no longer than asked for.

The invariant `IInv` keeps the types of the table, the steps each call can be at
(`CallInv`), that Redis holds under the key of a user pages of that user only
(`CacheInv`), and that what a request has read is fit to be shown to its caller
(`GotInv`): the page it will fill Redis with is already of the right user.
`StaleOnlyWhenExcused` is inductive with it. `FreshStays` is the lemma behind it: a key
depends only on the rows of its notification or its user, so that a write can make
stale only the keys its call is about to delete, has excused, or, for an insert, does
not have, as no entry is kept of a row that is absent. For `CreatePushesOnlyDeleted`, a
CreateAndQueue past its save has its row or the row has been deleted, and past the
second save the latter (`SavedInv`).

Every inductive invariant was checked by TLC on the run of its module before it was
proved, without the conjuncts that only bound a value's type and that TLC cannot
evaluate.

### What is only model-checked

Every invariant and every safety property of steps that a run checks is proved.
What is left to TLC is liveness: `CloseTerminates`, `EventuallyHandled`,
`DeadClientsLeave`, `StalenessEnds` and `ShutdownEnds` rest on fairness, hence on
`ENABLED`, which the prover does not handle.

## 5. Not modelled, and why

* Generated protobuf code is a transcription of the schema.
* Observability: the tracer and the metrics are opened and closed by
  `ServiceLifecycle`; what is logged, counted or traced influences nothing. The
  counters of the hub and the sender have no reader; those of the broker are in
  `OtpService`.
* Configuration is read once and may end the process; names and codes of errors
  are told apart only in the text of answers, and most of `errors.go` has no caller.
* Without a caller in the repository: the broker's Publish, PublishBatch,
  PublishNotificationEvent and Health, the producer's ProduceWithRetry and
  ProduceAsync, RateLimiter.Reset, RedisCache.Invalidate, and the interceptors for
  errors and request ids.
* Message payloads and wording are abstracted; validation is "accepted or not".
  validateRequest of the gRPC handler refuses nothing.
* `KAFKA_RETRIES=0`, with which a handler is never called and the message dropped,
  and a window of zero seconds, with which the limiter divides by zero, are excluded
  by assumption. Orders of completion between messages are left open, as the code
  promises none.
* The display category of an in-app message is looked for in a map whose order of
  iteration is random: words of two categories give either. Only wording depends on it.

## 6. Plan

1. *Refine*: an abstract lossy, ordered delivery per user, implemented by `WsHub`; a
   table with a cache that tells the truth but for excused keys, implemented by
   `NotificationStore`. The invariants proved above are what these refinements need.
2. *Prove*: the action properties that follow from the invariants, such as that a
   processed marker is never taken back and a delivered notification never withdrawn.
