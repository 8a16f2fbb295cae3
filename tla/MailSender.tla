----------------------------- MODULE MailSender -----------------------------
(***************************************************************************)
(* EmailSender.Send (src/internal/infrastructure/email/email_sender.go):   *)
(* the attempts, each a goroutine that Send stops waiting for after        *)
(* SendTimeout but cannot stop, and the pool of SMTP connections the       *)
(* attempts take from and put back to.  What becomes of the mail is in     *)
(* EventDelivery, how the limiter decides in RateLimiter.                  *)
(***************************************************************************)
EXTENDS Integers, FiniteSets

CONSTANTS
    Senders,        \* calls of Send
    MaxRetries,     \* EmailConfig.MaxRetries: attempts per Send
    PoolSize,       \* EmailConfig.PoolSize
    NoConn          \* an attempt without a connection

Attempts == Senders \X (1 .. MaxRetries)    \* also the connection each dials

ASSUME MailAssumption ==
    /\ MaxRetries \in Nat \ {0} /\ PoolSize \in Nat \ {0}
    /\ NoConn \notin Attempts

VARIABLES
    spc,        \* where each sender is
    try,        \* the attempt it is in
    apc,        \* where each attempt is
    result,     \* what it has put on its errChan
    conn,       \* the connection it holds
    pooled,     \* connections in the pool's channel
    closed,     \* the pool's channel is closed
    panicked    \* an attempt has panicked: the process dies

attempts == <<apc, result, conn, pooled, panicked>>
mailVars == <<spc, try, attempts, closed>>

Resting == {"idle", "sent", "failed"}

MailInit ==
    /\ spc = [s \in Senders |-> "idle"]
    /\ try = [s \in Senders |-> 1]
    /\ apc = [a \in Attempts |-> "none"]
    /\ result = [a \in Attempts |-> "none"]
    /\ conn = [a \in Attempts |-> NoConn]
    /\ pooled = {} /\ closed = FALSE /\ panicked = FALSE

Goto(s, from, to) == spc[s] = from /\ spc' = [spc EXCEPT ![s] = to]

This(s) == <<s, try[s]>>

\* The attempt's context has ended: Send is at a later attempt or has returned.
Abandoned(a) == ~(spc[a[1]] = "wait" /\ try[a[1]] = a[2])

-----------------------------------------------------------------------------
(***************************************************************************)
(* The loop of Send, and sendWithTimeout.                                  *)
(***************************************************************************)

\* RateLimiter.Allow lets the mail pass ...
Send(s) == Goto(s, "idle", "start") /\ UNCHANGED <<try, attempts, closed>>

\* ... or refuses it, or fails.
RateLimited(s) == Goto(s, "idle", "failed") /\ UNCHANGED <<try, attempts, closed>>

Launch(s) ==
    /\ Goto(s, "start", "wait")
    /\ apc' = [apc EXCEPT ![This(s)] = "get"]
    /\ UNCHANGED <<try, result, conn, pooled, panicked, closed>>

\* The next attempt, after a pause, or the end of Send.
TriesAgain(s) ==
    IF try[s] < MaxRetries
    THEN Goto(s, "wait", "start") /\ try' = [try EXCEPT ![s] = @ + 1]
    ELSE Goto(s, "wait", "failed") /\ UNCHANGED try

Receive(s) ==
    /\ apc[This(s)] = "over"
    /\ \/ /\ result[This(s)] = "ok"
          /\ Goto(s, "wait", "sent") /\ UNCHANGED try
       \/ result[This(s)] = "error" /\ TriesAgain(s)
    /\ UNCHANGED <<attempts, closed>>

\* Mutant: whoever stops waiting puts the connection of the attempt back.
TimesOutAndPuts(s) ==
    /\ TriesAgain(s)
    /\ pooled' = pooled \union ({conn[This(s)]} \ {NoConn})
    /\ UNCHANGED <<apc, result, conn, panicked, closed>>

\* Mutant: Send waits for the attempt, however long it takes.
NeverTimesOut(s) == FALSE /\ UNCHANGED mailVars

\* The select takes ctx.Done; the attempt goes on.
TimesOut(s) ==
    /\ TriesAgain(s)
    /\ UNCHANGED <<attempts, closed>>

(***************************************************************************)
(* One attempt: sendEmail with pool.Get, createClient, pool.Put.           *)
(***************************************************************************)

AttemptGoto(a, from, to) == apc[a] = from /\ apc' = [apc EXCEPT ![a] = to]

\* Nobody receives what an abandoned attempt puts on its errChan.
AttemptEnds(a, from, results) ==
    /\ AttemptGoto(a, from, "over")
    /\ \E res \in IF Abandoned(a) THEN {"none"} ELSE results :
           result' = [result EXCEPT ![a] = res]

Panics(a) ==
    /\ panicked' = TRUE
    /\ UNCHANGED <<spc, try, apc, result, conn, pooled, closed>>

\* A pooled connection answers Noop and is used, or does not and is closed.
GetPooled(a) ==
    /\ ~closed
    /\ \E c \in pooled :
           /\ pooled' = pooled \ {c}
           /\ \/ AttemptGoto(a, "get", "smtp") /\ conn' = [conn EXCEPT ![a] = c]
              \/ AttemptGoto(a, "get", "dial") /\ UNCHANGED conn
    /\ UNCHANGED <<spc, try, result, panicked, closed>>

GetNone(a) ==
    /\ ~closed /\ pooled = {} /\ AttemptGoto(a, "get", "dial")
    /\ UNCHANGED <<spc, try, result, conn, pooled, panicked, closed>>

\* Receiving from the closed channel yields nil, and Noop dereferences it before the
\* recover of sendEmail is deferred.
GetClosed(a) == closed /\ apc[a] = "get" /\ Panics(a)

Dial(a) ==
    /\ AttemptGoto(a, "dial", "smtp")
    /\ conn' = [conn EXCEPT ![a] = a]
    /\ UNCHANGED <<spc, try, result, pooled, panicked, closed>>

\* The dial, STARTTLS or AUTH fails, or the context ends first.  In the latter case the
\* goroutine that dials may still connect: nobody receives from connCh, and nobody ever
\* closes or uses that connection.
DialFails(a) ==
    /\ AttemptEnds(a, "dial", {"error"})
    /\ UNCHANGED <<spc, try, conn, pooled, panicked, closed>>

\* sendViaSMTP returns; its reads and writes have no deadline.
Talk(a) ==
    /\ AttemptGoto(a, "smtp", "back")
    /\ UNCHANGED <<spc, try, result, conn, pooled, panicked, closed>>

LetsGo(a) == AttemptEnds(a, "back", {"ok", "error"}) /\ conn' = [conn EXCEPT ![a] = NoConn]

\* Mutant: the pool's limit is not looked at.
PutsAlways(a) ==
    /\ ~closed /\ LetsGo(a)
    /\ pooled' = pooled \union {conn[a]}
    /\ UNCHANGED <<spc, try, panicked, closed>>

\* Reset and Noop answer: back into the pool, or closed when the pool is full.
Put(a) ==
    /\ ~closed /\ LetsGo(a)
    /\ pooled' = IF Cardinality(pooled) < PoolSize THEN pooled \union {conn[a]} ELSE pooled
    /\ UNCHANGED <<spc, try, panicked, closed>>

\* Reset or Noop fails: closed.
Discard(a) ==
    /\ LetsGo(a)
    /\ UNCHANGED <<spc, try, pooled, panicked, closed>>

\* Sending on the closed channel panics, behind the recover of sendEmail.
PutClosed(a) == closed /\ apc[a] = "back" /\ Panics(a)

ClosePool ==
    /\ ~closed /\ closed' = TRUE /\ pooled' = {}
    /\ UNCHANGED <<spc, try, apc, result, conn, panicked>>

\* What Send does by itself once it has begun.
Sends(s) == Launch(s) \/ Receive(s) \/ TimesOut(s)

Attempting(a) ==
    \/ GetPooled(a) \/ GetNone(a) \/ GetClosed(a)
    \/ Dial(a) \/ DialFails(a)
    \/ Talk(a) \/ Put(a) \/ Discard(a) \/ PutClosed(a)

-----------------------------------------------------------------------------
(***************************************************************************)
(* Properties.                                                             *)
(***************************************************************************)

MailTypeOK ==
    /\ spc \in [Senders -> Resting \union {"start", "wait"}]
    /\ try \in [Senders -> 1 .. MaxRetries]
    /\ apc \in [Attempts -> {"none", "get", "dial", "smtp", "back", "over"}]
    /\ result \in [Attempts -> {"none", "ok", "error"}]
    /\ conn \in [Attempts -> Attempts \union {NoConn}]
    /\ pooled \subseteq Attempts /\ Cardinality(pooled) <= PoolSize
    /\ closed \in BOOLEAN /\ panicked \in BOOLEAN

\* An SMTP connection is never used by two attempts, nor in the pool while one uses it,
\* although Send and an attempt it gave up on share nothing but the pool.
OneUserPerConnection ==
    \A a \in Attempts :
        conn[a] # NoConn =>
            /\ conn[a] \notin pooled
            /\ \A b \in Attempts \ {a} : conn[b] # conn[a]

Active(s) == spc[s] \notin Resting
=============================================================================
