--------------------------- MODULE EventDelivery ---------------------------
(***************************************************************************)
(* What the four Kafka handlers (src/internal/application/events) do with  *)
(* one delivery of an event: the idempotency check against Redis and the   *)
(* database, the effect (an e-mail through EmailSender.Send, or a saved    *)
(* row and a push to the WebSocket hub), and the processed marker.         *)
(*                                                                         *)
(* A delivery is one message in the hands of a worker: executeHandler runs *)
(* Handle up to Retries times.  The consumer may deliver an event again,   *)
(* also while an earlier delivery of it is running (KafkaConsumer), so     *)
(* several deliveries of the same event run side by side.                  *)
(*                                                                         *)
(* Two of the stores are shared with others: users delete the rows of the  *)
(* notifications table (NotificationStore), and Redis keeps one OTP for    *)
(* each e-mail address, which every OTP event of the address, SendOTP and  *)
(* VerifyOTP of gRPC (OtpService) and the expiry replace or remove.        *)
(***************************************************************************)
EXTENDS Integers, FiniteSets

CONSTANTS
    Deliveries,
    Events,
    MailEvents,     \* forgot-password and e-mail-channel events
    OtpEvents,      \* OTP-request events: a code is saved, then mailed
    InAppEvents,    \* in-app-channel events
    Addresses,      \* e-mail addresses
    AddressOf,      \* the address each OTP-request event names
    Malformed,      \* events that json.Unmarshal or Validate refuses
    Keyed,          \* events that carry an EventID
    Retries,        \* ConsumerConfig.Retries: runs of Handle per delivery
    SendRetries,    \* EmailConfig.MaxRetries: SMTP attempts per Send
    MaxCrashes,     \* bound
    MaxRemovals,    \* bound: how often a row is deleted
    NoId,           \* the row id of an event without EventID
    NoCode,         \* no code in Redis
    OtherCode       \* a code that no run of these deliveries has just stored

ASSUME DeliveryAssumption ==
    /\ MailEvents \union OtpEvents \union InAppEvents = Events
    /\ MailEvents \cap OtpEvents = {} /\ InAppEvents \cap (MailEvents \union OtpEvents) = {}
    /\ Malformed \subseteq Events /\ Keyed \subseteq Events
    /\ Retries \in Nat \ {0} /\ SendRetries \in Nat \ {0}
    /\ AddressOf \in [OtpEvents -> Addresses]
    /\ MaxCrashes \in Nat /\ MaxRemovals \in Nat
    /\ NoId \notin Events

Runs  == 1 .. Retries
Codes == Deliveries \X Runs                       \* the run that drew the OTP
Mails == Deliveries \X Runs \X (1 .. SendRetries) \* one SMTP attempt

VARIABLES
    about,      \* the event of each delivery
    pc,         \* where each delivery is
    run,        \* the run of Handle it is in
    try,        \* the SMTP attempt it is in
    cache,      \* the processed:<id> keys in Redis
    marker,     \* the rows of processed_notifications
    rows,       \* the ids in the notifications table
    removals,   \* ghost: how often each row has been deleted
    otp,        \* otp:<email> in Redis, for each address
    displaced,  \* ghost: OTP events whose code was replaced or removed by another hand
    accepted,   \* the SMTP attempts the mail server took over
    refused,    \* ghost: attempts refused at the end of DATA, after "success"
    orphans,    \* SMTP attempts nobody waits for any more
    pushed,     \* in-app runs that put a message on the hub's channel
    crashes,    \* crashes so far
    excused     \* ghost: events something exceptional happened to

table  == <<rows, removals>>
code   == <<otp, displaced>>
stores == <<cache, marker, table, code>>
mail   == <<accepted, refused, orphans>>
vars   == <<about, pc, run, try, stores, mail, pushed, crashes, excused>>

PcStates == {"idle", "check", "count", "refill", "prepare", "allow", "smtp",
             "save", "push", "mark", "fill", "done", "failed", "dead"}
Resting  == {"idle", "done", "failed", "dead"}

RowId(e)   == IF e \in Keyed THEN e ELSE NoId
RowIds     == {RowId(e) : e \in InAppEvents}
Active(d)  == pc[d] \notin Resting
InMemory(d) == Active(d) \/ (pc[d] = "idle" /\ run[d] > 1)   \* or between two runs
ThisMail(d) == <<d, run[d], try[d]>>
EventOf(m) == about[m[1]]

Init ==
    /\ about \in [Deliveries -> Events]
    /\ pc = [d \in Deliveries |-> "idle"]
    /\ run = [d \in Deliveries |-> 1]
    /\ try = [d \in Deliveries |-> 1]
    /\ cache = {} /\ marker = {} /\ rows = {}
    /\ removals = [r \in RowIds |-> 0]
    /\ otp = [a \in Addresses |-> NoCode] /\ displaced = {}
    /\ accepted = {} /\ refused = {} /\ orphans = {} /\ pushed = {}
    /\ crashes = 0
    /\ excused = {}

Goto(d, from, to) == pc[d] = from /\ pc' = [pc EXCEPT ![d] = to]

\* Handle returns an error: executeHandler runs it again or gives up.
Fails(d) ==
    IF run[d] < Retries
    THEN /\ pc' = [pc EXCEPT ![d] = "idle"]
         /\ run' = [run EXCEPT ![d] = @ + 1]
         /\ try' = [try EXCEPT ![d] = 1]
    ELSE pc' = [pc EXCEPT ![d] = "failed"] /\ UNCHANGED <<run, try>>

-----------------------------------------------------------------------------
(***************************************************************************)
(* The head of Handle: unmarshal, validate, CheckIfProcessed.              *)
(***************************************************************************)

\* json.Unmarshal and the payload's Validate: what they refuse stays refused.
Valid(e) == e \notin Malformed

AfterCheck(d) == IF about[d] \in InAppEvents THEN "save" ELSE "prepare"

\* Mutant: the idempotency check is left out.
HandleSkipsCheck(d) ==
    /\ pc[d] = "idle"
    /\ pc' = [pc EXCEPT ![d] = AfterCheck(d)]
    /\ excused' = excused \union
           {e \in {about[d]} : \E x \in Deliveries \ {d} : Active(x) /\ about[x] = e}
    /\ UNCHANGED <<about, run, try, stores, mail, pushed, crashes>>

\* A run that starts while another delivery of the event is running is excused.
HandleBegins(d) ==
    /\ pc[d] = "idle" /\ Valid(about[d])
    /\ pc' = [pc EXCEPT ![d] = IF about[d] \in Keyed THEN "check" ELSE AfterCheck(d)]
    /\ excused' = excused \union
           {e \in {about[d]} : \E x \in Deliveries \ {d} : Active(x) /\ about[x] = e}
    /\ UNCHANGED <<about, run, try, stores, mail, pushed, crashes>>

HandleRejects(d) ==
    /\ pc[d] = "idle" /\ ~Valid(about[d])
    /\ Fails(d)
    /\ UNCHANGED <<about, stores, mail, pushed, crashes, excused>>

CacheHit(d) ==
    /\ about[d] \in cache /\ Goto(d, "check", "done")
    /\ UNCHANGED <<about, run, try, stores, mail, pushed, crashes, excused>>

\* The key is absent, or Redis cannot be reached: the database decides.
CacheMiss(d) ==
    /\ Goto(d, "check", "count")
    /\ UNCHANGED <<about, run, try, stores, mail, pushed, crashes, excused>>

CountFails(d) ==
    /\ pc[d] = "count" /\ Fails(d)
    /\ UNCHANGED <<about, stores, mail, pushed, crashes, excused>>

CountsNone(d) ==
    /\ about[d] \notin marker /\ Goto(d, "count", AfterCheck(d))
    /\ UNCHANGED <<about, run, try, stores, mail, pushed, crashes, excused>>

CountsOne(d) ==
    /\ about[d] \in marker /\ Goto(d, "count", "refill")
    /\ UNCHANGED <<about, run, try, stores, mail, pushed, crashes, excused>>

\* cache.Set after a database hit; its error is logged only.
Refill(d) ==
    /\ Goto(d, "refill", "done")
    /\ cache' \in {cache, cache \union {about[d]}}
    /\ UNCHANGED <<about, run, try, marker, table, code, mail, pushed, crashes, excused>>

(***************************************************************************)
(* The e-mail handlers, and EmailSender.Send with its SMTP attempts.       *)
(***************************************************************************)

OtpEventsOf(a) == {e \in OtpEvents : AddressOf[e] = a}

\* Mutant: SETNX, so that the OTP that is mailed is not the one that is stored.
StoresFirstOnly(d) ==
    LET a == AddressOf[about[d]]
    IN  /\ otp' = IF otp[a] = NoCode THEN [otp EXCEPT ![a] = <<d, run[d]>>] ELSE otp
        /\ displaced' = (displaced \union OtpEventsOf(a)) \ {about[d]}

\* SaveOTP: the code of this run takes the place of whatever the address has.
StoresCode(d) ==
    LET e == about[d]
    IN  /\ otp' = [otp EXCEPT ![AddressOf[e]] = <<d, run[d]>>]
        /\ displaced' = (displaced \union OtpEventsOf(AddressOf[e])) \ {e}

\* NewOTP and SaveOTP before the mail of an OTP event.
Composes(d) ==
    /\ pc[d] = "prepare"
    /\ IF about[d] \in OtpEvents THEN StoresCode(d) ELSE UNCHANGED code

Prepare(d) ==
    /\ Composes(d) /\ Goto(d, "prepare", "allow")
    /\ UNCHANGED <<about, run, try, cache, marker, table, mail, pushed, crashes, excused>>

\* The template of an OTP or a forgot-password mail: it cannot be read or parsed, or
\* Redis, where its text is kept, does not answer.  A new code is stored already.
RenderFails(d) ==
    /\ Composes(d) /\ Fails(d)
    /\ UNCHANGED <<about, cache, marker, table, mail, pushed, crashes, excused>>

\* The reply of Redis is lost: the code may be stored all the same.
SaveOtpFails(d) ==
    /\ pc[d] = "prepare" /\ about[d] \in OtpEvents /\ Fails(d)
    /\ StoresCode(d) \/ UNCHANGED code
    /\ UNCHANGED <<about, cache, marker, table, mail, pushed, crashes, excused>>

Allowed(d) ==
    /\ Goto(d, "allow", "smtp")
    /\ UNCHANGED <<about, run, try, stores, mail, pushed, crashes, excused>>

RateLimited(d) ==
    /\ pc[d] = "allow" /\ Fails(d)
    /\ UNCHANGED <<about, stores, mail, pushed, crashes, excused>>

\* Mutant: an event without EventID is marked, too.
MarksUnkeyed(d) == "mark"

AfterSend(d) == IF about[d] \in Keyed THEN "mark" ELSE "done"

SmtpAccepts(d) ==
    /\ Goto(d, "smtp", AfterSend(d))
    /\ accepted' = accepted \union {ThisMail(d)}
    /\ UNCHANGED <<about, run, try, stores, refused, orphans, pushed, crashes, excused>>

\* The server answers the end of DATA with a refusal: writer.Close is deferred and
\* its error dropped, so sendViaSMTP returns nil all the same.
SmtpRefusesAtEnd(d) ==
    /\ Goto(d, "smtp", AfterSend(d))
    /\ refused' = refused \union {ThisMail(d)}
    /\ UNCHANGED <<about, run, try, stores, accepted, orphans, pushed, crashes, excused>>

\* The next attempt of Send, or its error.
NextAttempt(d) ==
    IF try[d] < SendRetries
    THEN try' = [try EXCEPT ![d] = @ + 1] /\ UNCHANGED <<pc, run>>
    ELSE Fails(d)

\* No connection, or a refusal before the end of DATA.
SmtpFails(d) ==
    /\ pc[d] = "smtp" /\ NextAttempt(d)
    /\ UNCHANGED <<about, stores, mail, pushed, crashes, excused>>

\* msg.Bytes fails after DATA: the deferred writer.Close hands over an empty mail, and
\* the attempt counts as failed.
SmtpSendsEmpty(d) ==
    /\ pc[d] = "smtp" /\ NextAttempt(d)
    /\ accepted' = accepted \union {ThisMail(d)}
    /\ excused' = excused \union {about[d]}
    /\ UNCHANGED <<about, stores, refused, orphans, pushed, crashes>>

\* sendWithTimeout gives up waiting; the goroutine of the attempt goes on.
SmtpTimesOut(d) ==
    /\ pc[d] = "smtp" /\ NextAttempt(d)
    /\ orphans' = orphans \union {ThisMail(d)}
    /\ excused' = excused \union {about[d]}
    /\ UNCHANGED <<about, stores, accepted, refused, pushed, crashes>>

OrphanEnds(m) ==
    /\ m \in orphans
    /\ orphans' = orphans \ {m}
    /\ accepted' \in {accepted, accepted \union {m}}
    /\ UNCHANGED <<about, pc, run, try, stores, refused, pushed, crashes, excused>>

(***************************************************************************)
(* The in-app handler: SaveNotification, NotifyInAppMessage.               *)
(***************************************************************************)

\* Mutant: a row that exists is overwritten (an upsert) instead of refused.
SaveUpserts(d) ==
    /\ Goto(d, "save", "push")
    /\ rows' = rows \union {RowId(about[d])}
    /\ UNCHANGED <<about, run, try, cache, marker, removals, code, mail, pushed, crashes, excused>>

Save(d) ==
    /\ RowId(about[d]) \notin rows
    /\ Goto(d, "save", "push")
    /\ rows' = rows \union {RowId(about[d])}
    /\ UNCHANGED <<about, run, try, cache, marker, removals, code, mail, pushed, crashes, excused>>

\* The primary key exists already, or the database fails, before or after the insert.
SaveFails(d) ==
    /\ pc[d] = "save" /\ Fails(d)
    /\ rows' \in {rows, rows \union {RowId(about[d])}}
    /\ UNCHANGED <<about, cache, marker, removals, code, mail, pushed, crashes, excused>>

\* The hub's channel takes the message or is full; the error is logged only.
Push(d) ==
    /\ Goto(d, "push", AfterSend(d))
    /\ pushed' \in {pushed, pushed \union {<<d, run[d]>>}}
    /\ UNCHANGED <<about, run, try, stores, mail, crashes, excused>>

(***************************************************************************)
(* MarkAsProcessed: the row, then the key in Redis.                        *)
(***************************************************************************)

\* Mutant: the key in Redis is set although the insert failed.
MarkFillsCacheAnyway(d) ==
    /\ Goto(d, "mark", "fill")
    /\ marker' \in {marker, marker \union {about[d]}}
    /\ excused' = IF marker' = marker THEN excused \union {about[d]} ELSE excused
    /\ UNCHANGED <<about, run, try, cache, table, code, mail, pushed, crashes>>

Mark(d) ==
    /\ about[d] \notin marker
    /\ Goto(d, "mark", "fill")
    /\ marker' = marker \union {about[d]}
    /\ UNCHANGED <<about, run, try, cache, table, code, mail, pushed, crashes, excused>>

\* The row exists already, or the database fails before or after the insert: the
\* error is logged and Handle returns nil.
MarkFails(d) ==
    /\ Goto(d, "mark", "done")
    /\ marker' \in {marker, marker \union {about[d]}}
    /\ excused' = excused \union ({about[d]} \ marker')
    /\ UNCHANGED <<about, run, try, cache, table, code, mail, pushed, crashes>>

Fill(d) ==
    /\ Goto(d, "fill", "done")
    /\ cache' \in {cache, cache \union {about[d]}}
    /\ UNCHANGED <<about, run, try, marker, table, code, mail, pushed, crashes, excused>>

-----------------------------------------------------------------------------

\* The key's hour is over, or Redis has evicted it.
CacheExpires(e) ==
    /\ e \in cache
    /\ cache' = cache \ {e}
    /\ UNCHANGED <<about, pc, run, try, marker, table, code, mail, pushed, crashes, excused>>

\* DeleteNotification takes a row, ClearNotifications those of a user; the id can be
\* inserted again.
RowsDeleted(gone) ==
    /\ gone # {} /\ \A r \in gone : removals[r] < MaxRemovals
    /\ rows' = rows \ gone
    /\ removals' = [r \in RowIds |-> IF r \in gone THEN removals[r] + 1 ELSE removals[r]]
    /\ UNCHANGED <<about, pc, run, try, cache, marker, code, mail, pushed, crashes, excused>>

OthersSetCode(a, c) ==
    /\ otp' = [otp EXCEPT ![a] = c]
    /\ displaced' = displaced \union OtpEventsOf(a)
    /\ UNCHANGED <<about, pc, run, try, cache, marker, table, mail, pushed, crashes, excused>>

\* SendOTP of gRPC saves a code of its own, or a failed VerifyOTP the one it had read.
CodeReplaced(a) == OthersSetCode(a, OtherCode)

\* VerifyOTP has accepted a code, and deletes what the address has; or its time is over.
CodeRemoved(a) == otp[a] # NoCode /\ OthersSetCode(a, NoCode)

\* The process dies; the server may still take over what it has been sent.
Crash ==
    /\ crashes < MaxCrashes /\ crashes' = crashes + 1
    /\ \E d \in Deliveries : InMemory(d)
    /\ pc' = [d \in Deliveries |-> IF InMemory(d) THEN "dead" ELSE pc[d]]
    /\ \E late \in SUBSET (orphans \union {ThisMail(d) : d \in {x \in Deliveries : pc[x] = "smtp"}}) :
           accepted' = accepted \union late
    /\ orphans' = {}
    /\ excused' = excused \union {about[d] : d \in {x \in Deliveries : InMemory(x)}}
    /\ UNCHANGED <<about, run, try, stores, refused, pushed>>

Handle(d) ==
    \/ HandleBegins(d) \/ HandleRejects(d)
    \/ CacheHit(d) \/ CacheMiss(d) \/ CountFails(d) \/ CountsNone(d) \/ CountsOne(d) \/ Refill(d)
    \/ Prepare(d) \/ RenderFails(d) \/ SaveOtpFails(d) \/ Allowed(d) \/ RateLimited(d)
    \/ SmtpAccepts(d) \/ SmtpRefusesAtEnd(d) \/ SmtpFails(d)
    \/ SmtpSendsEmpty(d) \/ SmtpTimesOut(d)
    \/ Save(d) \/ SaveFails(d) \/ Push(d)
    \/ Mark(d) \/ MarkFails(d) \/ Fill(d)

Finished == /\ \A d \in Deliveries : pc[d] \in Resting \ {"idle"}
            /\ UNCHANGED vars

Next ==
    \/ \E d \in Deliveries : Handle(d)
    \/ \E m \in Mails : OrphanEnds(m)
    \/ \E e \in Events : CacheExpires(e)
    \/ \E gone \in SUBSET rows : RowsDeleted(gone)
    \/ \E a \in Addresses : CodeReplaced(a) \/ CodeRemoved(a)
    \/ Crash
    \/ Finished

Spec == Init /\ [][Next]_vars

-----------------------------------------------------------------------------
(***************************************************************************)
(* Properties.                                                             *)
(***************************************************************************)

\* Every variable stays in its type.
TypeOK ==
    /\ about \in [Deliveries -> Events]
    /\ pc \in [Deliveries -> PcStates]
    /\ run \in [Deliveries -> Runs]
    /\ try \in [Deliveries -> 1 .. SendRetries]
    /\ cache \subseteq Keyed /\ marker \subseteq Keyed
    /\ rows \subseteq RowIds /\ removals \in [RowIds -> 0 .. MaxRemovals]
    /\ otp \in [Addresses -> Codes \union {NoCode, OtherCode}] /\ displaced \subseteq OtpEvents
    /\ accepted \subseteq Mails /\ refused \subseteq Mails /\ orphans \subseteq Mails
    /\ pushed \subseteq Codes
    /\ crashes \in 0 .. MaxCrashes
    /\ excused \subseteq Events

\* The mails of an event that a run believes to have sent.
Reported(e) == {m \in accepted \union refused : EventOf(m) = e}

\* The row of an in-app event is in the table, or was until a user deleted it.
Inserted(e) == RowId(e) \in rows \/ removals[RowId(e)] > 0

\* An event is marked as processed, in the database or in Redis, only after its
\* effect: a mail was handed to the server, or the in-app row was inserted.  The two
\* marks agree: Redis never claims an event the database does not know.
MarkedAfterEffect ==
    /\ cache \subseteq marker
    /\ \A e \in marker : IF e \in InAppEvents THEN Inserted(e) ELSE Reported(e) # {}

\* The causes of a duplicate e-mail, exhaustively: an SMTP attempt that timed out or
\* left an empty mail, a processed marker that could not be written, a crash, or two
\* deliveries of the event running at the same time.  Without one of them an event with
\* an EventID is mailed at most once, over every retry of Send, of the handler and of
\* Kafka.
MailedOnceUnlessExcused ==
    \A e \in Keyed \ excused :
        \A m, n \in {x \in accepted : EventOf(x) = e} : m = n

\* The runs that have pushed a row to the hub.
Pushes(r) == {c \in pushed : RowId(EventOf(c)) = r}

\* Every push of an in-app notification after the first costs a deletion: the primary
\* key refuses a second run before its push for as long as the row is there, over lost
\* markers, crashes and overlaps.  Once a user has deleted it a redelivery pushes it again.
PushedOnceUnlessDeleted == \A r \in RowIds : Cardinality(Pushes(r)) <= removals[r] + 1

\* When the handler of an OTP request has succeeded, the code stored for the address
\* is one that was mailed for this event, so that the user can verify with it: over
\* retries of the handler and of Send, and redeliveries.  Exceptions: a timeout, a lost
\* marker, a crash or an overlap as above, or another hand on the key since the event
\* stored its code, which is another OTP event of the address, SendOTP or VerifyOTP of
\* gRPC, or the expiry.
StoredCodeWasMailed ==
    \A d \in Deliveries :
        (pc[d] = "done" /\ about[d] \in (OtpEvents \cap Keyed) \ (excused \union displaced)) =>
            \E m \in Reported(about[d]) : <<m[1], m[2]>> = otp[AddressOf[about[d]]]

\* README.md:372 and README.md:532 promise "Duplicate delivery prevention": an event
\* with an EventID that Kafka delivers twice is mailed for one delivery only.
NoDuplicateDelivery ==
    \A e \in Keyed : \A m, n \in {x \in accepted : EventOf(x) = e} : m[1] = n[1]
=============================================================================
