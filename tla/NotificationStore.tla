-------------------------- MODULE NotificationStore --------------------------
(***************************************************************************)
(* The notifications of the users: the gRPC calls of                       *)
(* src/internal/interfaces/grpc/handler.go, the NotificationService they   *)
(* go to, and the repository, which keeps rows in Postgres and caches in   *)
(* Redis one entry per notification (5 minutes) and the first page of      *)
(* every user (2 minutes).  Also CreateAndQueue with its sender strategies,*)
(* which the service offers and only its tests call so far.                *)
(*                                                                         *)
(* Every statement to the database and every command to Redis is a step of *)
(* its own, so that requests interleave between them, and any of them may  *)
(* fail.  Notifications are numbered in the order of created_at.           *)
(***************************************************************************)
EXTENDS Integers, Sequences, FiniteSets, FiniteSetsExt

CONSTANTS
    Requests,   \* requests served at the same time
    Ids,        \* notification ids, numbered by creation
    Users,
    OwnerOf,    \* the user of each notification
    Existing,   \* the notifications that have a row at the start
    Calls,      \* the calls that are made
    Sizes,      \* the page sizes asked for
    MaxWrites,  \* bound: calls that change rows
    NoCall,     \* what a request that has not shown anything is left with
    NoEntry     \* an absent Redis key, and nothing read yet

Keys   == Ids \union Users      \* notification:<id>, user_notifications:<user>:page1
Kinds  == {"get", "list", "save", "create", "mark", "markall", "delete", "clear"}
Shapes == {"first", "second", "none"}
    \* page 1, or less; page 2, for every query that is not cached; no Params

ASSUME StoreAssumption ==
    /\ Ids \subseteq Nat /\ IsFiniteSet(Ids)
    /\ Ids \cap Users = {} /\ Existing \subseteq Ids
    /\ OwnerOf \in [Ids -> Users]
    /\ Sizes \subseteq Int
    /\ MaxWrites \in Nat
    /\ \A c \in Calls : /\ c.kind \in Kinds /\ c.user \in Users /\ c.id \in Ids
                        /\ c.size \in Sizes /\ c.shape \in Shapes
                        /\ c.kind \in {"save", "create"} => c.user = OwnerOf[c.id]

VARIABLES
    rows,       \* the notifications table: is_read of every row
    cache,      \* the keys in Redis
    call,       \* the call each request makes
    pc,         \* the step each request is at
    got,        \* what a request has read, and then what it answers
    pushed,     \* notifications a strategy has handed to the hub
    writes,     \* calls that change rows so far
    excused,    \* ghost: keys that a known cause has left stale
    removed     \* ghost: notifications deleted at some time

vars == <<rows, cache, call, pc, got, pushed, writes, excused, removed>>

Nothing == [result |-> "none", value |-> NoEntry]
Steps   == {"lookup", "find", "count", "page", "fill", "panic", "write", "dropEntry", "dropPage",
            "send", "dropAgain", "push", "done"}

-----------------------------------------------------------------------------
(***************************************************************************)
(* What the queries of the repository select.                              *)
(***************************************************************************)

\* Mutant: the queries see what has been deleted.
RowsOfAll(u) == {i \in Ids : OwnerOf[i] = u}

RowsOf(u) == {i \in Ids : rows[i] # "absent" /\ OwnerOf[i] = u}

\* ORDER BY created_at DESC: the enumeration of a set of notifications, newest first.
Newest(S) ==
    CHOOSE s \in [1 .. Cardinality(S) -> S] :
        \A m, n \in 1 .. Cardinality(S) : m < n => s[m] > s[n]

\* A request that names no size is given ten.
PageSize(size) == IF size < 1 THEN 10 ELSE size

\* Mutant: the query has no Limit.
SelectsAll(u, shape, size) ==
    LET all == Newest(RowsOf(u))
    IN  [n \in DOMAIN all |-> <<all[n], rows[all[n]]>>]

\* Where ... Order("created_at DESC").Limit(size).Offset((page - 1) * size)
Select(u, shape, size) ==
    LET all  == Newest(RowsOf(u))
        from == IF shape = "second" THEN PageSize(size) + 1 ELSE 1
        last == Min({from + PageSize(size) - 1, Len(all)})
    IN  [n \in 1 .. last - from + 1 |-> <<all[from + n - 1], rows[all[from + n - 1]]>>]

Total(u) == Cardinality(RowsOf(u))

\* A key tells the truth when it is absent or holds what the database would answer.
Fresh(k) ==
    \/ cache[k] = NoEntry
    \/ k \in Ids /\ cache[k] = rows[k]
    \/ k \in Users /\ \E s \in Sizes :
           cache[k] = [items |-> Select(k, "first", s), total |-> Total(k)]

Excuse(keys) == excused' = {k \in excused \union keys : ~Fresh(k)'}

-----------------------------------------------------------------------------

Init ==
    /\ rows = [i \in Ids |-> IF i \in Existing THEN "unread" ELSE "absent"]
    /\ cache = [k \in Keys |-> NoEntry]
    /\ call = [r \in Requests |-> NoCall]
    /\ pc = [r \in Requests |-> "done"]
    /\ got = [r \in Requests |-> Nothing]
    /\ pushed = {}
    /\ writes = 0
    /\ excused = {}
    /\ removed = {}

Goto(r, from, to) == pc[r] = from /\ pc' = [pc EXCEPT ![r] = to]

Read(r, value) == got' = [got EXCEPT ![r] = [result |-> "read", value |-> value]]

\* The request shows what it has read.
Answers(r, from, result, value) ==
    /\ Goto(r, from, "done")
    /\ got' = [got EXCEPT ![r] = [result |-> result, value |-> value]]
    /\ UNCHANGED call

\* The request ends without: repository, service and handler each hand the error up.
Ends(r, from) ==
    /\ Goto(r, from, "done")
    /\ got' = [got EXCEPT ![r] = Nothing]
    /\ call' = [call EXCEPT ![r] = NoCall]

(***************************************************************************)
(* The calls.  validateRequest refuses none of them: the generated request *)
(* types carry no validation tags.                                         *)
(***************************************************************************)

Begin(r, c, step) ==
    /\ pc[r] = "done"
    /\ call' = [call EXCEPT ![r] = c]
    /\ pc' = [pc EXCEPT ![r] = step]
    /\ got' = [got EXCEPT ![r] = Nothing]
    /\ UNCHANGED <<rows, cache, pushed, excused, removed>>

GetNotification(r, c) == c.kind = "get" /\ Begin(r, c, "lookup") /\ UNCHANGED writes

FirstStep(shape) ==
    CASE shape = "first" -> "lookup" [] shape = "second" -> "count" [] shape = "none" -> "panic"

GetNotifications(r, c) ==
    c.kind = "list" /\ Begin(r, c, FirstStep(c.shape)) /\ UNCHANGED writes

BeginWrite(r, c) == writes < MaxWrites /\ writes' = writes + 1 /\ Begin(r, c, "write")

\* MarkAsRead, DeleteNotification, ClearNotifications and MarkAllAsRead of the handler.
ChangeNotifications(r, c) ==
    c.kind \in {"mark", "markall", "delete", "clear"} /\ BeginWrite(r, c)

\* The handler of in-app events saves a notification (EventDelivery has the rest of it).
InAppEvent(r, c) == c.kind = "save" /\ BeginWrite(r, c)

CreateAndQueue(r, c) == c.kind = "create" /\ BeginWrite(r, c)

(***************************************************************************)
(* GetNotification and GetNotifications: look into Redis, ask the          *)
(* database, fill Redis.                                                   *)
(***************************************************************************)

KeyOf(c) == IF c.kind = "list" THEN c.user ELSE c.id

\* Mutant: a cached notification is served to any user.
ServesAnyone(c) == cache[KeyOf(c)] # NoEntry

Serves(c) == cache[KeyOf(c)] # NoEntry /\ (c.kind = "get" => OwnerOf[c.id] = c.user)

CacheHit(r) ==
    /\ Answers(r, "lookup", "cached", cache[KeyOf(call[r])])
    /\ Serves(call[r])
    /\ UNCHANGED <<rows, cache, pushed, writes, excused, removed>>

\* The key is absent, of another user, cannot be decoded, or Redis does not answer.
CacheMiss(r) ==
    /\ pc[r] = "lookup"
    /\ pc' = [pc EXCEPT ![r] = IF call[r].kind = "get" THEN "find" ELSE "count"]
    /\ UNCHANGED <<rows, cache, call, got, pushed, writes, excused, removed>>

Find(r) ==
    /\ Goto(r, "find", "fill")
    /\ rows[call[r].id] # "absent" /\ OwnerOf[call[r].id] = call[r].user
    /\ Read(r, rows[call[r].id])
    /\ UNCHANGED <<rows, cache, call, pushed, writes, excused, removed>>

NotFound(r) ==
    /\ Ends(r, "find")
    /\ rows[call[r].id] = "absent" \/ OwnerOf[call[r].id] # call[r].user
    /\ UNCHANGED <<rows, cache, pushed, writes, excused, removed>>

Count(r) ==
    /\ Goto(r, "count", "page")
    /\ Read(r, [items |-> <<>>, total |-> Total(call[r].user)])
    /\ UNCHANGED <<rows, cache, call, pushed, writes, excused, removed>>

FindPage(r) ==
    LET c == call[r]
        p == [items |-> Select(c.user, c.shape, c.size), total |-> got[r].value.total]
    IN  /\ pc[r] = "page"
        /\ \/ c.shape = "first" /\ Goto(r, "page", "fill") /\ Read(r, p)
           \/ c.shape # "first" /\ Answers(r, "page", "queried", p)
        /\ UNCHANGED <<rows, cache, call, pushed, writes, excused, removed>>

QueryFails(r) ==
    /\ pc[r] \in {"find", "count", "page"}
    /\ Ends(r, pc[r])
    /\ UNCHANGED <<rows, cache, pushed, writes, excused, removed>>

\* From the outermost to the one that calls the handler.
Interceptors == <<"recovery", "tracing", "metrics">>

\* The handler dereferences Params; the outermost interceptor recovers the panic and
\* answers codes.Internal.
Recovered(r) ==
    /\ Head(Interceptors) = "recovery" /\ Ends(r, "panic")
    /\ UNCHANGED <<rows, cache, pushed, writes, excused, removed>>

\* cache.Set of what was read some steps ago; its error is logged only.
Fill(r) ==
    /\ Answers(r, "fill", "queried", got[r].value)
    /\ \/ cache' = [cache EXCEPT ![KeyOf(call[r])] = got[r].value]
       \/ UNCHANGED cache
    /\ UNCHANGED <<rows, pushed, writes, removed>>
    /\ Excuse({KeyOf(call[r])})

(***************************************************************************)
(* The calls that change rows, and the invalidations behind each.          *)
(***************************************************************************)

\* For each method of the repository: the rows its statement affects and what they
\* become, whether it is an error that there are none, and the key that it deletes first.

\* An insert; the primary key refuses an id that has a row.
SaveNotification(c) ==
    [affected |-> {i \in {c.id} : rows[i] = "absent"}, becomes |-> "unread",
     required |-> TRUE, first |-> "dropPage"]

\* Mutant: MarkAsRead, too, leaves the entry of the notification alone.
MarksAndDropsPage(c) ==
    [affected |-> {c.id} \cap RowsOf(c.user), becomes |-> "read",
     required |-> TRUE, first |-> "dropPage"]

MarkAsRead(c) ==
    [affected |-> {c.id} \cap RowsOf(c.user), becomes |-> "read",
     required |-> TRUE, first |-> "dropEntry"]

\* Neither this nor ClearNotifications deletes the entries of what it changes.
MarkAllAsRead(c) ==
    [affected |-> {i \in RowsOf(c.user) : rows[i] = "unread"}, becomes |-> "read",
     required |-> FALSE, first |-> "dropPage"]

DeleteNotification(c) ==
    [affected |-> {c.id} \cap RowsOf(c.user), becomes |-> "absent",
     required |-> TRUE, first |-> "dropEntry"]

ClearNotifications(c) ==
    [affected |-> RowsOf(c.user), becomes |-> "absent",
     required |-> FALSE, first |-> "dropPage"]

Method(c) ==
    CASE c.kind \in {"save", "create"} -> SaveNotification(c)
      [] c.kind = "mark"    -> MarkAsRead(c)
      [] c.kind = "markall" -> MarkAllAsRead(c)
      [] c.kind = "delete"  -> DeleteNotification(c)
      [] c.kind = "clear"   -> ClearNotifications(c)

Affected(c)   == Method(c).affected
Refused(c)    == Method(c).required /\ Affected(c) = {}
LeftBehind(c) == IF Method(c).required THEN {} ELSE Affected(c)

Changes(c) ==
    LET method == Method(c)
    IN  /\ rows' = [i \in Ids |-> IF i \in method.affected THEN method.becomes ELSE rows[i]]
        /\ removed' = removed \union {i \in method.affected : method.becomes = "absent"}

Write(r) ==
    /\ pc[r] = "write" /\ pc' = [pc EXCEPT ![r] = Method(call[r]).first]
    /\ ~Refused(call[r])
    /\ Changes(call[r])
    /\ UNCHANGED <<cache, call, got, pushed, writes>>
    /\ Excuse(LeftBehind(call[r]))

WriteRefused(r) ==
    /\ Ends(r, "write")
    /\ Refused(call[r])
    /\ UNCHANGED <<rows, cache, pushed, writes, excused, removed>>

\* The statement fails, or its reply is lost although it took effect: no invalidation.
WriteFails(r) ==
    /\ Ends(r, "write")
    /\ \/ UNCHANGED <<rows, cache, removed, excused>>
       \/ /\ Changes(call[r]) /\ UNCHANGED cache
          /\ Excuse(Affected(call[r]) \union {call[r].user})
    /\ UNCHANGED <<pushed, writes>>

\* cache.Delete; its error is logged only.
Drop(key) ==
    \/ cache' = [cache EXCEPT ![key] = NoEntry] /\ Excuse({})
    \/ UNCHANGED cache /\ Excuse({key})

DropEntry(r) ==
    /\ Goto(r, "dropEntry", "dropPage")
    /\ UNCHANGED <<rows, call, got, pushed, writes, removed>>
    /\ Drop(call[r].id)

DropPage(r) ==
    /\ pc[r] = "dropPage"
    /\ IF call[r].kind = "create"
       THEN pc' = [pc EXCEPT ![r] = "send"] /\ UNCHANGED <<call, got>>
       ELSE Ends(r, "dropPage")
    /\ UNCHANGED <<rows, pushed, writes, removed>>
    /\ Drop(call[r].user)

(***************************************************************************)
(* CreateAndQueue hands the saved notification to the strategies of its    *)
(* type, which is any.  The one of in-app saves it again, under the same   *)
(* id, before it pushes.                                                   *)
(***************************************************************************)

\* Mutant: the in-app strategy pushes although its save has failed.
PushesUnsaved(r) ==
    /\ Goto(r, "send", "push")
    /\ UNCHANGED <<rows, cache, call, got, pushed, writes, excused, removed>>

InAppSaves(r) ==
    /\ Goto(r, "send", "dropAgain")
    /\ rows[call[r].id] = "absent"
    /\ Changes(call[r])
    /\ UNCHANGED <<cache, call, got, pushed, writes>>
    /\ Excuse({})

DropAgain(r) ==
    /\ Goto(r, "dropAgain", "push")
    /\ UNCHANGED <<rows, call, got, pushed, writes, removed>>
    /\ Drop(call[r].user)

\* The hub takes the message or has no room; the error is logged only.
InAppPushes(r) ==
    /\ Ends(r, "push")
    /\ pushed' \in {pushed, pushed \union {call[r].id}}
    /\ UNCHANGED <<rows, cache, writes, excused, removed>>

EmailSends(r) ==
    /\ Ends(r, "send")
    /\ UNCHANGED <<rows, cache, pushed, writes, excused, removed>>

\* The in-app strategy finds the row there already, the mail is refused, or the type has
\* no strategy: the notification is answered together with the error.  The reply to the
\* second save may also be lost although it took effect.
SendFails(r) ==
    /\ Ends(r, "send")
    /\ \/ UNCHANGED <<rows, cache, removed, excused>>
       \/ /\ rows[call[r].id] = "absent"
          /\ Changes(call[r]) /\ UNCHANGED cache
          /\ Excuse({call[r].id, call[r].user})
    /\ UNCHANGED <<pushed, writes>>

(***************************************************************************)
(* Redis forgets a key when its time is over, or evicts it.                *)
(***************************************************************************)

\* Mutant: the keys are set to keep what expiry they have, which is none.
KeepsForEver(k) == -1

Minutes(k) == IF k \in Ids THEN 5 ELSE 2

Expire(k) ==
    /\ cache[k] # NoEntry /\ Minutes(k) > 0
    /\ cache' = [cache EXCEPT ![k] = NoEntry]
    /\ UNCHANGED <<rows, call, pc, got, pushed, writes, removed>>
    /\ Excuse({})

Step(r) ==
    \/ CacheHit(r) \/ CacheMiss(r) \/ Find(r) \/ NotFound(r) \/ Count(r) \/ FindPage(r)
    \/ QueryFails(r) \/ Recovered(r) \/ Fill(r)
    \/ Write(r) \/ WriteRefused(r) \/ WriteFails(r) \/ DropEntry(r) \/ DropPage(r)
    \/ InAppSaves(r) \/ DropAgain(r) \/ InAppPushes(r) \/ EmailSends(r) \/ SendFails(r)

Call(r, c) ==
    \/ GetNotification(r, c) \/ GetNotifications(r, c) \/ ChangeNotifications(r, c)
    \/ InAppEvent(r, c) \/ CreateAndQueue(r, c)

Next ==
    \/ \E r \in Requests : Step(r) \/ \E c \in Calls : Call(r, c)
    \/ \E k \in Keys : Expire(k)

Spec == Init /\ [][Next]_vars

\* Redis forgets a key when its time is over; no request is bound to go on.
Fairness == \A k \in Keys : WF_vars(Expire(k))

FairSpec == Spec /\ Fairness

-----------------------------------------------------------------------------
(***************************************************************************)
(* Properties.                                                             *)
(***************************************************************************)

Item  == Ids \X {"unread", "read"}
Pages == [items : Seq(Item), total : 0 .. Cardinality(Ids)]

\* Every variable stays in its type, and Redis holds under each key what belongs there.
TypeOK ==
    /\ rows \in [Ids -> {"absent", "unread", "read"}]
    /\ \A i \in Ids : cache[i] \in {NoEntry, "unread", "read"}
    /\ \A u \in Users : cache[u] # NoEntry => cache[u] \in Pages
    /\ call \in [Requests -> Calls \union {NoCall}]
    /\ pc \in [Requests -> Steps]
    /\ pushed \subseteq Ids
    /\ writes \in 0 .. MaxWrites
    /\ excused \subseteq Keys
    /\ removed \subseteq Ids

\* A writer has changed the rows and is about to delete the key.
BeingDropped(k) ==
    \E r \in Requests :
        \/ pc[r] = "dropEntry" /\ k \in {call[r].id, call[r].user}
        \/ pc[r] \in {"dropPage", "dropAgain"} /\ k = call[r].user

\* The causes of a stale key, exhaustively: its invalidation is under way or has failed,
\* the write took effect but was reported as failed, the key was filled by a request
\* that had read before the write, or a MarkAllAsRead or ClearNotifications left the
\* entries of its notifications.  Every other write is seen by the next reader.
StaleOnlyWhenExcused == \A k \in Keys : Fresh(k) \/ k \in excused \/ BeingDropped(k)

\* The requests that have answered with notifications.
Shown(kind) ==
    {r \in Requests : got[r].result \in {"cached", "queried"} /\ call[r].kind = kind}

\* No user is shown a notification of another, through whatever cached it.
OwnNotificationsOnly ==
    /\ \A r \in Shown("get") : OwnerOf[call[r].id] = call[r].user
    /\ \A r \in Shown("list") : \A n \in DOMAIN got[r].value.items :
           OwnerOf[got[r].value.items[n][1]] = call[r].user

\* The key of the first page does not name its size: a page longer than asked for can
\* be answered, but only out of Redis.  The database's answer has the size asked for,
\* and every answer the newest notification first.
LongPageOnlyFromCache ==
    \A r \in Shown("list") :
        LET items == got[r].value.items
        IN  /\ got[r].result = "queried" => Len(items) <= PageSize(call[r].size)
            /\ \A n \in 2 .. Len(items) : items[n - 1][1] > items[n][1]

\* CreateAndQueue saves an in-app notification and its strategy saves it again: the
\* push needs the row to have been deleted in between.
CreatePushesOnlyDeleted == pushed \subseteq removed

\* Once nobody writes any more, Redis comes to agree with the database and stays so,
\* whatever requests read, because every key is set with an expiry.
StalenessEnds == <>[](\A k \in Keys : Fresh(k))
=============================================================================
