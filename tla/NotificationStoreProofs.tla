------------------------ MODULE NotificationStoreProofs ------------------------
(***************************************************************************)
(* Proofs about NotificationStore, for any notifications, users, calls and *)
(* requests: type correctness, that users are shown their own              *)
(* notifications, newest first and no more than asked for, that the known  *)
(* causes of a stale key are all there are, and when CreateAndQueue        *)
(* pushes.  The first part shows that the pages are what their definition  *)
(* says, the enumeration of a set of rows that it chooses being there.     *)
(***************************************************************************)
EXTENDS NotificationStore, FunctionTheorems, FiniteSetTheorems, TLAPS

(***************************************************************************)
(* A finite set of numbers can be enumerated from the greatest down: each  *)
(* number's rank is how many of the set are no smaller.                    *)
(***************************************************************************)

Rank(S) == [i \in S |-> Cardinality({j \in S : j >= i})]

LEMMA RankOrders ==
    ASSUME NEW S \in SUBSET Nat, IsFiniteSet(S)
    PROVE  /\ Cardinality(S) \in Nat
           /\ Rank(S) \in Bijection(S, 1 .. Cardinality(S))
           /\ \A n \in 1 .. Cardinality(S) : \E i \in S : Rank(S)[i] = n
           /\ \A i, j \in S : i < j => Rank(S)[j] < Rank(S)[i]
  <1> DEFINE Above(i) == {j \in S : j >= i}
             card == Cardinality(S)
  <1>1. card \in Nat
    BY FS_CardinalityType
  <1>2. \A i \in S : IsFiniteSet(Above(i)) /\ Cardinality(Above(i)) <= card
    BY FS_Subset
  <1>3. ASSUME NEW i \in S PROVE Cardinality(Above(i)) \in 1 .. card
    <2>1. Cardinality(Above(i)) \in Nat
      BY <1>2, FS_CardinalityType
    <2>2. i \in Above(i)
      <3>1. i \in Nat
        OBVIOUS
      <3> QED BY <3>1
    <2>3. Cardinality(Above(i)) # 0
      BY <1>2, <2>2, FS_EmptySet
    <2> HIDE DEF Above, card
    <2> QED BY <1>1, <1>2, <2>1, <2>3
  <1>4. ASSUME NEW i \in S, NEW j \in S, i < j PROVE Cardinality(Above(j)) < Cardinality(Above(i))
    <2>1. Above(j) \in SUBSET Above(i) /\ i \in Above(i) /\ i \notin Above(j)
      <3>1. i \in Nat /\ j \in Nat /\ \A k \in S : k >= j => k >= i
        BY <1>4
      <3>2. i >= i /\ ~(i >= j)
        BY <1>4, <3>1
      <3>3. Above(j) \in SUBSET Above(i)
        BY <3>1
      <3>4. i \in Above(i) /\ i \notin Above(j)
        BY <3>2
      <3> QED BY <3>3, <3>4
    <2>2. Above(i) # Above(j)
      BY <2>1
    <2>3. Cardinality(Above(j)) <= Cardinality(Above(i)) /\ Cardinality(Above(i)) # Cardinality(Above(j))
      <3> HIDE DEF Above
      <3> QED BY <1>2, <2>1, <2>2, FS_Subset
    <2> HIDE DEF Above, card
    <2> QED BY <1>3, <2>3
  <1>5. Rank(S) \in [S -> 1 .. card] /\ \A i \in S : Rank(S)[i] = Cardinality(Above(i))
    BY <1>3 DEF Rank
  <1>6. \A i, j \in S : Rank(S)[i] = Rank(S)[j] => i = j
    <2> HIDE DEF Above, card
    <2> QED BY <1>3, <1>4, <1>5
  <1>7. Rank(S) \in Injection(S, 1 .. card)
    <2> HIDE DEF Above, card
    <2> QED BY <1>5, <1>6, Fun_IsInj
  <1>8. Cardinality(1 .. card) = card /\ IsFiniteSet(1 .. card)
    <2> HIDE DEF card
    <2> QED BY <1>1, FS_Interval
  <1>9. Rank(S) \in Surjection(S, 1 .. card)
    <2>1. Cardinality(S) = Cardinality(1 .. card)
      BY <1>8
    <2> HIDE DEF card
    <2> QED BY <1>7, <1>8, <2>1, FS_Injection
  <1> QED
    <2> HIDE DEF Above
    <2> QED BY <1>1, <1>4, <1>5, <1>7, <1>9 DEF Bijection, Surjection

\* What the queries build on: a page lists the rows of a user from the newest on.
LEMMA NewestFirst ==
    ASSUME NEW S \in SUBSET Ids
    PROVE  /\ Cardinality(S) \in Nat
           /\ Newest(S) \in [1 .. Cardinality(S) -> S]
           /\ \A m, n \in 1 .. Cardinality(S) : m < n => Newest(S)[m] > Newest(S)[n]
  <1> DEFINE card == Cardinality(S)
             at == Inverse(Rank(S), S, 1 .. card)
  <1>1. IsFiniteSet(S) /\ S \in SUBSET Nat
    BY StoreAssumption, FS_Subset DEF StoreAssumption
  <1>2. /\ card \in Nat
        /\ Rank(S) \in Bijection(S, 1 .. card)
        /\ \A n \in 1 .. card : \E i \in S : Rank(S)[i] = n
        /\ \A i, j \in S : i < j => Rank(S)[j] < Rank(S)[i]
    BY <1>1, RankOrders
  <1>3. at \in [1 .. card -> S]
    BY <1>2, Fun_BijInverse, Fun_BijectionProperties
  <1>4. \A n \in 1 .. card : Rank(S)[at[n]] = n
    <2>1. \A i \in S : at[Rank(S)[i]] = i
      BY <1>2, Fun_BijInverse
    <2> HIDE DEF at, card
    <2> QED BY <1>2, <2>1
  <1>5. \A m, n \in 1 .. card : m < n => at[m] > at[n]
    <2> SUFFICES ASSUME NEW m \in 1 .. card, NEW n \in 1 .. card, m < n
                 PROVE  at[m] > at[n]
      OBVIOUS
    <2> HIDE DEF at, card
    <2>1. at[m] \in S /\ at[n] \in S /\ at[m] \in Nat /\ at[n] \in Nat
      BY <1>1, <1>3
    <2>2. at[m] # at[n] /\ ~(at[m] < at[n])
      BY <1>2, <1>4, <2>1
    <2> QED BY <2>1, <2>2
  <1> HIDE DEF at
  <1> QED BY <1>2, <1>3, <1>5 DEF Newest

LEMMA MinOfTwo ==
    ASSUME NEW a \in Int, NEW b \in Int
    PROVE  Min({a, b}) \in {a, b} /\ Min({a, b}) <= a /\ Min({a, b}) <= b
  <1>1. \E x \in {a, b} : \A y \in {a, b} : x <= y
    OBVIOUS
  <1> QED BY <1>1 DEF Min

(***************************************************************************)
(* The pages that may be shown to a user: of the user's own notifications, *)
(* the newest first.                                                       *)
(***************************************************************************)

PagesOf(u) ==
    {p \in Pages :
        /\ \A n \in DOMAIN p.items : OwnerOf[p.items[n][1]] = u
        /\ \A n \in 2 .. Len(p.items) : p.items[n - 1][1] > p.items[n][1]}

RowsType == rows \in [Ids -> {"absent", "unread", "read"}]

\* What the query of a page answers, whatever the table holds.
LEMMA SelectFacts ==
    ASSUME RowsType, NEW u \in Users, NEW shape \in Shapes, NEW size \in Sizes
    PROVE  /\ Total(u) \in 0 .. Cardinality(Ids)
           /\ Len(Select(u, shape, size)) <= PageSize(size)
           /\ \A t \in 0 .. Cardinality(Ids) :
                  [items |-> Select(u, shape, size), total |-> t] \in PagesOf(u)
  <1> DEFINE all  == Newest(RowsOf(u))
             from == IF shape = "second" THEN PageSize(size) + 1 ELSE 1
             last == Min({from + PageSize(size) - 1, Len(all)})
             page == Select(u, shape, size)
  <1>1. RowsOf(u) \in SUBSET Ids /\ \A i \in RowsOf(u) : OwnerOf[i] = u /\ rows[i] \in {"unread", "read"}
    BY DEF RowsOf, RowsType
  <1>2. Total(u) \in 0 .. Cardinality(Ids)
    <2>1. Total(u) <= Cardinality(Ids) /\ Cardinality(Ids) \in Nat /\ Total(u) \in Nat
      BY <1>1, NewestFirst, FS_Subset, FS_CardinalityType, StoreAssumption DEF StoreAssumption, Total
    <2> QED BY <2>1
  <1>3. /\ all \in [1 .. Total(u) -> RowsOf(u)] /\ Total(u) \in Nat
        /\ \A m, n \in 1 .. Total(u) : m < n => all[m] > all[n]
    BY <1>1, NewestFirst DEF Total
  <1>4. Len(all) = Total(u)
    <2> HIDE DEF all
    <2> QED BY <1>3
  <1>5. PageSize(size) \in Nat /\ PageSize(size) >= 1
    BY StoreAssumption DEF StoreAssumption, PageSize
  <1>6. /\ from \in Nat /\ from >= 1 /\ last \in Int
        /\ last <= from + PageSize(size) - 1 /\ last <= Total(u)
    <2>1. from \in Nat /\ from >= 1
      BY <1>5
    <2> HIDE DEF from, all
    <2>2. from + PageSize(size) - 1 \in Int /\ Len(all) \in Int
      BY <1>3, <1>4, <1>5, <2>1
    <2> QED BY <1>4, <2>1, <2>2, MinOfTwo
  <1>7. page = [n \in 1 .. last - from + 1 |-> <<all[from + n - 1], rows[all[from + n - 1]]>>]
    BY DEF Select
  <1> HIDE DEF all, from, last, page
  <1>8. PICK len \in Nat :
            /\ len <= PageSize(size) /\ 1 .. len = 1 .. last - from + 1
            /\ \A n \in 1 .. len : from + n - 1 \in 1 .. Total(u)
    <2>1. CASE last - from + 1 <= 0
      <3>1. 1 .. 0 = 1 .. last - from + 1
        BY <1>6, <2>1
      <3> WITNESS 0 \in Nat
      <3> QED BY <1>5, <3>1
    <2>2. CASE last - from + 1 > 0
      <3>1. last - from + 1 \in Nat
        BY <1>6, <2>2
      <3> WITNESS last - from + 1 \in Nat
      <3> QED BY <1>3, <1>5, <1>6, <2>2
    <2> QED BY <1>6, <2>1, <2>2
  <1>9. page = [n \in 1 .. len |-> <<all[from + n - 1], rows[all[from + n - 1]]>>]
    BY <1>7, <1>8
  <1>10. \A n \in 1 .. len : all[from + n - 1] \in RowsOf(u)
    BY <1>3, <1>8
  <1>11. page \in [1 .. len -> Item]
    BY <1>1, <1>9, <1>10 DEF Item
  <1>12. page \in Seq(Item) /\ Len(page) = len
    BY <1>11
  <1>13. \A n \in 1 .. len : OwnerOf[page[n][1]] = u
    BY <1>1, <1>9, <1>10
  <1>14. ASSUME NEW n \in 2 .. len PROVE page[n - 1][1] > page[n][1]
    <2>1. n \in 1 .. len /\ n - 1 \in 1 .. len /\ from + (n - 1) - 1 < from + n - 1
      BY <1>6
    <2>2. all[from + (n - 1) - 1] > all[from + n - 1]
      BY <1>3, <1>8, <2>1
    <2> QED BY <1>9, <2>1, <2>2
  <1>15. ASSUME NEW t \in 0 .. Cardinality(Ids) PROVE [items |-> page, total |-> t] \in PagesOf(u)
    <2> DEFINE p == [items |-> page, total |-> t]
    <2>1. p \in Pages /\ p.items = page /\ DOMAIN p.items = 1 .. len
      BY <1>11, <1>12 DEF Pages
    <2> HIDE DEF p
    <2>2. \A n \in DOMAIN p.items : OwnerOf[p.items[n][1]] = u
      BY <1>13, <2>1
    <2>3. \A n \in 2 .. Len(p.items) : p.items[n - 1][1] > p.items[n][1]
      BY <1>12, <1>14, <2>1
    <2>4. p \in PagesOf(u)
      BY <2>1, <2>2, <2>3 DEF PagesOf
    <2> QED BY <2>4 DEF p
  <1> QED BY <1>2, <1>8, <1>12, <1>15 DEF page

(***************************************************************************)
(* The invariant.                                                          *)
(***************************************************************************)

Writers == {"save", "create", "mark", "markall", "delete", "clear"}

\* What the calls are that can be at a step.
CalledAt(step) ==
    {c \in Calls :
        CASE step = "find"            -> c.kind = "get"
          [] step \in {"lookup", "fill"} -> c.kind = "get" \/ (c.kind = "list" /\ c.shape = "first")
          [] step \in {"count", "page", "panic"} -> c.kind = "list"
          [] step \in {"write", "dropPage"} -> c.kind \in Writers
          [] step = "dropEntry"       -> c.kind \in {"mark", "delete"}
          [] step \in {"send", "dropAgain", "push"} -> c.kind = "create"
          [] OTHER                    -> TRUE}

CallInv ==
    /\ pc \in [Requests -> Steps]
    /\ call \in [Requests -> Calls \union {NoCall}]
    /\ \A r \in Requests : pc[r] # "done" => call[r] \in CalledAt(pc[r])

\* Redis holds under the key of a user only pages of that user.
CacheInv ==
    /\ cache \in [Keys -> {NoEntry, "unread", "read"} \union Pages]
    /\ \A i \in Ids : cache[i] \in {NoEntry, "unread", "read"}
    /\ \A u \in Users : cache[u] # NoEntry => cache[u] \in PagesOf(u)

\* What a call may be shown.
Proper(c, value) ==
    /\ c \in Calls
    /\ c.kind = "get" => value \in {NoEntry, "unread", "read"} /\ OwnerOf[c.id] = c.user
    /\ c.kind = "list" => value \in PagesOf(c.user)

\* What a request has read, and what it answers: a page out of Redis has any length.
GotInv ==
    /\ got \in [Requests -> [result : {"none", "read", "cached", "queried"},
                             value : {NoEntry, "unread", "read"} \union Pages]]
    /\ \A r \in Requests :
        /\ pc[r] = "page" => got[r].value \in Pages
        /\ pc[r] = "fill" \/ got[r].result \in {"cached", "queried"} =>
               Proper(call[r], got[r].value)
        /\ pc[r] = "fill" \/ got[r].result = "queried" =>
               (call[r].kind = "list" =>
                    Len(got[r].value.items) <= PageSize(call[r].size))

IInv == RowsType /\ CallInv /\ CacheInv /\ GotInv

-----------------------------------------------------------------------------
(***************************************************************************)
(* How a request moves.                                                    *)
(***************************************************************************)

Moves(r, to) ==
    /\ pc' = [pc EXCEPT ![r] = to] /\ call' = call
    /\ call[r] \in CalledAt(to)

Finishes(r) ==
    /\ pc' = [pc EXCEPT ![r] = "done"]
    /\ call' = call \/ call' = [call EXCEPT ![r] = NoCall]

Begins(r, c) ==
    /\ pc[r] = "done"
    /\ call' = [call EXCEPT ![r] = c]
    /\ \E step \in Steps \ {"find", "page", "fill", "dropEntry", "dropPage", "send", "dropAgain",
                        "push", "done"} :
           pc' = [pc EXCEPT ![r] = step] /\ c \in CalledAt(step)

LEMMA CallsBegin ==
    ASSUME NEW r \in Requests, NEW c \in Calls, Call(r, c)
    PROVE  /\ Begins(r, c) /\ got' = [got EXCEPT ![r] = Nothing]
           /\ UNCHANGED <<rows, cache, pushed, excused, removed>>
  <1>1. c.kind \in Kinds /\ c.shape \in Shapes
    BY StoreAssumption DEF StoreAssumption
  <1>2. CASE GetNotification(r, c)
    <2>1. c \in CalledAt("lookup")
      BY <1>2 DEF GetNotification, CalledAt
    <2> QED BY <1>2, <2>1 DEF GetNotification, Begin, Begins, Steps
  <1>3. CASE GetNotifications(r, c)
    <2>1. c \in CalledAt(FirstStep(c.shape)) /\ FirstStep(c.shape) \in {"lookup", "count", "panic"}
      BY <1>1, <1>3 DEF GetNotifications, FirstStep, CalledAt, Shapes
    <2> QED BY <1>3, <2>1 DEF GetNotifications, Begin, Begins, Steps
  <1>4. CASE ChangeNotifications(r, c) \/ InAppEvent(r, c) \/ CreateAndQueue(r, c)
    BY <1>4 DEF ChangeNotifications, InAppEvent, CreateAndQueue, BeginWrite, Begin, Begins,
       CalledAt, Steps, Writers
  <1> QED BY <1>2, <1>3, <1>4 DEF Call

\* What the methods of the repository do to rows.
LEMMA MethodFacts ==
    ASSUME RowsType, NEW c \in Calls, c.kind \in Writers
    PROVE  /\ Method(c).affected \subseteq {i \in Ids : OwnerOf[i] = c.user}
           /\ Method(c).becomes \in {"absent", "unread", "read"}
           /\ Method(c).first \in {"dropEntry", "dropPage"}
           /\ Method(c).first = "dropEntry" => c.kind \in {"mark", "delete"}
           /\ Method(c).required => Method(c).affected \subseteq {c.id}
           /\ Method(c).required /\ Method(c).first = "dropPage" =>
                  \A i \in Method(c).affected : rows[i] = "absent"
           /\ c.kind = "create" => /\ Method(c).required /\ Method(c).becomes = "unread"
  <1>1. c.id \in Ids /\ (c.kind \in {"save", "create"} => c.user = OwnerOf[c.id])
    BY StoreAssumption DEF StoreAssumption
  <1>2. CASE c.kind \in {"save", "create"}
    BY <1>1, <1>2 DEF Method, SaveNotification
  <1>3. CASE c.kind = "mark"
    BY <1>3 DEF Method, MarkAsRead, RowsOf
  <1>4. CASE c.kind = "markall"
    BY <1>4 DEF Method, MarkAllAsRead, RowsOf
  <1>5. CASE c.kind = "delete"
    BY <1>5 DEF Method, DeleteNotification, RowsOf
  <1>6. CASE c.kind = "clear"
    BY <1>6 DEF Method, ClearNotifications, RowsOf
  <1> QED BY <1>2, <1>3, <1>4, <1>5, <1>6 DEF Writers

LEMMA StepsMove ==
    ASSUME RowsType, CallInv, NEW r \in Requests, Step(r)
    PROVE  Finishes(r) \/ \E to \in Steps \ {"done"} : Moves(r, to)
  <1>1. CASE CacheHit(r) \/ NotFound(r) \/ QueryFails(r) \/ Recovered(r) \/ Fill(r)
             \/ WriteRefused(r) \/ WriteFails(r) \/ InAppPushes(r) \/ EmailSends(r) \/ SendFails(r)
    BY <1>1 DEF CacheHit, NotFound, QueryFails, Recovered, Fill, WriteRefused, WriteFails,
       InAppPushes, EmailSends, SendFails, Ends, Answers, Goto, Finishes
  <1>2. CASE CacheMiss(r) \/ Find(r) \/ Count(r)
    BY <1>2 DEF CacheMiss, Find, Count, Goto, Moves, CallInv, CalledAt, Steps
  <1>3. CASE FindPage(r)
    BY <1>3 DEF FindPage, Answers, Goto, Finishes, Moves, CallInv, CalledAt, Steps
  <1>4. CASE Write(r)
    BY <1>4, MethodFacts DEF Write, Moves, CallInv, CalledAt, Steps
  <1>5. CASE DropEntry(r) \/ DropPage(r)
    BY <1>5 DEF DropEntry, DropPage, Goto, Ends, Finishes, Moves, CallInv, CalledAt, Steps, Writers
  <1>6. CASE InAppSaves(r) \/ DropAgain(r)
    BY <1>6 DEF InAppSaves, DropAgain, Goto, Moves, CallInv, CalledAt, Steps
  <1> QED BY <1>1, <1>2, <1>3, <1>4, <1>5, <1>6 DEF Step

LEMMA CallNext == RowsType /\ CallInv /\ [Next]_vars => CallInv'
  <1> SUFFICES ASSUME RowsType, CallInv, [Next]_vars PROVE CallInv'
    OBVIOUS
  <1>1. ASSUME NEW r \in Requests, NEW c \in Calls, Call(r, c) PROVE CallInv'
    BY <1>1, CallsBegin DEF Begins, CallInv, CalledAt
  <1>2. ASSUME NEW r \in Requests, Step(r) PROVE CallInv'
    <2>1. CASE Finishes(r)
      BY <2>1 DEF Finishes, CallInv, CalledAt, Steps
    <2>2. ASSUME NEW to \in Steps \ {"done"}, Moves(r, to) PROVE CallInv'
      BY <2>2 DEF Moves, CallInv, CalledAt
    <2> QED BY <1>2, <2>1, <2>2, StepsMove
  <1>3. CASE UNCHANGED <<pc, call>>
    BY <1>3 DEF CallInv, CalledAt
  <1> QED BY <1>1, <1>2, <1>3 DEF Next, Expire, vars

\* The steps at which rows change.
Writing(r) == Changes(call[r]) /\ call[r] \in Calls /\ call[r].kind \in Writers

LEMMA RowsChange ==
    ASSUME CallInv, [Next]_vars
    PROVE  UNCHANGED <<rows, removed>> \/ \E r \in Requests : Step(r) /\ Writing(r)
  <1>1. ASSUME NEW r \in Requests, Write(r) \/ WriteFails(r) \/ InAppSaves(r) \/ SendFails(r)
        PROVE  UNCHANGED <<rows, removed>> \/ (Step(r) /\ Writing(r))
    BY <1>1 DEF Write, WriteFails, InAppSaves, SendFails, Ends, Goto, Step, Writing, Writers, CallInv,
       CalledAt
  <1>2. CASE \A r \in Requests : ~(Write(r) \/ WriteFails(r) \/ InAppSaves(r) \/ SendFails(r))
    BY <1>2, CallsBegin DEF Next, Step, CacheHit, CacheMiss, Find, NotFound, Count, FindPage, QueryFails,
       Recovered, Fill, WriteRefused, DropEntry, DropPage, DropAgain, InAppPushes, EmailSends, Expire,
       vars
  <1> QED BY <1>1, <1>2

LEMMA RowsNext == RowsType /\ CallInv /\ [Next]_vars => RowsType'
  <1>1. ASSUME RowsType, NEW r \in Requests, Writing(r) PROVE RowsType'
    BY <1>1, MethodFacts DEF Writing, Changes, RowsType
  <1> QED BY <1>1, RowsChange DEF RowsType

LEMMA CallFacts ==
    \A c \in Calls : c.id \in Ids /\ c.user \in Users /\ c.id \in Keys /\ c.user \in Keys
  BY StoreAssumption DEF StoreAssumption, Keys

LEMMA CacheNext == IInv /\ [Next]_vars => CacheInv'
  <1> SUFFICES ASSUME IInv, [Next]_vars PROVE CacheInv'
    OBVIOUS
  <1> USE DEF IInv
  <1>1. ASSUME NEW key \in Keys, cache' = [cache EXCEPT ![key] = NoEntry] PROVE CacheInv'
    BY <1>1 DEF CacheInv, Keys
  <1>2. ASSUME NEW r \in Requests, Fill(r), cache' # cache PROVE CacheInv'
    <2>1. /\ call[r].kind = "get" \/ call[r].kind = "list"
          /\ Proper(call[r], got[r].value)
          /\ got[r].value \in {NoEntry, "unread", "read"} \union Pages
          /\ cache' = [cache EXCEPT ![KeyOf(call[r])] = got[r].value]
      BY <1>2 DEF Fill, Answers, Goto, CallInv, CalledAt, GotInv
    <2>2. CASE call[r].kind = "get"
      BY <2>1, <2>2, CallFacts, StoreAssumption DEF KeyOf, Proper, CacheInv, StoreAssumption, Keys
    <2>3. CASE call[r].kind = "list"
      <3>1. got[r].value \in PagesOf(call[r].user) /\ got[r].value \in Pages
        BY <2>1, <2>3 DEF Proper, PagesOf
      <3> QED BY <2>1, <2>3, <3>1, CallFacts, StoreAssumption
              DEF KeyOf, Proper, CacheInv, StoreAssumption, Keys
    <2> QED BY <2>1, <2>2, <2>3
  <1>3. ASSUME NEW r \in Requests, DropEntry(r) \/ DropPage(r) \/ DropAgain(r), cache' # cache
        PROVE  \E key \in Keys : cache' = [cache EXCEPT ![key] = NoEntry]
    BY <1>3, CallFacts DEF DropEntry, DropPage, DropAgain, Ends, Drop, Goto, CallInv, CalledAt
  <1>4. ASSUME NEW key \in Keys, Expire(key)
        PROVE  cache' = [cache EXCEPT ![key] = NoEntry]
    BY <1>4 DEF Expire
  <1>5. CASE cache' = cache
    BY <1>5 DEF CacheInv
  <1>6. ASSUME NEW r \in Requests, Step(r), cache' # cache
        PROVE  Fill(r) \/ DropEntry(r) \/ DropPage(r) \/ DropAgain(r)
    BY <1>6 DEF Step, CacheHit, CacheMiss, Find, NotFound, Count, FindPage, QueryFails, Recovered,
       Write, WriteRefused, WriteFails, InAppSaves, InAppPushes, EmailSends, SendFails
  <1> QED BY <1>1, <1>2, <1>3, <1>4, <1>5, <1>6, CallsBegin DEF Next, vars

\* What GotInv says of one request, in terms of what it holds.
Holds(step, c, g) ==
    /\ step = "page" => g.value \in Pages
    /\ step = "fill" \/ g.result \in {"cached", "queried"} => Proper(c, g.value)
    /\ step = "fill" \/ g.result = "queried" =>
           (c.kind = "list" => Len(g.value.items) <= PageSize(c.size))

Readings == [result : {"none", "read", "cached", "queried"},
             value : {NoEntry, "unread", "read"} \union Pages]

LEMMA GotFacts ==
    GotInv <=> got \in [Requests -> Readings] /\ \A r \in Requests : Holds(pc[r], call[r], got[r])
  BY DEF GotInv, Holds, Readings

\* What each step leaves its own request with.
LEMMA StepHolds ==
    ASSUME IInv, NEW r \in Requests, Step(r)
    PROVE  \/ got' = got /\ pc'[r] \notin {"page", "fill"} /\ (call' = call)
           \/ \E g \in Readings :
                  got' = [got EXCEPT ![r] = g] /\ Holds(pc'[r], call'[r], g)
  <1> USE DEF IInv
  <1>1. Nothing \in Readings /\ \A step \in Steps \ {"page", "fill"} : \A c : Holds(step, c, Nothing)
    BY DEF Nothing, Readings, Holds
  <1>2. CASE \/ NotFound(r) \/ QueryFails(r) \/ Recovered(r) \/ WriteRefused(r) \/ WriteFails(r)
             \/ InAppPushes(r) \/ EmailSends(r) \/ SendFails(r)
    <2>1. got' = [got EXCEPT ![r] = Nothing] /\ pc' = [pc EXCEPT ![r] = "done"]
      BY <1>2 DEF NotFound, QueryFails, Recovered, WriteRefused, WriteFails, InAppPushes, EmailSends,
         SendFails, Ends, Goto
    <2>2. pc'[r] = "done"
      BY <2>1 DEF CallInv
    <2> QED BY <1>1, <2>1, <2>2 DEF Steps
  <1>3. CASE CacheMiss(r) \/ Write(r) \/ DropEntry(r) \/ InAppSaves(r) \/ DropAgain(r)
    BY <1>3, MethodFacts DEF CacheMiss, Write, DropEntry, InAppSaves, DropAgain, Goto, CallInv, CalledAt
  <1>4. CASE DropPage(r)
    <2>1. CASE call[r].kind = "create"
      BY <1>4, <2>1 DEF DropPage, CallInv
    <2>2. CASE call[r].kind # "create"
      <3>1. got' = [got EXCEPT ![r] = Nothing] /\ pc'[r] = "done"
        BY <1>4, <2>2 DEF DropPage, Ends, Goto, CallInv
      <3> QED BY <1>1, <3>1 DEF Steps
    <2> QED BY <2>1, <2>2
  <1>5. CASE CacheHit(r)
    <2> DEFINE value == cache[KeyOf(call[r])]
               g == [result |-> "cached", value |-> value]
    <2>1. /\ call[r] \in CalledAt("lookup") /\ Serves(call[r])
          /\ got' = [got EXCEPT ![r] = g] /\ pc'[r] = "done" /\ call'[r] = call[r]
      BY <1>5 DEF CacheHit, Answers, Goto, CallInv
    <2>2. KeyOf(call[r]) \in Keys /\ value \in {NoEntry, "unread", "read"} \union Pages
      BY <2>1, CallFacts DEF CalledAt, KeyOf, CacheInv
    <2>3. Proper(call[r], value)
      BY <2>1, CallFacts DEF CalledAt, KeyOf, Proper, CacheInv, Serves
    <2>4. g \in Readings /\ Holds("done", call[r], g)
      BY <2>2, <2>3 DEF Readings, Holds
    <2> QED BY <2>1, <2>4
  <1>6. CASE Find(r)
    <2> DEFINE g == [result |-> "read", value |-> rows[call[r].id]]
    <2>1. /\ call[r] \in CalledAt("find") /\ rows[call[r].id] # "absent"
          /\ OwnerOf[call[r].id] = call[r].user
          /\ got' = [got EXCEPT ![r] = g] /\ pc'[r] = "fill" /\ call'[r] = call[r]
      BY <1>6 DEF Find, Read, Goto, CallInv
    <2>2. g \in Readings /\ Holds("fill", call[r], g)
      BY <2>1, CallFacts DEF RowsType, Readings, Holds, CalledAt, Proper
    <2> QED BY <2>1, <2>2
  <1>7. CASE Count(r)
    <2> DEFINE p == [items |-> <<>>, total |-> Total(call[r].user)]
               g == [result |-> "read", value |-> p]
    <2>1. /\ call[r] \in CalledAt("count")
          /\ got' = [got EXCEPT ![r] = g] /\ pc'[r] = "page" /\ call'[r] = call[r]
      BY <1>7 DEF Count, Read, Goto, CallInv
    <2>2. Total(call[r].user) \in 0 .. Cardinality(Ids)
      BY <2>1, SelectFacts, StoreAssumption DEF CalledAt, StoreAssumption
    <2>3. p \in Pages
      BY <2>2 DEF Pages
    <2>4. g \in Readings /\ Holds("page", call[r], g)
      BY <2>3 DEF Readings, Holds
    <2> QED BY <2>1, <2>4
  <1>8. CASE FindPage(r)
    <2> DEFINE c == call[r]
               p == [items |-> Select(c.user, c.shape, c.size), total |-> got[r].value.total]
    <2>1. PICK result \in {"read", "queried"} :
             /\ c \in CalledAt("page") /\ got[r].value \in Pages
             /\ got' = [got EXCEPT ![r] = [result |-> result, value |-> p]]
             /\ pc'[r] \in {"fill", "done"} /\ call'[r] = c
      BY <1>8 DEF FindPage, Read, Answers, Goto, CallInv, GotInv
    <2>2. /\ c \in Calls /\ c.kind = "list" /\ c.user \in Users /\ c.shape \in Shapes /\ c.size \in Sizes
          /\ got[r].value.total \in 0 .. Cardinality(Ids)
      BY <2>1, StoreAssumption DEF CalledAt, StoreAssumption, Pages
    <2>3. p \in PagesOf(c.user) /\ Len(p.items) <= PageSize(c.size)
      BY <2>2, SelectFacts
    <2>4. p \in Pages
      BY <2>3 DEF PagesOf
    <2> HIDE DEF p
    <2>5. [result |-> result, value |-> p] \in Readings
      BY <2>1, <2>4 DEF Readings
    <2>6. Holds(pc'[r], c, [result |-> result, value |-> p])
      BY <2>1, <2>2, <2>3 DEF Holds, Proper
    <2> QED BY <2>1, <2>5, <2>6
  <1>9. CASE Fill(r)
    <2> DEFINE g == [result |-> "queried", value |-> got[r].value]
    <2>1. /\ pc[r] = "fill" /\ got' = [got EXCEPT ![r] = g] /\ pc'[r] = "done" /\ call'[r] = call[r]
      BY <1>9 DEF Fill, Answers, Goto, CallInv
    <2>2. g \in Readings /\ Holds("done", call[r], g)
      BY <2>1, GotFacts DEF Readings, Holds
    <2> QED BY <2>1, <2>2
  <1> QED BY <1>2, <1>3, <1>4, <1>5, <1>6, <1>7, <1>8, <1>9 DEF Step

LEMMA GotNext == IInv /\ [Next]_vars => GotInv'
  <1> SUFFICES ASSUME IInv, [Next]_vars PROVE GotInv'
    OBVIOUS
  <1>0. /\ got \in [Requests -> Readings] /\ \A r \in Requests : Holds(pc[r], call[r], got[r])
        /\ CallInv
    BY GotFacts DEF IInv
  <1> SUFFICES /\ got' \in [Requests -> Readings]
               /\ \A r \in Requests : Holds(pc'[r], call'[r], got'[r])
    BY DEF GotInv, Holds, Readings
  <1>1. ASSUME NEW r \in Requests, NEW c \in Calls, Call(r, c)
        PROVE  /\ got' \in [Requests -> Readings]
               /\ \A s \in Requests : Holds(pc'[s], call'[s], got'[s])
    <2>1. Begins(r, c) /\ got' = [got EXCEPT ![r] = Nothing]
      BY <1>1, CallsBegin
    <2>2. Nothing \in Readings /\ Holds(pc'[r], c, Nothing)
      BY <1>0, <2>1 DEF Begins, Nothing, Readings, Holds, CallInv
    <2> QED BY <1>0, <2>1, <2>2 DEF Begins, CallInv
  <1>2. ASSUME NEW r \in Requests, Step(r)
        PROVE  /\ got' \in [Requests -> Readings]
               /\ \A s \in Requests : Holds(pc'[s], call'[s], got'[s])
    <2>1. \A s \in Requests \ {r} : pc'[s] = pc[s] /\ call'[s] = call[s]
      BY <1>0, <1>2, StepsMove DEF IInv, CallInv, Finishes, Moves
    <2>2. CASE got' = got /\ pc'[r] \notin {"page", "fill"} /\ call' = call
      BY <1>0, <2>1, <2>2 DEF Holds
    <2>3. CASE \E g \in Readings : got' = [got EXCEPT ![r] = g] /\ Holds(pc'[r], call'[r], g)
      BY <1>0, <2>1, <2>3
    <2> QED BY <1>2, <2>2, <2>3, StepHolds
  <1>3. CASE UNCHANGED <<pc, call, got>>
    BY <1>0, <1>3
  <1> QED BY <1>1, <1>2, <1>3 DEF Next, Expire, vars

LEMMA InitInv == Init => IInv
  <1> SUFFICES ASSUME Init PROVE IInv
    OBVIOUS
  <1>1. RowsType /\ CallInv
    BY StoreAssumption DEF Init, StoreAssumption, RowsType, CallInv, Steps
  <1>2. CacheInv
    BY DEF Init, CacheInv, Keys
  <1>3. GotInv
    BY DEF Init, GotInv, Nothing
  <1> QED BY <1>1, <1>2, <1>3 DEF IInv

LEMMA NextInv == IInv /\ [Next]_vars => IInv'
  BY RowsNext, CallNext, CacheNext, GotNext DEF IInv

LEMMA Invariance == Spec => []IInv
  BY InitInv, NextInv, PTL DEF Spec

-----------------------------------------------------------------------------
(***************************************************************************)
(* TypeOK.                                                                 *)
(***************************************************************************)

\* The rest of the types: the bound on writes, and what the ghosts may hold.
CountedInv ==
    /\ pushed \subseteq Ids /\ writes \in 0 .. MaxWrites
    /\ excused \subseteq Keys /\ removed \subseteq Ids

LEMMA PushedChange ==
    ASSUME [Next]_vars
    PROVE  \/ pushed' = pushed
           \/ \E r \in Requests : InAppPushes(r) /\ pushed' = pushed \union {call[r].id}
  BY CallsBegin DEF Next, Step, CacheHit, CacheMiss, Find, NotFound, Count, FindPage, QueryFails,
     Recovered, Fill, Write, WriteRefused, WriteFails, DropEntry, DropPage, InAppSaves, DropAgain,
     InAppPushes, EmailSends, SendFails, Expire, vars

LEMMA CountedNext == IInv /\ CountedInv /\ [Next]_vars => CountedInv'
  <1> SUFFICES ASSUME IInv, CountedInv, [Next]_vars PROVE CountedInv'
    OBVIOUS
  <1> USE DEF IInv
  <1>1. pushed' \subseteq Ids
    BY PushedChange, CallFacts DEF CountedInv, InAppPushes, Ends, Goto, CallInv, CalledAt
  <1>2. writes' \in 0 .. MaxWrites
    <2>1. ASSUME NEW r \in Requests, NEW c \in Calls, Call(r, c) PROVE writes' \in 0 .. MaxWrites
      BY <2>1, StoreAssumption DEF CountedInv, StoreAssumption, Call, GetNotification, GetNotifications,
         ChangeNotifications, InAppEvent, CreateAndQueue, BeginWrite
    <2>2. ASSUME NEW r \in Requests, Step(r) PROVE writes' = writes
      BY <2>2 DEF Step, CacheHit, CacheMiss, Find, NotFound, Count, FindPage, QueryFails, Recovered,
         Fill, Write, WriteRefused, WriteFails, DropEntry, DropPage, InAppSaves, DropAgain,
         InAppPushes, EmailSends, SendFails
    <2> QED BY <2>1, <2>2 DEF CountedInv, Next, Expire, vars
  <1>3. excused' \subseteq Keys
    <2>1. ASSUME NEW keys \in SUBSET Keys, Excuse(keys) PROVE excused' \subseteq Keys
      BY <2>1 DEF Excuse, CountedInv
    <2>2. ASSUME NEW r \in Requests, Step(r)
          PROVE  excused' = excused \/ \E keys \in SUBSET Keys : Excuse(keys)
      <3>1. CASE Fill(r)
        BY <2>2, <3>1, CallFacts DEF Fill, Answers, Goto, CallInv, CalledAt, KeyOf
      <3>2. CASE Write(r) \/ WriteFails(r)
        <4>1. call[r] \in Calls /\ call[r].kind \in Writers
          BY <3>2 DEF Write, WriteFails, Ends, Goto, CallInv, CalledAt
        <4>2. LeftBehind(call[r]) \in SUBSET Keys /\ Affected(call[r]) \union {call[r].user} \in SUBSET Keys
          BY <4>1, MethodFacts, CallFacts DEF LeftBehind, Affected, Keys
        <4> QED BY <3>2, <4>2 DEF Write, WriteFails
      <3>3. CASE DropEntry(r) \/ DropPage(r) \/ DropAgain(r)
        BY <3>3, CallFacts DEF DropEntry, DropPage, DropAgain, Drop, Ends, Goto, CallInv, CalledAt
      <3>4. CASE InAppSaves(r) \/ SendFails(r)
        <4>1. call[r] \in Calls /\ {call[r].id, call[r].user} \in SUBSET Keys
          BY <3>4, CallFacts DEF InAppSaves, SendFails, Ends, Goto, CallInv, CalledAt
        <4> QED BY <3>4, <4>1 DEF InAppSaves, SendFails
      <3> QED BY <2>2, <3>1, <3>2, <3>3, <3>4 DEF Step, CacheHit, CacheMiss, Find, NotFound, Count, FindPage,
              QueryFails, Recovered, WriteRefused, InAppPushes, EmailSends
    <2>3. ASSUME NEW key \in Keys, Expire(key) PROVE Excuse({})
      BY <2>3 DEF Expire
    <2> QED BY <2>1, <2>2, <2>3, CallsBegin DEF CountedInv, Next, vars
  <1>4. removed' \subseteq Ids
    BY RowsChange, MethodFacts DEF CountedInv, Writing, Changes
  <1> QED BY <1>1, <1>2, <1>3, <1>4 DEF CountedInv

\* Whatever requests interleave and whatever fails, Redis holds under each key what
\* belongs there, and every variable stays in its type.
THEOREM TypeCorrect == Spec => []TypeOK
  <1>1. Init => CountedInv
    BY StoreAssumption DEF Init, CountedInv, StoreAssumption
  <1>2. IInv /\ CountedInv => TypeOK
    BY DEF IInv, CountedInv, TypeOK, RowsType, CallInv, CacheInv, PagesOf
  <1> QED BY <1>1, <1>2, CountedNext, Invariance, PTL DEF Spec

\* Nobody is shown the notifications of another user: not by the queries, which name
\* the user, and not by the caches, though the key of a notification names no user.
THEOREM OthersStayHidden == Spec => []OwnNotificationsOnly
  <1>1. IInv => OwnNotificationsOnly
    BY DEF IInv, GotInv, Proper, PagesOf, OwnNotificationsOnly, Shown
  <1> QED BY <1>1, Invariance, PTL

\* The database answers no more than was asked for, and every answer, Redis's too,
\* has the newest notification first.
THEOREM PagesAreInOrder == Spec => []LongPageOnlyFromCache
  <1>1. IInv => LongPageOnlyFromCache
    BY DEF IInv, GotInv, Proper, PagesOf, LongPageOnlyFromCache, Shown
  <1> QED BY <1>1, Invariance, PTL

-----------------------------------------------------------------------------
(***************************************************************************)
(* CreatePushesOnlyDeleted.                                                *)
(***************************************************************************)

\* Past its save, the notification of a CreateAndQueue has a row or has been deleted;
\* past the second save, it has been deleted.
Saved(r) ==
    /\ pc[r] \in {"dropPage", "send"} /\ call[r].kind = "create" =>
           rows[call[r].id] # "absent" \/ call[r].id \in removed
    /\ pc[r] \in {"dropAgain", "push"} => call[r].id \in removed

SavedInv == \A r \in Requests : Saved(r)

LEMMA SavedNext == IInv /\ SavedInv /\ [Next]_vars => SavedInv'
  <1> SUFFICES ASSUME IInv, SavedInv, [Next]_vars,
                      NEW r \in Requests
               PROVE  Saved(r)'
    BY DEF SavedInv
  <1> USE DEF IInv
  <1>1. /\ removed \subseteq removed'
        /\ \A i \in Ids : rows[i] # "absent" \/ i \in removed => rows'[i] # "absent" \/ i \in removed'
    <2>1. ASSUME NEW s \in Requests, Writing(s)
          PROVE  /\ removed \subseteq removed'
                 /\ \A i \in Ids :
                        rows[i] # "absent" \/ i \in removed => rows'[i] # "absent" \/ i \in removed'
      BY <2>1, MethodFacts DEF Writing, Changes, RowsType
    <2> QED BY <2>1, RowsChange
  <1>2. CASE UNCHANGED <<pc[r], call[r]>>
    BY <1>1, <1>2, CallFacts DEF SavedInv, Saved, CallInv, CalledAt
  <1>3. ASSUME NEW c \in Calls, Call(r, c) PROVE Saved(r)'
    BY <1>3, CallsBegin DEF Begins, CallInv, Saved
  <1>4. CASE Write(r)
    <2>1. /\ call' = call /\ call[r] \in Calls /\ call[r].kind \in Writers
          /\ ~Refused(call[r]) /\ Changes(call[r]) /\ pc'[r] \in {"dropEntry", "dropPage"}
      BY <1>4, MethodFacts DEF Write, CallInv, CalledAt
    <2>2. call[r].kind = "create" => rows'[call[r].id] = "unread"
      BY <2>1, CallFacts, MethodFacts DEF Refused, Affected, Changes, Writers
    <2> QED BY <2>1, <2>2 DEF Saved
  <1>5. CASE DropPage(r)
    <2>1. pc[r] = "dropPage" /\ pc'[r] \in {"send", "done"} /\ (pc'[r] = "send" => call'[r] = call[r])
      BY <1>5 DEF DropPage, Ends, Goto, CallInv
    <2> QED BY <1>1, <2>1, CallFacts DEF SavedInv, Saved, CallInv, CalledAt
  <1>6. CASE InAppSaves(r)
    <2>1. call'[r] = call[r] /\ pc[r] = "send" /\ rows[call[r].id] = "absent" /\ pc'[r] = "dropAgain"
      BY <1>6 DEF InAppSaves, Goto, CallInv
    <2> QED BY <1>1, <2>1 DEF SavedInv, Saved, CallInv, CalledAt
  <1>7. CASE DropAgain(r)
    <2>1. call'[r] = call[r] /\ pc[r] = "dropAgain" /\ pc'[r] = "push"
      BY <1>7 DEF DropAgain, Goto, CallInv
    <2> QED BY <1>1, <2>1 DEF SavedInv, Saved
  <1>8. ASSUME Step(r), ~(Write(r) \/ DropPage(r) \/ InAppSaves(r) \/ DropAgain(r))
        PROVE  Saved(r)'
    <2>1. DropEntry(r) => pc'[r] = "dropPage" /\ call'[r].kind # "create"
      BY DEF DropEntry, Goto, CallInv, CalledAt
    <2>2. DropEntry(r) \/ pc'[r] \notin {"dropPage", "send", "dropAgain", "push"}
      BY <1>8 DEF Step, CacheHit, CacheMiss, Find, NotFound, Count, FindPage, QueryFails, Recovered,
         Fill, WriteRefused, WriteFails, InAppPushes, EmailSends, SendFails, Answers, Ends, Goto, CallInv
    <2> QED BY <2>1, <2>2 DEF Saved
  <1>9. ASSUME NEW s \in Requests \ {r}, Step(s) \/ \E c \in Calls : Call(s, c)
        PROVE  UNCHANGED <<pc[r], call[r]>>
    BY <1>9, StepsMove, CallsBegin DEF Finishes, Moves, Begins, CallInv
  <1> QED BY <1>2, <1>3, <1>4, <1>5, <1>6, <1>7, <1>8, <1>9 DEF Next, Expire, vars

\* The in-app strategy pushes only after a save of an id that CreateAndQueue has just
\* saved: it gets there only when the row was deleted in between.
THEOREM PushesFollowDeletes == Spec => []CreatePushesOnlyDeleted
  <1>1. Init => SavedInv /\ CreatePushesOnlyDeleted
    BY DEF Init, SavedInv, Saved, CreatePushesOnlyDeleted
  <1>2. IInv /\ SavedInv /\ CreatePushesOnlyDeleted /\ [Next]_vars => CreatePushesOnlyDeleted'
    <2> SUFFICES ASSUME IInv, SavedInv, CreatePushesOnlyDeleted, [Next]_vars
                 PROVE  CreatePushesOnlyDeleted'
      OBVIOUS
    <2>1. removed \subseteq removed'
      BY RowsChange DEF IInv, Writing, Changes
    <2>2. ASSUME NEW r \in Requests, InAppPushes(r) PROVE call[r].id \in removed
      BY <2>2 DEF InAppPushes, Ends, Goto, SavedInv, Saved, IInv, CallInv, CalledAt
    <2> QED BY <2>1, <2>2, PushedChange DEF CreatePushesOnlyDeleted
  <1> QED BY <1>1, <1>2, SavedNext, Invariance, PTL DEF Spec

-----------------------------------------------------------------------------
(***************************************************************************)
(* StaleOnlyWhenExcused.                                                   *)
(***************************************************************************)

\* The first page of a user depends on the rows of that user alone.
LEMMA FirstPageDepends ==
    ASSUME RowsType, RowsType', NEW u \in Users, NEW size \in Sizes,
           \A i \in Ids : OwnerOf[i] = u => rows'[i] = rows[i]
    PROVE  Select(u, "first", size)' = Select(u, "first", size) /\ Total(u)' = Total(u)
  <1> DEFINE all  == Newest(RowsOf(u))
             upTo == 1 + PageSize(size) - 1
             last == Min({upTo, Len(all)})
  <1>1. RowsOf(u)' = RowsOf(u) /\ RowsOf(u) \in SUBSET Ids
    BY DEF RowsOf
  <1>2. all \in [1 .. Total(u) -> RowsOf(u)] /\ Total(u) \in Nat
    BY <1>1, NewestFirst DEF Total
  <1>3. Len(all) = Total(u)
    <2> HIDE DEF all
    <2> QED BY <1>2
  <1>4. last \in Int /\ last <= Total(u)
    <2>1. upTo \in Int
      BY StoreAssumption DEF StoreAssumption, PageSize
    <2> HIDE DEF all, upTo
    <2>2. Len(all) \in Int
      BY <1>2, <1>3
    <2> QED BY <1>2, <1>3, <2>1, <2>2, MinOfTwo
  <1>5. Select(u, "first", size) =
            [n \in 1 .. last - 1 + 1 |-> <<all[1 + n - 1], rows[all[1 + n - 1]]>>]
    BY DEF Select
  <1>6. Select(u, "first", size)' =
            [n \in 1 .. last - 1 + 1 |-> <<all[1 + n - 1], rows'[all[1 + n - 1]]>>]
    BY <1>1 DEF Select
  <1> HIDE DEF all, last
  <1>7. \A n \in 1 .. last - 1 + 1 : 1 + n - 1 \in 1 .. Total(u)
    BY <1>2, <1>4
  <1>8. \A n \in 1 .. last - 1 + 1 : rows'[all[1 + n - 1]] = rows[all[1 + n - 1]]
    BY <1>2, <1>7 DEF RowsOf
  <1> QED BY <1>1, <1>5, <1>6, <1>8 DEF Total

\* The rows that a key is about are as they were.
Untouched(k) ==
    /\ k \in Ids => rows'[k] = rows[k]
    /\ k \in Users => \A i \in Ids : OwnerOf[i] = k => rows'[i] = rows[i]

LEMMA FreshStays ==
    ASSUME RowsType, RowsType', NEW k \in Keys, Untouched(k), cache'[k] = cache[k], Fresh(k)
    PROVE  Fresh(k)'
  BY FirstPageDepends DEF Untouched, Fresh

Drops(r, k) ==
    \/ pc[r] = "dropEntry" /\ k \in {call[r].id, call[r].user}
    \/ pc[r] \in {"dropPage", "dropAgain"} /\ k = call[r].user

LEMMA OthersDrop ==
    ASSUME IInv, NEW r \in Requests, Step(r) \/ \E c \in Calls : Call(r, c),
           NEW s \in Requests \ {r}, NEW k, Drops(s, k)
    PROVE  Drops(s, k)'
  <1>1. pc'[s] = pc[s] /\ call'[s] = call[s]
    BY StepsMove, CallsBegin DEF Finishes, Moves, Begins, IInv, CallInv
  <1> QED BY <1>1 DEF Drops

\* A write covers the keys of the rows it changes and of their user.
LEMMA WriteTouches ==
    ASSUME RowsType, NEW c \in Calls, c.kind \in Writers, Changes(c),
           NEW k \in Keys, k # c.user, k \notin Affected(c)
    PROVE  Untouched(k)
  BY MethodFacts, StoreAssumption DEF Changes, Affected, Untouched, StoreAssumption

LEMMA StaleNext == IInv /\ StaleOnlyWhenExcused /\ [Next]_vars => StaleOnlyWhenExcused'
  <1> SUFFICES ASSUME IInv, StaleOnlyWhenExcused, [Next]_vars,
                      NEW k \in Keys, ~Fresh(k)', k \notin excused'
               PROVE  \E r \in Requests : Drops(r, k)'
    BY DEF StaleOnlyWhenExcused, BeingDropped, Drops
  <1> USE DEF IInv
  <1>0. RowsType'
    BY RowsNext
  <1>1. k \in excused \/ Fresh(k) \/ \E r \in Requests : Drops(r, k)
    BY DEF StaleOnlyWhenExcused, BeingDropped, Drops
  <1>2. ASSUME NEW keys, Excuse(keys) PROVE k \notin excused \union keys
    BY <1>2 DEF Excuse
  <1>3. ASSUME rows' = rows PROVE Untouched(k)
    BY <1>3 DEF Untouched
  <1>4. ASSUME NEW r \in Requests, Step(r) \/ \E c \in Calls : Call(r, c),
               ~Drops(r, k), ~Fresh(k), k \notin excused
        PROVE  \E s \in Requests : Drops(s, k)'
    BY <1>1, <1>4, OthersDrop
  <1>5. ASSUME NEW r \in Requests, Step(r) \/ \E c \in Calls : Call(r, c),
               pc[r] \notin {"dropEntry", "dropPage", "dropAgain"}, UNCHANGED <<rows, cache, excused>>
        PROVE  \E s \in Requests : Drops(s, k)'
    <2>1. ~Fresh(k) /\ k \notin excused
      BY <1>0, <1>3, <1>5, FreshStays
    <2> QED BY <1>4, <1>5, <2>1 DEF Drops
  <1>6. ASSUME NEW r \in Requests, NEW c \in Calls, Call(r, c)
        PROVE  \E s \in Requests : Drops(s, k)'
    BY <1>5, <1>6, CallsBegin DEF Begins
  <1>7. ASSUME NEW r \in Requests, Fill(r) PROVE \E s \in Requests : Drops(s, k)'
    <2>1. k # KeyOf(call[r]) /\ k \notin excused
      BY <1>2, <1>7 DEF Fill
    <2>2. cache'[k] = cache[k]
      BY <1>7, <2>1 DEF Fill, CacheInv
    <2>3. ~Fresh(k)
      BY <1>0, <1>3, <1>7, <2>2, FreshStays DEF Fill
    <2>4. Step(r) /\ ~Drops(r, k)
      BY <1>7 DEF Step, Fill, Answers, Goto, Drops
    <2> QED BY <1>4, <2>1, <2>3, <2>4
  <1>8. ASSUME NEW r \in Requests, Write(r) PROVE \E s \in Requests : Drops(s, k)'
    <2> DEFINE c == call[r]
    <2>1. /\ c \in Calls /\ c.kind \in Writers /\ call' = call /\ cache' = cache
          /\ pc'[r] = Method(c).first /\ Changes(c) /\ k \notin excused \union LeftBehind(c)
          /\ Step(r) /\ ~Drops(r, k)
      BY <1>2, <1>8 DEF Write, CallInv, CalledAt, Step, Drops
    <2>2. CASE k = c.user
      <3>1. Drops(r, k)'
        BY <2>1, <2>2, MethodFacts DEF Drops
      <3> QED BY <3>1
    <2>3. CASE k # c.user /\ k \notin Affected(c)
      <3>1. ~Fresh(k)
        BY <1>0, <2>1, <2>3, WriteTouches, FreshStays
      <3> QED BY <1>4, <2>1, <3>1
    <2>4. CASE k \in Affected(c)
      <3>1. Method(c).required /\ k = c.id /\ k \in Ids
        BY <2>1, <2>4, MethodFacts DEF LeftBehind, Affected
      <3>2. CASE Method(c).first = "dropEntry"
        <4>1. Drops(r, k)'
          BY <2>1, <3>1, <3>2 DEF Drops
        <4> QED BY <4>1
      <3>3. CASE Method(c).first = "dropPage"
        <4>1. rows[k] = "absent"
          BY <2>1, <2>4, <3>1, <3>3, MethodFacts DEF Affected
        <4>2. ~Fresh(k)
          BY <2>1, <3>1, <4>1, StoreAssumption DEF Fresh, CacheInv, StoreAssumption
        <4> QED BY <1>4, <2>1, <4>2
      <3> QED BY <2>1, <3>2, <3>3, MethodFacts
    <2> QED BY <2>2, <2>3, <2>4
  <1>9. ASSUME NEW r \in Requests, WriteFails(r) PROVE \E s \in Requests : Drops(s, k)'
    <2> DEFINE c == call[r]
    <2>1. c \in Calls /\ c.kind \in Writers /\ Step(r) /\ ~Drops(r, k) /\ cache' = cache
      BY <1>9 DEF WriteFails, Ends, Goto, CallInv, CalledAt, Step, Drops
    <2>2. CASE UNCHANGED <<rows, cache, removed, excused>>
      BY <1>5, <1>9, <2>1, <2>2 DEF WriteFails, Ends, Goto
    <2>3. CASE Changes(c) /\ Excuse(Affected(c) \union {c.user})
      <3>1. k \notin excused /\ k # c.user /\ k \notin Affected(c)
        BY <1>2, <2>3
      <3>2. ~Fresh(k)
        BY <1>0, <2>1, <2>3, <3>1, WriteTouches, FreshStays
      <3> QED BY <1>4, <2>1, <3>1, <3>2
    <2> QED BY <1>9, <2>2, <2>3 DEF WriteFails
  <1>10. ASSUME NEW r \in Requests, SendFails(r) PROVE \E s \in Requests : Drops(s, k)'
    <2> DEFINE c == call[r]
    <2>1. /\ c \in Calls /\ c.kind = "create" /\ c.kind \in Writers
          /\ Step(r) /\ ~Drops(r, k)
      BY <1>10 DEF SendFails, Ends, Goto, CallInv, CalledAt, Writers, Step, Drops
    <2>2. CASE UNCHANGED <<rows, cache, removed, excused>>
      BY <1>5, <1>10, <2>1, <2>2 DEF SendFails, Ends, Goto
    <2>3. CASE Changes(c) /\ cache' = cache /\ Excuse({c.id, c.user})
      <3>1. k \notin excused /\ k # c.user /\ k \notin Affected(c)
        BY <1>2, <2>1, <2>3, MethodFacts DEF Affected
      <3>2. ~Fresh(k)
        BY <1>0, <2>1, <2>3, <3>1, WriteTouches, FreshStays
      <3> QED BY <1>4, <2>1, <3>1, <3>2
    <2> QED BY <1>10, <2>2, <2>3 DEF SendFails
  <1>11. ASSUME NEW key \in Keys, Drop(key)
         PROVE  k # key /\ cache'[k] = cache[k] /\ k \notin excused
    BY <1>2, <1>11 DEF Drop, Fresh, CacheInv
  <1>12. ASSUME NEW r \in Requests, DropEntry(r) \/ DropPage(r) \/ DropAgain(r)
         PROVE  \E s \in Requests : Drops(s, k)'
    <2>1. PICK key \in Keys : Drop(key) /\ (Drops(r, k) => k = key \/ Drops(r, k)')
      <3>1. call[r] \in Calls
        BY <1>12 DEF DropEntry, DropPage, DropAgain, Goto, Ends, CallInv, CalledAt
      <3>2. CASE DropEntry(r)
        BY <3>1, <3>2, CallFacts DEF DropEntry, Goto, Drops, CallInv
      <3>3. CASE DropPage(r)
        BY <3>1, <3>3, CallFacts DEF DropPage, Drops
      <3>4. CASE DropAgain(r)
        BY <3>1, <3>4, CallFacts DEF DropAgain, Goto, Drops
      <3> QED BY <1>12, <3>2, <3>3, <3>4
    <2>2. Step(r) /\ Untouched(k)
      BY <1>3, <1>12 DEF DropEntry, DropPage, DropAgain, Step
    <2>3. k # key /\ ~Fresh(k) /\ k \notin excused
      BY <1>0, <1>11, <2>1, <2>2, FreshStays
    <2> QED BY <1>4, <2>1, <2>2, <2>3
  <1>13. ASSUME NEW r \in Requests, InAppSaves(r) PROVE \E s \in Requests : Drops(s, k)'
    <2> DEFINE c == call[r]
    <2>1. /\ c \in Calls /\ c.kind = "create" /\ c.kind \in Writers /\ c.id \in Ids
          /\ Step(r) /\ ~Drops(r, k) /\ call' = call /\ pc'[r] = "dropAgain"
          /\ Changes(c) /\ rows[c.id] = "absent" /\ cache' = cache /\ k \notin excused
      BY <1>2, <1>13, CallFacts
         DEF InAppSaves, Goto, CallInv, CalledAt, Writers, Step, Drops
    <2>2. CASE k = c.user
      <3>1. Drops(r, k)'
        BY <2>1, <2>2 DEF Drops
      <3> QED BY <3>1
    <2>3. CASE k # c.user /\ k \notin Affected(c)
      <3>1. ~Fresh(k)
        BY <1>0, <2>1, <2>3, WriteTouches, FreshStays
      <3> QED BY <1>4, <2>1, <3>1
    <2>4. CASE k \in Affected(c)
      <3>1. k = c.id
        BY <2>1, <2>4, MethodFacts DEF Affected
      <3>2. ~Fresh(k)
        BY <1>0, <2>1, <3>1, StoreAssumption DEF Fresh, CacheInv, Keys, StoreAssumption
      <3> QED BY <1>4, <2>1, <3>2
    <2> QED BY <2>2, <2>3, <2>4
  <1>14. ASSUME NEW key \in Keys, Expire(key) PROVE \E s \in Requests : Drops(s, k)'
    <2>1. k \notin excused /\ k # key /\ cache'[k] = cache[k] /\ UNCHANGED <<rows, pc, call>>
      BY <1>2, <1>14 DEF Expire, Fresh, CacheInv
    <2>2. ~Fresh(k)
      BY <1>0, <1>3, <2>1, FreshStays
    <2> QED BY <1>1, <2>1, <2>2 DEF Drops
  <1>15. ASSUME NEW r \in Requests,
                \/ CacheHit(r) \/ CacheMiss(r) \/ Find(r) \/ NotFound(r) \/ Count(r) \/ FindPage(r)
                \/ QueryFails(r) \/ Recovered(r) \/ WriteRefused(r) \/ InAppPushes(r) \/ EmailSends(r)
         PROVE  \E s \in Requests : Drops(s, k)'
    <2>1. Step(r) /\ UNCHANGED <<rows, cache, excused>> /\ pc[r] \notin {"dropEntry", "dropPage", "dropAgain"}
      BY <1>15 DEF Step, CacheHit, CacheMiss, Find, NotFound, Count, FindPage, QueryFails, Recovered,
         WriteRefused, InAppPushes, EmailSends, Answers, Ends, Goto
    <2> QED BY <1>5, <2>1
  <1>16. CASE UNCHANGED vars
    <2>1. ~Fresh(k) /\ k \notin excused
      BY <1>0, <1>3, <1>16, FreshStays DEF vars
    <2> QED BY <1>1, <1>16, <2>1 DEF Drops, vars
  <1> QED BY <1>6, <1>7, <1>8, <1>9, <1>12, <1>13, <1>14, <1>15, <1>16, <1>10 DEF Next, Step

\* The known causes of a stale key are all there are: a write that was not caught by its
\* own failure, a late fill, a lost invalidation or the two statements for many rows
\* is seen by the next reader as soon as its invalidations are through.
THEOREM StaleKeysAreExcused == Spec => []StaleOnlyWhenExcused
  <1>1. Init => StaleOnlyWhenExcused
    BY DEF Init, StaleOnlyWhenExcused, Fresh
  <1> QED BY <1>1, StaleNext, Invariance, PTL DEF Spec
=============================================================================
