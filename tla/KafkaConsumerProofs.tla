------------------------ MODULE KafkaConsumerProofs ------------------------
(***************************************************************************)
(* Proofs about KafkaConsumer, for all partitions, workers, handlers,      *)
(* buffer sizes, retries and numbers of faults.                            *)
(***************************************************************************)
EXTENDS KafkaConsumer, TLAPS

\* What the pool knows: an idle worker runs no handler, and a handler that is not
\* running any more on a held message has had its attempts.
PoolInv ==
    /\ \A w \in Workers : job[w] = NoJob => attempt[w] = Idle
    /\ \A w \in Workers, h \in Handlers :
          (job[w] # NoJob /\ attempt[w][h] = 0) => <<job[w], h>> \in handled

\* What the session knows: everything below the mark is accounted for, and so is
\* the message a claim has sent on jobs and not marked yet.
SessionInv ==
    /\ \A p \in Partitions : committed[p] <= marked[p]
    /\ \A p \in Partitions : claim[p] \in {"send", "mark"} => marked[p] <= LogEnd
    /\ \A p \in Partitions : \A o \in Offsets : o < marked[p] => Accounted(<<p, o>>)
    /\ \A p \in Partitions : claim[p] = "mark" => Accounted(Current(p))

\* How far the shutdown has come: claims run inside a session only; without an
\* early cancel only the loop closes the jobs channel, after its last session;
\* workers leave only then, and Close returns only after the last of them.
ShutdownInv ==
    /\ \A p \in Partitions : claim[p] # "off" => loop = "session"
    /\ \A p \in Partitions : claim[p] = "close" => ctxDone
    /\ adapter # "open" => (ctxDone \/ loop \in {"exiting", "gone"})
    /\ exited # {} => adapter # "open"
    /\ \A w \in exited : job[w] = NoJob
    /\ closer = "closed" => exited = Workers
    /\ panicked => ctxDone

IInv == TypeOK /\ PoolInv /\ SessionInv /\ ShutdownInv

-----------------------------------------------------------------------------

LEMMA InitIInv == Init => IInv
  <1> SUFFICES ASSUME Init PROVE IInv
    OBVIOUS
  <1> USE ConsumerAssumption DEF Init, ConsumerAssumption
  <1>1. TypeOK
    <2>1. committed \in [Partitions -> Positions] /\ marked \in [Partitions -> Positions]
      BY DEF Positions
    <2>2. claim \in [Partitions -> ClaimStates]
      BY DEF ClaimStates
    <2>3. jobs \in Seq(Messages) /\ Len(jobs) <= BufferSize
      OBVIOUS
    <2>4. /\ job \in [Workers -> Messages \union {NoJob}]
          /\ attempt \in [Workers -> [Handlers -> 0 .. Retries + 1]]
      BY DEF Idle
    <2>5. loop \in LoopStates /\ adapter \in AdapterStates /\ closer \in CloserStates
      BY DEF LoopStates, AdapterStates, CloserStates
    <2>6. faults \in 0 .. MaxFaults
      OBVIOUS
    <2>7. /\ ending \in BOOLEAN /\ ctxDone \in BOOLEAN
          /\ panicked \in BOOLEAN /\ redelivery \in BOOLEAN
      OBVIOUS
    <2>8. exited \subseteq Workers /\ handled \subseteq Messages \X Handlers /\ lost \subseteq Messages
      OBVIOUS
    <2> QED BY ONLY <2>1, <2>2, <2>3, <2>4, <2>5, <2>6, <2>7, <2>8 DEF TypeOK
  <1>2. PoolInv
    BY DEF PoolInv
  <1>3. SessionInv
    BY DEF SessionInv, Offsets
  <1>4. ShutdownInv
    BY DEF ShutdownInv
  <1> QED BY <1>1, <1>2, <1>3, <1>4 DEF IInv

\* The type invariant is preserved; the bound of marked and the type of handled
\* need what the session and the pool know.
LEMMA TypeNext == TypeOK /\ PoolInv /\ SessionInv /\ [Next]_vars => TypeOK'
  <1> SUFFICES ASSUME TypeOK, PoolInv, SessionInv, [Next]_vars PROVE TypeOK'
    OBVIOUS
  <1> USE ConsumerAssumption
      DEF ConsumerAssumption, TypeOK, Positions, Offsets, Messages, ClaimStates, LoopStates,
          AdapterStates, CloserStates, broker, session, pool, shutdown, history
  <1>1. CASE LoopCheck
    BY <1>1 DEF LoopCheck, LoopMoves
  <1>2. CASE JoinGroup
    BY <1>2 DEF JoinGroup, StartSession
  <1>3. CASE ConsumeFails
    BY <1>3 DEF ConsumeFails, Fault
  <1>4. CASE ConsumeCanceled
    BY <1>4 DEF ConsumeCanceled, LoopMoves
  <1>5. CASE LoopReports
    BY <1>5 DEF LoopReports
  <1>6. CASE SessionCancelled
    <2>1. faults' \in 0 .. MaxFaults /\ ending' \in BOOLEAN
      BY <1>6 DEF SessionCancelled, Fault
    <2>2. UNCHANGED <<broker, claim, loop, jobs, adapter, pool, shutdown, panicked, lost, redelivery>>
      BY <1>6, <2>1 DEF SessionCancelled
    <2> QED BY <2>1, <2>2
  <1>7. CASE SessionEnds
    <2>1. faults' \in 0 .. MaxFaults
      BY <1>7 DEF SessionEnds, Fault
    <2>2. redelivery' \in BOOLEAN
      BY <1>7, <2>1 DEF SessionEnds
    <2>3. committed' \in [Partitions -> Positions]
      BY <1>7, <2>1, <2>2 DEF SessionEnds
    <2> QED BY <1>7, <2>1, <2>2, <2>3 DEF SessionEnds, Fault
  <1>8. CASE AutoCommit
    BY <1>8 DEF AutoCommit
  <1>9. CASE LoopGone
    BY <1>9 DEF LoopGone, LoopMoves
  <1>10. CASE CloseStopped
    BY <1>10 DEF CloseStopped, AdapterMoves
  <1>11. CASE CloseJobsChannel
    BY <1>11 DEF CloseJobsChannel, AdapterMoves
  <1>12. ASSUME NEW p \in Partitions, ClaimReceives(p) PROVE TypeOK'
    BY <1>12 DEF ClaimReceives, ClaimMoves
  <1>13. ASSUME NEW p \in Partitions, ClaimRangeEnds(p) PROVE TypeOK'
    BY <1>13 DEF ClaimRangeEnds, ClaimMoves
  <1>14. ASSUME NEW p \in Partitions, ClaimEnqueues(p) PROVE TypeOK'
    <2>1. Current(p) \in Messages
      BY <1>14 DEF ClaimEnqueues, SendOnJobs, ClaimMoves, Current, SessionInv
    <2>2. jobs' \in Seq(Messages) /\ Len(jobs') <= BufferSize
      BY <1>14, <2>1 DEF ClaimEnqueues, SendOnJobs
    <2>3. claim' \in [Partitions -> ClaimStates]
      BY <1>14, <2>1, <2>2 DEF ClaimEnqueues, SendOnJobs, ClaimMoves
    <2> QED BY <1>14, <2>1, <2>2, <2>3 DEF ClaimEnqueues, SendOnJobs, ClaimMoves, Current
  <1>15. ASSUME NEW p \in Partitions, ClaimMarks(p) PROVE TypeOK'
    <2>1. marked' \in [Partitions -> Positions]
      BY <1>15 DEF ClaimMarks, SessionInv
    <2> QED BY <1>15, <2>1 DEF ClaimMarks
  <1>16. ASSUME NEW p \in Partitions, ClaimSeesCtxDone(p) PROVE TypeOK'
    BY <1>16 DEF ClaimSeesCtxDone, ClaimMoves
  <1>17. ASSUME NEW p \in Partitions, ClaimHasClosed(p) PROVE TypeOK'
    BY <1>17 DEF ClaimHasClosed, ClaimMoves
  <1>18. ASSUME NEW p \in Partitions, ClaimSeesStopped(p) PROVE TypeOK'
    BY <1>18 DEF ClaimSeesStopped, ClaimMoves
  <1>19. ASSUME NEW p \in Partitions, ClaimSendPanics(p) PROVE TypeOK'
    BY <1>19 DEF ClaimSendPanics
  <1>20. ASSUME NEW w \in Workers, WorkerTakes(w) PROVE TypeOK'
    <2>1. Head(jobs) \in Messages /\ Tail(jobs) \in Seq(Messages) /\ Len(Tail(jobs)) <= BufferSize
      BY <1>20 DEF WorkerTakes
    <2>2. job' \in [Workers -> Messages \union {NoJob}]
      BY <1>20, <2>1 DEF WorkerTakes
    <2>3. attempt' \in [Workers -> [Handlers -> 0 .. Retries + 1]]
      BY <1>20, <2>1, <2>2 DEF WorkerTakes
    <2> QED BY <1>20, <2>1, <2>2, <2>3 DEF WorkerTakes
  <1>21. ASSUME NEW w \in Workers, NEW h \in Handlers, HandlerSucceeds(w, h) PROVE TypeOK'
    <2>1. job[w] \in Messages
      BY <1>21 DEF HandlerSucceeds, PoolInv, Idle
    <2>2. handled' \subseteq Messages \X Handlers
      BY <1>21, <2>1 DEF HandlerSucceeds
    <2>3. attempt' \in [Workers -> [Handlers -> 0 .. Retries + 1]]
      BY <1>21, <2>1, <2>2 DEF HandlerSucceeds
    <2> QED BY <1>21, <2>1, <2>2, <2>3 DEF HandlerSucceeds
  <1>22. ASSUME NEW w \in Workers, NEW h \in Handlers, HandlerFails(w, h) PROVE TypeOK'
    <2>1. attempt' \in [Workers -> [Handlers -> 0 .. Retries + 1]]
      BY <1>22 DEF HandlerFails
    <2> QED BY <1>22, <2>1 DEF HandlerFails
  <1>23. ASSUME NEW w \in Workers, NEW h \in Handlers, HandlerGivesUp(w, h) PROVE TypeOK'
    <2>1. job[w] \in Messages
      BY <1>23 DEF HandlerGivesUp, PoolInv, Idle
    <2>2. handled' \subseteq Messages \X Handlers
      BY <1>23, <2>1 DEF HandlerGivesUp
    <2>3. attempt' \in [Workers -> [Handlers -> 0 .. Retries + 1]]
      BY <1>23, <2>1, <2>2 DEF HandlerGivesUp
    <2>4. panicked' \in BOOLEAN
      BY <1>23, <2>1, <2>2, <2>3 DEF HandlerGivesUp
    <2> QED BY <1>23, <2>1, <2>2, <2>3, <2>4 DEF HandlerGivesUp
  <1>24. ASSUME NEW w \in Workers, WorkerFinishes(w) PROVE TypeOK'
    BY <1>24 DEF WorkerFinishes, Idle
  <1>25. ASSUME NEW w \in Workers, WorkerExits(w) PROVE TypeOK'
    BY <1>25 DEF WorkerExits
  <1>26. CASE CloseBegins
    BY <1>26 DEF CloseBegins, CloserMoves
  <1>27. CASE GroupCloses
    BY <1>27 DEF GroupCloses, CloserMoves
  <1>28. CASE GroupLeft
    BY <1>28 DEF GroupLeft, CloserMoves
  <1>29. CASE WorkersLeft
    BY <1>29 DEF WorkersLeft, CloserMoves
  <1>30. CASE CancelCtx
    BY <1>30 DEF CancelCtx
  <1>31. CASE Crash
    <2>1. lost' \subseteq Messages
      BY <1>31 DEF Crash, Queued, Held
    <2>2. faults' \in 0 .. MaxFaults
      BY <1>31, <2>1 DEF Crash, Fault
    <2>3. attempt' \in [Workers -> [Handlers -> 0 .. Retries + 1]]
      BY <1>31, <2>1, <2>2 DEF Crash, Idle
    <2>4. jobs' \in Seq(Messages) /\ Len(jobs') <= BufferSize
      BY <1>31, <2>1, <2>2, <2>3 DEF Crash
    <2>5. /\ marked' \in [Partitions -> Positions] /\ claim' \in [Partitions -> ClaimStates]
          /\ job' \in [Workers -> Messages \union {NoJob}]
      BY <1>31, <2>1, <2>2, <2>3, <2>4 DEF Crash
    <2> QED BY <1>31, <2>1, <2>2, <2>3, <2>4, <2>5 DEF Crash, Fault
  <1>32. CASE UNCHANGED vars
    BY <1>32 DEF vars
  <1> QED
    BY <1>1, <1>2, <1>3, <1>4, <1>5, <1>6, <1>7, <1>8, <1>9, <1>10, <1>11, <1>12, <1>13, <1>14, <1>15, <1>16, <1>17, <1>18, <1>19, <1>20, <1>21, <1>22, <1>23, <1>24, <1>25, <1>26, <1>27, <1>28, <1>29, <1>30, <1>31, <1>32
       DEF Next, Loop, Claim, Worker, Closer, Terminated

-----------------------------------------------------------------------------

\* Only the workers and a crash touch the pool.
LEMMA PoolFrame ==
    ASSUME Loop \/ (\E p \in Partitions : Claim(p)) \/ Closer \/ CancelCtx \/ UNCHANGED vars
    PROVE  UNCHANGED <<job, attempt, exited, handled>>
  <1>1. CASE Loop
    BY <1>1 DEF Loop, LoopCheck, LoopMoves, JoinGroup, StartSession, ConsumeFails, ConsumeCanceled,
                LoopReports, SessionCancelled, SessionEnds, AutoCommit, LoopGone, CloseStopped,
                CloseJobsChannel, AdapterMoves, pool
  <1>2. ASSUME NEW p \in Partitions, Claim(p)
        PROVE  UNCHANGED <<job, attempt, exited, handled>>
    BY <1>2 DEF Claim, ClaimReceives, ClaimRangeEnds, ClaimEnqueues, SendOnJobs, ClaimMarks,
                ClaimSeesCtxDone, ClaimHasClosed, ClaimSeesStopped, ClaimMoves, ClaimSendPanics, pool
  <1>3. CASE Closer \/ CancelCtx
    BY <1>3 DEF Closer, CloseBegins, GroupCloses, GroupLeft, WorkersLeft, CloserMoves, CancelCtx, pool
  <1>4. CASE UNCHANGED vars
    BY <1>4 DEF vars
  <1> QED BY <1>1, <1>2, <1>3, <1>4

LEMMA PoolNext == TypeOK /\ PoolInv /\ [Next]_vars => PoolInv'
  <1> SUFFICES ASSUME TypeOK, PoolInv, [Next]_vars PROVE PoolInv'
    OBVIOUS
  <1> USE ConsumerAssumption DEF ConsumerAssumption, TypeOK, PoolInv, Idle
  <1>1. CASE UNCHANGED <<job, attempt, exited, handled>>
    BY <1>1
  <1>2. ASSUME NEW w \in Workers, WorkerTakes(w) PROVE PoolInv'
    <2>1. Head(jobs) \in Messages
      BY <1>2 DEF WorkerTakes
    <2> QED BY <1>2, <2>1 DEF WorkerTakes
  <1>3. ASSUME NEW w \in Workers, NEW h \in Handlers,
               HandlerSucceeds(w, h) \/ HandlerGivesUp(w, h)
        PROVE  PoolInv'
    <2>1. /\ attempt' = [attempt EXCEPT ![w][h] = 0]
          /\ handled' = handled \union {<<job[w], h>>}
          /\ UNCHANGED job
      BY <1>3 DEF HandlerSucceeds, HandlerGivesUp
    <2>2. job[w] # NoJob
      BY <1>3 DEF HandlerSucceeds, HandlerGivesUp
    <2> QED BY <2>1, <2>2
  <1>4. ASSUME NEW w \in Workers, NEW h \in Handlers, HandlerFails(w, h) PROVE PoolInv'
    <2>1. job[w] # NoJob
      BY <1>4 DEF HandlerFails
    <2> QED BY <1>4, <2>1 DEF HandlerFails
  <1>5. ASSUME NEW w \in Workers, WorkerFinishes(w) PROVE PoolInv'
    BY <1>5 DEF WorkerFinishes
  <1>6. ASSUME NEW w \in Workers, WorkerExits(w) PROVE PoolInv'
    BY <1>6 DEF WorkerExits
  <1>7. CASE Crash
    BY <1>7 DEF Crash
  <1> QED BY <1>1, <1>2, <1>3, <1>4, <1>5, <1>6, <1>7, PoolFrame DEF Next, Worker, Terminated

-----------------------------------------------------------------------------

\* Every element of a sequence but the first is in its tail, one place earlier.
LEMMA TailIndex ==
    ASSUME NEW S, NEW s \in Seq(S), NEW i \in 1 .. Len(s), i # 1
    PROVE  i - 1 \in 1 .. Len(Tail(s)) /\ Tail(s)[i - 1] = s[i]
  <1>1. s # <<>> /\ Len(Tail(s)) = Len(s) - 1
    OBVIOUS
  <1>2. i - 1 \in 1 .. Len(Tail(s))
    BY <1>1
  <1> QED BY <1>1, <1>2

\* A step other than a crash keeps every message accounted for: a message leaves
\* jobs for a worker, and a worker only once every handler is through with it.
LEMMA AccountedStable ==
    ASSUME TypeOK, PoolInv, [Next]_vars, ~Crash, NEW m \in Messages, Accounted(m)
    PROVE  Accounted(m)'
  <1> USE ConsumerAssumption
      DEF ConsumerAssumption, TypeOK, Accounted, Queued, Held, Resolved, session, pool, shutdown, history
  <1>1. CASE UNCHANGED <<jobs, job, handled, lost>>
    BY <1>1
  <1>2. ASSUME NEW p \in Partitions, ClaimEnqueues(p) PROVE Accounted(m)'
    <2>1. /\ jobs' = Append(jobs, Current(p))
          /\ UNCHANGED <<job, handled, lost>>
      BY <1>2 DEF ClaimEnqueues, SendOnJobs, ClaimMoves
    <2>2. Queued \subseteq Queued'
      BY <2>1
    <2> QED BY <2>1, <2>2
  <1>3. ASSUME NEW w \in Workers, WorkerTakes(w) PROVE Accounted(m)'
    <2>1. /\ jobs # <<>> /\ job[w] = NoJob
          /\ job' = [job EXCEPT ![w] = Head(jobs)] /\ jobs' = Tail(jobs)
          /\ UNCHANGED <<handled, lost>>
      BY <1>3 DEF WorkerTakes
    <2>2. Head(jobs) \in Messages
      BY <2>1
    <2>3. Queued \subseteq Queued' \union {Head(jobs)}
      <3>1. SUFFICES ASSUME NEW i \in 1 .. Len(jobs), i # 1 PROVE jobs[i] \in Queued'
        BY <2>1
      <3>2. i - 1 \in 1 .. Len(jobs') /\ jobs'[i - 1] = jobs[i]
        BY <2>1, <3>1, TailIndex
      <3> QED BY <3>2
    <2>4. Held \union {Head(jobs)} \subseteq Held'
      BY <2>1, <2>2
    <2> QED BY <2>1, <2>3, <2>4
  <1>4. ASSUME NEW w \in Workers, NEW h \in Handlers,
               HandlerSucceeds(w, h) \/ HandlerFails(w, h) \/ HandlerGivesUp(w, h)
        PROVE  Accounted(m)'
    <2>1. handled \subseteq handled' /\ UNCHANGED <<jobs, job, lost>>
      BY <1>4 DEF HandlerSucceeds, HandlerFails, HandlerGivesUp
    <2> QED BY <2>1
  <1>5. ASSUME NEW w \in Workers, WorkerFinishes(w) PROVE Accounted(m)'
    <2>1. \A h \in Handlers : <<job[w], h>> \in handled
      BY <1>5 DEF WorkerFinishes, PoolInv, Idle
    <2>2. /\ job' = [job EXCEPT ![w] = NoJob]
          /\ UNCHANGED <<jobs, handled, lost>>
      BY <1>5 DEF WorkerFinishes
    <2>3. Held \subseteq Held' \union {job[w]}
      BY <2>2
    <2> QED BY <2>1, <2>2, <2>3
  <1>6. ASSUME NEW w \in Workers, WorkerExits(w) PROVE Accounted(m)'
    BY <1>1, <1>6 DEF WorkerExits
  <1>7. CASE Loop
    BY <1>1, <1>7
       DEF Loop, LoopCheck, LoopMoves, JoinGroup, StartSession, ConsumeFails, ConsumeCanceled,
           LoopReports, SessionCancelled, SessionEnds, AutoCommit, LoopGone, CloseStopped,
           CloseJobsChannel, AdapterMoves
  <1>8. ASSUME NEW p \in Partitions, Claim(p), ~ClaimEnqueues(p) PROVE Accounted(m)'
    BY <1>1, <1>8
       DEF Claim, ClaimReceives, ClaimRangeEnds, ClaimMarks, ClaimSeesCtxDone, ClaimHasClosed,
           ClaimSeesStopped, ClaimMoves, ClaimSendPanics
  <1>9. CASE Closer \/ CancelCtx
    BY <1>1, <1>9
       DEF Closer, CloseBegins, GroupCloses, GroupLeft, WorkersLeft, CloserMoves, CancelCtx
  <1>10. CASE UNCHANGED vars
    BY <1>1, <1>10 DEF vars
  <1> QED
    BY <1>2, <1>3, <1>4, <1>5, <1>6, <1>7, <1>8, <1>9, <1>10 DEF Next, Worker, Terminated

LEMMA SessionNext == IInv /\ [Next]_vars => SessionInv'
  <1> SUFFICES ASSUME TypeOK, PoolInv, SessionInv, ShutdownInv, [Next]_vars PROVE SessionInv'
    BY DEF IInv
  <1> USE ConsumerAssumption DEF ConsumerAssumption, TypeOK, Offsets, Positions, Messages
  <1>1. CASE UNCHANGED <<committed, marked, claim>> /\ ~Crash
    <2>1. \A m \in Messages : Accounted(m) => Accounted(m)'
      BY <1>1, AccountedStable
    <2>2. \A p \in Partitions : claim[p] = "mark" => Current(p) \in Messages /\ Current(p)' = Current(p)
      BY <1>1 DEF SessionInv, Current
    <2>3. \A p \in Partitions : claim[p] = "mark" => Accounted(Current(p))'
      BY <2>1, <2>2 DEF SessionInv
    <2> QED BY <1>1, <2>1, <2>3 DEF SessionInv
  <1>2. CASE JoinGroup
    <2>1. committed' = committed /\ marked' = committed /\ \A p \in Partitions : claim'[p] = "recv"
      BY <1>2 DEF JoinGroup, StartSession
    <2>2. UNCHANGED <<jobs, job, handled, lost>>
      BY <1>2 DEF JoinGroup, StartSession, pool, history
    <2>3. \A m : Accounted(m)' <=> Accounted(m)
      BY <2>2 DEF Accounted, Queued, Held, Resolved
    <2> QED BY <2>1, <2>3 DEF SessionInv
  <1>3. CASE SessionEnds \/ AutoCommit
    <2>1. /\ marked' = marked /\ claim' = claim
          /\ committed' = marked \/ committed' = committed
      BY <1>3 DEF SessionEnds, AutoCommit, session
    <2>2. UNCHANGED <<jobs, job, handled, lost>>
      BY <1>3 DEF SessionEnds, AutoCommit, pool, history
    <2>3. \A m : Accounted(m)' <=> Accounted(m)
      BY <2>2 DEF Accounted, Queued, Held, Resolved
    <2> QED BY <2>1, <2>3 DEF SessionInv, Current
  <1>4. ASSUME NEW p \in Partitions, ClaimEnqueues(p) PROVE SessionInv'
    <2>1. /\ claim[p] = "send" /\ claim' = [claim EXCEPT ![p] = "mark"]
          /\ jobs' = Append(jobs, Current(p))
          /\ UNCHANGED <<committed, marked, lost>>
      BY <1>4 DEF ClaimEnqueues, SendOnJobs, ClaimMoves, broker, history
    <2>2. Current(p) \in Messages
      BY <2>1 DEF Current, SessionInv
    <2>3. Current(p) \in Queued'
      <3>1. jobs'[Len(jobs) + 1] = Current(p) /\ Len(jobs') = Len(jobs) + 1
        BY <2>1, <2>2
      <3>2. Len(jobs) + 1 \in 1 .. Len(jobs')
        BY <3>1
      <3> QED BY <3>1, <3>2 DEF Queued
    <2>4. \A m \in Messages : Accounted(m) => Accounted(m)'
      <3>1. ~Crash
        BY <2>1 DEF Crash
      <3> QED BY <3>1, AccountedStable
    <2>5. Current(p)' = Current(p)
      BY <2>1 DEF Current
    <2>6. Accounted(Current(p))'
      BY <2>3, <2>5 DEF Accounted
    <2>7. \A q \in Partitions : claim'[q] = "mark" => Accounted(Current(q))'
      <3>1. SUFFICES ASSUME NEW q \in Partitions, q # p, claim[q] = "mark"
                     PROVE  Accounted(Current(q))'
        BY <2>1, <2>6
      <3>2. Current(q) \in Messages /\ Current(q)' = Current(q) /\ Accounted(Current(q))
        BY <2>1, <3>1 DEF SessionInv, Current
      <3> QED BY <2>4, <3>2
    <2> QED BY <2>1, <2>4, <2>7 DEF SessionInv
  <1>5. ASSUME NEW p \in Partitions, ClaimMarks(p) PROVE SessionInv'
    <2>1. /\ claim[p] = "mark" /\ claim' = [claim EXCEPT ![p] = "recv"]
          /\ marked' = [marked EXCEPT ![p] = @ + 1]
          /\ UNCHANGED committed
      BY <1>5 DEF ClaimMarks
    <2>2. UNCHANGED <<jobs, job, handled, lost>>
      BY <1>5 DEF ClaimMarks, pool, history
    <2>3. \A m : Accounted(m)' <=> Accounted(m)
      BY <2>2 DEF Accounted, Queued, Held, Resolved
    <2>4. Accounted(<<p, marked[p]>>)
      BY <2>1 DEF SessionInv, Current
    <2>5. ASSUME NEW q \in Partitions, NEW o \in Offsets, o < marked'[q]
          PROVE  Accounted(<<q, o>>)
      <3>1. CASE q = p /\ o = marked[p]
        BY <3>1, <2>4
      <3>2. CASE o < marked[q]
        BY <3>2 DEF SessionInv
      <3> QED BY <2>1, <2>5, <3>1, <3>2
    <2> QED BY <2>1, <2>3, <2>5 DEF SessionInv, Current
  <1>6. ASSUME NEW p \in Partitions, ~Crash,
               \/ ClaimReceives(p) \/ ClaimRangeEnds(p) \/ ClaimSeesCtxDone(p)
               \/ ClaimHasClosed(p) \/ ClaimSeesStopped(p)
        PROVE  SessionInv'
    <2>1. PICK to \in {"off", "send", "close"} :
             /\ claim' = [claim EXCEPT ![p] = to]
             /\ to = "send" => marked[p] <= LogEnd
      BY <1>6 DEF ClaimReceives, ClaimRangeEnds, ClaimSeesCtxDone, ClaimHasClosed,
                  ClaimSeesStopped, ClaimMoves
    <2>2. UNCHANGED <<committed, marked>>
      BY <1>6 DEF ClaimReceives, ClaimRangeEnds, ClaimSeesCtxDone, ClaimHasClosed,
                  ClaimSeesStopped, ClaimMoves, broker
    <2>3. \A m \in Messages : Accounted(m) => Accounted(m)'
      BY <1>6, AccountedStable
    <2>4. \A q \in Partitions : claim'[q] = "mark" => Accounted(Current(q))'
      <3>1. SUFFICES ASSUME NEW q \in Partitions, claim[q] = "mark" PROVE Accounted(Current(q))'
        BY <2>1
      <3>2. Current(q) \in Messages /\ Current(q)' = Current(q) /\ Accounted(Current(q))
        BY <2>2, <3>1 DEF SessionInv, Current
      <3> QED BY <2>3, <3>2
    <2> QED BY <2>1, <2>2, <2>3, <2>4 DEF SessionInv
  <1>7. CASE Crash
    <2>1. /\ committed' = committed /\ marked' = committed
          /\ \A p \in Partitions : claim'[p] = "off"
          /\ lost' = lost \union {m \in Queued \union Held : m[2] < committed[m[1]]}
          /\ handled' = handled
      BY <1>7 DEF Crash
    <2>2. ASSUME NEW p \in Partitions, NEW o \in Offsets, o < committed[p]
          PROVE  Accounted(<<p, o>>)'
      <3>1. Accounted(<<p, o>>)
        BY <2>2 DEF SessionInv
      <3>2. CASE <<p, o>> \in Queued \union Held
        <4>1. <<p, o>> \in lost'
          BY <2>1, <2>2, <3>2
        <4> QED BY <4>1 DEF Accounted
      <3>3. CASE <<p, o>> \in lost \/ Resolved(<<p, o>>)
        BY <2>1, <3>3 DEF Accounted, Resolved
      <3> QED BY <3>1, <3>2, <3>3 DEF Accounted
    <2> QED BY <2>1, <2>2 DEF SessionInv
  <1>8. CASE Loop /\ ~JoinGroup /\ ~SessionEnds /\ ~AutoCommit
    <2>1. UNCHANGED <<committed, marked, claim>>
      BY <1>8 DEF Loop, LoopCheck, LoopMoves, ConsumeFails, ConsumeCanceled, LoopReports,
           SessionCancelled, LoopGone, CloseStopped, CloseJobsChannel, AdapterMoves, broker, session
    <2> QED BY <1>1, <1>7, <2>1
  <1>9. ASSUME NEW p \in Partitions, ClaimSendPanics(p) PROVE SessionInv'
    BY <1>1, <1>7, <1>9 DEF ClaimSendPanics, broker, session
  <1>10. ASSUME NEW w \in Workers, Worker(w) PROVE SessionInv'
    BY <1>1, <1>7, <1>10 DEF Worker, WorkerTakes, HandlerSucceeds, HandlerFails, HandlerGivesUp,
           WorkerFinishes, WorkerExits, broker, session
  <1>11. CASE Closer \/ CancelCtx \/ UNCHANGED vars
    BY <1>1, <1>7, <1>11 DEF Closer, CloseBegins, GroupCloses, GroupLeft, WorkersLeft, CloserMoves,
           CancelCtx, vars, broker, session
  <1> QED
    BY <1>2, <1>3, <1>4, <1>5, <1>6, <1>7, <1>8, <1>9, <1>10, <1>11 DEF Next, Claim, Terminated

-----------------------------------------------------------------------------

LEMMA ShutdownNext == IInv /\ [Next]_vars => ShutdownInv'
  <1> SUFFICES ASSUME TypeOK, PoolInv, SessionInv, ShutdownInv, [Next]_vars PROVE ShutdownInv'
    BY DEF IInv
  <1> USE ConsumerAssumption
      DEF ConsumerAssumption, TypeOK, ShutdownInv, broker, session, pool, shutdown, history
  <1>1. ASSUME LoopCheck \/ ConsumeCanceled \/ LoopGone PROVE ShutdownInv'
    BY <1>1 DEF LoopCheck, ConsumeCanceled, LoopGone, LoopMoves
  <1>2. CASE JoinGroup
    BY <1>2 DEF JoinGroup, StartSession
  <1>3. CASE ConsumeFails
    BY <1>3 DEF ConsumeFails
  <1>4. CASE LoopReports
    BY <1>4 DEF LoopReports
  <1>5. CASE SessionCancelled \/ AutoCommit
    BY <1>5 DEF SessionCancelled, AutoCommit
  <1>6. CASE SessionEnds
    BY <1>6 DEF SessionEnds, AllClaimsReturned
  <1>7. CASE CloseStopped
    BY <1>7 DEF CloseStopped, CloseJobsAsked, AdapterMoves
  <1>8. CASE CloseJobsChannel
    BY <1>8 DEF CloseJobsChannel, AdapterMoves
  <1>9. ASSUME NEW p \in Partitions, ClaimReceives(p) \/ ClaimRangeEnds(p) \/ ClaimEnqueues(p)
        PROVE  ShutdownInv'
    BY <1>9 DEF ClaimReceives, ClaimRangeEnds, ClaimEnqueues, SendOnJobs, ClaimMoves
  <1>10. ASSUME NEW p \in Partitions, ClaimMarks(p) PROVE ShutdownInv'
    BY <1>10 DEF ClaimMarks
  <1>11. ASSUME NEW p \in Partitions,
                ClaimSeesCtxDone(p) \/ ClaimHasClosed(p) \/ ClaimSeesStopped(p)
         PROVE  ShutdownInv'
    BY <1>11 DEF ClaimSeesCtxDone, ClaimHasClosed, ClaimSeesStopped, ClaimMoves
  <1>12. ASSUME NEW p \in Partitions, ClaimSendPanics(p) PROVE ShutdownInv'
    BY <1>12 DEF ClaimSendPanics
  <1>13. ASSUME NEW w \in Workers, WorkerTakes(w) PROVE ShutdownInv'
    BY <1>13 DEF WorkerTakes
  <1>14. ASSUME NEW w \in Workers, NEW h \in Handlers, HandlerSucceeds(w, h) \/ HandlerFails(w, h)
         PROVE  ShutdownInv'
    BY <1>14 DEF HandlerSucceeds, HandlerFails
  <1>15. ASSUME NEW w \in Workers, NEW h \in Handlers, HandlerGivesUp(w, h) PROVE ShutdownInv'
    <2>1. job[w] # NoJob
      BY <1>15 DEF HandlerGivesUp, PoolInv, Idle
    <2>2. closer # "closed"
      BY <2>1
    <2> QED BY <1>15, <2>2 DEF HandlerGivesUp
  <1>16. ASSUME NEW w \in Workers, WorkerFinishes(w) \/ WorkerExits(w) PROVE ShutdownInv'
    BY <1>16 DEF WorkerFinishes, WorkerExits
  <1>17. CASE Closer
    BY <1>17 DEF Closer, CloseBegins, GroupCloses, GroupLeft, WorkersLeft, CloserMoves
  <1>18. CASE CancelCtx
    BY <1>18 DEF CancelCtx
  <1>19. CASE Crash
    BY <1>19 DEF Crash, Up
  <1>20. CASE UNCHANGED vars
    BY <1>20 DEF vars
  <1> QED
    BY <1>1, <1>2, <1>3, <1>4, <1>5, <1>6, <1>7, <1>8, <1>9, <1>10, <1>11, <1>12, <1>13, <1>14,
       <1>15, <1>16, <1>17, <1>18, <1>19, <1>20
       DEF Next, Loop, Claim, Worker, Terminated

-----------------------------------------------------------------------------

LEMMA Invariance == Spec => []IInv
  <1>1. IInv /\ [Next]_vars => IInv'
    BY TypeNext, PoolNext, SessionNext, ShutdownNext DEF IInv
  <1> QED BY InitIInv, <1>1, PTL DEF Spec

\* Type correctness, and the bound of the jobs channel.
THEOREM TypeCorrect == Spec => []TypeOK
  <1>1. IInv => TypeOK
    BY DEF IInv
  <1> QED BY Invariance, <1>1, PTL

\* No committed message is ever forgotten by a live consumer.
THEOREM CommittedAccounted == Spec => []CommittedIsAccounted
  <1>1. IInv => CommittedIsAccounted
    <2> SUFFICES ASSUME IInv, NEW p \in Partitions, NEW o \in Offsets, o < committed[p]
                 PROVE  Accounted(<<p, o>>)
      BY DEF CommittedIsAccounted
    <2>1. committed[p] <= marked[p] /\ committed[p] \in Int /\ marked[p] \in Int /\ o \in Int
      BY ConsumerAssumption
         DEF ConsumerAssumption, IInv, SessionInv, TypeOK, Positions, Offsets
    <2> QED BY <2>1 DEF IInv, SessionInv
  <1> QED BY Invariance, <1>1, PTL

\* Only a context cancelled too early can make a send hit a closed channel.
THEOREM NoPanic == Spec => []PanicNeedsEarlyCancel
  <1>1. IInv => PanicNeedsEarlyCancel
    BY DEF IInv, ShutdownInv, PanicNeedsEarlyCancel
  <1> QED BY Invariance, <1>1, PTL

\* When Close has returned, no handler runs.
THEOREM QuietWhenClosed == Spec => []ClosedIsQuiet
  <1>1. IInv => ClosedIsQuiet
    BY DEF IInv, PoolInv, ShutdownInv, ClosedIsQuiet
  <1> QED BY Invariance, <1>1, PTL

\* Every step leaves the committed offsets where they are or moves them forward.
THEOREM CommitMonotone == Spec => CommitNeverRegresses
  <1>1. IInv /\ [Next]_vars => [\A p \in Partitions : committed'[p] >= committed[p]]_vars
    <2> SUFFICES ASSUME IInv, [Next]_vars PROVE \A p \in Partitions : committed'[p] >= committed[p]
      OBVIOUS
    <2>1. committed' = committed \/ committed' = marked
      BY DEF Next, Loop, LoopCheck, LoopMoves, JoinGroup, StartSession, ConsumeFails,
             ConsumeCanceled, LoopReports, SessionCancelled, SessionEnds, AutoCommit, LoopGone,
             CloseStopped, CloseJobsChannel, AdapterMoves, Claim, ClaimReceives, ClaimRangeEnds,
             ClaimEnqueues, SendOnJobs, ClaimMarks, ClaimSeesCtxDone, ClaimHasClosed,
             ClaimSeesStopped, ClaimMoves, ClaimSendPanics, Worker, WorkerTakes, HandlerSucceeds,
             HandlerFails, HandlerGivesUp, WorkerFinishes, WorkerExits, Closer, CloseBegins,
             GroupCloses, GroupLeft, WorkersLeft, CloserMoves, CancelCtx, Crash, Terminated,
             vars, broker
    <2> QED BY <2>1, ConsumerAssumption
            DEF ConsumerAssumption, IInv, SessionInv, TypeOK, Positions
  <1> QED BY Invariance, <1>1, PTL DEF Spec, CommitNeverRegresses

-----------------------------------------------------------------------------

\* A step that leaves what the ledger is made of leaves the ledger.
LEMMA LedgerFrame ==
    ASSUME UNCHANGED <<committed, jobs, job, handled, lost>>
    PROVE  UNCHANGED Ledger!vars
  BY DEF Ledger!vars, Queued, Held, Resolved

\* A worker takes the head of jobs: the memory of the consumer stays what it was.
LEMMA TakesKeepsMemory ==
    ASSUME TypeOK, NEW w \in Workers, WorkerTakes(w)
    PROVE  (Queued \union Held)' = Queued \union Held
  <1> USE ConsumerAssumption DEF ConsumerAssumption, TypeOK
  <1>1. /\ jobs # <<>> /\ job[w] = NoJob
        /\ job' = [job EXCEPT ![w] = Head(jobs)] /\ jobs' = Tail(jobs)
    BY DEF WorkerTakes
  <1>2. Head(jobs) \in Messages /\ Head(jobs) = jobs[1] /\ 1 \in 1 .. Len(jobs)
    BY <1>1
  <1>3. Held' = Held \union {Head(jobs)}
    BY <1>1, <1>2 DEF Held
  <1>4. Queued' \subseteq Queued
    <2> SUFFICES ASSUME NEW i \in 1 .. Len(jobs') PROVE jobs'[i] \in Queued
      BY DEF Queued
    <2>1. i + 1 \in 1 .. Len(jobs) /\ jobs'[i] = jobs[i + 1]
      BY <1>1
    <2> QED BY <2>1 DEF Queued
  <1>5. Queued \subseteq Queued' \union {Head(jobs)}
    <2> SUFFICES ASSUME NEW i \in 1 .. Len(jobs), i # 1 PROVE jobs[i] \in Queued'
      BY <1>2 DEF Queued
    <2>1. i - 1 \in 1 .. Len(jobs') /\ jobs'[i - 1] = jobs[i]
      BY <1>1, TailIndex
    <2> QED BY <2>1 DEF Queued
  <1>6. Head(jobs) \in Queued
    BY <1>2 DEF Queued
  <1> QED BY <1>3, <1>4, <1>5, <1>6

LEMMA LedgerInit == Init => Ledger!Init
  BY ConsumerAssumption
     DEF ConsumerAssumption, Init, Ledger!Init, Queued, Held, Resolved, Messages, Offsets

LEMMA LedgerNext == IInv /\ [Next]_vars => [Ledger!Next]_(Ledger!vars)
  <1> SUFFICES ASSUME TypeOK, PoolInv, SessionInv, [Next]_vars
               PROVE  Ledger!Next \/ UNCHANGED Ledger!vars
    BY DEF IInv
  <1> USE ConsumerAssumption DEF ConsumerAssumption
  <1>1. CASE UNCHANGED <<committed, jobs, job, handled, lost>>
    BY <1>1, LedgerFrame
  <1>2. CASE SessionEnds \/ AutoCommit
    <2>1. /\ committed' = marked \/ committed' = committed
          /\ UNCHANGED <<jobs, job, handled, lost>>
      BY <1>2 DEF SessionEnds, AutoCommit, pool, history
    <2>2. CASE committed' = marked
      <3>1. {m \in Messages : m[2] < committed[m[1]]}
              \subseteq {m \in Messages : m[2] < committed'[m[1]]}
        BY <2>2 DEF SessionInv, TypeOK, Positions, Messages, Offsets
      <3>2. ASSUME NEW m \in Messages, m[2] < marked[m[1]] PROVE Accounted(m)
        <4>1. m[1] \in Partitions /\ m[2] \in Offsets /\ m = <<m[1], m[2]>>
          BY DEF Messages
        <4> QED BY <3>2, <4>1 DEF SessionInv
      <3>3. \A m \in Messages : m[2] < committed'[m[1]]
               => m \in (Queued \union Held) \union {x \in Messages : Resolved(x)} \union lost
        BY <2>2, <3>2 DEF Accounted
      <3>4. /\ (Queued \union Held)' = Queued \union Held
            /\ {m \in Messages : Resolved(m)}' = {m \in Messages : Resolved(m)}
            /\ lost' = lost
        BY <2>1 DEF Queued, Held, Resolved
      <3>5. Ledger!Commit
        BY <3>1, <3>3, <3>4 DEF Ledger!Commit
      <3> QED BY <3>5 DEF Ledger!Next
    <2> QED BY <1>1, <2>1, <2>2
  <1>3. ASSUME NEW p \in Partitions, ClaimEnqueues(p) PROVE Ledger!Next
    <2>1. /\ claim[p] = "send" /\ jobs' = Append(jobs, Current(p))
          /\ UNCHANGED <<committed, job, handled, lost>>
      BY <1>3 DEF ClaimEnqueues, SendOnJobs, ClaimMoves, broker, pool, history
    <2>2. Current(p) \in Messages /\ Current(p)[1] = p /\ Current(p)[2] = marked[p]
      BY <2>1 DEF Current, SessionInv, TypeOK, Positions, Messages, Offsets
    <2>3. ~(Current(p)[2] < committed[Current(p)[1]])
      BY <2>2 DEF SessionInv, TypeOK, Positions
    <2>4. Queued' = Queued \union {Current(p)}
      BY <2>1, <2>2 DEF Queued, TypeOK
    <2>5. (Queued \union Held)' = (Queued \union Held) \union {Current(p)}
      BY <2>1, <2>4 DEF Held
    <2>6. /\ {m \in Messages : Resolved(m)}' = {m \in Messages : Resolved(m)}
          /\ {m \in Messages : m[2] < committed[m[1]]}' = {m \in Messages : m[2] < committed[m[1]]}
          /\ lost' = lost
      BY <2>1 DEF Resolved
    <2>7. Ledger!Take(Current(p))
      BY <2>2, <2>3, <2>5, <2>6 DEF Ledger!Take
    <2> QED BY <2>2, <2>7 DEF Ledger!Next
  <1>4. ASSUME NEW w \in Workers, WorkerTakes(w) PROVE UNCHANGED Ledger!vars
    <2>1. (Queued \union Held)' = Queued \union Held
      BY <1>4, TakesKeepsMemory
    <2>2. UNCHANGED <<committed, handled, lost>>
      BY <1>4 DEF WorkerTakes, broker, history
    <2> QED BY <2>1, <2>2 DEF Ledger!vars, Resolved
  <1>5. ASSUME NEW w \in Workers, NEW h \in Handlers, HandlerSucceeds(w, h) \/ HandlerGivesUp(w, h)
        PROVE  Ledger!Next \/ UNCHANGED Ledger!vars
    <2>1. /\ handled' = handled \union {<<job[w], h>>}
          /\ UNCHANGED <<committed, jobs, job, lost>>
      BY <1>5 DEF HandlerSucceeds, HandlerGivesUp, broker, history
    <2>2. job[w] # NoJob /\ job[w] \in Messages
      BY <1>5 DEF HandlerSucceeds, HandlerGivesUp, PoolInv, Idle, TypeOK
    <2>3. job[w] \in Held
      BY <2>2 DEF Held
    <2>4. \A m \in Messages : /\ Resolved(m) => Resolved(m)'
                              /\ m # job[w] => (Resolved(m)' <=> Resolved(m))
      BY <2>1 DEF Resolved
    <2>5. /\ (Queued \union Held)' = Queued \union Held
          /\ {m \in Messages : m[2] < committed[m[1]]}' = {m \in Messages : m[2] < committed[m[1]]}
          /\ lost' = lost
      BY <2>1 DEF Queued, Held
    <2>6. CASE Resolved(job[w])'
      <3>1. {m \in Messages : Resolved(m)}' = {m \in Messages : Resolved(m)} \union {job[w]}
        BY <2>1, <2>2, <2>4, <2>6 DEF Resolved
      <3>2. Ledger!Resolve(job[w])
        BY <2>3, <2>5, <3>1 DEF Ledger!Resolve
      <3> QED BY <2>2, <3>2 DEF Ledger!Next
    <2>7. CASE ~Resolved(job[w])'
      <3>1. {m \in Messages : Resolved(m)}' = {m \in Messages : Resolved(m)}
        BY <2>1, <2>4, <2>7 DEF Resolved
      <3> QED BY <2>5, <3>1 DEF Ledger!vars
    <2> QED BY <2>6, <2>7
  <1>6. ASSUME NEW w \in Workers, WorkerFinishes(w) PROVE Ledger!Next \/ UNCHANGED Ledger!vars
    <2>1. /\ job[w] # NoJob /\ attempt[w] = Idle /\ job' = [job EXCEPT ![w] = NoJob]
          /\ UNCHANGED <<committed, jobs, handled, lost>>
      BY <1>6 DEF WorkerFinishes, broker, history
    <2>2. job[w] \in Messages /\ job[w] \in Held
      BY <2>1 DEF TypeOK, Held
    <2>3. Resolved(job[w])
      BY <2>1 DEF PoolInv, Idle, Resolved
    <2>4. Held' \subseteq Held /\ Held \subseteq Held' \union {job[w]}
      BY <2>1 DEF Held, TypeOK
    <2>5. /\ {m \in Messages : Resolved(m)}' = {m \in Messages : Resolved(m)}
          /\ {m \in Messages : m[2] < committed[m[1]]}' = {m \in Messages : m[2] < committed[m[1]]}
          /\ lost' = lost /\ Queued' = Queued
      BY <2>1 DEF Resolved, Queued
    <2>6. CASE job[w] \in (Queued \union Held)'
      <3>1. (Queued \union Held)' = Queued \union Held
        BY <2>2, <2>4, <2>5, <2>6
      <3> QED BY <2>5, <3>1 DEF Ledger!vars
    <2>7. CASE job[w] \notin (Queued \union Held)'
      <3>1. (Queued \union Held)' = (Queued \union Held) \ {job[w]}
        BY <2>4, <2>5, <2>7
      <3>2. Ledger!LetGo(job[w])
        BY <2>2, <2>3, <2>5, <3>1 DEF Ledger!LetGo
      <3> QED BY <2>2, <3>2 DEF Ledger!Next
    <2> QED BY <2>6, <2>7
  <1>7. CASE Crash
    <2>1. /\ lost' = lost \union {m \in Queued \union Held : m[2] < committed[m[1]]}
          /\ jobs' = <<>> /\ job' = [w \in Workers |-> NoJob]
          /\ UNCHANGED <<committed, handled>>
      BY <1>7 DEF Crash
    <2>2. (Queued \union Held)' = {}
      BY <2>1 DEF Queued, Held
    <2>3. Queued \union Held \subseteq Messages
      BY DEF Queued, Held, TypeOK
    <2>4. lost' = lost \union ((Queued \union Held) \intersect {m \in Messages : m[2] < committed[m[1]]})
      BY <2>1, <2>3
    <2>5. /\ {m \in Messages : Resolved(m)}' = {m \in Messages : Resolved(m)}
          /\ {m \in Messages : m[2] < committed[m[1]]}' = {m \in Messages : m[2] < committed[m[1]]}
      BY <2>1 DEF Resolved
    <2>6. Ledger!Crash
      BY <2>2, <2>4, <2>5 DEF Ledger!Crash
    <2> QED BY <2>6 DEF Ledger!Next
  <1>8. CASE Loop /\ ~SessionEnds /\ ~AutoCommit
    BY <1>1, <1>8
       DEF Loop, LoopCheck, LoopMoves, JoinGroup, StartSession, ConsumeFails, ConsumeCanceled,
           LoopReports, SessionCancelled, LoopGone, CloseStopped, CloseJobsChannel, AdapterMoves,
           broker, pool, history
  <1>9. ASSUME NEW p \in Partitions, Claim(p), ~ClaimEnqueues(p)
        PROVE  Ledger!Next \/ UNCHANGED Ledger!vars
    BY <1>1, <1>9
       DEF Claim, ClaimReceives, ClaimRangeEnds, ClaimMarks, ClaimSeesCtxDone, ClaimHasClosed,
           ClaimSeesStopped, ClaimMoves, ClaimSendPanics, broker, pool, history
  <1>10. ASSUME NEW w \in Workers, NEW h \in Handlers, HandlerFails(w, h) \/ WorkerExits(w)
         PROVE  Ledger!Next \/ UNCHANGED Ledger!vars
    BY <1>1, <1>10 DEF HandlerFails, WorkerExits, broker, history
  <1>11. CASE Closer \/ CancelCtx \/ UNCHANGED vars
    BY <1>1, <1>11
       DEF Closer, CloseBegins, GroupCloses, GroupLeft, WorkersLeft, CloserMoves, CancelCtx, vars,
           broker, pool, history
  <1> QED
    BY <1>2, <1>3, <1>4, <1>5, <1>6, <1>7, <1>8, <1>9, <1>10, <1>11, ConsumerAssumption
       DEF ConsumerAssumption, Next, Worker, Terminated

\* The consumer implements the message ledger.
THEOREM LedgerImplemented == Spec => KeepsLedger
  BY LedgerInit, LedgerNext, Invariance, PTL DEF Spec, KeepsLedger, Ledger!Spec

-----------------------------------------------------------------------------
(***************************************************************************)
(* OneDelivery: as long as every session goes on where the one before it   *)
(* ended, a claim sends nothing on jobs that the pool has seen.            *)
(***************************************************************************)

\* What a claim of a session that goes on has put on jobs.
Sent(m) == m[2] < marked[m[1]] \/ (m[2] = marked[m[1]] /\ claim[m[1]] = "mark")

\* What the pool has seen.
Seen(m) == m \in Queued \union Held \/ \E h \in Handlers : <<m, h>> \in handled

GoesOnInv == ~redelivery /\ loop # "session" => marked = committed
SentInv   == ~redelivery => \A m \in Messages : Seen(m) => Sent(m)

\* A step that does not allow a second delivery takes nothing back.
LEMMA SentNext ==
    ASSUME IInv, GoesOnInv, [Next]_vars, ~redelivery'
    PROVE  /\ ~redelivery /\ GoesOnInv'
           /\ \A m \in Messages : Sent(m) => Sent(m)'
  <1> USE DEF IInv, GoesOnInv
  <1>0. ~redelivery /\ ~Crash
    BY DEF TypeOK, Next, Loop, LoopCheck, LoopMoves, JoinGroup, StartSession, ConsumeFails,
           ConsumeCanceled, LoopReports, SessionCancelled, SessionEnds, AutoCommit, LoopGone,
           CloseStopped, CloseJobsChannel, AdapterMoves, Claim, ClaimReceives, ClaimRangeEnds,
           ClaimEnqueues, SendOnJobs, ClaimMarks, ClaimSeesCtxDone, ClaimHasClosed,
           ClaimSeesStopped, ClaimMoves, ClaimSendPanics, Worker, WorkerTakes, HandlerSucceeds,
           HandlerFails, HandlerGivesUp, WorkerFinishes, WorkerExits, Closer, CloseBegins,
           GroupCloses, GroupLeft, WorkersLeft, CloserMoves, CancelCtx, Crash, Terminated,
           vars, history
  <1>1. CASE JoinGroup
    <2>1. marked' = committed /\ loop = "consume" /\ UNCHANGED committed /\ loop' = "session"
      BY <1>1 DEF JoinGroup, StartSession
    <2>2. marked = committed /\ \A p \in Partitions : claim[p] = "off"
      BY <1>0, <2>1 DEF ShutdownInv
    <2> QED BY <1>0, <2>1, <2>2 DEF Sent, Messages
  <1>2. CASE SessionEnds
    BY <1>0, <1>2 DEF SessionEnds, session, Sent
  <1>3. CASE AutoCommit
    BY <1>0, <1>3 DEF AutoCommit, session, Sent
  <1>4. ASSUME NEW p \in Partitions, Claim(p)
        PROVE  GoesOnInv' /\ \A m \in Messages : Sent(m) => Sent(m)'
    <2>1. loop = "session" /\ UNCHANGED loop
      BY <1>4 DEF ShutdownInv, Claim, ClaimReceives, ClaimRangeEnds, ClaimEnqueues, SendOnJobs,
         ClaimMarks, ClaimSeesCtxDone, ClaimHasClosed, ClaimSeesStopped, ClaimMoves, ClaimSendPanics
    <2>2. CASE ClaimMarks(p)
      <3>1. marked' = [marked EXCEPT ![p] = @ + 1] /\ claim' = [claim EXCEPT ![p] = "recv"]
        BY <2>2 DEF ClaimMarks
      <3>2. ASSUME NEW m \in Messages, Sent(m) PROVE Sent(m)'
        <4>1. m[1] \in Partitions /\ m[2] \in Int /\ marked[m[1]] \in Int
          BY ConsumerAssumption DEF ConsumerAssumption, Messages, Offsets, TypeOK, Positions
        <4>2. CASE m[1] = p
          BY <3>1, <3>2, <4>1, <4>2 DEF Sent, TypeOK
        <4>3. CASE m[1] # p
          BY <3>1, <3>2, <4>1, <4>3 DEF Sent, TypeOK
        <4> QED BY <4>2, <4>3
      <3> QED BY <2>1, <3>2
    <2>3. CASE ~ClaimMarks(p)
      <3>1. UNCHANGED marked /\ \A q \in Partitions : claim[q] = "mark" => claim'[q] = "mark"
        BY <1>4, <2>3 DEF TypeOK, Claim, ClaimReceives, ClaimRangeEnds, ClaimEnqueues, SendOnJobs,
           ClaimSeesCtxDone, ClaimHasClosed, ClaimSeesStopped, ClaimMoves, ClaimSendPanics, broker, session
      <3> QED BY <2>1, <3>1 DEF Sent, Messages
    <2> QED BY <2>2, <2>3
  <1>5. CASE ~JoinGroup /\ ~SessionEnds /\ ~AutoCommit /\ ~(\E p \in Partitions : Claim(p))
    <2>1. UNCHANGED <<marked, committed, claim>> /\ (loop' # "session" => loop # "session")
      BY <1>0, <1>5 DEF Next, Loop, LoopCheck, LoopMoves, ConsumeFails,
           ConsumeCanceled, LoopReports, SessionCancelled, LoopGone,
           CloseStopped, CloseJobsChannel, AdapterMoves, Worker, WorkerTakes, HandlerSucceeds,
           HandlerFails, HandlerGivesUp, WorkerFinishes, WorkerExits, Closer, CloseBegins,
           GroupCloses, GroupLeft, WorkersLeft, CloserMoves, CancelCtx, Terminated,
           vars, broker, session
    <2> QED BY <1>0, <2>1 DEF Sent
  <1> QED BY <1>0, <1>1, <1>2, <1>3, <1>4, <1>5

\* The steps that move messages through the pool.
LEMMA PoolSteps ==
    ASSUME [Next]_vars, ~Crash
    PROVE  \/ UNCHANGED <<jobs, job, handled>>
           \/ \E p \in Partitions : ClaimEnqueues(p)
           \/ \E w \in Workers : WorkerTakes(w) \/ WorkerFinishes(w)
           \/ \E w \in Workers, h \in Handlers : HandlerSucceeds(w, h) \/ HandlerGivesUp(w, h)
  BY DEF Next, Loop, LoopCheck, LoopMoves, JoinGroup, StartSession, ConsumeFails,
         ConsumeCanceled, LoopReports, SessionCancelled, SessionEnds, AutoCommit, LoopGone,
         CloseStopped, CloseJobsChannel, AdapterMoves, Claim, ClaimReceives, ClaimRangeEnds,
         ClaimMarks, ClaimSeesCtxDone, ClaimHasClosed,
         ClaimSeesStopped, ClaimMoves, ClaimSendPanics, Worker,
         HandlerFails, WorkerExits, Closer, CloseBegins,
         GroupCloses, GroupLeft, WorkersLeft, CloserMoves, CancelCtx, Terminated,
         vars, session, pool

\* A claim sends what the pool has not seen.
LEMMA EnqueuesUnseen ==
    ASSUME IInv, SentInv, ~redelivery, NEW p \in Partitions, ClaimEnqueues(p)
    PROVE  /\ Current(p) \in Messages /\ ~Seen(Current(p)) /\ Sent(Current(p))'
           /\ jobs' = Append(jobs, Current(p)) /\ UNCHANGED <<job, handled>>
  <1>1. /\ claim[p] = "send" /\ claim' = [claim EXCEPT ![p] = "mark"] /\ UNCHANGED marked
        /\ jobs' = Append(jobs, Current(p)) /\ UNCHANGED <<job, handled>>
    BY DEF ClaimEnqueues, SendOnJobs, ClaimMoves, broker, pool
  <1>2. Current(p) \in Messages /\ marked[p] \in Int
    BY <1>1, ConsumerAssumption
    DEF ConsumerAssumption, IInv, SessionInv, TypeOK, Current, Messages, Offsets, Positions
  <1>3. ~Sent(Current(p)) /\ Sent(Current(p))'
    BY <1>1, <1>2 DEF Sent, Current, IInv, TypeOK
  <1> QED BY <1>1, <1>2, <1>3 DEF SentInv

\* A worker takes the head of jobs.
LEMMA TakesHead ==
    ASSUME TypeOK, NEW w \in Workers, WorkerTakes(w)
    PROVE  /\ jobs # <<>> /\ Head(jobs) \in Messages /\ Head(jobs) = jobs[1] /\ Len(jobs) \in Nat \ {0}
           /\ jobs' = Tail(jobs) /\ Len(jobs') = Len(jobs) - 1
           /\ \A i \in 1 .. Len(jobs') : i + 1 \in 1 .. Len(jobs) /\ jobs'[i] = jobs[i + 1]
           /\ job[w] = NoJob /\ job' = [job EXCEPT ![w] = Head(jobs)] /\ UNCHANGED handled
  BY DEF TypeOK, WorkerTakes

LEMMA SeenNext ==
    ASSUME IInv, GoesOnInv, SentInv, [Next]_vars
    PROVE  SentInv'
  <1> SUFFICES ASSUME ~redelivery', NEW m \in Messages, Seen(m)'
               PROVE  Sent(m)'
    BY DEF SentInv
  <1> USE DEF IInv
  <1>0. ~redelivery /\ ~Crash /\ (Sent(m) => Sent(m)')
    BY SentNext DEF Crash
  <1>1. ASSUME Seen(m) PROVE Sent(m)'
    BY <1>0, <1>1 DEF SentInv
  <1>2. CASE UNCHANGED <<jobs, job, handled>>
    BY <1>1, <1>2 DEF Seen, Queued, Held
  <1>3. ASSUME NEW p \in Partitions, ClaimEnqueues(p) PROVE Sent(m)'
    <2>1. jobs' = Append(jobs, Current(p)) /\ UNCHANGED <<job, handled>> /\ Sent(Current(p))'
      BY <1>0, <1>3, EnqueuesUnseen
    <2>2. Current(p) \in Messages
      BY <1>0, <1>3, EnqueuesUnseen
    <2>3. m \in Queued' => m \in Queued \/ m = Current(p)
      BY <2>1, <2>2 DEF Queued, TypeOK
    <2>4. CASE m = Current(p)
      BY <1>3, <2>1, <2>4 DEF Current, Sent, ClaimEnqueues, SendOnJobs, ClaimMoves, broker
    <2> QED BY <1>1, <2>1, <2>3, <2>4 DEF Seen, Held
  <1>4. ASSUME NEW w \in Workers, WorkerTakes(w) PROVE Sent(m)'
    <2>1. (Queued \union Held)' = Queued \union Held /\ UNCHANGED handled
      BY <1>4, TakesKeepsMemory, TakesHead
    <2> QED BY <1>1, <2>1 DEF Seen
  <1>5. ASSUME NEW w \in Workers, WorkerFinishes(w) PROVE Sent(m)'
    <2>1. job' = [job EXCEPT ![w] = NoJob] /\ UNCHANGED <<jobs, handled>>
      BY <1>5 DEF WorkerFinishes
    <2> QED BY <1>1, <2>1 DEF Seen, Queued, Held, TypeOK
  <1>6. ASSUME NEW w \in Workers, NEW h \in Handlers, HandlerSucceeds(w, h) \/ HandlerGivesUp(w, h)
        PROVE  Sent(m)'
    <2>1. handled' = handled \union {<<job[w], h>>} /\ UNCHANGED <<jobs, job>>
      BY <1>6 DEF HandlerSucceeds, HandlerGivesUp
    <2>2. job[w] \in Held
      BY <1>6, ConsumerAssumption
      DEF ConsumerAssumption, HandlerSucceeds, HandlerGivesUp, PoolInv, Idle, Held
    <2> QED BY <1>1, <2>1, <2>2 DEF Seen, Queued, Held
  <1> QED BY <1>0, <1>2, <1>3, <1>4, <1>5, <1>6, PoolSteps

LEMMA OneDeliveryNext ==
    ASSUME IInv, GoesOnInv, SentInv, OneDelivery, [Next]_vars
    PROVE  OneDelivery'
  <1> SUFFICES ASSUME ~redelivery' PROVE OneDelivery'
    BY DEF OneDelivery
  <1> USE DEF IInv
  <1>0. ~redelivery /\ ~Crash
    BY SentNext DEF Crash
  <1>1. /\ \A i, j \in 1 .. Len(jobs) : jobs[i] = jobs[j] => i = j
        /\ \A v, w \in Workers : job[v] = job[w] /\ job[v] # NoJob => v = w
        /\ Queued \cap Held = {}
        /\ \A m \in Queued, h \in Handlers : <<m, h>> \notin handled
    BY <1>0 DEF OneDelivery
  <1>2. CASE UNCHANGED <<jobs, job, handled>>
    BY <1>1, <1>2 DEF OneDelivery, Queued, Held
  <1>3. ASSUME NEW p \in Partitions, ClaimEnqueues(p) PROVE OneDelivery'
    <2>1. /\ jobs' = Append(jobs, Current(p)) /\ UNCHANGED <<job, handled>>
          /\ Current(p) \in Messages /\ ~Seen(Current(p))
      BY <1>0, <1>3, EnqueuesUnseen
    <2>2. Queued' = Queued \union {Current(p)} /\ Current(p) \notin Queued
      BY <2>1 DEF Queued, Seen, TypeOK
    <2>3. \A i, j \in 1 .. Len(jobs') : jobs'[i] = jobs'[j] => i = j
      BY <1>1, <2>1, <2>2 DEF Queued, TypeOK
    <2>4. Held' = Held /\ Queued' \cap Held' = {}
      BY <1>1, <2>1, <2>2 DEF Held, Seen
    <2>5. \A m \in Queued', h \in Handlers : <<m, h>> \notin handled'
      BY <1>1, <2>1, <2>2 DEF Seen
    <2>6. \A v, w \in Workers : job'[v] = job'[w] /\ job'[v] # NoJob => v = w
      BY <1>1, <2>1
    <2> QED BY <2>3, <2>4, <2>5, <2>6 DEF OneDelivery
  <1>4. ASSUME NEW w \in Workers, WorkerTakes(w) PROVE OneDelivery'
    <2>1. /\ jobs # <<>> /\ Head(jobs) \in Messages /\ Head(jobs) = jobs[1] /\ Len(jobs) \in Nat \ {0}
          /\ jobs' = Tail(jobs) /\ Len(jobs') = Len(jobs) - 1
          /\ \A i \in 1 .. Len(jobs') : i + 1 \in 1 .. Len(jobs) /\ jobs'[i] = jobs[i + 1]
          /\ job[w] = NoJob /\ job' = [job EXCEPT ![w] = Head(jobs)] /\ UNCHANGED handled
      BY <1>4, TakesHead
    <2>2. Head(jobs) \in Queued
      BY <2>1 DEF Queued
    <2>3. Queued' \subseteq Queued \ {Head(jobs)}
      <3> SUFFICES ASSUME NEW i \in 1 .. Len(jobs')
                   PROVE  jobs'[i] \in Queued \ {Head(jobs)}
        BY DEF Queued
      <3>1. i + 1 \in 1 .. Len(jobs) /\ jobs'[i] = jobs[i + 1] /\ i + 1 # 1 /\ 1 \in 1 .. Len(jobs)
        BY <2>1
      <3> QED BY <1>1, <2>1, <3>1 DEF Queued
    <2>4. Held' \subseteq Held \union {Head(jobs)}
      BY <2>1 DEF Held
    <2>5. \A i, j \in 1 .. Len(jobs') : jobs'[i] = jobs'[j] => i = j
      <3> SUFFICES ASSUME NEW i \in 1 .. Len(jobs'), NEW j \in 1 .. Len(jobs'), jobs'[i] = jobs'[j]
                   PROVE  i = j
        OBVIOUS
      <3>1. i + 1 = j + 1
        BY <1>1, <2>1
      <3> QED BY <2>1, <3>1
    <2>6. \A u, v \in Workers : job'[u] = job'[v] /\ job'[u] # NoJob => u = v
      <3>1. \A v \in Workers : job[v] # Head(jobs)
        BY <1>1, <2>1, <2>2, ConsumerAssumption DEF ConsumerAssumption, Held
      <3> QED BY <1>1, <2>1, <3>1 DEF TypeOK
    <2>7. Queued' \cap Held' = {}
      BY <1>1, <2>3, <2>4
    <2>8. \A m \in Queued', h \in Handlers : <<m, h>> \notin handled'
      BY <1>1, <2>1, <2>3
    <2> QED BY <2>5, <2>6, <2>7, <2>8 DEF OneDelivery
  <1>5. ASSUME NEW w \in Workers, WorkerFinishes(w) PROVE OneDelivery'
    <2>1. job' = [job EXCEPT ![w] = NoJob] /\ UNCHANGED <<jobs, handled>>
      BY <1>5 DEF WorkerFinishes
    <2>2. Held' \subseteq Held /\ Queued' = Queued
      BY <2>1 DEF Held, Queued, TypeOK
    <2>3. \A u, v \in Workers : job'[u] = job'[v] /\ job'[u] # NoJob => u = v
      BY <1>1, <2>1 DEF TypeOK
    <2> QED BY <1>1, <2>1, <2>2, <2>3 DEF OneDelivery
  <1>6. ASSUME NEW w \in Workers, NEW h \in Handlers, HandlerSucceeds(w, h) \/ HandlerGivesUp(w, h)
        PROVE  OneDelivery'
    <2>1. handled' = handled \union {<<job[w], h>>} /\ UNCHANGED <<jobs, job>>
      BY <1>6 DEF HandlerSucceeds, HandlerGivesUp
    <2>2. job[w] \in Held
      BY <1>6, ConsumerAssumption
      DEF ConsumerAssumption, HandlerSucceeds, HandlerGivesUp, PoolInv, Idle, Held
    <2>3. Queued' = Queued /\ Held' = Held /\ job[w] \notin Queued
      BY <1>1, <2>1, <2>2 DEF Queued, Held
    <2> QED BY <1>1, <2>1, <2>3 DEF OneDelivery
  <1> QED BY <1>0, <1>2, <1>3, <1>4, <1>5, <1>6, PoolSteps

\* Unless a crash or a lost commit repeats it, the pool has each message once.
THEOREM DeliveredOnce == Spec => []OneDelivery
  <1> DEFINE J == IInv /\ GoesOnInv /\ SentInv /\ OneDelivery
  <1>1. Init => J
    <2> SUFFICES ASSUME Init PROVE J
      OBVIOUS
    <2>1. Queued = {} /\ Held = {} /\ handled = {} /\ jobs = <<>> /\ marked = committed
      BY DEF Init, Queued, Held
    <2>2. GoesOnInv /\ SentInv
      BY <2>1 DEF GoesOnInv, SentInv, Seen
    <2>3. OneDelivery
      BY <2>1 DEF OneDelivery, Init
    <2> QED BY <2>2, <2>3, InitIInv
  <1>2. IInv /\ IInv' /\ GoesOnInv /\ SentInv /\ OneDelivery /\ [Next]_vars
            => GoesOnInv' /\ SentInv' /\ OneDelivery'
    BY SentNext, SeenNext, OneDeliveryNext DEF GoesOnInv
  <1> QED BY <1>1, <1>2, Invariance, PTL DEF Spec
=============================================================================
