------------------------- MODULE EventDeliveryProofs -------------------------
(***************************************************************************)
(* Proofs about EventDelivery, for any deliveries, events, retries and     *)
(* crashes: type correctness, that what is marked has had its effect, and  *)
(* the causes of duplicates: when an event is mailed more than once, that  *)
(* a row is pushed again only after a deletion, and that a stored OTP was  *)
(* mailed.                                                                 *)
(***************************************************************************)
EXTENDS EventDelivery, FiniteSetTheorems, TLAPS

\* Which events come to which part of Handle.
RouteInv ==
    \A d \in Deliveries :
        /\ pc[d] \in {"check", "count", "refill", "mark", "fill"} => about[d] \in Keyed
        /\ pc[d] \in {"prepare", "allow", "smtp"} => about[d] \notin InAppEvents
        /\ pc[d] \in {"save", "push"} => about[d] \in InAppEvents
        /\ pc[d] \in {"refill", "fill"} => about[d] \in marker

Effect(e) == IF e \in InAppEvents THEN Inserted(e) ELSE Reported(e) # {}

\* A run that marks its event has had the effect; a run about to push has inserted.
EffectInv == \A d \in Deliveries : pc[d] \in {"push", "mark", "fill"} => Effect(about[d])

\* The runs that have inserted a row and are about to push it.
Pushing(r) == {d \in Deliveries : pc[d] = "push" /\ RowId(about[d]) = r}

\* Each push, made or to come, stands for an insert of the row, and each insert but the
\* one that is in the table for a deletion.
PushInv ==
    \A r \in RowIds :
        /\ IsFiniteSet(Pushes(r)) /\ IsFiniteSet(Pushing(r))
        /\ Cardinality(Pushes(r)) + Cardinality(Pushing(r))
               <= removals[r] + (IF r \in rows THEN 1 ELSE 0)

\* What excuses: two deliveries at work on one event, and an attempt given up on.
ExcuseInv ==
    /\ \A d, x \in Deliveries :
           (d # x /\ Active(d) /\ Active(x) /\ about[d] = about[x]) => about[d] \in excused
    /\ \A m \in orphans : EventOf(m) \in excused

\* Without an excuse a mail that was handed over is marked, or is being marked, and a
\* run that still has to send meets neither mail nor mark.
MailInv ==
    /\ \A e \in Keyed \ excused :
           Reported(e) # {} => e \in marker \/ \E d \in Deliveries : about[d] = e /\ pc[d] = "mark"
    /\ \A d \in Deliveries :
           (pc[d] \in {"prepare", "allow", "smtp"} /\ about[d] \in Keyed \ excused) =>
               about[d] \notin marker /\ Reported(about[d]) = {}

\* MailedOnceUnlessExcused, counting refusals at the end of DATA as well.
ReportedOnce == \A e \in Keyed \ excused : \A m, n \in Reported(e) : m = n

\* A delivery that has succeeded leaves its event marked.
DoneInv ==
    \A d \in Deliveries :
        pc[d] = "done" /\ about[d] \in Keyed \ excused => about[d] \in marker

\* From the moment a run stores its code to the end of Send nobody else has touched it,
\* and the code that is stored when a mail is out is the one in the mail.
CodeInv ==
    /\ \A d \in Deliveries :
           (/\ pc[d] \in {"allow", "smtp"}
            /\ about[d] \in (OtpEvents \cap Keyed) \ (excused \union displaced)) =>
               otp[AddressOf[about[d]]] = <<d, run[d]>>
    /\ \A e \in (OtpEvents \cap Keyed) \ (excused \union displaced) :
           \A m \in Reported(e) : <<m[1], m[2]>> = otp[AddressOf[e]]

IInv ==
    /\ TypeOK /\ RouteInv /\ EffectInv /\ MarkedAfterEffect /\ PushInv
    /\ ExcuseInv /\ MailInv /\ ReportedOnce /\ DoneInv /\ CodeInv

-----------------------------------------------------------------------------

\* Every mail some run has handed over.
Handed == accepted \union refused

\* What a step of one delivery does, by where it is before and after: the other
\* deliveries stay where they are,
Alone(d) ==
    /\ pc'[d] \in PcStates
    /\ \A x \in Deliveries \ {d} : pc'[x] = pc[x] /\ run'[x] = run[x]
    /\ pc'[d] \in {"allow", "smtp"} => run'[d] = run[d]

\* this one follows Handle,
Flow(d) ==
    \/ pc'[d] \in {"idle", "failed"}
    \/ /\ pc[d] = "idle"
       /\ pc'[d] = IF about[d] \in Keyed THEN "check" ELSE AfterCheck(d)
       /\ \A x \in Deliveries \ {d} : Active(x) /\ about[x] = about[d] => about[d] \in excused'
    \/ pc[d] = "check" /\ pc'[d] = "count"
    \/ pc[d] = "check" /\ pc'[d] = "done" /\ about[d] \in cache
    \/ pc[d] = "count" /\ pc'[d] = AfterCheck(d) /\ about[d] \notin marker
    \/ pc[d] = "count" /\ pc'[d] = "refill" /\ about[d] \in marker
    \/ pc[d] = "refill" /\ pc'[d] = "done"
    \/ /\ pc[d] = "prepare" /\ pc'[d] = "allow"
       /\ about[d] \in OtpEvents => otp'[AddressOf[about[d]]] = <<d, run[d]>>
    \/ pc[d] = "allow" /\ pc'[d] = "smtp"
    \/ pc[d] = "smtp" /\ pc'[d] = "smtp"
    \/ pc[d] = "smtp" /\ pc'[d] = AfterSend(d) /\ ThisMail(d) \in Handed'
    \/ pc[d] = "save" /\ pc'[d] = "push" /\ RowId(about[d]) \in rows' \ rows
    \/ pc[d] = "push" /\ pc'[d] = AfterSend(d)
    \/ pc[d] = "mark" /\ pc'[d] = "fill" /\ about[d] \in marker'
    \/ pc[d] = "mark" /\ pc'[d] = "done" /\ about[d] \in marker' \union excused'
    \/ pc[d] = "fill" /\ pc'[d] = "done"

\* and each place changes one thing.
Alters(d) ==
    /\ about' = about /\ crashes' = crashes
    /\ cache' # cache => pc[d] \in {"refill", "fill"} /\ cache' = cache \union {about[d]}
    /\ marker' # marker => pc[d] = "mark" /\ marker' = marker \union {about[d]}
    /\ rows' # rows => pc[d] = "save" /\ rows' = rows \union {RowId(about[d])}
    /\ removals' = removals
    /\ code' # code => pc[d] = "prepare" /\ about[d] \in OtpEvents /\ StoresCode(d)
    /\ accepted' \in {accepted, accepted \union {ThisMail(d)}}
    /\ refused' \in {refused, refused \union {ThisMail(d)}}
    /\ <<accepted, refused>>' # <<accepted, refused>> =>
           pc[d] = "smtp" /\ (pc'[d] = AfterSend(d) \/ about[d] \in excused')
    /\ orphans' # orphans =>
           pc[d] = "smtp" /\ orphans' = orphans \union {ThisMail(d)} /\ about[d] \in excused'
    /\ pushed' # pushed => pc[d] = "push" /\ pushed' = pushed \union {<<d, run[d]>>}
    /\ excused \subseteq excused' /\ excused' \subseteq excused \union {about[d]}

\* The error of a run: another one, or the end of the delivery.
LEMMA FailsFacts ==
    ASSUME TypeOK, NEW d \in Deliveries, Fails(d)
    PROVE  /\ pc' \in [Deliveries -> PcStates] /\ run' \in [Deliveries -> Runs]
           /\ try' \in [Deliveries -> 1 .. SendRetries]
           /\ pc'[d] \in {"idle", "failed"}
           /\ \A x \in Deliveries \ {d} : pc'[x] = pc[x] /\ run'[x] = run[x]
  <1> USE DEF TypeOK, PcStates
  <1>0. Retries \in Nat \ {0} /\ SendRetries \in Nat \ {0}
    BY DeliveryAssumption DEF DeliveryAssumption
  <1>1. CASE run[d] < Retries
    <2>1. run[d] \in Runs /\ run[d] + 1 \in Runs
      BY <1>0, <1>1 DEF Runs
    <2>2. 1 \in 1 .. SendRetries
      BY <1>0
    <2> QED BY <1>1, <2>1, <2>2 DEF Fails
  <1>2. CASE ~(run[d] < Retries)
    BY <1>2 DEF Fails
  <1> QED BY <1>1, <1>2

\* The next attempt of Send, or the end of the run.
LEMMA NextAttemptFacts ==
    ASSUME TypeOK, NEW d \in Deliveries, pc[d] = "smtp", NextAttempt(d)
    PROVE  /\ pc' \in [Deliveries -> PcStates] /\ run' \in [Deliveries -> Runs]
           /\ try' \in [Deliveries -> 1 .. SendRetries]
           /\ \/ pc'[d] \in {"idle", "failed"}
              \/ pc'[d] = "smtp" /\ run'[d] = run[d]
           /\ \A x \in Deliveries \ {d} : pc'[x] = pc[x] /\ run'[x] = run[x]
  <1>1. CASE try[d] < SendRetries
    <2>1. try[d] + 1 \in 1 .. SendRetries
      BY <1>1, DeliveryAssumption DEF DeliveryAssumption, TypeOK
    <2> QED BY <1>1, <2>1 DEF NextAttempt, TypeOK
  <1>2. CASE ~(try[d] < SendRetries)
    BY <1>2, FailsFacts DEF NextAttempt
  <1> QED BY <1>1, <1>2

\* Where the next states of Handle lie.
LEMMA PcFacts ==
    ASSUME TypeOK, NEW d \in Deliveries
    PROVE  /\ AfterCheck(d) \in PcStates \ {"idle", "failed", "smtp", "allow"}
           /\ AfterSend(d) \in PcStates \ {"idle", "failed", "smtp", "allow"}
           /\ pc \in [Deliveries -> PcStates] /\ run \in [Deliveries -> Runs]
           /\ try \in [Deliveries -> 1 .. SendRetries]
           /\ {"check", "count", "refill", "done", "allow", "smtp", "push", "mark", "fill"}
                  \subseteq PcStates
  BY DEF TypeOK, AfterCheck, AfterSend, PcStates

LEMMA AloneStep ==
    ASSUME TypeOK, NEW d \in Deliveries, Handle(d)
    PROVE  /\ pc' \in [Deliveries -> PcStates] /\ run' \in [Deliveries -> Runs]
           /\ try' \in [Deliveries -> 1 .. SendRetries]
           /\ Alone(d)
  <1> USE PcFacts DEF Goto, Alone
  <1>1. CASE HandleBegins(d)
    BY <1>1 DEF HandleBegins
  <1>2. CASE HandleRejects(d) \/ CountFails(d) \/ RateLimited(d)
    BY <1>2, FailsFacts DEF HandleRejects, CountFails, RateLimited
  <1>3. CASE CacheHit(d) \/ CacheMiss(d) \/ CountsNone(d) \/ CountsOne(d) \/ Refill(d)
    BY <1>3 DEF CacheHit, CacheMiss, CountsNone, CountsOne, Refill
  <1>4. CASE Prepare(d) \/ Allowed(d)
    BY <1>4 DEF Prepare, Composes, Allowed
  <1>5. CASE RenderFails(d) \/ SaveOtpFails(d) \/ SaveFails(d)
    BY <1>5, FailsFacts DEF RenderFails, Composes, SaveOtpFails, SaveFails
  <1>6. CASE SmtpAccepts(d) \/ SmtpRefusesAtEnd(d)
    BY <1>6 DEF SmtpAccepts, SmtpRefusesAtEnd
  <1>7. CASE SmtpFails(d) \/ SmtpSendsEmpty(d) \/ SmtpTimesOut(d)
    BY <1>7, NextAttemptFacts DEF SmtpFails, SmtpSendsEmpty, SmtpTimesOut
  <1>8. CASE Save(d) \/ Push(d) \/ Mark(d) \/ MarkFails(d) \/ Fill(d)
    BY <1>8 DEF Save, Push, Mark, MarkFails, Fill
  <1> QED BY <1>1, <1>2, <1>3, <1>4, <1>5, <1>6, <1>7, <1>8 DEF Handle

LEMMA FlowStep ==
    ASSUME TypeOK, NEW d \in Deliveries, Handle(d)
    PROVE  Flow(d)
  <1> USE PcFacts DEF Goto, Flow
  <1>1. CASE HandleBegins(d)
    <2>1. pc[d] = "idle" /\ pc'[d] = IF about[d] \in Keyed THEN "check" ELSE AfterCheck(d)
      BY <1>1 DEF HandleBegins
    <2>2. \A x \in Deliveries \ {d} : Active(x) /\ about[x] = about[d] => about[d] \in excused'
      BY <1>1 DEF HandleBegins
    <2> QED BY <2>1, <2>2
  <1>2. CASE \/ HandleRejects(d) \/ CountFails(d) \/ RateLimited(d)
             \/ RenderFails(d) \/ SaveOtpFails(d) \/ SaveFails(d)
    <2>1. Fails(d)
      BY <1>2 DEF HandleRejects, CountFails, RateLimited, RenderFails, SaveOtpFails, SaveFails
    <2> QED BY <2>1, FailsFacts
  <1>3. CASE CacheHit(d) \/ CacheMiss(d) \/ CountsNone(d) \/ CountsOne(d) \/ Refill(d) \/ Allowed(d)
    BY <1>3 DEF CacheHit, CacheMiss, CountsNone, CountsOne, Refill, Allowed
  <1>4. CASE Prepare(d)
    <2>1. about[d] \in OtpEvents => otp'[AddressOf[about[d]]] = <<d, run[d]>>
      BY <1>4, DeliveryAssumption DEF Prepare, Composes, StoresCode, TypeOK, DeliveryAssumption
    <2>2. pc[d] = "prepare" /\ pc'[d] = "allow"
      BY <1>4 DEF Prepare
    <2> QED BY <2>1, <2>2
  <1>5. CASE SmtpAccepts(d) \/ SmtpRefusesAtEnd(d)
    BY <1>5 DEF SmtpAccepts, SmtpRefusesAtEnd, Handed
  <1>6. CASE SmtpFails(d) \/ SmtpSendsEmpty(d) \/ SmtpTimesOut(d)
    <2>1. pc[d] = "smtp" /\ NextAttempt(d)
      BY <1>6 DEF SmtpFails, SmtpSendsEmpty, SmtpTimesOut
    <2> QED BY <2>1, NextAttemptFacts
  <1>7. CASE Save(d)
    BY <1>7 DEF Save
  <1>8. CASE Push(d) \/ Mark(d) \/ MarkFails(d) \/ Fill(d)
    BY <1>8 DEF Push, Mark, MarkFails, Fill
  <1> QED BY <1>1, <1>2, <1>3, <1>4, <1>5, <1>6, <1>7, <1>8 DEF Handle

LEMMA AltersStep ==
    ASSUME TypeOK, NEW d \in Deliveries, Handle(d)
    PROVE  Alters(d)
  <1> USE DEF Alters, stores, table, code, mail
  <1>1. CASE HandleBegins(d)
    BY <1>1 DEF HandleBegins
  <1>2. CASE \/ HandleRejects(d) \/ CountFails(d) \/ RateLimited(d) \/ CacheHit(d) \/ CacheMiss(d)
             \/ CountsNone(d) \/ CountsOne(d) \/ Allowed(d) \/ SmtpFails(d)
    BY <1>2 DEF HandleRejects, CountFails, RateLimited, CacheHit, CacheMiss, CountsNone, CountsOne,
       Allowed, SmtpFails
  <1>3. CASE Refill(d) \/ Fill(d)
    BY <1>3 DEF Refill, Fill, Goto
  <1>4. CASE Prepare(d) \/ RenderFails(d) \/ SaveOtpFails(d)
    BY <1>4 DEF Prepare, RenderFails, SaveOtpFails, Composes
  <1>5. CASE SmtpAccepts(d) \/ SmtpRefusesAtEnd(d)
    <2>1. pc[d] = "smtp" /\ pc'[d] = AfterSend(d)
      BY <1>5, PcFacts DEF SmtpAccepts, SmtpRefusesAtEnd, Goto
    <2> QED BY <1>5, <2>1 DEF SmtpAccepts, SmtpRefusesAtEnd, Handed
  <1>6. CASE SmtpSendsEmpty(d)
    BY <1>6 DEF SmtpSendsEmpty, Handed
  <1>7. CASE SmtpTimesOut(d)
    BY <1>7 DEF SmtpTimesOut
  <1>8. CASE Save(d) \/ SaveFails(d)
    BY <1>8 DEF Save, SaveFails, Goto
  <1>9. CASE Push(d)
    BY <1>9 DEF Push, Goto
  <1>10. CASE Mark(d) \/ MarkFails(d)
    BY <1>10 DEF Mark, MarkFails, Goto
  <1> QED
    BY <1>1, <1>2, <1>3, <1>4, <1>5, <1>6, <1>7, <1>8, <1>9, <1>10 DEF Handle

\* What users and their deletions do to the table,
Deletes ==
    \E gone \in SUBSET rows :
        /\ rows' = rows \ gone
        /\ removals' = [r \in RowIds |-> IF r \in gone THEN removals[r] + 1 ELSE removals[r]]

\* and other hands to the code of an address: its OTP events are displaced.
Displaces ==
    /\ displaced \subseteq displaced' /\ displaced' \subseteq OtpEvents
    /\ otp' \in [Addresses -> Codes \union {NoCode, OtherCode}]
    /\ \A e \in OtpEvents \ displaced' : otp'[AddressOf[e]] = otp[AddressOf[e]]

\* A step that is no delivery's: an attempt given up on ends, a key expires, the process
\* dies, and the two above.  Where it hands a mail over, the event is excused.
Aside ==
    /\ UNCHANGED <<about, run, try, marker, refused, pushed>>
    /\ pc' \in [Deliveries -> PcStates]
    /\ \A d \in Deliveries :
           pc'[d] # pc[d] => pc'[d] = "dead" /\ about[d] \in excused'
    /\ cache' \subseteq cache /\ orphans' \subseteq orphans
    /\ excused \subseteq excused' /\ excused' \subseteq Events /\ crashes' \in 0 .. MaxCrashes
    /\ accepted \subseteq accepted' /\ accepted' \subseteq Mails
    /\ \A m \in accepted' \ accepted : EventOf(m) \in excused'
    /\ removals' \in [RowIds -> 0 .. MaxRemovals] /\ (UNCHANGED table \/ Deletes)
    /\ Displaces

LEMMA MailFacts ==
    ASSUME TypeOK
    PROVE  /\ \A d \in Deliveries : ThisMail(d) \in Mails /\ EventOf(ThisMail(d)) = about[d]
           /\ \A m \in Mails : m[1] \in Deliveries /\ EventOf(m) \in Events
           /\ \A d \in Deliveries : <<d, run[d]>> \in Codes /\ EventOf(<<d, run[d]>>) = about[d]
           /\ \A c \in Codes : c[1] \in Deliveries /\ EventOf(c) \in Events
  BY DEF TypeOK, ThisMail, Mails, EventOf, Codes

LEMMA AsideStep ==
    ASSUME TypeOK, ExcuseInv,
           \/ \E m \in Mails : OrphanEnds(m)
           \/ \E e \in Events : CacheExpires(e)
           \/ \E gone \in SUBSET rows : RowsDeleted(gone)
           \/ \E a \in Addresses : CodeReplaced(a) \/ CodeRemoved(a)
           \/ Crash \/ Finished \/ UNCHANGED vars
    PROVE  Aside
  <1> USE DEF TypeOK, Aside, stores, mail
  <1>0. UNCHANGED code => Displaces
    BY DEF code, Displaces
  <1>1. ASSUME NEW m \in Mails, OrphanEnds(m) PROVE Aside
    <2>1. EventOf(m) \in excused
      BY <1>1 DEF OrphanEnds, ExcuseInv
    <2> QED BY <1>0, <1>1, <2>1 DEF OrphanEnds, table
  <1>2. ASSUME NEW e \in Events, CacheExpires(e) PROVE Aside
    BY <1>0, <1>2 DEF CacheExpires, table
  <1>3. ASSUME NEW gone \in SUBSET rows, RowsDeleted(gone) PROVE Aside
    <2>1. removals' \in [RowIds -> 0 .. MaxRemovals]
      BY <1>3, DeliveryAssumption DEF RowsDeleted, DeliveryAssumption
    <2>2. Deletes
      BY <1>3 DEF RowsDeleted, Deletes
    <2> QED BY <1>0, <1>3, <2>1, <2>2 DEF RowsDeleted
  <1>4. ASSUME NEW a \in Addresses, CodeReplaced(a) \/ CodeRemoved(a) PROVE Aside
    <2>1. PICK c \in {NoCode, OtherCode} : OthersSetCode(a, c)
      BY <1>4 DEF CodeReplaced, CodeRemoved
    <2>2. Displaces
      BY <2>1, DeliveryAssumption DEF OthersSetCode, Displaces, OtpEventsOf, DeliveryAssumption
    <2> QED BY <2>1, <2>2 DEF OthersSetCode, table
  <1>5. CASE Crash
    <2>1. /\ UNCHANGED <<about, run, try, marker, table, code, cache, refused, pushed>>
          /\ orphans' = {} /\ crashes' = crashes + 1 /\ crashes < MaxCrashes
          /\ pc' = [d \in Deliveries |-> IF InMemory(d) THEN "dead" ELSE pc[d]]
          /\ excused' = excused \union {about[d] : d \in {x \in Deliveries : InMemory(x)}}
      BY <1>5 DEF Crash
    <2>2. PICK late \in SUBSET (orphans \union {ThisMail(d) : d \in {x \in Deliveries : pc[x] = "smtp"}}) :
              accepted' = accepted \union late
      BY <1>5 DEF Crash
    <2>3. \A m \in late : m \in Mails /\ EventOf(m) \in excused'
      <3>1. ASSUME NEW d \in Deliveries, pc[d] = "smtp"
            PROVE  ThisMail(d) \in Mails /\ EventOf(ThisMail(d)) \in excused'
        BY <2>1, <3>1, MailFacts DEF InMemory, Active, Resting
      <3> QED BY <2>1, <2>2, <3>1 DEF ExcuseInv
    <2>4. /\ pc' \in [Deliveries -> PcStates]
          /\ \A d \in Deliveries :
                 pc'[d] # pc[d] => pc'[d] = "dead" /\ about[d] \in excused'
      BY <2>1 DEF PcStates
    <2>5. crashes' \in 0 .. MaxCrashes
      BY <2>1, DeliveryAssumption DEF DeliveryAssumption
    <2> QED BY <1>0, <2>1, <2>2, <2>3, <2>4, <2>5 DEF table
  <1>6. CASE Finished \/ UNCHANGED vars
    BY <1>0, <1>6 DEF Finished, vars, table
  <1> QED BY <1>1, <1>2, <1>3, <1>4, <1>5, <1>6

LEMMA Steps ==
    ASSUME TypeOK, ExcuseInv, [Next]_vars
    PROVE  Aside \/ \E d \in Deliveries : Handle(d)
  BY AsideStep DEF Next

LEMMA InitIInv == Init => IInv
  <1> SUFFICES ASSUME Init PROVE IInv
    OBVIOUS
  <1> USE DeliveryAssumption DEF Init, DeliveryAssumption
  <1>1. TypeOK
    BY DEF TypeOK, PcStates, Runs
  <1>2. RouteInv /\ EffectInv /\ DoneInv
    BY DEF RouteInv, EffectInv, DoneInv
  <1>3. PushInv
    <2>1. \A r \in RowIds : Pushes(r) = {} /\ Pushing(r) = {} /\ removals[r] = 0 /\ r \notin rows
      BY DEF Pushes, Pushing
    <2> QED BY <2>1, FS_EmptySet DEF PushInv
  <1>4. \A e \in Events : Reported(e) = {}
    BY DEF Reported
  <1>5. MarkedAfterEffect /\ ExcuseInv
    BY DEF MarkedAfterEffect, ExcuseInv, Active, Resting
  <1>6. MailInv /\ ReportedOnce /\ CodeInv
    BY <1>4 DEF MailInv, ReportedOnce, CodeInv
  <1> QED BY <1>1, <1>2, <1>3, <1>5, <1>6 DEF IInv

LEMMA TypeNext ==
    ASSUME TypeOK, RouteInv, ExcuseInv, [Next]_vars
    PROVE  TypeOK'
  <1>1. CASE Aside
    BY <1>1 DEF Aside, Deletes, Displaces, table, TypeOK
  <1>2. ASSUME NEW d \in Deliveries, Handle(d) PROVE TypeOK'
    <2> USE DEF TypeOK
    <2>1. Alters(d)
      BY <1>2, AltersStep
    <2>2. /\ pc' \in [Deliveries -> PcStates] /\ run' \in [Deliveries -> Runs]
          /\ try' \in [Deliveries -> 1 .. SendRetries]
      BY <1>2, AloneStep
    <2>3. /\ about[d] \in Events /\ ThisMail(d) \in Mails /\ <<d, run[d]>> \in Codes
          /\ pc[d] \in {"refill", "fill", "mark"} => about[d] \in Keyed
          /\ pc[d] = "save" => RowId(about[d]) \in RowIds
      BY MailFacts DEF RouteInv, RowIds
    <2>4. /\ cache' \subseteq Keyed /\ marker' \subseteq Keyed /\ rows' \subseteq RowIds
          /\ removals' \in [RowIds -> 0 .. MaxRemovals]
      BY <2>1, <2>3 DEF Alters
    <2>5. otp' \in [Addresses -> Codes \union {NoCode, OtherCode}] /\ displaced' \subseteq OtpEvents
      BY <2>1, <2>3 DEF Alters, code, StoresCode, OtpEventsOf
    <2>6. accepted' \subseteq Mails /\ refused' \subseteq Mails /\ orphans' \subseteq Mails
      BY <2>1, <2>3 DEF Alters
    <2>7. /\ about' \in [Deliveries -> Events] /\ crashes' \in 0 .. MaxCrashes
          /\ pushed' \subseteq Codes /\ excused' \subseteq Events
      BY <2>1, <2>3 DEF Alters
    <2> QED BY <2>2, <2>4, <2>5, <2>6, <2>7
  <1> QED BY <1>1, <1>2, Steps

\* Nothing that was done is undone, but for the rows that users delete.
LEMMA Grows ==
    ASSUME TypeOK, RouteInv, ExcuseInv, [Next]_vars
    PROVE  /\ about' = about /\ marker \subseteq marker'
           /\ accepted \subseteq accepted' /\ refused \subseteq refused'
           /\ excused \subseteq excused'
           /\ \A e \in Events : Reported(e) \subseteq Reported(e)'
           /\ \A e \in Events : Effect(e) => Effect(e)'
  <1> DEFINE Kept == /\ about' = about /\ marker \subseteq marker'
                     /\ accepted \subseteq accepted' /\ refused \subseteq refused'
                     /\ excused \subseteq excused'
             Stays == \A r \in RowIds : r \in rows \/ removals[r] > 0 => r \in rows' \/ removals'[r] > 0
  <1>1. Kept /\ Stays
    <2>1. CASE Aside
      <3>1. Stays
        BY <2>1 DEF Aside, Deletes, table, TypeOK
      <3> QED BY <2>1, <3>1 DEF Aside
    <2>2. ASSUME NEW d \in Deliveries, Handle(d) PROVE Kept /\ Stays
      BY <2>2, AltersStep DEF Alters
    <2> QED BY <2>1, <2>2, Steps
  <1>2. \A e \in Events : Reported(e) \subseteq Reported(e)'
    BY <1>1 DEF Reported, EventOf
  <1>3. \A e \in Events : Effect(e) => Effect(e)'
    BY <1>1, <1>2 DEF Effect, Inserted, RowIds, RowId
  <1> QED BY <1>1, <1>2, <1>3

\* A mail about an event that is not excused is that of a delivery whose Send succeeds.
LEMMA ReportedNext ==
    ASSUME TypeOK, RouteInv, ExcuseInv, [Next]_vars,
           NEW e \in Events \ excused', Reported(e)' # Reported(e)
    PROVE  \E d \in Deliveries :
               /\ Handle(d) /\ pc[d] = "smtp" /\ pc'[d] = AfterSend(d) /\ about[d] = e
               /\ Reported(e)' = Reported(e) \union {ThisMail(d)}
  <1>1. CASE Aside
    <2>1. ASSUME NEW m \in Reported(e)' PROVE m \in Reported(e)
      BY <1>1, <2>1 DEF Aside, Reported, EventOf
    <2> QED BY <2>1, Grows
  <1>2. ASSUME NEW d \in Deliveries, Handle(d)
        PROVE  /\ pc[d] = "smtp" /\ pc'[d] = AfterSend(d) /\ about[d] = e
               /\ Reported(e)' = Reported(e) \union {ThisMail(d)}
    <2>1. Alters(d) /\ about' = about
      BY <1>2, AltersStep, Grows
    <2>2. Reported(e)' \subseteq Reported(e) \union {ThisMail(d)}
      BY <2>1 DEF Alters, Reported, EventOf
    <2>3. ThisMail(d) \in Reported(e)'
      BY <2>2, Grows
    <2>4. about[d] = e
      BY <2>1, <2>3, MailFacts DEF Reported, EventOf
    <2>5. <<accepted, refused>>' # <<accepted, refused>>
      BY <2>1 DEF Reported, EventOf
    <2>6. pc[d] = "smtp" /\ pc'[d] = AfterSend(d)
      BY <2>1, <2>4, <2>5 DEF Alters
    <2> QED BY <2>2, <2>3, <2>4, <2>6, Grows
  <1> QED BY <1>1, <1>2, Steps

-----------------------------------------------------------------------------

LEMMA RouteNext ==
    ASSUME TypeOK, RouteInv, ExcuseInv, [Next]_vars
    PROVE  RouteInv'
  <1> USE DEF RouteInv
  <1>1. CASE Aside
    BY <1>1 DEF Aside
  <1>2. ASSUME NEW d \in Deliveries, Handle(d) PROVE RouteInv'
    <2>1. /\ about' = about /\ marker \subseteq marker'
          /\ \A x \in Deliveries \ {d} : pc'[x] = pc[x]
      BY <1>2, Grows, AloneStep DEF Alone
    <2>2. AfterCheck(d) = IF about[d] \in InAppEvents THEN "save" ELSE "prepare"
      BY DEF AfterCheck
    <2>3. AfterSend(d) = IF about[d] \in Keyed THEN "mark" ELSE "done"
      BY DEF AfterSend
    <2>4. /\ pc'[d] \in {"check", "count", "refill", "mark", "fill"} => about[d] \in Keyed
          /\ pc'[d] \in {"prepare", "allow", "smtp"} => about[d] \notin InAppEvents
          /\ pc'[d] \in {"save", "push"} => about[d] \in InAppEvents
          /\ pc'[d] \in {"refill", "fill"} => about[d] \in marker'
      BY <1>2, <2>1, <2>2, <2>3, FlowStep DEF Flow
    <2> QED BY <2>1, <2>4
  <1> QED BY <1>1, <1>2, Steps

LEMMA EffectNext ==
    ASSUME TypeOK, RouteInv, EffectInv, ExcuseInv, [Next]_vars
    PROVE  EffectInv'
  <1> USE DEF EffectInv
  <1>0. /\ about' = about /\ \A d \in Deliveries : about[d] \in Events
        /\ \A e \in Events : Effect(e) => Effect(e)'
    BY Grows DEF TypeOK
  <1>1. CASE Aside
    BY <1>0, <1>1 DEF Aside
  <1>2. ASSUME NEW d \in Deliveries, Handle(d) PROVE EffectInv'
    <2>1. \A x \in Deliveries \ {d} : pc'[x] = pc[x]
      BY <1>2, AloneStep DEF Alone
    <2>2. ASSUME pc'[d] \in {"push", "mark", "fill"} PROVE Effect(about[d])'
      <3>1. CASE pc[d] = "smtp"
        <4>1. ThisMail(d) \in Handed'
          BY <1>2, <2>2, <3>1, FlowStep DEF Flow, AfterSend
        <4>2. ThisMail(d) \in Reported(about[d])'
          BY <4>1, Grows, MailFacts DEF Handed, Reported, EventOf
        <4>3. about'[d] \notin InAppEvents
          BY <1>0, <3>1 DEF RouteInv
        <4> QED BY <4>2, <4>3 DEF Effect
      <3>2. CASE pc[d] = "save"
        <4>1. about[d] \in InAppEvents /\ RowId(about[d]) \in rows'
          BY <1>2, <2>2, <3>2, FlowStep DEF RouteInv, Flow
        <4> QED BY <1>0, <4>1 DEF Effect, Inserted, RowId
      <3>3. CASE pc[d] \in {"push", "mark"}
        BY <1>0, <3>3
      <3>4. pc[d] \in {"smtp", "save", "push", "mark"}
        BY <1>2, <2>2, FlowStep DEF Flow, AfterSend, AfterCheck
      <3> QED BY <3>1, <3>2, <3>3, <3>4
    <2> QED BY <1>0, <2>1, <2>2, Grows
  <1> QED BY <1>1, <1>2, Steps

LEMMA MarkedNext ==
    ASSUME TypeOK, RouteInv, EffectInv, MarkedAfterEffect, ExcuseInv, [Next]_vars
    PROVE  MarkedAfterEffect'
  <1>1. \A e \in marker : Effect(e)
    BY DEF MarkedAfterEffect, Effect
  <1>2. cache' \subseteq marker' /\ \A e \in marker' : Effect(e)'
    <2>1. CASE Aside
      <3>1. cache' \subseteq marker'
        BY <2>1 DEF Aside, MarkedAfterEffect
      <3>2. marker' = marker /\ marker \subseteq Events
        BY <2>1, DeliveryAssumption DEF Aside, TypeOK, DeliveryAssumption
      <3> QED BY <1>1, <3>1, <3>2, Grows
    <2>2. ASSUME NEW d \in Deliveries, Handle(d)
          PROVE  cache' \subseteq marker' /\ \A e \in marker' : Effect(e)'
      <3>1. cache' \subseteq marker'
        BY <2>2, AltersStep, Grows DEF Alters, MarkedAfterEffect, RouteInv
      <3>2. ASSUME NEW e \in marker' PROVE e \in Events /\ Effect(e)
        BY <1>1, <2>2, <3>2, AltersStep, DeliveryAssumption
        DEF Alters, EffectInv, TypeOK, DeliveryAssumption
      <3> QED BY <3>1, <3>2, Grows
    <2> QED BY <2>1, <2>2, Steps
  <1> QED BY <1>2 DEF MarkedAfterEffect, Effect, Inserted, RowId, Reported, EventOf

\* Another element, or less, of a finite set.
LEMMA Counts ==
    ASSUME NEW S, IsFiniteSet(S)
    PROVE  /\ Cardinality(S) \in Nat
           /\ \A x : IsFiniteSet(S \union {x}) /\ Cardinality(S \union {x}) <= Cardinality(S) + 1
           /\ \A x \in S : Cardinality(S \ {x}) = Cardinality(S) - 1
           /\ \A T \in SUBSET S : IsFiniteSet(T) /\ Cardinality(T) \in Nat
                                  /\ Cardinality(T) <= Cardinality(S)
  BY FS_CardinalityType, FS_AddElement, FS_RemoveElement, FS_Subset

\* An insert makes one push possible, and only a deletion another insert.
LEMMA PushNext ==
    ASSUME TypeOK, RouteInv, PushInv, ExcuseInv, [Next]_vars
    PROVE  PushInv'
  <1> SUFFICES ASSUME NEW r \in RowIds
               PROVE  /\ IsFiniteSet(Pushes(r)') /\ IsFiniteSet(Pushing(r)')
                      /\ Cardinality(Pushes(r)') + Cardinality(Pushing(r)')
                             <= removals'[r] + (IF r \in rows' THEN 1 ELSE 0)
    BY DEF PushInv, RowIds, RowId
  <1>0. /\ IsFiniteSet(Pushes(r)) /\ IsFiniteSet(Pushing(r))
        /\ Cardinality(Pushes(r)) \in Nat /\ Cardinality(Pushing(r)) \in Nat
        /\ removals[r] \in Nat
        /\ Cardinality(Pushes(r)) + Cardinality(Pushing(r))
               <= removals[r] + (IF r \in rows THEN 1 ELSE 0)
    BY FS_CardinalityType DEF PushInv, TypeOK
  <1>1. CASE Aside
    <2>1. Pushes(r)' = Pushes(r)
      BY <1>1 DEF Aside, Pushes, EventOf, RowId
    <2>2. Pushing(r)' \in SUBSET Pushing(r)
      BY <1>1 DEF Aside, Pushing, RowId
    <2>3. \/ removals'[r] = removals[r] /\ (r \in rows' <=> r \in rows)
          \/ removals'[r] = removals[r] + 1 /\ r \in rows /\ r \notin rows'
      BY <1>1 DEF Aside, Deletes, table
    <2>4. /\ IsFiniteSet(Pushing(r)') /\ Cardinality(Pushing(r)') \in Nat
          /\ Cardinality(Pushing(r)') <= Cardinality(Pushing(r))
      BY <1>0, <2>2, Counts
    <2> QED BY <1>0, <2>1, <2>3, <2>4
  <1>2. ASSUME NEW d \in Deliveries, Handle(d)
        PROVE  /\ IsFiniteSet(Pushes(r)') /\ IsFiniteSet(Pushing(r)')
               /\ Cardinality(Pushes(r)') + Cardinality(Pushing(r)')
                      <= removals'[r] + (IF r \in rows' THEN 1 ELSE 0)
    <2>0. /\ about' = about /\ rows \subseteq rows' /\ removals' = removals
          /\ \A x \in Deliveries \ {d} : pc'[x] = pc[x]
      BY <1>2, AltersStep, AloneStep DEF Alone, Alters
    <2>1. CASE pc'[d] = "push"
      <3>1. RowId(about[d]) \in rows' \ rows /\ pc[d] = "save"
        BY <1>2, <2>1, FlowStep DEF Flow, AfterCheck, AfterSend
      <3>2. Pushes(r)' = Pushes(r)
        BY <1>2, <2>0, <3>1, AltersStep DEF Alters, Pushes, EventOf, RowId
      <3>3. CASE RowId(about[d]) = r
        <4>1. Pushing(r)' = Pushing(r) \union {d}
          BY <2>0, <2>1, <3>3 DEF Pushing, RowId
        <4>2. /\ IsFiniteSet(Pushing(r)') /\ Cardinality(Pushing(r)') \in Nat
              /\ Cardinality(Pushing(r)') <= Cardinality(Pushing(r)) + 1
          BY <1>0, <4>1, Counts, FS_CardinalityType
        <4> QED BY <1>0, <2>0, <3>1, <3>2, <3>3, <4>2
      <3>4. CASE RowId(about[d]) # r
        <4>1. Pushing(r)' = Pushing(r)
          BY <2>0, <3>1, <3>4 DEF Pushing, RowId
        <4> QED BY <1>0, <2>0, <3>2, <4>1
      <3> QED BY <3>3, <3>4
    <2>2. CASE pc'[d] # "push" /\ pc[d] = "push"
      <3>1. pushed' \subseteq pushed \union {<<d, run[d]>>} /\ pushed \subseteq pushed'
        BY <1>2, AltersStep DEF Alters
      <3>2. rows' = rows
        BY <1>2, <2>2, AltersStep DEF Alters
      <3>3. EventOf(<<d, run[d]>>) = about[d]
        BY MailFacts
      <3>4. CASE RowId(about[d]) = r
        <4>1. Pushes(r)' \in SUBSET (Pushes(r) \union {<<d, run[d]>>})
          BY <2>0, <3>1 DEF Pushes, EventOf, RowId
        <4>2. Pushing(r)' = Pushing(r) \ {d} /\ d \in Pushing(r)
          BY <2>0, <2>2, <3>4 DEF Pushing, RowId
        <4>3. /\ IsFiniteSet(Pushes(r)') /\ Cardinality(Pushes(r)') \in Nat
              /\ Cardinality(Pushes(r)') <= Cardinality(Pushes(r)) + 1
          <5> DEFINE more == Pushes(r) \union {<<d, run[d]>>}
          <5>1. IsFiniteSet(more) /\ Cardinality(more) <= Cardinality(Pushes(r)) + 1
            BY <1>0, Counts
          <5>2. /\ Cardinality(more) \in Nat /\ IsFiniteSet(Pushes(r)')
                /\ Cardinality(Pushes(r)') \in Nat /\ Cardinality(Pushes(r)') <= Cardinality(more)
            <6> HIDE DEF more
            <6> QED BY <4>1, <5>1, Counts DEF more
          <5> HIDE DEF more
          <5> QED BY <1>0, <5>1, <5>2
        <4>4. IsFiniteSet(Pushing(r)') /\ Cardinality(Pushing(r)') = Cardinality(Pushing(r)) - 1
          BY <1>0, <4>2, Counts
        <4> QED BY <1>0, <2>0, <3>2, <4>3, <4>4
      <3>5. CASE RowId(about[d]) # r
        <4>1. Pushes(r)' = Pushes(r)
          BY <2>0, <3>1, <3>3, <3>5 DEF Pushes, EventOf, RowId
        <4>2. Pushing(r)' = Pushing(r)
          BY <2>0, <3>5 DEF Pushing, RowId
        <4> QED BY <1>0, <2>0, <3>2, <4>1, <4>2
      <3> QED BY <3>4, <3>5
    <2>3. CASE pc'[d] # "push" /\ pc[d] # "push"
      <3>1. Pushes(r)' = Pushes(r)
        BY <1>2, <2>0, <2>3, AltersStep DEF Alters, Pushes, EventOf, RowId
      <3>2. Pushing(r)' = Pushing(r)
        BY <2>0, <2>3 DEF Pushing, RowId
      <3> QED BY <1>0, <2>0, <3>1, <3>2
    <2> QED BY <2>1, <2>2, <2>3
  <1> QED BY <1>1, <1>2, Steps

LEMMA ExcuseNext ==
    ASSUME TypeOK, RouteInv, ExcuseInv, [Next]_vars
    PROVE  ExcuseInv'
  <1> USE DEF Active, Resting
  <1>1. CASE Aside
    BY <1>1 DEF Aside, ExcuseInv, EventOf
  <1>2. ASSUME NEW d \in Deliveries, Handle(d) PROVE ExcuseInv'
    <2>1. /\ about' = about /\ excused \subseteq excused'
          /\ \A x \in Deliveries \ {d} : pc'[x] = pc[x]
      BY <1>2, Grows, AloneStep DEF Alone
    <2>2. ASSUME NEW x \in Deliveries \ {d}, Active(d)', Active(x)', about[d] = about[x]
          PROVE  about[d] \in excused'
      <3>1. Active(x)
        BY <2>1, <2>2
      <3>2. CASE pc[d] = "idle"
        BY <1>2, <2>2, <3>1, <3>2, FlowStep DEF Flow
      <3>3. CASE pc[d] # "idle"
        <4>1. pc[d] \notin Resting
          BY <1>2, <2>2, <3>3, FlowStep DEF Flow
        <4> QED BY <2>1, <2>2, <3>1, <4>1 DEF ExcuseInv
      <3> QED BY <3>2, <3>3
    <2>3. \A x, y \in Deliveries \ {d} :
              (x # y /\ Active(x)' /\ Active(y)' /\ about[x] = about[y]) => about[x] \in excused'
      BY <2>1 DEF ExcuseInv
    <2>4. \A m \in orphans' : EventOf(m) \in excused'
      BY <1>2, <2>1, AltersStep, MailFacts DEF Alters, ExcuseInv
    <2> QED BY <2>1, <2>2, <2>3, <2>4 DEF ExcuseInv, EventOf
  <1> QED BY <1>1, <1>2, Steps

\* The mark of an event comes from a delivery of it.
LEMMA MarkerNext ==
    ASSUME TypeOK, RouteInv, ExcuseInv, [Next]_vars, NEW e \in marker' \ marker
    PROVE  \E d \in Deliveries : Handle(d) /\ pc[d] = "mark" /\ about[d] = e
  <1>1. ~Aside
    BY DEF Aside
  <1>2. PICK d \in Deliveries : Handle(d)
    BY <1>1, Steps
  <1> QED BY <1>2, AltersStep DEF Alters

\* The insert of the marker ends a run of Handle, whether it succeeds or not.
LEMMA MarkLeads ==
    ASSUME TypeOK, NEW d \in Deliveries, Handle(d), pc[d] = "mark"
    PROVE  pc'[d] \in {"fill", "done"}
  BY DEF TypeOK, Handle, HandleBegins, HandleRejects, CacheHit, CacheMiss, CountFails, CountsNone,
     CountsOne, Refill, Prepare, Composes, RenderFails, SaveOtpFails, Allowed, RateLimited,
     SmtpAccepts, SmtpRefusesAtEnd, SmtpFails, SmtpSendsEmpty, SmtpTimesOut, Save, SaveFails,
     Push, Mark, MarkFails, Fill, Goto

\* A mail that is out is marked, or its run is about to mark it.
LEMMA OutNext ==
    ASSUME TypeOK, RouteInv, ExcuseInv, MailInv, ReportedOnce, [Next]_vars,
           NEW e \in Keyed \ excused', Reported(e)' # {}
    PROVE  /\ e \in marker' \/ \E d \in Deliveries : about'[d] = e /\ pc'[d] = "mark"
           /\ \A m, n \in Reported(e)' : m = n
  <1>0. e \in Events \ excused' /\ e \in Keyed \ excused
    BY Grows, DeliveryAssumption DEF DeliveryAssumption
  <1>1. CASE Reported(e)' # Reported(e)
    <2>1. PICK d \in Deliveries :
              /\ Handle(d) /\ pc[d] = "smtp" /\ pc'[d] = AfterSend(d) /\ about[d] = e
              /\ Reported(e)' = Reported(e) \union {ThisMail(d)}
      BY <1>0, <1>1, ReportedNext
    <2>2. Reported(e) = {}
      BY <1>0, <2>1 DEF MailInv
    <2>3. pc'[d] = "mark" /\ about'[d] = e
      BY <2>1, Grows DEF AfterSend
    <2> QED BY <2>1, <2>2, <2>3
  <1>2. CASE Reported(e)' = Reported(e)
    <2>1. \A m, n \in Reported(e)' : m = n
      BY <1>0, <1>2 DEF ReportedOnce
    <2>2. CASE e \in marker
      BY <2>1, <2>2, Grows
    <2>3. ASSUME NEW d \in Deliveries, about[d] = e, pc[d] = "mark"
          PROVE  e \in marker' \/ (about'[d] = e /\ pc'[d] = "mark")
      <3>0. about' = about
        BY Grows
      <3>1. CASE Handle(d)
        <4>1. pc'[d] \in {"fill", "done"} => e \in marker' \union excused'
          BY <2>3, <3>1, FlowStep DEF Flow, AfterCheck, AfterSend
        <4>2. pc'[d] \in {"fill", "done"}
          BY <2>3, <3>1, MarkLeads
        <4> QED BY <4>1, <4>2
      <3>2. ASSUME NEW x \in Deliveries \ {d}, Handle(x) PROVE pc'[d] = "mark"
        BY <2>3, <3>2, AloneStep DEF Alone
      <3>3. CASE Aside
        BY <2>3, <3>3 DEF Aside
      <3> QED BY <2>3, <3>0, <3>1, <3>2, <3>3, Steps
    <2> QED BY <1>0, <1>2, <2>1, <2>2, <2>3 DEF MailInv
  <1> QED BY <1>1, <1>2

\* A run that still has to send finds its event neither mailed nor marked.
LEMMA UnsentNext ==
    ASSUME TypeOK, RouteInv, ExcuseInv, MailInv, [Next]_vars,
           NEW d \in Deliveries, pc'[d] \in {"prepare", "allow", "smtp"},
           about[d] \in Keyed \ excused'
    PROVE  about[d] \notin marker' /\ Reported(about[d])' = {}
  <1> DEFINE e == about[d]
  <1>0. /\ e \in Events \ excused' /\ e \in Keyed \ excused
        /\ about' = about
    BY Grows DEF TypeOK
  <1>1. \A x \in Deliveries \ {d} : Active(x) /\ Active(d) => about[x] # e
    BY <1>0 DEF ExcuseInv
  <1>2. \A x \in Deliveries \ {d} : Active(x)' /\ Active(d)' => about[x] # e
    BY <1>0, ExcuseNext DEF ExcuseInv
  <1>3. Active(d)' /\ pc[d] \in {"count", "prepare", "allow", "smtp"}
    <2>1. CASE Handle(d)
      BY <1>0, <2>1, FlowStep DEF Flow, Active, Resting, AfterCheck, AfterSend
    <2>2. ASSUME NEW x \in Deliveries \ {d}, Handle(x) PROVE pc'[d] = pc[d]
      BY <2>2, AloneStep DEF Alone
    <2>3. CASE Aside
      BY <2>3 DEF Aside, Active, Resting
    <2> QED BY <2>1, <2>2, <2>3, Steps DEF Active, Resting
  <1>4. e \notin marker /\ Reported(e) = {}
    <2>1. CASE pc[d] = "count"
      <3>1. e \notin marker
        <4>1. Handle(d)
          BY <2>1, <1>0, Steps, AloneStep DEF Alone, Aside
        <4> QED BY <2>1, <4>1, FlowStep DEF Flow, AfterSend
      <3>2. \A x \in Deliveries : about[x] = e => pc[x] # "mark"
        BY <1>1, <2>1 DEF Active, Resting
      <3> QED BY <1>0, <3>1, <3>2 DEF MailInv
    <2>2. CASE pc[d] \in {"prepare", "allow", "smtp"}
      BY <1>0, <2>2 DEF MailInv
    <2> QED BY <1>3, <2>1, <2>2
  <1>5. e \notin marker'
    <2> SUFFICES ASSUME e \in marker' PROVE FALSE
      OBVIOUS
    <2>1. PICK x \in Deliveries : Handle(x) /\ pc[x] = "mark" /\ about[x] = e
      BY <1>4, MarkerNext
    <2> QED BY <1>1, <1>3, <2>1 DEF Active, Resting
  <1>6. Reported(e)' = {}
    <2> SUFFICES ASSUME Reported(e)' # Reported(e) PROVE FALSE
      BY <1>0, <1>4
    <2>1. PICK x \in Deliveries :
              Handle(x) /\ pc[x] = "smtp" /\ pc'[x] = AfterSend(x) /\ about[x] = e
      BY <1>0, ReportedNext
    <2>2. pc'[x] = "mark"
      BY <1>0, <2>1 DEF AfterSend
    <2> QED BY <1>2, <1>3, <2>1, <2>2 DEF Active, Resting
  <1> QED BY <1>5, <1>6

LEMMA MailNext ==
    ASSUME TypeOK, RouteInv, ExcuseInv, MailInv, ReportedOnce, [Next]_vars
    PROVE  MailInv' /\ ReportedOnce'
  <1>1. ReportedOnce'
    BY OutNext DEF ReportedOnce
  <1>2. \A e \in Keyed \ excused' :
            Reported(e)' # {} =>
                e \in marker' \/ \E d \in Deliveries : about'[d] = e /\ pc'[d] = "mark"
    BY OutNext
  <1>3. ASSUME NEW d \in Deliveries, pc'[d] \in {"prepare", "allow", "smtp"},
               about'[d] \in Keyed \ excused'
        PROVE  about'[d] \notin marker' /\ Reported(about[d])' = {}
    BY <1>3, UnsentNext, Grows
  <1> QED BY <1>1, <1>2, <1>3 DEF MailInv

LEMMA DoneNext ==
    ASSUME TypeOK, RouteInv, MarkedAfterEffect, ExcuseInv, DoneInv, [Next]_vars
    PROVE  DoneInv'
  <1> SUFFICES ASSUME NEW d \in Deliveries, pc'[d] = "done", about[d] \in Keyed \ excused'
               PROVE  about[d] \in marker'
    BY Grows DEF DoneInv
  <1>1. CASE pc[d] = "done"
    BY <1>1, Grows DEF DoneInv
  <1>2. CASE pc[d] # "done"
    <2>1. Handle(d)
      BY <1>2, Steps, AloneStep DEF Alone, Aside
    <2> QED
      BY <2>1, FlowStep, Grows DEF Flow, AfterCheck, AfterSend, RouteInv, MarkedAfterEffect
  <1> QED BY <1>1, <1>2

\* While an event is neither excused nor displaced, only a run of it changes its code.
LEMMA CodeChange ==
    ASSUME TypeOK, RouteInv, ExcuseInv, [Next]_vars,
           NEW e \in OtpEvents \ displaced',
           e \in displaced \/ otp'[AddressOf[e]] # otp[AddressOf[e]]
    PROVE  \E d \in Deliveries :
               /\ Handle(d) /\ pc[d] = "prepare" /\ about[d] = e
               /\ otp'[AddressOf[e]] = <<d, run[d]>>
  <1>1. ~Aside
    BY DEF Aside, Displaces
  <1>2. PICK d \in Deliveries : Handle(d)
    BY <1>1, Steps
  <1>3. pc[d] = "prepare" /\ about[d] \in OtpEvents /\ StoresCode(d)
    BY <1>2, AltersStep DEF Alters, code
  <1>4. about[d] = e
    <2>1. CASE e \in displaced
      BY <1>3, <2>1 DEF StoresCode
    <2>2. CASE otp'[AddressOf[e]] # otp[AddressOf[e]]
      <3>1. AddressOf[about[d]] = AddressOf[e]
        BY <1>3, <2>2, DeliveryAssumption DEF StoresCode, TypeOK, DeliveryAssumption
      <3> QED BY <1>3, <3>1 DEF StoresCode, OtpEventsOf
    <2> QED BY <2>1, <2>2
  <1>5. otp'[AddressOf[e]] = <<d, run[d]>>
    BY <1>3, <1>4, DeliveryAssumption DEF StoresCode, TypeOK, DeliveryAssumption
  <1> QED BY <1>2, <1>3, <1>4, <1>5

LEMMA CodeNext ==
    ASSUME TypeOK, RouteInv, ExcuseInv, MailInv, CodeInv, [Next]_vars
    PROVE  CodeInv'
  <1>1. ASSUME NEW d \in Deliveries, pc'[d] \in {"allow", "smtp"},
               about[d] \in (OtpEvents \cap Keyed) \ (excused' \union displaced')
        PROVE  otp'[AddressOf[about[d]]] = <<d, run'[d]>>
    <2>0. about[d] \notin excused
      BY <1>1, Grows
    <2>1. CASE Handle(d) /\ pc[d] = "prepare"
      BY <1>1, <2>1, FlowStep, AloneStep DEF Flow, Alone
    <2>2. CASE ~(Handle(d) /\ pc[d] = "prepare")
      <3>1. pc[d] \in {"allow", "smtp"} /\ run'[d] = run[d]
        <4>1. CASE Handle(d)
          BY <1>1, <2>2, <4>1, FlowStep, AloneStep DEF Flow, Alone, AfterCheck, AfterSend
        <4>2. ASSUME NEW x \in Deliveries \ {d}, Handle(x)
              PROVE  pc'[d] = pc[d] /\ run'[d] = run[d]
          BY <4>2, AloneStep DEF Alone
        <4>3. CASE Aside
          BY <1>1, <4>3 DEF Aside
        <4> QED BY <1>1, <4>1, <4>2, <4>3, Steps
      <3>2. ~\E x \in Deliveries : Handle(x) /\ pc[x] = "prepare" /\ about[x] = about[d]
        BY <2>0, <2>2, <3>1 DEF ExcuseInv, Active, Resting
      <3>3. about[d] \notin displaced /\ otp'[AddressOf[about[d]]] = otp[AddressOf[about[d]]]
        BY <1>1, <3>2, CodeChange
      <3> QED BY <1>1, <2>0, <3>1, <3>3 DEF CodeInv
    <2> QED BY <2>1, <2>2
  <1>2. ASSUME NEW e \in (OtpEvents \cap Keyed) \ (excused' \union displaced'),
               NEW m \in Reported(e)'
        PROVE  <<m[1], m[2]>> = otp'[AddressOf[e]]
    <2>0. e \in Events \ excused' /\ e \in (OtpEvents \cap Keyed) \ excused
      BY Grows, DeliveryAssumption DEF DeliveryAssumption
    <2>1. CASE Reported(e)' = Reported(e)
      <3>1. ~\E x \in Deliveries : Handle(x) /\ pc[x] = "prepare" /\ about[x] = e
        BY <1>2, <2>0, <2>1 DEF MailInv
      <3>2. e \notin displaced /\ otp'[AddressOf[e]] = otp[AddressOf[e]]
        BY <1>2, <3>1, CodeChange
      <3> QED BY <1>2, <2>0, <2>1, <3>2 DEF CodeInv
    <2>2. CASE Reported(e)' # Reported(e)
      <3>1. PICK d \in Deliveries :
                /\ Handle(d) /\ pc[d] = "smtp" /\ about[d] = e
                /\ Reported(e)' = Reported(e) \union {ThisMail(d)}
        BY <2>0, <2>2, ReportedNext
      <3>2. code' = code
        BY <3>1, AltersStep DEF Alters
      <3>3. Reported(e) = {} /\ otp[AddressOf[e]] = <<d, run[d]>>
        BY <1>2, <2>0, <3>1, <3>2 DEF MailInv, CodeInv, code
      <3>4. m = <<d, run[d], try[d]>>
        BY <1>2, <3>1, <3>3 DEF ThisMail
      <3> QED BY <3>2, <3>3, <3>4 DEF code
    <2> QED BY <2>1, <2>2
  <1> QED BY <1>1, <1>2, Grows DEF CodeInv

LEMMA Invariance == IInv /\ [Next]_vars => IInv'
  <1> SUFFICES ASSUME IInv, [Next]_vars PROVE IInv'
    OBVIOUS
  <1> USE DEF IInv
  <1>1. TypeOK' /\ RouteInv' /\ ExcuseInv'
    BY TypeNext, RouteNext, ExcuseNext
  <1>2. EffectInv' /\ MarkedAfterEffect' /\ PushInv'
    BY EffectNext, MarkedNext, PushNext
  <1>3. MailInv' /\ ReportedOnce' /\ DoneInv' /\ CodeInv'
    BY MailNext, DoneNext, CodeNext
  <1> QED BY <1>1, <1>2, <1>3

LEMMA AlwaysIInv == Spec => []IInv
  BY InitIInv, Invariance, PTL DEF Spec

-----------------------------------------------------------------------------

\* Every variable keeps its type.
THEOREM TypeCorrect == Spec => []TypeOK
  <1>1. IInv => TypeOK
    BY DEF IInv
  <1> QED BY <1>1, AlwaysIInv, PTL

\* A marker is set after the effect only, and Redis never knows more than the database,
\* whatever fails or crashes in between.
THEOREM MarksFollowEffects == Spec => []MarkedAfterEffect
  <1>1. IInv => MarkedAfterEffect
    BY DEF IInv
  <1> QED BY <1>1, AlwaysIInv, PTL

\* An event with an EventID is mailed once unless an attempt timed out or left an empty
\* mail, its marker was not written, the process crashed, or two deliveries overlapped.
THEOREM DuplicatesAreExcused == Spec => []MailedOnceUnlessExcused
  <1>1. IInv => MailedOnceUnlessExcused
    BY DEF IInv, ReportedOnce, MailedOnceUnlessExcused, Reported
  <1> QED BY <1>1, AlwaysIInv, PTL

\* Every push of a row after the first costs a deletion of it, whatever else happens.
THEOREM RepeatedPushesCostDeletions == Spec => []PushedOnceUnlessDeleted
  <1>1. IInv => PushedOnceUnlessDeleted
    <2> SUFFICES ASSUME IInv, NEW r \in RowIds
                 PROVE  Cardinality(Pushes(r)) <= removals[r] + 1
      BY DEF PushedOnceUnlessDeleted
    <2>1. /\ Cardinality(Pushes(r)) \in Nat /\ Cardinality(Pushing(r)) \in Nat
          /\ removals[r] \in Nat
      BY FS_CardinalityType DEF IInv, PushInv, TypeOK
    <2>2. Cardinality(Pushes(r)) + Cardinality(Pushing(r))
              <= removals[r] + (IF r \in rows THEN 1 ELSE 0)
      BY DEF IInv, PushInv
    <2> QED BY <2>1, <2>2
  <1> QED BY <1>1, AlwaysIInv, PTL

\* After the handler of an OTP request has succeeded the code its address has in Redis is
\* a mailed one of that request, until another hand touches the key.
THEOREM StoredCodesAreMailed == Spec => []StoredCodeWasMailed
  <1>1. IInv => StoredCodeWasMailed
    <2> SUFFICES ASSUME IInv, NEW d \in Deliveries, pc[d] = "done",
                        about[d] \in (OtpEvents \cap Keyed) \ (excused \union displaced)
                 PROVE  \E m \in Reported(about[d]) : <<m[1], m[2]>> = otp[AddressOf[about[d]]]
      BY DEF StoredCodeWasMailed
    <2>1. about[d] \in marker
      BY DEF IInv, DoneInv
    <2>2. about[d] \notin InAppEvents
      BY DeliveryAssumption DEF DeliveryAssumption
    <2>3. Reported(about[d]) # {}
      BY <2>1, <2>2 DEF IInv, MarkedAfterEffect
    <2> QED BY <2>3 DEF IInv, CodeInv
  <1> QED BY <1>1, AlwaysIInv, PTL
=============================================================================
