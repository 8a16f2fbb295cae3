------------------------- MODULE RateLimiterProofs -------------------------
(***************************************************************************)
(* Proofs about RateLimiter, for any number of callers and windows and     *)
(* every rate.                                                             *)
(***************************************************************************)
EXTENDS RateLimiter, FiniteSetTheorems, TLAPS

Counted == {"expire", "allowed", "refused", "failed"}

\* A caller past ComputeKey has the number of a window.
WindowInv == \A s \in Callers : pc[s] # "idle" => window[s] \in Number

\* No key counts a call that has not been made.
CountInv == \A w \in Number : counter[w] <= Cardinality(Of(w, Counted))

IInv == TypeOK /\ WindowInv /\ CountInv /\ RatePerWindow /\ RefusedOnlyWhenUsedUp

-----------------------------------------------------------------------------

\* The callers of a window are finitely many.
LEMMA OfFinite ==
    ASSUME NEW w, NEW P
    PROVE  IsFiniteSet(Of(w, P)) /\ Cardinality(Of(w, P)) \in Nat
  <1>1. Of(w, P) \subseteq Callers
    BY DEF Of
  <1>2. IsFiniteSet(Of(w, P))
    BY <1>1, FS_Subset, LimiterAssumption DEF LimiterAssumption
  <1> QED BY <1>2, FS_CardinalityType

\* A set that loses nothing has no fewer elements ...
LEMMA NoFewer ==
    ASSUME NEW S, NEW T, IsFiniteSet(T), S \subseteq T
    PROVE  Cardinality(S) <= Cardinality(T)
  BY FS_Subset

\* ... and one that gains a single one has one more at most, exactly one if it is new.
LEMMA OneMore ==
    ASSUME NEW S, NEW x, IsFiniteSet(S)
    PROVE  /\ IsFiniteSet(S \union {x})
           /\ Cardinality(S) \in Nat
           /\ Cardinality(S \union {x}) \in Nat
           /\ Cardinality(S \union {x}) <= Cardinality(S) + 1
           /\ x \notin S => Cardinality(S \union {x}) = Cardinality(S) + 1
  <1>1. Cardinality(S) \in Nat
    BY FS_CardinalityType
  <1>2. /\ IsFiniteSet(S \union {x})
        /\ Cardinality(S \union {x}) = IF x \in S THEN Cardinality(S) ELSE Cardinality(S) + 1
    BY FS_AddElement
  <1> QED BY <1>1, <1>2

LEMMA InitIInv == Init => IInv
  <1> SUFFICES ASSUME Init PROVE IInv
    OBVIOUS
  <1> USE LimiterAssumption DEF LimiterAssumption, Init, Number
  <1>1. TypeOK /\ WindowInv /\ RefusedOnlyWhenUsedUp
    BY DEF TypeOK, WindowInv, RefusedOnlyWhenUsedUp
  <1>2. CountInv
    <2> SUFFICES ASSUME NEW w \in Number PROVE counter[w] <= Cardinality(Of(w, Counted))
      BY DEF CountInv
    <2> QED BY OfFinite
  <1>3. RatePerWindow
    <2> SUFFICES ASSUME NEW w \in Number PROVE Cardinality(Passed(w)) <= Rate
      BY DEF RatePerWindow
    <2>1. Passed(w) = {}
      BY DEF Passed, Of
    <2> QED BY <2>1, FS_EmptySet
  <1> QED BY <1>1, <1>2, <1>3 DEF IInv

LEMMA TypeNext == IInv /\ [Next]_vars => TypeOK' /\ WindowInv'
  <1> SUFFICES ASSUME IInv, [Next]_vars PROVE TypeOK' /\ WindowInv'
    OBVIOUS
  <1> USE LimiterAssumption DEF LimiterAssumption, IInv, TypeOK, WindowInv, Number, Goto
  <1>1. ASSUME NEW s \in Callers, ComputeKey(s) PROVE TypeOK' /\ WindowInv'
    BY <1>1 DEF ComputeKey
  <1>2. ASSUME NEW s \in Callers, Incr(s) PROVE TypeOK' /\ WindowInv'
    <2>1. window[s] \in Number /\ counter[window[s]] \in Nat
      BY <1>2 DEF Incr
    <2>2. pc' \in [Callers -> {"idle", "incr", "expire", "allowed", "refused", "failed"}]
      BY <1>2 DEF Incr, Verdict
    <2>3. counter' \in [Number -> Nat]
      BY <1>2, <2>1 DEF Incr
    <2>4. late' \subseteq Number
      BY <1>2, <2>1 DEF Incr
    <2>5. UNCHANGED <<clock, window, expiring>>
      BY <1>2 DEF Incr
    <2>6. TypeOK'
      BY <2>2, <2>3, <2>4, <2>5
    <2>7. WindowInv'
      BY <1>2, <2>5 DEF Incr
    <2> QED BY <2>6, <2>7
  <1>3. ASSUME NEW s \in Callers, IncrFails(s) PROVE TypeOK' /\ WindowInv'
    <2>1. window[s] \in Number /\ counter[window[s]] \in Nat
      BY <1>3 DEF IncrFails
    <2>2. counter' \in [Number -> Nat]
      BY <1>3, <2>1 DEF IncrFails
    <2> QED BY <1>3, <2>2 DEF IncrFails
  <1>4. ASSUME NEW s \in Callers, Expire(s) PROVE TypeOK' /\ WindowInv'
    <2>1. window[s] \in Number
      BY <1>4 DEF Expire
    <2> QED BY <1>4, <2>1 DEF Expire, Verdict
  <1>5. CASE NextWindow
    BY <1>5 DEF NextWindow
  <1>6. ASSUME NEW w \in Number, KeyExpires(w) PROVE TypeOK' /\ WindowInv'
    BY <1>6 DEF KeyExpires
  <1>7. CASE UNCHANGED vars
    BY <1>7 DEF vars
  <1> QED BY <1>1, <1>2, <1>3, <1>4, <1>5, <1>6, <1>7 DEF Next

-----------------------------------------------------------------------------

\* Only Incr and IncrFails make a caller counted, and nothing makes it uncounted.
LEMMA CountNext == IInv /\ [Next]_vars => CountInv'
  <1> SUFFICES ASSUME IInv, [Next]_vars, NEW w \in Number
               PROVE  counter'[w] <= Cardinality(Of(w, Counted)')
    BY DEF CountInv, Of, Counted, Number
  <1> USE LimiterAssumption DEF LimiterAssumption, Number, Goto
  <1>1. /\ IsFiniteSet(Of(w, Counted)) /\ Cardinality(Of(w, Counted)) \in Nat
        /\ counter[w] <= Cardinality(Of(w, Counted)) /\ counter[w] \in Nat
    BY OfFinite DEF IInv, CountInv, TypeOK
  <1>2. CASE counter' = counter /\ Of(w, Counted)' = Of(w, Counted)
    BY <1>1, <1>2
  <1>3. ASSUME NEW s \in Callers, Incr(s) \/ IncrFails(s)
        PROVE  counter'[w] <= Cardinality(Of(w, Counted)')
    <2>1. /\ pc[s] = "incr" /\ window' = window
          /\ \E to \in Counted : pc' = [pc EXCEPT ![s] = to]
      BY <1>3 DEF Incr, IncrFails, Verdict, Counted
    <2>2. counter' \in {counter, [counter EXCEPT ![window[s]] = @ + 1]}
      BY <1>3 DEF Incr, IncrFails
    <2>3. CASE window[s] = w
      <3>1. s \notin Of(w, Counted) /\ Of(w, Counted)' = Of(w, Counted) \union {s}
        BY <2>1, <2>3 DEF Of, Counted, IInv, TypeOK
      <3>2. Cardinality(Of(w, Counted)') = Cardinality(Of(w, Counted)) + 1
        BY <1>1, <3>1, OneMore
      <3>3. counter'[w] <= counter[w] + 1
        BY <1>1, <2>2, <2>3 DEF IInv, TypeOK
      <3>4. counter'[w] \in Nat
        BY <1>1, <2>2, <2>3 DEF IInv, TypeOK
      <3> QED BY <1>1, <3>2, <3>3, <3>4
    <2>4. CASE window[s] # w
      <3>1. Of(w, Counted)' = Of(w, Counted)
        BY <2>1, <2>4 DEF Of, IInv, TypeOK
      <3>2. counter'[w] = counter[w]
        BY <2>2, <2>4 DEF IInv, TypeOK
      <3> QED BY <1>1, <3>1, <3>2
    <2> QED BY <2>3, <2>4
  <1>4. ASSUME NEW s \in Callers, ComputeKey(s) PROVE counter'[w] <= Cardinality(Of(w, Counted)')
    BY <1>2, <1>4 DEF ComputeKey, Of, Counted, IInv, TypeOK
  <1>5. ASSUME NEW s \in Callers, Expire(s) PROVE counter'[w] <= Cardinality(Of(w, Counted)')
    BY <1>2, <1>5 DEF Expire, Verdict, Of, Counted, IInv, TypeOK
  <1>6. ASSUME NEW v \in Number, KeyExpires(v) PROVE counter'[w] <= Cardinality(Of(w, Counted)')
    <2>1. Of(w, Counted)' = Of(w, Counted)
      BY <1>6 DEF KeyExpires, Of
    <2>2. counter'[w] = counter[w] \/ counter'[w] = 0
      BY <1>6 DEF KeyExpires, IInv, TypeOK
    <2> QED BY <1>1, <2>1, <2>2
  <1>7. CASE NextWindow \/ UNCHANGED vars
    BY <1>2, <1>7 DEF NextWindow, vars, Of
  <1> QED BY <1>3, <1>4, <1>5, <1>6, <1>7 DEF Next

\* A call that is let through has counted one more than were let through before it,
\* unless the count began anew; and it is let through only if that is within the rate.
LEMMA RateNext == IInv /\ [Next]_vars => RatePerWindow'
  <1> SUFFICES ASSUME IInv, [Next]_vars, NEW w \in Number, w \notin late'
               PROVE  Cardinality(Passed(w)') <= Rate
    BY DEF RatePerWindow, Passed, Of, Number
  <1> USE LimiterAssumption DEF LimiterAssumption, Number, Goto
  <1>1. IsFiniteSet(Passed(w)) /\ Cardinality(Passed(w)) \in Nat
    BY OfFinite DEF Passed
  <1>2. CASE late' = late /\ Passed(w)' = Passed(w)
    BY <1>2 DEF IInv, RatePerWindow
  <1>3. ASSUME NEW s \in Callers, Incr(s) PROVE Cardinality(Passed(w)') <= Rate
    <2> DEFINE count == counter[window[s]] + 1
               to    == IF count = 1 THEN "expire" ELSE Verdict(count)
    <2>1. /\ pc[s] = "incr" /\ window' = window
          /\ pc' = [pc EXCEPT ![s] = to]
      BY <1>3 DEF Incr
    <2>2. late' = IF count <= Cardinality(Passed(window[s]))
                  THEN late \union {window[s]} ELSE late
      BY <1>3 DEF Incr
    <2>3. w \notin late
      BY <2>2
    <2>4. Cardinality(Passed(w)) <= Rate
      BY <2>3 DEF IInv, RatePerWindow
    <2>5. window[s] \in Number /\ count \in Nat
      BY <2>1 DEF IInv, TypeOK, WindowInv
    <2>6. CASE window[s] # w
      <3>1. Passed(w)' = Passed(w)
        BY <2>1, <2>6 DEF Passed, Of, IInv, TypeOK
      <3> QED BY <2>4, <3>1
    <2>7. CASE window[s] = w /\ to = "refused"
      <3>1. Passed(w)' = Passed(w)
        BY <2>1, <2>7 DEF Passed, Of, IInv, TypeOK
      <3> QED BY <2>4, <3>1
    <2>8. CASE window[s] = w /\ to = "allowed"
      <3>1. count <= Rate
        BY <2>8 DEF Verdict, WithinRate
      <3>2. Cardinality(Passed(w)) < count
        BY <1>1, <2>2, <2>5, <2>8
      <3>3. Passed(w)' = Passed(w) \union {s}
        BY <2>1, <2>8 DEF Passed, Of, IInv, TypeOK
      <3>4. /\ Cardinality(Passed(w)') <= Cardinality(Passed(w)) + 1
            /\ Cardinality(Passed(w)') \in Nat
        BY <1>1, <3>3, OneMore
      <3> HIDE DEF count
      <3> QED BY <1>1, <2>5, <3>1, <3>2, <3>4
    <2>9. CASE window[s] = w /\ to = "expire"
      <3>1. count = 1
        BY <2>9 DEF Verdict
      <3>2. Cardinality(Passed(w)) = 0
        BY <1>1, <2>2, <2>5, <2>9, <3>1
      <3>3. CASE Rate = 0
        <4>1. Passed(w)' = Passed(w)
          BY <2>1, <2>9, <3>3 DEF Passed, Of, IInv, TypeOK
        <4> QED BY <2>4, <4>1
      <3>4. CASE Rate # 0
        <4>1. Passed(w)' = Passed(w) \union {s}
          BY <2>1, <2>9, <3>4 DEF Passed, Of, IInv, TypeOK
        <4>2. /\ Cardinality(Passed(w)') <= Cardinality(Passed(w)) + 1
              /\ Cardinality(Passed(w)') \in Nat
          BY <1>1, <4>1, OneMore
        <4> QED BY <1>1, <3>2, <3>4, <4>2
      <3> QED BY <3>3, <3>4
    <2>10. to \in {"expire", "allowed", "refused"}
      BY DEF Verdict
    <2> QED BY <2>6, <2>7, <2>8, <2>9, <2>10
  <1>4. ASSUME NEW s \in Callers, Expire(s) PROVE Cardinality(Passed(w)') <= Rate
    <2>1. Passed(w)' = Passed(w)
      BY <1>4 DEF Expire, Verdict, WithinRate, Passed, Of, IInv, TypeOK
    <2> QED BY <1>2, <1>4, <2>1 DEF Expire
  <1>5. ASSUME NEW s \in Callers, ComputeKey(s) \/ IncrFails(s)
        PROVE  Cardinality(Passed(w)') <= Rate
    <2>1. Passed(w)' = Passed(w)
      BY <1>5 DEF ComputeKey, IncrFails, Passed, Of, IInv, TypeOK
    <2> QED BY <1>2, <1>5, <2>1 DEF ComputeKey, IncrFails
  <1>6. ASSUME NextWindow \/ UNCHANGED vars \/ \E v \in Number : KeyExpires(v)
        PROVE  Cardinality(Passed(w)') <= Rate
    BY <1>2, <1>6 DEF NextWindow, KeyExpires, vars, Passed, Of
  <1> QED BY <1>3, <1>4, <1>5, <1>6 DEF Next

\* Whoever is refused has seen a count above the rate, and as many callers are counted.
LEMMA RefusedNext == IInv /\ [Next]_vars => RefusedOnlyWhenUsedUp'
  <1> SUFFICES ASSUME IInv, [Next]_vars, NEW s \in Callers, pc'[s] = "refused"
               PROVE  Cardinality(Of(window[s], Counted)') > Rate
    BY DEF RefusedOnlyWhenUsedUp, Counted, Of
  <1> USE LimiterAssumption DEF LimiterAssumption, Number, Goto
  <1>1. Of(window[s], Counted)' \subseteq Callers
    BY DEF Of
  <1>2. /\ IsFiniteSet(Of(window[s], Counted)')
        /\ Cardinality(Of(window[s], Counted)') \in Nat
    BY <1>1, FS_Subset, FS_CardinalityType
  <1>3. CASE pc[s] = "refused"
    <2>1. window'[s] = window[s]
      BY <1>3 DEF IInv, TypeOK, Next, ComputeKey, Incr, IncrFails, Expire, NextWindow, KeyExpires, vars
    <2>2. Of(window[s], Counted) \subseteq Of(window[s], Counted)'
      <3> SUFFICES ASSUME NEW x \in Of(window[s], Counted) PROVE x \in Of(window[s], Counted)'
        OBVIOUS
      <3>1. x \in Callers /\ window[x] = window[s] /\ pc[x] \in Counted
        BY DEF Of
      <3>2. window'[x] = window[x] /\ pc'[x] \in Counted
        BY <3>1 DEF IInv, TypeOK, Next, ComputeKey, Incr, IncrFails, Expire, Verdict, NextWindow,
                    KeyExpires, vars, Counted
      <3> QED BY <2>1, <3>1, <3>2 DEF Of
    <2>3. Cardinality(Of(window[s], Counted)) > Rate
      BY <1>3 DEF IInv, RefusedOnlyWhenUsedUp, Counted
    <2>4. Cardinality(Of(window[s], Counted)) <= Cardinality(Of(window[s], Counted)')
      BY <1>2, <2>2, NoFewer
    <2>5. Cardinality(Of(window[s], Counted)) \in Nat
      BY OfFinite
    <2> QED BY <1>2, <2>3, <2>4, <2>5
  <1>4. CASE pc[s] # "refused"
    <2>1. Incr(s) \/ Expire(s)
      BY <1>4 DEF IInv, TypeOK, Next, ComputeKey, Incr, IncrFails, Expire, NextWindow, KeyExpires, vars
    <2>2. CASE Incr(s)
      <3>1. window[s] \in Number /\ window' = window /\ counter[window[s]] \in Nat
        BY <2>2 DEF Incr, IInv, TypeOK, WindowInv
      <3>2. /\ counter[window[s]] + 1 > Rate
            /\ counter'[window[s]] = counter[window[s]] + 1
        BY <2>2, <3>1 DEF Incr, Verdict, WithinRate, IInv, TypeOK
      <3>3. counter'[window[s]] <= Cardinality(Of(window[s], Counted)')
        BY <3>1, CountNext DEF CountInv
      <3> QED BY <1>2, <3>1, <3>2, <3>3
    <2>3. CASE Expire(s)
      <3>1. Rate = 0
        BY <2>3 DEF Expire, Verdict, WithinRate, IInv, TypeOK
      <3>2. {s} \subseteq Of(window[s], Counted)'
        BY DEF Of, Counted
      <3>3. Cardinality({s}) = 1 /\ Cardinality({s}) <= Cardinality(Of(window[s], Counted)')
        BY <1>2, <3>2, NoFewer, FS_Singleton
      <3> QED BY <1>2, <3>1, <3>3
    <2> QED BY <2>1, <2>2, <2>3
  <1> QED BY <1>3, <1>4

-----------------------------------------------------------------------------

LEMMA Invariance == Spec => []IInv
  <1>1. IInv /\ [Next]_vars => IInv'
    BY TypeNext, CountNext, RateNext, RefusedNext DEF IInv
  <1> QED BY InitIInv, <1>1, PTL DEF Spec

\* Type correctness, for every rate.
THEOREM TypeCorrect == Spec => []TypeOK
  <1>1. IInv => TypeOK
    BY DEF IInv
  <1> QED BY Invariance, <1>1, PTL

\* No window lets through more than Rate, for every rate and any number of callers.
THEOREM RateHolds == Spec => []RatePerWindow
  <1>1. IInv => RatePerWindow
    BY DEF IInv
  <1> QED BY Invariance, <1>1, PTL

\* Nobody is refused without reason.
THEOREM RefusalsJustified == Spec => []RefusedOnlyWhenUsedUp
  <1>1. IInv => RefusedOnlyWhenUsedUp
    BY DEF IInv
  <1> QED BY Invariance, <1>1, PTL
=============================================================================
