--------------------------- MODULE OtpServiceProofs ---------------------------
(***************************************************************************)
(* Proofs about OtpService, for any requests, number of attempts allowed   *)
(* and number of crashes: type correctness, which code is stored, that a   *)
(* code is accepted once, that a mailed one stays usable, and the counters.*)
(***************************************************************************)
EXTENDS OtpService, FiniteSetTheorems, TLAPS

\* A verification past its read holds what it has read.
CopyInv == \A v \in Verifies : vpc[v] \in UnderWay \union Accepting => copy[v] \in Otps

\* A code nobody has asked for yet is not stored, and nobody has read it.
DrawnInv ==
    \A c \in Sends : mpc[c] = "idle" =>
        /\ c \notin Standing
        /\ \A v \in Verifies : copy[v] # NoCode => copy[v].code # c

\* A code that was accepted, and whose delete is over, is in Redis no more.
GoneInv ==
    \A v \in Verifies :
        vpc[v] \in Accepting \ {"delete"} /\ copy[v].code \in Standing => copy[v].code \in excused

\* AcceptedOnceUnlessExcused, without counting.
OnceInv ==
    \A v, w \in Verifies :
        (/\ v # w /\ vpc[v] \in Accepting /\ vpc[w] \in Accepting
         /\ copy[v].code = copy[w].code) => copy[v].code \in excused

IInv == TypeOK /\ CopyInv /\ StoredIsLatest /\ DrawnInv /\ GoneInv /\ OnceInv

-----------------------------------------------------------------------------

\* What SendOTP stores is an OTP, and not the mark of its absence.
LEMMA OtpsFacts ==
    /\ NoCode \notin Otps
    /\ \A s \in Sends : Fresh(s) \in Otps /\ Fresh(s).code = s
  <1>1. MaxAttempts \in Nat /\ 0 \in 0 .. MaxAttempts
    BY OtpAssumption DEF OtpAssumption
  <1>2. Otps \subseteq [code : Sends, attempts : Nat]
    BY <1>1 DEF Otps
  <1>3. NoCode \notin Otps
    BY <1>2, OtpAssumption DEF OtpAssumption
  <1>4. ASSUME NEW s \in Sends
        PROVE  Fresh(s) \in Otps /\ Fresh(s).code = s
    BY <1>1 DEF Fresh, Otps
  <1> QED BY <1>3, <1>4

\* A published event raises two of the three counters.
LEMMA Counting ==
    ASSUME metrics \in [total : Nat, otp : Nat, failed : Nat]
    PROVE  CountPublished \in [total : Nat, otp : Nat, failed : Nat]
  <1> DEFINE T == [total : Nat, otp : Nat, failed : Nat]
             once == [metrics EXCEPT !.total = @ + 1]
  <1>1. once \in T /\ once.otp = metrics.otp
    OBVIOUS
  <1>2. [once EXCEPT !.otp = @ + 1] \in T
    <2> HIDE DEF once
    <2> QED BY <1>1
  <1>3. CountPublished = [once EXCEPT !.otp = @ + 1]
    BY <1>1 DEF CountPublished
  <1> QED BY <1>2, <1>3

LEMMA InitIInv == Init => IInv
  <1> SUFFICES ASSUME Init PROVE IInv
    OBVIOUS
  <1>1. TypeOK
    BY DEF Init, TypeOK, Zero, UnderWay, Accepting
  <1>2. CopyInv
    BY DEF Init, CopyInv, UnderWay, Accepting
  <1>3. StoredIsLatest
    BY DEF Init, StoredIsLatest, Standing
  <1>4. DrawnInv /\ GoneInv /\ OnceInv
    BY DEF Init, DrawnInv, GoneInv, OnceInv, Standing, Accepting
  <1> QED BY <1>1, <1>2, <1>3, <1>4 DEF IInv

\* Every step keeps the types.
LEMMA TypeNext == TypeOK /\ CopyInv /\ [Next]_vars => TypeOK'
  <1> SUFFICES ASSUME TypeOK /\ CopyInv, [Next]_vars PROVE TypeOK'
    OBVIOUS
  <1>1. ASSUME NEW s \in Sends, Save(s) PROVE TypeOK'
    BY <1>1, OtpsFacts DEF Save, MailGoto, TypeOK, UnderWay, Accepting, verifying, CopyInv
  <1>2. ASSUME NEW s \in Sends, SaveFails(s) PROVE TypeOK'
    BY <1>2, OtpsFacts DEF SaveFails, MailGoto, TypeOK, UnderWay, Accepting, verifying, CopyInv
  <1>3. ASSUME NEW s \in Sends, Mailed(s) PROVE TypeOK'
    BY <1>3, OtpsFacts DEF Mailed, MailGoto, TypeOK, UnderWay, Accepting, verifying, CopyInv
  <1>4. ASSUME NEW s \in Sends, Fails(s) PROVE TypeOK'
    BY <1>4, OtpsFacts DEF Fails, MailGoto, TypeOK, UnderWay, Accepting, verifying, CopyInv
  <1>5. ASSUME NEW v \in Verifies, NotFound(v) PROVE TypeOK'
    BY <1>5, OtpsFacts DEF NotFound, Goto, TypeOK, UnderWay, Accepting, verifying, CopyInv
  <1>6. ASSUME NEW v \in Verifies, NEW guess \in Sends \union {WrongCode}, Read(v, guess) PROVE TypeOK'
    BY <1>6 DEF Read, Goto, TypeOK, UnderWay, Accepting, verifying, Standing, Verify
  <1>7. ASSUME NEW v \in Verifies, Resave(v) PROVE TypeOK'
    BY <1>7, OtpsFacts DEF Resave, Goto, TypeOK, UnderWay, Accepting, verifying, CopyInv
  <1>8. ASSUME NEW v \in Verifies, Set(v) PROVE TypeOK'
    <2>1. copy[v] \in Otps /\ copy[v].code \in Sends
      BY <1>8 DEF Set, Goto, UnderWay, CopyInv, Otps
    <2>2. stored' \in Otps \union {NoCode} /\ vpc' \in [Verifies -> Accepting \union UnderWay \union {"idle", "invalid", "dead"}]
      BY <1>8, <2>1 DEF Set, Goto, TypeOK, Resaved
    <2>3. excused' \subseteq Sends
      BY <1>8, <2>1 DEF Set, TypeOK, Standing
    <2> QED BY <1>8, <2>2, <2>3 DEF Set, TypeOK
  <1>9. ASSUME NEW v \in Verifies, Delete(v) PROVE TypeOK'
    <2>1. copy[v] \in Otps /\ copy[v].code \in Sends
      BY <1>9 DEF Delete, Goto, UnderWay, CopyInv, Otps
    <2> QED BY <1>9, <2>1 DEF Delete, Goto, TypeOK, UnderWay, Accepting, Standing
  <1>10. ASSUME NEW v \in Verifies, Publish(v) PROVE TypeOK'
    <2>1. metrics' \in [total : Nat, otp : Nat, failed : Nat]
      BY <1>10, Counting DEF Publish, TypeOK
    <2>2. topic' \subseteq Verifies
      BY <1>10 DEF Publish, TypeOK
    <2> QED BY <1>10, <2>1, <2>2 DEF Publish, Goto, TypeOK, UnderWay, Accepting
  <1>11. ASSUME NEW v \in Verifies, PublishFails(v) PROVE TypeOK'
    <2>1. metrics' \in [total : Nat, otp : Nat, failed : Nat]
      BY <1>11 DEF PublishFails, TypeOK, CountFailed
    <2>2. topic' \subseteq Verifies
      BY <1>11 DEF PublishFails, TypeOK
    <2> QED BY <1>11, <2>1, <2>2 DEF PublishFails, Goto, TypeOK, UnderWay, Accepting
  <1>12. ASSUME NEW v \in Verifies, PublishInvalid(v) PROVE TypeOK'
    BY <1>12, OtpsFacts DEF PublishInvalid, Goto, TypeOK, UnderWay, Accepting, verifying, CopyInv
  <1>13. ASSUME NEW c \in Sends, Lapse(c) PROVE TypeOK'
    BY <1>13, OtpsFacts DEF Lapse, TypeOK, UnderWay, Accepting, verifying, CopyInv
  <1>14. ASSUME Expire PROVE TypeOK'
    BY <1>14, OtpsFacts DEF Expire, TypeOK, UnderWay, Accepting, verifying, CopyInv
  <1>15. ASSUME Crash PROVE TypeOK'
    <2>1. excused' \subseteq Sends
      BY <1>15 DEF Crash, TypeOK, CopyInv, UnderWay, Otps
    <2>2. /\ mpc' \in [Sends -> {"idle", "mail", "sent", "failed", "dead"}]
          /\ vpc' \in [Verifies -> Accepting \union UnderWay \union {"idle", "invalid", "dead"}]
      BY <1>15 DEF Crash, TypeOK, UnderWay, Accepting
    <2>3. crashes' \in Nat /\ metrics' \in [total : Nat, otp : Nat, failed : Nat]
      BY <1>15 DEF Crash, TypeOK, Zero
    <2> QED BY <1>15, <2>1, <2>2, <2>3 DEF Crash, TypeOK
  <1>16. ASSUME UNCHANGED vars PROVE TypeOK'
    BY <1>16, OtpsFacts DEF vars, verifying, TypeOK, UnderWay, Accepting, verifying, CopyInv
  <1> QED BY <1>1, <1>2, <1>3, <1>4, <1>5, <1>6, <1>7, <1>8, <1>9, <1>10, <1>11, <1>12, <1>13, <1>14, <1>15, <1>16 DEF Next, SendOTP, VerifyOTP

\* A verification is under way only with what it has read.
LEMMA CopyNext == TypeOK /\ CopyInv /\ [Next]_vars => CopyInv'
  <1> SUFFICES ASSUME TypeOK /\ CopyInv, [Next]_vars PROVE CopyInv'
    OBVIOUS
  <1>1. ASSUME NEW s \in Sends, Save(s) PROVE CopyInv'
    BY <1>1, OtpsFacts DEF Save, MailGoto, TypeOK, UnderWay, Accepting, verifying, CopyInv
  <1>2. ASSUME NEW s \in Sends, SaveFails(s) PROVE CopyInv'
    BY <1>2, OtpsFacts DEF SaveFails, MailGoto, TypeOK, UnderWay, Accepting, verifying, CopyInv
  <1>3. ASSUME NEW s \in Sends, Mailed(s) PROVE CopyInv'
    BY <1>3, OtpsFacts DEF Mailed, MailGoto, TypeOK, UnderWay, Accepting, verifying, CopyInv
  <1>4. ASSUME NEW s \in Sends, Fails(s) PROVE CopyInv'
    BY <1>4, OtpsFacts DEF Fails, MailGoto, TypeOK, UnderWay, Accepting, verifying, CopyInv
  <1>5. ASSUME NEW v \in Verifies, NotFound(v) PROVE CopyInv'
    BY <1>5, OtpsFacts DEF NotFound, Goto, TypeOK, UnderWay, Accepting, verifying, CopyInv
  <1>6. ASSUME NEW v \in Verifies, NEW guess \in Sends \union {WrongCode}, Read(v, guess) PROVE CopyInv'
    BY <1>6, OtpsFacts DEF Read, Goto, TypeOK, UnderWay, Accepting, verifying, CopyInv
  <1>7. ASSUME NEW v \in Verifies, Resave(v) PROVE CopyInv'
    BY <1>7, OtpsFacts DEF Resave, Goto, TypeOK, UnderWay, Accepting, verifying, CopyInv
  <1>8. ASSUME NEW v \in Verifies, Set(v) PROVE CopyInv'
    BY <1>8, OtpsFacts DEF Set, Goto, TypeOK, UnderWay, Accepting, verifying, CopyInv
  <1>9. ASSUME NEW v \in Verifies, Delete(v) PROVE CopyInv'
    BY <1>9, OtpsFacts DEF Delete, Goto, TypeOK, UnderWay, Accepting, verifying, CopyInv
  <1>10. ASSUME NEW v \in Verifies, Publish(v) PROVE CopyInv'
    BY <1>10, OtpsFacts DEF Publish, Goto, TypeOK, UnderWay, Accepting, verifying, CopyInv
  <1>11. ASSUME NEW v \in Verifies, PublishFails(v) PROVE CopyInv'
    BY <1>11, OtpsFacts DEF PublishFails, Goto, TypeOK, UnderWay, Accepting, verifying, CopyInv
  <1>12. ASSUME NEW v \in Verifies, PublishInvalid(v) PROVE CopyInv'
    BY <1>12, OtpsFacts DEF PublishInvalid, Goto, TypeOK, UnderWay, Accepting, verifying, CopyInv
  <1>13. ASSUME NEW c \in Sends, Lapse(c) PROVE CopyInv'
    BY <1>13, OtpsFacts DEF Lapse, TypeOK, UnderWay, Accepting, verifying, CopyInv
  <1>14. ASSUME Expire PROVE CopyInv'
    BY <1>14, OtpsFacts DEF Expire, TypeOK, UnderWay, Accepting, verifying, CopyInv
  <1>15. ASSUME Crash PROVE CopyInv'
    BY <1>15, OtpsFacts DEF Crash, TypeOK, UnderWay, Accepting, verifying, CopyInv
  <1>16. ASSUME UNCHANGED vars PROVE CopyInv'
    BY <1>16, OtpsFacts DEF vars, verifying, TypeOK, UnderWay, Accepting, verifying, CopyInv
  <1> QED BY <1>1, <1>2, <1>3, <1>4, <1>5, <1>6, <1>7, <1>8, <1>9, <1>10, <1>11, <1>12, <1>13, <1>14, <1>15, <1>16 DEF Next, SendOTP, VerifyOTP

\* An older code comes back excused only.
LEMMA LatestNext == TypeOK /\ CopyInv /\ StoredIsLatest /\ [Next]_vars => StoredIsLatest'
  <1> SUFFICES ASSUME TypeOK /\ CopyInv /\ StoredIsLatest, [Next]_vars PROVE StoredIsLatest'
    OBVIOUS
  <1>1. ASSUME NEW s \in Sends, Save(s) PROVE StoredIsLatest'
    BY <1>1, OtpsFacts DEF Save, MailGoto, TypeOK, UnderWay, verifying, CopyInv, StoredIsLatest, Standing, Resaved
  <1>2. ASSUME NEW s \in Sends, SaveFails(s) PROVE StoredIsLatest'
    BY <1>2, OtpsFacts DEF SaveFails, MailGoto, TypeOK, UnderWay, verifying, CopyInv, StoredIsLatest, Standing, Resaved
  <1>3. ASSUME NEW s \in Sends, Mailed(s) PROVE StoredIsLatest'
    BY <1>3, OtpsFacts DEF Mailed, MailGoto, TypeOK, UnderWay, verifying, CopyInv, StoredIsLatest, Standing, Resaved
  <1>4. ASSUME NEW s \in Sends, Fails(s) PROVE StoredIsLatest'
    BY <1>4, OtpsFacts DEF Fails, MailGoto, TypeOK, UnderWay, verifying, CopyInv, StoredIsLatest, Standing, Resaved
  <1>5. ASSUME NEW v \in Verifies, NotFound(v) PROVE StoredIsLatest'
    BY <1>5, OtpsFacts DEF NotFound, Goto, TypeOK, UnderWay, verifying, CopyInv, StoredIsLatest, Standing, Resaved
  <1>6. ASSUME NEW v \in Verifies, NEW guess \in Sends \union {WrongCode}, Read(v, guess) PROVE StoredIsLatest'
    BY <1>6, OtpsFacts DEF Read, Goto, TypeOK, UnderWay, verifying, CopyInv, StoredIsLatest, Standing, Resaved
  <1>7. ASSUME NEW v \in Verifies, Resave(v) PROVE StoredIsLatest'
    BY <1>7, OtpsFacts DEF Resave, Goto, TypeOK, UnderWay, verifying, CopyInv, StoredIsLatest, Standing, Resaved
  <1>8. ASSUME NEW v \in Verifies, Set(v) PROVE StoredIsLatest'
    BY <1>8, OtpsFacts DEF Set, Goto, TypeOK, UnderWay, verifying, CopyInv, StoredIsLatest, Standing, Resaved
  <1>9. ASSUME NEW v \in Verifies, Delete(v) PROVE StoredIsLatest'
    BY <1>9, OtpsFacts DEF Delete, Goto, TypeOK, UnderWay, verifying, CopyInv, StoredIsLatest, Standing, Resaved
  <1>10. ASSUME NEW v \in Verifies, Publish(v) PROVE StoredIsLatest'
    BY <1>10, OtpsFacts DEF Publish, Goto, TypeOK, UnderWay, verifying, CopyInv, StoredIsLatest, Standing, Resaved
  <1>11. ASSUME NEW v \in Verifies, PublishFails(v) PROVE StoredIsLatest'
    BY <1>11, OtpsFacts DEF PublishFails, Goto, TypeOK, UnderWay, verifying, CopyInv, StoredIsLatest, Standing, Resaved
  <1>12. ASSUME NEW v \in Verifies, PublishInvalid(v) PROVE StoredIsLatest'
    BY <1>12, OtpsFacts DEF PublishInvalid, Goto, TypeOK, UnderWay, verifying, CopyInv, StoredIsLatest, Standing, Resaved
  <1>13. ASSUME NEW c \in Sends, Lapse(c) PROVE StoredIsLatest'
    BY <1>13, OtpsFacts DEF Lapse, TypeOK, UnderWay, verifying, CopyInv, StoredIsLatest, Standing, Resaved
  <1>14. ASSUME Expire PROVE StoredIsLatest'
    BY <1>14, OtpsFacts DEF Expire, TypeOK, UnderWay, verifying, CopyInv, StoredIsLatest, Standing, Resaved
  <1>15. ASSUME Crash PROVE StoredIsLatest'
    BY <1>15, OtpsFacts DEF Crash, TypeOK, UnderWay, verifying, CopyInv, StoredIsLatest, Standing, Resaved
  <1>16. ASSUME UNCHANGED vars PROVE StoredIsLatest'
    BY <1>16, OtpsFacts DEF vars, verifying, TypeOK, UnderWay, verifying, CopyInv, StoredIsLatest, Standing, Resaved
  <1> QED BY <1>1, <1>2, <1>3, <1>4, <1>5, <1>6, <1>7, <1>8, <1>9, <1>10, <1>11, <1>12, <1>13, <1>14, <1>15, <1>16 DEF Next, SendOTP, VerifyOTP

\* A code is stored and read only when it has been asked for.
LEMMA DrawnNext == TypeOK /\ CopyInv /\ DrawnInv /\ [Next]_vars => DrawnInv'
  <1> SUFFICES ASSUME TypeOK /\ CopyInv /\ DrawnInv, [Next]_vars PROVE DrawnInv'
    OBVIOUS
  <1>1. ASSUME NEW s \in Sends, Save(s) PROVE DrawnInv'
    BY <1>1, OtpsFacts DEF Save, MailGoto, TypeOK, UnderWay, Accepting, verifying, CopyInv, Standing, Resaved, DrawnInv
  <1>2. ASSUME NEW s \in Sends, SaveFails(s) PROVE DrawnInv'
    BY <1>2, OtpsFacts DEF SaveFails, MailGoto, TypeOK, UnderWay, Accepting, verifying, CopyInv, Standing, Resaved, DrawnInv
  <1>3. ASSUME NEW s \in Sends, Mailed(s) PROVE DrawnInv'
    BY <1>3, OtpsFacts DEF Mailed, MailGoto, TypeOK, UnderWay, Accepting, verifying, CopyInv, Standing, Resaved, DrawnInv
  <1>4. ASSUME NEW s \in Sends, Fails(s) PROVE DrawnInv'
    BY <1>4, OtpsFacts DEF Fails, MailGoto, TypeOK, UnderWay, Accepting, verifying, CopyInv, Standing, Resaved, DrawnInv
  <1>5. ASSUME NEW v \in Verifies, NotFound(v) PROVE DrawnInv'
    BY <1>5, OtpsFacts DEF NotFound, Goto, TypeOK, UnderWay, Accepting, verifying, CopyInv, Standing, Resaved, DrawnInv
  <1>6. ASSUME NEW v \in Verifies, NEW guess \in Sends \union {WrongCode}, Read(v, guess) PROVE DrawnInv'
    BY <1>6, OtpsFacts DEF Read, Goto, TypeOK, UnderWay, Accepting, verifying, CopyInv, Standing, Resaved, DrawnInv
  <1>7. ASSUME NEW v \in Verifies, Resave(v) PROVE DrawnInv'
    BY <1>7, OtpsFacts DEF Resave, Goto, TypeOK, UnderWay, Accepting, verifying, CopyInv, Standing, Resaved, DrawnInv
  <1>8. ASSUME NEW v \in Verifies, Set(v) PROVE DrawnInv'
    BY <1>8, OtpsFacts DEF Set, Goto, TypeOK, UnderWay, Accepting, verifying, CopyInv, Standing, Resaved, DrawnInv
  <1>9. ASSUME NEW v \in Verifies, Delete(v) PROVE DrawnInv'
    BY <1>9, OtpsFacts DEF Delete, Goto, TypeOK, UnderWay, Accepting, verifying, CopyInv, Standing, Resaved, DrawnInv
  <1>10. ASSUME NEW v \in Verifies, Publish(v) PROVE DrawnInv'
    BY <1>10, OtpsFacts DEF Publish, Goto, TypeOK, UnderWay, Accepting, verifying, CopyInv, Standing, Resaved, DrawnInv
  <1>11. ASSUME NEW v \in Verifies, PublishFails(v) PROVE DrawnInv'
    BY <1>11, OtpsFacts DEF PublishFails, Goto, TypeOK, UnderWay, Accepting, verifying, CopyInv, Standing, Resaved, DrawnInv
  <1>12. ASSUME NEW v \in Verifies, PublishInvalid(v) PROVE DrawnInv'
    BY <1>12, OtpsFacts DEF PublishInvalid, Goto, TypeOK, UnderWay, Accepting, verifying, CopyInv, Standing, Resaved, DrawnInv
  <1>13. ASSUME NEW c \in Sends, Lapse(c) PROVE DrawnInv'
    BY <1>13, OtpsFacts DEF Lapse, TypeOK, UnderWay, Accepting, verifying, CopyInv, Standing, Resaved, DrawnInv
  <1>14. ASSUME Expire PROVE DrawnInv'
    BY <1>14, OtpsFacts DEF Expire, TypeOK, UnderWay, Accepting, verifying, CopyInv, Standing, Resaved, DrawnInv
  <1>15. ASSUME Crash PROVE DrawnInv'
    BY <1>15, OtpsFacts DEF Crash, TypeOK, UnderWay, Accepting, verifying, CopyInv, Standing, Resaved, DrawnInv
  <1>16. ASSUME UNCHANGED vars PROVE DrawnInv'
    BY <1>16, OtpsFacts DEF vars, verifying, TypeOK, UnderWay, Accepting, verifying, CopyInv, Standing, Resaved, DrawnInv
  <1> QED BY <1>1, <1>2, <1>3, <1>4, <1>5, <1>6, <1>7, <1>8, <1>9, <1>10, <1>11, <1>12, <1>13, <1>14, <1>15, <1>16 DEF Next, SendOTP, VerifyOTP

\* What brings an accepted code back excuses it.
LEMMA GoneNext == TypeOK /\ CopyInv /\ DrawnInv /\ GoneInv /\ [Next]_vars => GoneInv'
  <1> SUFFICES ASSUME TypeOK /\ CopyInv /\ DrawnInv /\ GoneInv, [Next]_vars PROVE GoneInv'
    OBVIOUS
  <1>1. ASSUME NEW s \in Sends, Save(s) PROVE GoneInv'
    BY <1>1, OtpsFacts DEF Save, MailGoto, TypeOK, UnderWay, Accepting, verifying, CopyInv, Standing, Resaved, DrawnInv, GoneInv
  <1>2. ASSUME NEW s \in Sends, SaveFails(s) PROVE GoneInv'
    BY <1>2, OtpsFacts DEF SaveFails, MailGoto, TypeOK, UnderWay, Accepting, verifying, CopyInv, Standing, Resaved, DrawnInv, GoneInv
  <1>3. ASSUME NEW s \in Sends, Mailed(s) PROVE GoneInv'
    BY <1>3, OtpsFacts DEF Mailed, MailGoto, TypeOK, UnderWay, Accepting, verifying, CopyInv, Standing, Resaved, DrawnInv, GoneInv
  <1>4. ASSUME NEW s \in Sends, Fails(s) PROVE GoneInv'
    BY <1>4, OtpsFacts DEF Fails, MailGoto, TypeOK, UnderWay, Accepting, verifying, CopyInv, Standing, Resaved, DrawnInv, GoneInv
  <1>5. ASSUME NEW v \in Verifies, NotFound(v) PROVE GoneInv'
    BY <1>5, OtpsFacts DEF NotFound, Goto, TypeOK, UnderWay, Accepting, verifying, CopyInv, Standing, Resaved, DrawnInv, GoneInv
  <1>6. ASSUME NEW v \in Verifies, NEW guess \in Sends \union {WrongCode}, Read(v, guess) PROVE GoneInv'
    BY <1>6, OtpsFacts DEF Read, Goto, TypeOK, UnderWay, Accepting, verifying, CopyInv, Standing, Resaved, DrawnInv, GoneInv
  <1>7. ASSUME NEW v \in Verifies, Resave(v) PROVE GoneInv'
    BY <1>7, OtpsFacts DEF Resave, Goto, TypeOK, UnderWay, Accepting, verifying, CopyInv, Standing, Resaved, DrawnInv, GoneInv
  <1>8. ASSUME NEW v \in Verifies, Set(v) PROVE GoneInv'
    BY <1>8, OtpsFacts DEF Set, Goto, TypeOK, UnderWay, Accepting, verifying, CopyInv, Standing, Resaved, DrawnInv, GoneInv
  <1>9. ASSUME NEW v \in Verifies, Delete(v) PROVE GoneInv'
    BY <1>9, OtpsFacts DEF Delete, Goto, TypeOK, UnderWay, Accepting, verifying, CopyInv, Standing, Resaved, DrawnInv, GoneInv
  <1>10. ASSUME NEW v \in Verifies, Publish(v) PROVE GoneInv'
    BY <1>10, OtpsFacts DEF Publish, Goto, TypeOK, UnderWay, Accepting, verifying, CopyInv, Standing, Resaved, DrawnInv, GoneInv
  <1>11. ASSUME NEW v \in Verifies, PublishFails(v) PROVE GoneInv'
    BY <1>11, OtpsFacts DEF PublishFails, Goto, TypeOK, UnderWay, Accepting, verifying, CopyInv, Standing, Resaved, DrawnInv, GoneInv
  <1>12. ASSUME NEW v \in Verifies, PublishInvalid(v) PROVE GoneInv'
    BY <1>12, OtpsFacts DEF PublishInvalid, Goto, TypeOK, UnderWay, Accepting, verifying, CopyInv, Standing, Resaved, DrawnInv, GoneInv
  <1>13. ASSUME NEW c \in Sends, Lapse(c) PROVE GoneInv'
    BY <1>13, OtpsFacts DEF Lapse, TypeOK, UnderWay, Accepting, verifying, CopyInv, Standing, Resaved, DrawnInv, GoneInv
  <1>14. ASSUME Expire PROVE GoneInv'
    BY <1>14, OtpsFacts DEF Expire, TypeOK, UnderWay, Accepting, verifying, CopyInv, Standing, Resaved, DrawnInv, GoneInv
  <1>15. ASSUME Crash PROVE GoneInv'
    BY <1>15, OtpsFacts DEF Crash, TypeOK, UnderWay, Accepting, verifying, CopyInv, Standing, Resaved, DrawnInv, GoneInv
  <1>16. ASSUME UNCHANGED vars PROVE GoneInv'
    BY <1>16, OtpsFacts DEF vars, verifying, TypeOK, UnderWay, Accepting, verifying, CopyInv, Standing, Resaved, DrawnInv, GoneInv
  <1> QED BY <1>1, <1>2, <1>3, <1>4, <1>5, <1>6, <1>7, <1>8, <1>9, <1>10, <1>11, <1>12, <1>13, <1>14, <1>15, <1>16 DEF Next, SendOTP, VerifyOTP

\* A second verification that accepts a code excuses it.
LEMMA OnceNext == TypeOK /\ CopyInv /\ GoneInv /\ OnceInv /\ [Next]_vars => OnceInv'
  <1> SUFFICES ASSUME TypeOK /\ CopyInv /\ GoneInv /\ OnceInv, [Next]_vars PROVE OnceInv'
    OBVIOUS
  <1>1. ASSUME NEW s \in Sends, Save(s) PROVE OnceInv'
    BY <1>1, OtpsFacts DEF Save, MailGoto, TypeOK, UnderWay, Accepting, verifying, CopyInv, Standing, Resaved, GoneInv, OnceInv, Verify
  <1>2. ASSUME NEW s \in Sends, SaveFails(s) PROVE OnceInv'
    BY <1>2, OtpsFacts DEF SaveFails, MailGoto, TypeOK, UnderWay, Accepting, verifying, CopyInv, Standing, Resaved, GoneInv, OnceInv, Verify
  <1>3. ASSUME NEW s \in Sends, Mailed(s) PROVE OnceInv'
    BY <1>3, OtpsFacts DEF Mailed, MailGoto, TypeOK, UnderWay, Accepting, verifying, CopyInv, Standing, Resaved, GoneInv, OnceInv, Verify
  <1>4. ASSUME NEW s \in Sends, Fails(s) PROVE OnceInv'
    BY <1>4, OtpsFacts DEF Fails, MailGoto, TypeOK, UnderWay, Accepting, verifying, CopyInv, Standing, Resaved, GoneInv, OnceInv, Verify
  <1>5. ASSUME NEW v \in Verifies, NotFound(v) PROVE OnceInv'
    BY <1>5, OtpsFacts DEF NotFound, Goto, TypeOK, UnderWay, Accepting, verifying, CopyInv, Standing, Resaved, GoneInv, OnceInv, Verify
  <1>6. ASSUME NEW v \in Verifies, NEW guess \in Sends \union {WrongCode}, Read(v, guess) PROVE OnceInv'
    <2>1. \A x \in Verifies \ {v} :
              (vpc[x] \in Accepting /\ stored.code = copy[x].code) => copy[x].code \in excused'
      <3> SUFFICES ASSUME NEW x \in Verifies \ {v},
                          vpc[x] \in Accepting, stored.code = copy[x].code
                   PROVE  copy[x].code \in excused'
        OBVIOUS
      <3>1. copy[x].code \in Standing
        <4>1. copy[x] \in Otps
          BY DEF CopyInv
        <4> QED BY <1>6, <4>1 DEF Read, Standing, Otps
      <3>2. CASE vpc[x] = "delete"
        BY <1>6, <3>1, <3>2 DEF Read
      <3>3. CASE vpc[x] # "delete"
        BY <1>6, <3>1, <3>3 DEF Read, GoneInv, Accepting
      <3> QED BY <3>2, <3>3
    <2>2. /\ copy'[v] = stored
          /\ \A x \in Verifies \ {v} : copy'[x] = copy[x] /\ vpc'[x] = vpc[x]
          /\ excused \subseteq excused'
      BY <1>6 DEF Read, Goto, TypeOK
    <2> QED BY <2>1, <2>2 DEF OnceInv
  <1>7. ASSUME NEW v \in Verifies, Resave(v) PROVE OnceInv'
    BY <1>7, OtpsFacts DEF Resave, Goto, TypeOK, UnderWay, Accepting, verifying, CopyInv, Standing, Resaved, GoneInv, OnceInv, Verify
  <1>8. ASSUME NEW v \in Verifies, Set(v) PROVE OnceInv'
    BY <1>8, OtpsFacts DEF Set, Goto, TypeOK, UnderWay, Accepting, verifying, CopyInv, Standing, Resaved, GoneInv, OnceInv, Verify
  <1>9. ASSUME NEW v \in Verifies, Delete(v) PROVE OnceInv'
    BY <1>9, OtpsFacts DEF Delete, Goto, TypeOK, UnderWay, Accepting, verifying, CopyInv, Standing, Resaved, GoneInv, OnceInv, Verify
  <1>10. ASSUME NEW v \in Verifies, Publish(v) PROVE OnceInv'
    BY <1>10, OtpsFacts DEF Publish, Goto, TypeOK, UnderWay, Accepting, verifying, CopyInv, Standing, Resaved, GoneInv, OnceInv, Verify
  <1>11. ASSUME NEW v \in Verifies, PublishFails(v) PROVE OnceInv'
    BY <1>11, OtpsFacts DEF PublishFails, Goto, TypeOK, UnderWay, Accepting, verifying, CopyInv, Standing, Resaved, GoneInv, OnceInv, Verify
  <1>12. ASSUME NEW v \in Verifies, PublishInvalid(v) PROVE OnceInv'
    BY <1>12, OtpsFacts DEF PublishInvalid, Goto, TypeOK, UnderWay, Accepting, verifying, CopyInv, Standing, Resaved, GoneInv, OnceInv, Verify
  <1>13. ASSUME NEW c \in Sends, Lapse(c) PROVE OnceInv'
    BY <1>13, OtpsFacts DEF Lapse, TypeOK, UnderWay, Accepting, verifying, CopyInv, Standing, Resaved, GoneInv, OnceInv, Verify
  <1>14. ASSUME Expire PROVE OnceInv'
    BY <1>14, OtpsFacts DEF Expire, TypeOK, UnderWay, Accepting, verifying, CopyInv, Standing, Resaved, GoneInv, OnceInv, Verify
  <1>15. ASSUME Crash PROVE OnceInv'
    BY <1>15, OtpsFacts DEF Crash, TypeOK, UnderWay, Accepting, verifying, CopyInv, Standing, Resaved, GoneInv, OnceInv, Verify
  <1>16. ASSUME UNCHANGED vars PROVE OnceInv'
    BY <1>16, OtpsFacts DEF vars, verifying, TypeOK, UnderWay, Accepting, verifying, CopyInv, Standing, Resaved, GoneInv, OnceInv, Verify
  <1> QED BY <1>1, <1>2, <1>3, <1>4, <1>5, <1>6, <1>7, <1>8, <1>9, <1>10, <1>11, <1>12, <1>13, <1>14, <1>15, <1>16 DEF Next, SendOTP, VerifyOTP

-----------------------------------------------------------------------------

LEMMA Invariance == Spec => []IInv
  <1>1. IInv /\ [Next]_vars => IInv'
    BY TypeNext, CopyNext, LatestNext, DrawnNext, GoneNext, OnceNext DEF IInv
  <1> QED BY InitIInv, <1>1, PTL DEF Spec

\* Type correctness, for any requests and crashes.
THEOREM TypeCorrect == Spec => []TypeOK
  <1>1. IInv => TypeOK
    BY DEF IInv
  <1> QED BY Invariance, <1>1, PTL

\* A code that a newer one has replaced is in Redis again only if it is excused.
THEOREM LatestStored == Spec => []StoredIsLatest
  <1>1. IInv => StoredIsLatest
    BY DEF IInv
  <1> QED BY Invariance, <1>1, PTL

\* A code is accepted once, unless one of the causes named with it has excused it.
THEOREM AcceptedOnce == Spec => []AcceptedOnceUnlessExcused
  <1>1. IInv => AcceptedOnceUnlessExcused
    <2> SUFFICES ASSUME IInv, NEW c \in Sends \ excused
                 PROVE  Cardinality(Accepts(c)) <= 1
      BY DEF AcceptedOnceUnlessExcused
    <2>1. CASE Accepts(c) = {}
      BY <2>1, FS_EmptySet
    <2>2. CASE Accepts(c) # {}
      <3>1. PICK v \in Accepts(c) : TRUE
        BY <2>2
      <3>2. Accepts(c) = {v}
        <4>1. ASSUME NEW w \in Accepts(c) PROVE w = v
          BY <3>1, <4>1 DEF Accepts, IInv, OnceInv
        <4> QED BY <3>1, <4>1
      <3>3. Cardinality({v}) = 1
        BY FS_Singleton
      <3> QED BY <3>2, <3>3
    <2> QED BY <2>1, <2>2
  <1> QED BY Invariance, <1>1, PTL

-----------------------------------------------------------------------------
(***************************************************************************)
(* MailedCodeStaysUsable.                                                  *)
(***************************************************************************)

\* The verifications that have accepted a code and are past its delete.
Spends(c) == {v \in Verifies : vpc[v] \in Accepting \ {"delete"} /\ copy[v].code = c}

\* The code saved last is in Redis, mailed or not, as long as nobody has spent it.
UsableInv ==
    \A c \in Sends :
        (latest = c /\ c \notin lapsed \union excused /\ Spends(c) = {}) => Standing = {c}

LEMMA UsableNext == IInv /\ UsableInv /\ [Next]_vars => UsableInv'
  <1> SUFFICES ASSUME IInv, UsableInv, [Next]_vars,
                      NEW c \in Sends, latest' = c, c \notin lapsed' \union excused', Spends(c)' = {}
               PROVE  Standing' = {c}
    BY DEF UsableInv
  <1> USE DEF IInv
  <1>1. ASSUME NEW s \in Sends, Save(s) \/ SaveFails(s), latest' # latest \/ stored' # stored
        PROVE  Standing' = {c}
    <2>1. stored' = Fresh(s) /\ latest' = s
      BY <1>1 DEF Save, SaveFails
    <2> QED BY <2>1, OtpsFacts DEF Standing
  <1>2. CASE \A s \in Sends : ~((Save(s) \/ SaveFails(s)) /\ (latest' # latest \/ stored' # stored))
    <2>1. /\ latest' = latest /\ lapsed \subseteq lapsed' /\ excused \subseteq excused'
      BY <1>2 DEF Next, SendOTP, VerifyOTP, Save, SaveFails, Mailed, Fails, NotFound, Read, Resave, Set,
         Delete, Publish, PublishFails, PublishInvalid, Lapse, Expire, Crash, vars
    <2>2. \A v \in Verifies : v \in Spends(c) => v \in Spends(c)' \/ c \in excused'
      <3>1. CASE Crash
        BY <3>1 DEF Crash, Spends, Accepting, TypeOK, UnderWay
      <3>2. ASSUME NEW w \in Verifies, VerifyOTP(w)
            PROVE  \A v \in Verifies : v \in Spends(c) => v \in Spends(c)'
        BY <3>2 DEF VerifyOTP, NotFound, Read, Resave, Set, Delete, Publish, PublishFails,
           PublishInvalid, Goto, Spends, Accepting, TypeOK
      <3>3. CASE UNCHANGED <<vpc, copy>>
        BY <3>3 DEF Spends
      <3> QED
        BY <3>1, <3>2, <3>3 DEF Next, SendOTP, Save, SaveFails, Mailed, Fails, Lapse, Expire, vars, verifying
    <2>3. Standing = {c} /\ c \notin lapsed
      BY <2>1, <2>2 DEF UsableInv, Spends
    <2>4. ASSUME NEW v \in Verifies, Set(v), stored' # stored PROVE Standing' = {c}
      <3>1. stored' = copy[v] /\ copy[v] \in Otps
        BY <2>4, OtpsFacts DEF Set, Resaved, Goto, CopyInv, UnderWay
      <3>2. copy[v].code = c
        BY <2>3, <2>4 DEF Set, Goto
      <3> QED BY <3>1, <3>2, OtpsFacts DEF Standing
    <2>5. ASSUME NEW v \in Verifies, Delete(v), stored' # stored PROVE FALSE
      <3>1. copy[v].code = c
        BY <2>3, <2>5 DEF Delete
      <3>2. v \in Spends(c)'
        BY <2>5, <3>1 DEF Delete, Goto, Spends, Accepting, TypeOK
      <3> QED BY <3>2
    <2>6. ASSUME Expire PROVE FALSE
      BY <2>3, <2>6 DEF Expire
    <2>7. CASE stored' = stored
      BY <2>3, <2>7 DEF Standing
    <2> QED
      BY <1>2, <2>4, <2>5, <2>6, <2>7 DEF Next, SendOTP, VerifyOTP, Save, SaveFails, Mailed, Fails,
         NotFound, Read, Resave, Publish, PublishFails, PublishInvalid, Lapse, Crash, vars
  <1> QED BY <1>1, <1>2

\* While nobody accepts it and it has not lapsed, a mailed code verifies, but for the
\* exceptions that excuse it.
THEOREM MailedCodesStayUsable == Spec => []MailedCodeStaysUsable
  <1>1. Init => UsableInv
    BY OtpAssumption DEF Init, UsableInv, OtpAssumption
  <1>2. IInv /\ UsableInv => MailedCodeStaysUsable
    BY DEF UsableInv, MailedCodeStaysUsable, Spends, Accepts
  <1> QED BY <1>1, <1>2, UsableNext, Invariance, PTL DEF Spec

-----------------------------------------------------------------------------
(***************************************************************************)
(* PublishMetricsAgree.                                                    *)
(***************************************************************************)

Answered == {v \in Verifies : vpc[v] = "verified" /\ copy[v].code \notin Anonymous}

\* Only finitely many have been answered at any time, however many there may be.
MetricsInv == IsFiniteSet(Answered) /\ PublishMetricsAgree

LEMMA CountFacts ==
    ASSUME metrics \in [total : Nat, otp : Nat, failed : Nat]
    PROVE  /\ CountPublished.total = metrics.total + 1 /\ CountPublished.otp = metrics.otp + 1
           /\ CountPublished.failed = metrics.failed
           /\ CountFailed.total = metrics.total /\ CountFailed.otp = metrics.otp
           /\ CountFailed.failed = metrics.failed + 1
  <1> DEFINE once == [metrics EXCEPT !.total = @ + 1]
  <1>1. /\ once.total = metrics.total + 1 /\ once.otp = metrics.otp /\ once.failed = metrics.failed
        /\ once \in [total : Nat, otp : Nat, failed : Nat]
    OBVIOUS
  <1>2. CountPublished = [once EXCEPT !.otp = metrics.otp + 1]
    BY <1>1 DEF CountPublished
  <1> QED BY <1>1, <1>2 DEF CountFailed

LEMMA MetricsNext == IInv /\ MetricsInv /\ [Next]_vars => MetricsInv'
  <1> SUFFICES ASSUME IInv, MetricsInv, [Next]_vars PROVE MetricsInv'
    OBVIOUS
  <1> USE DEF IInv
  <1>0. /\ IsFiniteSet(Answered) /\ Cardinality(Answered) \in Nat
        /\ IsFiniteSet(Answered \intersect topic) /\ Cardinality(Answered \intersect topic) \in Nat
        /\ metrics.total + metrics.failed = Cardinality(Answered)
        /\ metrics.total <= Cardinality(Answered \intersect topic)
        /\ metrics.otp = metrics.total
        /\ metrics.total \in Nat /\ metrics.failed \in Nat
    <2>1. IsFiniteSet(Answered \intersect topic)
      BY FS_Subset DEF MetricsInv
    <2> QED BY <2>1, FS_CardinalityType DEF MetricsInv, PublishMetricsAgree, Answered, TypeOK
  <1>1. ASSUME NEW v \in Verifies, Publish(v) \/ PublishFails(v)
        PROVE  MetricsInv'
    <2>1. /\ vpc[v] = "publish" /\ vpc' = [vpc EXCEPT ![v] = "verified"]
          /\ copy[v].code \notin Anonymous /\ UNCHANGED copy
      BY <1>1 DEF Publish, PublishFails, Goto
    <2>2. Answered' = Answered \union {v} /\ v \notin Answered
      BY <2>1 DEF Answered, TypeOK
    <2>3. IsFiniteSet(Answered') /\ Cardinality(Answered') = Cardinality(Answered) + 1
      BY <1>0, <2>2, FS_AddElement
    <2>4. CASE Publish(v)
      <3> DEFINE A == Answered \intersect topic
      <3>1. (Answered \intersect topic)' = A \union {v} /\ v \notin A
        BY <2>2, <2>4 DEF Publish
      <3>2. Cardinality(A \union {v}) = Cardinality(A) + 1
        BY <1>0, <3>1, FS_AddElement
      <3>3. /\ metrics'.total = metrics.total + 1 /\ metrics'.otp = metrics.otp + 1
            /\ metrics'.failed = metrics.failed
        BY <2>4, CountFacts DEF Publish, TypeOK
      <3>4. Cardinality((Answered \intersect topic)') = Cardinality(A) + 1
        BY <3>1, <3>2
      <3>5. PublishMetricsAgree'
        BY <1>0, <2>3, <3>3, <3>4 DEF PublishMetricsAgree, Answered
      <3> QED BY <2>3, <3>5 DEF MetricsInv
    <2>5. CASE PublishFails(v)
      <3> DEFINE A == Answered \intersect topic
      <3>1. A \subseteq (Answered \intersect topic)' /\ (Answered \intersect topic)' \subseteq Answered'
        BY <2>2, <2>5 DEF PublishFails
      <3>2. IsFiniteSet((Answered \intersect topic)')
        BY <2>3, <3>1, FS_Subset
      <3>3. /\ Cardinality(A) <= Cardinality((Answered \intersect topic)')
            /\ Cardinality((Answered \intersect topic)') \in Nat
        BY <3>1, <3>2, FS_Subset, FS_CardinalityType
      <3>4. /\ metrics'.total = metrics.total /\ metrics'.otp = metrics.otp
            /\ metrics'.failed = metrics.failed + 1
        BY <2>5, CountFacts DEF PublishFails, TypeOK
      <3>5. PublishMetricsAgree'
        BY <1>0, <2>3, <3>3, <3>4 DEF PublishMetricsAgree, Answered
      <3> QED BY <2>3, <3>5 DEF MetricsInv
    <2> QED BY <1>1, <2>4, <2>5
  <1>2. CASE Crash
    <2>1. Answered' = {} /\ metrics' = Zero
      BY <1>2 DEF Crash, Answered, UnderWay, TypeOK
    <2>2. IsFiniteSet(Answered') /\ Cardinality(Answered') = 0
      BY <2>1, FS_EmptySet
    <2>3. (Answered \intersect topic)' = {}
      BY <2>1
    <2>4. Cardinality((Answered \intersect topic)') = 0
      BY <2>3, FS_EmptySet
    <2>5. PublishMetricsAgree'
      BY <2>1, <2>2, <2>4 DEF PublishMetricsAgree, Answered, Zero
    <2> QED BY <2>2, <2>5 DEF MetricsInv
  <1>3. CASE ~Crash /\ \A v \in Verifies : ~Publish(v) /\ ~PublishFails(v)
    <2>1. UNCHANGED <<topic, metrics>>
      BY <1>3 DEF Next, SendOTP, VerifyOTP, Save, SaveFails, Mailed, Fails, NotFound, Read, Resave, Set,
         Delete, PublishInvalid, Lapse, Expire, vars, verifying
    <2>2. Answered' = Answered
      <3>1. CASE UNCHANGED <<vpc, copy>>
        BY <3>1 DEF Answered
      <3>2. ASSUME NEW v \in Verifies, VerifyOTP(v) PROVE Answered' = Answered
        BY <1>3, <3>2 DEF VerifyOTP, NotFound, Read, Resave, Set, Delete, PublishInvalid, Goto,
           Answered, TypeOK
      <3> QED
        BY <1>3, <3>1, <3>2 DEF Next, SendOTP, Save, SaveFails, Mailed, Fails, Lapse, Expire, vars, verifying
    <2> QED BY <2>1, <2>2 DEF MetricsInv, PublishMetricsAgree, Answered
  <1> QED BY <1>1, <1>2, <1>3

\* The counters agree with the answers and the topic, for as long as the process lives.
THEOREM MetricsAgree == Spec => []PublishMetricsAgree
  <1>1. Init => MetricsInv
    <2> SUFFICES ASSUME Init PROVE MetricsInv
      OBVIOUS
    <2>1. Answered = {} /\ Answered \intersect topic = {} /\ metrics = Zero
      BY DEF Init, Answered
    <2>2. IsFiniteSet({}) /\ Cardinality({}) = 0
      BY FS_EmptySet
    <2> QED BY <2>1, <2>2 DEF MetricsInv, PublishMetricsAgree, Answered, Zero
  <1>2. MetricsInv => PublishMetricsAgree
    BY DEF MetricsInv
  <1> QED BY <1>1, <1>2, MetricsNext, Invariance, PTL DEF Spec
=============================================================================
