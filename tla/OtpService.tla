----------------------------- MODULE OtpService -----------------------------
(***************************************************************************)
(* One-time codes for one e-mail address: EmailOTPService                  *)
(* (src/internal/application/services/email_otp_service.go) with the OTP   *)
(* entity, its repository in Redis, and the event a verification publishes *)
(* through the broker.  How the mail is sent is in MailSender.             *)
(*                                                                         *)
(* All keys carry the address, so that addresses do not meet and one is    *)
(* enough.  Every command to Redis is a step; requests interleave between  *)
(* them, a command may fail before or after it took effect, and the        *)
(* process may die with the requests under way; Redis survives it.         *)
(***************************************************************************)
EXTENDS Integers, FiniteSets

CONSTANTS
    Sends,          \* SendOTP requests; each is also the code it draws
    Verifies,       \* VerifyOTP requests
    Anonymous,      \* SendOTP requests with an empty user id
    MaxAttempts,    \* MaxOTPAttempts
    WrongCode,      \* what a user enters who does not know the code
    NoCode,         \* no such key in Redis
    MaxCrashes      \* bound

ASSUME OtpAssumption ==
    /\ Anonymous \subseteq Sends
    /\ MaxAttempts \in Nat \ {0} /\ MaxCrashes \in Nat
    /\ WrongCode \notin Sends
    /\ NoCode \notin Sends \union [code : Sends, attempts : Nat]

VARIABLES
    stored,     \* otp:<email> in Redis
    lapsed,     \* codes whose ExpiresAt is over
    mpc,        \* where each SendOTP is
    vpc,        \* where each verification is
    copy,       \* the OTP it has read
    topic,      \* verifications whose event is on auth.otp.verified, once or more
    metrics,    \* PublishMetrics
    crashes,    \* how often the process has died
    latest,     \* ghost: the code saved last by a SendOTP
    excused     \* ghost: codes a known cause brought back, kept or displaced

verifying == <<vpc, copy, topic, metrics>>
vars      == <<stored, lapsed, mpc, verifying, crashes, latest, excused>>

Otps      == [code : Sends, attempts : 0 .. MaxAttempts]
\* "past" are the verified of a process that has died since.
Accepting == {"delete", "publish", "verified", "past"}

UnderWay  == {"resave", "set", "delete", "publish"}
Zero      == [total |-> 0, otp |-> 0, failed |-> 0]

Init ==
    /\ stored = NoCode /\ lapsed = {} /\ latest = NoCode /\ excused = {}
    /\ mpc = [s \in Sends |-> "idle"]
    /\ vpc = [v \in Verifies |-> "idle"]
    /\ copy = [v \in Verifies |-> NoCode]
    /\ topic = {} /\ crashes = 0
    /\ metrics = Zero

MailGoto(s, from, to) == mpc[s] = from /\ mpc' = [mpc EXCEPT ![s] = to]
Goto(v, from, to)     == vpc[v] = from /\ vpc' = [vpc EXCEPT ![v] = to]

\* The codes under the key, none or one.
Standing == {c \in Sends : stored # NoCode /\ stored.code = c}

-----------------------------------------------------------------------------
(***************************************************************************)
(* SendOTP: NewOTP and SaveOTP, then the template and EmailSender.Send.    *)
(***************************************************************************)

Fresh(s) == [code |-> s, attempts |-> 0]

\* Mutant: SETNX, so that a code asked for again does not replace the one before.
SavesFirstOnly(s) ==
    /\ MailGoto(s, "idle", "mail")
    /\ stored' = (IF stored = NoCode THEN Fresh(s) ELSE stored) /\ latest' = s
    /\ UNCHANGED <<lapsed, verifying, crashes, excused>>

Save(s) ==
    /\ MailGoto(s, "idle", "mail")
    /\ stored' = Fresh(s) /\ latest' = s
    /\ UNCHANGED <<lapsed, verifying, crashes, excused>>

SaveFails(s) ==
    /\ MailGoto(s, "idle", "failed")
    /\ \/ UNCHANGED <<stored, latest>>
       \/ stored' = Fresh(s) /\ latest' = s
    /\ UNCHANGED <<lapsed, verifying, crashes, excused>>

Mailed(s) ==
    /\ MailGoto(s, "mail", "sent")
    /\ UNCHANGED <<crashes, stored, latest, lapsed, verifying, excused>>

\* Mutant: a code that could not be mailed is deleted, whatever the key holds by now.
FailsAndDeletes(s) ==
    /\ MailGoto(s, "mail", "failed")
    /\ stored' = NoCode
    /\ UNCHANGED <<crashes, latest, lapsed, verifying, excused>>

\* The template, the limiter or every attempt fails: the code stays saved.
Fails(s) ==
    /\ MailGoto(s, "mail", "failed")
    /\ UNCHANGED <<stored, latest, lapsed, crashes, verifying, excused>>

(***************************************************************************)
(* VerifyOTP: GetOTP, Verify, and SaveOTP again or DeleteOTP and the event.*)
(***************************************************************************)

\* OTP.Verify: the comparison returns before the attempt is counted.
Verify(otp, guess) ==
    IF otp.code # guess THEN "mismatch"
    ELSE IF otp.code \in lapsed THEN "expired"
    ELSE IF otp.attempts >= MaxAttempts THEN "exhausted" ELSE "ok"

\* Absent, or any error of Redis: the code is invalid.
NotFound(v) ==
    /\ Goto(v, "idle", "invalid")
    /\ UNCHANGED <<stored, lapsed, crashes, mpc, copy, topic, metrics, latest, excused>>

\* GetOTP and Verify.  A code that another verification is about to delete is excused.
Read(v, guess) ==
    /\ stored # NoCode
    /\ Goto(v, "idle", IF Verify(stored, guess) = "ok" THEN "delete" ELSE "resave")
    /\ copy' = [copy EXCEPT ![v] = stored]
    /\ excused' = excused \union
           {c \in Standing : \E x \in Verifies \ {v} : vpc[x] = "delete" /\ copy[x].code = c}
    /\ UNCHANGED <<stored, lapsed, crashes, mpc, topic, metrics, latest>>

\* SaveOTP of what was read: its expiry is computed, and refused when it is over ...
Resave(v) ==
    /\ Goto(v, "resave", IF copy[v].code \in lapsed THEN "invalid" ELSE "set")
    /\ UNCHANGED <<stored, lapsed, crashes, mpc, copy, topic, metrics, latest, excused>>

\* Mutant: the wrong attempt is counted in what is stored again.
Counted(otp) == [otp EXCEPT !.attempts = @ + 1]

\* The OTP a failed verification stores again is the one it has read.
Resaved(otp) == otp

\* ... then set, whatever Redis holds by now; the error is ignored.
Set(v) ==
    /\ Goto(v, "set", "invalid")
    /\ \/ UNCHANGED <<stored, excused>>
       \/ /\ stored' = Resaved(copy[v])
          /\ excused' = excused \union
                 IF Standing = {copy[v].code} THEN {} ELSE {copy[v].code} \union Standing
    /\ UNCHANGED <<lapsed, crashes, mpc, copy, topic, metrics, latest>>

\* Mutant: the accepted code is not deleted.
DeletesNothing(v) ==
    /\ Goto(v, "delete", "publish")
    /\ UNCHANGED <<stored, lapsed, crashes, mpc, copy, topic, metrics, latest, excused>>

\* DeleteOTP names the address, not the code; its error is logged only.
Delete(v) ==
    /\ Goto(v, "delete", "publish")
    /\ \/ /\ stored' = NoCode
          /\ excused' = excused \union (Standing \ {copy[v].code})
       \/ UNCHANGED stored /\ excused' = excused \union {copy[v].code}
    /\ UNCHANGED <<lapsed, crashes, mpc, copy, topic, metrics, latest>>

(***************************************************************************)
(* PublishOTPVerifiedEvent and ProduceWithKey.                             *)
(***************************************************************************)

\* Mutant: a message is counted as published before it is produced.
CountsBoth == [metrics EXCEPT !.failed = @ + 1, !.total = @ + 1, !.otp = @ + 1]

CountFailed    == [metrics EXCEPT !.failed = @ + 1]
CountPublished == [metrics EXCEPT !.total = @ + 1, !.otp = @ + 1]

Publish(v) ==
    /\ Goto(v, "publish", "verified") /\ copy[v].code \notin Anonymous
    /\ topic' = topic \union {v}
    /\ metrics' = CountPublished
    /\ UNCHANGED <<stored, lapsed, crashes, mpc, copy, latest, excused>>

\* The request's context has ended, or the producer gives up, its records lost or not.
PublishFails(v) ==
    /\ Goto(v, "publish", "verified") /\ copy[v].code \notin Anonymous
    /\ topic' \in {topic, topic \union {v}}
    /\ metrics' = CountFailed
    /\ UNCHANGED <<stored, lapsed, crashes, mpc, copy, latest, excused>>

\* validateOTPVerifiedEvent refuses an event without a user, and counts nothing.
PublishInvalid(v) ==
    /\ Goto(v, "publish", "verified") /\ copy[v].code \in Anonymous
    /\ UNCHANGED <<stored, lapsed, crashes, mpc, copy, topic, metrics, latest, excused>>

-----------------------------------------------------------------------------
(***************************************************************************)
(* Time, and what Redis does by itself.                                    *)
(***************************************************************************)

Lapse(c) ==
    /\ c \in Sends \ lapsed /\ mpc[c] # "idle"
    /\ lapsed' = lapsed \union {c}
    /\ UNCHANGED <<stored, crashes, mpc, verifying, latest, excused>>

\* Redis drops the key at its expiry, which may be a little after the code's.
Expire ==
    /\ Standing # {} /\ Standing \subseteq lapsed
    /\ stored' = NoCode
    /\ UNCHANGED <<lapsed, crashes, mpc, verifying, latest, excused>>

\* The process dies and starts anew: its requests are cut off, and its counters are lost.
Crash ==
    /\ crashes < MaxCrashes /\ crashes' = crashes + 1
    /\ mpc' = [s \in Sends |-> IF mpc[s] = "mail" THEN "dead" ELSE mpc[s]]
    /\ vpc' = [v \in Verifies |-> IF vpc[v] = "verified" THEN "past"
                                  ELSE IF vpc[v] \in UnderWay THEN "dead" ELSE vpc[v]]
    /\ metrics' = Zero
    /\ excused' = excused \union {copy[v].code : v \in {x \in Verifies : vpc[x] = "publish"}}
    /\ UNCHANGED <<stored, lapsed, copy, topic, latest>>

SendOTP(s) == Save(s) \/ SaveFails(s) \/ Mailed(s) \/ Fails(s)

VerifyOTP(v) ==
    \/ NotFound(v)
    \/ \E guess \in Sends \union {WrongCode} : Read(v, guess)
    \/ Resave(v) \/ Set(v) \/ Delete(v)
    \/ Publish(v) \/ PublishFails(v) \/ PublishInvalid(v)

Next ==
    \/ \E s \in Sends : SendOTP(s)
    \/ \E v \in Verifies : VerifyOTP(v)
    \/ \E c \in Sends : Lapse(c)
    \/ Expire \/ Crash

Spec == Init /\ [][Next]_vars

-----------------------------------------------------------------------------
(***************************************************************************)
(* Properties.                                                             *)
(***************************************************************************)

\* Every variable stays in its type.
TypeOK ==
    /\ stored \in Otps \union {NoCode}
    /\ lapsed \subseteq Sends
    /\ mpc \in [Sends -> {"idle", "mail", "sent", "failed", "dead"}]
    /\ vpc \in [Verifies -> Accepting \union UnderWay \union {"idle", "invalid", "dead"}]
    /\ copy \in [Verifies -> Otps \union {NoCode}]
    /\ topic \subseteq Verifies /\ crashes \in Nat
    /\ metrics \in [total : Nat, otp : Nat, failed : Nat]
    /\ latest \in Sends \union {NoCode}
    /\ excused \subseteq Sends

\* The verifications that have accepted a code.
Accepts(c) == {v \in Verifies : vpc[v] \in Accepting /\ copy[v].code = c}

\* The causes of a code accepted twice, exhaustively: two verifications overlap, the
\* delete fails, or a failed verification stores again what it had read before the code
\* was deleted.  Otherwise a code verifies once, whatever requests do.
AcceptedOnceUnlessExcused ==
    \A c \in Sends \ excused : Cardinality(Accepts(c)) <= 1

\* A new code replaces the one before for good: an older one is in Redis again only
\* because a failed verification that had read it stored it again.
StoredIsLatest == Standing \subseteq {latest} \union excused

\* When SendOTP has answered with success, the mailed code verifies until it lapses or is
\* accepted, or the next SendOTP saves one, mailed or not.  Exceptions: a failed
\* verification stored an older code over it, an accepted older code's delete took it, or
\* the process died between its delete and the answer.
MailedCodeStaysUsable ==
    \A c \in Sends :
        (mpc[c] = "sent" /\ latest = c /\ c \notin lapsed \union excused /\ Accepts(c) = {})
            => Standing = {c}

\* Every verification this process has answered with success is counted once, as published or as
\* failed, except for codes without a user; no more are counted as published than have a
\* record on the topic.
PublishMetricsAgree ==
    LET answered == {v \in Verifies : vpc[v] = "verified" /\ copy[v].code \notin Anonymous}
    IN  /\ metrics.total + metrics.failed = Cardinality(answered)
        /\ metrics.total <= Cardinality(answered \intersect topic)
        /\ metrics.otp = metrics.total

\* The verifications that have been answered as invalid after comparing with a code.
Refused(c) == {v \in Verifies : vpc[v] = "invalid" /\ copy[v] # NoCode /\ copy[v].code = c}

\* otp.go:16 and otp.go:78 promise a limit, MaxOTPAttempts and "maximum OTP attempts
\* exceeded", and email_otp_service.go:113 to "Update attempts in storage": once that
\* many verifications of a code have been answered as invalid, it verifies no more.
AttemptsAreLimited ==
    \A c \in Standing : Cardinality(Refused(c)) >= MaxAttempts => Verify(stored, c) # "ok"
=============================================================================
