---------------------------- MODULE RateLimiter ----------------------------
(***************************************************************************)
(* The fixed-window limiter of src/internal/infrastructure/ratelimit for   *)
(* one key, as EmailSender.Send asks it for a recipient: a counter in      *)
(* Redis per window, whose number Allow computes from the clock before it  *)
(* counts.  Incr and Expire are commands of their own, and each may fail.  *)
(* Reset is not a step: it deletes the key "...:*", which nobody sets.     *)
(***************************************************************************)
EXTENDS Integers, FiniteSets

CONSTANTS
    Callers,    \* calls of Allow
    Rate,       \* RateLimiter.rate
    Windows     \* bound: the windows the clock passes

ASSUME LimiterAssumption ==
    IsFiniteSet(Callers) /\ Rate \in Nat /\ Windows \in Nat \ {0}

VARIABLES
    clock,      \* the present window
    pc,         \* where each caller is
    window,     \* the window it computed its key from, 0 before
    counter,    \* the value of each window's key, 0 when absent
    expiring,   \* the windows whose key has an expiry
    late        \* ghost: windows counted up again after their key had expired

vars == <<clock, pc, window, counter, expiring, late>>

Number == 1 .. Windows

Init ==
    /\ clock = 1
    /\ pc = [s \in Callers |-> "idle"]
    /\ window = [s \in Callers |-> 0]
    /\ counter = [w \in Number |-> 0]
    /\ expiring = {} /\ late = {}

Goto(s, from, to) == pc[s] = from /\ pc' = [pc EXCEPT ![s] = to]

\* The callers of a window at one of the given places.
Of(w, places) == {s \in Callers : window[s] = w /\ pc[s] \in places}

\* The callers a window has let through, the one that still sets the expiry included.
Passed(w) == Of(w, IF Rate = 0 THEN {"allowed"} ELSE {"expire", "allowed"})

-----------------------------------------------------------------------------

\* Mutant: the key carries the number of the window after this one.
ComputesNextKey(s) ==
    /\ Goto(s, "idle", "incr")
    /\ window' = [window EXCEPT ![s] = clock + 1]
    /\ UNCHANGED <<clock, counter, expiring, late>>

\* now.Unix() / window.Seconds() is part of the key.
ComputeKey(s) ==
    /\ Goto(s, "idle", "incr")
    /\ window' = [window EXCEPT ![s] = clock]
    /\ UNCHANGED <<clock, counter, expiring, late>>

\* Mutants: the comparison is off by one, either way.
OneMoreThanRate(count) == count <= Rate + 1
OneLessThanRate(count) == count < Rate

WithinRate(count) == count <= Rate

Verdict(count) == IF WithinRate(count) THEN "allowed" ELSE "refused"

\* The one that counts first sets the key's expiry before it compares.
Incr(s) ==
    LET w     == window[s]
        count == counter[w] + 1
    IN  /\ Goto(s, "incr", IF count = 1 THEN "expire" ELSE Verdict(count))
        /\ counter' = [counter EXCEPT ![w] = count]
        /\ late' = IF count <= Cardinality(Passed(w))
                   THEN late \union {w} ELSE late
        /\ UNCHANGED <<clock, window, expiring>>

\* Redis fails, before or after the increment: the caller is refused as over the limit.
IncrFails(s) ==
    /\ Goto(s, "incr", "failed")
    /\ counter' \in {counter, [counter EXCEPT ![window[s]] = @ + 1]}
    /\ UNCHANGED <<clock, window, expiring, late>>

\* The error of Expire is ignored; without an expiry the key stays.
Expire(s) ==
    /\ Goto(s, "expire", Verdict(1))
    /\ expiring' \in {expiring, expiring \union {window[s]}}
    /\ UNCHANGED <<clock, window, counter, late>>

NextWindow ==
    /\ clock < Windows /\ clock' = clock + 1
    /\ UNCHANGED <<pc, window, counter, expiring, late>>

\* A key lives for its window and a second more.
KeyExpires(w) ==
    /\ w \in expiring /\ w < clock
    /\ counter' = [counter EXCEPT ![w] = 0]
    /\ expiring' = expiring \ {w}
    /\ UNCHANGED <<clock, pc, window, late>>

Next ==
    \/ \E s \in Callers : ComputeKey(s) \/ Incr(s) \/ IncrFails(s) \/ Expire(s)
    \/ NextWindow
    \/ \E w \in Number : KeyExpires(w)

Spec == Init /\ [][Next]_vars

-----------------------------------------------------------------------------
(***************************************************************************)
(* Properties.                                                             *)
(***************************************************************************)

\* Every variable stays in its type.
TypeOK ==
    /\ clock \in Number
    /\ pc \in [Callers -> {"idle", "incr", "expire", "allowed", "refused", "failed"}]
    /\ window \in [Callers -> {0} \union Number]
    /\ counter \in [Number -> Nat]
    /\ expiring \subseteq Number /\ late \subseteq Number

\* A window lets through at most Rate mails to a recipient, however its callers
\* interleave and whatever fails, unless one of them counts so late that the key of its
\* window has expired.
RatePerWindow ==
    \A w \in Number \ late : Cardinality(Passed(w)) <= Rate

\* Nobody is refused as long as the window has room: Rate other calls have been counted
\* in it, though not all of them need have been allowed (a call whose answer from Redis
\* was lost has used up its share, and so has one that was refused).
RefusedOnlyWhenUsedUp ==
    \A s \in Callers :
        pc[s] = "refused" =>
            Cardinality(Of(window[s], {"expire", "allowed", "refused", "failed"})) > Rate
=============================================================================
