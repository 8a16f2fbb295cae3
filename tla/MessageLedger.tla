---------------------------- MODULE MessageLedger ----------------------------
(***************************************************************************)
(* What the Kafka consumer promises for the messages of its topics: a      *)
(* message whose offset the group has committed is in the memory of the    *)
(* consumer, or every handler has had its attempts on it, or it was lost   *)
(* from memory at a crash.  KafkaConsumer implements it.                   *)
(***************************************************************************)
CONSTANT Messages

VARIABLES
    committed,  \* messages the broker will not deliver again
    memory,     \* messages taken and not let go of
    resolved,   \* messages every handler has had its attempts on
    lost        \* committed messages a crash has taken

vars == <<committed, memory, resolved, lost>>

Init == committed = {} /\ memory = {} /\ resolved = {} /\ lost = {}

\* The broker delivers a message, again perhaps, as long as it is not committed.
Take(m) ==
    /\ m \in Messages \ committed
    /\ memory' = memory \union {m}
    /\ UNCHANGED <<committed, resolved, lost>>

Resolve(m) ==
    /\ m \in memory
    /\ resolved' = resolved \union {m}
    /\ UNCHANGED <<committed, memory, lost>>

LetGo(m) ==
    /\ m \in memory \intersect resolved
    /\ memory' = memory \ {m}
    /\ UNCHANGED <<committed, resolved, lost>>

\* Only what is accounted for is committed, and a commit is for good.
Commit ==
    /\ committed \subseteq committed'
    /\ committed' \subseteq committed \union memory \union resolved \union lost
    /\ UNCHANGED <<memory, resolved, lost>>

Crash ==
    /\ memory' = {}
    /\ lost' = lost \union (memory \intersect committed)
    /\ UNCHANGED <<committed, resolved>>

Next ==
    \/ \E m \in Messages : Take(m) \/ Resolve(m) \/ LetGo(m)
    \/ Commit \/ Crash

Spec == Init /\ [][Next]_vars
=============================================================================
