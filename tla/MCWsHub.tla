------------------------------ MODULE MCWsHub ------------------------------
(***************************************************************************)
(* Instances of WsHub for TLC.                                             *)
(***************************************************************************)
EXTENDS WsHub, TLC

CONSTANTS u1, Strangers

\* Every connection is u1's; what another user is notified of must reach none.  A
\* stranger's token has an empty sub in front of the id.
Tokens ==
    [c \in Clients |->
        IF c \in Strangers
        THEN [user_id |-> Absent, sub |-> Empty, id |-> u1]
        ELSE [user_id |-> Empty, sub |-> u1, id |-> Absent]]

ConnectionSymmetry == Permutations(Authenticated)
=============================================================================
