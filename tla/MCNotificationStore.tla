------------------------- MODULE MCNotificationStore -------------------------
(* Values for TLC: two notifications, of one of two users. *)
EXTENDS NotificationStore

CONSTANTS u1, u2

Ask(kind, user, id) == [kind |-> kind, user |-> user, id |-> id, size |-> 1, shape |-> "first"]

\* The caches of one user, under every call that reads or changes its rows, and a call of
\* another who asks for a notification that is not theirs.
AllOwnedByU1 == [i \in Ids |-> u1]

MCCalls ==
    {Ask("get", u1, 1), Ask("mark", u1, 1), Ask("delete", u1, 1),
     Ask("markall", u1, 1), Ask("clear", u1, 1), Ask("save", u1, 2), Ask("create", u1, 2),
     Ask("get", u2, 1),
     [Ask("list", u1, 1) EXCEPT !.shape = "second"],
     [Ask("list", u1, 1) EXCEPT !.shape = "none"]}
    \union {[Ask("list", u1, 1) EXCEPT !.size = s] : s \in Sizes}
=============================================================================
