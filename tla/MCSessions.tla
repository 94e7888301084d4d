----------------------------- MODULE MCSessions -----------------------------
(* One user, who is logged in on one device or on two at the start.          *)
EXTENDS SessionsProperties, TLC

CONSTANTS u1, r1, r2, r3

Devices ==
    {<<[user |-> u1, at |-> 0]>>,
     <<[user |-> u1, at |-> 0], [user |-> u1, at |-> 0]>>}

Connections == Permutations(Requests)
=============================================================================
