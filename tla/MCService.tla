----------------------------- MODULE MCService -----------------------------
EXTENDS Service

CONSTANTS u1, u2, u3

Three == {u1, u2, u3}

\* Either the uploads go wrong, or the keys change.
Mishaps ==
    {[uploads |-> {u1, u2}, errors |-> 2, system |-> 1, saves |-> 0, revoked |-> 0, pauses |-> 1],
     [uploads |-> Three, errors |-> 0, system |-> 1, saves |-> 0, revoked |-> 0, pauses |-> 1]}
KeyChanges ==
    {[uploads |-> {u1}, errors |-> 1, system |-> 0, saves |-> 2, revoked |-> 1, pauses |-> 1],
     [uploads |-> {u1}, errors |-> 0, system |-> 1, saves |-> 1, revoked |-> 1, pauses |-> 1]}
Either == Mishaps \cup KeyChanges
=============================================================================
