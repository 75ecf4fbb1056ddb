--------------------------- MODULE MCAccessControl ---------------------------
(* A user, another with two API keys, two requests at a time.                *)
EXTENDS AccessControl, TLC
CONSTANTS o1, o2, u1, u2, k1, k2, q1, q2
MCKeyOwner == [k \in Key |-> u2]
MCEdits == {[NoChange EXCEPT !.status = "active", !.owner = TRUE],
            [NoChange EXCEPT !.status = "deactivated", !.owner = FALSE],
            [NoChange EXCEPT !.superuser = TRUE]}
Symmetry == Permutations(Org) \cup Permutations(Key) \cup Permutations(Req)
=============================================================================
