--------------------------- MODULE MCAuthSessions ---------------------------
(* Two requests that overlap, or one at a time.                             *)
EXTENDS AuthSessions, TLC
CONSTANTS q1, q2, l1
MCSymmetry == Permutations({q1, q2})
=============================================================================
