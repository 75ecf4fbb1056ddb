---------------------------- MODULE MCAlertDesk ----------------------------
(* Model values for the configurations of AlertDesk.                         *)
EXTENDS AlertDesk
CONSTANTS a1, i1, u1, u2, u3
=============================================================================
