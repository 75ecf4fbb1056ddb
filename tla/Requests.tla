------------------------------ MODULE Requests ------------------------------
(* What the modules about requests share: a bound on the changes made to     *)
(* what is there already, each of which may be made again and again.         *)
EXTENDS Naturals

CONSTANTS None, MaxEdits

VARIABLE edits

Edit == edits < MaxEdits /\ edits' = edits + 1
=============================================================================
