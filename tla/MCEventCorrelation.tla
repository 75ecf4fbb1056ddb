------------------------- MODULE MCEventCorrelation -------------------------
(* Two alerts of each of two organisations; a shared category rule that      *)
(* escalates in one of them, a spatial rule created later that escalates in  *)
(* the other, and a temporal rule that does not.                             *)
EXTENDS EventCorrelation, TLC
CONSTANTS o1, o2, a1, a2, b1, b2, shared, near, burst, w1, w2

MCAlertRow ==
  [a \in {a1, a2, b1, b2} |->
    [org |-> IF a \in {b1, b2} THEN o2 ELSE o1,
     place |-> CASE a = a1 -> 0 [] a = a2 -> 1 [] OTHER -> NoPlace,
     created |-> IF a = a2 THEN 1 ELSE 0, category |-> "cyber",
     severity |-> CASE a = a2 -> 3 [] a = b1 -> 4 [] OTHER -> 1]]

MCRuleRow ==
  (shared :> [org |-> Global, type |-> "category", threshold |-> 2, span |-> 0,
              only |-> "any", escalateAt |-> 4]) @@
  (near :> [org |-> o1, type |-> "spatial", threshold |-> 2, span |-> 1,
            only |-> "any", escalateAt |-> 3]) @@
  (burst :> [org |-> o1, type |-> "temporal", threshold |-> 2, span |-> 1,
             only |-> "cyber", escalateAt |-> 4])

=============================================================================
