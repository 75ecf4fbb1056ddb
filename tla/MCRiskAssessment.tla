-------------------------- MODULE MCRiskAssessment --------------------------
(* Two profiles, of which only q1 is near the alert; weights that make alerts*)
(* count for 4.2 times their points, or one that is no number.               *)
EXTENDS RiskAssessment
CONSTANTS a1, u1, q1, q2, w1

MCWatched == [q \in Profile |-> IF q = q1 THEN {a1} ELSE {}]

MCConfig == {[alert_density |-> 420], [alert_density |-> NotANumber]}
=============================================================================
