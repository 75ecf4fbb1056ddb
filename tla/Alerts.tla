------------------------------- MODULE Alerts -------------------------------
(* The alerts of an organisation, as AlertDesk keeps them and RiskAssessment *)
(* counts them.                                                              *)
EXTENDS Requests

CONSTANTS
  Alert, Analyst,
  GivenSeverity    \* the severities requests ask for; any string will do
=============================================================================
