-------------------------- MODULE MCReportPipeline --------------------------
(* Two reports, one of which cannot be rendered, share two workers.         *)
EXTENDS ReportPipeline
CONSTANTS r1, r2, w1, w2, d1, d2
=============================================================================
