------------------------- MODULE MCHydrationEngine -------------------------
(* Model values for the configuration of HydrationEngine.                    *)
EXTENDS HydrationEngine
CONSTANTS s1, w1, h1, h2, u1
=============================================================================
