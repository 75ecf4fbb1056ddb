------------------------- MODULE MCWebSocketGateway -------------------------
(* Two users of one organisation; either two tabs of u1 or a tab each.      *)
EXTENDS WebSocketGateway, TLC
CONSTANTS u1, u2, o1, s1, s2

MCUserOf == (s1 :> u1) @@ (s2 :> u2)
MCUserOfTabs == (s1 :> u1) @@ (s2 :> u1)
MCOrgOf == (u1 :> o1) @@ (u2 :> o1)
MCOrgOfTabs == (u1 :> o1)
=============================================================================
