------------------------ MODULE MCNotificationSweep ------------------------
(* Two workers and two webhooks, one of which has a URL that is malformed.   *)
EXTENDS NotificationSweep
CONSTANTS p1, p2, hook, bad

MCChannelOf == [n \in Note |-> "webhook"]
=============================================================================
