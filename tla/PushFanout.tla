----------------------------- MODULE PushFanout -----------------------------
(***************************************************************************)
(* What the WebSocket gateway promises a browser, stated without sockets   *)
(* registries, listener tasks or Redis.  Messages on a channel are         *)
(* numbered in the order they are published.  A socket may miss messages   *)
(* (Redis pub/sub is at-most-once), but what it receives on a channel it   *)
(* receives at most once, in publication order, and only on the channels   *)
(* of its own user and its own organisation.                               *)
(***************************************************************************)
EXTENDS Naturals, Sequences

CONSTANTS Socket,       \* the WebSocket connections
          Channel,      \* the pub/sub channels
          ChannelsOf(_) \* the channels a socket is entitled to

VARIABLES published,    \* published[ch]: how many messages ch has carried
          received      \* received[s][ch]: the messages s got on ch, in order

Init == /\ published = [ch \in Channel |-> 0]
        /\ received = [s \in Socket |-> [ch \in Channel |-> <<>>]]

Publish(ch) ==
  /\ published' = [published EXCEPT ![ch] = @ + 1]
  /\ UNCHANGED received

(* A message already published and newer than everything s has seen on ch. *)
Deliver(s, ch, n) ==
  /\ ch \in ChannelsOf(s)
  /\ n \in 1..published[ch]
  /\ \A i \in DOMAIN received[s][ch] : received[s][ch][i] < n
  /\ received' = [received EXCEPT ![s][ch] = Append(@, n)]
  /\ UNCHANGED published

Next == \/ \E ch \in Channel : Publish(ch)
        \/ \E s \in Socket, ch \in Channel : \E n \in 1..published[ch] : Deliver(s, ch, n)

Spec == Init /\ [][Next]_<<published, received>>
=============================================================================
