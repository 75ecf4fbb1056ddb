-------------------------- MODULE WebSocketGateway --------------------------
(***************************************************************************)
(* One pod of the WebSocket gateway: the /ws endpoint (gateway.py), the    *)
(* registry of live connections (ConnectionManager) and the listener tasks *)
(* that carry Redis pub/sub messages to local sockets                      *)
(* (RedisSubscriberBridge), both in manager.py.                            *)
(*                                                                         *)
(* The pod is one asyncio event loop, so an action is the code between two *)
(* awaits that really suspend: accept, send_json, receive_json and the     *)
(* pub/sub calls.  The manager's asyncio.Lock never spans a suspension,    *)
(* and the subscribe/unsubscribe coroutines contain none.                  *)
(***************************************************************************)
EXTENDS Integers, Sequences, FiniteSets, Functions

CONSTANTS
  User, Org,        \* user ids and organisation ids: each names a channel
  Socket,           \* WebSocket objects; one object serves one connection
  UserOf,           \* [Socket -> User], the "sub" of the token presented
  OrgOf,            \* [User -> Org], User.organization_id
  None,             \* Python's None
  MaxMsgs,          \* bound: messages published, on all channels together
  MaxRedisErrors    \* bound: pub/sub connections that fail

ASSUME GatewayAssumption ==
  /\ IsFiniteSet(Socket)
  /\ UserOf \in [Socket -> User]
  /\ OrgOf \in [User -> Org]
  /\ User \cap Org = {}          \* "ws:user:" and "ws:org:" name different channels
  /\ None \notin User \cup Org
  /\ MaxMsgs \in Nat /\ MaxRedisErrors \in Nat

Channel == User \cup Org
ChannelsOf(s) == {UserOf[s], OrgOf[UserOf[s]]}

VARIABLES
  pc,            \* where the endpoint of each socket is
  link,          \* the client's side of each connection
  userConns,     \* _user_connections: {} where the dict has no key
  orgConns,      \* _org_connections, likewise
  connUser,      \* _connection_user
  connOrg,       \* _connection_org
  memberCounts,  \* _org_member_counts: 0 where the dict has no key
  gauge,         \* WEBSOCKET_CONNECTIONS_ACTIVE
  tasks,         \* _user_tasks and _org_tasks: the index in listeners, 0 for no key
  listeners,     \* every listener task ever created for a channel, oldest first
  published,     \* how many messages each channel has carried
  received,      \* what the client of each socket has received on each channel
  redisErrors,   \* pub/sub failures so far
  dropped        \* history: sockets a failed send took out of the registry

registry == <<userConns, orgConns, connUser, connOrg, memberCounts, gauge>>
bridge   == <<tasks, listeners>>
redis    == <<published, redisErrors>>
vars == <<pc, link, registry, bridge, redis, received, dropped>>

Serving == {"greeting", "serving"}
(* "closed": the client's disconnect frame was read, client_state is        *)
(* DISCONNECTED; "errored": the endpoint ended some other way.              *)
EndpointState == {"new", "closed", "errored"} \cup Serving
ListenerState == {"starting", "listening", "done"}
ListenerTask == [state : ListenerState, inbox : Seq(Nat), msg : Nat, todo : SUBSET Socket]
NewTask  == [state |-> "starting", inbox |-> <<>>, msg |-> 0, todo |-> {}]
DoneTask == [NewTask EXCEPT !.state = "done"]

TypeOK ==
  /\ pc \in [Socket -> EndpointState]
  /\ link \in [Socket -> {"up", "down"}]
  /\ userConns \in [User -> SUBSET Socket]
  /\ orgConns \in [Org -> SUBSET Socket]
  /\ connUser \in [Socket -> User \cup {None}]
  /\ connOrg \in [Socket -> Org \cup {None}]
  /\ memberCounts \in [Org -> Nat]
  /\ gauge \in Int
  /\ listeners \in [Channel -> Seq(ListenerTask)]
  /\ tasks \in [Channel -> Nat]
  /\ \A ch \in Channel : tasks[ch] \in 0..Len(listeners[ch])
  /\ published \in [Channel -> Nat]
  /\ received \in [Socket -> [Channel -> Seq(Nat)]]
  /\ redisErrors \in Nat
  /\ dropped \in SUBSET Socket

Init ==
  /\ pc = [s \in Socket |-> "new"]
  /\ link = [s \in Socket |-> "up"]
  /\ userConns = [u \in User |-> {}]
  /\ orgConns = [o \in Org |-> {}]
  /\ connUser = [s \in Socket |-> None]
  /\ connOrg = [s \in Socket |-> None]
  /\ memberCounts = [o \in Org |-> 0]
  /\ gauge = 0
  /\ tasks = [ch \in Channel |-> 0]
  /\ listeners = [ch \in Channel |-> <<>>]
  /\ published = [ch \in Channel |-> 0]
  /\ received = [s \in Socket |-> [ch \in Channel |-> <<>>]]
  /\ redisErrors = 0
  /\ dropped = {}

-----------------------------------------------------------------------------
(* ConnectionManager *)

Registered == {s \in Socket : connUser[s] # None}
Conns(ch) == IF ch \in User THEN userConns[ch] ELSE orgConns[ch]

(* has_no_connections_for_user and has_no_connections_for_org: the org's    *)
(* answer comes from its counter, not from its set.                         *)
HasNoConnections(ch) ==
  IF ch \in User THEN userConns[ch] = {} ELSE memberCounts[ch] = 0

connect(s) ==
  LET u == UserOf[s]
      o == OrgOf[u]
  IN /\ userConns' = [userConns EXCEPT ![u] = @ \cup {s}]
     /\ orgConns' = [orgConns EXCEPT ![o] = @ \cup {s}]
     /\ connOrg' = [connOrg EXCEPT ![s] = o]
     /\ connUser' = [connUser EXCEPT ![s] = u]
     /\ memberCounts' = [memberCounts EXCEPT ![o] = @ + 1]
     /\ gauge' = gauge + 1

(* Mutant: the member count survives the last connection of the org.         *)
disconnect_KeepsCount(s) ==
  /\ connUser' = [connUser EXCEPT ![s] = None]
  /\ connOrg' = [connOrg EXCEPT ![s] = None]
  /\ userConns' = [u \in User |-> userConns[u] \ {s}]
  /\ orgConns' = [o \in Org |-> orgConns[o] \ {s}]
  /\ gauge' = gauge - 1
  /\ UNCHANGED memberCounts

(* Runs for a socket that may no longer be registered: then only the gauge  *)
(* changes.                                                                 *)
disconnect(s) ==
  LET u == connUser[s]
      o == connOrg[s]
      left == orgConns[o] \ {s}
  IN /\ connUser' = [connUser EXCEPT ![s] = None]
     /\ connOrg' = [connOrg EXCEPT ![s] = None]
     /\ userConns' = IF u = None THEN userConns ELSE [userConns EXCEPT ![u] = @ \ {s}]
     /\ orgConns' = IF o = None THEN orgConns ELSE [orgConns EXCEPT ![o] = left]
     /\ memberCounts' =
          IF o = None THEN memberCounts
          ELSE [memberCounts EXCEPT ![o] = IF left = {} \/ @ = 0 THEN 0 ELSE @ - 1]
     /\ gauge' = gauge - 1

-----------------------------------------------------------------------------
(* RedisSubscriberBridge *)

(* subscribe_for_user and subscribe_for_org: a channel that has an entry,    *)
(* whatever became of its task, is left alone.                               *)
subscribe(chans) ==
  LET fresh == {ch \in chans : tasks[ch] = 0}
  IN /\ listeners' = [ch \in Channel |->
          IF ch \in fresh THEN Append(listeners[ch], NewTask) ELSE listeners[ch]]
     /\ tasks' = [ch \in Channel |->
          IF ch \in fresh THEN Len(listeners[ch]) + 1 ELSE tasks[ch]]

(* Mutant: the entry is popped but its task is not cancelled.                *)
unsubscribe_NoCancel(chans) ==
  /\ tasks' = [ch \in Channel |-> IF ch \in chans THEN 0 ELSE tasks[ch]]
  /\ UNCHANGED listeners

(* unsubscribe_for_user and unsubscribe_for_org: pop the entry and cancel    *)
(* its task, which forwards nothing more.                                    *)
unsubscribe(chans) ==
  /\ tasks' = [ch \in Channel |-> IF ch \in chans THEN 0 ELSE tasks[ch]]
  /\ listeners' = [ch \in Channel |->
       IF ch \in chans /\ tasks[ch] # 0
       THEN [listeners[ch] EXCEPT ![tasks[ch]] = DoneTask]
       ELSE listeners[ch]]

IsIn(ch, k, state) == k \in DOMAIN listeners[ch] /\ listeners[ch][k].state = state

(* SUBSCRIBE reaches Redis: only from here on do messages arrive.            *)
Subscribed(ch, k) ==
  /\ IsIn(ch, k, "starting")
  /\ listeners' = [listeners EXCEPT ![ch][k].state = "listening"]
  /\ UNCHANGED <<pc, link, registry, tasks, redis, received, dropped>>

(* Mutant: what has arrived is kept in a list and popped from its end.       *)
TakeMessage_PopsNewest(ch, k) ==
  LET inbox == listeners[ch][k].inbox
  IN /\ IsIn(ch, k, "listening")
     /\ listeners[ch][k].todo = {}
     /\ inbox # <<>>
     /\ listeners' = [listeners EXCEPT ![ch][k] =
          IF HasNoConnections(ch) THEN DoneTask
          ELSE [state |-> "listening", inbox |-> SubSeq(inbox, 1, Len(inbox) - 1),
                msg |-> inbox[Len(inbox)], todo |-> Conns(ch)]]
     /\ UNCHANGED <<pc, link, registry, tasks, redis, received, dropped>>

(* The task takes its next message.  With nobody left to send it to, it      *)
(* breaks out of the loop and ends, its entry in tasks staying behind;       *)
(* otherwise send_to_user / send_to_org snapshots the sockets.               *)
TakeMessage(ch, k) ==
  /\ IsIn(ch, k, "listening")
  /\ listeners[ch][k].todo = {}
  /\ listeners[ch][k].inbox # <<>>
  /\ listeners' = [listeners EXCEPT ![ch][k] =
       IF HasNoConnections(ch) THEN DoneTask
       ELSE [state |-> "listening", inbox |-> Tail(@.inbox),
             msg |-> Head(@.inbox), todo |-> Conns(ch)]]
  /\ UNCHANGED <<pc, link, registry, tasks, redis, received, dropped>>

(* Mutant: the first send that raises ends the loop over the snapshot.       *)
Send_StopsAtFailure(ch, k, s) ==
  /\ IsIn(ch, k, "listening")
  /\ s \in listeners[ch][k].todo
  /\ \/ /\ link[s] = "up"
        /\ listeners' = [listeners EXCEPT ![ch][k].todo = @ \ {s}]
        /\ received' = [received EXCEPT ![s][ch] = Append(@, listeners[ch][k].msg)]
        /\ UNCHANGED <<registry, dropped>>
     \/ /\ link[s] = "down"
        /\ listeners' = [listeners EXCEPT ![ch][k].todo = {}]
        /\ disconnect(s)
        /\ dropped' = dropped \cup ({s} \cap Registered)
        /\ UNCHANGED received
  /\ UNCHANGED <<pc, link, tasks, redis>>

(* One iteration of the loop in send_to_user / send_to_org, in any order of  *)
(* the snapshot.  A send on a dead link is skipped or vanishes in a buffer,  *)
(* or it raises, and the socket is disconnected from the registry.           *)
Send(ch, k, s) ==
  /\ IsIn(ch, k, "listening")
  /\ s \in listeners[ch][k].todo
  /\ listeners' = [listeners EXCEPT ![ch][k].todo = @ \ {s}]
  /\ \/ /\ link[s] = "up"
        /\ received' = [received EXCEPT ![s][ch] = Append(@, listeners[ch][k].msg)]
        /\ UNCHANGED <<registry, dropped>>
     \/ /\ link[s] = "down"
        /\ UNCHANGED <<registry, received, dropped>>
     \/ /\ link[s] = "down"
        /\ pc[s] # "closed"
        /\ disconnect(s)
        /\ dropped' = dropped \cup ({s} \cap Registered)
        /\ UNCHANGED received
  /\ UNCHANGED <<pc, link, tasks, redis>>

(* The pub/sub connection fails: the exception ends the task, whose entry    *)
(* in tasks stays behind.                                                    *)
RedisError(ch, k) ==
  /\ redisErrors < MaxRedisErrors
  /\ IsIn(ch, k, "starting") \/ IsIn(ch, k, "listening")
  /\ redisErrors' = redisErrors + 1
  /\ listeners' = [listeners EXCEPT ![ch][k] = DoneTask]
  /\ UNCHANGED <<pc, link, registry, tasks, published, received, dropped>>

PublishedInAll == FoldFunction(LAMBDA m, n : m + n, 0, published)

(* CacheManager.publish, by any API or worker pod: Redis hands the message   *)
(* to the listeners subscribed at that instant.                              *)
Publish(ch) ==
  /\ PublishedInAll < MaxMsgs
  /\ published' = [published EXCEPT ![ch] = @ + 1]
  /\ listeners' = [listeners EXCEPT ![ch] = [k \in DOMAIN listeners[ch] |->
       IF listeners[ch][k].state = "listening"
       THEN [listeners[ch][k] EXCEPT !.inbox = Append(@, published[ch] + 1)]
       ELSE listeners[ch][k]]]
  /\ UNCHANGED <<pc, link, registry, tasks, redisErrors, received, dropped>>

-----------------------------------------------------------------------------
(* The /ws endpoint *)

(* The token does not decode, or its user is unknown or not active.          *)
Reject(s) ==
  /\ pc[s] = "new"
  /\ pc' = [pc EXCEPT ![s] = "closed"]
  /\ link' = [link EXCEPT ![s] = "down"]
  /\ UNCHANGED <<registry, bridge, redis, received, dropped>>

Connect(s) ==
  /\ pc[s] = "new"
  /\ pc' = [pc EXCEPT ![s] = "greeting"]
  /\ connect(s)
  /\ subscribe(ChannelsOf(s))
  /\ UNCHANGED <<link, redis, received, dropped>>

Greet(s) ==
  /\ pc[s] = "greeting"
  /\ pc' = [pc EXCEPT ![s] = "serving"]
  /\ UNCHANGED <<link, registry, bridge, redis, received, dropped>>

ClientDrops(s) ==
  /\ pc[s] \in Serving
  /\ link[s] = "up"
  /\ link' = [link EXCEPT ![s] = "down"]
  /\ UNCHANGED <<pc, registry, bridge, redis, received, dropped>>

(* Mutants: unsubscribing without asking whether another connection is left,  *)
(* unsubscribing the user's channel only, and cleaning up for a disconnect    *)
(* frame but not for an exception.                                           *)
Ended(s) ==
  /\ pc[s] = "serving"
  /\ pc' = [pc EXCEPT ![s] = IF link[s] = "down" THEN "closed" ELSE "errored"]
  /\ link' = [link EXCEPT ![s] = "down"]
  /\ UNCHANGED <<redis, received, dropped>>
Finish_AlwaysUnsubscribes(s) ==
  Ended(s) /\ disconnect(s) /\ unsubscribe({connUser[s], connOrg[s]})

(* The try block ends and finally runs.  The disconnect frame is only read   *)
(* by receive_json; a greeting or a pong that fails, or a frame that is not  *)
(* JSON, raises instead, and the server then closes the connection.          *)
Finish(s) ==
  /\ \/ /\ pc[s] = "serving" /\ link[s] = "down"
        /\ pc' = [pc EXCEPT ![s] = "closed"]
     \/ /\ pc[s] = "serving" \/ (pc[s] = "greeting" /\ link[s] = "down")
        /\ pc' = [pc EXCEPT ![s] = "errored"]
  /\ link' = [link EXCEPT ![s] = "down"]
  /\ disconnect(s)
  /\ unsubscribe({ch \in {connUser[s], connOrg[s]} \ {None} : HasNoConnections(ch)'})
  /\ UNCHANGED <<redis, received, dropped>>

-----------------------------------------------------------------------------
ListenerStep(ch) ==
  \E k \in DOMAIN listeners[ch] :
    \/ Subscribed(ch, k)
    \/ TakeMessage(ch, k)
    \/ \E s \in Socket : Send(ch, k, s)

Next ==
  \/ \E s \in Socket : Reject(s) \/ Connect(s) \/ Greet(s) \/ ClientDrops(s) \/ Finish(s)
  \/ \E ch \in Channel :
       \/ Publish(ch)
       \/ ListenerStep(ch)
       \/ \E k \in DOMAIN listeners[ch] : RedisError(ch, k)

Spec == Init /\ [][Next]_vars

(* The event loop runs every task that can go on; clients, publishers and    *)
(* Redis owe nothing.                                                        *)
FairSpec == Spec /\ \A ch \in Channel : WF_vars(ListenerStep(ch))

-----------------------------------------------------------------------------
(* Properties *)

(* The five maps of ConnectionManager agree: a socket is in the set of a     *)
(* user (org) exactly when the reverse map says so, it is in both or in      *)
(* neither, and the member count of an org is the size of its set, so        *)
(* has_no_connections_for_org answers what the set would.                    *)
RegistryConsistent ==
  /\ \A u \in User : userConns[u] = {s \in Socket : connUser[s] = u}
  /\ \A o \in Org : orgConns[o] = {s \in Socket : connOrg[s] = o}
  /\ \A s \in Socket : /\ connUser[s] \in {None, UserOf[s]}
                       /\ connOrg[s] = IF connUser[s] = None THEN None ELSE OrgOf[UserOf[s]]
  /\ \A o \in Org : memberCounts[o] = Cardinality(orgConns[o])

(* Only a socket whose endpoint is between connect and finally is            *)
(* registered, so nothing is retained for connections that have ended.       *)
RegisteredIsServed == \A s \in Registered : pc[s] \in Serving

(* Whatever the order of connects, disconnects and failures, at most one     *)
(* listener of a channel is running, and it is the one the bridge can still  *)
(* cancel: no message is forwarded twice.                                    *)
OneListenerPerChannel ==
  \A ch \in Channel : \A k \in DOMAIN listeners[ch] :
    listeners[ch][k].state # "done" => tasks[ch] = k

(* While a channel has a registered socket the bridge keeps an entry for it: *)
(* the finally block of one connection never unsubscribes another's.         *)
SubscribedWhileConnected ==
  \A ch \in Channel : Conns(ch) # {} => tasks[ch] # 0

(* A channel nobody is registered for keeps a bridge entry only if a failed  *)
(* send removed one of its sockets: the endpoints' own ends never leak one.  *)
LeakOnlyAfterFailedSend ==
  \A ch \in Channel :
    tasks[ch] # 0 /\ Conns(ch) = {} => \E s \in dropped : ch \in ChannelsOf(s)

(* Order, no duplication and tenant isolation, as the abstract promise.      *)
Fanout == INSTANCE PushFanout
ImplementsPushFanout == Fanout!Spec

(* A message that reached the pod's live listener while a socket of the      *)
(* channel is registered is eventually received, or that client is gone, or  *)
(* the listener's connection to Redis has failed; a send that fails for one  *)
(* socket does not starve the others.                                        *)
EnqueuedIsDelivered ==
  \A s \in Socket : \A ch \in ChannelsOf(s) : \A n \in 1..MaxMsgs :
    /\ s \in Conns(ch)
    /\ tasks[ch] # 0
    /\ \E i \in DOMAIN listeners[ch][tasks[ch]].inbox : listeners[ch][tasks[ch]].inbox[i] = n
    ~> \/ \E i \in DOMAIN received[s][ch] : received[s][ch][i] = n
       \/ link[s] = "down"
       \/ redisErrors > 0

=============================================================================
