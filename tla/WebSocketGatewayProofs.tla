----------------------- MODULE WebSocketGatewayProofs -----------------------
(***************************************************************************)
(* What WebSocketGateway guarantees for any number of users, organisations *)
(* and sockets, any number of messages and of Redis failures.              *)
(***************************************************************************)
EXTENDS WebSocketGateway, TLAPS, FiniteSetTheorems

-----------------------------------------------------------------------------
(* Types                                                                     *)

RegistryType ==
  /\ userConns \in [User -> SUBSET Socket]
  /\ orgConns \in [Org -> SUBSET Socket]
  /\ connUser \in [Socket -> User \cup {None}]
  /\ connOrg \in [Socket -> Org \cup {None}]
  /\ memberCounts \in [Org -> Nat]
  /\ gauge \in Int

BridgeType ==
  /\ listeners \in [Channel -> Seq(ListenerTask)]
  /\ tasks \in [Channel -> Nat]
  /\ \A ch \in Channel : tasks[ch] \in 0..Len(listeners[ch])

(* A socket belongs to one user channel and one organisation channel.        *)
LEMMA SocketChannels ==
  ASSUME NEW s \in Socket
  PROVE  /\ UserOf[s] \in User /\ OrgOf[UserOf[s]] \in Org
         /\ ChannelsOf(s) \subseteq Channel
BY GatewayAssumption DEF ChannelsOf, Channel

(* ConnectionManager.connect keeps the registry well typed.                  *)
LEMMA ConnectType ==
  ASSUME TypeOK, NEW s \in Socket, connect(s)
  PROVE  RegistryType'
BY SocketChannels DEF TypeOK, RegistryType, connect

(* ConnectionManager.disconnect keeps the registry well typed, for a         *)
(* registered socket or not.                                                 *)
LEMMA DisconnectType ==
  ASSUME TypeOK, NEW s \in Socket, disconnect(s)
  PROVE  RegistryType'
<1>1. connUser' \in [Socket -> User \cup {None}] /\ connOrg' \in [Socket -> Org \cup {None}]
  BY DEF TypeOK, disconnect
<1>2. userConns' \in [User -> SUBSET Socket]
  BY DEF TypeOK, disconnect
<1>3. orgConns' \in [Org -> SUBSET Socket]
  BY DEF TypeOK, disconnect
<1>4. memberCounts' \in [Org -> Nat] /\ gauge' \in Int
  BY DEF TypeOK, disconnect
<1> QED
  BY <1>1, <1>2, <1>3, <1>4 DEF RegistryType

(* The two shapes of a listener task.                                        *)
LEMMA TaskTypes ==
  /\ NewTask \in ListenerTask /\ NewTask.state = "starting" /\ NewTask.inbox = <<>>
  /\ NewTask.todo = {}
  /\ DoneTask \in ListenerTask /\ DoneTask.state = "done"
  /\ DoneTask.inbox = <<>> /\ DoneTask.todo = {}
<1>1. NewTask \in ListenerTask
  <2>1. <<>> \in Seq(Nat) /\ {} \in SUBSET Socket /\ 0 \in Nat
    OBVIOUS
  <2> QED
    BY <2>1 DEF NewTask, ListenerTask, ListenerState
<1>2. DoneTask \in ListenerTask
  BY <1>1 DEF DoneTask, ListenerTask, ListenerState
<1>3. DoneTask.state = "done"
  BY DEF DoneTask, NewTask
<1>4. DoneTask.inbox = <<>> /\ DoneTask.todo = {}
  BY DEF DoneTask, NewTask
<1> QED
  BY <1>1, <1>2, <1>3, <1>4 DEF NewTask

(* One task of one channel becomes another, nothing else in listeners.       *)
Replaced(ch, k, t) == listeners' = [listeners EXCEPT ![ch][k] = t]

(* What replacing one task of one channel by a task does.                    *)
LEMMA ReplaceTask ==
  ASSUME BridgeType, NEW ch \in Channel, NEW k \in DOMAIN listeners[ch],
         NEW t \in ListenerTask, Replaced(ch, k, t), tasks' = tasks
  PROVE  /\ BridgeType'
         /\ \A c \in Channel : DOMAIN listeners'[c] = DOMAIN listeners[c]
         /\ listeners'[ch][k] = t
         /\ \A c \in Channel : \A j \in DOMAIN listeners[c] :
              c # ch \/ j # k => listeners'[c][j] = listeners[c][j]
<1> DEFINE L == [listeners[ch] EXCEPT ![k] = t]
<1>1. /\ L \in Seq(ListenerTask) /\ Len(L) = Len(listeners[ch])
      /\ DOMAIN L = DOMAIN listeners[ch]
      /\ \A j \in DOMAIN listeners[ch] : L[j] = IF j = k THEN t ELSE listeners[ch][j]
  BY DEF BridgeType
<1>2. listeners' = [listeners EXCEPT ![ch] = L]
  BY DEF BridgeType, Replaced
<1> HIDE DEF L
<1>3. \A c \in Channel : listeners'[c] = IF c = ch THEN L ELSE listeners[c]
  BY <1>2 DEF BridgeType
<1> QED
  BY <1>1, <1>2, <1>3 DEF BridgeType

(* subscribe appends one new task to the channels without an entry and       *)
(* points their entries at it; the other channels keep theirs.               *)
LEMMA SubscribeType ==
  ASSUME BridgeType, NEW chans, subscribe(chans)
  PROVE  /\ BridgeType'
         /\ \A ch \in Channel :
              IF ch \in chans /\ tasks[ch] = 0
              THEN /\ listeners'[ch] = Append(listeners[ch], NewTask)
                   /\ tasks'[ch] = Len(listeners[ch]) + 1
              ELSE listeners'[ch] = listeners[ch] /\ tasks'[ch] = tasks[ch]
<1>1. ASSUME NEW ch \in Channel
      PROVE  IF ch \in chans /\ tasks[ch] = 0
             THEN /\ listeners'[ch] = Append(listeners[ch], NewTask)
                  /\ tasks'[ch] = Len(listeners[ch]) + 1
             ELSE listeners'[ch] = listeners[ch] /\ tasks'[ch] = tasks[ch]
  BY DEF subscribe
<1>2. ASSUME NEW ch \in Channel
      PROVE  /\ listeners'[ch] \in Seq(ListenerTask)
             /\ tasks'[ch] \in Nat /\ tasks'[ch] \in 0..Len(listeners'[ch])
  <2>1. listeners[ch] \in Seq(ListenerTask) /\ tasks[ch] \in 0..Len(listeners[ch])
    BY DEF BridgeType
  <2> DEFINE longer == Append(listeners[ch], NewTask)
             n == Len(listeners[ch])
  <2>2. longer \in Seq(ListenerTask) /\ Len(longer) = n + 1 /\ n \in Nat
    BY <2>1, TaskTypes
  <2>3. CASE ch \in chans /\ tasks[ch] = 0
    <3>1. listeners'[ch] = longer /\ tasks'[ch] = n + 1
      BY <1>1, <2>3
    <3> HIDE DEF longer, n
    <3> QED
      BY <2>2, <3>1
  <2>4. CASE ~(ch \in chans /\ tasks[ch] = 0)
    <3>1. listeners'[ch] = listeners[ch] /\ tasks'[ch] = tasks[ch]
      BY <1>1, <2>4
    <3> QED
      BY <2>1, <2>2, <3>1
  <2> QED
    BY <2>3, <2>4
<1>3. /\ listeners' = [ch \in Channel |-> listeners'[ch]]
      /\ tasks' = [ch \in Channel |-> tasks'[ch]]
  BY DEF subscribe
<1> QED
  BY <1>1, <1>2, <1>3 DEF BridgeType

(* unsubscribe clears the entries it is given and ends only the tasks these  *)
(* entries pointed at.                                                       *)
LEMMA UnsubscribeType ==
  ASSUME BridgeType, NEW chans, unsubscribe(chans)
  PROVE  /\ BridgeType'
         /\ \A ch \in Channel : DOMAIN listeners'[ch] = DOMAIN listeners[ch]
         /\ \A ch \in Channel : tasks'[ch] = IF ch \in chans THEN 0 ELSE tasks[ch]
         /\ \A ch \in Channel : \A k \in DOMAIN listeners[ch] :
              listeners'[ch][k] = IF ch \in chans /\ k = tasks[ch] THEN DoneTask
                                                                  ELSE listeners[ch][k]
<1>1. ASSUME NEW ch \in Channel
      PROVE  /\ tasks'[ch] = IF ch \in chans THEN 0 ELSE tasks[ch]
             /\ listeners'[ch] = IF ch \in chans /\ tasks[ch] # 0
                                 THEN [listeners[ch] EXCEPT ![tasks[ch]] = DoneTask]
                                 ELSE listeners[ch]
  BY DEF unsubscribe
<1>2. ASSUME NEW ch \in Channel
      PROVE  /\ listeners'[ch] \in Seq(ListenerTask)
             /\ Len(listeners'[ch]) = Len(listeners[ch])
             /\ DOMAIN listeners'[ch] = DOMAIN listeners[ch]
             /\ \A k \in DOMAIN listeners[ch] :
                  listeners'[ch][k] = IF ch \in chans /\ k = tasks[ch] THEN DoneTask
                                                                      ELSE listeners[ch][k]
  <2>1. listeners[ch] \in Seq(ListenerTask) /\ tasks[ch] \in 0..Len(listeners[ch])
    BY DEF BridgeType
  <2>2. CASE ch \in chans /\ tasks[ch] # 0
    <3>1. listeners'[ch] = [listeners[ch] EXCEPT ![tasks[ch]] = DoneTask]
      BY <1>1, <2>2
    <3> QED
      BY <2>1, <2>2, <3>1, TaskTypes
  <2>3. CASE ~(ch \in chans /\ tasks[ch] # 0)
    <3>1. listeners'[ch] = listeners[ch]
      BY <1>1, <2>3
    <3>2. \A k \in DOMAIN listeners[ch] : k \in Nat \ {0}
      BY <2>1
    <3>3. ASSUME NEW k \in DOMAIN listeners[ch]
          PROVE  ~(ch \in chans /\ k = tasks[ch])
      BY <2>3, <3>2
    <3> QED
      BY <2>1, <3>1, <3>3
  <2> QED
    BY <2>2, <2>3
<1>3. /\ listeners' = [ch \in Channel |-> listeners'[ch]]
      /\ tasks' = [ch \in Channel |-> tasks'[ch]]
  BY DEF unsubscribe
<1>4. ASSUME NEW ch \in Channel
      PROVE  tasks'[ch] \in Nat /\ tasks'[ch] \in 0..Len(listeners'[ch])
  <2>1. /\ tasks[ch] \in Nat /\ tasks[ch] \in 0..Len(listeners[ch])
        /\ Len(listeners[ch]) \in Nat
    BY DEF BridgeType
  <2>2. tasks'[ch] \in {0, tasks[ch]}
    BY <1>1
  <2>3. Len(listeners'[ch]) = Len(listeners[ch])
    BY <1>2
  <2> QED
    BY <2>1, <2>2, <2>3
<1> QED
  BY <1>1, <1>2, <1>3, <1>4 DEF BridgeType

(* A message that is sent is a number, and the receiver's log grows by it.   *)
LEMMA ReceiveType ==
  ASSUME TypeOK, NEW s \in Socket, NEW ch \in Channel, NEW m \in Nat,
         received' = [received EXCEPT ![s][ch] = Append(@, m)]
  PROVE  /\ received' \in [Socket -> [Channel -> Seq(Nat)]]
         /\ \A t \in Socket, c \in Channel :
              received'[t][c] = IF t = s /\ c = ch THEN Append(received[t][c], m)
                                                  ELSE received[t][c]
<1> DEFINE R == [received[s] EXCEPT ![ch] = Append(received[s][ch], m)]
<1>1. received[s] \in [Channel -> Seq(Nat)] /\ received[s][ch] \in Seq(Nat)
  BY DEF TypeOK
<1>2. Append(received[s][ch], m) \in Seq(Nat)
  BY <1>1
<1>3. /\ R \in [Channel -> Seq(Nat)]
      /\ \A c \in Channel : R[c] = IF c = ch THEN Append(received[s][ch], m) ELSE received[s][c]
  BY <1>1, <1>2
<1>4. received' = [received EXCEPT ![s] = R]
  BY <1>1
<1> HIDE DEF R
<1> QED
  BY <1>3, <1>4 DEF TypeOK

(* What a listener task consists of.                                         *)
LEMMA TaskFields ==
  ASSUME TypeOK, NEW ch \in Channel, NEW k \in DOMAIN listeners[ch]
  PROVE  /\ listeners[ch] \in Seq(ListenerTask) /\ k \in 1..Len(listeners[ch])
         /\ listeners[ch][k] \in ListenerTask
         /\ listeners[ch][k].state \in ListenerState
         /\ listeners[ch][k].inbox \in Seq(Nat)
         /\ listeners[ch][k].msg \in Nat
         /\ listeners[ch][k].todo \subseteq Socket
<1>1. listeners[ch] \in Seq(ListenerTask) /\ k \in 1..Len(listeners[ch])
  BY DEF TypeOK
<1>2. listeners[ch][k] \in ListenerTask
  BY <1>1
<1> QED
  BY <1>1, <1>2 DEF ListenerTask

(* Each step of a listener replaces one task by a task.                      *)
LEMMA StartListening ==
  ASSUME TypeOK, NEW ch \in Channel, NEW k, Subscribed(ch, k)
  PROVE  \E t \in ListenerTask :
           /\ k \in DOMAIN listeners[ch]
           /\ Replaced(ch, k, t)
           /\ t = [listeners[ch][k] EXCEPT !.state = "listening"]
<1>1. k \in DOMAIN listeners[ch]
  BY DEF Subscribed, IsIn
<1>2. [listeners[ch][k] EXCEPT !.state = "listening"] \in ListenerTask
  BY <1>1, TaskFields DEF ListenerTask, ListenerState
<1> QED
  BY <1>1, <1>2 DEF Subscribed, Replaced

(* Taking a message replaces one task: by a finished one when nobody is      *)
(* connected, otherwise by one that holds the head of its inbox.             *)
LEMMA TakeOne ==
  ASSUME TypeOK, NEW ch \in Channel, NEW k, TakeMessage(ch, k)
  PROVE  /\ k \in DOMAIN listeners[ch]
         /\ \E t \in ListenerTask :
              /\ Replaced(ch, k, t)
              /\ IF HasNoConnections(ch) THEN t = DoneTask
                 ELSE /\ t.state = "listening" /\ t.todo = Conns(ch)
                      /\ t.inbox = Tail(listeners[ch][k].inbox)
                      /\ t.msg = Head(listeners[ch][k].inbox)
<1> DEFINE t == IF HasNoConnections(ch) THEN DoneTask
                ELSE [state |-> "listening", inbox |-> Tail(listeners[ch][k].inbox),
                      msg |-> Head(listeners[ch][k].inbox), todo |-> Conns(ch)]
<1>1. k \in DOMAIN listeners[ch] /\ listeners[ch][k].inbox # <<>>
  BY DEF TakeMessage, IsIn
<1>2. listeners[ch][k].inbox \in Seq(Nat)
  BY <1>1, TaskFields
<1>3. /\ Tail(listeners[ch][k].inbox) \in Seq(Nat) 
      /\ Head(listeners[ch][k].inbox) \in Nat
  BY <1>1, <1>2
<1>4. Conns(ch) \subseteq Socket
  BY DEF TypeOK, Conns, Channel
<1>5. t \in ListenerTask
  BY <1>3, <1>4, TaskTypes DEF ListenerTask, ListenerState
<1>6. Replaced(ch, k, t)
  BY DEF TakeMessage, Replaced
<1> QED
  BY <1>1, <1>5, <1>6

(* One send takes one socket of the snapshot off the task's list.            *)
LEMMA SendOne ==
  ASSUME TypeOK, NEW ch \in Channel, NEW k, NEW s, Send(ch, k, s)
  PROVE  /\ k \in DOMAIN listeners[ch] /\ s \in listeners[ch][k].todo /\ s \in Socket
         /\ \E t \in ListenerTask :
              /\ Replaced(ch, k, t)
              /\ t = [listeners[ch][k] EXCEPT !.todo = @ \ {s}]
<1>1. k \in DOMAIN listeners[ch] /\ s \in listeners[ch][k].todo
  BY DEF Send, IsIn
<1>2. s \in Socket
  BY <1>1, TaskFields
<1>3. [listeners[ch][k] EXCEPT !.todo = @ \ {s}] \in ListenerTask
  BY <1>1, TaskFields DEF ListenerTask
<1>4. listeners' = [listeners EXCEPT ![ch][k] = [listeners[ch][k] EXCEPT !.todo = @ \ {s}]]
  BY DEF Send
<1> QED
  BY <1>1, <1>2, <1>3, <1>4 DEF Replaced

(* A message is appended to the inbox of every subscribed listener.          *)
LEMMA PublishAll ==
  ASSUME TypeOK, NEW ch \in Channel, Publish(ch)
  PROVE  /\ BridgeType'
         /\ \A c \in Channel : DOMAIN listeners'[c] = DOMAIN listeners[c]
         /\ \A c \in Channel : \A k \in DOMAIN listeners[c] :
              /\ listeners'[c][k].state = listeners[c][k].state
              /\ listeners'[c][k].msg = listeners[c][k].msg
              /\ listeners'[c][k].todo = listeners[c][k].todo
              /\ listeners'[c][k].inbox =
                   IF c = ch /\ listeners[c][k].state = "listening"
                   THEN Append(listeners[c][k].inbox, published[ch] + 1)
                   ELSE listeners[c][k].inbox
<1> DEFINE One(k) == IF listeners[ch][k].state = "listening"
                     THEN [listeners[ch][k] EXCEPT
                             !.inbox = Append(listeners[ch][k].inbox, published[ch] + 1)]
                     ELSE listeners[ch][k]
           All == [k \in DOMAIN listeners[ch] |-> One(k)]
<1>1. listeners' = [listeners EXCEPT ![ch] = All] /\ tasks' = tasks
  <2>1. listeners' = [listeners EXCEPT ![ch] = All]
    BY DEF Publish
  <2>2. tasks' = tasks
    BY DEF Publish
  <2> QED
    BY <2>1, <2>2
<1>2. \A c \in Channel : listeners'[c] = IF c = ch THEN All ELSE listeners[c]
  BY <1>1 DEF TypeOK
<1>3. ASSUME NEW k \in DOMAIN listeners[ch]
      PROVE  /\ One(k) \in ListenerTask
             /\ One(k).state = listeners[ch][k].state
             /\ One(k).msg = listeners[ch][k].msg
             /\ One(k).todo = listeners[ch][k].todo
             /\ One(k).inbox = IF listeners[ch][k].state = "listening"
                               THEN Append(listeners[ch][k].inbox, published[ch] + 1)
                               ELSE listeners[ch][k].inbox
  <2>1. published[ch] + 1 \in Nat
    BY DEF TypeOK
  <2>2. Append(listeners[ch][k].inbox, published[ch] + 1) \in Seq(Nat)
    BY <2>1, TaskFields
  <2> QED
    BY <2>2, TaskFields DEF ListenerTask
<1> HIDE DEF One
<1>4. All \in Seq(ListenerTask) /\ Len(All) = Len(listeners[ch])
  <2>1. listeners[ch] \in Seq(ListenerTask)
    BY DEF TypeOK
  <2> QED
    BY <1>3, <2>1
<1>5. BridgeType'
  <2>1. listeners' \in [Channel -> Seq(ListenerTask)]
    BY <1>1, <1>4 DEF TypeOK
  <2>2. \A c \in Channel : Len(listeners'[c]) = Len(listeners[c])
    BY <1>2, <1>4
  <2> QED
    BY <1>1, <2>1, <2>2 DEF TypeOK, BridgeType
<1>6. \A k \in DOMAIN listeners[ch] : All[k] = One(k)
  OBVIOUS
<1>7. DOMAIN All = DOMAIN listeners[ch]
  OBVIOUS
<1> HIDE DEF All
<1>8. \A c \in Channel : DOMAIN listeners'[c] = DOMAIN listeners[c]
  BY <1>2, <1>7
<1>9. ASSUME NEW c \in Channel, NEW k \in DOMAIN listeners[c]
      PROVE  /\ listeners'[c][k].state = listeners[c][k].state
             /\ listeners'[c][k].msg = listeners[c][k].msg
             /\ listeners'[c][k].todo = listeners[c][k].todo
             /\ listeners'[c][k].inbox =
                  IF c = ch /\ listeners[c][k].state = "listening"
                  THEN Append(listeners[c][k].inbox, published[ch] + 1)
                  ELSE listeners[c][k].inbox
  <2>1. CASE c = ch
    <3>1. listeners'[c][k] = One(k)
      BY <1>2, <1>6, <2>1
    <3> QED
      BY <1>3, <2>1, <3>1
  <2>2. CASE c # ch
    BY <1>2, <2>2
  <2> QED
    BY <2>1, <2>2
<1> QED
  BY <1>5, <1>8, <1>9

(* The parts of TypeOK that concern neither the registry nor the bridge.     *)
RestType ==
  /\ pc \in [Socket -> EndpointState]
  /\ link \in [Socket -> {"up", "down"}]
  /\ published \in [Channel -> Nat]
  /\ received \in [Socket -> [Channel -> Seq(Nat)]]
  /\ redisErrors \in Nat
  /\ dropped \in SUBSET Socket

(* The type invariant is the conjunction of the three the lemmas speak of.   *)
LEMMA TypeParts == TypeOK <=> RegistryType /\ BridgeType /\ RestType
BY DEF TypeOK, RegistryType, BridgeType, RestType

(* A pod that has just started is well typed.                                *)
LEMMA InitTypeOK == Init => TypeOK
<1> SUFFICES ASSUME Init PROVE TypeOK
  OBVIOUS
<1>1. RegistryType
  BY DEF Init, RegistryType
<1>2. BridgeType
  <2>1. \A ch \in Channel : listeners[ch] = <<>> /\ tasks[ch] = 0
    BY DEF Init
  <2>2. <<>> \in Seq(ListenerTask) /\ 0 \in 0..Len(<<>>)
    OBVIOUS
  <2>3. listeners \in [Channel -> Seq(ListenerTask)] /\ tasks \in [Channel -> Nat]
    BY <2>2 DEF Init
  <2> QED
    BY <2>1, <2>2, <2>3 DEF BridgeType
<1>3. RestType
  <2>1. <<>> \in Seq(Nat)
    OBVIOUS
  <2>2. received \in [Socket -> [Channel -> Seq(Nat)]]
    BY <2>1 DEF Init
  <2> QED
    BY <2>2 DEF Init, RestType, EndpointState
<1> QED
  BY <1>1, <1>2, <1>3, TypeParts

(* Every step keeps the pod well typed.                                      *)
LEMMA NextTypeOK == TypeOK /\ [Next]_vars => TypeOK'
<1> SUFFICES ASSUME TypeOK, [Next]_vars
             PROVE  TypeOK'
  OBVIOUS
<1>0. RegistryType /\ BridgeType /\ RestType
  BY TypeParts
<1>a. ASSUME UNCHANGED registry PROVE RegistryType'
  BY <1>0, <1>a DEF registry, RegistryType
<1>b. ASSUME UNCHANGED bridge PROVE BridgeType'
  BY <1>0, <1>b DEF bridge, BridgeType
<1>q. ASSUME RegistryType', BridgeType', RestType' PROVE TypeOK'
  BY <1>q DEF TypeOK, RegistryType, BridgeType, RestType
<1>1. ASSUME NEW s \in Socket, Reject(s) \/ Greet(s) \/ ClientDrops(s)
      PROVE  TypeOK'
  <2>1. RestType'
    BY <1>0, <1>1 DEF RestType, Reject, Greet, ClientDrops, redis, EndpointState, Serving
  <2> QED
    BY <1>1, <1>a, <1>b, <1>q, <2>1 DEF Reject, Greet, ClientDrops
<1>2. ASSUME NEW s \in Socket, Connect(s)
      PROVE  TypeOK'
  <2>1. RegistryType' /\ BridgeType'
    BY <1>0, <1>2, ConnectType, SubscribeType DEF Connect
  <2>2. RestType'
    BY <1>0, <1>2 DEF RestType, Connect, redis, EndpointState, Serving
  <2> QED
    BY <1>q, <2>1, <2>2
<1>3. ASSUME NEW s \in Socket, Finish(s)
      PROVE  TypeOK'
  <2>1. RegistryType' /\ BridgeType'
    BY <1>0, <1>3, DisconnectType, UnsubscribeType DEF Finish
  <2>2. RestType'
    BY <1>0, <1>3 DEF RestType, Finish, redis, EndpointState, Serving
  <2> QED
    BY <1>q, <2>1, <2>2
<1>4. ASSUME NEW ch \in Channel, Publish(ch)
      PROVE  TypeOK'
  <2>1. BridgeType' /\ RegistryType'
    BY <1>a, <1>4, PublishAll DEF Publish
  <2>2. RestType'
    BY <1>0, <1>4 DEF RestType, Publish
  <2> QED
    BY <1>q, <2>1, <2>2
<1>5. ASSUME NEW ch \in Channel, NEW k \in DOMAIN listeners[ch],
             Subscribed(ch, k) \/ TakeMessage(ch, k) \/ RedisError(ch, k)
      PROVE  TypeOK'
  <2>1. PICK t \in ListenerTask : Replaced(ch, k, t)
    BY <1>5, StartListening, TakeOne, TaskTypes DEF RedisError, Replaced
  <2>2. tasks' = tasks /\ UNCHANGED registry
    BY <1>5 DEF Subscribed, TakeMessage, RedisError
  <2>3. BridgeType'
    BY <1>0, <2>1, <2>2, ReplaceTask
  <2>4. RestType'
    BY <1>0, <1>5 DEF RestType, Subscribed, TakeMessage, RedisError, redis
  <2> QED
    BY <1>a, <1>q, <2>2, <2>3, <2>4
<1>6. ASSUME NEW ch \in Channel, NEW k \in DOMAIN listeners[ch], NEW s \in Socket, Send(ch, k, s)
      PROVE  TypeOK'
  <2>1. PICK t \in ListenerTask : Replaced(ch, k, t)
    BY <1>6, SendOne
  <2>2. BridgeType'
    BY <1>0, <1>6, <2>1, ReplaceTask DEF Send
  <2>3. RegistryType'
    BY <1>6, <1>a, DisconnectType DEF Send, registry
  <2>4. received' \in [Socket -> [Channel -> Seq(Nat)]] /\ dropped' \in SUBSET Socket
    <3>1. CASE received' = received
      BY <1>0, <1>6, <3>1 DEF RestType, Send, Registered
    <3>2. CASE received' = [received EXCEPT ![s][ch] = Append(@, listeners[ch][k].msg)]
      BY <1>0, <1>6, <3>2, ReceiveType, TaskFields DEF RestType, Send, Registered
    <3> QED
      BY <1>6, <3>1, <3>2 DEF Send
  <2>5. RestType'
    BY <1>0, <1>6, <2>4 DEF RestType, Send, redis
  <2> QED
    BY <1>q, <2>2, <2>3, <2>5
<1>7. CASE UNCHANGED vars
  <2>1. UNCHANGED registry /\ UNCHANGED bridge /\ RestType'
    BY <1>0, <1>7 DEF vars, bridge, redis, RestType
  <2> QED
    BY <1>a, <1>b, <1>q, <2>1
<1> QED
  BY <1>1, <1>2, <1>3, <1>4, <1>5, <1>6, <1>7 DEF Next, ListenerStep

(* Type correctness of the gateway: in particular every bridge entry names a *)
(* task that was created, and a member count is never negative.              *)
THEOREM TypeCorrect == Spec => []TypeOK
BY InitTypeOK, NextTypeOK, PTL DEF Spec

-----------------------------------------------------------------------------
(* The registry                                                              *)

(* The count of an organisation is zero exactly when it has no connection,   *)
(* so both has_no_connections methods answer what the sets would.            *)
LEMMA NoConnections ==
  TypeOK /\ RegistryConsistent =>
    \A ch \in Channel : HasNoConnections(ch) <=> Conns(ch) = {}
<1> SUFFICES ASSUME TypeOK, RegistryConsistent, NEW ch \in Channel
             PROVE  HasNoConnections(ch) <=> Conns(ch) = {}
  OBVIOUS
<1>1. CASE ch \in User
  BY <1>1 DEF HasNoConnections, Conns
<1>2. CASE ch \notin User
  <2>1. ch \in Org /\ orgConns[ch] \subseteq Socket
    BY <1>2 DEF TypeOK, Channel
  <2>2. IsFiniteSet(orgConns[ch])
    BY <2>1, FS_Subset, GatewayAssumption
  <2>3. memberCounts[ch] = 0 <=> orgConns[ch] = {}
    BY <2>1, <2>2, FS_EmptySet DEF RegistryConsistent
  <2> QED
    BY <1>2, <2>3 DEF HasNoConnections, Conns
<1> QED
  BY <1>1, <1>2

(* Connecting an unregistered socket adds it to its own user and             *)
(* organisation and to no other set.                                         *)
LEMMA ConnectKeepsRegistry ==
  ASSUME TypeOK, RegistryConsistent, NEW s \in Socket, connUser[s] = None, connect(s)
  PROVE  /\ RegistryConsistent'
         /\ connUser'[s] # None /\ \A t \in Socket : t # s => connUser'[t] = connUser[t]
         /\ \A ch \in Channel :
              Conns(ch)' = IF ch \in ChannelsOf(s) THEN Conns(ch) \cup {s} ELSE Conns(ch)
<1> DEFINE u == UserOf[s]
           o == OrgOf[u]
<1>0. /\ u \in User /\ o \in Org /\ u # None /\ o # None
      /\ connOrg[s] = None
  BY SocketChannels, GatewayAssumption DEF RegistryConsistent
<1>1. /\ connUser'[s] = u /\ connOrg'[s] = o
      /\ \A t \in Socket : t # s => connUser'[t] = connUser[t] /\ connOrg'[t] = connOrg[t]
  BY DEF TypeOK, connect
<1>2. /\ userConns'[u] = userConns[u] \cup {s}
      /\ \A v \in User : v # u => userConns'[v] = userConns[v]
  BY <1>0 DEF TypeOK, connect
<1>3. /\ orgConns'[o] = orgConns[o] \cup {s}
      /\ \A v \in Org : v # o => orgConns'[v] = orgConns[v]
  BY <1>0 DEF TypeOK, connect
<1>4. /\ memberCounts'[o] = memberCounts[o] + 1
      /\ \A v \in Org : v # o => memberCounts'[v] = memberCounts[v]
  BY <1>0 DEF TypeOK, connect
<1> HIDE DEF u, o
<1>5. \A v \in User : userConns'[v] = {t \in Socket : connUser'[t] = v}
  <2> SUFFICES ASSUME NEW v \in User
               PROVE  userConns'[v] = {t \in Socket : connUser'[t] = v}
    OBVIOUS
  <2>1. userConns[v] = {t \in Socket : connUser[t] = v}
    BY DEF RegistryConsistent
  <2>2. CASE v = u
    BY <1>1, <1>2, <2>1, <2>2
  <2>3. CASE v # u
    BY <1>0, <1>1, <1>2, <2>1, <2>3, GatewayAssumption
  <2> QED
    BY <2>2, <2>3
<1>6. \A v \in Org : orgConns'[v] = {t \in Socket : connOrg'[t] = v}
  <2> SUFFICES ASSUME NEW v \in Org
               PROVE  orgConns'[v] = {t \in Socket : connOrg'[t] = v}
    OBVIOUS
  <2>1. orgConns[v] = {t \in Socket : connOrg[t] = v}
    BY DEF RegistryConsistent
  <2>2. CASE v = o
    BY <1>1, <1>3, <2>1, <2>2
  <2>3. CASE v # o
    BY <1>0, <1>1, <1>3, <2>1, <2>3, GatewayAssumption
  <2> QED
    BY <2>2, <2>3
<1>7. \A v \in Org : memberCounts'[v] = Cardinality(orgConns'[v])
  <2>1. s \notin orgConns[o] /\ IsFiniteSet(orgConns[o])
    <3>1. orgConns[o] = {t \in Socket : connOrg[t] = o}
      BY <1>0 DEF RegistryConsistent
    <3>2. orgConns[o] \subseteq Socket
      BY <3>1
    <3> QED
      BY <1>0, <3>1, <3>2, FS_Subset, GatewayAssumption
  <2>2. Cardinality(orgConns[o] \cup {s}) = Cardinality(orgConns[o]) + 1
    BY <2>1, FS_AddElement
  <2> QED
    BY <1>0, <1>3, <1>4, <2>2 DEF RegistryConsistent
<1>8. \A t \in Socket : /\ connUser'[t] \in {None, UserOf[t]}
                       /\ connOrg'[t] = IF connUser'[t] = None THEN None ELSE OrgOf[UserOf[t]]
  BY <1>0, <1>1 DEF RegistryConsistent, u, o
<1>9. ASSUME NEW ch \in Channel
      PROVE  Conns(ch)' = IF ch \in ChannelsOf(s) THEN Conns(ch) \cup {s} ELSE Conns(ch)
  <2>1. CASE ch \in User
    <3>1. ch # o
      BY <1>0, <2>1, GatewayAssumption
    <3> QED
      BY <1>2, <2>1, <3>1 DEF Conns, ChannelsOf, u, o
  <2>2. CASE ch \in Org
    <3>1. ch # u /\ ch \notin User
      BY <1>0, <2>2, GatewayAssumption
    <3> QED
      BY <1>3, <2>2, <3>1 DEF Conns, ChannelsOf, u, o
  <2> QED
    BY <2>1, <2>2 DEF Channel
<1>10. RegistryConsistent'
  BY <1>5, <1>6, <1>7, <1>8 DEF RegistryConsistent
<1> QED
  BY <1>0, <1>1, <1>9, <1>10

(* Also for a socket that is not registered (any more).                      *)
LEMMA DisconnectKeepsRegistry ==
  ASSUME TypeOK, RegistryConsistent, NEW s \in Socket, disconnect(s)
  PROVE  /\ RegistryConsistent'
         /\ connUser'[s] = None /\ \A t \in Socket : t # s => connUser'[t] = connUser[t]
         /\ \A ch \in Channel : Conns(ch)' = Conns(ch) \ {s}
<1>1. /\ connUser'[s] = None /\ connOrg'[s] = None
      /\ \A t \in Socket : t # s => connUser'[t] = connUser[t] /\ connOrg'[t] = connOrg[t]
  BY DEF TypeOK, disconnect
<1>2. ASSUME NEW v \in User
      PROVE  /\ userConns'[v] = userConns[v] \ {s}
             /\ userConns'[v] = {t \in Socket : connUser'[t] = v}
  <2>1. userConns[v] = {t \in Socket : connUser[t] = v}
    BY DEF RegistryConsistent
  <2>2. userConns'[v] = userConns[v] \ {s}
    <3>1. CASE connUser[s] = None
      <4>1. userConns' = userConns /\ s \notin userConns[v]
        BY <2>1, <3>1, GatewayAssumption DEF disconnect
      <4> QED
        BY <4>1
    <3>2. CASE connUser[s] # None /\ v = connUser[s]
      BY <3>2 DEF TypeOK, disconnect
    <3>3. CASE connUser[s] # None /\ v # connUser[s]
      <4>1. userConns'[v] = userConns[v] /\ s \notin userConns[v]
        BY <2>1, <3>3 DEF TypeOK, disconnect
      <4> QED
        BY <4>1
    <3> QED
      BY <3>1, <3>2, <3>3
  <2> QED
    BY <1>1, <2>1, <2>2, GatewayAssumption
<1>3. ASSUME NEW v \in Org
      PROVE  /\ orgConns'[v] = orgConns[v] \ {s}
             /\ orgConns'[v] = {t \in Socket : connOrg'[t] = v}
             /\ memberCounts'[v] = Cardinality(orgConns'[v])
  <2>1. /\ orgConns[v] = {t \in Socket : connOrg[t] = v}
        /\ memberCounts[v] = Cardinality(orgConns[v])
    BY DEF RegistryConsistent
  <2>2. CASE connOrg[s] # v
    <3>1. orgConns'[v] = orgConns[v] /\ memberCounts'[v] = memberCounts[v] /\ s \notin orgConns[v]
      BY <2>1, <2>2 DEF TypeOK, disconnect
    <3> QED
      BY <1>1, <2>1, <3>1, GatewayAssumption
  <2>3. CASE connOrg[s] = v
    <3> DEFINE left == orgConns[v] \ {s}
    <3>1. v # None /\ s \in orgConns[v] /\ orgConns[v] \subseteq Socket
      BY <2>1, <2>3, GatewayAssumption
    <3>2. /\ orgConns'[v] = left
          /\ memberCounts'[v] = IF left = {} \/ memberCounts[v] = 0 THEN 0 ELSE memberCounts[v] - 1
      BY <2>3, <3>1 DEF TypeOK, disconnect
    <3>3. IsFiniteSet(orgConns[v])
      BY <3>1, FS_Subset, GatewayAssumption
    <3>4. /\ IsFiniteSet(left)
          /\ Cardinality(left) = Cardinality(orgConns[v]) - 1
          /\ Cardinality(orgConns[v]) # 0
          /\ Cardinality(left) = 0 <=> left = {}
      BY <3>1, <3>3, FS_RemoveElement, FS_EmptySet
    <3>5. memberCounts'[v] = Cardinality(left)
      BY <2>1, <3>2, <3>4
    <3> QED
      BY <1>1, <2>1, <3>2, <3>5, GatewayAssumption
  <2> QED
    BY <2>2, <2>3
<1>4. \A t \in Socket : /\ connUser'[t] \in {None, UserOf[t]}
                       /\ connOrg'[t] = IF connUser'[t] = None THEN None ELSE OrgOf[UserOf[t]]
  BY <1>1 DEF RegistryConsistent
<1>5. RegistryConsistent'
  BY <1>2, <1>3, <1>4 DEF RegistryConsistent
<1>6. \A ch \in Channel : Conns(ch)' = Conns(ch) \ {s}
  BY <1>2, <1>3 DEF Conns, Channel
<1> QED
  BY <1>1, <1>5, <1>6

-----------------------------------------------------------------------------
(* The registry and the bridge together.  None of these is inductive alone:  *)
(* that a finally block may cancel the listener it cancels depends on the    *)
(* member count being the size of the set, that a connection is counted once *)
(* depends on a new socket not being registered yet, and so on.              *)

GatewayInv ==
  /\ RegistryConsistent
  /\ RegisteredIsServed
  /\ OneListenerPerChannel
  /\ SubscribedWhileConnected
  /\ LeakOnlyAfterFailedSend

(* A step that leaves the registry alone and keeps every entry, letting a    *)
(* task at most end, keeps the invariant.                                    *)
LEMMA QuietStep ==
  ASSUME TypeOK, GatewayInv, UNCHANGED <<registry, tasks, dropped>>,
         \A s \in Registered : pc'[s] \in Serving,
         \A ch \in Channel : /\ DOMAIN listeners'[ch] = DOMAIN listeners[ch]
                            /\ \A k \in DOMAIN listeners[ch] :
                                 listeners[ch][k].state = "done" => listeners'[ch][k].state = "done"
  PROVE  GatewayInv'
<1>1. UNCHANGED <<userConns, orgConns, connUser, connOrg, memberCounts, tasks, dropped>>
  BY DEF registry
<1>2. RegistryConsistent' /\ RegisteredIsServed'
  BY <1>1 DEF GatewayInv, RegistryConsistent, RegisteredIsServed, Registered
<1>3. OneListenerPerChannel'
  BY <1>1 DEF GatewayInv, OneListenerPerChannel
<1>4. SubscribedWhileConnected' /\ LeakOnlyAfterFailedSend'
  BY <1>1 DEF GatewayInv, SubscribedWhileConnected, LeakOnlyAfterFailedSend, Conns
<1> QED
  BY <1>2, <1>3, <1>4 DEF GatewayInv

(* A new connection keeps the invariant: the fresh task is the only running  *)
(* one of its channel, the old ones being done.                              *)
LEMMA ConnectStep ==
  ASSUME TypeOK, GatewayInv, NEW s \in Socket, Connect(s)
  PROVE  GatewayInv'
<1>1. /\ pc[s] = "new" /\ pc' = [pc EXCEPT ![s] = "greeting"]
      /\ connect(s) /\ subscribe(ChannelsOf(s)) /\ dropped' = dropped
  BY DEF Connect
<1>2. connUser[s] = None
  BY <1>1 DEF GatewayInv, RegisteredIsServed, Registered, Serving
<1>3. /\ RegistryConsistent'
      /\ \A t \in Socket : t # s => connUser'[t] = connUser[t]
      /\ \A ch \in Channel :
           Conns(ch)' = IF ch \in ChannelsOf(s) THEN Conns(ch) \cup {s} ELSE Conns(ch)
  BY <1>1, <1>2, ConnectKeepsRegistry DEF GatewayInv
<1>4. RegisteredIsServed'
  BY <1>1, <1>3 DEF TypeOK, GatewayInv, RegisteredIsServed, Registered, Serving
<1>5. \A ch \in Channel :
        IF ch \in ChannelsOf(s) /\ tasks[ch] = 0
        THEN /\ listeners'[ch] = Append(listeners[ch], NewTask)
             /\ tasks'[ch] = Len(listeners[ch]) + 1
        ELSE listeners'[ch] = listeners[ch] /\ tasks'[ch] = tasks[ch]
  BY <1>1, TypeParts, SubscribeType
<1>6. OneListenerPerChannel'
  <2> SUFFICES ASSUME NEW ch \in Channel, NEW k \in DOMAIN listeners'[ch],
                      listeners'[ch][k].state # "done"
               PROVE  tasks'[ch] = k
    BY DEF OneListenerPerChannel
  <2>1. CASE ch \in ChannelsOf(s) /\ tasks[ch] = 0
    <3>1. listeners[ch] \in Seq(ListenerTask)
      BY DEF TypeOK
    <3>2. listeners'[ch] = Append(listeners[ch], NewTask) /\ tasks'[ch] = Len(listeners[ch]) + 1
      BY <1>5, <2>1
    <3>3. CASE k \in DOMAIN listeners[ch]
      <4>1. listeners[ch][k].state # "done" /\ k # 0
        BY <3>1, <3>2, <3>3
      <4> QED
        BY <2>1, <3>3, <4>1 DEF GatewayInv, OneListenerPerChannel
    <3>4. CASE k \notin DOMAIN listeners[ch]
      BY <3>1, <3>2, <3>4
    <3> QED
      BY <3>3, <3>4
  <2>2. CASE ~(ch \in ChannelsOf(s) /\ tasks[ch] = 0)
    BY <1>5, <2>2 DEF GatewayInv, OneListenerPerChannel
  <2> QED
    BY <2>1, <2>2
<1>7. ASSUME NEW ch \in Channel
      PROVE  /\ ch \in ChannelsOf(s) => tasks'[ch] # 0
             /\ ch \notin ChannelsOf(s) => tasks'[ch] = tasks[ch]
  <2>1. Len(listeners[ch]) \in Nat
    BY DEF TypeOK
  <2> QED
    BY <1>5, <2>1
<1>8. SubscribedWhileConnected'
  BY <1>3, <1>7 DEF GatewayInv, SubscribedWhileConnected
<1>9. LeakOnlyAfterFailedSend'
  BY <1>1, <1>3, <1>7 DEF GatewayInv, LeakOnlyAfterFailedSend
<1> QED
  BY <1>3, <1>4, <1>6, <1>8, <1>9 DEF GatewayInv

(* The finally block keeps the invariant: an entry goes exactly when its     *)
(* channel has lost its last connection.                                     *)
LEMMA FinishStep ==
  ASSUME TypeOK, TypeOK', GatewayInv, NEW s \in Socket, Finish(s)
  PROVE  GatewayInv'
<1> DEFINE chans == {ch \in {connUser[s], connOrg[s]} \ {None} : HasNoConnections(ch)'}
<1>1. /\ pc[s] \in Serving /\ \A t \in Socket : t # s => pc'[t] = pc[t]
      /\ disconnect(s) /\ unsubscribe(chans) /\ dropped' = dropped
  BY DEF TypeOK, Finish, Serving
<1>2. /\ RegistryConsistent'
      /\ connUser'[s] = None /\ \A t \in Socket : t # s => connUser'[t] = connUser[t]
      /\ \A ch \in Channel : Conns(ch)' = Conns(ch) \ {s}
  BY <1>1, DisconnectKeepsRegistry DEF GatewayInv
<1>3. \A ch \in Channel : HasNoConnections(ch)' <=> Conns(ch)' = {}
  <2>1. (TypeOK /\ RegistryConsistent =>
           \A ch \in Channel : HasNoConnections(ch) <=> Conns(ch) = {})'
    BY NoConnections, PTL
  <2> QED
    BY <1>2, <2>1
<1>4. RegisteredIsServed'
  BY <1>1, <1>2 DEF GatewayInv, RegisteredIsServed, Registered
<1>5. /\ \A ch \in Channel : DOMAIN listeners'[ch] = DOMAIN listeners[ch]
      /\ \A ch \in Channel : tasks'[ch] = IF ch \in chans THEN 0 ELSE tasks[ch]
      /\ \A ch \in Channel : \A k \in DOMAIN listeners[ch] :
           listeners'[ch][k] = IF ch \in chans /\ k = tasks[ch] THEN DoneTask
                                                               ELSE listeners[ch][k]
  BY <1>1, TypeParts, UnsubscribeType
<1>6. \A ch \in chans : ch \in Channel => Conns(ch)' = {}
  BY <1>3
<1>7. connUser[s] # None => chans = {ch \in ChannelsOf(s) : HasNoConnections(ch)'}
  BY SocketChannels, GatewayAssumption DEF GatewayInv, RegistryConsistent, ChannelsOf
<1> HIDE DEF chans
<1>8. OneListenerPerChannel'
  BY <1>5, TaskTypes DEF GatewayInv, OneListenerPerChannel
<1>9. SubscribedWhileConnected'
  BY <1>2, <1>5, <1>6 DEF GatewayInv, SubscribedWhileConnected
<1>10. LeakOnlyAfterFailedSend'
  <2> SUFFICES ASSUME NEW ch \in Channel, tasks'[ch] # 0, Conns(ch)' = {}
               PROVE  \E t \in dropped : ch \in ChannelsOf(t)
    BY <1>1 DEF LeakOnlyAfterFailedSend
  <2>1. ch \notin chans /\ tasks[ch] # 0
    BY <1>5
  <2>2. Conns(ch) = {}
    <3>1. CASE s \in Conns(ch)
      <4>1. connUser[s] # None /\ ch \in ChannelsOf(s)
        BY <3>1, SocketChannels, GatewayAssumption
        DEF GatewayInv, RegistryConsistent, Conns, Channel, ChannelsOf
      <4> QED
        BY <1>3, <1>7, <2>1, <4>1
    <3>2. CASE s \notin Conns(ch)
      BY <1>2, <3>2
    <3> QED
      BY <3>1, <3>2
  <2> QED
    BY <2>1, <2>2 DEF GatewayInv, LeakOnlyAfterFailedSend
<1> QED
  BY <1>2, <1>4, <1>8, <1>9, <1>10 DEF GatewayInv

(* A send keeps the invariant: a socket it drops is remembered in dropped.   *)
LEMMA SendStep ==
  ASSUME TypeOK, GatewayInv, NEW ch \in Channel, NEW k, NEW s, Send(ch, k, s)
  PROVE  GatewayInv'
<1>1. /\ k \in DOMAIN listeners[ch] /\ s \in listeners[ch][k].todo /\ s \in Socket
  BY SendOne
<1>2. PICK t \in ListenerTask : /\ Replaced(ch, k, t)
                                /\ t = [listeners[ch][k] EXCEPT !.todo = @ \ {s}]
  BY SendOne
<1>2a. t.state = listeners[ch][k].state
  BY <1>1, <1>2, TaskFields DEF ListenerTask
<1>3. tasks' = tasks /\ pc' = pc
  BY DEF Send
<1>4. \A c \in Channel : /\ DOMAIN listeners'[c] = DOMAIN listeners[c]
                        /\ \A j \in DOMAIN listeners[c] :
                             listeners'[c][j].state = listeners[c][j].state
  <2>1. \A c \in Channel : /\ DOMAIN listeners'[c] = DOMAIN listeners[c]
                          /\ \A j \in DOMAIN listeners[c] :
                               c # ch \/ j # k => listeners'[c][j] = listeners[c][j]
    <3>1. BridgeType /\ tasks' = tasks /\ Replaced(ch, k, t)
      BY <1>2, <1>3, TypeParts
    <3> QED
      BY <1>1, <3>1, ReplaceTask
  <2>2. listeners'[ch][k] = t
    BY <1>1, <1>2, <1>3, TypeParts, ReplaceTask
  <2> QED
    BY <1>2a, <2>1, <2>2
<1>5. CASE UNCHANGED <<registry, dropped>>
  <2>1. \A r \in Registered : pc'[r] \in Serving
    BY <1>3 DEF GatewayInv, RegisteredIsServed
  <2> QED
    BY <1>3, <1>4, <1>5, <2>1, QuietStep
<1>6. CASE disconnect(s) /\ dropped' = dropped \cup ({s} \cap Registered)
  <2>1. /\ RegistryConsistent'
        /\ connUser'[s] = None /\ \A r \in Socket : r # s => connUser'[r] = connUser[r]
        /\ \A c \in Channel : Conns(c)' = Conns(c) \ {s}
    BY <1>1, <1>6, DisconnectKeepsRegistry DEF GatewayInv
  <2>2. RegisteredIsServed'
    BY <1>3, <2>1 DEF GatewayInv, RegisteredIsServed, Registered
  <2>3. OneListenerPerChannel'
    BY <1>3, <1>4 DEF GatewayInv, OneListenerPerChannel
  <2>4. SubscribedWhileConnected'
    BY <1>3, <2>1 DEF GatewayInv, SubscribedWhileConnected
  <2>5. \A c \in Channel : s \in Conns(c) => s \in Registered /\ c \in ChannelsOf(s)
    BY <1>1, SocketChannels, GatewayAssumption
    DEF GatewayInv, RegistryConsistent, Conns, Channel, ChannelsOf, Registered
  <2>6. LeakOnlyAfterFailedSend'
    <3> SUFFICES ASSUME NEW c \in Channel, tasks[c] # 0, Conns(c)' = {}
                 PROVE  \E r \in dropped' : c \in ChannelsOf(r)
      BY <1>3 DEF LeakOnlyAfterFailedSend
    <3>1. CASE s \in Conns(c)
      BY <1>6, <2>5, <3>1
    <3>2. CASE s \notin Conns(c)
      BY <1>6, <2>1, <3>2 DEF GatewayInv, LeakOnlyAfterFailedSend
    <3> QED
      BY <3>1, <3>2
  <2> QED
    BY <2>1, <2>2, <2>3, <2>4, <2>6 DEF GatewayInv
<1> QED
  BY <1>5, <1>6 DEF Send

(* GatewayInv is kept by every step of the endpoints, the listeners, the     *)
(* publishers and Redis.                                                     *)
LEMMA GatewayInvStep == TypeOK /\ TypeOK' /\ GatewayInv /\ [Next]_vars => GatewayInv'
<1> SUFFICES ASSUME TypeOK, TypeOK', GatewayInv, [Next]_vars
             PROVE  GatewayInv'
  OBVIOUS
<1>0. \A s \in Registered : s \in Socket /\ pc[s] \in Serving
  BY DEF GatewayInv, RegisteredIsServed, Registered
<1>1. ASSUME NEW s \in Socket, Reject(s) \/ Greet(s) \/ ClientDrops(s)
      PROVE  GatewayInv'
  <2>1. UNCHANGED <<registry, tasks, dropped>> /\ listeners' = listeners
    BY <1>1 DEF Reject, Greet, ClientDrops, bridge
  <2>2. \A t \in Registered : pc'[t] \in Serving
    BY <1>0, <1>1 DEF TypeOK, Reject, Greet, ClientDrops, Serving
  <2> QED
    BY <2>1, <2>2, QuietStep
<1>2. ASSUME NEW s \in Socket, Connect(s) \/ Finish(s)
      PROVE  GatewayInv'
  BY <1>2, ConnectStep, FinishStep
<1>3. ASSUME NEW ch \in Channel, Publish(ch)
      PROVE  GatewayInv'
  <2>1. UNCHANGED <<registry, tasks, dropped>> /\ pc' = pc
    BY <1>3 DEF Publish
  <2> QED
    BY <1>0, <1>3, <2>1, PublishAll, QuietStep
<1>4. ASSUME NEW ch \in Channel, NEW k \in DOMAIN listeners[ch],
             Subscribed(ch, k) \/ TakeMessage(ch, k) \/ RedisError(ch, k)
      PROVE  GatewayInv'
  <2>1. /\ UNCHANGED <<registry, tasks, dropped>> /\ pc' = pc
        /\ listeners[ch][k].state # "done"
    BY <1>4 DEF Subscribed, TakeMessage, RedisError, IsIn
  <2>2. PICK t \in ListenerTask : Replaced(ch, k, t)
    BY <1>4, StartListening, TakeOne, TaskTypes DEF RedisError, Replaced
  <2>3. \A c \in Channel : /\ DOMAIN listeners'[c] = DOMAIN listeners[c]
                          /\ \A j \in DOMAIN listeners[c] :
                               c # ch \/ j # k => listeners'[c][j] = listeners[c][j]
    <3>1. tasks' = tasks /\ BridgeType
      BY <2>1, TypeParts
    <3> QED
      BY <2>2, <3>1, ReplaceTask
  <2> QED
    BY <1>0, <2>1, <2>3, QuietStep
<1>5. ASSUME NEW ch \in Channel, NEW k \in DOMAIN listeners[ch], NEW s \in Socket, Send(ch, k, s)
      PROVE  GatewayInv'
  BY <1>5, SendStep
<1>6. CASE UNCHANGED vars
  BY <1>0, <1>6, QuietStep DEF vars, bridge
<1> QED
  BY <1>1, <1>2, <1>3, <1>4, <1>5, <1>6 DEF Next, ListenerStep

(* The inductive invariant holds in every reachable state.                   *)
LEMMA GatewayInvariant == Spec => []GatewayInv
<1>1. Init => GatewayInv
  <2> SUFFICES ASSUME Init PROVE GatewayInv
    OBVIOUS
  <2>1. /\ \A s \in Socket : connUser[s] = None /\ connOrg[s] = None
        /\ \A u \in User : userConns[u] = {}
        /\ \A o \in Org : orgConns[o] = {} /\ memberCounts[o] = 0
        /\ \A ch \in Channel : listeners[ch] = <<>> /\ tasks[ch] = 0
    BY DEF Init
  <2>2. RegistryConsistent
    BY <2>1, FS_EmptySet, GatewayAssumption DEF RegistryConsistent
  <2>3. RegisteredIsServed /\ OneListenerPerChannel
    BY <2>1 DEF RegisteredIsServed, Registered, OneListenerPerChannel
  <2>4. SubscribedWhileConnected /\ LeakOnlyAfterFailedSend
    BY <2>1 DEF SubscribedWhileConnected, LeakOnlyAfterFailedSend, Conns, Channel
  <2> QED
    BY <2>2, <2>3, <2>4 DEF GatewayInv
<1> QED
  BY <1>1, GatewayInvStep, TypeCorrect, PTL DEF Spec

(* The five maps of ConnectionManager always agree.                          *)
THEOREM RegistryAgrees == Spec => []RegistryConsistent
<1>1. GatewayInv => RegistryConsistent
  BY DEF GatewayInv
<1> QED
  BY <1>1, GatewayInvariant, PTL

(* Nothing is retained for a connection whose endpoint has ended.            *)
THEOREM NoRetainedSockets == Spec => []RegisteredIsServed
<1>1. GatewayInv => RegisteredIsServed
  BY DEF GatewayInv
<1> QED
  BY <1>1, GatewayInvariant, PTL

(* A channel never has two running listeners, nor one that the bridge can no *)
(* longer cancel.                                                            *)
THEOREM SingleListener == Spec => []OneListenerPerChannel
<1>1. GatewayInv => OneListenerPerChannel
  BY DEF GatewayInv
<1> QED
  BY <1>1, GatewayInvariant, PTL

(* The end of one connection never removes the entry another one needs.      *)
THEOREM EntryWhileConnected == Spec => []SubscribedWhileConnected
<1>1. GatewayInv => SubscribedWhileConnected
  BY DEF GatewayInv
<1> QED
  BY <1>1, GatewayInvariant, PTL

(* Entries without connections come from failed sends only.                  *)
THEOREM EntryLeaks == Spec => []LeakOnlyAfterFailedSend
<1>1. GatewayInv => LeakOnlyAfterFailedSend
  BY DEF GatewayInv
<1> QED
  BY <1>1, GatewayInvariant, PTL

-----------------------------------------------------------------------------
(* Refinement                                                                *)

(* What a listener of ch still has to forward is newer than what it is       *)
(* forwarding, which is newer than anything its recipients have; and its     *)
(* recipients are entitled to ch.                                            *)
Orderly(ch, l) ==
  /\ l.state # "listening" => l.inbox = <<>> /\ l.todo = {}
  /\ \A i \in DOMAIN l.inbox : l.inbox[i] \in 1..published[ch]
  /\ \A i, j \in DOMAIN l.inbox : i < j => l.inbox[i] < l.inbox[j]
  /\ l.todo # {} => /\ l.msg \in 1..published[ch]
                    /\ \A i \in DOMAIN l.inbox : l.msg < l.inbox[i]
  /\ \A s \in l.todo : ch \in ChannelsOf(s)
  /\ \A s \in Socket : \A i \in DOMAIN received[s][ch] :
       /\ \A j \in DOMAIN l.inbox : received[s][ch][i] < l.inbox[j]
       /\ s \in l.todo => received[s][ch][i] < l.msg

ForwardInv ==
  /\ \A ch \in Channel : \A k \in DOMAIN listeners[ch] : Orderly(ch, listeners[ch][k])
  /\ \A ch \in Channel : \A s \in Socket : \A i \in DOMAIN received[s][ch] :
       received[s][ch][i] \in 1..published[ch]

(* A step that publishes and receives nothing, and at most clears tasks or   *)
(* adds cleared ones.                                                        *)
LEMMA ClearingStep ==
  ASSUME TypeOK, ForwardInv, published' = published, received' = received,
         \A ch \in Channel : \A k \in DOMAIN listeners'[ch] :
           \/ k \in DOMAIN listeners[ch] /\ listeners'[ch][k] = listeners[ch][k]
           \/ listeners'[ch][k].inbox = <<>> /\ listeners'[ch][k].todo = {}
  PROVE  ForwardInv'
<1>1. ASSUME NEW ch \in Channel, NEW k \in DOMAIN listeners'[ch]
      PROVE  Orderly(ch, listeners[ch][k])'
  <2>1. CASE k \in DOMAIN listeners[ch] /\ listeners'[ch][k] = listeners[ch][k]
    BY <2>1 DEF ForwardInv, Orderly
  <2>2. CASE listeners'[ch][k].inbox = <<>> /\ listeners'[ch][k].todo = {}
    BY <2>2 DEF Orderly
  <2> QED
    BY <2>1, <2>2
<1> QED
  BY <1>1 DEF ForwardInv

(* Publishing keeps the messages in flight in order: the number appended is  *)
(* larger than all before it.                                                *)
LEMMA ForwardPublish ==
  ASSUME TypeOK, ForwardInv, NEW ch \in Channel, Publish(ch)
  PROVE  ForwardInv'
<1>1. /\ published'[ch] = published[ch] + 1 /\ published[ch] \in Nat
      /\ \A c \in Channel : c # ch => published'[c] = published[c]
      /\ received' = received
  BY DEF TypeOK, Publish
<1>2. ASSUME NEW c \in Channel, NEW s \in Socket, NEW i \in DOMAIN received[s][c]
      PROVE  received[s][c][i] \in 1..published'[c]
  <2>1. received[s][c][i] \in 1..published[c]
    BY DEF ForwardInv
  <2> QED
    BY <1>1, <2>1
<1>3. ASSUME NEW c \in Channel, NEW k \in DOMAIN listeners[c]
      PROVE  Orderly(c, listeners[c][k])'
  <2> DEFINE l == listeners[c][k]
             m == listeners'[c][k]
  <2>0. Orderly(c, l)
    BY DEF ForwardInv
  <2>1. /\ m.state = l.state /\ m.msg = l.msg /\ m.todo = l.todo
        /\ m.inbox = IF c = ch /\ l.state = "listening"
                     THEN Append(l.inbox, published[ch] + 1) ELSE l.inbox
    BY PublishAll
  <2>2. l.inbox \in Seq(Nat) /\ l.msg \in Nat
    BY TaskFields
  <2> HIDE DEF l, m
  <2>3. CASE c = ch /\ l.state = "listening"
    <3>1. /\ DOMAIN m.inbox = 1..Len(l.inbox) + 1
          /\ \A i \in 1..Len(l.inbox) : m.inbox[i] = l.inbox[i]
          /\ m.inbox[Len(l.inbox) + 1] = published[ch] + 1
          /\ DOMAIN l.inbox = 1..Len(l.inbox) /\ Len(l.inbox) \in Nat
      BY <1>1, <2>1, <2>2, <2>3
    <3>2. \A i \in 1..Len(l.inbox) : l.inbox[i] \in 1..published[ch]
      BY <2>0, <2>3, <3>1 DEF Orderly
    <3>3. ASSUME NEW i \in DOMAIN m.inbox
          PROVE  m.inbox[i] \in 1..published'[ch]
      <4>1. CASE i \in 1..Len(l.inbox)
        BY <1>1, <3>1, <3>2, <4>1
      <4>2. CASE i = Len(l.inbox) + 1
        BY <1>1, <3>1, <4>2
      <4> QED
        BY <3>1, <4>1, <4>2
    <3>4. \A i, j \in DOMAIN m.inbox : i < j => m.inbox[i] < m.inbox[j]
      <4> SUFFICES ASSUME NEW i \in DOMAIN m.inbox, NEW j \in DOMAIN m.inbox, i < j
                   PROVE  m.inbox[i] < m.inbox[j]
        OBVIOUS
      <4>1. i \in 1..Len(l.inbox) /\ m.inbox[i] = l.inbox[i]
        BY <3>1
      <4>2. CASE j \in 1..Len(l.inbox)
        BY <2>0, <3>1, <4>1, <4>2 DEF Orderly
      <4>3. CASE j = Len(l.inbox) + 1
        BY <1>1, <3>1, <3>2, <4>1, <4>3
      <4> QED
        BY <3>1, <4>2, <4>3
    <3>5. m.todo # {} => /\ m.msg \in 1..published'[ch]
                        /\ \A i \in DOMAIN m.inbox : m.msg < m.inbox[i]
      <4> SUFFICES ASSUME m.todo # {}
                   PROVE  /\ m.msg \in 1..published'[ch]
                          /\ \A i \in DOMAIN m.inbox : m.msg < m.inbox[i]
        OBVIOUS
      <4>1. l.msg \in 1..published[ch] /\ \A i \in DOMAIN l.inbox : l.msg < l.inbox[i]
        BY <2>0, <2>1, <2>3 DEF Orderly
      <4> QED
        BY <1>1, <2>1, <3>1, <4>1
    <3>6. ASSUME NEW s \in Socket, NEW i \in DOMAIN received[s][ch]
          PROVE  /\ \A j \in DOMAIN m.inbox : received[s][ch][i] < m.inbox[j]
                 /\ s \in m.todo => received[s][ch][i] < m.msg
      <4>1. /\ received[s][ch][i] \in 1..published[ch]
            /\ \A j \in DOMAIN l.inbox : received[s][ch][i] < l.inbox[j]
            /\ s \in l.todo => received[s][ch][i] < l.msg
        BY <2>0, <2>3 DEF ForwardInv, Orderly
      <4> QED
        BY <1>1, <2>1, <3>1, <4>1
    <3>7. \A s \in m.todo : ch \in ChannelsOf(s)
      BY <2>0, <2>1, <2>3 DEF Orderly
    <3> QED
      BY <1>1, <2>1, <2>3, <3>3, <3>4, <3>5, <3>6, <3>7 DEF Orderly, m
  <2>4. CASE ~(c = ch /\ l.state = "listening")
    <3>1. m.inbox = l.inbox /\ m.state = l.state /\ m.msg = l.msg /\ m.todo = l.todo
      BY <2>1, <2>4
    <3>2. CASE c # ch
      BY <1>1, <2>0, <3>1, <3>2 DEF Orderly, m
    <3>3. CASE l.state # "listening"
      BY <2>0, <3>1, <3>3 DEF Orderly, m
    <3> QED
      BY <2>4, <3>2, <3>3
  <2> QED
    BY <2>3, <2>4
<1> QED
  BY <1>1, <1>2, <1>3, PublishAll DEF ForwardInv

(* Taking a message keeps the order: the head of an inbox is smaller than    *)
(* the rest and larger than what the sockets of the channel have received.   *)
LEMMA ForwardTake ==
  ASSUME TypeOK, RegistryConsistent, ForwardInv, NEW ch \in Channel, NEW k, TakeMessage(ch, k)
  PROVE  ForwardInv'
<1> DEFINE l == listeners[ch][k]
<1>1. /\ k \in DOMAIN listeners[ch] /\ l.state = "listening" /\ l.inbox # <<>>
      /\ published' = published /\ received' = received /\ tasks' = tasks
  BY DEF TakeMessage, IsIn, redis
<1>2. PICK t \in ListenerTask :
        /\ Replaced(ch, k, t)
        /\ IF HasNoConnections(ch) THEN t = DoneTask
           ELSE /\ t.state = "listening" /\ t.todo = Conns(ch)
                /\ t.inbox = Tail(l.inbox) /\ t.msg = Head(l.inbox)
  BY TakeOne
<1>3. /\ \A c \in Channel : DOMAIN listeners'[c] = DOMAIN listeners[c]
      /\ listeners'[ch][k] = t
      /\ \A c \in Channel : \A j \in DOMAIN listeners[c] :
           c # ch \/ j # k => listeners'[c][j] = listeners[c][j]
  <2>1. BridgeType /\ tasks' = tasks /\ k \in DOMAIN listeners[ch]
    BY <1>1, TypeParts
  <2>2. t \in ListenerTask /\ Replaced(ch, k, t)
    BY <1>2 DEF Replaced
  <2> HIDE DEF l
  <2> QED
    BY <2>1, <2>2, ReplaceTask
<1>4. Orderly(ch, l) /\ l.inbox \in Seq(Nat)
  BY <1>1, TaskFields DEF ForwardInv
<1>5. ASSUME NEW s \in Conns(ch)
      PROVE  ch \in ChannelsOf(s)
  BY SocketChannels, GatewayAssumption DEF RegistryConsistent, Conns, ChannelsOf, Channel
<1> HIDE DEF l
<1>6. Orderly(ch, t)'
  <2>1. CASE HasNoConnections(ch)
    BY <1>2, <2>1, TaskTypes DEF Orderly
  <2>2. CASE ~HasNoConnections(ch)
    <3>1. /\ t.state = "listening" /\ t.todo = Conns(ch)
          /\ t.inbox = Tail(l.inbox) /\ t.msg = l.inbox[1]
      BY <1>2, <2>2
    <3>2. /\ DOMAIN t.inbox = 1..Len(l.inbox) - 1 /\ Len(l.inbox) \in Nat \ {0}
          /\ \A i \in 1..Len(l.inbox) - 1 : t.inbox[i] = l.inbox[i + 1]
          /\ DOMAIN l.inbox = 1..Len(l.inbox)
      BY <1>1, <1>4, <3>1
    <3>3. /\ \A i \in 1..Len(l.inbox) : l.inbox[i] \in 1..published[ch]
          /\ \A i, j \in 1..Len(l.inbox) : i < j => l.inbox[i] < l.inbox[j]
          /\ \A s \in Socket : \A i \in DOMAIN received[s][ch] :
               \A j \in 1..Len(l.inbox) : received[s][ch][i] < l.inbox[j]
      BY <1>4, <3>2 DEF Orderly
    <3>4. \A i \in DOMAIN t.inbox :
            /\ i + 1 \in 1..Len(l.inbox) /\ 1 \in 1..Len(l.inbox) /\ 1 < i + 1
            /\ t.inbox[i] = l.inbox[i + 1]
      BY <3>2
    <3>5. \A i \in DOMAIN t.inbox : t.inbox[i] \in 1..published[ch] /\ t.msg < t.inbox[i]
      BY <3>1, <3>3, <3>4
    <3>6. \A i, j \in DOMAIN t.inbox : i < j => t.inbox[i] < t.inbox[j]
      <4> SUFFICES ASSUME NEW i \in DOMAIN t.inbox, NEW j \in DOMAIN t.inbox, i < j
                   PROVE  t.inbox[i] < t.inbox[j]
        OBVIOUS
      <4>1. i \in Nat /\ j \in Nat /\ i + 1 < j + 1
        BY <3>2
      <4> QED
        BY <3>3, <3>4, <4>1
    <3>7. t.msg \in 1..published[ch]
      BY <3>1, <3>2, <3>3
    <3>8. ASSUME NEW s \in Socket, NEW i \in DOMAIN received[s][ch]
          PROVE  /\ \A j \in DOMAIN t.inbox : received[s][ch][i] < t.inbox[j]
                 /\ received[s][ch][i] < t.msg
      BY <3>1, <3>2, <3>3, <3>4
    <3> QED
      BY <1>1, <1>5, <3>1, <3>5, <3>6, <3>7, <3>8 DEF Orderly
  <2> QED
    BY <2>1, <2>2
<1>7. ASSUME NEW c \in Channel, NEW j \in DOMAIN listeners[c], c # ch \/ j # k
      PROVE  Orderly(c, listeners[c][j])'
  BY <1>1, <1>3, <1>7 DEF ForwardInv, Orderly
<1>8. ASSUME NEW c \in Channel, NEW j \in DOMAIN listeners[c]
      PROVE  Orderly(c, listeners[c][j])'
  BY <1>3, <1>6, <1>7, <1>8
<1>9. \A c \in Channel : \A s \in Socket : \A i \in DOMAIN received'[s][c] :
        received'[s][c][i] \in 1..published'[c]
  BY <1>1 DEF ForwardInv
<1> QED
  BY <1>3, <1>8, <1>9 DEF ForwardInv

(* A message that is sent is newer than everything its receiver has, was     *)
(* published, and is on a channel of the receiver: an abstract Deliver.      *)
LEMMA ForwardSend ==
  ASSUME TypeOK, OneListenerPerChannel, ForwardInv,
         NEW ch \in Channel, NEW k, NEW s, Send(ch, k, s)
  PROVE  /\ ForwardInv'
         /\ \/ UNCHANGED <<published, received>>
            \/ /\ listeners[ch][k].msg \in 1..published[ch]
               /\ Fanout!Deliver(s, ch, listeners[ch][k].msg)
<1> DEFINE l == listeners[ch][k]
<1>1. /\ k \in DOMAIN listeners[ch] /\ s \in l.todo /\ s \in Socket
      /\ l.state = "listening" /\ published' = published /\ tasks' = tasks
      /\ l \in ListenerTask /\ l.inbox \in Seq(Nat) /\ l.msg \in Nat
  BY SendOne, TaskFields DEF Send, IsIn, redis
<1>2. PICK t \in ListenerTask : /\ Replaced(ch, k, t)
                                /\ t = [l EXCEPT !.todo = @ \ {s}]
  BY SendOne
<1>3. /\ \A c \in Channel : DOMAIN listeners'[c] = DOMAIN listeners[c]
      /\ listeners'[ch][k] = t
      /\ \A c \in Channel : \A j \in DOMAIN listeners[c] :
           c # ch \/ j # k => listeners'[c][j] = listeners[c][j]
  <2>1. BridgeType /\ tasks' = tasks /\ k \in DOMAIN listeners[ch]
    BY <1>1, TypeParts
  <2>2. t \in ListenerTask /\ Replaced(ch, k, t)
    BY <1>2 DEF Replaced
  <2> HIDE DEF l
  <2> QED
    BY <2>1, <2>2, ReplaceTask
<1>4. t.state = l.state /\ t.inbox = l.inbox /\ t.msg = l.msg /\ t.todo = l.todo \ {s}
  BY <1>1, <1>2 DEF ListenerTask
<1>5. Orderly(ch, l)
  BY <1>1 DEF ForwardInv
<1>6. \/ received' = received
      \/ received' = [received EXCEPT ![s][ch] = Append(@, l.msg)]
  BY DEF Send
<1>7. /\ l.msg \in 1..published[ch] /\ ch \in ChannelsOf(s)
      /\ \A i \in DOMAIN l.inbox : l.msg < l.inbox[i]
      /\ \A i \in DOMAIN received[s][ch] : received[s][ch][i] < l.msg
  BY <1>1, <1>5 DEF Orderly
<1>8. ASSUME NEW j \in DOMAIN listeners[ch], j # k
      PROVE  listeners[ch][j].inbox = <<>> /\ listeners[ch][j].todo = {}
  <2>1. listeners[ch][j].state = "done"
    BY <1>1, <1>8 DEF OneListenerPerChannel
  <2> QED
    BY <2>1 DEF ForwardInv, Orderly
<1> HIDE DEF l
<1>9. CASE received' = received
  <2>1. Orderly(ch, t)'
    BY <1>1, <1>4, <1>5, <1>9 DEF Orderly
  <2>2. ASSUME NEW c \in Channel, NEW j \in DOMAIN listeners[c], c # ch \/ j # k
        PROVE  Orderly(c, listeners[c][j])'
    BY <1>1, <1>3, <1>9, <2>2 DEF ForwardInv, Orderly
  <2>3. ASSUME NEW c \in Channel, NEW j \in DOMAIN listeners[c]
        PROVE  Orderly(c, listeners[c][j])'
    BY <1>3, <2>1, <2>2, <2>3
  <2> QED
    BY <1>1, <1>3, <1>9, <2>3 DEF ForwardInv
<1>10. CASE received' = [received EXCEPT ![s][ch] = Append(@, l.msg)]
  <2>1. \A r \in Socket, c \in Channel :
          received'[r][c] = IF r = s /\ c = ch THEN Append(received[r][c], l.msg)
                                              ELSE received[r][c]
    BY <1>1, <1>10, ReceiveType
  <2>2. /\ received[s][ch] \in Seq(Nat)
        /\ received'[s][ch] = Append(received[s][ch], l.msg)
        /\ \A r \in Socket, c \in Channel : r # s \/ c # ch => received'[r][c] = received[r][c]
    BY <1>1, <2>1 DEF TypeOK
  <2>3. /\ DOMAIN received'[s][ch] = 1..Len(received[s][ch]) + 1
        /\ Len(received[s][ch]) \in Nat /\ DOMAIN received[s][ch] = 1..Len(received[s][ch])
        /\ \A i \in 1..Len(received[s][ch]) : received'[s][ch][i] = received[s][ch][i]
        /\ received'[s][ch][Len(received[s][ch]) + 1] = l.msg
    BY <1>1, <2>2
  <2>4. ASSUME NEW i \in DOMAIN received'[s][ch]
        PROVE  /\ received'[s][ch][i] \in 1..published'[ch]
               /\ \A j \in DOMAIN l.inbox : received'[s][ch][i] < l.inbox[j]
    <3>1. CASE i \in 1..Len(received[s][ch])
      BY <1>1, <1>5, <2>3, <3>1 DEF ForwardInv, Orderly
    <3>2. CASE i = Len(received[s][ch]) + 1
      BY <1>1, <1>7, <2>3, <3>2
    <3> QED
      BY <2>3, <3>1, <3>2
  <2>5. Orderly(ch, t)'
    <3>1. ASSUME NEW r \in Socket, NEW i \in DOMAIN received'[r][ch]
          PROVE  /\ \A j \in DOMAIN t.inbox : received'[r][ch][i] < t.inbox[j]
                 /\ r \in t.todo => received'[r][ch][i] < t.msg
      <4>1. CASE r = s
        BY <1>4, <2>4, <4>1
      <4>2. CASE r # s
        <5>1. received'[r][ch] = received[r][ch]
          BY <2>2, <4>2
        <5> QED
          BY <1>4, <1>5, <4>2, <5>1 DEF Orderly
      <4> QED
        BY <4>1, <4>2
    <3>2. /\ t.state = "listening"
          /\ \A i \in DOMAIN t.inbox : t.inbox[i] \in 1..published'[ch]
          /\ \A i, j \in DOMAIN t.inbox : i < j => t.inbox[i] < t.inbox[j]
          /\ t.todo # {} => /\ t.msg \in 1..published'[ch]
                            /\ \A i \in DOMAIN t.inbox : t.msg < t.inbox[i]
          /\ \A r \in t.todo : ch \in ChannelsOf(r)
      BY <1>1, <1>4, <1>5, <1>7 DEF Orderly, l
    <3> QED
      BY <3>1, <3>2 DEF Orderly
  <2>6. ASSUME NEW c \in Channel, NEW j \in DOMAIN listeners[c], c # ch \/ j # k
        PROVE  Orderly(c, listeners[c][j])'
    <3>1. Orderly(c, listeners[c][j]) /\ listeners'[c][j] = listeners[c][j]
      BY <1>3, <2>6 DEF ForwardInv
    <3>2. CASE c = ch
      BY <1>8, <2>6, <3>1, <3>2 DEF Orderly
    <3>3. CASE c # ch
      <4>1. \A r \in Socket : received'[r][c] = received[r][c]
        BY <2>2, <3>3
      <4> QED
        BY <1>1, <3>1, <4>1 DEF Orderly
    <3> QED
      BY <3>2, <3>3
  <2>7. ASSUME NEW c \in Channel, NEW j \in DOMAIN listeners[c]
        PROVE  Orderly(c, listeners[c][j])'
    BY <1>3, <2>5, <2>6, <2>7
  <2>8. ASSUME NEW c \in Channel, NEW r \in Socket, NEW i \in DOMAIN received'[r][c]
        PROVE  received'[r][c][i] \in 1..published'[c]
    <3>1. CASE r = s /\ c = ch
      BY <2>4, <3>1
    <3>2. CASE r # s \/ c # ch
      BY <1>1, <2>2, <3>2 DEF ForwardInv
    <3> QED
      BY <3>1, <3>2
  <2>9. Fanout!Deliver(s, ch, l.msg)
    BY <1>1, <1>7, <1>10 DEF Fanout!Deliver
  <2> QED
    BY <1>3, <1>7, <2>7, <2>8, <2>9 DEF ForwardInv, l
<1> QED
  BY <1>6, <1>9, <1>10

(* Every step keeps ForwardInv and maps to a Publish, a Deliver or nothing.  *)
LEMMA ForwardStep ==
  TypeOK /\ GatewayInv /\ ForwardInv /\ [Next]_vars =>
    ForwardInv' /\ [Fanout!Next]_<<published, received>>
<1> SUFFICES ASSUME TypeOK, GatewayInv, ForwardInv, [Next]_vars
             PROVE  ForwardInv' /\ [Fanout!Next]_<<published, received>>
  OBVIOUS
<1>1. ASSUME NEW s \in Socket, Reject(s) \/ Greet(s) \/ ClientDrops(s)
      PROVE  ForwardInv' /\ UNCHANGED <<published, received>>
  BY <1>1, ClearingStep DEF Reject, Greet, ClientDrops, bridge, redis
<1>2. ASSUME NEW s \in Socket, Connect(s)
      PROVE  ForwardInv' /\ UNCHANGED <<published, received>>
  <2>1. published' = published /\ received' = received
    BY <1>2 DEF Connect, redis
  <2>2. ASSUME NEW ch \in Channel, NEW k \in DOMAIN listeners'[ch]
        PROVE  \/ k \in DOMAIN listeners[ch] /\ listeners'[ch][k] = listeners[ch][k]
               \/ listeners'[ch][k].inbox = <<>> /\ listeners'[ch][k].todo = {}
    <3>1. \/ listeners'[ch] = listeners[ch]
          \/ listeners'[ch] = Append(listeners[ch], NewTask)
      BY <1>2, TypeParts, SubscribeType DEF Connect
    <3>2. listeners[ch] \in Seq(ListenerTask)
      BY DEF TypeOK
    <3> QED
      BY <3>1, <3>2, TaskTypes
  <2> QED
    BY <2>1, <2>2, ClearingStep
<1>3. ASSUME NEW s \in Socket, Finish(s)
      PROVE  ForwardInv' /\ UNCHANGED <<published, received>>
  <2>1. published' = published /\ received' = received
    BY <1>3 DEF Finish, redis
  <2>2. \A ch \in Channel : DOMAIN listeners'[ch] = DOMAIN listeners[ch]
    BY <1>3, TypeParts, UnsubscribeType DEF Finish
  <2>3. \A ch \in Channel : \A k \in DOMAIN listeners[ch] :
          listeners'[ch][k] \in {DoneTask, listeners[ch][k]}
    BY <1>3, TypeParts, UnsubscribeType DEF Finish
  <2> QED
    BY <2>1, <2>2, <2>3, TaskTypes, ClearingStep
<1>4. ASSUME NEW ch \in Channel, Publish(ch)
      PROVE  ForwardInv' /\ Fanout!Next
  <2>1. Fanout!Publish(ch)
    BY <1>4 DEF Publish, Fanout!Publish
  <2> QED
    BY <1>4, <2>1, ForwardPublish DEF Fanout!Next
<1>5. ASSUME NEW ch \in Channel, NEW k \in DOMAIN listeners[ch], TakeMessage(ch, k)
      PROVE  ForwardInv' /\ UNCHANGED <<published, received>>
  BY <1>5, ForwardTake DEF GatewayInv, TakeMessage, redis
<1>6. ASSUME NEW ch \in Channel, NEW k \in DOMAIN listeners[ch],
             Subscribed(ch, k) \/ RedisError(ch, k)
      PROVE  ForwardInv' /\ UNCHANGED <<published, received>>
  <2>1. published' = published /\ received' = received /\ tasks' = tasks
    BY <1>6 DEF Subscribed, RedisError, redis
  <2>2. PICK t \in ListenerTask : /\ Replaced(ch, k, t)
                                  /\ t.inbox = <<>> /\ t.todo = {}
    <3>1. CASE RedisError(ch, k)
      BY <3>1, TaskTypes DEF RedisError, Replaced
    <3>2. CASE Subscribed(ch, k)
      <4>1. PICK t \in ListenerTask :
              /\ Replaced(ch, k, t)
              /\ t = [listeners[ch][k] EXCEPT !.state = "listening"]
        BY <3>2, StartListening
      <4>2. listeners[ch][k].inbox = <<>> /\ listeners[ch][k].todo = {}
        BY <3>2 DEF Subscribed, IsIn, ForwardInv, Orderly
      <4>3. t.inbox = <<>> /\ t.todo = {}
        BY <4>1, <4>2, TaskFields DEF ListenerTask
      <4> QED
        BY <4>1, <4>3
    <3> QED
      BY <1>6, <3>1, <3>2
  <2>3. BridgeType /\ t \in ListenerTask /\ Replaced(ch, k, t)
    BY <2>2, TypeParts DEF Replaced
  <2>4. /\ \A c \in Channel : DOMAIN listeners'[c] = DOMAIN listeners[c]
        /\ listeners'[ch][k] = t
        /\ \A c \in Channel : \A j \in DOMAIN listeners[c] :
             c # ch \/ j # k => listeners'[c][j] = listeners[c][j]
    BY <2>1, <2>3, ReplaceTask
  <2> QED
    BY <2>1, <2>2, <2>4, ClearingStep
<1>7. ASSUME NEW ch \in Channel, NEW k \in DOMAIN listeners[ch], NEW s \in Socket, Send(ch, k, s)
      PROVE  ForwardInv' /\ [Fanout!Next]_<<published, received>>
  <2>1. /\ ForwardInv'
        /\ \/ UNCHANGED <<published, received>>
           \/ /\ listeners[ch][k].msg \in 1..published[ch]
              /\ Fanout!Deliver(s, ch, listeners[ch][k].msg)
    BY <1>7, ForwardSend DEF GatewayInv
  <2> QED
    BY <2>1 DEF Fanout!Next
<1>8. CASE UNCHANGED vars
  BY <1>8, ClearingStep DEF vars, bridge, redis
<1> QED
  BY <1>1, <1>2, <1>3, <1>4, <1>5, <1>6, <1>7, <1>8 DEF Next, ListenerStep

(* The gateway implements the abstract promise: a socket receives only       *)
(* messages of its own user and organisation, in order, none twice.          *)
THEOREM Refinement == Spec => ImplementsPushFanout
<1>1. Init => Fanout!Init /\ ForwardInv
  <2> SUFFICES ASSUME Init PROVE Fanout!Init /\ ForwardInv
    OBVIOUS
  <2>1. Fanout!Init
    BY DEF Init, Fanout!Init
  <2>2. /\ \A ch \in Channel : listeners[ch] = <<>>
        /\ \A s \in Socket, ch \in Channel : received[s][ch] = <<>>
    BY DEF Init
  <2>3. ForwardInv
    BY <2>2 DEF ForwardInv
  <2> QED
    BY <2>1, <2>3
<1> QED
  BY <1>1, ForwardStep, TypeCorrect, GatewayInvariant, PTL
  DEF Spec, ImplementsPushFanout, Fanout!Spec
=============================================================================
