----------------------------- MODULE Grpc_proofs -----------------------------
(***************************************************************************)
(* Proofs about the gRPC client, for any cycle, percentage, capacity of    *)
(* the channel, and number of blocks and connections.                      *)
(***************************************************************************)
EXTENDS Grpc, SequenceTheorems, FiniteSetTheorems, TLAPS

-----------------------------------------------------------------------------
(* The inductive invariant, part by part.                                  *)

\* A registration on its way to the node is followed by a request for a template.
RequestFollows ==
    \A i \in 1..Len(to_node) : to_node[i] = "register" =>
        \/ lpc = "request"
        \/ \E j \in (i + 1)..Len(to_node) : to_node[j] \in Payees

\* The flag is only cleared together with the workers' job.
FlagTold == ~is_synced => told = 0

\* Templates come in the order of the node's blocks.
InOrder ==
    /\ answered.tip <= tip
    /\ \A i \in 1..Len(to_client) : to_client[i].type = "template" =>
        /\ answered.tip <= to_client[i].tip /\ to_client[i].tip <= tip
        /\ \A j \in 1..(i - 1) :
            to_client[j].type = "template" => to_client[j].tip <= to_client[i].tip

\* Between connections nothing is left of the last one.
Offline == conn = "down" => ~registered /\ answered = NoAnswer

IInv ==
    /\ TypeOK
    /\ RequestFollows
    /\ FlagTold
    /\ InOrder
    /\ Offline
    /\ NothingMissed
    /\ WorkersObey

-----------------------------------------------------------------------------
(* Queues.                                                                 *)

\* What is sent joins the end of the queue; the rest keeps its place.
LEMMA AppendKeeps ==
    ASSUME NEW S, NEW q \in Seq(S), NEW m \in S
    PROVE  /\ Append(q, m) \in Seq(S)
           /\ Len(Append(q, m)) = Len(q) + 1
           /\ \A i \in 1..Len(q) : Append(q, m)[i] = q[i]
           /\ Append(q, m)[Len(q) + 1] = m
  OBVIOUS

\* What is taken is the first; the rest moves up.
LEMMA TailMovesUp ==
    ASSUME NEW S, NEW q \in Seq(S), q # <<>>
    PROVE  /\ Tail(q) \in Seq(S)
           /\ Len(q) \in Nat \ {0} /\ Len(Tail(q)) = Len(q) - 1
           /\ \A i \in 1..Len(Tail(q)) : Tail(q)[i] = q[i + 1]
           /\ Head(q) = q[1] /\ Head(q) \in S
  BY HeadTailProperties, EmptySeq

\* Moving the queue up does not separate a registration from its request.
LEMMA TailFollows ==
    ASSUME TypeQueues, RequestFollows, to_node # <<>>, to_node' = Tail(to_node), UNCHANGED lpc
    PROVE  RequestFollows'
<1> SUFFICES ASSUME NEW i \in 1..Len(to_node'), to_node'[i] = "register", lpc # "request"
             PROVE  \E j \in (i + 1)..Len(to_node') : to_node'[j] \in Payees
  BY DEF RequestFollows
<1>1. /\ Len(to_node) \in Nat \ {0} /\ Len(to_node') = Len(to_node) - 1
      /\ \A k \in 1..Len(to_node') : to_node'[k] = to_node[k + 1]
  BY TailMovesUp DEF TypeQueues
<1>2. PICK j \in ((i + 1) + 1)..Len(to_node) : to_node[j] \in Payees
  BY <1>1 DEF RequestFollows
<1>3. j - 1 \in (i + 1)..Len(to_node') /\ to_node'[j - 1] \in Payees
  BY <1>1, <1>2
<1> QED BY <1>3

\* What the client may read, and what the node says, are messages.
LEMMA MessageTypes ==
    ASSUME TypeNode
    PROVE  /\ NoAnswer \in Messages
           /\ \A t \in {"info", "notification", "error"} : Other(t) \in Messages
           /\ \A b \in BOOLEAN : Template(b, node_synced) \in Messages
<1>1. tip \in 0..MaxTip /\ 0 \in 0..MaxTip
  BY GrpcAssumption DEF TypeNode
<1>2. node_synced \in BOOLEAN /\ FALSE \in BOOLEAN
  BY DEF TypeNode
<1>3. \A t \in {"none", "info", "notification", "error"} : Other(t) \in Messages
  BY <1>1, <1>2, Zenon DEF Other, Messages
<1>4. \A b \in BOOLEAN : Template(b, node_synced) \in Messages
  BY <1>1, <1>2, Zenon DEF Template, Messages
<1> QED BY <1>3, <1>4 DEF NoAnswer

-----------------------------------------------------------------------------
(* Frames: what a step leaves alone keeps its part of the invariant.       *)

\* Types, group by group.
LEMMA SameTypes ==
    ASSUME TypeOK
    PROVE  /\ UNCHANGED <<node, link>> => TypeNode'
           /\ UNCHANGED <<to_node, to_client>> => TypeQueues'
           /\ UNCHANGED <<asking, mine_when_not_synced, miner, answered>> => TypeClient'
<1>1. UNCHANGED <<node, link>> => TypeNode'
  BY DEF TypeOK, TypeNode, node, link
<1>2. UNCHANGED <<to_node, to_client>> => TypeQueues'
  BY DEF TypeOK, TypeQueues
<1>3. UNCHANGED <<asking, mine_when_not_synced, miner, answered>> => TypeClient'
  BY DEF TypeOK, TypeClient, asking, miner
<1> QED BY <1>1, <1>2, <1>3

\* No answer is handled, and the workers are told nothing.
LEMMA SameMining ==
    ASSUME FlagTold, WorkersObey, UNCHANGED <<mine_when_not_synced, miner, answered>>
    PROVE  FlagTold' /\ WorkersObey'
  BY DEF FlagTold, WorkersObey, Wanted, miner

-----------------------------------------------------------------------------
\* The initial state satisfies the inductive invariant.
LEMMA InitIInv == Init => IInv
<1> SUFFICES ASSUME Init PROVE IInv
  OBVIOUS
<1>1. TypeNode
  <2>1. tip \in 1..MaxTip /\ connections \in 0..MaxConnections
    BY GrpcAssumption DEF Init
  <2>2. node_synced \in BOOLEAN /\ registered \in BOOLEAN /\ conn \in {"down", "up"}
    BY Zenon DEF Init
  <2> QED BY <2>1, <2>2 DEF TypeNode
<1>2. TypeQueues
  BY GrpcAssumption DEF Init, TypeQueues
<1>3. TypeClient
  <2>1. told \in 0..MaxTip /\ ctr \in 0..(Cycle - 1)
    BY GrpcAssumption DEF Init
  <2>2. mine_when_not_synced \in BOOLEAN /\ is_synced \in BOOLEAN
    BY Zenon DEF Init
  <2>3. answered \in Messages
    BY <1>1, MessageTypes DEF Init
  <2>4. lpc = "recv" /\ payee \in Payees
    BY DEF Init, Payees
  <2> QED BY <2>1, <2>2, <2>3, <2>4 DEF TypeClient
<1>4. RequestFollows /\ FlagTold /\ Offline /\ NothingMissed /\ InOrder
  BY <1>1 DEF Init, RequestFollows, FlagTold, Offline, NothingMissed, Behind, InOrder,
     TypeNode, NoAnswer, Other
<1>5. WorkersObey
  BY DEF Init, WorkersObey, Wanted, NoAnswer, Other
<1> QED BY <1>1, <1>2, <1>3, <1>4, <1>5 DEF IInv, TypeOK

\* A connection that ends leaves nothing to be behind of.
LEMMA HangupIInv ==
    ASSUME IInv, Hangup, UNCHANGED <<ctr, payee>>
    PROVE  IInv'
<1> USE DEF IInv, TypeOK
<1>1. TypeNode' /\ TypeQueues'
  <2>1. TypeNode'
    BY DEF Hangup, TypeNode
  <2>2. TypeQueues'
    BY GrpcAssumption DEF Hangup, TypeQueues
  <2> QED BY <2>1, <2>2
<1>2. TypeClient'
  <2>1. answered' \in Messages
    BY MessageTypes DEF Hangup
  <2>2. told' \in 0..MaxTip
    BY GrpcAssumption DEF Hangup
  <2> QED BY <2>1, <2>2 DEF Hangup, TypeClient
<1>3. RequestFollows' /\ FlagTold' /\ Offline' /\ NothingMissed' /\ InOrder'
  BY DEF Hangup, RequestFollows, FlagTold, Offline, NothingMissed, Behind, InOrder,
     TypeNode, NoAnswer, Other
<1>4. WorkersObey'
  BY DEF Hangup, WorkersObey, Wanted, NoAnswer, Other
<1> QED BY <1>1, <1>2, <1>3, <1>4

\* A connection starts from nothing.
LEMMA ConnectIInv == ASSUME IInv, Connect PROVE IInv'
<1> USE DEF IInv, TypeOK
<1>1. TypeNode'
  <2>1. connections' \in 0..MaxConnections
    BY GrpcAssumption DEF Connect, TypeNode
  <2> QED BY <2>1 DEF Connect, TypeNode, node
<1>2. TypeQueues'
  BY GrpcAssumption DEF Connect, TypeQueues, Requests
<1>3. TypeClient'
  <2>1. told' \in 0..MaxTip
    BY GrpcAssumption DEF Connect
  <2> QED BY <2>1 DEF Connect, TypeClient, asking
<1>4. RequestFollows' /\ FlagTold' /\ Offline' /\ InOrder'
  BY DEF Connect, RequestFollows, FlagTold, Offline, InOrder, node
<1>5. NothingMissed'
  BY DEF Connect, Offline, NothingMissed, Behind, node
<1>6. WorkersObey'
  BY DEF Connect, Offline, WorkersObey, Wanted, NoAnswer, Other
<1> QED BY <1>1, <1>2, <1>3, <1>4, <1>5, <1>6

-----------------------------------------------------------------------------
\* Asking for a template moves the counter within its cycle.
LEMMA CounterStays ==
    ASSUME TypeClient, GetBlockTemplate
    PROVE  ctr' \in 0..(Cycle - 1) /\ payee' \in Payees /\ lpc' = "request"
<1>1. ctr' \in 0..(Cycle - 1)
  BY GrpcAssumption DEF TypeClient, GetBlockTemplate
<1>2. payee' \in Payees /\ lpc' = "request"
  BY DEF GetBlockTemplate, Payees
<1> QED BY <1>1, <1>2

\* Reading a message takes it off the stream: what else was on its way still is, and
\* in order.
LEMMA ReadKeeps ==
    ASSUME IInv, Consume, to_client # <<>>, lpc = "recv", UNCHANGED to_node,
           answered' = IF Head(to_client).type = "template" THEN Head(to_client) ELSE answered
    PROVE  /\ Head(to_client) \in Messages
           /\ TypeNode' /\ TypeQueues' /\ InOrder'
           /\ Behind' /\ Head(to_client).type \in {"info", "template"} => OnItsWay'
<1> USE DEF IInv, TypeOK
<1>1. /\ Len(to_client) \in Nat \ {0} /\ Len(to_client') = Len(to_client) - 1
      /\ \A i \in 1..Len(to_client') : to_client'[i] = to_client[i + 1]
      /\ Head(to_client) = to_client[1] /\ Head(to_client) \in Messages
      /\ to_client' \in Seq(Messages)
  BY TailMovesUp DEF Consume, TypeQueues
<1>2. UNCHANGED <<tip, registered, node, link>>
  BY DEF Consume, node
<1>3. TypeNode' /\ TypeQueues'
  BY <1>1, <1>2, SameTypes DEF TypeQueues
<1>4. answered'.tip <= tip'
  BY <1>1, <1>2 DEF InOrder
<1>5. ASSUME NEW i \in 1..Len(to_client'), to_client'[i].type = "template"
      PROVE  /\ answered'.tip <= to_client'[i].tip /\ to_client'[i].tip <= tip'
             /\ \A j \in 1..(i - 1) :
                  to_client'[j].type = "template" => to_client'[j].tip <= to_client'[i].tip
  <2>1. i + 1 \in 1..Len(to_client) /\ to_client[i + 1] = to_client'[i] /\ 1 \in 1..(i + 1 - 1)
    BY <1>1
  <2>2. answered'.tip <= to_client'[i].tip /\ to_client'[i].tip <= tip'
    BY <1>1, <1>2, <1>5, <2>1 DEF InOrder
  <2>3. ASSUME NEW j \in 1..(i - 1), to_client'[j].type = "template"
        PROVE  to_client'[j].tip <= to_client'[i].tip
    <3>1. j + 1 \in 1..(i + 1 - 1) /\ to_client[j + 1] = to_client'[j]
      BY <1>1, <2>3
    <3> QED BY <1>5, <2>1, <2>3, <3>1 DEF InOrder
  <2> QED BY <2>2, <2>3
<1>6. InOrder'
  BY <1>4, <1>5 DEF InOrder
<1>7. ASSUME Behind', Head(to_client).type \in {"info", "template"} PROVE OnItsWay'
  <2>1. Behind
    <3> SUFFICES ASSUME answered.tip = tip, answered' = Head(to_client),
                        Head(to_client).type = "template"
                 PROVE  FALSE
      BY <1>2, <1>7 DEF Behind
    <3>1. tip <= Head(to_client).tip /\ Head(to_client).tip <= tip
      BY <1>1 DEF InOrder
    <3>2. Head(to_client).tip \in Nat /\ tip \in Nat
      BY <1>1 DEF Messages, TypeNode
    <3> QED BY <1>2, <1>7, <3>1, <3>2 DEF Behind
  <2>2. OnItsWay
    BY <2>1 DEF NothingMissed
  <2>3. CASE \E i \in 1..Len(to_node) : to_node[i] \in Payees
    BY <2>3 DEF OnItsWay
  <2>4. ASSUME NEW i \in 1..Len(to_client),
               \/ to_client[i].type \in {"notification", "error"}
               \/ to_client[i].type = "template" /\ to_client[i].tip = tip
        PROVE  OnItsWay'
    <3>1. i # 1
      <4> SUFFICES ASSUME i = 1 PROVE FALSE
        OBVIOUS
      <4>1. Head(to_client).type = "template" /\ Head(to_client).tip = tip
        BY <1>1, <1>7, <2>4
      <4> QED BY <1>2, <1>7, <4>1 DEF Behind
    <3>2. i - 1 \in 1..Len(to_client') /\ to_client'[i - 1] = to_client[i]
      BY <1>1, <3>1
    <3> QED BY <1>2, <2>4, <3>2 DEF OnItsWay
  <2> QED BY <2>2, <2>3, <2>4 DEF OnItsWay
<1> QED BY <1>1, <1>3, <1>6, <1>7

\* The messages of listen(): only a template moves the workers.
LEMMA ReadIInv ==
    ASSUME IInv, ReadInfo \/ ReadNotification \/ ReadTemplate
    PROVE  IInv'
<1> USE DEF IInv, TypeOK
<1>0. Consume /\ to_client # <<>> /\ lpc = "recv" /\ conn = "up"
      /\ UNCHANGED <<to_node, mine_when_not_synced>>
  BY DEF ReadInfo, ReadNotification, ReadTemplate, Read, Consume
<1>1. Offline'
  BY <1>0 DEF Offline, Consume, link
<1>2. CASE ReadInfo
  <2>1. Head(to_client).type = "info" /\ lpc' = "register" /\ UNCHANGED <<ctr, payee, miner, answered>>
    BY <1>2 DEF ReadInfo, Read
  <2>2. TypeNode' /\ TypeQueues' /\ InOrder' /\ NothingMissed'
    BY <1>0, <2>1, ReadKeeps DEF NothingMissed
  <2>3. TypeClient' /\ RequestFollows'
    BY <1>0, <2>1 DEF TypeClient, RequestFollows, miner
  <2> QED BY <1>0, <1>1, <2>1, <2>2, <2>3, SameMining
<1>3. CASE ReadNotification
  <2>1. Head(to_client).type = "notification" /\ GetBlockTemplate /\ UNCHANGED <<miner, answered>>
    BY <1>3 DEF ReadNotification, Read
  <2>2. TypeNode' /\ TypeQueues' /\ InOrder'
    BY <1>0, <2>1, ReadKeeps
  <2>3. TypeClient' /\ RequestFollows' /\ NothingMissed'
    BY <1>0, <2>1, CounterStays
    DEF TypeClient, RequestFollows, NothingMissed, OnItsWay, miner
  <2> QED BY <1>0, <1>1, <2>1, <2>2, <2>3, SameMining
<1>4. CASE ReadTemplate
  <2> DEFINE m == Head(to_client)
  <2>1. m.type = "template" /\ answered' = m /\ UNCHANGED asking
    BY <1>4 DEF ReadTemplate, Read
  <2>2. /\ TypeNode' /\ TypeQueues' /\ InOrder' /\ m \in Messages
        /\ Behind' => OnItsWay'
    BY <1>0, <2>1, ReadKeeps
  <2>3. NothingMissed' /\ RequestFollows'
    BY <1>0, <2>1, <2>2 DEF NothingMissed, RequestFollows, asking
  <2>4. \/ Wanted(m) /\ is_synced' = TRUE /\ told' = m.tip
        \/ ~Wanted(m) /\ ~m.synced /\ StopMining
        \/ ~Wanted(m) /\ m.synced /\ UNCHANGED miner
    BY <1>4 DEF ReadTemplate, JobFor
  <2>5. TypeClient'
    <3>1. told' \in 0..MaxTip
      <4>1. m.tip \in 0..MaxTip /\ told \in 0..MaxTip /\ 0 \in 0..MaxTip
        BY <2>2, GrpcAssumption DEF Messages, TypeClient
      <4> QED BY <2>4, <4>1 DEF StopMining, miner
    <3>2. is_synced' \in BOOLEAN
      BY <2>4 DEF StopMining, miner, TypeClient
    <3> QED BY <1>0, <2>1, <2>2, <3>1, <3>2 DEF TypeClient, asking
  <2>6. FlagTold'
    BY <2>4 DEF StopMining, miner, FlagTold
  <2>7. Wanted(answered)' <=> Wanted(m)
    BY <1>0, <2>1 DEF Wanted
  <2>8. WorkersObey'
    BY <2>1, <2>4, <2>7 DEF WorkersObey, StopMining, FlagTold
  <2> QED BY <1>1, <2>2, <2>3, <2>5, <2>6, <2>8
<1> QED BY <1>2, <1>3, <1>4

\* Sending adds to the channel: what was on its way still is.
LEMMA SendKeeps ==
    ASSUME IInv, NEW m \in Requests \cup {"submit"}, Room, to_node' = Append(to_node, m),
           UNCHANGED <<node, link, to_client, answered>>,
           m \in Payees \/ lpc' = "request" \/ (m = "submit" /\ UNCHANGED lpc)
    PROVE  TypeNode' /\ TypeQueues' /\ InOrder' /\ Offline' /\ RequestFollows' /\ NothingMissed'
<1> USE DEF IInv, TypeOK
<1>1. /\ to_node' \in Seq(Requests \cup {"submit"}) /\ Len(to_node') = Len(to_node) + 1
      /\ \A i \in 1..Len(to_node) : to_node'[i] = to_node[i]
      /\ to_node'[Len(to_node) + 1] = m /\ Len(to_node) \in Nat
  BY AppendKeeps DEF TypeQueues
<1>2. TypeNode' /\ TypeQueues'
  BY <1>1, SameTypes, GrpcAssumption DEF Room, TypeQueues
<1>3. InOrder' /\ Offline'
  BY DEF InOrder, Offline, node, link
<1>4. RequestFollows'
  <2> SUFFICES ASSUME NEW i \in 1..Len(to_node'), to_node'[i] = "register", lpc' # "request"
               PROVE  \E j \in (i + 1)..Len(to_node') : to_node'[j] \in Payees
    BY DEF RequestFollows
  <2>1. i \in 1..Len(to_node)
    BY <1>1 DEF Payees
  <2>2. CASE m \in Payees
    BY <1>1, <2>1, <2>2
  <2>3. CASE m = "submit" /\ UNCHANGED lpc
    BY <1>1, <2>1, <2>3 DEF RequestFollows
  <2> QED BY <2>2, <2>3
<1>5. NothingMissed'
  <2> SUFFICES ASSUME Behind' PROVE OnItsWay'
    BY DEF NothingMissed
  <2>1. OnItsWay
    BY DEF NothingMissed, Behind, node
  <2>2. CASE m \in Payees
    BY <1>1, <2>2 DEF OnItsWay
  <2>3. CASE lpc' = "request"
    BY <2>3 DEF OnItsWay
  <2>4. CASE m = "submit" /\ UNCHANGED lpc
    BY <1>1, <2>1, <2>4 DEF OnItsWay, node
  <2> QED BY <2>2, <2>3, <2>4
<1> QED BY <1>2, <1>3, <1>4, <1>5

\* The three senders of the channel to the node.
LEMMA SendIInv ==
    ASSUME IInv, SendRegister \/ SendRequest \/ Submit
    PROVE  IInv'
<1> USE DEF IInv, TypeOK
<1>1. UNCHANGED <<node, link, to_client, mine_when_not_synced, miner, answered>> /\ Room
  BY DEF SendRegister, SendRequest, Submit
<1>2. FlagTold' /\ WorkersObey'
  BY <1>1, SameMining
<1>3. CASE SendRegister
  <2>1. ctr' \in 0..(Cycle - 1) /\ payee' \in Payees /\ lpc' = "request"
    BY <1>3, CounterStays DEF SendRegister
  <2>2. TypeClient'
    BY <1>1, <2>1 DEF TypeClient, miner
  <2>3. to_node' = Append(to_node, "register")
    BY <1>3 DEF SendRegister
  <2> QED BY <1>1, <1>2, <2>1, <2>2, <2>3, SendKeeps DEF Requests
<1>4. CASE SendRequest
  <2>1. TypeClient' /\ payee \in Payees
    BY <1>1, <1>4 DEF SendRequest, TypeClient, miner
  <2>2. to_node' = Append(to_node, payee)
    BY <1>4 DEF SendRequest
  <2> QED BY <1>1, <1>2, <2>1, <2>2, SendKeeps DEF Requests
<1>5. CASE Submit
  <2>1. TypeClient' /\ UNCHANGED lpc
    BY <1>1, <1>5, SameTypes DEF Submit, asking
  <2>2. to_node' = Append(to_node, "submit")
    BY <1>5 DEF Submit
  <2> QED BY <1>1, <1>2, <2>1, <2>2, SendKeeps
<1> QED BY <1>3, <1>4, <1>5

-----------------------------------------------------------------------------
\* What the node says joins the end of the stream: nothing is missed if a new template
\* of its newest block, or the news of one, is what it says.
LEMMA AnswerKeeps ==
    ASSUME IInv, NEW m \in Messages, Answer(m), UNCHANGED <<lpc, answered>>,
           tip' \in Nat, tip' >= tip, m.type = "template" => m.tip = tip'
    PROVE  /\ to_client' \in Seq(Messages)
           /\ InOrder'
           /\ m.type \in {"notification", "error", "template"} => OnItsWay'
<1> USE DEF IInv, TypeOK
<1>1. /\ to_client' \in Seq(Messages) /\ Len(to_client') = Len(to_client) + 1
      /\ \A i \in 1..Len(to_client) : to_client'[i] = to_client[i]
      /\ to_client'[Len(to_client) + 1] = m /\ Len(to_client) \in Nat
  BY AppendKeeps DEF Answer, TypeQueues
<1>2. tip \in Nat /\ answered.tip \in Nat
  BY DEF TypeNode, TypeClient, Messages
<1>3. \A i \in 1..Len(to_client) : to_client[i].tip \in Nat
  <2> SUFFICES ASSUME NEW i \in 1..Len(to_client) PROVE to_client[i].tip \in Nat
    OBVIOUS
  <2>1. to_client[i] \in Messages
    BY DEF TypeQueues
  <2> QED BY <2>1 DEF Messages
<1>4. InOrder'
  <2>1. answered'.tip <= tip'
    BY <1>2 DEF InOrder
  <2> SUFFICES ASSUME NEW i \in 1..Len(to_client'), to_client'[i].type = "template"
               PROVE  /\ answered'.tip <= to_client'[i].tip /\ to_client'[i].tip <= tip'
                      /\ \A j \in 1..(i - 1) :
                           to_client'[j].type = "template" => to_client'[j].tip <= to_client'[i].tip
    BY <2>1 DEF InOrder
  <2>2. CASE i \in 1..Len(to_client)
    <3>1. to_client'[i] = to_client[i] /\ \A j \in 1..(i - 1) : to_client'[j] = to_client[j]
      BY <1>1, <2>2
    <3> QED BY <1>2, <1>3, <2>2, <3>1 DEF InOrder
  <2>3. CASE i = Len(to_client) + 1
    <3>1. to_client'[i].tip = tip' /\ \A j \in 1..(i - 1) : to_client'[j] = to_client[j]
      BY <1>1, <2>3
    <3> QED BY <1>1, <1>2, <1>3, <2>1, <2>3, <3>1 DEF InOrder
  <2> QED BY <1>1, <2>2, <2>3
<1>5. ASSUME m.type \in {"notification", "error", "template"} PROVE OnItsWay'
  <2>1. Len(to_client) + 1 \in 1..Len(to_client')
    BY <1>1
  <2> QED BY <1>1, <1>5, <2>1 DEF OnItsWay
<1> QED BY <1>1, <1>4, <1>5

\* The node serves the first request.
LEMMA ServeIInv == ASSUME IInv, Serve PROVE IInv'
<1> USE DEF IInv, TypeOK
<1> DEFINE request == Head(to_node)
<1>1. /\ to_node # <<>> /\ to_node' = Tail(to_node)
      /\ UNCHANGED <<tip, node_synced, link, asking, mine_when_not_synced, miner, answered>>
  BY DEF Serve
<1>2. /\ to_node' \in Seq(Requests \cup {"submit"})
      /\ Len(to_node) \in Nat \ {0} /\ Len(to_node') = Len(to_node) - 1
      /\ \A i \in 1..Len(to_node') : to_node'[i] = to_node[i + 1]
      /\ request = to_node[1]
  BY <1>1, TailMovesUp DEF TypeQueues
<1>3. RequestFollows' /\ FlagTold' /\ WorkersObey' /\ TypeClient'
  BY <1>1, TailFollows, SameMining, SameTypes DEF asking
<1>4. Offline'
  BY <1>1 DEF Serve, Offline, link
<1>5. TypeNode'
  BY <1>1 DEF Serve, TypeNode, link
<1>6. Len(to_node') <= Capacity
  BY <1>2, GrpcAssumption DEF TypeQueues
<1>7. ASSUME request \notin Payees, UNCHANGED <<registered, to_client>> PROVE IInv'
  <2>1. TypeQueues' /\ InOrder'
    BY <1>1, <1>2, <1>6, <1>7 DEF TypeQueues, InOrder
  <2>2. ASSUME NEW i \in 1..Len(to_node), to_node[i] \in Payees
        PROVE  i - 1 \in 1..Len(to_node') /\ to_node'[i - 1] \in Payees
    BY <1>2, <1>7, <2>2
  <2>3. NothingMissed'
    BY <1>1, <1>7, <2>2 DEF NothingMissed, Behind, OnItsWay, asking
  <2> QED BY <1>3, <1>4, <1>5, <2>1, <2>3
<1>8. CASE request = "info" /\ Answer(Other("info")) /\ UNCHANGED registered
  <2>1. Other("info") \in Messages /\ Other("info").type = "info"
    BY MessageTypes DEF Other
  <2>2. tip' \in Nat /\ tip' >= tip
    BY <1>1 DEF TypeNode
  <2>3. to_client' \in Seq(Messages) /\ InOrder'
    BY <1>1, <1>8, <2>1, <2>2, AnswerKeeps DEF asking
  <2>4. TypeQueues'
    BY <1>2, <1>6, <2>3 DEF TypeQueues
  <2>5. NothingMissed'
    <3> SUFFICES ASSUME Behind' PROVE OnItsWay'
      BY DEF NothingMissed
    <3>1. OnItsWay
      BY <1>1, <1>8 DEF NothingMissed, Behind
    <3>2. ASSUME NEW i \in 1..Len(to_node), to_node[i] \in Payees
          PROVE  i - 1 \in 1..Len(to_node') /\ to_node'[i - 1] \in Payees
      BY <1>2, <1>8, <3>2 DEF Payees
    <3>3. \A i \in 1..Len(to_client) : i \in 1..Len(to_client') /\ to_client'[i] = to_client[i]
      BY <1>8, <2>1, AppendKeeps DEF Answer, TypeQueues
    <3> QED BY <1>1, <3>1, <3>2, <3>3 DEF OnItsWay, asking
  <2> QED BY <1>3, <1>4, <1>5, <2>3, <2>4, <2>5
<1>9. CASE request = "register" /\ registered' \in BOOLEAN /\ UNCHANGED to_client
  <2>1. TypeQueues' /\ InOrder'
    BY <1>1, <1>2, <1>6, <1>9 DEF TypeQueues, InOrder
  <2>2. lpc = "request" \/ \E j \in 2..Len(to_node) : to_node[j] \in Payees
    BY <1>2, <1>9 DEF RequestFollows
  <2>3. ASSUME NEW j \in 2..Len(to_node), to_node[j] \in Payees
        PROVE  j - 1 \in 1..Len(to_node') /\ to_node'[j - 1] \in Payees
    BY <1>2, <2>3
  <2>4. OnItsWay'
    BY <1>1, <2>2, <2>3 DEF OnItsWay, asking
  <2> QED BY <1>3, <1>4, <1>5, <2>1, <2>4 DEF NothingMissed
<1>10. ASSUME NEW m, Answer(m), UNCHANGED registered,
              m = Other("error") \/ \E block \in BOOLEAN : m = Template(block, node_synced)
       PROVE  IInv'
  <2>1. /\ m \in Messages /\ m.type \in {"error", "template"}
        /\ m.type = "template" => m.tip = tip'
    <3>1. CASE m = Other("error")
      BY <1>1, <3>1, MessageTypes DEF Other
    <3>2. ASSUME NEW block \in BOOLEAN, m = Template(block, node_synced)
          PROVE  m \in Messages /\ m.type = "template" /\ m.tip = tip
      <4>1. m \in Messages
        BY <1>1, <3>2, MessageTypes, Zenon
      <4> QED BY <3>2, <4>1 DEF Template
    <3> QED BY <1>1, <1>10, <3>1, <3>2
  <2>2. tip' \in Nat /\ tip' >= tip
    BY <1>1 DEF TypeNode
  <2>3. to_client' \in Seq(Messages) /\ InOrder' /\ OnItsWay'
    BY <1>1, <1>10, <2>1, <2>2, AnswerKeeps DEF asking
  <2>4. TypeQueues'
    BY <1>2, <1>6, <2>3 DEF TypeQueues
  <2> QED BY <1>3, <1>4, <1>5, <2>3, <2>4 DEF NothingMissed
<1> QED
  BY <1>7, <1>8, <1>9, <1>10 DEF Serve, Payees

\* A new block is announced to whoever is registered.
LEMMA NodeIInv == ASSUME IInv, NewBlock \/ SyncChanges PROVE IInv'
<1> USE DEF IInv, TypeOK
<1>1. UNCHANGED <<registered, link, to_node, asking, mine_when_not_synced, miner, answered>>
  BY DEF NewBlock, SyncChanges
<1>2. TypeClient' /\ RequestFollows' /\ FlagTold' /\ WorkersObey' /\ Offline'
  BY <1>1, SameTypes, SameMining DEF RequestFollows, Offline, asking, link
<1>3. CASE SyncChanges
  <2>1. node_synced' \in BOOLEAN /\ UNCHANGED <<tip, to_client>>
    BY <1>3 DEF SyncChanges
  <2>2. TypeNode' /\ TypeQueues'
    BY <1>1, <2>1, SameTypes DEF TypeNode, link
  <2>3. InOrder' /\ NothingMissed'
    BY <1>1, <2>1 DEF InOrder, NothingMissed, Behind, OnItsWay, asking
  <2> QED BY <1>2, <2>2, <2>3
<1>4. CASE NewBlock
  <2>1. tip' = tip + 1 /\ tip' \in 1..MaxTip /\ tip \in Nat /\ UNCHANGED node_synced
    BY <1>4, GrpcAssumption DEF NewBlock, TypeNode
  <2>2. TypeNode'
    BY <1>1, <2>1 DEF TypeNode, link
  <2>3. CASE registered
    <3>1. Other("notification") \in Messages /\ Other("notification").type = "notification"
      BY MessageTypes DEF Other
    <3>2. to_client' \in Seq(Messages) /\ InOrder' /\ OnItsWay'
      BY <1>1, <1>4, <2>1, <2>3, <3>1, AnswerKeeps DEF NewBlock, asking
    <3>3. TypeQueues'
      BY <1>1, <3>2 DEF TypeQueues
    <3> QED BY <1>2, <2>2, <3>2, <3>3 DEF NothingMissed
  <2>4. CASE ~registered
    <3>1. UNCHANGED to_client
      BY <1>4, <2>4 DEF NewBlock
    <3>2. TypeQueues' /\ NothingMissed'
      BY <1>1, <2>4, <3>1, SameTypes DEF NothingMissed, Behind
    <3>3. \A i \in 1..Len(to_client) : to_client[i].tip \in Nat
      <4> SUFFICES ASSUME NEW i \in 1..Len(to_client) PROVE to_client[i].tip \in Nat
        OBVIOUS
      <4>1. to_client[i] \in Messages
        BY DEF TypeQueues
      <4> QED BY <4>1 DEF Messages
    <3>4. answered.tip \in Nat
      BY DEF TypeClient, Messages
    <3>5. InOrder'
      BY <1>1, <2>1, <3>1, <3>3, <3>4 DEF InOrder
    <3> QED BY <1>2, <2>2, <3>2, <3>5
  <2> QED BY <2>3, <2>4
<1> QED BY <1>3, <1>4

-----------------------------------------------------------------------------
\* The inductive invariant holds in every reachable state.
THEOREM Invariance == SafetySpec => []IInv
<1>1. ASSUME IInv, [Next]_vars PROVE IInv'
  <2>1. CASE UNCHANGED vars
    BY <1>1, <2>1 DEF vars, IInv, TypeOK, TypeNode, TypeQueues, TypeClient, RequestFollows,
       FlagTold, InOrder, Offline, NothingMissed, Behind, OnItsWay, WorkersObey, Wanted
  <2>2. CASE Lost \/ ReadFails
    BY <1>1, <2>2, HangupIInv DEF Lost, ReadFails
  <2>3. CASE Next /\ ~(Lost \/ ReadFails)
    BY <1>1, <2>3, ConnectIInv, ReadIInv, SendIInv, ServeIInv, NodeIInv DEF Next, ListenStep
  <2> QED BY <1>1, <2>1, <2>2, <2>3
<1> QED BY InitIInv, <1>1, PTL DEF SafetySpec

\* Type correctness; in particular the counter stays in its cycle.
THEOREM TypeCorrect == SafetySpec => []TypeOK
  BY Invariance, PTL DEF IInv

\* From the moment the node registers the client, no template is missed.
THEOREM NoTemplateMissed == SafetySpec => []NothingMissed
  BY Invariance, PTL DEF IInv

\* The workers do what the last answer asks for.
THEOREM WorkersFollow == SafetySpec => []WorkersObey
  BY Invariance, PTL DEF IInv

\* For any percentage and cycle: a template is counted in the step that assigns it, nothing
\* else moves the counter, and client_get_block_template asks in the wrong name for the
\* template with the number Percent only.
THEOREM OneTemplateTooMany == SafetySpec => OnlyTheEdgeIsOff
<1>1. Init => Schedule!Init
  BY DEF Init, Schedule!Init
<1>2. ASSUME IInv, [Next]_vars
      PROVE  [Schedule!Next \/ EdgeIsCounted]_<<ctr, payee>>
  <2>1. CASE GetBlockTemplate
    <3>1. CASE AtEdge
      BY <2>1, <3>1 DEF GetBlockTemplate, EdgeIsCounted
    <3>2. CASE ~AtEdge
      <4>1. PaysDevfund <=> ctr < Percent
        BY <1>2, <3>2, GrpcAssumption DEF PaysDevfund, AtEdge, IInv, TypeOK, TypeClient
      <4> QED BY <2>1, <4>1 DEF GetBlockTemplate, Schedule!Next, Schedule!NextTemplate, Schedule!Due
    <3> QED BY <3>1, <3>2
  <2>2. CASE ~GetBlockTemplate
    BY <1>2, <2>2 DEF vars, Next, Connect, Lost, ListenStep, ReadInfo, ReadNotification,
       ReadTemplate, ReadFails, SendRegister, SendRequest, Submit, Serve, NewBlock, SyncChanges,
       asking
  <2> QED BY <2>1, <2>2
<1> QED BY <1>1, <1>2, Invariance, PTL DEF SafetySpec, OnlyTheEdgeIsOff

-----------------------------------------------------------------------------
(* News does arrive: neither side waits for the other, and every step of   *)
(* either leaves less to do.                                               *)

\* Every message on the stream is one that listen() has a case for.
Readable == \A i \in 1..Len(to_client) : to_client[i].type # "none"

\* listen() has a message to read, or a request to send and room for it; the node has a
\* request to serve.
ClientMoves ==
    /\ conn = "up"
    /\ \/ lpc = "recv" /\ to_client # <<>> /\ Head(to_client).type # "none"
       \/ lpc \in {"register", "request"} /\ Room
NodeMoves == conn = "up" /\ to_node # <<>>

\* A client that is behind is never stuck, not even with the channel full and the listen
\* task, which alone reads the stream, waiting for room in it.
NewsIsNotStuck == Behind => ClientMoves \/ NodeMoves

\* The steps that a request, a message, and what listen() is about to send lead to.
NodeWeight ==
    [r \in Requests \cup {"submit"} |->
        CASE r = "info" -> 7 [] r = "register" -> 1 [] r \in Payees -> 2 [] OTHER -> 0]
ClientWeight ==
    [m \in Messages |->
        CASE m.type = "info" -> 6 [] m.type = "notification" -> 4
          [] m.type \in {"template", "error"} -> 1 [] OTHER -> 0]
SendWeight == CASE lpc = "register" -> 5 [] lpc = "request" -> 3 [] OTHER -> 0

\* The weight of a queue is the size of this set.
Units(q, weight) == {u \in (1..Len(q)) \X (1..7) : u[2] <= weight[q[u[1]]]}

Toil == Cardinality(Units(to_node, NodeWeight)) + Cardinality(Units(to_client, ClientWeight))
            + SendWeight

\* Only a new block makes more to do; a step of listen(), a send of it, and an answer of
\* the node make less.
Lighter ==
    /\ Toil \in Nat /\ Toil' \in Nat
    /\ tip' = tip => Toil' <= Toil
    /\ ListenStep \/ SendRegister \/ SendRequest => Toil' < Toil
    /\ Serve /\ Head(to_node) # "submit" => Toil' < Toil
EachStepHelps == [][conn = "up" /\ conn' = "up" => Lighter]_vars

\* The first numbers.
LEMMA FirstNumbers == \A k \in Nat : IsFiniteSet(1..k) /\ Cardinality(1..k) = k
  BY FS_Interval

\* The size of two sets apart.
LEMMA SizeOfBoth ==
    ASSUME NEW A, NEW B, IsFiniteSet(A), IsFiniteSet(B), A \cap B = {}
    PROVE  Cardinality(A \cup B) = Cardinality(A) + Cardinality(B)
<1>1. Cardinality(A \cup B) = Cardinality(A) + Cardinality(B) - Cardinality({})
  BY FS_Union
<1>2. Cardinality({}) = 0 /\ Cardinality(A) \in Nat /\ Cardinality(B) \in Nat
  BY FS_EmptySet, FS_CardinalityType
<1> QED BY <1>1, <1>2

\* One place of a queue.
LEMMA OnePlace ==
    ASSUME NEW i \in Nat, NEW w \in 0..7
    PROVE  /\ IsFiniteSet({i} \X (1..w)) /\ Cardinality({i} \X (1..w)) = w
           /\ {i} \X (1..w) = {u \in {i} \X (1..7) : u[2] <= w}
<1>1. IsFiniteSet({i}) /\ Cardinality({i}) = 1
  BY FS_Singleton
<1>2. w \in Nat /\ IsFiniteSet(1..w) /\ Cardinality(1..w) = w
  BY FirstNumbers
<1>3. IsFiniteSet({i} \X (1..w)) /\ Cardinality({i} \X (1..w)) = 1 * w
  BY <1>1, <1>2, FS_Product
<1> QED BY <1>3

\* A queue has finitely many units.
LEMMA UnitsFinite ==
    ASSUME NEW S, NEW weight \in [S -> 0..7], NEW q \in Seq(S)
    PROVE  IsFiniteSet(Units(q, weight)) /\ Cardinality(Units(q, weight)) \in Nat
<1>1. IsFiniteSet(1..Len(q)) /\ IsFiniteSet(1..7)
  <2>1. Len(q) \in Nat /\ 7 \in Nat
    OBVIOUS
  <2> QED BY <2>1, FirstNumbers
<1>2. IsFiniteSet((1..Len(q)) \X (1..7))
  BY <1>1, FS_Product
<1>3. Units(q, weight) \subseteq (1..Len(q)) \X (1..7)
  BY DEF Units
<1>4. IsFiniteSet(Units(q, weight))
  BY <1>2, <1>3, FS_Subset
<1> QED BY <1>4, FS_CardinalityType

\* What joins a queue adds its weight.
LEMMA AppendWeighs ==
    ASSUME NEW S, NEW weight \in [S -> 0..7], NEW q \in Seq(S), NEW m \in S
    PROVE  Cardinality(Units(Append(q, m), weight)) = Cardinality(Units(q, weight)) + weight[m]
<1> DEFINE n == Len(q) + 1
           New == {n} \X (1..weight[m])
<1>1. /\ Len(Append(q, m)) = n /\ n \in Nat /\ Append(q, m)[n] = m
      /\ \A i \in 1..Len(q) : Append(q, m)[i] = q[i]
  BY AppendKeeps
<1>2. IsFiniteSet(New) /\ Cardinality(New) = weight[m]
      /\ New = {u \in {n} \X (1..7) : u[2] <= weight[m]}
  BY <1>1, OnePlace
<1>3. Units(Append(q, m), weight) = Units(q, weight) \cup New
  BY <1>1, <1>2 DEF Units
<1>4. Units(q, weight) \cap New = {}
  BY <1>2 DEF Units
<1>5. IsFiniteSet(Units(q, weight)) /\ Cardinality(Units(q, weight)) \in Nat
  BY UnitsFinite
<1> HIDE DEF New
<1>6. Cardinality(Units(q, weight) \cup New) = Cardinality(Units(q, weight)) + Cardinality(New)
  BY <1>2, <1>4, <1>5, SizeOfBoth
<1> QED BY <1>2, <1>3, <1>6

\* What leaves it takes its own away.
LEMMA TailWeighs ==
    ASSUME NEW S, NEW weight \in [S -> 0..7], NEW q \in Seq(S), q # <<>>
    PROVE  Cardinality(Units(Tail(q), weight)) = Cardinality(Units(q, weight)) - weight[Head(q)]
<1> DEFINE t == Tail(q)
           Old == {1} \X (1..weight[Head(q)])
           Rest == {u \in Units(q, weight) : u[1] # 1}
           f == [u \in Units(t, weight) |-> <<u[1] + 1, u[2]>>]
<1>1. /\ t \in Seq(S) /\ Len(q) \in Nat \ {0} /\ Len(t) = Len(q) - 1
      /\ \A i \in 1..Len(t) : t[i] = q[i + 1]
      /\ Head(q) = q[1] /\ Head(q) \in S
  BY TailMovesUp
<1>2. IsFiniteSet(Old) /\ Cardinality(Old) = weight[Head(q)]
      /\ Old = {u \in {1} \X (1..7) : u[2] <= weight[Head(q)]}
  BY <1>1, OnePlace
<1>3. Units(q, weight) = Rest \cup Old /\ Rest \cap Old = {}
  BY <1>1, <1>2 DEF Units
<1> HIDE DEF t
<1>4. ExistsBijection(Units(t, weight), Rest)
  <2>1. f \in [Units(t, weight) -> Rest]
    <3> SUFFICES ASSUME NEW u \in Units(t, weight) PROVE <<u[1] + 1, u[2]>> \in Rest
      OBVIOUS
    <3>1. u[1] \in 1..Len(t) /\ u[2] \in 1..7 /\ u[2] <= weight[t[u[1]]]
      BY DEF Units
    <3>2. u[1] + 1 \in 1..Len(q) /\ u[1] + 1 # 1 /\ q[u[1] + 1] = t[u[1]]
      BY <1>1, <3>1
    <3> QED BY <3>1, <3>2 DEF Units
  <2>2. ASSUME NEW u \in Units(t, weight), NEW w \in Units(t, weight), f[u] = f[w]
        PROVE  u = w
    <3>1. u[1] + 1 = w[1] + 1 /\ u[2] = w[2]
      BY <2>2
    <3>2. u = <<u[1], u[2]>> /\ w = <<w[1], w[2]>> /\ u[1] \in Int /\ w[1] \in Int
      BY DEF Units
    <3>3. u[1] = w[1]
      BY <3>1, <3>2
    <3> QED BY <3>1, <3>2, <3>3
  <2>3. ASSUME NEW w \in Rest PROVE \E u \in Units(t, weight) : f[u] = w
    <3>1. w[1] \in 2..Len(q) /\ w[2] \in 1..7 /\ w[2] <= weight[q[w[1]]] /\ w = <<w[1], w[2]>>
      BY DEF Units
    <3>2. w[1] - 1 \in 1..Len(t) /\ t[w[1] - 1] = q[w[1]]
      BY <1>1, <3>1
    <3>3. <<w[1] - 1, w[2]>> \in Units(t, weight)
      BY <3>1, <3>2 DEF Units
    <3>4. f[<<w[1] - 1, w[2]>>] = w
      BY <3>1, <3>3
    <3> QED BY <3>3, <3>4
  <2> HIDE DEF f, Rest
  <2>4. f \in Bijection(Units(t, weight), Rest)
    BY <2>1, <2>2, <2>3, Zenon DEF Bijection, Injection, Surjection, IsInjective
  <2> QED BY <2>4, Zenon DEF ExistsBijection
<1>5. IsFiniteSet(Units(t, weight)) /\ Cardinality(Units(t, weight)) \in Nat
  BY <1>1, UnitsFinite
<1>6. IsFiniteSet(Rest) /\ Cardinality(Rest) = Cardinality(Units(t, weight))
  BY <1>4, <1>5, FS_Bijection
<1> HIDE DEF Rest, Old
<1>7. Cardinality(Rest \cup Old) = Cardinality(Rest) + Cardinality(Old)
  BY <1>2, <1>3, <1>6, SizeOfBoth
<1>8. Cardinality(Units(q, weight)) = Cardinality(Units(t, weight)) + weight[Head(q)]
  BY <1>2, <1>3, <1>6, <1>7
<1>9. weight[Head(q)] \in Nat
  BY <1>1
<1>10. Cardinality(Units(t, weight)) = Cardinality(Units(q, weight)) - weight[Head(q)]
  BY <1>5, <1>8, <1>9
<1> QED BY <1>10 DEF t

\* The weights.
LEMMA Weights ==
    /\ NodeWeight \in [Requests \cup {"submit"} -> 0..7]
    /\ NodeWeight["info"] = 7 /\ NodeWeight["register"] = 1 /\ NodeWeight["submit"] = 0
    /\ \A p \in Payees : p \in Requests /\ NodeWeight[p] = 2
    /\ "info" \in Requests /\ "register" \in Requests
    /\ ClientWeight \in [Messages -> 0..7]
    /\ \A m \in Messages :
        /\ m.type = "info" => ClientWeight[m] = 6
        /\ m.type = "notification" => ClientWeight[m] = 4
        /\ m.type \in {"template", "error"} => ClientWeight[m] = 1
<1>1. \A r \in {"info", "register", "submit", "dev", "miner"} :
        NodeWeight[r] = CASE r = "info" -> 7 [] r = "register" -> 1 [] r \in Payees -> 2 [] OTHER -> 0
  BY DEF NodeWeight, Requests, Payees
<1>2. NodeWeight \in [Requests \cup {"submit"} -> 0..7]
  BY DEF NodeWeight, Requests, Payees
<1>3. ClientWeight \in [Messages -> 0..7]
  BY DEF ClientWeight
<1>4. \A m \in Messages :
        /\ m.type = "info" => ClientWeight[m] = 6
        /\ m.type = "notification" => ClientWeight[m] = 4
        /\ m.type \in {"template", "error"} => ClientWeight[m] = 1
  BY DEF ClientWeight
<1> QED BY <1>1, <1>2, <1>3, <1>4 DEF Requests, Payees

\* The effect of a step on the weight of either queue.
LEMMA QueuesWeigh ==
    ASSUME TypeQueues, TypeQueues'
    PROVE  LET N == Cardinality(Units(to_node, NodeWeight))
               C == Cardinality(Units(to_client, ClientWeight))
           IN /\ N \in Nat /\ C \in Nat /\ SendWeight \in Nat
              /\ N' \in Nat /\ C' \in Nat /\ SendWeight' \in Nat
              /\ UNCHANGED to_node => N' = N
              /\ UNCHANGED to_client => C' = C
              /\ to_node # <<>> /\ to_node' = Tail(to_node) => N' = N - NodeWeight[Head(to_node)]
              /\ to_client # <<>> /\ to_client' = Tail(to_client) =>
                    Head(to_client) \in Messages /\ C' = C - ClientWeight[Head(to_client)]
              /\ \A r \in Requests \cup {"submit"} :
                    to_node' = Append(to_node, r) => N' = N + NodeWeight[r]
              /\ \A m \in Messages : Answer(m) => C' = C + ClientWeight[m]
<1>1. /\ to_node \in Seq(Requests \cup {"submit"}) /\ to_client \in Seq(Messages)
      /\ to_node' \in Seq(Requests \cup {"submit"}) /\ to_client' \in Seq(Messages)
      /\ NodeWeight \in [Requests \cup {"submit"} -> 0..7] /\ ClientWeight \in [Messages -> 0..7]
  BY Weights DEF TypeQueues
<1>2. /\ Cardinality(Units(to_node, NodeWeight)) \in Nat
      /\ Cardinality(Units(to_client, ClientWeight)) \in Nat
      /\ Cardinality(Units(to_node', NodeWeight)) \in Nat
      /\ Cardinality(Units(to_client', ClientWeight)) \in Nat
  BY <1>1, UnitsFinite
<1>3. SendWeight \in Nat /\ SendWeight' \in Nat
  BY DEF SendWeight
<1>4. /\ UNCHANGED to_node => Units(to_node, NodeWeight)' = Units(to_node, NodeWeight)
      /\ UNCHANGED to_client => Units(to_client, ClientWeight)' = Units(to_client, ClientWeight)
  BY DEF Units, NodeWeight, ClientWeight
<1>5. /\ Cardinality(Units(to_node, NodeWeight))' = Cardinality(Units(to_node', NodeWeight))
      /\ Cardinality(Units(to_client, ClientWeight))' = Cardinality(Units(to_client', ClientWeight))
  BY DEF Units, NodeWeight, ClientWeight
<1>6. to_node # <<>> => Cardinality(Units(Tail(to_node), NodeWeight))
            = Cardinality(Units(to_node, NodeWeight)) - NodeWeight[Head(to_node)]
  BY <1>1, TailWeighs
<1>7. to_client # <<>> => Cardinality(Units(Tail(to_client), ClientWeight))
            = Cardinality(Units(to_client, ClientWeight)) - ClientWeight[Head(to_client)]
  BY <1>1, TailWeighs
<1>8. \A r \in Requests \cup {"submit"} : Cardinality(Units(Append(to_node, r), NodeWeight))
            = Cardinality(Units(to_node, NodeWeight)) + NodeWeight[r]
  BY <1>1, AppendWeighs
<1>9. \A m \in Messages : Cardinality(Units(Append(to_client, m), ClientWeight))
            = Cardinality(Units(to_client, ClientWeight)) + ClientWeight[m]
  BY <1>1, AppendWeighs
<1>10. to_client # <<>> => Head(to_client) \in Messages
  BY <1>1, TailMovesUp
<1> QED BY <1>2, <1>3, <1>4, <1>5, <1>6, <1>7, <1>8, <1>9, <1>10 DEF Answer

\* What listen() does.
LEMMA ListenHelps ==
    ASSUME TypeOK, TypeOK', conn' = "up", ListenStep \/ SendRegister \/ SendRequest
    PROVE  Toil \in Nat /\ Toil' \in Nat /\ Toil' < Toil
<1> DEFINE N == Cardinality(Units(to_node, NodeWeight))
           C == Cardinality(Units(to_client, ClientWeight))
<1>1. /\ N \in Nat /\ C \in Nat /\ SendWeight \in Nat
      /\ N' \in Nat /\ C' \in Nat /\ SendWeight' \in Nat
  BY QueuesWeigh DEF TypeOK, TypeQueues
<1>2. Toil = N + C + SendWeight /\ Toil' = N' + C' + SendWeight'
  BY DEF Toil
<1>3. TypeQueues /\ TypeQueues'
  BY DEF TypeOK
<1>4. ASSUME NEW type, Read(type), Consume
      PROVE  /\ Head(to_client) \in Messages /\ Head(to_client).type = type
             /\ SendWeight = 0 /\ C' = C - ClientWeight[Head(to_client)]
  BY <1>3, <1>4, QueuesWeigh DEF Read, Consume, SendWeight
<1> HIDE DEF N, C
<1>5. CASE ReadInfo
  <2>1. N' = N
    BY <1>3, <1>5, QueuesWeigh DEF ReadInfo, N
  <2>2. SendWeight' = 5
    BY <1>5 DEF ReadInfo, SendWeight
  <2>3. SendWeight = 0 /\ C' = C - 6
    BY <1>4, <1>5, Weights DEF ReadInfo
  <2> QED BY <1>1, <1>2, <2>1, <2>2, <2>3
<1>6. CASE ReadNotification
  <2>1. N' = N
    BY <1>3, <1>6, QueuesWeigh DEF ReadNotification, N
  <2>2. SendWeight' = 3
    BY <1>6 DEF ReadNotification, GetBlockTemplate, SendWeight
  <2>3. SendWeight = 0 /\ C' = C - 4
    BY <1>4, <1>6, Weights DEF ReadNotification
  <2> QED BY <1>1, <1>2, <2>1, <2>2, <2>3
<1>7. CASE ReadTemplate
  <2>1. N' = N /\ SendWeight' = SendWeight
    BY <1>3, <1>7, QueuesWeigh DEF ReadTemplate, asking, N, SendWeight
  <2>2. C' = C - 1
    BY <1>4, <1>7, Weights DEF ReadTemplate
  <2> QED BY <1>1, <1>2, <2>1, <2>2
<1>8. CASE SendRegister
  <2>1. N' = N + 1
    BY <1>3, <1>8, QueuesWeigh, Weights DEF SendRegister, N
  <2>2. C' = C
    BY <1>3, <1>8, QueuesWeigh DEF SendRegister, C
  <2>3. SendWeight = 5 /\ SendWeight' = 3
    BY <1>8 DEF SendRegister, GetBlockTemplate, SendWeight
  <2> QED BY <1>1, <1>2, <2>1, <2>2, <2>3
<1>9. CASE SendRequest
  <2>1. N' = N + 2
    <3>1. payee \in Payees
      BY DEF TypeOK, TypeClient
    <3> QED BY <1>3, <1>9, <3>1, QueuesWeigh, Weights DEF SendRequest, N
  <2>2. C' = C
    BY <1>3, <1>9, QueuesWeigh DEF SendRequest, C
  <2>3. SendWeight = 3 /\ SendWeight' = 0
    BY <1>9 DEF SendRequest, SendWeight
  <2> QED BY <1>1, <1>2, <2>1, <2>2, <2>3
<1>10. ~ReadFails
  BY DEF ReadFails, Hangup
<1> QED BY <1>5, <1>6, <1>7, <1>8, <1>9, <1>10 DEF ListenStep

\* What the node does.
LEMMA ServeHelps ==
    ASSUME TypeOK, TypeOK', Serve
    PROVE  /\ Toil \in Nat /\ Toil' \in Nat /\ Toil' <= Toil
           /\ Head(to_node) # "submit" => Toil' < Toil
<1> DEFINE N == Cardinality(Units(to_node, NodeWeight))
           C == Cardinality(Units(to_client, ClientWeight))
           request == Head(to_node)
<1>1. /\ N \in Nat /\ C \in Nat /\ SendWeight \in Nat
      /\ N' \in Nat /\ C' \in Nat /\ SendWeight' \in Nat
  BY QueuesWeigh DEF TypeOK, TypeQueues
<1>2. Toil = N + C + SendWeight /\ Toil' = N' + C' + SendWeight'
  BY DEF Toil
<1>3. TypeQueues /\ TypeQueues' /\ TypeNode
  BY DEF TypeOK
<1>4. SendWeight' = SendWeight /\ N' = N - NodeWeight[request]
  <2>1. SendWeight' = SendWeight
    BY DEF Serve, asking, SendWeight
  <2>2. to_node # <<>> /\ to_node' = Tail(to_node)
    BY DEF Serve
  <2> QED BY <1>3, <2>1, <2>2, QueuesWeigh
<1>5. \A m \in Messages : Answer(m) => C' = C + ClientWeight[m]
  BY <1>3, QueuesWeigh
<1>6. UNCHANGED to_client => C' = C
  BY <1>3, QueuesWeigh
<1> HIDE DEF N, C
<1>7. CASE request = "info" /\ Answer(Other("info"))
  <2>1. Other("info") \in Messages /\ Other("info").type = "info"
    BY <1>3, MessageTypes DEF Other
  <2>2. C' = C + 6
    BY <1>5, <1>7, <2>1, Weights
  <2>3. N' = N - 7
    BY <1>4, <1>7, Weights
  <2> QED BY <1>1, <1>2, <1>4, <2>2, <2>3
<1>8. CASE request = "register" /\ UNCHANGED to_client
  <2>1. N' = N - 1
    BY <1>4, <1>8, Weights
  <2> QED BY <1>1, <1>2, <1>4, <1>6, <1>8, <2>1
<1>9. CASE request = "submit" /\ UNCHANGED to_client
  <2>1. N' = N - 0
    BY <1>4, <1>9, Weights
  <2> QED BY <1>1, <1>2, <1>4, <1>6, <1>9, <2>1
<1>10. ASSUME request \in Payees, NEW m \in Messages, Answer(m), m.type \in {"template", "error"}
       PROVE  Toil' < Toil
  <2>1. C' = C + 1
    BY <1>5, <1>10, Weights
  <2>2. N' = N - 2
    BY <1>4, <1>10, Weights
  <2> QED BY <1>1, <1>2, <1>4, <2>1, <2>2
<1>11. CASE request \in Payees /\ \E block \in BOOLEAN : Answer(Template(block, node_synced))
  <2>1. PICK block \in BOOLEAN : Answer(Template(block, node_synced))
    BY <1>11
  <2>2. Template(block, node_synced) \in Messages /\ Template(block, node_synced).type = "template"
    BY <1>3, <2>1, MessageTypes DEF Template
  <2>3. Toil' < Toil
    BY <1>10, <1>11, <2>1, <2>2
  <2>4. Toil \in Nat /\ Toil' \in Nat
    BY <1>3, QueuesWeigh DEF Toil
  <2> QED BY <2>3, <2>4
<1>12. CASE request \in Payees /\ Answer(Other("error"))
  <2>1. Other("error") \in Messages /\ Other("error").type = "error"
    BY <1>3, MessageTypes DEF Other
  <2>2. Toil' < Toil
    BY <1>10, <1>12, <2>1
  <2>3. Toil \in Nat /\ Toil' \in Nat
    BY <1>3, QueuesWeigh DEF Toil
  <2> QED BY <2>2, <2>3
<1> QED BY <1>7, <1>8, <1>9, <1>11, <1>12 DEF Serve

\* For any capacity: until the node finds another block, the connection's client and node
\* have no more than Toil steps left to take, submitted blocks aside.
THEOREM NewsIsNearer == SafetySpec => EachStepHelps
<1>1. ASSUME IInv, IInv', Next, conn = "up", conn' = "up" PROVE Lighter
  <2>1. TypeOK /\ TypeOK' /\ TypeQueues /\ TypeQueues'
    BY <1>1 DEF IInv, TypeOK
  <2>2. Toil \in Nat /\ Toil' \in Nat
    BY <2>1, QueuesWeigh DEF Toil
  <2>3. ListenStep \/ SendRegister \/ SendRequest => Toil' < Toil
    BY <1>1, <2>1, ListenHelps
  <2>4. Serve => Toil' <= Toil /\ (Head(to_node) # "submit" => Toil' < Toil)
    BY <2>1, ServeHelps
  <2>5. Submit => Toil' <= Toil
    <3> SUFFICES ASSUME Submit PROVE Toil' = Toil
      BY <2>2
    <3> DEFINE N == Cardinality(Units(to_node, NodeWeight))
               C == Cardinality(Units(to_client, ClientWeight))
    <3>1. to_node' = Append(to_node, "submit") /\ UNCHANGED <<to_client, lpc>>
      BY DEF Submit, asking
    <3>2. N \in Nat /\ N' = N + NodeWeight["submit"] /\ C' = C
      BY <2>1, <3>1, QueuesWeigh
    <3>3. SendWeight' = SendWeight
      BY <3>1 DEF SendWeight
    <3>4. Toil = N + C + SendWeight /\ Toil' = N' + C' + SendWeight'
      BY DEF Toil
    <3> HIDE DEF N, C
    <3> QED BY <3>2, <3>3, <3>4, Weights
  <2>6. SyncChanges => Toil' <= Toil
    <3>1. SyncChanges => Toil' = Toil
      BY DEF SyncChanges, asking, Toil, Units, NodeWeight, ClientWeight, SendWeight
    <3> QED BY <2>2, <3>1
  <2>7. ~Connect /\ ~Lost /\ (NewBlock => tip' # tip)
    BY <1>1, <2>1 DEF Connect, Lost, Hangup, NewBlock, TypeOK, TypeNode
  <2>8. tip' = tip => Toil' <= Toil
    BY <1>1, <2>2, <2>3, <2>4, <2>5, <2>6, <2>7 DEF Next
  <2> QED BY <2>2, <2>3, <2>4, <2>8 DEF Lighter
<1>2. IInv /\ IInv' /\ [Next]_vars => [conn = "up" /\ conn' = "up" => Lighter]_vars
  BY <1>1
<1> QED BY <1>2, Invariance, PTL DEF SafetySpec, EachStepHelps

\* Messages that the client has no case for never come.
LEMMA AllReadable == SafetySpec => []Readable
<1>1. Init => Readable
  BY DEF Init, Readable
<1>2. ASSUME IInv, Readable, [Next]_vars PROVE Readable'
  <2> USE DEF IInv, TypeOK
  <2>1. CASE to_client' \in {to_client, <<>>}
    BY <1>2, <2>1 DEF Readable
  <2>2. CASE to_client # <<>> /\ to_client' = Tail(to_client)
    <3>1. Len(to_client) \in Nat \ {0} /\ Len(to_client') = Len(to_client) - 1
          /\ \A i \in 1..Len(to_client') : to_client'[i] = to_client[i + 1]
      BY <2>2, <1>2, TailMovesUp DEF TypeQueues
    <3> QED BY <1>2, <3>1 DEF Readable
  <2>3. ASSUME NEW m \in Messages, Answer(m), m.type # "none" PROVE Readable'
    <3>1. /\ Len(to_client') = Len(to_client) + 1 /\ Len(to_client) \in Nat
          /\ \A i \in 1..Len(to_client) : to_client'[i] = to_client[i]
          /\ to_client'[Len(to_client) + 1] = m
      BY <1>2, <2>3, AppendKeeps DEF Answer, TypeQueues
    <3> QED BY <1>2, <2>3, <3>1 DEF Readable
  <2>4. CASE Serve
    <3>1. /\ \A t \in {"info", "notification", "error"} :
                Other(t) \in Messages /\ Other(t).type # "none"
          /\ \A b \in BOOLEAN : /\ Template(b, node_synced) \in Messages
                                /\ Template(b, node_synced).type # "none"
      BY <1>2, MessageTypes DEF Other, Template
    <3> QED BY <2>1, <2>3, <2>4, <3>1 DEF Serve
  <2>5. CASE NewBlock
    <3>1. Other("notification") \in Messages /\ Other("notification").type # "none"
      BY <1>2, MessageTypes DEF Other
    <3> QED BY <2>1, <2>3, <2>5, <3>1 DEF NewBlock
  <2>6. CASE ReadInfo \/ ReadNotification \/ ReadTemplate
    BY <2>2, <2>6 DEF ReadInfo, ReadNotification, ReadTemplate, Read, Consume
  <2>7. CASE ReadFails \/ Lost
    BY <2>1, <2>7 DEF ReadFails, Lost, Hangup
  <2>8. CASE Connect \/ SendRegister \/ SendRequest \/ Submit \/ SyncChanges \/ UNCHANGED vars
    BY <2>1, <2>8 DEF Connect, SendRegister, SendRequest, Submit, SyncChanges, vars
  <2> QED BY <1>2, <2>4, <2>5, <2>6, <2>7, <2>8 DEF Next, ListenStep
<1> QED BY <1>1, <1>2, Invariance, PTL DEF SafetySpec

\* For any capacity: however full the channel, client and node do not wait for each other.
THEOREM NeverStuck == SafetySpec => []NewsIsNotStuck
<1>1. IInv /\ Readable => NewsIsNotStuck
  <2> SUFFICES ASSUME IInv, Readable, Behind PROVE ClientMoves \/ NodeMoves
    BY DEF NewsIsNotStuck
  <2> USE DEF IInv, TypeOK
  <2>1. conn = "up"
    BY DEF Behind, Offline, TypeNode
  <2>2. to_node \in Seq(Requests \cup {"submit"}) /\ to_client \in Seq(Messages)
        /\ lpc \in {"recv", "register", "request"}
    BY DEF TypeQueues, TypeClient
  <2>3. CASE to_node # <<>>
    BY <2>1, <2>3 DEF NodeMoves
  <2>4. CASE to_node = <<>>
    <3>1. Len(to_node) = 0 /\ Room
      BY <2>4, GrpcAssumption DEF Room
    <3>2. CASE lpc # "recv"
      BY <2>1, <2>2, <3>1, <3>2 DEF ClientMoves
    <3>3. CASE lpc = "recv"
      <4>1. \E i \in 1..Len(to_client) : TRUE
        BY <3>1, <3>3 DEF NothingMissed, OnItsWay
      <4>2. to_client # <<>>
        BY <4>1
      <4>3. Head(to_client).type # "none"
        <5>1. Head(to_client) = to_client[1] /\ Len(to_client) \in Nat \ {0}
          BY <2>2, <4>2, TailMovesUp
        <5> QED BY <5>1 DEF Readable
      <4> QED BY <2>1, <3>3, <4>2, <4>3 DEF ClientMoves
    <3> QED BY <3>2, <3>3
  <2> QED BY <2>3, <2>4
<1> QED BY <1>1, Invariance, AllReadable, PTL
=============================================================================
