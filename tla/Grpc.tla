-------------------------------- MODULE Grpc --------------------------------
(***************************************************************************)
(* The gRPC client (src/client/grpc.rs) over several connections to one    *)
(* node: how it learns of new templates, for whom it asks, and what it has *)
(* the MinerManager tell the workers.                                      *)
(*                                                                         *)
(* The node is external.  It answers requests in order and, once it has    *)
(* registered the client, notifies it of every new block; answers that the *)
(* client only logs are left out.  A template is the tip of the node it    *)
(* was made at.  The two kinds of notification, for old and new nodes, are *)
(* handled alike and are one here.                                         *)
(***************************************************************************)
EXTENDS Naturals, Sequences

CONSTANTS
    Percent,         \* devfund_percent, in templates per cycle; 0 is no devfund
    Cycle,           \* templates per devfund cycle (10_000)
    Capacity,        \* of the channel to the node (2)
    MaxTip,          \* bound: the node's blocks
    MaxConnections   \* bound: connections

ASSUME GrpcAssumption ==
    /\ Percent \in Nat
    /\ Cycle \in Nat \ {0}
    /\ Capacity \in Nat \ {0}
    /\ MaxTip \in Nat \ {0}
    /\ MaxConnections \in Nat

VARIABLES
    tip, node_synced,     \* the node
    registered,           \* the node notifies this connection
    conn,                 \* "down" or "up"
    connections,          \* how many there have been
    to_node,              \* send_channel and the way to the node: requests
    to_client,            \* the stream: what listen() has yet to read
    ctr,                  \* block_template_ctr, shared by all connections
    mine_when_not_synced,
    lpc,                  \* listen: "recv", or waiting to send: "register", "request"
    payee,                \* whom the request it waits to send is for
    is_synced,            \* the MinerManager's flag
    told,                 \* the tip the workers are mining on, 0 for none
    answered              \* history: the last template answer handled

node   == <<tip, node_synced, registered>>
link   == <<conn, connections>>
asking == <<ctr, lpc, payee>>
miner  == <<is_synced, told>>
vars   == <<tip, node_synced, registered, conn, connections, to_node, to_client, ctr,
            mine_when_not_synced, lpc, payee, is_synced, told, answered>>

Payees   == {"dev", "miner"}
Requests == {"info", "register"} \cup Payees     \* a payee: a template for it
Template(block, synced) == [type |-> "template", tip |-> tip, block |-> block, synced |-> synced]
Other(type) == [type |-> type, tip |-> 0, block |-> FALSE, synced |-> FALSE]
NoAnswer == Other("none")

Init ==
    /\ tip = 1
    /\ node_synced \in BOOLEAN
    /\ registered = FALSE
    /\ conn = "down"
    /\ connections = 0
    /\ to_node = <<>>
    /\ to_client = <<>>
    /\ ctr \in 0..(Cycle - 1)          \* main.rs draws it at random
    /\ mine_when_not_synced \in BOOLEAN
    /\ lpc = "recv"
    /\ payee = "miner"
    /\ is_synced = TRUE
    /\ told = 0
    /\ answered = NoAnswer

-----------------------------------------------------------------------------
(* Connections.                                                            *)

\* connect() puts the first request in the channel before anybody reads it; a new
\* MinerManager comes with the connection.
Connect ==
    /\ conn = "down"
    /\ connections < MaxConnections
    /\ conn' = "up"
    /\ connections' = connections + 1
    /\ to_node' = <<"info">>
    /\ is_synced' = TRUE
    /\ told' = 0
    /\ UNCHANGED <<node, to_client, asking, mine_when_not_synced, answered>>

\* listen() returns, or fails; manager and client are dropped.
Hangup ==
    /\ conn' = "down"
    /\ to_node' = <<>>
    /\ to_client' = <<>>
    /\ registered' = FALSE
    /\ lpc' = "recv"
    /\ told' = 0
    /\ answered' = NoAnswer
    /\ UNCHANGED <<tip, node_synced, connections, mine_when_not_synced, is_synced>>

Lost ==
    /\ conn = "up"
    /\ Hangup
    /\ UNCHANGED <<ctr, payee>>

-----------------------------------------------------------------------------
(* Faulty variants of steps below, each of which breaks a property; none   *)
(* is part of Next.                                                        *)

\* NothingMissed: the first template is asked for before the client is registered.
SendRegisterLast ==
    /\ conn = "up"
    /\ lpc = "register"
    /\ Len(to_node) + 1 < Capacity
    /\ to_node' = to_node \o <<"miner", "register">>
    /\ ctr' = (ctr + 1) % Cycle
    /\ payee' = "miner"
    /\ lpc' = "recv"
    /\ UNCHANGED <<node, link, to_client, mine_when_not_synced, miner, answered>>

\* WorkersObey: a job does not set the flag, so the next None is suppressed.
JobForOnly(t) == UNCHANGED is_synced /\ told' = t

\* NewsArrives: a request waits for the whole channel, not for a place in it.
SendRequestAlone ==
    /\ conn = "up"
    /\ lpc = "request"
    /\ to_node = <<>>
    /\ to_node' = Append(to_node, payee)
    /\ lpc' = "recv"
    /\ UNCHANGED <<node, link, to_client, ctr, payee, mine_when_not_synced, miner, answered>>

\* OnlyTheEdgeIsOff: the template is counted before it is assigned.
CountThenAssign ==
    /\ ctr' = (ctr + 1) % Cycle
    /\ payee' = IF Percent > 0 /\ ctr' <= Percent THEN "dev" ELSE "miner"
    /\ lpc' = "request"

\* TypeOK: a block is sent without waiting for room.
SubmitAnyway ==
    /\ conn = "up"
    /\ answered # NoAnswer
    /\ to_node' = Append(to_node, "submit")
    /\ UNCHANGED <<node, link, to_client, asking, mine_when_not_synced, miner, answered>>

-----------------------------------------------------------------------------
(* client_get_block_template, up to the await of its send.                 *)
PaysDevfund == Percent > 0 /\ ctr <= Percent

GetBlockTemplate ==
    /\ payee' = IF PaysDevfund THEN "dev" ELSE "miner"
    /\ ctr' = (ctr + 1) % Cycle
    /\ lpc' = "request"

\* process_block of the MinerManager: one that works ...
JobFor(t) == is_synced' = TRUE /\ told' = t
StopMining == is_synced' = FALSE /\ told' = IF is_synced THEN 0 ELSE told

-----------------------------------------------------------------------------
(* listen() and handle_message().                                          *)

Read(type) ==
    /\ conn = "up"
    /\ lpc = "recv"
    /\ to_client # <<>>
    /\ Head(to_client).type = type

Consume == to_client' = Tail(to_client) /\ UNCHANGED <<node, link, mine_when_not_synced>>

\* The version decides which notification to register for.
ReadInfo ==
    /\ Read("info")
    /\ Consume
    /\ lpc' = "register"
    /\ UNCHANGED <<to_node, ctr, payee, miner, answered>>

ReadNotification ==
    /\ Read("notification")
    /\ Consume
    /\ GetBlockTemplate
    /\ UNCHANGED <<to_node, miner, answered>>

\* GetBlockTemplateResponse: a synced block, or any block when the option says so,
\* is mined; without sync the workers are stopped; a block that is missing is logged.
Wanted(m) == m.block /\ (m.synced \/ mine_when_not_synced)

ReadTemplate ==
    /\ Read("template")
    /\ Consume
    /\ answered' = Head(to_client)
    /\ LET m == Head(to_client) IN
        \/ Wanted(m) /\ JobFor(m.tip)
        \/ ~Wanted(m) /\ ~m.synced /\ StopMining
        \/ ~Wanted(m) /\ m.synced /\ UNCHANGED miner
    /\ UNCHANGED <<to_node, asking>>

\* A template error, a version that does not parse, a process_block that fails.
ReadFails ==
    /\ Read("error") \/ Read("info") \/ Read("template")
    /\ Hangup
    /\ UNCHANGED <<ctr, payee>>

\* Both sends of a GetInfoResponse wait for room, the registration first.
Room == Len(to_node) < Capacity

SendRegister ==
    /\ conn = "up"
    /\ lpc = "register"
    /\ Room
    /\ to_node' = Append(to_node, "register")
    /\ GetBlockTemplate
    /\ UNCHANGED <<node, link, to_client, mine_when_not_synced, miner, answered>>

SendRequest ==
    /\ conn = "up"
    /\ lpc = "request"
    /\ Room
    /\ to_node' = Append(to_node, payee)
    /\ lpc' = "recv"
    /\ UNCHANGED <<node, link, to_client, ctr, payee, mine_when_not_synced, miner, answered>>

\* create_block_channel's task shares the channel to the node.  The block is one of a
\* template of this connection, perhaps found before the workers were stopped.
Submit ==
    /\ conn = "up"
    /\ answered # NoAnswer
    /\ Room
    /\ to_node' = Append(to_node, "submit")
    /\ UNCHANGED <<node, link, to_client, asking, mine_when_not_synced, miner, answered>>

-----------------------------------------------------------------------------
(* The node.                                                               *)

Answer(m) == to_client' = Append(to_client, m)

Serve ==
    /\ conn = "up"
    /\ to_node # <<>>
    /\ to_node' = Tail(to_node)
    /\ LET request == Head(to_node) IN
        \/ request = "info" /\ Answer(Other("info")) /\ UNCHANGED registered
        \/ request = "register" /\ registered' \in BOOLEAN /\ UNCHANGED to_client
        \/ /\ request \in Payees
           /\ \/ \E block \in BOOLEAN : Answer(Template(block, node_synced))
              \/ Answer(Other("error"))
           /\ UNCHANGED registered
        \/ request = "submit" /\ UNCHANGED <<to_client, registered>>
    /\ UNCHANGED <<tip, node_synced, link, asking, mine_when_not_synced, miner, answered>>

NewBlock ==
    /\ tip < MaxTip
    /\ tip' = tip + 1
    /\ IF registered THEN Answer(Other("notification")) ELSE UNCHANGED to_client
    /\ UNCHANGED <<node_synced, registered, link, to_node, asking, mine_when_not_synced,
                   miner, answered>>

SyncChanges ==
    /\ node_synced' = ~node_synced
    /\ UNCHANGED <<tip, registered, link, to_node, to_client, asking, mine_when_not_synced,
                   miner, answered>>

-----------------------------------------------------------------------------
ListenStep == ReadInfo \/ ReadNotification \/ ReadTemplate \/ ReadFails
Next ==
    \/ Connect \/ Lost
    \/ ListenStep \/ SendRegister \/ SendRequest \/ Submit
    \/ Serve \/ NewBlock \/ SyncChanges

\* The node serves and the task of listen() is polled.  The permits of the bounded
\* channel are handed out in the order in which senders asked for them, so a send is
\* not passed over for ever.
Fairness ==
    /\ WF_vars(ListenStep)
    /\ WF_vars(Serve)
    /\ SF_vars(SendRegister)
    /\ SF_vars(SendRequest)

SafetySpec == Init /\ [][Next]_vars
Spec == SafetySpec /\ Fairness

-----------------------------------------------------------------------------
(* Properties.                                                             *)

Messages == [type : {"none", "info", "notification", "template", "error"},
             tip : 0..MaxTip, block : BOOLEAN, synced : BOOLEAN]

TypeNode ==
    /\ tip \in 1..MaxTip
    /\ node_synced \in BOOLEAN
    /\ registered \in BOOLEAN
    /\ conn \in {"down", "up"}
    /\ connections \in 0..MaxConnections
TypeQueues ==
    /\ to_node \in Seq(Requests \cup {"submit"}) /\ Len(to_node) <= Capacity
    /\ to_client \in Seq(Messages)
TypeClient ==
    /\ ctr \in 0..(Cycle - 1)
    /\ mine_when_not_synced \in BOOLEAN
    /\ lpc \in {"recv", "register", "request"}
    /\ payee \in Payees
    /\ is_synced \in BOOLEAN
    /\ told \in 0..MaxTip
    /\ answered \in Messages

\* Every variable keeps its type; the channel to the node holds no more than it can.
TypeOK == TypeNode /\ TypeQueues /\ TypeClient

\* No template is missed: while the client has not seen a template of the node's
\* newest block, something that will bring it one is under way, from the moment the
\* node registers it, in whatever order blocks and registration come.
Behind == registered /\ answered.tip # tip
OnItsWay ==
    \/ lpc = "request"
    \/ \E i \in 1..Len(to_node) : to_node[i] \in Payees
    \/ \E i \in 1..Len(to_client) :
        \/ to_client[i].type \in {"notification", "error"}
        \/ to_client[i].type = "template" /\ to_client[i].tip = tip
NothingMissed == Behind => OnItsWay

\* The workers do what the last answer of the node asks for, across every sequence of
\* synced and unsynced answers and although process_block suppresses a repeated None:
\* they mine on its block, or they stand still.
WorkersObey ==
    /\ Wanted(answered) => told = answered.tip
    /\ answered.type = "template" /\ ~answered.synced /\ ~Wanted(answered) => told = 0

\* A client that is behind catches up or is cut off, however many blocks are being
\* submitted through the same channel.
NewsArrives == Behind ~> ~Behind

-----------------------------------------------------------------------------
(* The schedule of payees: a template counts when it is asked for.         *)
Schedule == INSTANCE PayeeSchedule WITH Share <- Percent, turn <- ctr, paid <- payee

\* Of the templates of a cycle those with a number below the percentage, "out of 10_000"
\* (cli.rs:62), are asked for in the devfund's name.  The code's <= asks for one more,
\* so this does not hold.
ImplementsSchedule == Schedule!Spec

\* That one template is all that is wrong: every other is asked for in the name of
\* whose turn it is, and every turn, that one's too, is used up exactly once, however
\* requests wait for room and connections end.
AtEdge == Percent > 0 /\ ctr = Percent
EdgeIsCounted == AtEdge /\ ctr' = (ctr + 1) % Cycle
OnlyTheEdgeIsOff == Schedule!Init /\ [][Schedule!Next \/ EdgeIsCounted]_<<ctr, payee>>
=============================================================================
