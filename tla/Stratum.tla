------------------------------- MODULE Stratum -------------------------------
(***************************************************************************)
(* The stratum client (src/client/stratum.rs) over several connections to  *)
(* one pool, with main.rs's reconnect loop.  Three tasks share the static  *)
(* SHARE_STATS: listen(), which reads the pool's messages; the forwarding  *)
(* task of create_block_channel, which turns solved blocks into shares;    *)
(* and log_shares.  They take the mutex of shares_pending with try_lock    *)
(* and unwrap, so that two of them meeting there is a panic.               *)
(*                                                                         *)
(* The pool is external: it answers every request of a connection at most  *)
(* once, in any order, with a result or an error, and may send a job or    *)
(* close at any time.  Targets and nonce partitions are left out: they     *)
(* pass from the pool's messages into the next job and decide nothing here.*)
(***************************************************************************)
EXTENDS Naturals, FiniteSets

CONSTANTS
    Free,         \* the mutex of shares_pending has no owner
    Percent,      \* devfund_percent, in templates per cycle; 0 is no devfund
    Cycle,        \* templates per devfund cycle (10_000)
    MaxId,        \* bound: last message id of a connection (the code's u32 wraps)
    MaxSessions   \* bound: connections

ASSUME StratumAssumption ==
    /\ Percent \in Nat
    /\ Cycle \in Nat \ {0}
    /\ MaxId \in Nat \ {0}
    /\ MaxSessions \in Nat
    /\ Free \notin {"listen", "forward", "log"}

Ids == 0..MaxId
ShareErrors == {"JobNotFound", "DuplicateShare", "LowDifficultyShare"}
FatalErrors == {"Unknown", "Unauthorized", "NotSubscribed"}

VARIABLES
    session,          \* how many connections there have been
    ctr,              \* block_template_ctr, shared by all connections
    mining_dev,       \* this connection was registered for the devfund
    jobs,             \* a job has been handed to the miner on this connection
    last_stratum_id,  \* the next id of this connection
    awaiting,         \* requests of this connection the pool may still answer
    pending,          \* shares_pending: id -> connection that put it there, 0 for no entry
    stats,            \* accepted, stale, low_diff and duplicate together
    lock,             \* who holds the mutex of shares_pending
    lpc,              \* listen: "down", "top", "recv", "reply", "crashed"
    reply,            \* the answer listen is working on
    fpc,              \* forwarding task: "off", "idle", "insert", "dead"
    fid,              \* the id the forwarding task has drawn
    gpc               \* log task: "off", "idle", "print", "dead"

link   == <<session, mining_dev, jobs, awaiting>>
shares == <<last_stratum_id, pending, stats>>
listen == <<lpc, reply>>
tasks  == <<fpc, fid, gpc>>
vars   == <<session, ctr, mining_dev, jobs, last_stratum_id, awaiting, pending, stats,
            lock, lpc, reply, fpc, fid, gpc>>

should_mine_dev == Percent > 0 /\ ctr < Percent

\* A panic of listen() takes down main, and with it all tasks.
Running == lpc # "crashed"

Init ==
    /\ session = 0
    /\ ctr \in 0..(Cycle - 1)        \* main.rs draws it at random
    /\ mining_dev = FALSE
    /\ jobs = FALSE
    /\ last_stratum_id = 0
    /\ awaiting = {}
    /\ pending = [id \in Ids |-> 0]
    /\ stats = 0
    /\ lock = Free
    /\ lpc = "down"
    /\ reply = [id |-> 0, code |-> "ok"]
    /\ fpc = "off"
    /\ fid = 0
    /\ gpc = "off"

-----------------------------------------------------------------------------
(* Faulty variants of steps below, each of which breaks a property; none   *)
(* is part of Next.                                                        *)

\* ImplementsSchedule: listen() does not look whose turn it is.
KeepListening ==
    /\ lpc = "top"
    /\ lpc' = "recv"
    /\ UNCHANGED <<link, ctr, shares, lock, reply, tasks>>

\* PendingIsAwaited: the share goes out before its entry is made.
DrawIdAndSend ==
    /\ fpc = "idle"
    /\ jobs
    /\ last_stratum_id <= MaxId
    /\ last_stratum_id' = last_stratum_id + 1
    /\ fid' = last_stratum_id
    /\ awaiting' = awaiting \cup {last_stratum_id}
    /\ lock' = "forward"
    /\ fpc' = "insert"
    /\ UNCHANGED <<session, mining_dev, jobs, ctr, pending, stats, listen, gpc>>

\* TypeOK: the counter of templates is not wrapped.
BumpUnwrapped == ctr + 1

-----------------------------------------------------------------------------
(* Connections.                                                            *)

\* Ids 0 and 1 are the subscription and the authorization, under the payee's name.
register ==
    /\ mining_dev' = should_mine_dev
    /\ last_stratum_id' = 2
    /\ awaiting' = {0, 1}

\* connect() and register().  What the last connection left in shares_pending stays.
\* The 100 ms before a reconnect are taken to suffice for an aborted task to get
\* to its next await.
Connect ==
    /\ lpc = "down"
    /\ session < MaxSessions
    /\ fpc # "insert" /\ gpc # "print"
    /\ session' = session + 1
    /\ register
    /\ jobs' = FALSE
    /\ lpc' = "top"
    /\ fpc' = "idle"
    /\ gpc' = "idle"
    /\ UNCHANGED <<ctr, pending, stats, lock, reply, fid>>

\* The client is dropped, its tasks are aborted at their next await.
Hangup ==
    /\ lpc' = "down"
    /\ fpc' = IF fpc = "insert" THEN fpc ELSE "off"
    /\ gpc' = IF gpc = "print" THEN gpc ELSE "off"
    /\ awaiting' = {}
    /\ jobs' = FALSE

-----------------------------------------------------------------------------
(* listen() and handle_message().                                          *)

\* Before every message listen() looks whose turn it is, and hangs up to change
\* the payee.
CheckTurn ==
    /\ lpc = "top"
    /\ IF Percent > 0 /\ mining_dev # should_mine_dev
       THEN Hangup
       ELSE lpc' = "recv" /\ UNCHANGED <<awaiting, jobs, fpc, gpc>>
    /\ UNCHANGED <<session, mining_dev, ctr, shares, lock, reply, fid>>

\* End of the stream, a message that does not parse or is out of place, an
\* extranonce or a difficulty that is refused.
StreamFails ==
    /\ lpc = "recv"
    /\ Hangup
    /\ UNCHANGED <<session, mining_dev, ctr, shares, lock, reply, fid>>

\* mining.set_difficulty and set_extranonce change the settings of later jobs; so
\* does the answer to the subscription, which names a nonce partition.
Settings ==
    /\ lpc = "recv"
    /\ \E answered \in {{}, {0} \cap awaiting} : awaiting' = awaiting \ answered
    /\ lpc' = "top"
    /\ UNCHANGED <<session, mining_dev, jobs, ctr, shares, lock, reply, tasks>>

\* mining.notify counts the template, then hands it to the miner.  A header that
\* does not decode, or a miner without workers, ends the connection after the count.
Bump == (ctr + 1) % Cycle

Notify ==
    /\ lpc = "recv"
    /\ ctr' = Bump
    /\ \/ jobs' = TRUE /\ lpc' = "top" /\ UNCHANGED <<awaiting, fpc, gpc>>
       \/ Hangup
    /\ UNCHANGED <<session, mining_dev, shares, lock, reply, fid>>

\* An answer to a request, the share errors to shares only: listen() needs the
\* mutex, and panics when it is held.
ReadReply ==
    /\ lpc = "recv"
    /\ \E id \in awaiting, code \in {"ok"} \cup ShareErrors \cup FatalErrors :
        /\ code \in ShareErrors => id \notin {0, 1}
        /\ reply' = [id |-> id, code |-> code]
        /\ awaiting' = awaiting \ {id}
    /\ IF lock = Free
       THEN lpc' = "reply" /\ lock' = "listen"
       ELSE lpc' = "crashed" /\ UNCHANGED lock
    /\ UNCHANGED <<session, mining_dev, jobs, ctr, shares, tasks>>

\* The entry is taken out.  A result without an entry is ignored; an error without
\* one is unwrapped, which ends the process.
Known == pending[reply.id] # 0

Credited ==
    /\ lpc = "reply"
    /\ reply.code \in {"ok"} \cup ShareErrors
    /\ reply.code = "ok" \/ Known
    /\ stats' = IF Known THEN stats + 1 ELSE stats
    /\ pending' = [pending EXCEPT ![reply.id] = 0]
    /\ lock' = Free
    /\ lpc' = "top"
    /\ UNCHANGED <<link, ctr, last_stratum_id, reply, tasks>>

Fatal ==
    /\ lpc = "reply"
    /\ reply.code \in FatalErrors
    /\ Known
    /\ pending' = [pending EXCEPT ![reply.id] = 0]
    /\ lock' = Free
    /\ Hangup
    /\ UNCHANGED <<session, mining_dev, ctr, last_stratum_id, stats, reply, fid>>

UnwrapNone ==
    /\ lpc = "reply"
    /\ reply.code # "ok"
    /\ ~Known
    /\ lock' = Free
    /\ lpc' = "crashed"
    /\ UNCHANGED <<link, ctr, shares, reply, tasks>>

-----------------------------------------------------------------------------
(* The forwarding task, and the log task.                                  *)

\* A solved block of this connection's jobs gets the next id; try_lock on a mutex
\* that is held kills the task, and with it the way of shares to the pool.
DrawId ==
    /\ Running
    /\ fpc = "idle"
    /\ jobs
    /\ last_stratum_id <= MaxId
    /\ last_stratum_id' = last_stratum_id + 1
    /\ fid' = last_stratum_id
    /\ IF lock = Free
       THEN fpc' = "insert" /\ lock' = "forward"
       ELSE fpc' = "dead" /\ UNCHANGED lock
    /\ UNCHANGED <<link, ctr, pending, stats, listen, gpc>>

\* The entry is made before the share is sent.  An aborted task ends here, its
\* share unsent; so does one whose sink is gone, when the socket stops writing.
InsertAndSend ==
    /\ Running
    /\ fpc = "insert"
    /\ pending' = [pending EXCEPT ![fid] = session]
    /\ lock' = Free
    /\ IF lpc = "down"
       THEN fpc' = "off" /\ UNCHANGED awaiting
       ELSE fpc' \in {"idle", "off"} /\ awaiting' = awaiting \cup {fid}
    /\ UNCHANGED <<session, mining_dev, jobs, ctr, last_stratum_id, stats, listen, fid, gpc>>

\* log_shares prints the number of entries.
LogStarts ==
    /\ Running
    /\ gpc = "idle"
    /\ IF lock = Free
       THEN gpc' = "print" /\ lock' = "log"
       ELSE gpc' = "dead" /\ UNCHANGED lock
    /\ UNCHANGED <<link, ctr, shares, listen, fpc, fid>>

LogEnds ==
    /\ Running
    /\ gpc = "print"
    /\ gpc' = IF lpc = "down" THEN "off" ELSE "idle"
    /\ lock' = Free
    /\ UNCHANGED <<link, ctr, shares, listen, fpc, fid>>

-----------------------------------------------------------------------------
ListenStep == CheckTurn \/ StreamFails \/ Settings \/ Notify \/ ReadReply
                \/ Credited \/ Fatal \/ UnwrapNone
TaskStep   == DrawId \/ InsertAndSend \/ LogStarts \/ LogEnds

Next == Connect \/ ListenStep \/ TaskStep

Spec == Init /\ [][Next]_vars

-----------------------------------------------------------------------------
(* Properties.                                                             *)

\* Every variable keeps its type; the template counter stays inside its cycle.
TypeOK ==
    /\ session \in 0..MaxSessions
    /\ ctr \in 0..(Cycle - 1)
    /\ mining_dev \in BOOLEAN
    /\ jobs \in BOOLEAN
    /\ last_stratum_id \in 0..(MaxId + 1)
    /\ awaiting \subseteq Ids
    /\ pending \in [Ids -> 0..MaxSessions]
    /\ stats \in Nat
    /\ lock \in {Free, "listen", "forward", "log"}
    /\ lpc \in {"down", "top", "recv", "reply", "crashed"}
    /\ reply \in [id : Ids, code : {"ok"} \cup ShareErrors \cup FatalErrors]
    /\ fpc \in {"off", "idle", "insert", "dead"}
    /\ fid \in Ids
    /\ gpc \in {"off", "idle", "print", "dead"}

\* The shares of this connection in shares_pending are exactly those the pool has
\* yet to answer, so every answer finds its own share however ids of an earlier
\* connection linger in the static map, and is counted once.
InFlight == (awaiting \ {0, 1})
              \cup (IF lpc = "reply" /\ reply.id \notin {0, 1} THEN {reply.id} ELSE {})
PendingIsAwaited ==
    lpc \in {"top", "recv", "reply"}
        => InFlight = {id \in Ids : pending[id] = session}

-----------------------------------------------------------------------------
(* Refinement of PayeeSchedule: a template counts when mining.notify does,  *)
(* and is for whom the connection was registered.                          *)
Payee == IF ~jobs THEN "nobody" ELSE IF mining_dev THEN "dev" ELSE "miner"

Schedule == INSTANCE PayeeSchedule WITH Share <- Percent, turn <- ctr, paid <- Payee

\* A job goes to the miner under the registration of the payee whose turn it is and
\* stays with that payee, across every reconnect and every template that is counted
\* but not mined.
ImplementsSchedule == Schedule!Spec

-----------------------------------------------------------------------------
(* What an assertion of stratum.rs says, which the code does not keep.     *)

\* stratum.rs:254 unwraps try_lock on shares_pending: nobody else is in there when
\* a share is entered, or else the connection never submits another one.
ForwardMeetsNobody == fpc # "dead"
=============================================================================
