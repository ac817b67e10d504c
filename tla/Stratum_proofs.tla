--------------------------- MODULE Stratum_proofs ---------------------------
(***************************************************************************)
(* Proofs about the stratum client, for any devfund percentage and cycle   *)
(* and any number of connections and shares.                               *)
(***************************************************************************)
EXTENDS Stratum, TLAPS

-----------------------------------------------------------------------------
(* The inductive invariant, part by part.                                  *)

Up == lpc \in {"top", "recv", "reply"}

\* No entry is newer than the connection, and none is made for the requests of
\* register().
EntriesAreOld ==
    \A id \in Ids : pending[id] <= session /\ (id < 2 => pending[id] = 0)

\* Ids are drawn in order: what is awaited, answered or entered on this connection
\* was drawn on it.
IdsAreDrawn ==
    Up => /\ last_stratum_id >= 2
          /\ \A id \in awaiting : id < last_stratum_id
          /\ lpc = "reply" => reply.id < last_stratum_id /\ reply.id \notin awaiting
          /\ \A id \in Ids : id >= last_stratum_id => pending[id] # session

\* The id being entered is fresh: its share is not on its way yet.
InsertIsFresh ==
    /\ fpc = "insert" => fid >= 2
    /\ Up /\ fpc = "insert" =>
        /\ fid < last_stratum_id
        /\ fid \notin awaiting
        /\ lpc = "reply" => reply.id # fid
        /\ pending[fid] # session
    /\ lpc = "down" => fpc # "idle"      \* nothing is drawn between connections

\* While a message is read, the connection is registered for whose turn it is.
TurnHolds ==
    /\ lpc = "recv" => (mining_dev <=> should_mine_dev)
    /\ Percent = 0 => ~mining_dev

IInv ==
    /\ TypeOK
    /\ PendingIsAwaited
    /\ EntriesAreOld
    /\ IdsAreDrawn
    /\ InsertIsFresh
    /\ TurnHolds

-----------------------------------------------------------------------------
\* The initial state satisfies the inductive invariant.
LEMMA InitIInv == Init => IInv
<1> SUFFICES ASSUME Init PROVE IInv
  OBVIOUS
<1> USE StratumAssumption DEF Init
<1>1. TypeOK
  <2>1. pending \in [Ids -> 0..MaxSessions] /\ 0 \in Ids /\ fid \in Ids
    BY DEF Ids
  <2>2. reply \in [id : Ids, code : {"ok"} \cup ShareErrors \cup FatalErrors]
    BY <2>1
  <2>3. session \in 0..MaxSessions /\ last_stratum_id \in 0..(MaxId + 1)
    OBVIOUS
  <2>4. mining_dev \in BOOLEAN /\ jobs \in BOOLEAN
    OBVIOUS
  <2> QED BY <2>1, <2>2, <2>3, <2>4 DEF TypeOK
<1>2. EntriesAreOld
  BY DEF EntriesAreOld
<1>3. PendingIsAwaited /\ IdsAreDrawn /\ InsertIsFresh
  BY SMT DEF PendingIsAwaited, IdsAreDrawn, InsertIsFresh, Up
<1>4. TurnHolds
  <2>1. lpc # "recv" /\ ~mining_dev
    OBVIOUS
  <2> QED BY <2>1 DEF TurnHolds
<1> QED BY <1>1, <1>2, <1>3, <1>4 DEF IInv

\* A new connection starts with no share of its own in the map.
LEMMA ConnectIInv == ASSUME IInv, Connect PROVE IInv'
<1> USE StratumAssumption DEF Connect, register, IInv
<1>1. TypeOK' /\ EntriesAreOld'
  <2>1. mining_dev' \in BOOLEAN
    BY Zenon DEF should_mine_dev
  <2>2. TypeOK'
    <3>1. session' \in 0..MaxSessions
      BY DEF TypeOK
    <3>2. last_stratum_id' \in 0..(MaxId + 1) /\ awaiting' \subseteq Ids
      BY DEF Ids
    <3>3. jobs' \in BOOLEAN /\ lpc' = "top" /\ fpc' = "idle" /\ gpc' = "idle"
      OBVIOUS
    <3>4. UNCHANGED <<ctr, pending, stats, lock, reply, fid>>
      OBVIOUS
    <3> QED BY <2>1, <3>1, <3>2, <3>3, <3>4, Zenon DEF TypeOK, Ids
  <2>3. EntriesAreOld'
    BY DEF TypeOK, EntriesAreOld
  <2> QED BY <2>2, <2>3
<1>2. \A id \in Ids : pending'[id] # session'
  BY DEF TypeOK, EntriesAreOld
<1>3. PendingIsAwaited' /\ IdsAreDrawn' /\ InsertIsFresh'
  BY <1>2, <1>1 DEF TypeOK, PendingIsAwaited, InFlight, IdsAreDrawn, InsertIsFresh, Up, Ids
<1>4. TurnHolds'
  <2>1. Percent = 0 => ~should_mine_dev
    BY DEF should_mine_dev
  <2>2. lpc' # "recv"
    OBVIOUS
  <2> QED BY <2>1, <2>2, Zenon DEF TurnHolds
<1> QED BY <1>1, <1>3, <1>4

\* Every step of listen() preserves it.
LEMMA ListenIInv == ASSUME IInv, ListenStep PROVE IInv'
<1> USE StratumAssumption DEF IInv, link, shares, tasks, Up
<1>1. CASE CheckTurn
  <2>1. TypeOK' /\ EntriesAreOld' /\ IdsAreDrawn' /\ InsertIsFresh'
    BY <1>1 DEF CheckTurn, Hangup, TypeOK, EntriesAreOld, IdsAreDrawn, InsertIsFresh
  <2>2. PendingIsAwaited'
    BY <1>1 DEF CheckTurn, Hangup, TypeOK, PendingIsAwaited, InFlight
  <2>3. should_mine_dev' = should_mine_dev
    BY <1>1 DEF CheckTurn, should_mine_dev
  <2>4. Percent = 0 => ~should_mine_dev
    BY DEF should_mine_dev
  <2>5. lpc' = "recv" => (mining_dev <=> should_mine_dev)
    <3>1. Percent > 0 \/ Percent = 0
      OBVIOUS
    <3>2. CASE Percent > 0
      <4>1. lpc' = "recv" => ~(mining_dev # should_mine_dev)
        BY <1>1, <3>2 DEF CheckTurn, Hangup
      <4>2. mining_dev \in BOOLEAN /\ should_mine_dev \in BOOLEAN
        BY Zenon DEF TypeOK, should_mine_dev
      <4> QED BY <4>1, <4>2, Zenon
    <3>3. CASE Percent = 0
      BY <2>4, <3>3 DEF TurnHolds
    <3> QED BY <3>1, <3>2, <3>3
  <2>6. mining_dev' = mining_dev
    BY <1>1 DEF CheckTurn
  <2>7. TurnHolds'
    BY <2>3, <2>5, <2>6, Zenon DEF TurnHolds
  <2> QED BY <2>1, <2>2, <2>7
<1>2. CASE StreamFails
  BY <1>2 DEF StreamFails, Hangup, TypeOK, PendingIsAwaited, InFlight, EntriesAreOld,
     IdsAreDrawn, InsertIsFresh, TurnHolds, should_mine_dev
<1>3. CASE Settings
  BY <1>3 DEF Settings, TypeOK, PendingIsAwaited, InFlight, EntriesAreOld,
     IdsAreDrawn, InsertIsFresh, TurnHolds, should_mine_dev
<1>4. CASE Notify
  <2>1. ctr' \in 0..(Cycle - 1)
    BY <1>4 DEF Notify, Bump, TypeOK
  <2> QED
    BY <1>4, <2>1 DEF Notify, Hangup, TypeOK, PendingIsAwaited, InFlight, EntriesAreOld,
       IdsAreDrawn, InsertIsFresh, TurnHolds, should_mine_dev
<1>5. CASE ReadReply
  BY <1>5 DEF ReadReply, TypeOK, PendingIsAwaited, InFlight, EntriesAreOld,
     IdsAreDrawn, InsertIsFresh, TurnHolds, should_mine_dev
<1>6. CASE Credited
  BY <1>6 DEF Credited, Known, TypeOK, PendingIsAwaited, InFlight, EntriesAreOld,
     IdsAreDrawn, InsertIsFresh, TurnHolds, should_mine_dev, Ids
<1>7. CASE Fatal
  <2>1. lpc' = "down" /\ reply.id \in Ids
    BY <1>7 DEF Fatal, Hangup, TypeOK
  <2>2. TypeOK'
    <3>1. pending' \in [Ids -> 0..MaxSessions]
      BY <1>7, <2>1 DEF Fatal, TypeOK
    <3>2. fpc' \in {"off", "idle", "insert", "dead"}
            /\ gpc' \in {"off", "idle", "print", "dead"}
      BY <1>7 DEF Fatal, Hangup, TypeOK
    <3> QED BY <1>7, <2>1, <3>1, <3>2 DEF Fatal, Hangup, TypeOK
  <2>3. EntriesAreOld'
    BY <1>7, <2>1 DEF Fatal, TypeOK, EntriesAreOld, Ids
  <2>4. PendingIsAwaited' /\ IdsAreDrawn' /\ InsertIsFresh'
    BY <1>7, <2>1 DEF Fatal, Hangup, PendingIsAwaited, IdsAreDrawn, InsertIsFresh
  <2>5. TurnHolds'
    BY <1>7, <2>1 DEF Fatal, TurnHolds
  <2> QED BY <2>2, <2>3, <2>4, <2>5
<1>8. CASE UnwrapNone
  BY <1>8 DEF UnwrapNone, TypeOK, PendingIsAwaited, InFlight, EntriesAreOld,
     IdsAreDrawn, InsertIsFresh, TurnHolds, should_mine_dev
<1> QED
  BY <1>1, <1>2, <1>3, <1>4, <1>5, <1>6, <1>7, <1>8 DEF ListenStep

\* Every step of the other tasks preserves it.
LEMMA TaskIInv == ASSUME IInv, TaskStep PROVE IInv'
<1> USE StratumAssumption DEF IInv, link, shares, listen, Up
<1>1. CASE DrawId
  <2>1. Up
    BY <1>1 DEF DrawId, Running, TypeOK, InsertIsFresh
  <2>2. TypeOK'
    BY <1>1 DEF DrawId, TypeOK, Ids
  <2>3. PendingIsAwaited' /\ EntriesAreOld' /\ TurnHolds'
    BY <1>1 DEF DrawId, PendingIsAwaited, InFlight, EntriesAreOld, TurnHolds, should_mine_dev
  <2>4. IdsAreDrawn'
    BY <1>1, <2>1 DEF DrawId, IdsAreDrawn, TypeOK, Ids
  <2>5. InsertIsFresh'
    BY <1>1, <2>1 DEF DrawId, IdsAreDrawn, InsertIsFresh, TypeOK, Ids
  <2> QED BY <2>2, <2>3, <2>4, <2>5
<1>2. CASE InsertAndSend
  <2>1. fid \in Ids /\ session \in 0..MaxSessions
    BY DEF TypeOK
  <2>2. TypeOK'
    BY <1>2, <2>1 DEF InsertAndSend, TypeOK
  <2>3. /\ pending' = [pending EXCEPT ![fid] = session]
        /\ \A id \in Ids \ {fid} : pending'[id] = pending[id]
        /\ pending'[fid] = session
    BY <1>2, <2>1 DEF InsertAndSend, TypeOK
  <2>4. CASE Up
    <3>1. fid >= 2 /\ fid < last_stratum_id /\ fid \notin awaiting
            /\ (lpc = "reply" => reply.id # fid)
      BY <1>2, <2>4 DEF InsertAndSend, InsertIsFresh
    <3>2. awaiting' = awaiting \cup {fid}
      BY <1>2, <2>4 DEF InsertAndSend
    <3>3. EntriesAreOld'
      BY <1>2, <2>1, <2>3, <3>1 DEF InsertAndSend, EntriesAreOld, TypeOK, Ids
    <3>4. IdsAreDrawn'
      BY <1>2, <2>1, <2>3, <2>4, <3>1, <3>2 DEF InsertAndSend, IdsAreDrawn, TypeOK, Ids
    <3>5. PendingIsAwaited'
      BY <1>2, <2>1, <2>3, <2>4, <3>1, <3>2
      DEF InsertAndSend, PendingIsAwaited, InFlight, TypeOK, Ids
    <3>6. InsertIsFresh' /\ TurnHolds'
      BY <1>2 DEF InsertAndSend, InsertIsFresh, TurnHolds, should_mine_dev
    <3> QED BY <2>2, <3>3, <3>4, <3>5, <3>6
  <2>5. CASE ~Up
    <3>1. lpc' = lpc /\ fid' = fid
      BY <1>2 DEF InsertAndSend
    <3>2. EntriesAreOld'
      BY <1>2, <2>1, <2>3 DEF InsertAndSend, InsertIsFresh, EntriesAreOld, TypeOK, Ids
    <3>3. PendingIsAwaited' /\ IdsAreDrawn' /\ InsertIsFresh'
      BY <1>2, <2>5, <3>1 DEF InsertAndSend, PendingIsAwaited, IdsAreDrawn, InsertIsFresh
    <3>4. TurnHolds'
      BY <1>2 DEF InsertAndSend, TurnHolds, should_mine_dev
    <3> QED BY <2>2, <3>2, <3>3, <3>4
  <2> QED BY <2>4, <2>5
<1>3. CASE LogStarts
  BY <1>3 DEF LogStarts, TypeOK, PendingIsAwaited, InFlight, EntriesAreOld,
     IdsAreDrawn, InsertIsFresh, TurnHolds, should_mine_dev
<1>4. CASE LogEnds
  BY <1>4 DEF LogEnds, TypeOK, PendingIsAwaited, InFlight, EntriesAreOld,
     IdsAreDrawn, InsertIsFresh, TurnHolds, should_mine_dev
<1> QED
  BY <1>1, <1>2, <1>3, <1>4 DEF TaskStep

\* The inductive invariant holds in every reachable state.
THEOREM Invariance == Spec => []IInv
<1>1. ASSUME IInv, UNCHANGED vars PROVE IInv'
  BY <1>1 DEF vars, IInv, TypeOK, PendingIsAwaited, InFlight, EntriesAreOld,
     IdsAreDrawn, InsertIsFresh, TurnHolds, should_mine_dev, Up
<1>2. ASSUME IInv, [Next]_vars PROVE IInv'
  BY <1>1, <1>2, ConnectIInv, ListenIInv, TaskIInv DEF Next
<1> QED BY InitIInv, <1>2, PTL DEF Spec

-----------------------------------------------------------------------------
\* Type correctness.
THEOREM TypeCorrect == Spec => []TypeOK
  BY Invariance, PTL DEF IInv

\* Answers to shares always find their own share, whatever earlier connections
\* have left in the static map.
THEOREM AnswersFindTheirShare == Spec => []PendingIsAwaited
  BY Invariance, PTL DEF IInv

\* Only mining.notify moves the counter, and with a job to hand out it does so in the
\* turn of the registered payee; whatever else changes the payee has no job.
THEOREM ScheduleIsKept == Spec => ImplementsSchedule
<1>1. Init => Schedule!Init
  BY DEF Init, Schedule!Init, Payee
<1>2. ASSUME IInv, [Next]_vars
      PROVE  [Schedule!Next]_<<ctr, Payee>>
  <2>1. CASE Notify
    <3>1. ctr' = (ctr + 1) % Cycle /\ UNCHANGED mining_dev
      BY <2>1 DEF Notify, Bump
    <3>2. Payee' \in {Schedule!Due, "nobody"}
      <4>1. CASE ~jobs'
        BY <4>1 DEF Payee
      <4>2. CASE jobs'
        <5>1. mining_dev <=> ctr < Percent
          BY <1>2, <2>1, StratumAssumption DEF Notify, IInv, TurnHolds, should_mine_dev, TypeOK
        <5> QED BY <3>1, <4>2, <5>1 DEF Payee, Schedule!Due
      <4> QED BY <4>1, <4>2
    <3> QED BY <3>1, <3>2 DEF Schedule!Next, Schedule!NextTemplate
  <2>2. CASE ~Notify
    <3>1. \/ UNCHANGED <<ctr, jobs, mining_dev>>
          \/ UNCHANGED ctr /\ ~jobs'
      BY <1>2, <2>2 DEF vars, Next, Connect, register, ListenStep, TaskStep, CheckTurn, StreamFails,
         Settings, ReadReply, Credited, Fatal, UnwrapNone, DrawId, InsertAndSend, LogStarts,
         LogEnds, link, Hangup
    <3>2. CASE UNCHANGED <<ctr, jobs, mining_dev>>
      BY <3>2 DEF Payee
    <3>3. CASE UNCHANGED ctr /\ ~jobs'
      BY <3>3 DEF Payee, Schedule!Next, Schedule!GiveUp
    <3> QED BY <3>1, <3>2, <3>3
  <2> QED BY <2>1, <2>2
<1> QED BY <1>1, <1>2, Invariance, PTL DEF Spec, ImplementsSchedule, Schedule!Spec

-----------------------------------------------------------------------------
(* What the invariant says of the two panics of this client, and of the    *)
(* mutex they are about.                                                   *)

\* The mutex of shares_pending is held exactly by the task that is inside: no hangup,
\* abort, reconnect or panic of another task leaves it locked, and a try_lock only
\* fails on a task that really is in there.
LockIsExact ==
    /\ lock = "listen"  <=> lpc = "reply"
    /\ lock = "forward" <=> fpc = "insert"
    /\ lock = "log"     <=> gpc = "print"

\* Every task takes the mutex when it enters and gives it back when it leaves.
LEMMA LockStep == ASSUME TypeOK, LockIsExact, Next PROVE LockIsExact'
<1> USE StratumAssumption DEF TypeOK, LockIsExact, Hangup, link, shares, listen, tasks
<1>1. CASE Connect
  BY <1>1 DEF Connect, register
<1>2. CASE CheckTurn \/ StreamFails \/ Settings \/ Notify
  BY <1>2 DEF CheckTurn, StreamFails, Settings, Notify
<1>3. CASE ReadReply
  BY <1>3 DEF ReadReply
<1>4. CASE Credited \/ Fatal \/ UnwrapNone
  BY <1>4 DEF Credited, Fatal, UnwrapNone
<1>5. CASE DrawId \/ InsertAndSend
  BY <1>5 DEF DrawId, InsertAndSend
<1>6. CASE LogStarts \/ LogEnds
  BY <1>6 DEF LogStarts, LogEnds
<1> QED BY <1>1, <1>2, <1>3, <1>4, <1>5, <1>6 DEF Next, ListenStep, TaskStep

\* The mutex never leaks.
THEOREM LockNeverLeaks == Spec => []LockIsExact
<1>1. Init => LockIsExact
  BY StratumAssumption DEF Init, LockIsExact
<1>2. ASSUME IInv, LockIsExact, [Next]_vars PROVE LockIsExact'
  BY <1>2, LockStep DEF IInv, LockIsExact, vars
<1> QED BY <1>1, <1>2, Invariance, PTL DEF Spec

\* The unwrap of stratum.rs:370 can only fail on the answer to mining.subscribe or
\* mining.authorize: every answer to a share finds its entry, whatever the pool
\* answers and however often the client has reconnected.
OnlyTheLoginIsUnknown == lpc = "reply" /\ ~Known => reply.id \in {0, 1}

\* A session is open while the client reads.
LEMMA SessionIsOpen == Spec => [](Up => session > 0)
<1>1. Init => (Up => session > 0)
  BY DEF Init, Up
<1>2. ASSUME IInv, Up => session > 0, [Next]_vars PROVE (Up => session > 0)'
  <2>1. session' = session \/ session' = session + 1
    BY <1>2
    DEF vars, Next, Connect, register, ListenStep, TaskStep, CheckTurn, StreamFails, Settings, Notify,
        ReadReply, Credited, Fatal, UnwrapNone, DrawId, InsertAndSend, LogStarts, LogEnds, link
  <2>2. Up' => Up \/ session' = session + 1
    BY <1>2
    DEF Up, vars, Next, Connect, register, ListenStep, TaskStep, CheckTurn, StreamFails, Settings,
        Notify, ReadReply, Credited, Fatal, UnwrapNone, DrawId, InsertAndSend, LogStarts,
        LogEnds, listen, Hangup
  <2> QED BY <1>2, <2>1, <2>2 DEF IInv, TypeOK
<1> QED BY <1>1, <1>2, Invariance, PTL DEF Spec

\* No share is unknown when its answer comes.
THEOREM SharesAreKnown == Spec => []OnlyTheLoginIsUnknown
<1>1. ASSUME IInv, Up => session > 0 PROVE OnlyTheLoginIsUnknown
  BY <1>1
  DEF IInv, TypeOK, PendingIsAwaited, InFlight, Up, Known, OnlyTheLoginIsUnknown
<1> QED BY <1>1, SessionIsOpen, Invariance, PTL

\* An answer is counted for a share this connection sent, whose entry goes with it:
\* none is counted twice, and none for a share of an earlier connection that drew
\* the same id.
CreditsOwnShare ==
    [][ stats' # stats =>
          /\ stats' = stats + 1
          /\ reply.id \notin {0, 1}
          /\ pending[reply.id] = session
          /\ pending'[reply.id] = 0 ]_vars

\* The statistics count each share of this connection once.
THEOREM CountedOnce == Spec => CreditsOwnShare
<1> DEFINE Own == stats' # stats =>
                    /\ stats' = stats + 1
                    /\ reply.id \notin {0, 1}
                    /\ pending[reply.id] = session
                    /\ pending'[reply.id] = 0
<1>1. ASSUME IInv, [Next]_vars PROVE [Own]_vars
  <2> SUFFICES ASSUME stats' # stats PROVE Own
    OBVIOUS
  <2>1. Credited
    BY <1>1
    DEF vars, Next, Connect, register, ListenStep, TaskStep, CheckTurn, StreamFails, Settings, Notify,
        ReadReply, Fatal, UnwrapNone, DrawId, InsertAndSend, LogStarts, LogEnds, shares
  <2>2. lpc = "reply" /\ Known /\ stats' = stats + 1
    BY <2>1 DEF Credited
  <2>3. reply.id \in Ids /\ reply.id \notin {0, 1}
    BY <1>1, <2>2 DEF IInv, TypeOK, EntriesAreOld, Known
  <2>4. pending[reply.id] = session
    BY <1>1, <2>2, <2>3 DEF IInv, PendingIsAwaited, InFlight
  <2> QED BY <1>1, <2>1, <2>2, <2>3, <2>4 DEF Credited, IInv, TypeOK
<1> QED BY <1>1, Invariance, PTL DEF Spec, CreditsOwnShare
=============================================================================
