-------------------------- MODULE MinerPool_proofs --------------------------
(***************************************************************************)
(* Proofs about the miner manager, for any number of CPU and GPU workers,  *)
(* any polling interval and any number of commands.                        *)
(***************************************************************************)
EXTENDS MinerPool, SequenceTheorems, TLAPS

-----------------------------------------------------------------------------
(* The inductive invariant, part by part.                                  *)

\* A thread has ended, or Drop has yet to pop it, or is joining it.
Awaited ==
    \A w \in Workers :
        \/ Finished(w)
        \/ \E i \in 1..Len(handles) : handles[i] = w
        \/ joining = <<w>>

\* When the watch channel is closed no thread is left to notice.
ClosedLast == closed => \A w \in Workers : Finished(w)

IInv ==
    /\ TypeOK
    /\ SyncFlagHonest
    /\ Awaited
    /\ ClosedLast
    /\ ChannelOutlivesWorkers
    /\ FallbackFirst

-----------------------------------------------------------------------------
(* Frames: what a step leaves alone keeps its part of the invariant.       *)

\* Types, group by group.
LEMMA SameTypes ==
    ASSUME TypeOK
    PROVE  /\ UNCHANGED watch => TypeChannel'
           /\ UNCHANGED mgr => TypeManager'
           /\ UNCHANGED worker => TypeWorkers'
           /\ UNCHANGED <<queue, link_up, freezer>> => TypeLink'
<1>1. UNCHANGED watch => TypeChannel'
  BY DEF TypeOK, TypeChannel, watch
<1>2. UNCHANGED mgr => TypeManager'
  BY DEF TypeOK, TypeManager, mgr
<1>3. UNCHANGED worker => TypeWorkers'
  BY DEF TypeOK, TypeWorkers, worker
<1>4. UNCHANGED <<queue, link_up, freezer>> => TypeLink'
  BY DEF TypeOK, TypeLink
<1> QED BY <1>1, <1>2, <1>3, <1>4

\* The sync flag, the commands and the newest version are untouched.
LEMMA SameSync ==
    ASSUME SyncFlagHonest, UNCHANGED <<latest, cmds, is_synced>>,
           phase' = "running" => phase = "running"
    PROVE  SyncFlagHonest'
  BY DEF SyncFlagHonest

\* No worker moves, and no answer is given.
LEMMA SameWorkers ==
    ASSUME ChannelOutlivesWorkers, FallbackFirst,
           UNCHANGED <<answer, wpc, fallback>>
    PROVE  ChannelOutlivesWorkers' /\ FallbackFirst'
  BY DEF ChannelOutlivesWorkers, FallbackFirst

\* Ended threads stay ended, and Drop's list is untouched.
LEMMA StayFinished ==
    ASSUME Awaited, ClosedLast, UNCHANGED <<closed, handles, joining>>,
           \A w \in Workers : Finished(w) => Finished(w)'
    PROVE  Awaited' /\ ClosedLast'
  BY DEF Awaited, ClosedLast

\* The same when no worker moves at all.
LEMMA SameThreads ==
    ASSUME Awaited, ClosedLast, UNCHANGED <<closed, handles, joining, wpc>>
    PROVE  Awaited' /\ ClosedLast'
  BY StayFinished DEF Finished

-----------------------------------------------------------------------------
\* The initial state satisfies the inductive invariant.
LEMMA InitIInv == Init => IInv
<1> SUFFICES ASSUME Init PROVE IInv
  OBVIOUS
<1> USE PoolAssumption DEF Init, Chan!Init
<1>1. TypeChannel
  <2>1. cmds \in Seq({"none", "job", "close"}) /\ Len(cmds) = 1
    OBVIOUS
  <2>2. /\ asking \in [Workers -> {"no", "get", "wait"}]
        /\ answer \in [Workers -> {"none", "value", "nothing", "closed"}]
    OBVIOUS
  <2>3. latest \in 1..(MaxCommands + 2) /\ held \in [Workers -> 0..(MaxCommands + 2)]
    OBVIOUS
  <2>4. latest = 1 /\ closed \in BOOLEAN
    OBVIOUS
  <2> QED BY <2>1, <2>2, <2>3, <2>4 DEF TypeChannel
<1>2. TypeManager
  BY DEF TypeManager
<1>3. TypeWorkers
  <2>1. wpc \in [Workers -> Places] /\ left \in [Workers -> 1..PollEvery]
    BY DEF Places
  <2>2. has_job \in [Workers -> BOOLEAN] /\ fallback \in [Workers -> BOOLEAN]
    BY Zenon
  <2> QED BY <2>1, <2>2 DEF TypeWorkers
<1>4. TypeLink
  BY DEF TypeLink
<1>5. SyncFlagHonest
  BY DEF SyncFlagHonest
<1>6. Awaited /\ ClosedLast
  BY DEF Awaited, ClosedLast
<1>7. ChannelOutlivesWorkers /\ FallbackFirst
  BY DEF ChannelOutlivesWorkers, FallbackFirst, Workers
<1> QED BY <1>1, <1>2, <1>3, <1>4, <1>5, <1>6, <1>7 DEF IInv, TypeOK

-----------------------------------------------------------------------------
\* The channel: a command is appended at the version it gets.
LEMMA SendAppends ==
    ASSUME TypeChannel, NEW cmd \in {"none", "job", "close"}, Send(cmd)
    PROVE  /\ TypeChannel'
           /\ latest' # 1 /\ cmds'[latest'] = cmd
           /\ UNCHANGED <<closed, asking, held, answer>>
  BY PoolAssumption DEF Send, Chan!Publish, TypeChannel

\* The client's steps keep the flag honest, and touch no thread.
LEMMA ClientIInv == ASSUME IInv, ClientStep PROVE IInv'
<1> USE DEF IInv, TypeOK
<1>1. UNCHANGED <<closed, answer, handles, joining, wpc, fallback, worker, queue,
                  link_up, freezer>>
  BY SendAppends DEF ClientStep, ProcessJob, ProcessBadJob, ProcessUnsynced,
     ListenReturns, Refused, watch, worker
<1>2. TypeWorkers' /\ TypeLink' /\ Awaited' /\ ClosedLast'
      /\ ChannelOutlivesWorkers' /\ FallbackFirst'
  BY <1>1, SameTypes, SameWorkers, SameThreads
<1>3. TypeManager'
  BY DEF TypeManager, ClientStep, ProcessJob, ProcessBadJob, ProcessUnsynced, ListenReturns
<1>4. TypeChannel' /\ SyncFlagHonest'
  <2>1. CASE ProcessJob /\ Send("job")
    BY <2>1, SendAppends DEF ProcessJob, SyncFlagHonest
  <2>2. CASE ProcessUnsynced /\ Send("none")
    BY <2>2, SendAppends DEF ProcessUnsynced, SyncFlagHonest
  <2>3. CASE phase' = "drop" /\ UNCHANGED watch
    BY <2>3, SameTypes DEF SyncFlagHonest
  <2> QED
    BY <2>1, <2>2, <2>3
    DEF ClientStep, ProcessJob, ProcessBadJob, ProcessUnsynced, ListenReturns, Refused
<1> QED BY <1>2, <1>3, <1>4

\* Drop leaves its list only with threads that have ended, and closes the channel
\* after the last one.
LEMMA DropIInv == ASSUME IInv, DropStep PROVE IInv'
<1> USE DEF IInv, TypeOK
<1>1. CASE SendClose
  <2>1. TypeManager'
    BY <1>1 DEF SendClose, TypeManager
  <2>2. TypeChannel' /\ UNCHANGED <<closed, answer>>
    BY <1>1, SendAppends, SameTypes DEF SendClose, Refused, watch
  <2>3. SyncFlagHonest'
    BY <1>1 DEF SendClose, SyncFlagHonest
  <2> QED
    BY <1>1, <2>1, <2>2, <2>3, SameTypes, SameWorkers, SameThreads DEF SendClose, worker
<1>2. CASE PopHandle
  <2> DEFINE last == handles[Len(handles)]
  <2>1. handles \in Seq(Workers) /\ Len(handles) \in Nat \ {0} /\ last \in Workers
    BY <1>2, EmptySeq DEF PopHandle, TypeManager
  <2>2. /\ handles' \in Seq(Workers) /\ Len(handles') = Len(handles) - 1
        /\ \A i \in 1..Len(handles') : handles'[i] = handles[i]
    BY <1>2, <2>1 DEF PopHandle
  <2>3. joining' = <<last>> /\ freezer' = [freezer EXCEPT ![last] = "asleep"]
    BY <1>2 DEF PopHandle
  <2>4. TypeManager' /\ TypeLink'
    BY <1>2, <2>1, <2>2, <2>3 DEF PopHandle, TypeManager, TypeLink
  <2>5. Awaited'
    <3> SUFFICES ASSUME NEW w \in Workers, ~Finished(w)', w # last
                 PROVE  \E i \in 1..Len(handles') : handles'[i] = w
      BY <2>3 DEF Awaited
    <3>1. PICK i \in 1..Len(handles) : handles[i] = w
      BY <1>2 DEF PopHandle, Awaited, Finished, worker
    <3> QED BY <2>1, <2>2, <3>1
  <2>6. ClosedLast'
    BY <1>2 DEF PopHandle, ClosedLast, Finished, watch, worker
  <2> QED
    BY <1>2, <2>4, <2>5, <2>6, SameTypes, SameSync, SameWorkers
    DEF PopHandle, watch, worker
<1>3. CASE Join
  <2>1. TypeManager'
    BY <1>3 DEF Join, TypeManager
  <2>2. Awaited' /\ ClosedLast'
    BY <1>3 DEF Join, Awaited, ClosedLast, Finished, watch, worker
  <2> QED
    BY <1>3, <2>1, <2>2, SameTypes, SameSync, SameWorkers DEF Join, watch, worker
<1>4. CASE DropFields
  <2>1. TypeManager' /\ TypeChannel'
    BY <1>4 DEF DropFields, Chan!Close, TypeManager, TypeChannel
  <2>2. \A w \in Workers : Finished(w)'
    BY <1>4 DEF DropFields, Awaited, Finished, worker
  <2>3. Awaited' /\ ClosedLast'
    BY <2>2 DEF Awaited, ClosedLast
  <2>4. UNCHANGED <<latest, answer>>
    BY <1>4 DEF DropFields, Chan!Close
  <2> QED
    BY <1>4, <2>1, <2>3, <2>4, SameTypes, SameSync, SameWorkers DEF DropFields, worker
<1> QED BY <1>1, <1>2, <1>3, <1>4 DEF DropStep

-----------------------------------------------------------------------------
\* A step of one worker moves it, and perhaps uses up its fallback.
LEMMA GotoKeeps ==
    ASSUME TypeWorkers, NEW w \in Workers, ~Finished(w), NEW where \in Places, Goto(w, where),
           Awaited, ClosedLast, UNCHANGED <<closed, handles, joining>>
    PROVE  wpc' \in [Workers -> Places] /\ Awaited' /\ ClosedLast'
<1>1. wpc' \in [Workers -> Places]
  BY DEF Goto, TypeWorkers
<1>2. \A v \in Workers : Finished(v) => Finished(v)'
  BY DEF Goto, TypeWorkers, Finished
<1> QED BY <1>1, <1>2, StayFinished

\* A fallback is used up once.
LEMMA UseFallback ==
    ASSUME TypeWorkers, NEW w, fallback' = [fallback EXCEPT ![w] = FALSE]
    PROVE  fallback' \in [Workers -> BOOLEAN] /\ (w \in Workers => ~fallback'[w])
  BY Zenon DEF TypeWorkers

\* A freeze handler ends a thread, ends the process, or uses up a fallback.
LEMMA FreezerIInv == ASSUME IInv, NEW w \in Workers, FreezerStep(w) PROVE IInv'
<1> USE DEF IInv, TypeOK
<1>1. CASE FreezerWakes(w)
  <2>1. TypeLink'
    BY <1>1 DEF FreezerWakes, TypeLink
  <2> QED
    BY <1>1, <2>1, SameTypes, SameSync, SameWorkers, SameThreads
    DEF FreezerWakes, watch, mgr, worker
<1>2. CASE FreezerSignals(w)
  <2>1. TypeLink' /\ TypeManager' /\ TypeChannel' /\ SyncFlagHonest'
    BY <1>2, SameTypes, SameSync DEF FreezerSignals, TypeLink, TypeManager, watch
  <2>2. UNCHANGED <<closed, answer, handles, joining, has_job, left>>
    BY <1>2 DEF FreezerSignals, watch
  <2>3. CASE UNCHANGED <<wpc, fallback>>
    BY <2>1, <2>2, <2>3, SameTypes, SameWorkers, SameThreads DEF worker
  <2>4. CASE ~Finished(w) /\ Goto(w, "killed") /\ UNCHANGED fallback
    <3>1. wpc' \in [Workers -> Places] /\ Awaited' /\ ClosedLast'
      BY <2>2, <2>4, GotoKeeps DEF Places
    <3>2. TypeWorkers'
      BY <2>2, <2>4, <3>1 DEF TypeWorkers
    <3>3. ChannelOutlivesWorkers' /\ FallbackFirst'
      BY <2>2, <2>4 DEF Goto, TypeWorkers, ChannelOutlivesWorkers, FallbackFirst
    <3> QED BY <2>1, <3>1, <3>2, <3>3
  <2>5. ASSUME ~Finished(w), fallback' = [fallback EXCEPT ![w] = FALSE],
               NEW where \in {"loop", "failed"}, Goto(w, where)
        PROVE  IInv'
    <3>1. wpc' \in [Workers -> Places] /\ Awaited' /\ ClosedLast'
      BY <2>2, <2>5, GotoKeeps DEF Places
    <3>2. TypeWorkers'
      BY <2>2, <2>5, <3>1, UseFallback DEF TypeWorkers
    <3>3. ChannelOutlivesWorkers' /\ FallbackFirst'
      BY <2>2, <2>5, UseFallback
      DEF Goto, TypeWorkers, ChannelOutlivesWorkers, FallbackFirst, Workers
    <3> QED BY <2>1, <3>1, <3>2, <3>3
  <2> QED BY <1>2, <2>3, <2>4, <2>5 DEF FreezerSignals
<1> QED BY <1>1, <1>2 DEF FreezerStep

\* A worker that asks the channel, or is told of nothing new.
LEMMA AskIInv ==
    ASSUME IInv, NEW w \in Workers, StartWait(w) \/ Poll(w)
    PROVE  IInv'
<1> USE DEF IInv, TypeOK
<1>1. Goto(w, "answer") /\ ~Finished(w) /\ UNCHANGED <<closed, answer, mgr, fallback>>
  BY DEF StartWait, Poll, Chan!Ask, Finished
<1>2. TypeChannel'
  BY DEF StartWait, Poll, Chan!Ask, TypeChannel
<1>3. wpc' \in [Workers -> Places] /\ Awaited' /\ ClosedLast'
  BY <1>1, GotoKeeps DEF Places, mgr
<1>4. TypeWorkers'
  BY <1>1, <1>3 DEF TypeWorkers, StartWait, Poll
<1>5. ChannelOutlivesWorkers' /\ FallbackFirst'
  BY <1>1 DEF Goto, TypeWorkers, ChannelOutlivesWorkers, FallbackFirst, Workers
<1> QED
  BY <1>1, <1>2, <1>3, <1>4, <1>5, SameTypes, SameSync DEF StartWait, Poll, Chan!Ask, mgr

\* A worker that is answered: never with a refusal.
LEMMA AnsweredIInv ==
    ASSUME IInv, NEW w \in Workers, Answered(w)
    PROVE  IInv'
<1> USE DEF IInv, TypeOK
<1>1. ~closed /\ ~Finished(w)
  BY DEF Answered, ClosedLast, Finished
<1>2. PICK how \in {"value", "nothing"} :
        /\ answer' = [answer EXCEPT ![w] = how]
        /\ asking' = [asking EXCEPT ![w] = "no"]
        /\ held' \in {held, [held EXCEPT ![w] = latest]}
        /\ UNCHANGED <<latest, closed>>
  BY <1>1 DEF Answered, Chan!Deliver, Chan!Nothing, Chan!Refuse, Chan!Answer
<1>3. PICK where \in {"loop", "ended"} : Goto(w, where)
  BY <1>1 DEF Answered, Obey, Chan!Refuse
<1>4. TypeChannel'
  BY <1>2 DEF Answered, TypeChannel
<1>5. wpc' \in [Workers -> Places] /\ Awaited' /\ ClosedLast'
  BY <1>1, <1>2, <1>3, GotoKeeps DEF Answered, Places, mgr
<1>6. has_job' \in [Workers -> BOOLEAN]
  <2>1. \/ UNCHANGED has_job
        \/ \E b \in BOOLEAN : has_job' = [has_job EXCEPT ![w] = b]
    BY <1>1, Zenon DEF Answered, Obey, Chan!Refuse
  <2> QED BY <2>1, Zenon DEF TypeWorkers
<1>7. TypeWorkers'
  BY <1>5, <1>6 DEF TypeWorkers, Answered
<1>8. ChannelOutlivesWorkers' /\ FallbackFirst'
  BY <1>2, <1>3
  DEF Answered, Goto, TypeWorkers, TypeChannel, ChannelOutlivesWorkers, FallbackFirst, Workers
<1> QED
  BY <1>2, <1>4, <1>5, <1>7, <1>8, SameTypes, SameSync DEF Answered, mgr

\* A worker that hashes, or hands over a block.
LEMMA MineIInv ==
    ASSUME IInv, NEW w \in Workers, (w \in CpuWorkers /\ CpuHash(w)) \/ SendBlock(w)
    PROVE  IInv'
<1> USE DEF IInv, TypeOK
<1>1. UNCHANGED <<watch, mgr, fallback, link_up, freezer>> /\ ~Finished(w)
  BY DEF CpuHash, SendBlock, Finished
<1>2. PICK where \in {"loop", "poll", "send"} : Goto(w, where)
  BY DEF CpuHash, SendBlock, AfterSend, NextNonce
<1>3. wpc' \in [Workers -> Places] /\ Awaited' /\ ClosedLast'
  BY <1>1, <1>2, GotoKeeps DEF Places, mgr, watch
<1>4. left' \in [Workers -> 1..PollEvery]
  <2>1. UNCHANGED left \/ NextNonce(w)
    BY DEF CpuHash, SendBlock, AfterSend
  <2>2. CASE NextNonce(w)
    <3> DEFINE n == IF left[w] = 1 THEN PollEvery ELSE left[w] - 1
    <3>1. left[w] \in 1..PollEvery
      BY DEF TypeWorkers
    <3>2. n \in 1..PollEvery
      BY <3>1, PoolAssumption
    <3>3. left' = [left EXCEPT ![w] = n]
      BY <2>2 DEF NextNonce
    <3> HIDE DEF n
    <3> QED BY <3>2, <3>3 DEF TypeWorkers
  <2> QED BY <2>1, <2>2 DEF TypeWorkers
<1>5. has_job' \in [Workers -> BOOLEAN]
  <2>1. \/ UNCHANGED has_job
        \/ \E b \in BOOLEAN : has_job' = [has_job EXCEPT ![w] = b]
    BY Zenon DEF CpuHash, SendBlock, AfterSend
  <2> QED BY <2>1, Zenon DEF TypeWorkers
<1>6. TypeWorkers'
  BY <1>1, <1>3, <1>4, <1>5 DEF TypeWorkers
<1>7. TypeLink'
  <2>1. UNCHANGED queue \/ (Len(queue) < 1 /\ queue' = Append(queue, w))
    BY DEF CpuHash, SendBlock
  <2>2. queue' \in Seq(Workers) /\ Len(queue') <= 1
    BY <2>1 DEF TypeLink
  <2> QED BY <1>1, <2>2 DEF TypeLink
<1>8. ChannelOutlivesWorkers' /\ FallbackFirst'
  BY <1>1, <1>2
  DEF watch, Goto, TypeWorkers, ChannelOutlivesWorkers, FallbackFirst, Workers
<1> QED
  BY <1>1, <1>3, <1>6, <1>7, <1>8, SameTypes, SameSync DEF watch, mgr

\* A GPU worker that is built, runs or fails: it fails only without a fallback.
LEMMA GpuIInv ==
    ASSUME IInv, NEW w \in Workers, GpuBuild(w) \/ GpuRun(w) \/ GpuFault(w)
    PROVE  IInv'
<1> USE DEF IInv, TypeOK
<1>1. UNCHANGED <<watch, mgr, has_job, left, queue, link_up, freezer>> /\ ~Finished(w)
  BY DEF GpuBuild, GpuRun, GpuFault, InLaunch, Finished
<1>2. PICK where \in {"loop", "poll", "send", "ended", "failed"} : Goto(w, where)
  BY DEF GpuBuild, GpuRun, GpuFault
<1>3. wpc' \in [Workers -> Places] /\ Awaited' /\ ClosedLast'
  BY <1>1, <1>2, GotoKeeps DEF Places, mgr, watch
<1>4. \/ UNCHANGED fallback /\ (wpc'[w] = "failed" => ~fallback[w])
      \/ fallback' = [fallback EXCEPT ![w] = FALSE]
  BY DEF GpuBuild, GpuRun, GpuFault, Goto, TypeWorkers
<1>5. fallback' \in [Workers -> BOOLEAN]
  BY <1>4, UseFallback DEF TypeWorkers
<1>6. TypeWorkers'
  BY <1>1, <1>3, <1>5 DEF TypeWorkers
<1>7. FallbackFirst'
  <2> SUFFICES ASSUME NEW v \in GpuWorkers, wpc'[v] = "failed" PROVE ~fallback'[v]
    BY DEF FallbackFirst
  <2>1. CASE v = w
    BY <1>4, <2>1, UseFallback
  <2>2. CASE v # w
    <3>1. wpc[v] = "failed"
      BY <1>2, <2>2 DEF Goto, TypeWorkers, Workers
    <3>2. ~fallback[v] /\ fallback'[v] = fallback[v]
      BY <1>4, <2>2, <3>1 DEF FallbackFirst, TypeWorkers, Workers
    <3> QED BY <3>2
  <2> QED BY <2>1, <2>2
<1>8. ChannelOutlivesWorkers'
  BY <1>1 DEF watch, ChannelOutlivesWorkers
<1> QED
  BY <1>1, <1>3, <1>6, <1>7, <1>8, SameTypes, SameSync DEF watch, mgr

\* The forwarding task only touches the block channel.
LEMMA LinkIInv == ASSUME IInv, Forward \/ LinkDown PROVE IInv'
<1> USE DEF IInv, TypeOK
<1>1. queue' \in Seq(Workers) /\ Len(queue') <= 1
  <2>1. CASE Forward
    <3>1. queue \in Seq(Workers) /\ queue # <<>> /\ queue' = Tail(queue) /\ Len(queue) <= 1
      BY <2>1 DEF Forward, TypeLink
    <3> QED BY <3>1, HeadTailProperties, LenProperties
  <2>2. CASE LinkDown
    BY <2>2 DEF LinkDown
  <2> QED BY <2>1, <2>2
<1>2. TypeLink'
  BY <1>1 DEF Forward, LinkDown, TypeLink
<1> QED
  BY <1>2, SameTypes, SameSync, SameWorkers, SameThreads
  DEF Forward, LinkDown, watch, mgr, worker

-----------------------------------------------------------------------------
\* Every step keeps the inductive invariant.
LEMMA InvStep == ASSUME IInv, [Next]_vars PROVE IInv'
<1>1. CASE UNCHANGED vars
  BY <1>1, SameTypes, SameSync, SameWorkers, SameThreads
  DEF vars, watch, mgr, worker, IInv, TypeOK
<1>2. CASE Next
  <2>1. ASSUME NEW w \in Workers, WorkerStep(w) PROVE IInv'
    BY <2>1, AskIInv, AnsweredIInv, MineIInv, GpuIInv DEF WorkerStep, ThreadStep
  <2> QED BY <1>2, <2>1, ClientIInv, DropIInv, FreezerIInv, LinkIInv DEF Next
<1> QED BY <1>1, <1>2

\* The inductive invariant holds in every reachable state.
THEOREM Invariance == SafetySpec => []IInv
  BY InitIInv, InvStep, PTL DEF SafetySpec

\* Type correctness; in particular the block channel never holds two blocks.
THEOREM TypeCorrect == SafetySpec => []TypeOK
  BY Invariance, PTL DEF IInv

\* process_block's flag and the newest command agree, whatever templates come.
THEOREM FlagIsHonest == SafetySpec => []SyncFlagHonest
  BY Invariance, PTL DEF IInv

\* However threads end, the manager joins each of them before it drops its Sender.
THEOREM ChannelIsLast == SafetySpec => []ChannelOutlivesWorkers
  BY Invariance, PTL DEF IInv

\* No GPU thread ends on an error with its fallback unused.
THEOREM FallbackIsUsed == SafetySpec => []FallbackFirst
  BY Invariance, PTL DEF IInv

-----------------------------------------------------------------------------
(* The safety core of ShutdownCompletes, CpuCatchesUp and GpuCatchesUp: who *)
(* can be waited for, and what every step brings nearer.  A second          *)
(* inductive invariant, on top of the first.                                *)

\* Threads are joined only by a Drop, and the watch Sender is there until its end,
\* with room left for the Close.
DropOrder ==
    /\ joining # <<>> => phase \in {"join", "aborted"}
    /\ phase \in {"running", "drop", "join"} => ~closed
    /\ phase \in {"running", "drop"} => latest <= MaxCommands + 1

\* The thread Drop waits for has ended, or its freeze handler has yet to signal it,
\* or it is a GPU thread that has survived the signal.
JoinIsCutShort ==
    phase = "join" /\ joining # <<>> =>
        LET w == joining[1] IN
            \/ Finished(w)
            \/ freezer[w] \in {"asleep", "armed"}
            \/ w \in GpuWorkers /\ Survived(w)

\* A worker asks the channel exactly while it is in "answer"; only GPU workers have
\* something to build.
AsksInAnswer ==
    \A w \in Workers :
        /\ ~Finished(w) => (asking[w] = "no" <=> wpc[w] # "answer")
        /\ wpc[w] = "build" => w \in GpuWorkers

\* What a worker mines is what its last command told it to.
MinesItsJob ==
    \A w \in Workers :
        /\ wpc[w] = "send" => has_job[w]
        /\ held[w] <= latest
        /\ has_job[w] => held[w] # 0 /\ cmds[held[w]] = "job"

\* A worker that has been handed the Close has ended ...
CloseIsObeyed ==
    \A w \in Workers : held[w] # 0 /\ cmds[held[w]] = "close" => Finished(w)

\* ... and after a Drop has sent its Close that is the newest command.
CloseIsLast == phase = "join" /\ Alive # {} => cmds[latest] = "close"

JInv ==
    /\ DropOrder
    /\ JoinIsCutShort
    /\ AsksInAnswer
    /\ MinesItsJob
    /\ CloseIsObeyed
    /\ CloseIsLast

-----------------------------------------------------------------------------
\* Threads that have ended stay so, and the freeze handlers are untouched.
LEMMA CutStays ==
    ASSUME JoinIsCutShort, UNCHANGED <<joining, freezer>>,
           phase' = "join" => phase = "join",
           \A w \in Workers : Finished(w) => Finished(w)',
           joining # <<>> => joining[1] \in Workers
    PROVE  JoinIsCutShort'
  BY DEF JoinIsCutShort, Survived

\* The thread being joined is a worker.
LEMMA JoinsAWorker ==
    ASSUME TypeOK, joining # <<>>
    PROVE  joining[1] \in Workers /\ joining = <<joining[1]>>
<1>1. joining \in Seq(Workers) /\ Len(joining) <= 1
  BY DEF TypeOK, TypeManager
<1>2. Len(joining) \in Nat \ {0}
  BY <1>1, EmptySeq
<1>3. Len(joining) = 1
  <2>1. \A n \in Nat \ {0} : n <= 1 => n = 1
    OBVIOUS
  <2> QED BY <1>1, <1>2, <2>1, Zenon
<1>4. joining[1] \in Workers
  BY <1>1, <1>3, ElementOfSeq
<1>5. joining = <<joining[1]>>
  BY <1>1, <1>3, <1>4, SeqEqual
<1> QED BY <1>4, <1>5

\* No command is sent and none is handed out.
LEMMA SameCommands ==
    ASSUME MinesItsJob, CloseIsObeyed, CloseIsLast,
           UNCHANGED <<latest, cmds, held, has_job>>,
           phase' = "join" => phase = "join",
           \A w \in Workers : wpc'[w] = "send" => has_job[w],
           \A w \in Workers : Finished(w) => Finished(w)'
    PROVE  MinesItsJob' /\ CloseIsObeyed' /\ CloseIsLast'
<1>1. MinesItsJob' /\ CloseIsObeyed'
  BY DEF MinesItsJob, CloseIsObeyed
<1>2. CloseIsLast'
  BY DEF CloseIsLast, Alive
<1> QED BY <1>1, <1>2

\* A command that is sent changes nothing for those who hold an older one.
LEMMA SendKeeps ==
    ASSUME TypeOK, MinesItsJob, CloseIsObeyed, NEW cmd \in {"none", "job", "close"},
           Send(cmd), UNCHANGED worker
    PROVE  MinesItsJob' /\ CloseIsObeyed'
<1>1. latest' = latest + 1 /\ held' = held
      /\ \A i \in 1..latest : cmds'[i] = cmds[i]
  BY DEF Send, Chan!Publish, TypeOK, TypeChannel
<1>2. \A w \in Workers : held[w] \in Nat
  BY DEF TypeOK, TypeChannel
<1> QED
  BY <1>1, <1>2
  DEF MinesItsJob, CloseIsObeyed, Finished, worker, TypeOK, TypeChannel

\* The initial state satisfies the second invariant.
LEMMA InitJInv == Init => JInv
<1> SUFFICES ASSUME Init PROVE JInv
  OBVIOUS
<1> USE PoolAssumption DEF Init, Chan!Init
<1>1. DropOrder /\ JoinIsCutShort
  BY DEF DropOrder, JoinIsCutShort
<1>2. AsksInAnswer
  BY DEF AsksInAnswer
<1>3. MinesItsJob /\ CloseIsObeyed /\ CloseIsLast
  BY DEF MinesItsJob, CloseIsObeyed, CloseIsLast
<1> QED BY <1>1, <1>2, <1>3 DEF JInv

\* The client sends nothing once a Drop has begun.
LEMMA ClientJInv == ASSUME IInv, JInv, ClientStep PROVE JInv'
<1> USE DEF IInv, JInv
<1>1. /\ UNCHANGED <<closed, asking, held, joining, freezer, worker>>
      /\ phase = "running" /\ phase' \in {"running", "drop"}
  BY SendAppends DEF ClientStep, ProcessJob, ProcessBadJob, ProcessUnsynced,
     ListenReturns, Refused, watch, worker, TypeOK
<1>2. /\ \/ UNCHANGED <<latest, cmds>>
         \/ (\E cmd \in {"none", "job"} : Send(cmd)) /\ latest < MaxCommands + 1
  BY DEF ClientStep, ProcessJob, ProcessBadJob, ProcessUnsynced,
     ListenReturns, Refused, watch
<1>3. DropOrder'
  <2>1. latest' <= MaxCommands + 1
    BY <1>1, <1>2, PoolAssumption DEF DropOrder, Send, Chan!Publish, TypeOK, TypeChannel
  <2> QED BY <1>1, <2>1 DEF DropOrder
<1>4. JoinIsCutShort' /\ AsksInAnswer' /\ CloseIsLast'
  BY <1>1 DEF JoinIsCutShort, AsksInAnswer, CloseIsLast, Finished, worker
<1>5. MinesItsJob' /\ CloseIsObeyed'
  BY <1>1, <1>2, SendKeeps DEF worker, MinesItsJob, CloseIsObeyed, Finished
<1> QED BY <1>3, <1>4, <1>5

\* A Drop arms a handler for each thread it joins.
LEMMA DropJInv == ASSUME IInv, JInv, DropStep PROVE JInv'
<1> USE DEF IInv, JInv
<1>0. AsksInAnswer'
  <2>1. UNCHANGED <<asking, wpc>>
    BY DEF DropStep, SendClose, PopHandle, Join, DropFields, Send, Refused, Chan!Publish,
       Chan!Close, watch, worker
  <2> QED BY <2>1 DEF AsksInAnswer, Finished
<1>1. CASE SendClose
  <2>1. DropOrder' /\ JoinIsCutShort'
    BY <1>1 DEF SendClose, Send, Refused, Chan!Publish, watch, DropOrder, JoinIsCutShort
  <2>2. CASE Send("close")
    <3>1. CloseIsLast'
      BY <2>2, SendAppends DEF CloseIsLast, TypeOK
    <3> QED BY <1>0, <1>1, <2>1, <2>2, <3>1, SendKeeps DEF SendClose
  <2>3. CASE Refused
    BY <1>0, <1>1, <2>1, <2>3 DEF SendClose, Refused, watch, worker, Alive, Finished,
       MinesItsJob, CloseIsObeyed, CloseIsLast
  <2> QED BY <1>1, <2>2, <2>3 DEF SendClose
<1>2. CASE PopHandle
  <2>1. UNCHANGED <<latest, closed, cmds, held, phase, has_job, wpc>>
    BY <1>2 DEF PopHandle, watch, worker
  <2>2. DropOrder'
    BY <1>2, <2>1 DEF PopHandle, DropOrder
  <2>3. handles[Len(handles)] \in Workers
    BY <1>2, EmptySeq DEF PopHandle, TypeOK, TypeManager
  <2>4. JoinIsCutShort'
    BY <1>2, <2>3 DEF PopHandle, JoinIsCutShort, TypeOK, TypeLink
  <2>5. MinesItsJob' /\ CloseIsObeyed' /\ CloseIsLast'
    BY <2>1, SameCommands DEF MinesItsJob, Finished
  <2> QED BY <1>0, <2>2, <2>4, <2>5
<1>3. CASE Join \/ DropFields
  <2>1. UNCHANGED <<latest, cmds, held, has_job, wpc>> /\ joining' = <<>>
    BY <1>3 DEF Join, DropFields, Chan!Close, watch, worker
  <2>2. DropOrder' /\ JoinIsCutShort'
    BY <1>3, <2>1 DEF Join, DropFields, DropOrder, JoinIsCutShort, watch
  <2>3. MinesItsJob' /\ CloseIsObeyed' /\ CloseIsLast'
    BY <1>3, <2>1, SameCommands DEF Join, DropFields, MinesItsJob, Finished
  <2> QED BY <1>0, <2>2, <2>3
<1> QED BY <1>1, <1>2, <1>3 DEF DropStep

\* A freeze handler that has signalled leaves a thread that has ended, or a GPU
\* thread that survived.
LEMMA FreezerJInv == ASSUME IInv, JInv, NEW w \in Workers, FreezerStep(w) PROVE JInv'
<1> USE DEF IInv, JInv
<1>1. /\ UNCHANGED <<latest, closed, asking, cmds, held, joining, has_job>>
      /\ phase' \in {phase, "aborted"}
      /\ \A v \in Workers \ {w} : wpc'[v] = wpc[v] /\ freezer'[v] = freezer[v]
      /\ wpc'[w] \in {wpc[w], "loop", "failed", "killed"}
      /\ wpc'[w] = "loop" => wpc[w] = "loop"
      /\ Finished(w) => wpc'[w] = wpc[w]
  BY DEF FreezerStep, FreezerWakes, FreezerSignals, Goto, InLaunch, watch, mgr, worker,
     TypeOK, TypeWorkers, TypeLink
<1>2. \A v \in Workers : (Finished(v) => Finished(v)') /\ (wpc'[v] = "send" => has_job[v])
  BY <1>1 DEF Finished, MinesItsJob
<1>3. DropOrder'
  BY <1>1 DEF DropOrder
<1>4. JoinIsCutShort'
  <2> SUFFICES ASSUME phase' = "join", joining # <<>>
               PROVE  \/ Finished(joining[1])'
                      \/ freezer'[joining[1]] \in {"asleep", "armed"}
                      \/ joining[1] \in GpuWorkers /\ Survived(joining[1])'
    BY <1>1 DEF JoinIsCutShort
  <2>1. phase = "join" /\ joining = <<joining[1]>> /\ joining[1] \in Workers
    BY <1>1, JoinsAWorker DEF TypeOK, TypeManager
  <2>2. CASE joining[1] # w
    <3>1. /\ joining' = joining /\ wpc'[joining[1]] = wpc[joining[1]]
          /\ freezer'[joining[1]] = freezer[joining[1]]
      BY <1>1, <2>1, <2>2
    <3>2. \/ Finished(joining[1]) \/ freezer[joining[1]] \in {"asleep", "armed"}
          \/ joining[1] \in GpuWorkers /\ Survived(joining[1])
      BY <2>1 DEF JoinIsCutShort
    <3> QED BY <3>1, <3>2 DEF Finished, Survived
  <2>3. CASE joining[1] = w /\ FreezerWakes(w)
    BY <2>1, <2>3 DEF FreezerWakes, TypeOK, TypeLink
  <2>4. CASE joining[1] = w /\ FreezerSignals(w)
    <3>1. Finished(w)' \/ (w \in GpuWorkers /\ freezer'[w] = "done")
      BY <1>1, <2>1, <2>4
      DEF FreezerSignals, Goto, InLaunch, Finished, TypeOK, TypeLink, TypeWorkers
    <3>2. joining'[1] = w
      BY <1>1, <2>4
    <3> QED BY <2>4, <3>1, <3>2 DEF Finished, Survived
  <2> QED BY <2>2, <2>3, <2>4 DEF FreezerStep
<1>5. AsksInAnswer'
  BY <1>1 DEF AsksInAnswer, Finished
<1>6. MinesItsJob' /\ CloseIsObeyed' /\ CloseIsLast'
  BY <1>1, <1>2, SameCommands
<1> QED BY <1>3, <1>4, <1>5, <1>6

\* What a worker does is no news to the manager.
LEMMA WorkerFrame ==
    ASSUME IInv, NEW w \in Workers, WorkerStep(w)
    PROVE  /\ UNCHANGED <<latest, closed, cmds, phase, joining, freezer>>
           /\ ~Finished(w)
           /\ \A v \in Workers \ {w} :
                /\ wpc'[v] = wpc[v] /\ asking'[v] = asking[v] /\ held'[v] = held[v]
                /\ has_job'[v] = has_job[v] /\ left'[v] = left[v]
<1> USE DEF IInv, TypeOK, TypeChannel, TypeWorkers, Finished, watch, mgr, Goto
<1>1. CASE StartWait(w) \/ Poll(w)
  BY <1>1 DEF StartWait, Poll, Chan!Ask
<1>2. CASE Answered(w)
  BY <1>2 DEF Answered, Obey, Chan!Deliver, Chan!Nothing, Chan!Refuse, Chan!Answer
<1>3. CASE SendBlock(w) \/ CpuHash(w)
  BY <1>3 DEF SendBlock, CpuHash, AfterSend, NextNonce
<1>4. CASE GpuBuild(w) \/ GpuRun(w) \/ GpuFault(w)
  BY <1>4 DEF GpuBuild, GpuRun, GpuFault, InLaunch
<1> QED BY <1>1, <1>2, <1>3, <1>4 DEF WorkerStep, ThreadStep

\* A worker that is not answered keeps its command, and has a job when it sends.
LEMMA UnansweredJob ==
    ASSUME IInv, JInv, NEW w \in Workers, WorkerStep(w), ~Answered(w)
    PROVE  /\ held' = held
           /\ has_job'[w] => has_job[w]
           /\ wpc'[w] = "send" => has_job'[w]
           /\ asking'[w] = "no" <=> wpc'[w] # "answer"
           /\ wpc'[w] # "build"
<1> USE DEF IInv, JInv, TypeOK, TypeChannel, TypeWorkers, MinesItsJob, AsksInAnswer,
            Finished, watch, Goto
<1>1. CASE StartWait(w) \/ Poll(w)
  BY <1>1 DEF StartWait, Poll, Chan!Ask
<1>2. CASE SendBlock(w)
  BY <1>2, Zenon DEF SendBlock, AfterSend, NextNonce
<1>3. CASE CpuHash(w)
  BY <1>3 DEF CpuHash, NextNonce
<1>4. CASE GpuBuild(w) \/ GpuRun(w) \/ GpuFault(w)
  BY <1>4 DEF GpuBuild, GpuRun, GpuFault, InLaunch
<1> QED BY <1>1, <1>2, <1>3, <1>4 DEF WorkerStep, ThreadStep

\* A worker does as the command it is handed says.
LEMMA AnsweredJob ==
    ASSUME IInv, JInv, NEW w \in Workers, Answered(w)
    PROVE  /\ asking'[w] = "no"
           /\ wpc'[w] \in {"loop", "ended"}
           /\ \/ /\ held'[w] = held[w] /\ held[w] = latest
                 /\ has_job'[w] = has_job[w] /\ wpc'[w] = "loop"
              \/ /\ held'[w] = latest
                 /\ has_job'[w] <=> cmds[latest] = "job"
                 /\ wpc'[w] = "ended" <=> cmds[latest] = "close"
<1> USE DEF IInv, JInv, TypeOK, TypeChannel, TypeWorkers, Goto
<1>1. ~closed
  BY DEF Answered, ClosedLast, Finished
<1>2. CASE Chan!Deliver(w) /\ Obey(w, cmds[latest])
  BY <1>2, Zenon DEF Chan!Deliver, Chan!Answer, Obey
<1>3. CASE Chan!Nothing(w) /\ Goto(w, "loop") /\ UNCHANGED has_job
  BY <1>3 DEF Chan!Nothing, Chan!Answer
<1> QED BY <1>1, <1>2, <1>3 DEF Answered, Chan!Refuse

\* The steps of a worker keep the second invariant.
LEMMA WorkerJInv == ASSUME IInv, JInv, NEW w \in Workers, WorkerStep(w) PROVE JInv'
<1> USE DEF IInv, JInv
<1>1. DropOrder'
  BY WorkerFrame DEF DropOrder
<1>2. \A v \in Workers : Finished(v) => Finished(v)'
  BY WorkerFrame DEF Finished
<1>3. JoinIsCutShort'
  BY <1>2, WorkerFrame, CutStays, JoinsAWorker
<1>4. AsksInAnswer'
  <2>1. asking'[w] = "no" <=> wpc'[w] # "answer"
    BY AnsweredJob, UnansweredJob
  <2>2. wpc'[w] # "build"
    BY AnsweredJob, UnansweredJob
  <2> QED BY <2>1, <2>2, WorkerFrame DEF AsksInAnswer, Finished
<1>5. CloseIsLast'
  BY <1>2, WorkerFrame DEF CloseIsLast, Alive
<1>6. MinesItsJob' /\ CloseIsObeyed'
  <2>1. held'[w] <= latest /\ (wpc'[w] = "send" => has_job'[w])
    BY AnsweredJob, UnansweredJob DEF MinesItsJob, TypeOK, TypeChannel
  <2>2. has_job'[w] => held'[w] # 0 /\ cmds[held'[w]] = "job"
    BY AnsweredJob, UnansweredJob DEF MinesItsJob, TypeOK, TypeChannel
  <2>3. held'[w] # 0 /\ cmds[held'[w]] = "close" => Finished(w)'
    BY AnsweredJob, UnansweredJob, WorkerFrame DEF CloseIsObeyed, Finished, TypeOK, TypeChannel
  <2>4. ASSUME NEW v \in Workers \ {w}
        PROVE  /\ wpc'[v] = wpc[v] /\ held'[v] = held[v] /\ has_job'[v] = has_job[v]
               /\ latest' = latest /\ cmds' = cmds
    BY <2>4, WorkerFrame
  <2>5. MinesItsJob'
    BY <2>1, <2>2, <2>4, WorkerFrame DEF MinesItsJob
  <2>6. CloseIsObeyed'
    BY <2>3, <2>4, WorkerFrame DEF CloseIsObeyed, Finished
  <2> QED BY <2>5, <2>6
<1> QED BY <1>1, <1>3, <1>4, <1>5, <1>6

\* Nothing the second invariant is about moves.
LEMMA SameJInv ==
    ASSUME IInv, JInv, UNCHANGED <<latest, closed, asking, held, cmds, phase, joining,
                                   wpc, has_job, freezer>>
    PROVE  JInv'
<1> USE DEF IInv, JInv
<1>1. DropOrder' /\ JoinIsCutShort'
  BY DEF DropOrder, JoinIsCutShort, Survived, Finished
<1>2. AsksInAnswer'
  BY DEF AsksInAnswer, Finished
<1>3. MinesItsJob' /\ CloseIsObeyed' /\ CloseIsLast'
  BY SameCommands DEF MinesItsJob, Finished
<1> QED BY <1>1, <1>2, <1>3

\* Both invariants hold in every reachable state.
THEOREM Progress == SafetySpec => [](IInv /\ JInv)
<1>1. ASSUME IInv, JInv, [Next]_vars PROVE JInv'
  <2>1. CASE UNCHANGED vars \/ Forward \/ LinkDown
    BY <1>1, <2>1, SameJInv DEF vars, watch, mgr, worker, Forward, LinkDown
  <2>2. CASE Next /\ ~Forward /\ ~LinkDown
    BY <1>1, <2>2, ClientJInv, DropJInv, FreezerJInv, WorkerJInv DEF Next
  <2> QED BY <1>1, <2>1, <2>2
<1> QED BY Invariance, InitJInv, <1>1, PTL DEF SafetySpec

-----------------------------------------------------------------------------
\* The guards of DropStep, written out.
CanDrop ==
    \/ phase = "drop" /\ (Alive = {} \/ (~closed /\ latest < MaxCommands + 2))
    \/ phase = "join" /\ joining = <<>> /\ (handles # <<>> \/ ~closed)
    \/ phase = "join" /\ joining # <<>> /\ Finished(joining[1])

\* A Drop that has begun can go on, or waits for one thread.  That thread is about to
\* be signalled, or it is a GPU thread that caught the signal's panic: nothing else,
\* no full block channel and no worker that never polls, holds a Drop up for good.
DropNeverStuck ==
    phase \in {"drop", "join"} =>
        \/ CanDrop
        \/ \E w \in Workers :
            /\ joining = <<w>>
            /\ freezer[w] \in {"asleep", "armed"} \/ (w \in GpuWorkers /\ Survived(w))

\* How many steps a Drop has before it.
DropStepsLeft ==
    CASE phase = "drop" -> 2 * Len(handles) + 2
      [] phase = "join" -> 2 * Len(handles) + Len(joining) + 1
      [] OTHER          -> 0

\* Every step of a Drop is one less to take, and nobody gives it new ones: the
\* threads are popped and joined once each.
DropGoesOn ==
    [][ /\ DropStep => DropStepsLeft' < DropStepsLeft
        /\ phase \in {"drop", "join"} => DropStepsLeft' <= DropStepsLeft ]_vars

\* While a Drop joins its threads none of them holds the newest command, the Close,
\* and runs on: a worker that still catches up ends.
NoneOutlivesClose ==
    phase = "join" => \A w \in Workers : held[w] = latest => Finished(w)

-----------------------------------------------------------------------------
\* The guards of ThreadStep, written out, of a worker that is owed its answer.
CanThread(w) ==
    \/ wpc[w] = "loop" /\ ~has_job[w] /\ asking[w] = "no"
    \/ wpc[w] = "poll" /\ asking[w] = "no"
    \/ wpc[w] = "answer" /\ asking[w] # "no" /\ Chan!Owed(w)
    \/ wpc[w] = "send" /\ ~Blocked(w)

\* A worker is done, or can go on, or mines, or waits for room in the block channel,
\* or sleeps in wait_for_change knowing the newest command: there is no other way
\* for it to be held up.
OnlyTheLinkBlocks ==
    \A w \in Workers :
        \/ Finished(w)
        \/ CanThread(w)
        \/ wpc[w] = "build" \/ (wpc[w] = "loop" /\ has_job[w])
        \/ Blocked(w)
        \/ wpc[w] = "answer" /\ asking[w] = "wait" /\ held[w] = latest

\* How many steps of its own a CPU worker takes at most before it is answered.
PollDistance(w) ==
    CASE wpc[w] = "send"                -> 2 * left[w]
      [] wpc[w] = "loop" /\ has_job[w]  -> 2 * left[w] + 1
      [] wpc[w] = "loop" /\ ~has_job[w] -> 1
      [] wpc[w] = "poll"                -> 1
      [] OTHER                          -> 0

\* With every step a CPU worker that does not hold the newest command gets it, or
\* ends, or comes nearer to asking for it, whether or not its nonces solve blocks;
\* and nobody else's step takes it further away.
CpuComesNearer ==
    [][ \A w \in CpuWorkers : held[w] # latest =>
          \/ held'[w] = latest'
          \/ Finished(w)'
          \/ /\ PollDistance(w)' <= PollDistance(w)
             /\ WorkerStep(w) => PollDistance(w)' < PollDistance(w) ]_vars

-----------------------------------------------------------------------------
\* A Drop is never stuck for good behind a CPU thread, or behind a GPU thread that
\* dies of its signal.
THEOREM DropIsNeverStuck == SafetySpec => []DropNeverStuck
<1>1. ASSUME IInv, JInv PROVE DropNeverStuck
  <2> SUFFICES ASSUME phase \in {"drop", "join"}, ~CanDrop
               PROVE  \E w \in Workers :
                        /\ joining = <<w>>
                        /\ \/ freezer[w] \in {"asleep", "armed"}
                           \/ w \in GpuWorkers /\ Survived(w)
    BY DEF DropNeverStuck
  <2>1. phase = "join" /\ joining # <<>> /\ ~Finished(joining[1])
    BY <1>1, PoolAssumption DEF JInv, DropOrder, IInv, TypeOK, TypeChannel, CanDrop
  <2>2. joining[1] \in Workers /\ joining = <<joining[1]>>
    BY <1>1, <2>1, JoinsAWorker DEF IInv
  <2> QED BY <1>1, <2>1, <2>2 DEF JInv, JoinIsCutShort
<1> QED BY <1>1, Progress, PTL

\* After the Close is sent no thread that has caught up is still running.
THEOREM CloseEndsWorkers == SafetySpec => []NoneOutlivesClose
<1>1. ASSUME IInv, JInv PROVE NoneOutlivesClose
  BY <1>1 DEF JInv, CloseIsLast, CloseIsObeyed, NoneOutlivesClose, Alive, IInv, TypeOK,
     TypeChannel
<1> QED BY <1>1, Progress, PTL

\* A worker that can do nothing waits for room for its block or for news.
THEOREM NoOtherWait == SafetySpec => []OnlyTheLinkBlocks
<1>1. ASSUME IInv, JInv PROVE OnlyTheLinkBlocks
  BY <1>1
  DEF JInv, AsksInAnswer, OnlyTheLinkBlocks, CanThread, Finished, Chan!Owed, IInv, TypeOK,
      TypeWorkers, TypeChannel, Places, ClosedLast
<1> QED BY <1>1, Progress, PTL

\* What a step leaves alone of a Drop leaves its length alone.
LEMMA DropShortens ==
    ASSUME IInv, JInv, DropStep
    PROVE  DropStepsLeft' < DropStepsLeft
<1> USE DEF IInv, JInv, TypeOK, TypeManager, DropStepsLeft
<1>1. Len(handles) \in Nat /\ Len(joining) \in Nat
  BY LenProperties
<1>2. CASE SendClose
  <2>1. joining = <<>> /\ Len(joining) = 0
    BY <1>2 DEF SendClose, DropOrder
  <2> QED BY <1>1, <1>2, <2>1 DEF SendClose
<1>3. CASE PopHandle
  <2>1. Len(handles) \in Nat \ {0}
    BY <1>3, EmptySeq DEF PopHandle
  <2>2. Len(handles') = Len(handles) - 1 /\ Len(joining') = 1 /\ Len(joining) = 0
    BY <1>3, <2>1 DEF PopHandle
  <2> QED BY <1>1, <1>3, <2>2 DEF PopHandle
<1>4. CASE Join
  <2>1. Len(joining) \in Nat \ {0} /\ Len(joining') = 0
    BY <1>4, EmptySeq DEF Join
  <2> QED BY <1>1, <1>4, <2>1 DEF Join
<1>5. CASE DropFields
  BY <1>1, <1>5 DEF DropFields
<1> QED BY <1>2, <1>3, <1>4, <1>5 DEF DropStep

\* Only a Drop's own steps, and the end of the process, change what it has before it.
LEMMA DropUndisturbed ==
    ASSUME IInv, [Next]_vars, ~DropStep, phase \in {"drop", "join"}
    PROVE  DropStepsLeft' <= DropStepsLeft
<1>1. UNCHANGED <<handles, joining>> /\ phase' \in {phase, "aborted"}
  <2>1. ASSUME NEW w \in Workers, WorkerStep(w) \/ FreezerStep(w)
        PROVE  UNCHANGED <<handles, joining>> /\ phase' \in {phase, "aborted"}
    BY <2>1
    DEF WorkerStep, ThreadStep, StartWait, Poll, Answered, SendBlock, CpuHash, GpuBuild,
        GpuRun, GpuFault, FreezerStep, FreezerWakes, FreezerSignals, mgr
  <2>2. ~ClientStep
    BY DEF ClientStep, ProcessJob, ProcessBadJob, ProcessUnsynced, ListenReturns
  <2> QED BY <2>1, <2>2 DEF Next, vars, Forward, LinkDown, mgr
<1>2. Len(handles) \in Nat /\ Len(joining) \in Nat
  BY LenProperties DEF IInv, TypeOK, TypeManager
<1> QED BY <1>1, <1>2 DEF DropStepsLeft

\* Every step of a Drop brings its end nearer.
THEOREM DropEnds == SafetySpec => DropGoesOn
<1> DEFINE Nearer == /\ DropStep => DropStepsLeft' < DropStepsLeft
                     /\ phase \in {"drop", "join"} => DropStepsLeft' <= DropStepsLeft
<1>1. ASSUME IInv, JInv, [Next]_vars PROVE [Nearer]_vars
  <2>1. DropStepsLeft \in Nat
    BY <1>1, LenProperties DEF IInv, TypeOK, TypeManager, DropStepsLeft
  <2>2. CASE DropStep
    <3>1. DropStepsLeft' < DropStepsLeft
      BY <1>1, <2>2, DropShortens
    <3>2. IInv'
      BY <1>1, <2>2, DropIInv
    <3>3. DropStepsLeft' \in Nat
      BY <3>2, LenProperties DEF IInv, TypeOK, TypeManager, DropStepsLeft
    <3> QED BY <2>1, <3>1, <3>3
  <2>3. CASE ~DropStep
    BY <1>1, <2>3, DropUndisturbed
  <2> QED BY <2>2, <2>3
<1> QED BY <1>1, Progress, PTL DEF SafetySpec, DropGoesOn

\* A CPU worker's own step, while it does not hold the newest command.
LEMMA OwnStepNearer ==
    ASSUME IInv, JInv, NEW w \in CpuWorkers, held[w] # latest, WorkerStep(w)
    PROVE  \/ held'[w] = latest'
           \/ Finished(w)'
           \/ PollDistance(w)' < PollDistance(w)
<1>0. w \in Workers /\ w \notin GpuWorkers
  BY PoolAssumption DEF Workers
<1> USE DEF IInv, TypeOK, TypeWorkers, TypeChannel, PollDistance, Goto
<1>1. left[w] \in Nat \ {0}
  BY <1>0
<1>2. CASE StartWait(w) \/ Poll(w)
  BY <1>0, <1>1, <1>2 DEF StartWait, Poll
<1>3. CASE Answered(w)
  BY <1>0, <1>3, AnsweredJob, WorkerFrame
<1>4. ASSUME NextNonce(w), wpc[w] = "send" \/ (wpc[w] = "loop" /\ has_job[w])
      PROVE  PollDistance(w)' < PollDistance(w)
  <2>1. CASE left[w] = 1
    BY <1>0, <1>1, <1>4, <2>1 DEF NextNonce
  <2>2. CASE left[w] # 1
    <3>1. left'[w] = left[w] - 1 /\ wpc'[w] = "loop"
      BY <1>0, <1>4, <2>2 DEF NextNonce
    <3> QED BY <1>1, <1>4, <2>2, <3>1
  <2> QED BY <2>1, <2>2
<1>5. CASE SendBlock(w)
  BY <1>4, <1>5 DEF SendBlock, AfterSend
<1>6. CASE CpuHash(w)
  <2>1. CASE Goto(w, "send") /\ UNCHANGED left
    BY <1>0, <1>1, <1>6, <2>1 DEF CpuHash
  <2> QED BY <1>4, <1>6, <2>1 DEF CpuHash
<1> QED
  BY <1>0, <1>2, <1>3, <1>5, <1>6
  DEF WorkerStep, ThreadStep, GpuBuild, GpuRun, GpuFault, InLaunch

\* Every other step leaves a CPU worker where it is, or ends it.
LEMMA OthersNotFurther ==
    ASSUME IInv, [Next]_vars, NEW w \in CpuWorkers, ~WorkerStep(w)
    PROVE  Finished(w)' \/ PollDistance(w)' = PollDistance(w)
<1>0. w \in Workers /\ w \notin GpuWorkers
  BY PoolAssumption DEF Workers
<1>1. ASSUME NEW v \in Workers, WorkerStep(v)
      PROVE  PollDistance(w)' = PollDistance(w)
  BY <1>0, <1>1, WorkerFrame DEF PollDistance
<1>2. ASSUME NEW v \in Workers, FreezerStep(v)
      PROVE  Finished(w)' \/ PollDistance(w)' = PollDistance(w)
  <2>1. has_job' = has_job /\ left' = left
        /\ (wpc'[w] = wpc[w] \/ wpc'[w] = "killed")
    BY <1>0, <1>2
    DEF FreezerStep, FreezerWakes, FreezerSignals, Goto, InLaunch, worker, IInv, TypeOK,
        TypeWorkers
  <2> QED BY <2>1 DEF Finished, PollDistance
<1>3. CASE UNCHANGED worker
  BY <1>3 DEF worker, PollDistance
<1>4. ASSUME ClientStep \/ DropStep \/ Forward \/ LinkDown PROVE UNCHANGED worker
  BY <1>4
  DEF ClientStep, ProcessJob, ProcessBadJob, ProcessUnsynced, ListenReturns, DropStep,
      SendClose, PopHandle, Join, DropFields, Forward, LinkDown
<1> QED BY <1>1, <1>2, <1>3, <1>4 DEF Next, vars, worker

\* A CPU worker comes nearer to the newest command with each of its steps.
THEOREM CpuNearer == SafetySpec => CpuComesNearer
<1> DEFINE Nearer ==
      \A w \in CpuWorkers : held[w] # latest =>
          \/ held'[w] = latest'
          \/ Finished(w)'
          \/ /\ PollDistance(w)' <= PollDistance(w)
             /\ WorkerStep(w) => PollDistance(w)' < PollDistance(w)
<1>1. ASSUME IInv, JInv, [Next]_vars PROVE [Nearer]_vars
  <2> SUFFICES ASSUME NEW w \in CpuWorkers, held[w] # latest,
                      held'[w] # latest', ~Finished(w)'
               PROVE  /\ PollDistance(w)' <= PollDistance(w)
                      /\ WorkerStep(w) => PollDistance(w)' < PollDistance(w)
    OBVIOUS
  <2>1. IInv'
    BY <1>1, InvStep
  <2>2. PollDistance(w) \in Nat /\ PollDistance(w)' \in Nat
    <3>1. left[w] \in Nat /\ left'[w] \in Nat
      BY <1>1, <2>1 DEF IInv, TypeOK, TypeWorkers, Workers
    <3> QED BY <3>1 DEF PollDistance
  <2>3. CASE WorkerStep(w)
    BY <1>1, <2>2, <2>3, OwnStepNearer
  <2>4. CASE ~WorkerStep(w)
    BY <1>1, <2>2, <2>4, OthersNotFurther
  <2> QED BY <2>3, <2>4
<1> QED BY <1>1, Progress, PTL DEF SafetySpec, CpuComesNearer
=============================================================================
