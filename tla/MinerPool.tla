------------------------------ MODULE MinerPool ------------------------------
(***************************************************************************)
(* One MinerManager (src/miner.rs): the client's task that hands templates *)
(* to it and finally drops it, the CPU and GPU worker threads, the watch   *)
(* channel that carries the commands to them, the bounded channel on which *)
(* they return what they find, and the freeze handlers of the shutdown.    *)
(*                                                                         *)
(* The watch channel is the abstract one of WatchAbs, which Watch          *)
(* implements; its versions index the commands sent so far.  A template    *)
(* is only its kind: a full block (gRPC) or a partial one (stratum).       *)
(***************************************************************************)
EXTENDS Naturals, Sequences

CONSTANTS
    CpuWorkers, GpuWorkers,  \* worker threads
    Launched,                \* the workers in the order their threads were pushed
    PollEvery,               \* nonces a CPU worker tries between polls (128)
    MaxCommands              \* bound: commands sent before the final Close

Workers == CpuWorkers \cup GpuWorkers

ASSUME PoolAssumption ==
    /\ CpuWorkers \cap GpuWorkers = {}
    /\ Launched \in Seq(Workers) \ {<<>>}
    /\ \A w \in Workers : \E i \in 1..Len(Launched) : Launched[i] = w
    /\ PollEvery \in Nat \ {0}
    /\ MaxCommands \in Nat

VARIABLES
    latest, closed, asking, held, answer,  \* the watch channel, see WatchAbs
    cmds,        \* the command behind every version: "none", "job" or "close"
    kind,        \* what the client's templates are: "full" or "partial"
    is_synced,   \* MinerManager.is_synced
    phase,       \* of the manager: "running", "drop", "join", "gone"; "aborted" with the process
    handles,     \* threads not yet popped by Drop
    joining,     \* the thread Drop is joining, as a sequence of at most one
    wpc,         \* wpc[w]: where worker w is
    has_job,     \* has_job[w]: w's local `state` is Some(job of version held[w])
    left,        \* left[w]: nonces until a CPU worker's next poll
    fallback,    \* fallback[w]: a GPU worker's fallback_spec is still there
    queue,       \* the mpsc channel of capacity 1: workers with a block in it
    link_up,     \* the client's forwarding task still takes blocks
    freezer      \* freezer[w]: the freeze handler of w

watch  == <<latest, closed, asking, held, answer, cmds>>
mgr    == <<kind, is_synced, phase, handles, joining>>
worker == <<wpc, has_job, left, fallback>>
vars   == <<latest, closed, asking, held, answer, cmds, kind, is_synced, phase, handles,
            joining, wpc, has_job, left, fallback, queue, link_up, freezer>>

Chan == INSTANCE WatchAbs WITH
    Receivers <- Workers, FirstReceiver <- Launched[1], MaxVersion <- MaxCommands + 2

Finished(w) == wpc[w] \in {"ended", "failed", "killed"}
Alive == {w \in Workers : ~Finished(w)}   \* whose Receiver is not dropped

Init ==
    /\ Chan!Init
    /\ cmds = <<"none">>
    /\ kind \in {"full", "partial"}
    /\ is_synced = TRUE
    /\ phase = "running"
    /\ handles = Launched
    /\ joining = <<>>
    /\ wpc = [w \in Workers |-> IF w \in GpuWorkers THEN "build" ELSE "loop"]
    /\ has_job = [w \in Workers |-> FALSE]
    /\ left \in [Workers -> 1..PollEvery]     \* the first nonce is random
    /\ fallback \in [Workers -> BOOLEAN]
    /\ \A w \in CpuWorkers : ~fallback[w]
    /\ \A w \in GpuWorkers : left[w] = PollEvery
    /\ queue = <<>>
    /\ link_up = TRUE
    /\ freezer = [w \in Workers |-> "none"]

-----------------------------------------------------------------------------
(* Faulty variants of steps below, each of which breaks a property; none   *)
(* is part of Next.                                                        *)

\* SyncFlagHonest: the flag is cleared, nothing is sent.
UnsyncedForgetsToSend ==
    /\ phase = "running"
    /\ kind = "full"
    /\ is_synced
    /\ is_synced' = FALSE
    /\ UNCHANGED <<watch, kind, phase, handles, joining, worker, queue, link_up, freezer>>

\* ChannelOutlivesWorkers: without waiting for the threads.
DropFieldsEarly ==
    /\ phase = "join"
    /\ Chan!Close
    /\ phase' = "gone"
    /\ UNCHANGED <<cmds, kind, is_synced, handles, joining, worker, queue, link_up, freezer>>

\* ShutdownCompletes: the handler finds its switch cleared.
NoFreezeHandler(w) ==
    /\ freezer[w] = "asleep"
    /\ freezer' = [freezer EXCEPT ![w] = "done"]
    /\ UNCHANGED <<watch, mgr, worker, queue, link_up>>

\* CpuCatchesUp: go on with the job whatever the nonce.
NextNonceNeverPolls(w) ==
    /\ wpc' = [wpc EXCEPT ![w] = "loop"]
    /\ UNCHANGED left

\* GpuCatchesUp: a launch that found nothing is not followed by a look at the channel.
PollForgotten(w) ==
    /\ wpc[w] = "poll"
    /\ wpc' = [wpc EXCEPT ![w] = "loop"]
    /\ UNCHANGED <<watch, mgr, has_job, left, fallback, queue, link_up, freezer>>

\* FallbackFirst: the fallback is left unused.
GpuFaultGivesUp(w) ==
    /\ w \in GpuWorkers /\ wpc[w] = "loop" /\ has_job[w]
    /\ \E where \in {"loop", "failed"} : wpc' = [wpc EXCEPT ![w] = where]
    /\ UNCHANGED <<watch, mgr, has_job, left, fallback, queue, link_up, freezer>>

\* TypeOK: a block is put in the channel without waiting for room.
SendBlockAnyway(w) ==
    /\ wpc[w] = "send"
    /\ queue' = IF link_up THEN Append(queue, w) ELSE queue
    /\ wpc' = [wpc EXCEPT ![w] = "loop"]
    /\ UNCHANGED <<watch, mgr, has_job, left, fallback, link_up, freezer>>

-----------------------------------------------------------------------------
(* The manager, driven by the client's task.                               *)

\* send() on the watch channel; it is refused when no receiver is left.
Send(cmd) == Alive # {} /\ Chan!Publish /\ cmds' = Append(cmds, cmd)
Refused   == Alive = {} /\ UNCHANGED watch

\* A process_block that fails ends listen(), and with it the manager.
ProcessJob ==
    /\ phase = "running"
    /\ latest < MaxCommands + 1
    /\ is_synced' = TRUE
    /\ \/ Send("job") /\ UNCHANGED phase
       \/ Refused /\ phase' = "drop"
    /\ UNCHANGED <<kind, handles, joining, worker, queue, link_up, freezer>>

\* pow::State::new rejects a block without a header: the flag is set, nothing is sent.
ProcessBadJob ==
    /\ phase = "running"
    /\ kind = "full"
    /\ is_synced' = TRUE
    /\ phase' = "drop"
    /\ UNCHANGED <<watch, kind, handles, joining, worker, queue, link_up, freezer>>

\* The node is out of sync: workers are stopped once, not at every template.
\* Only the gRPC client passes None.
ProcessUnsynced ==
    /\ phase = "running"
    /\ kind = "full"
    /\ is_synced
    /\ latest < MaxCommands + 1
    /\ is_synced' = FALSE
    /\ \/ Send("none") /\ UNCHANGED phase
       \/ Refused /\ phase' = "drop"
    /\ UNCHANGED <<kind, handles, joining, worker, queue, link_up, freezer>>

\* listen() returns: the connection is lost, the node errs or the devfund turn
\* changes.  client_main drops the manager, and the client after it.
ListenReturns ==
    /\ phase = "running"
    /\ phase' = "drop"
    /\ UNCHANGED <<watch, kind, is_synced, handles, joining, worker, queue, link_up, freezer>>

\* MinerManager::drop sends Close to whoever is still there ...
SendClose ==
    /\ phase = "drop"
    /\ Send("close") \/ Refused
    /\ phase' = "join"
    /\ UNCHANGED <<kind, is_synced, handles, joining, worker, queue, link_up, freezer>>

\* ... pops its threads from the last one on, starting a freeze handler for each ...
PopHandle ==
    /\ phase = "join"
    /\ joining = <<>>
    /\ handles # <<>>
    /\ LET w == handles[Len(handles)] IN
        /\ joining' = <<w>>
        /\ freezer' = [freezer EXCEPT ![w] = "asleep"]
    /\ handles' = SubSeq(handles, 1, Len(handles) - 1)
    /\ UNCHANGED <<watch, kind, is_synced, phase, worker, queue, link_up>>

\* ... waits for the thread, however it ended, and clears its kill switch.
Join ==
    /\ phase = "join"
    /\ joining # <<>>
    /\ Finished(joining[1])
    /\ joining' = <<>>
    /\ UNCHANGED <<watch, kind, is_synced, phase, handles, worker, queue, link_up, freezer>>

\* The fields are dropped last, the watch Sender among them.
DropFields ==
    /\ phase = "join"
    /\ handles = <<>>
    /\ joining = <<>>
    /\ Chan!Close
    /\ phase' = "gone"
    /\ UNCHANGED <<cmds, kind, is_synced, handles, joining, worker, queue, link_up, freezer>>

-----------------------------------------------------------------------------
Goto(w, where) == wpc' = [wpc EXCEPT ![w] = where]

\* A GPU worker with a job is loading or launching its kernel, or waiting for it.
InLaunch(w) == w \in GpuWorkers /\ wpc[w] = "loop" /\ has_job[w]

(* The freeze handler of one thread: sleep a second, load kill_switch, and *)
(* only then signal.                                                       *)

\* The kill switch is true exactly while the thread is being joined.
FreezerWakes(w) ==
    /\ freezer[w] = "asleep"
    /\ freezer' = [freezer EXCEPT ![w] = IF joining = <<w>> THEN "armed" ELSE "done"]
    /\ UNCHANGED <<watch, mgr, worker, queue, link_up>>

\* SIGUSR1 makes the thread panic inside an extern "C" function, which is what the
\* toolchain makes of it: the thread unwinds and ends, the process aborts, or the
\* catch_unwind around a launch stops the unwinding and the fallback takes over.  The
\* thread may have ended since the load; the model takes the late pthread_kill for
\* one without effect.
FreezerSignals(w) ==
    /\ freezer[w] = "armed"
    /\ freezer' = [freezer EXCEPT ![w] = "done"]
    /\ \/ Finished(w) /\ UNCHANGED <<phase, wpc, fallback>>
       \/ /\ ~Finished(w)
          /\ \/ Goto(w, "killed") /\ UNCHANGED <<phase, fallback>>
             \/ phase' = "aborted" /\ UNCHANGED <<wpc, fallback>>
             \/ /\ InLaunch(w) /\ fallback[w]
                /\ fallback' = [fallback EXCEPT ![w] = FALSE]
                /\ \E where \in {"loop", "failed"} : Goto(w, where)
                /\ UNCHANGED phase
    /\ UNCHANGED <<watch, kind, is_synced, handles, joining, has_job, left, queue, link_up>>

-----------------------------------------------------------------------------
(* The workers.                                                            *)

\* Without a job a worker sleeps in wait_for_change ...
StartWait(w) ==
    /\ wpc[w] = "loop"
    /\ ~has_job[w]
    /\ Chan!Ask(w, "wait")
    /\ Goto(w, "answer")
    /\ UNCHANGED <<cmds, mgr, has_job, left, fallback, queue, link_up, freezer>>

\* ... with one it looks in now and then with get_changed.
Poll(w) ==
    /\ wpc[w] = "poll"
    /\ Chan!Ask(w, "get")
    /\ Goto(w, "answer")
    /\ UNCHANGED <<cmds, mgr, has_job, left, fallback, queue, link_up, freezer>>

\* Job replaces the state, None clears it, Close ends the thread.
Obey(w, cmd) ==
    /\ has_job' = [has_job EXCEPT ![w] = (cmd = "job")]
    /\ Goto(w, IF cmd = "close" THEN "ended" ELSE "loop")

\* A closed channel ends the thread: quietly in wait_for_change, as an error in
\* get_changed.
Answered(w) ==
    /\ wpc[w] = "answer"
    /\ \/ Chan!Deliver(w) /\ Obey(w, cmds[latest])
       \/ Chan!Nothing(w) /\ Goto(w, "loop") /\ UNCHANGED has_job
       \/ /\ Chan!Refuse(w)
          /\ Goto(w, IF asking[w] = "wait" THEN "ended" ELSE "failed")
          /\ UNCHANGED has_job
    /\ UNCHANGED <<cmds, mgr, left, fallback, queue, link_up, freezer>>

\* A CPU worker counts its nonces; the one that completes a batch makes it poll.
NextNonce(w) ==
    /\ left' = [left EXCEPT ![w] = IF left[w] = 1 THEN PollEvery ELSE left[w] - 1]
    /\ Goto(w, IF left[w] = 1 THEN "poll" ELSE "loop")

CpuHash(w) ==
    /\ wpc[w] = "loop"
    /\ has_job[w]
    /\ \/ Goto(w, "send") /\ UNCHANGED left   \* generate_block_if_pow: Some
       \/ NextNonce(w)                        \* None
    /\ UNCHANGED <<watch, mgr, has_job, fallback, queue, link_up, freezer>>

\* A solved full block is finished with; a partial one is mined on.  A GPU worker
\* goes straight back to its loop, a CPU worker to its next nonce.
AfterSend(w) ==
    /\ has_job' = [has_job EXCEPT ![w] = (kind = "partial")]
    /\ IF w \in CpuWorkers THEN NextNonce(w) ELSE Goto(w, "loop") /\ UNCHANGED left

\* blocking_send waits for room in the channel, and fails once nobody receives.
SendBlock(w) ==
    /\ wpc[w] = "send"
    /\ IF link_up
       THEN Len(queue) < 1 /\ queue' = Append(queue, w)
       ELSE UNCHANGED queue
    /\ AfterSend(w)
    /\ UNCHANGED <<watch, mgr, fallback, link_up, freezer>>

\* build_worker_safe on the primary spec, then on its fallback.
GpuBuild(w) ==
    /\ wpc[w] = "build"
    /\ \/ Goto(w, "loop") /\ UNCHANGED fallback
       \/ /\ ~fallback[w]
          /\ Goto(w, "failed")
          /\ UNCHANGED fallback
       \/ /\ fallback[w]
          /\ fallback' = [fallback EXCEPT ![w] = FALSE]
          /\ \E where \in {"loop", "failed"} : Goto(w, where)
    /\ UNCHANGED <<watch, mgr, has_job, left, queue, link_up, freezer>>

\* A kernel run gives no nonce, a good one, or one the host cannot confirm.
GpuRun(w) ==
    /\ InLaunch(w)
    /\ \E where \in {"poll", "send", "ended"} : Goto(w, where)
    /\ UNCHANGED <<watch, mgr, has_job, left, fallback, queue, link_up, freezer>>

\* A launch panics, a sync or a read of the output fails: the fallback takes
\* over when there is one.  Without one a failed sync is ignored, a panic and a
\* failed read end the thread.
GpuFault(w) ==
    /\ InLaunch(w)
    /\ fallback' = [fallback EXCEPT ![w] = FALSE]
    /\ \E where \in {"loop", "failed"} : Goto(w, where)
    /\ UNCHANGED <<watch, mgr, has_job, left, queue, link_up, freezer>>

-----------------------------------------------------------------------------
(* The client's side of the block channel.                                 *)

\* create_block_channel's task takes a block when its own sink has room.
Forward ==
    /\ link_up
    /\ queue # <<>>
    /\ queue' = Tail(queue)
    /\ UNCHANGED <<watch, mgr, worker, link_up, freezer>>

\* The task ends with its sink, dropping the receiver and what is queued.
LinkDown ==
    /\ link_up
    /\ link_up' = FALSE
    /\ queue' = <<>>
    /\ UNCHANGED <<watch, mgr, worker, freezer>>

-----------------------------------------------------------------------------
ClientStep == ProcessJob \/ ProcessBadJob \/ ProcessUnsynced \/ ListenReturns
DropStep   == SendClose \/ PopHandle \/ Join \/ DropFields
ThreadStep(w) == StartWait(w) \/ Poll(w) \/ Answered(w) \/ SendBlock(w)
WorkerStep(w) ==
    \/ ThreadStep(w)
    \/ w \in CpuWorkers /\ CpuHash(w)
    \/ w \in GpuWorkers /\ GpuBuild(w)
    \/ GpuRun(w)
    \/ GpuFault(w)
FreezerStep(w) == FreezerWakes(w) \/ FreezerSignals(w)

Running == phase # "aborted"    \* the process is there

Next ==
    \/ ClientStep
    \/ DropStep
    \/ Running /\ \E w \in Workers : FreezerStep(w) \/ WorkerStep(w)
    \/ Running /\ (Forward \/ LinkDown)

\* Threads run, a drop that has begun goes on, and sleeping handlers wake up.  Nothing
\* is assumed of the client, the network or the devices, so a GPU thread may stay in a
\* call of its driver for ever, and a waiting receiver is only owed what WatchAbs owes it.
Fairness ==
    /\ WF_vars(DropStep)
    /\ \A w \in Workers : WF_vars(Running /\ FreezerStep(w))
    /\ \A w \in CpuWorkers :
        WF_vars(Running /\ WorkerStep(w) /\ (wpc[w] = "answer" => Chan!Owed(w)))
    /\ \A w \in GpuWorkers :
        WF_vars(Running /\ ThreadStep(w) /\ (wpc[w] = "answer" => Chan!Owed(w)))

SafetySpec == Init /\ [][Next]_vars
Spec == SafetySpec /\ Fairness

-----------------------------------------------------------------------------
(* Properties.                                                             *)

TypeChannel ==
    /\ latest \in 1..(MaxCommands + 2)
    /\ closed \in BOOLEAN
    /\ asking \in [Workers -> {"no", "get", "wait"}]
    /\ held \in [Workers -> 0..(MaxCommands + 2)]
    /\ answer \in [Workers -> {"none", "value", "nothing", "closed"}]
    /\ cmds \in Seq({"none", "job", "close"}) /\ Len(cmds) = latest
TypeManager ==
    /\ kind \in {"full", "partial"}
    /\ is_synced \in BOOLEAN
    /\ phase \in {"running", "drop", "join", "gone", "aborted"}
    /\ handles \in Seq(Workers)
    /\ joining \in Seq(Workers) /\ Len(joining) <= 1
Places == {"build", "loop", "answer", "poll", "send", "ended", "failed", "killed"}
TypeWorkers ==
    /\ wpc \in [Workers -> Places]
    /\ has_job \in [Workers -> BOOLEAN]
    /\ left \in [Workers -> 1..PollEvery]
    /\ fallback \in [Workers -> BOOLEAN]
TypeLink ==
    /\ queue \in Seq(Workers) /\ Len(queue) <= 1
    /\ link_up \in BOOLEAN
    /\ freezer \in [Workers -> {"none", "asleep", "armed", "done"}]

\* Every variable keeps its type; the block channel holds at most one block.
TypeOK == TypeChannel /\ TypeManager /\ TypeWorkers /\ TypeLink

\* process_block's flag tells what the workers have been told: it is false exactly
\* when the newest command is the None that stops them, so the None that is
\* suppressed is never the one that was needed.
SyncFlagHonest ==
    phase = "running" => (is_synced <=> latest = 1 \/ cmds[latest] = "job")

\* No worker ever finds the watch channel closed: its Sender is dropped after every
\* thread has been joined, so the error branches of wait_for_change and
\* get_changed in the worker loops are never taken.
ChannelOutlivesWorkers == \A w \in Workers : answer[w] # "closed"

\* A GPU thread gives up on an error only once its fallback worker is used up
\* (launch_gpu_miner).
FallbackFirst == \A w \in GpuWorkers : wpc[w] = "failed" => ~fallback[w]

\* Dropping the manager terminates although workers may be stuck in a device or on
\* a full channel: the freeze handlers cut the joins short (Linux and Windows), or
\* end the process.  Only a GPU thread that has caught the panic, and is not signalled
\* again, may hold it up.
Survived(w) == freezer[w] = "done" /\ ~Finished(w)
ShutdownCompletes ==
    phase = "drop" ~> \/ phase \in {"gone", "aborted"}
                      \/ \E w \in GpuWorkers : Survived(w)

\* A CPU worker gets to the newest command unless it is waiting for room in the
\* block channel, whether or not every nonce it tries solves a block.
Blocked(w) == wpc[w] = "send" /\ link_up /\ Len(queue) = 1
CpuCatchesUp ==
    \A w \in CpuWorkers :
        held[w] # latest ~> (held[w] = latest \/ Finished(w) \/ Blocked(w) \/ ~Running)

\* A GPU worker looks at the channel only after a launch that found nothing: one that
\* finds a share, or whose run is ignored, goes straight on.  Once its device is built
\* it gets to the newest command as long as empty launches keep coming; nothing less
\* will do, neither launches that return nor ones that fail.
GpuQuiet(w) == GpuRun(w) /\ wpc'[w] = "poll"
GpuCatchesUp ==
    \A w \in GpuWorkers :
        SF_vars(GpuQuiet(w)) =>
            (held[w] # latest ~> \/ held[w] = latest \/ Finished(w) \/ Blocked(w)
                                 \/ wpc[w] = "build" \/ ~Running)
=============================================================================
