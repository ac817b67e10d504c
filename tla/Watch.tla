------------------------------- MODULE Watch -------------------------------
(***************************************************************************)
(* The watch channel of src/watch.rs, one step per atomic operation, lock  *)
(* acquisition or condition variable operation.  MinerManager owns the     *)
(* only Sender; every worker thread owns a Receiver.                       *)
(*                                                                         *)
(* The payload is abstracted to a version number: channel(init) holds      *)
(* version 1, and the n-th value sent is version n+1, so that a version    *)
(* equals the id the code gives it.  The atomics are interleaved: every    *)
(* load the code relies on is an Acquire of a Release store.               *)
(***************************************************************************)
EXTENDS Naturals, FiniteSets

CONSTANTS
    Receivers,      \* receiver handles that may ever exist
    FirstReceiver,  \* the one channel() returns
    Sender,         \* the sending thread, as an owner of the mutex
    Nobody,         \* the mutex has no owner
    MaxVersion      \* bound: versions sent (the code's id is a usize)

ASSUME WatchAssumption ==
    /\ IsFiniteSet(Receivers)
    /\ FirstReceiver \in Receivers
    /\ Sender \notin Receivers
    /\ Nobody \notin Receivers
    /\ Sender # Nobody
    /\ MaxVersion \in Nat \ {0}

VARIABLES
    value,            \* the version behind the RwLock
    id,               \* AtomicUsize bumped once per send
    wait_for_change,  \* owner of the mutex of the condition variable
    receivers_count,  \* AtomicUsize
    sender_alive,     \* AtomicBool
    spc,              \* where the sender is
    refused,          \* the last send returned Err(ChannelClosed)
    rpc,              \* rpc[r]: where receiver r is
    call,             \* call[r]: "get" (get_changed) or "wait" (wait_for_change)
    last_observed,    \* last_observed[r]: the id r believes it has seen
    held,             \* held[r]: the version last returned to r, 0 for none
    result            \* result[r]: how r's last call ended

chan == <<value, id, receivers_count, sender_alive>>
snd  == <<spc, refused>>
rcv  == <<rpc, call, last_observed, held, result>>
vars == <<value, id, wait_for_change, receivers_count, sender_alive,
          spc, refused, rpc, call, last_observed, held, result>>

SenderPC == {"idle", "write", "increment", "lock", "notify", "dropped"}
ReceiverPC == {"unused", "idle", "check", "load", "clone", "lock", "sleep",
               "parked", "woken", "recheck", "reload", "dropped"}
Results == {"none", "value", "nothing", "closed"}

Live == {r \in Receivers : rpc[r] \notin {"unused", "dropped"}}

-----------------------------------------------------------------------------
Init ==
    /\ value = 1
    /\ id = 1
    /\ wait_for_change = Nobody
    /\ receivers_count = 1
    /\ sender_alive = TRUE
    /\ spc = "idle"
    /\ refused = FALSE
    /\ rpc = [r \in Receivers |-> IF r = FirstReceiver THEN "idle" ELSE "unused"]
    /\ call = [r \in Receivers |-> "get"]
    /\ last_observed = [r \in Receivers |-> 0]
    /\ held = [r \in Receivers |-> 0]
    /\ result = [r \in Receivers |-> "none"]

-----------------------------------------------------------------------------
(* Faulty variants of steps below, in which the code could plausibly have  *)
(* been written; none is part of Next.  Each breaks a property named here. *)

\* NoLostWakeup: notify without the mutex.
LockToNotifyUnguarded ==
    /\ spc = "lock"
    /\ spc' = "notify"
    /\ UNCHANGED <<chan, wait_for_change, refused, rcv>>

\* ImplementsWatch: the write lock is released before id is bumped.
NeverWriteLocked == FALSE

\* AnswersOwed: wait as soon as the mutex is held, without a second look.
LockWithoutSecondLook(r) ==
    /\ rpc[r] \in {"lock", "woken"}
    /\ wait_for_change = Nobody
    /\ wait_for_change' = IF rpc[r] = "lock" THEN Nobody ELSE r
    /\ rpc' = [rpc EXCEPT ![r] = IF rpc[r] = "lock" THEN "parked" ELSE "recheck"]
    /\ UNCHANGED <<chan, snd, call, last_observed, held, result>>

\* NeverBehind: a clone starts from the current id instead of its original's.
CloneFromNow(r, s) ==
    /\ rpc[r] = "idle"
    /\ rpc[s] = "unused"
    /\ receivers_count' = receivers_count + 1
    /\ rpc' = [rpc EXCEPT ![s] = "idle"]
    /\ last_observed' = [last_observed EXCEPT ![s] = id]
    /\ held' = [held EXCEPT ![s] = held[r]]
    /\ UNCHANGED <<value, id, sender_alive, wait_for_change, snd, call, result>>

\* RefusedMeansNobody, TypeOK: a clone that is not counted.
CloneUncounted(r, s) ==
    /\ rpc[r] = "idle"
    /\ rpc[s] = "unused"
    /\ rpc' = [rpc EXCEPT ![s] = "idle"]
    /\ last_observed' = [last_observed EXCEPT ![s] = last_observed[r]]
    /\ held' = [held EXCEPT ![s] = held[r]]
    /\ UNCHANGED <<chan, wait_for_change, snd, call, result>>

\* The write lock is held from the assignment of the value to the bump of id.
WriteLocked == spc = "increment"

-----------------------------------------------------------------------------
(* The sender: send() and Drop.                                            *)

\* send() gives up when it reads a receiver count of zero.
Send ==
    /\ spc = "idle"
    /\ value < MaxVersion
    /\ refused' = (receivers_count = 0)
    /\ spc' = IF receivers_count = 0 THEN "idle" ELSE "write"
    /\ UNCHANGED <<chan, wait_for_change, rcv>>

\* replace_value takes the write lock and assigns the value ...
WriteValue ==
    /\ spc = "write"
    /\ value' = value + 1
    /\ spc' = "increment"
    /\ UNCHANGED <<id, receivers_count, sender_alive, wait_for_change, refused, rcv>>

\* ... bumps id, and only then lets go of the write lock.
IncrementId ==
    /\ spc = "increment"
    /\ id' = id + 1
    /\ spc' = "lock"
    /\ UNCHANGED <<value, receivers_count, sender_alive, wait_for_change, refused, rcv>>

\* Sender::drop marks the channel closed before it wakes the waiters.
DropSender ==
    /\ spc = "idle"
    /\ sender_alive' = FALSE
    /\ spc' = "lock"
    /\ UNCHANGED <<value, id, receivers_count, wait_for_change, refused, rcv>>

\* wake_up_threads acquires the mutex, so no receiver is between its check and
\* its wait ...
LockToNotify ==
    /\ spc = "lock"
    /\ wait_for_change = Nobody
    /\ wait_for_change' = Sender
    /\ spc' = "notify"
    /\ UNCHANGED <<chan, refused, rcv>>

\* ... and moves every waiter to the queue of the mutex; the guard is dropped
\* on return.
NotifyAll ==
    /\ spc = "notify"
    /\ rpc' = [r \in Receivers |-> IF rpc[r] = "parked" THEN "woken" ELSE rpc[r]]
    /\ wait_for_change' = Nobody
    /\ spc' = IF sender_alive THEN "idle" ELSE "dropped"
    /\ UNCHANGED <<chan, refused, call, last_observed, held, result>>

-----------------------------------------------------------------------------
(* A receiver: get_changed() and wait_for_change(), which share            *)
(* get_changed_internal; wait_for_change runs it a second time under the   *)
(* mutex before it waits.                                                  *)

Goto(r, where) == rpc' = [rpc EXCEPT ![r] = where]

\* Returning drops the guard of the mutex, when the call holds it.
Return(r, how) ==
    /\ Goto(r, "idle")
    /\ result' = [result EXCEPT ![r] = how]
    /\ wait_for_change' = IF wait_for_change = r THEN Nobody ELSE wait_for_change

Call(r, c) ==
    /\ rpc[r] = "idle"
    /\ call' = [call EXCEPT ![r] = c]
    /\ Goto(r, "check")
    /\ UNCHANGED <<chan, wait_for_change, snd, last_observed, held, result>>

\* get_changed_internal and, after a wakeup, wait_for_change itself look at
\* sender_alive and return Err once the sender is gone.
CheckAlive(r) ==
    /\ rpc[r] \in {"check", "recheck"}
    /\ IF sender_alive
       THEN /\ Goto(r, IF rpc[r] = "check" THEN "load" ELSE "reload")
            /\ UNCHANGED <<wait_for_change, result>>
       ELSE Return(r, "closed")
    /\ UNCHANGED <<chan, snd, call, last_observed, held>>

\* A new id is recorded before the value is cloned, outside the RwLock.
ObserveNewId(r) ==
    /\ rpc[r] = "load"
    /\ last_observed[r] # id
    /\ last_observed' = [last_observed EXCEPT ![r] = id]
    /\ Goto(r, "clone")
    /\ UNCHANGED <<chan, wait_for_change, snd, call, held, result>>

\* get_changed reports that nothing changed.
NothingNew(r) ==
    /\ rpc[r] = "load"
    /\ last_observed[r] = id
    /\ call[r] = "get"
    /\ Return(r, "nothing")
    /\ UNCHANGED <<chan, snd, call, last_observed, held>>

\* wait_for_change goes on to the mutex after its first look ...
WantLock(r) ==
    /\ rpc[r] = "load"
    /\ last_observed[r] = id
    /\ call[r] = "wait"
    /\ wait_for_change # r
    /\ Goto(r, "lock")
    /\ UNCHANGED <<chan, wait_for_change, snd, call, last_observed, held, result>>

\* ... decides to wait after the second one, still holding the mutex ...
LookedTwice(r) ==
    /\ rpc[r] = "load"
    /\ last_observed[r] = id
    /\ call[r] = "wait"
    /\ wait_for_change = r
    /\ Goto(r, "sleep")
    /\ UNCHANGED <<chan, wait_for_change, snd, call, last_observed, held, result>>

\* ... and waits, which releases the mutex in the same step.
Park(r) ==
    /\ rpc[r] = "sleep"
    /\ Goto(r, "parked")
    /\ wait_for_change' = Nobody
    /\ UNCHANGED <<chan, snd, call, last_observed, held, result>>

\* The mutex is taken before the second look, and again by a woken waiter.
Lock(r) ==
    /\ rpc[r] \in {"lock", "woken"}
    /\ wait_for_change = Nobody
    /\ wait_for_change' = r
    /\ Goto(r, IF rpc[r] = "lock" THEN "check" ELSE "recheck")
    /\ UNCHANGED <<chan, snd, call, last_observed, held, result>>

\* A woken waiter takes whatever id there is, changed or not.
Reload(r) ==
    /\ rpc[r] = "reload"
    /\ last_observed' = [last_observed EXCEPT ![r] = id]
    /\ Goto(r, "clone")
    /\ UNCHANGED <<chan, wait_for_change, snd, call, held, result>>

\* clone_value needs the read lock.
CloneValue(r) ==
    /\ rpc[r] = "clone"
    /\ ~WriteLocked
    /\ held' = [held EXCEPT ![r] = value]
    /\ Return(r, "value")
    /\ UNCHANGED <<chan, snd, call, last_observed>>

\* Receiver::clone copies last_observed; Receiver::drop only counts.
CloneReceiver(r, s) ==
    /\ rpc[r] = "idle"
    /\ rpc[s] = "unused"
    /\ receivers_count' = receivers_count + 1
    /\ Goto(s, "idle")
    /\ last_observed' = [last_observed EXCEPT ![s] = last_observed[r]]
    /\ held' = [held EXCEPT ![s] = held[r]]
    /\ UNCHANGED <<value, id, sender_alive, wait_for_change, snd, call, result>>

DropReceiver(r) ==
    /\ rpc[r] = "idle"
    /\ receivers_count' = receivers_count - 1
    /\ Goto(r, "dropped")
    /\ UNCHANGED <<value, id, sender_alive, wait_for_change, snd, call,
                   last_observed, held, result>>

-----------------------------------------------------------------------------
\* What a thread does once it is inside a call ...
SenderStep == WriteValue \/ IncrementId \/ LockToNotify \/ NotifyAll
ReceiverStep(r) ==
    \/ CheckAlive(r) \/ ObserveNewId(r) \/ NothingNew(r) \/ WantLock(r)
    \/ LookedTwice(r) \/ Park(r) \/ Lock(r) \/ Reload(r) \/ CloneValue(r)

\* ... and the calls its owner chooses to make.
OwnerStep ==
    \/ Send
    \/ DropSender
    \/ \E r \in Receivers :
        \/ \E c \in {"get", "wait"} : Call(r, c)
        \/ \E s \in Receivers : CloneReceiver(r, s)
        \/ DropReceiver(r)

Next == OwnerStep \/ SenderStep \/ \E r \in Receivers : ReceiverStep(r)

\* A thread inside a call keeps being scheduled; nobody has to start a call.
Fairness ==
    /\ WF_vars(SenderStep)
    /\ \A r \in Receivers : WF_vars(ReceiverStep(r))

SafetySpec == Init /\ [][Next]_vars
Spec == SafetySpec /\ Fairness

-----------------------------------------------------------------------------
(* Properties.                                                             *)

\* Every variable keeps its type, ids and versions staying under the bound.
TypeOK ==
    /\ value \in 1..MaxVersion
    /\ id \in 1..MaxVersion
    /\ wait_for_change \in Receivers \cup {Sender, Nobody}
    /\ receivers_count \in Nat
    /\ sender_alive \in BOOLEAN
    /\ spc \in SenderPC
    /\ refused \in BOOLEAN
    /\ rpc \in [Receivers -> ReceiverPC]
    /\ call \in [Receivers -> {"get", "wait"}]
    /\ last_observed \in [Receivers -> 0..MaxVersion]
    /\ held \in [Receivers -> 0..MaxVersion]
    /\ result \in [Receivers -> Results]

\* No lost wakeup: a receiver asleep on the condition variable although there is
\* a version it has not observed, or although the sender is gone, is only asleep
\* until a notify_all that is already under way (wake_up_threads).
NoLostWakeup ==
    \A r \in Receivers :
        rpc[r] = "parked" /\ (last_observed[r] # id \/ ~sender_alive)
            => spc \in {"lock", "notify"}

\* No skipped version: outside of the gap between recording an id and cloning,
\* a receiver holds a version at least as new as the id it has ticked off, so it
\* never takes a template for old news that it has not been given
\* (get_changed_internal against replace_value).
NeverBehind ==
    \A r \in Receivers : rpc[r] # "clone" => held[r] >= last_observed[r]

\* send() reports a closed channel only when every receiver is really gone, so a
\* refused template means that no worker thread is left.
RefusedMeansNobody == refused => Live = {}

-----------------------------------------------------------------------------
(* Refinement of WatchAbs: a version is published when id is bumped, which *)
(* is when readers can get at it.                                          *)
Asking == [r \in Receivers |->
             IF rpc[r] \in {"unused", "idle", "dropped"} THEN "no" ELSE call[r]]

Abs == INSTANCE WatchAbs WITH
    latest <- id, closed <- ~sender_alive, asking <- Asking, answer <- result

\* The channel delivers the latest version or an honest "nothing new", never an
\* older version than before, and refuses only once the sender is gone.
ImplementsWatch == Abs!AbsSafety

\* Every get_changed returns, and every wait_for_change returns when its receiver
\* does not hold the latest version or the sender is gone.
AnswersOwed == Abs!AbsLiveness
=============================================================================
