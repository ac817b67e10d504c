---------------------------- MODULE Watch_proofs ----------------------------
(***************************************************************************)
(* Proofs about the watch channel, for any number of receivers and any     *)
(* number of versions: its invariants, and that every step of the locks    *)
(* and atomics is a step of WatchAbs or leaves it unchanged.               *)
(***************************************************************************)
EXTENDS Watch, FiniteSetTheorems, TLAPS

-----------------------------------------------------------------------------
(* The inductive invariant, part by part.                                  *)

\* A version is published under the id of the same number; only between the
\* assignment and the bump is the value ahead.
ValueMatchesId ==
    /\ value = IF spc = "increment" THEN id + 1 ELSE id
    /\ spc = "write" => value < MaxVersion

\* The mutex is held by the sender while it notifies, and by a receiver only
\* inside wait_for_change, from its second look or its wakeup to its return.
MutexUse ==
    /\ wait_for_change = Sender <=> spc = "notify"
    /\ \A r \in Receivers :
        /\ wait_for_change = r =>
              /\ call[r] = "wait"
              /\ rpc[r] \in {"check", "load", "sleep", "clone", "recheck", "reload"}
        /\ rpc[r] \in {"sleep", "recheck", "reload"} => wait_for_change = r
        /\ rpc[r] \in {"lock", "parked", "woken"} => call[r] = "wait"

\* The sender still has its wakeup to do when it is only marked dropped.
DropInProgress == ~sender_alive => spc \in {"lock", "notify", "dropped"}

\* A receiver about to wait has seen the sender alive and no new id under the
\* mutex, so a sender that has changed either since is still queueing for it.
NoLateLook ==
    \A r \in Receivers : wait_for_change = r =>
        /\ rpc[r] \in {"load", "sleep"} /\ ~sender_alive => spc = "lock"
        /\ rpc[r] = "sleep" /\ last_observed[r] # id => spc = "lock"

\* No receiver runs ahead of the published id.
NotAhead ==
    \A r \in Receivers :
        /\ last_observed[r] <= id
        /\ held[r] <= id
        /\ rpc[r] = "unused" => held[r] = 0

CountIsLive == receivers_count = Cardinality(Live)

IInv ==
    /\ TypeOK
    /\ ValueMatchesId
    /\ MutexUse
    /\ DropInProgress
    /\ NoLateLook
    /\ NoLostWakeup
    /\ NotAhead
    /\ NeverBehind
    /\ CountIsLive
    /\ RefusedMeansNobody

-----------------------------------------------------------------------------
(* Counting the live receivers.                                            *)

\* The set of live receivers is finite, and its size is a number.
LEMMA LiveFinite == IsFiniteSet(Live) /\ Cardinality(Live) \in Nat
  BY WatchAssumption, FS_Subset, FS_CardinalityType DEF Live

\* A step that leaves the live receivers, their count and refused alone keeps the
\* last two parts of the invariant.
LEMMA SameLive ==
  ASSUME CountIsLive, RefusedMeansNobody, UNCHANGED <<receivers_count, refused>>,
         Live' = Live
  PROVE  CountIsLive' /\ RefusedMeansNobody'
  BY DEF CountIsLive, RefusedMeansNobody

\* Moving a live receiver to another live place does not change the live set.
LEMMA GotoLive ==
  ASSUME TypeOK, NEW r \in Live, NEW w \in ReceiverPC \ {"unused", "dropped"},
         Goto(r, w)
  PROVE  Live' = Live
  BY DEF TypeOK, Live, Goto, ReceiverPC

-----------------------------------------------------------------------------
\* The initial state satisfies the inductive invariant.
LEMMA InitIInv == Init => IInv
<1> SUFFICES ASSUME Init PROVE IInv
  OBVIOUS
<1>1. Live = {FirstReceiver}
  BY WatchAssumption DEF Init, Live
<1>2. CountIsLive /\ RefusedMeansNobody
  BY <1>1, FS_Singleton DEF Init, CountIsLive, RefusedMeansNobody
<1>3. TypeOK
  <2>1. rpc \in [Receivers -> ReceiverPC]
    BY DEF Init, ReceiverPC
  <2>2. result \in [Receivers -> Results]
    BY DEF Init, Results
  <2>3. 1 \in 1..MaxVersion /\ 0 \in 0..MaxVersion
    BY WatchAssumption
  <2> QED
    BY <2>1, <2>2, <2>3 DEF Init, TypeOK, SenderPC
<1>4. MutexUse
  BY WatchAssumption DEF Init, MutexUse
<1>5. ValueMatchesId /\ DropInProgress /\ NoLateLook /\ NoLostWakeup
  BY WatchAssumption DEF Init, ValueMatchesId, DropInProgress, NoLateLook, NoLostWakeup
<1>6. NotAhead /\ NeverBehind
  BY DEF Init, NotAhead, NeverBehind
<1> QED
  BY <1>2, <1>3, <1>4, <1>5, <1>6 DEF IInv

\* Every step of the sender and of its owner preserves the inductive invariant.
LEMMA SenderIInv ==
  ASSUME IInv, Send \/ DropSender \/ SenderStep
  PROVE  IInv'
<1> USE WatchAssumption DEF IInv, chan, snd, rcv
<1>1. CASE Send
  <2>1. Live' = Live
    BY <1>1 DEF Send, Live
  <2>2. refused' => Live = {}
    BY <1>1, LiveFinite, FS_EmptySet DEF Send, CountIsLive
  <2> QED
    BY <1>1, <2>1, <2>2 DEF Send, TypeOK, SenderPC, ValueMatchesId, MutexUse,
       DropInProgress, NoLateLook, NoLostWakeup, NotAhead, NeverBehind, CountIsLive,
       RefusedMeansNobody
<1>2. CASE DropSender
  <2>1. Live' = Live
    BY <1>2 DEF DropSender, Live
  <2> QED
    BY <1>2, <2>1, SameLive DEF DropSender, TypeOK, SenderPC, ValueMatchesId, MutexUse,
       DropInProgress, NoLateLook, NoLostWakeup, NotAhead, NeverBehind
<1>3. CASE WriteValue
  <2>1. Live' = Live
    BY <1>3 DEF WriteValue, Live
  <2> QED
    BY <1>3, <2>1, SameLive DEF WriteValue, TypeOK, SenderPC, ValueMatchesId, MutexUse,
       DropInProgress, NoLateLook, NoLostWakeup, NotAhead, NeverBehind
<1>4. CASE IncrementId
  <2>1. Live' = Live
    BY <1>4 DEF IncrementId, Live
  <2> QED
    BY <1>4, <2>1, SameLive DEF IncrementId, TypeOK, SenderPC, ValueMatchesId, MutexUse,
       DropInProgress, NoLateLook, NoLostWakeup, NotAhead, NeverBehind
<1>5. CASE LockToNotify
  <2>1. Live' = Live
    BY <1>5 DEF LockToNotify, Live
  <2> QED
    BY <1>5, <2>1, SameLive DEF LockToNotify, TypeOK, SenderPC, ValueMatchesId, MutexUse,
       DropInProgress, NoLateLook, NoLostWakeup, NotAhead, NeverBehind
<1>6. CASE NotifyAll
  <2>1. Live' = Live
    BY <1>6 DEF NotifyAll, Live, TypeOK
  <2> QED
    BY <1>6, <2>1, SameLive DEF NotifyAll, TypeOK, SenderPC, ReceiverPC, ValueMatchesId,
       MutexUse, DropInProgress, NoLateLook, NoLostWakeup, NotAhead, NeverBehind
<1> QED
  BY <1>1, <1>2, <1>3, <1>4, <1>5, <1>6 DEF SenderStep

\* Every call, clone and drop of a receiver preserves it.
LEMMA OwnerIInv ==
  ASSUME IInv, NEW r \in Receivers,
         \/ \E c \in {"get", "wait"} : Call(r, c)
         \/ \E s \in Receivers : CloneReceiver(r, s)
         \/ DropReceiver(r)
  PROVE  IInv'
<1> USE WatchAssumption DEF IInv, chan, snd
<1>1. ASSUME NEW c \in {"get", "wait"}, Call(r, c) PROVE IInv'
  <2>1. Live' = Live
    BY <1>1, GotoLive DEF Call, Live, ReceiverPC
  <2> QED
    BY <1>1, <2>1, SameLive DEF Call, Goto, TypeOK, ReceiverPC, ValueMatchesId, MutexUse,
       DropInProgress, NoLateLook, NoLostWakeup, NotAhead, NeverBehind
<1>2. ASSUME NEW s \in Receivers, CloneReceiver(r, s) PROVE IInv'
  <2>1. Live' = Live \cup {s} /\ s \notin Live /\ r \in Live
    BY <1>2 DEF CloneReceiver, Goto, TypeOK, Live
  <2>2. CountIsLive'
    BY <1>2, <2>1, LiveFinite, FS_AddElement DEF CloneReceiver, CountIsLive
  <2>3. RefusedMeansNobody'
    BY <1>2, <2>1 DEF CloneReceiver, RefusedMeansNobody
  <2> QED
    BY <1>2, <2>2, <2>3 DEF CloneReceiver, Goto, TypeOK, ReceiverPC, ValueMatchesId,
       MutexUse, DropInProgress, NoLateLook, NoLostWakeup, NotAhead, NeverBehind
<1>3. CASE DropReceiver(r)
  <2>1. Live' = Live \ {r} /\ r \in Live
    BY <1>3 DEF DropReceiver, Goto, TypeOK, Live
  <2>2. Cardinality(Live') = Cardinality(Live) - 1 /\ Cardinality(Live') \in Nat
    BY <2>1, LiveFinite, FS_RemoveElement, FS_CardinalityType
  <2>3. CountIsLive' /\ receivers_count' \in Nat
    BY <1>3, <2>2 DEF DropReceiver, CountIsLive
  <2>4. RefusedMeansNobody'
    BY <1>3, <2>1 DEF DropReceiver, RefusedMeansNobody
  <2> QED
    BY <1>3, <2>3, <2>4 DEF DropReceiver, Goto, TypeOK, ReceiverPC, ValueMatchesId,
       MutexUse, DropInProgress, NoLateLook, NoLostWakeup, NotAhead, NeverBehind
<1> QED
  BY <1>1, <1>2, <1>3

\* A receiver inside a call stays live through each of its steps.
LEMMA ReceiverStaysLive ==
  ASSUME TypeOK, NEW r \in Receivers, ReceiverStep(r)
  PROVE  Live' = Live
<1> USE DEF Live, ReceiverPC, Return
<1>1. CASE CheckAlive(r)   BY <1>1, GotoLive DEF CheckAlive
<1>2. CASE ObserveNewId(r) BY <1>2, GotoLive DEF ObserveNewId
<1>3. CASE NothingNew(r)   BY <1>3, GotoLive DEF NothingNew
<1>4. CASE WantLock(r)     BY <1>4, GotoLive DEF WantLock
<1>5. CASE Park(r)         BY <1>5, GotoLive DEF Park
<1>6. CASE Lock(r)         BY <1>6, GotoLive DEF Lock
<1>7. CASE Reload(r)       BY <1>7, GotoLive DEF Reload
<1>8. CASE CloneValue(r)   BY <1>8, GotoLive DEF CloneValue
<1>9. CASE LookedTwice(r)  BY <1>9, GotoLive DEF LookedTwice
<1> QED BY <1>1, <1>2, <1>3, <1>4, <1>5, <1>6, <1>7, <1>8, <1>9 DEF ReceiverStep

\* Every step of a receiver inside a call preserves the inductive invariant.
LEMMA ReceiverIInv ==
  ASSUME IInv, NEW r \in Receivers, ReceiverStep(r)
  PROVE  IInv'
<1> USE WatchAssumption DEF IInv
<1>0. CountIsLive' /\ RefusedMeansNobody'
  BY ReceiverStaysLive, SameLive
  DEF ReceiverStep, CheckAlive, ObserveNewId, NothingNew, WantLock, LookedTwice, Park,
      Lock, Reload, CloneValue, chan, snd
<1> USE DEF chan, snd, Goto, Return
<1>1. CASE CheckAlive(r)
  BY <1>0, <1>1 DEF CheckAlive, TypeOK, ReceiverPC, Results, ValueMatchesId,
     MutexUse, DropInProgress, NoLateLook, NoLostWakeup, NotAhead, NeverBehind
<1>2. CASE ObserveNewId(r)
  BY <1>0, <1>2 DEF ObserveNewId, TypeOK, ReceiverPC, ValueMatchesId,
     MutexUse, DropInProgress, NoLateLook, NoLostWakeup, NotAhead, NeverBehind
<1>3. CASE NothingNew(r)
  BY <1>0, <1>3 DEF NothingNew, TypeOK, ReceiverPC, Results, ValueMatchesId,
     MutexUse, DropInProgress, NoLateLook, NoLostWakeup, NotAhead, NeverBehind
<1>4. CASE WantLock(r)
  BY <1>0, <1>4 DEF WantLock, TypeOK, ReceiverPC, ValueMatchesId,
     MutexUse, DropInProgress, NoLateLook, NoLostWakeup, NotAhead, NeverBehind
<1>5. CASE Park(r)
  BY <1>0, <1>5 DEF Park, TypeOK, ReceiverPC, ValueMatchesId,
     MutexUse, DropInProgress, NoLateLook, NoLostWakeup, NotAhead, NeverBehind
<1>6. CASE Lock(r)
  BY <1>0, <1>6 DEF Lock, TypeOK, ReceiverPC, ValueMatchesId,
     MutexUse, DropInProgress, NoLateLook, NoLostWakeup, NotAhead, NeverBehind
<1>7. CASE Reload(r)
  BY <1>0, <1>7 DEF Reload, TypeOK, ReceiverPC, ValueMatchesId,
     MutexUse, DropInProgress, NoLateLook, NoLostWakeup, NotAhead, NeverBehind
<1>8. CASE CloneValue(r)
  BY <1>0, <1>8 DEF CloneValue, WriteLocked, TypeOK, ReceiverPC, Results, ValueMatchesId,
     MutexUse, DropInProgress, NoLateLook, NoLostWakeup, NotAhead, NeverBehind
<1>9. CASE LookedTwice(r)
  BY <1>0, <1>9 DEF LookedTwice, TypeOK, ReceiverPC, ValueMatchesId,
     MutexUse, DropInProgress, NoLateLook, NoLostWakeup, NotAhead, NeverBehind
<1> QED
  BY <1>1, <1>2, <1>3, <1>4, <1>5, <1>6, <1>7, <1>8, <1>9 DEF ReceiverStep

\* The inductive invariant holds in every reachable state.
THEOREM Invariance == SafetySpec => []IInv
<1>1. ASSUME IInv, [Next]_vars PROVE IInv'
  <2>1. CASE UNCHANGED vars
    BY <1>1, <2>1 DEF vars, IInv, TypeOK, ValueMatchesId, MutexUse, DropInProgress,
       NoLateLook, NoLostWakeup, NotAhead, NeverBehind, CountIsLive, RefusedMeansNobody,
       Live
  <2>2. CASE Next
    BY <1>1, <2>2, SenderIInv, OwnerIInv, ReceiverIInv DEF Next, OwnerStep
  <2> QED BY <1>1, <2>1, <2>2
<1> QED BY InitIInv, <1>1, PTL DEF SafetySpec

-----------------------------------------------------------------------------
(* What follows for every reachable state and every step.                  *)

\* Type correctness.
THEOREM TypeCorrect == SafetySpec => []TypeOK
  BY Invariance, PTL DEF IInv

\* No receiver sleeps through a version or through the end of the channel: the
\* mutex that wake_up_threads takes closes the gap between look and wait.
THEOREM LostWakeupFree == SafetySpec => []NoLostWakeup
  BY Invariance, PTL DEF IInv

\* A receiver never ticks off an id whose version it was not handed.
THEOREM NeverSkips == SafetySpec => []NeverBehind
  BY Invariance, PTL DEF IInv

\* A send is refused only when every receiver is gone.
THEOREM RefusalIsFinal == SafetySpec => []RefusedMeansNobody
  BY Invariance, PTL DEF IInv

-----------------------------------------------------------------------------
(* Every step is one of WatchAbs, or does not show there.                  *)

AbsDone(r) == Asking' = [Asking EXCEPT ![r] = "no"]

\* A return ends the call r is asking in.
LEMMA ReturnDone ==
  ASSUME TypeOK, NEW r \in Receivers, NEW how, Return(r, how), UNCHANGED call
  PROVE  AbsDone(r)
  BY DEF TypeOK, Return, Goto, Asking, AbsDone

\* Moving inside a call does not show.
LEMMA GotoInside ==
  ASSUME TypeOK, NEW r \in Receivers, NEW w, Goto(r, w), UNCHANGED call,
         rpc[r] \notin {"unused", "idle", "dropped"}, w \notin {"unused", "idle", "dropped"}
  PROVE  Asking' = Asking
  BY DEF TypeOK, Goto, Asking

\* The steps of the sender: the bump of id publishes, the drop closes.
LEMMA SenderRefines ==
  ASSUME IInv, Send \/ DropSender \/ SenderStep
  PROVE  [Abs!Next]_(Abs!absVars)
<1> USE DEF chan, snd, rcv, Abs!absVars
<1>1. CASE Send \/ WriteValue \/ LockToNotify
  BY <1>1 DEF Send, WriteValue, LockToNotify, Asking
<1>2. CASE DropSender
  <2>1. sender_alive
    BY <1>2 DEF IInv, DropInProgress, DropSender
  <2>2. Abs!Close
    BY <1>2, <2>1 DEF DropSender, Abs!Close, Asking
  <2> QED BY <2>2 DEF Abs!Next
<1>3. CASE IncrementId
  <2>1. sender_alive /\ id < MaxVersion
    BY <1>3, WatchAssumption DEF IInv, DropInProgress, IncrementId, TypeOK, ValueMatchesId
  <2>2. Abs!Publish
    BY <1>3, <2>1 DEF IncrementId, Abs!Publish, Asking
  <2> QED BY <2>2 DEF Abs!Next
<1>4. CASE NotifyAll
  <2>1. Asking' = Asking
    BY <1>4 DEF NotifyAll, Asking, IInv, TypeOK
  <2> QED BY <1>4, <2>1 DEF NotifyAll
<1> QED
  BY <1>1, <1>2, <1>3, <1>4 DEF SenderStep

\* The steps of an owner: a call asks, a clone copies, a drop does not show.
LEMMA OwnerRefines ==
  ASSUME IInv, NEW r \in Receivers,
         \/ \E c \in {"get", "wait"} : Call(r, c)
         \/ \E s \in Receivers : CloneReceiver(r, s)
         \/ DropReceiver(r)
  PROVE  [Abs!Next]_(Abs!absVars)
<1> USE DEF chan, snd, Goto, Abs!absVars
<1>1. ASSUME NEW c \in {"get", "wait"}, Call(r, c) PROVE Abs!Next
  <2>1. Asking[r] = "no" /\ Asking' = [Asking EXCEPT ![r] = c]
    BY <1>1 DEF Call, Asking, IInv, TypeOK
  <2>2. Abs!Ask(r, c)
    BY <1>1, <2>1 DEF Call, Abs!Ask
  <2> QED BY <2>2 DEF Abs!Next
<1>2. ASSUME NEW s \in Receivers, CloneReceiver(r, s) PROVE Abs!Next
  <2>1. Asking[r] = "no" /\ Asking[s] = "no" /\ Asking' = Asking
    BY <1>2 DEF CloneReceiver, Asking, IInv, TypeOK
  <2>2. Abs!Copy(r, s)
    BY <1>2, <2>1 DEF CloneReceiver, Abs!Copy, IInv, NotAhead
  <2> QED BY <2>2 DEF Abs!Next
<1>3. CASE DropReceiver(r)
  <2>1. Asking' = Asking
    BY <1>3 DEF DropReceiver, Asking, IInv, TypeOK
  <2> QED BY <1>3, <2>1 DEF DropReceiver
<1> QED
  BY <1>1, <1>2, <1>3

\* The steps of a receiver inside a call: each return answers, honestly.
LEMMA ReceiverRefines ==
  ASSUME IInv, NEW r \in Receivers, ReceiverStep(r)
  PROVE  [Abs!Next]_(Abs!absVars)
<1> USE DEF chan, snd, Abs!absVars
<1>0. TypeOK
  BY DEF IInv
<1>1. CASE CheckAlive(r) /\ sender_alive
  <2>1. Asking' = Asking
    BY <1>0, <1>1, GotoInside DEF CheckAlive
  <2> QED BY <1>1, <2>1 DEF CheckAlive
<1>2. CASE CheckAlive(r) /\ ~sender_alive
  <2>1. AbsDone(r) /\ Asking[r] # "no"
    BY <1>0, <1>2, ReturnDone DEF CheckAlive, Asking, TypeOK
  <2>2. Abs!Refuse(r)
    BY <1>2, <2>1 DEF CheckAlive, Return, AbsDone, Abs!Refuse, Abs!Answer
  <2> QED BY <2>2 DEF Abs!Next
<1>3. CASE NothingNew(r)
  <2>1. AbsDone(r) /\ Asking[r] = "get"
    BY <1>0, <1>3, ReturnDone DEF NothingNew, Asking
  <2>2. held[r] = id
    BY <1>0, <1>3 DEF NothingNew, IInv, NotAhead, NeverBehind, TypeOK
  <2>3. Abs!Nothing(r)
    BY <1>3, <2>1, <2>2 DEF NothingNew, Return, AbsDone, Abs!Nothing, Abs!Answer
  <2> QED BY <2>3 DEF Abs!Next
<1>4. CASE CloneValue(r)
  <2>1. AbsDone(r) /\ Asking[r] # "no"
    BY <1>0, <1>4, ReturnDone DEF CloneValue, Asking, TypeOK
  <2>2. value = id
    BY <1>4 DEF CloneValue, WriteLocked, IInv, ValueMatchesId
  <2>3. Abs!Deliver(r)
    BY <1>4, <2>1, <2>2 DEF CloneValue, Return, AbsDone, Abs!Deliver, Abs!Answer
  <2> QED BY <2>3 DEF Abs!Next
<1>5. CASE ObserveNewId(r) \/ WantLock(r) \/ LookedTwice(r) \/ Park(r) \/ Lock(r)
              \/ Reload(r)
  <2>1. Asking' = Asking
    BY <1>0, <1>5, GotoInside DEF ObserveNewId, WantLock, LookedTwice, Park, Lock, Reload
  <2> QED BY <1>5, <2>1 DEF ObserveNewId, WantLock, LookedTwice, Park, Lock, Reload
<1> QED
  BY <1>1, <1>2, <1>3, <1>4, <1>5 DEF ReceiverStep

\* The channel implements its abstract specification, liveness left aside.
THEOREM Refinement == SafetySpec => ImplementsWatch
<1>1. Init => Abs!Init
  BY WatchAssumption DEF Init, Abs!Init, Asking
<1>2. ASSUME IInv, [Next]_vars PROVE [Abs!Next]_(Abs!absVars)
  <2>1. CASE UNCHANGED vars
    BY <2>1 DEF vars, Abs!absVars, Asking
  <2>2. CASE Next
    BY <1>2, <2>2, SenderRefines, OwnerRefines, ReceiverRefines DEF Next, OwnerStep
  <2> QED BY <1>2, <2>1, <2>2
<1> QED BY <1>1, <1>2, Invariance, PTL DEF SafetySpec, ImplementsWatch, Abs!AbsSafety

-----------------------------------------------------------------------------
(* The safety core of AnswersOwed: among the threads inside a call there   *)
(* is one that is not blocked, and a call is over after a bounded number   *)
(* of steps of its own, whatever the others do.                            *)

Threads == Receivers \cup {Sender}

\* A thread that has something left to do: the sender inside send or drop, a
\* receiver inside a call, unless it sleeps and is owed nothing.
InCall(t) ==
    IF t = Sender
    THEN spc \notin {"idle", "dropped"}
    ELSE /\ rpc[t] \notin {"unused", "idle", "dropped"}
         /\ rpc[t] = "parked" => Abs!Owed(t)

\* The guards of SenderStep and of ReceiverStep, written out.
CanStep(t) ==
    IF t = Sender
    THEN \/ spc \in {"write", "increment", "notify"}
         \/ spc = "lock" /\ wait_for_change = Nobody
    ELSE \/ rpc[t] \in {"check", "recheck", "load", "reload", "sleep"}
         \/ rpc[t] \in {"lock", "woken"} /\ wait_for_change = Nobody
         \/ rpc[t] = "clone" /\ ~WriteLocked

\* The mutex, the RwLock and the condition variable never hold each other up: as
\* long as anybody has something left to do, somebody can do it.  In particular
\* the last receiver asleep with news outstanding has a sender on its way.
NoDeadlock == (\E t \in Threads : InCall(t)) => \E t \in Threads : CanStep(t)

\* How many steps of its own a thread is from the end of its call, at most.
StepsLeft(t) ==
    IF t = Sender
    THEN CASE spc = "write"     -> 4
           [] spc = "increment" -> 3
           [] spc = "lock"      -> 2
           [] spc = "notify"    -> 1
           [] OTHER             -> 0
    ELSE CASE rpc[t] = "check"   -> IF wait_for_change = t THEN 8 ELSE 11
           [] rpc[t] = "load"    -> IF wait_for_change = t THEN 7 ELSE 10
           [] rpc[t] = "lock"    -> 9
           [] rpc[t] = "sleep"   -> 6
           [] rpc[t] = "parked"  -> 5
           [] rpc[t] = "woken"   -> 4
           [] rpc[t] = "recheck" -> 3
           [] rpc[t] = "reload"  -> 2
           [] rpc[t] = "clone"   -> 1
           [] OTHER              -> 0

\* A call is over after at most eleven steps of the thread in it: each of them
\* brings it nearer to its end, and no step of another thread sends it back to
\* look, lock or wait again, however many versions are sent meanwhile.
CallsAreShort ==
    [][ /\ SenderStep => StepsLeft(Sender)' < StepsLeft(Sender)
        /\ \A r \in Receivers : ReceiverStep(r) => StepsLeft(r)' < StepsLeft(r)
        /\ \A t \in Threads : StepsLeft(t) > 0 => StepsLeft(t)' <= StepsLeft(t) ]_vars

\* Whoever holds the mutex is not blocked, or waits for a write lock whose holder
\* is not.
LEMMA HolderMoves ==
  ASSUME IInv, wait_for_change # Nobody
  PROVE  \E t \in Threads : CanStep(t)
<1> USE WatchAssumption DEF IInv, TypeOK, MutexUse, Threads, CanStep
<1>1. CASE wait_for_change = Sender
  <2>1. CanStep(Sender)   BY <1>1
  <2> QED BY <2>1
<1>2. CASE WriteLocked
  <2>1. CanStep(Sender)   BY <1>2 DEF WriteLocked
  <2> QED BY <2>1
<1>3. ASSUME NEW r \in Receivers, wait_for_change = r, ~WriteLocked
      PROVE  CanStep(r)
  BY <1>3
<1> QED BY <1>1, <1>2, <1>3

\* A sender that has its wakeup to do is not blocked, or somebody else is not.
LEMMA NotifierMoves ==
  ASSUME IInv, spc \in {"lock", "notify"}
  PROVE  \E t \in Threads : CanStep(t)
<1>1. CASE wait_for_change # Nobody
  BY <1>1, HolderMoves
<1>2. CASE wait_for_change = Nobody
  <2>1. CanStep(Sender)   BY <1>2 DEF CanStep
  <2> QED BY <2>1 DEF Threads
<1> QED BY <1>1, <1>2

\* Nobody is left waiting for somebody who waits as well.
THEOREM DeadlockFree == SafetySpec => []NoDeadlock
<1>1. ASSUME IInv PROVE NoDeadlock
  <2> SUFFICES ASSUME NEW t \in Threads, InCall(t) PROVE \E u \in Threads : CanStep(u)
    BY DEF NoDeadlock
  <2>1. CASE CanStep(t)
    BY <2>1
  <2>2. CASE t = Sender /\ ~CanStep(t)
    BY <1>1, <2>2, NotifierMoves DEF InCall, CanStep, IInv, TypeOK, SenderPC
  <2>3. CASE t \in Receivers /\ rpc[t] = "parked"
    <3>1. Abs!Owed(t) /\ call[t] = "wait"
      BY <1>1, <2>3, WatchAssumption DEF InCall, IInv, MutexUse
    <3>2. last_observed[t] # id \/ ~sender_alive
      BY <1>1, <2>3, <3>1 DEF Abs!Owed, Asking, IInv, TypeOK, NotAhead, NeverBehind
    <3> QED BY <1>1, <2>3, <3>2, NotifierMoves DEF IInv, NoLostWakeup
  <2>4. CASE t \in Receivers /\ rpc[t] \in {"lock", "woken"} /\ ~CanStep(t)
    BY <1>1, <2>4, WatchAssumption, HolderMoves DEF CanStep
  <2>5. CASE t \in Receivers /\ rpc[t] = "clone" /\ ~CanStep(t)
    <3>1. CanStep(Sender)
      BY <2>5, WatchAssumption DEF CanStep, WriteLocked
    <3> QED BY <3>1 DEF Threads
  <2> QED
    BY <1>1, <2>1, <2>2, <2>3, <2>4, <2>5, WatchAssumption
    DEF InCall, CanStep, Threads, IInv, TypeOK, ReceiverPC
<1> QED BY <1>1, Invariance, PTL

\* A receiver's own step brings it nearer to the end of its call, and moves no
\* other thread.
LEMMA ReceiverNearer ==
  ASSUME IInv, NEW r \in Receivers, ReceiverStep(r)
  PROVE  /\ StepsLeft(r)' < StepsLeft(r)
         /\ \A t \in Threads \ {r} : StepsLeft(t)' = StepsLeft(t)
<1> USE WatchAssumption DEF IInv, TypeOK, MutexUse, Threads, StepsLeft, Goto, Return, snd
<1>1. CASE CheckAlive(r)    BY <1>1 DEF CheckAlive
<1>2. CASE ObserveNewId(r)  BY <1>2 DEF ObserveNewId
<1>3. CASE NothingNew(r)    BY <1>3 DEF NothingNew
<1>4. CASE WantLock(r)      BY <1>4 DEF WantLock
<1>5. CASE LookedTwice(r)   BY <1>5 DEF LookedTwice
<1>6. CASE Park(r)          BY <1>6 DEF Park
<1>7. CASE Lock(r)          BY <1>7 DEF Lock
<1>8. CASE Reload(r)        BY <1>8 DEF Reload
<1>9. CASE CloneValue(r)    BY <1>9 DEF CloneValue
<1> QED BY <1>1, <1>2, <1>3, <1>4, <1>5, <1>6, <1>7, <1>8, <1>9 DEF ReceiverStep

\* So does the sender's, which may also wake the receivers.
LEMMA SenderNearer ==
  ASSUME IInv, SenderStep
  PROVE  /\ StepsLeft(Sender)' < StepsLeft(Sender)
         /\ \A r \in Receivers : StepsLeft(r)' <= StepsLeft(r)
<1> USE WatchAssumption DEF IInv, TypeOK, MutexUse, StepsLeft, rcv
<1>1. CASE WriteValue    BY <1>1 DEF WriteValue
<1>2. CASE IncrementId   BY <1>2 DEF IncrementId
<1>3. CASE LockToNotify  BY <1>3 DEF LockToNotify
<1>4. CASE NotifyAll     BY <1>4 DEF NotifyAll
<1> QED BY <1>1, <1>2, <1>3, <1>4 DEF SenderStep

\* A call that is made or a handle that is cloned or dropped is none of the
\* business of the threads inside a call.
LEMMA OwnerNotNearer ==
  ASSUME IInv, OwnerStep
  PROVE  \A t \in Threads : StepsLeft(t) > 0 => StepsLeft(t)' = StepsLeft(t)
<1> USE WatchAssumption DEF IInv, TypeOK, Threads, StepsLeft, Goto, snd, rcv
<1>1. CASE Send        BY <1>1 DEF Send
<1>2. CASE DropSender  BY <1>2 DEF DropSender
<1>3. ASSUME NEW r \in Receivers, NEW c \in {"get", "wait"}, Call(r, c)
      PROVE  \A t \in Threads : StepsLeft(t) > 0 => StepsLeft(t)' = StepsLeft(t)
  BY <1>3 DEF Call
<1>4. ASSUME NEW r \in Receivers, NEW s \in Receivers, CloneReceiver(r, s)
      PROVE  \A t \in Threads : StepsLeft(t) > 0 => StepsLeft(t)' = StepsLeft(t)
  BY <1>4 DEF CloneReceiver
<1>5. ASSUME NEW r \in Receivers, DropReceiver(r)
      PROVE  \A t \in Threads : StepsLeft(t) > 0 => StepsLeft(t)' = StepsLeft(t)
  BY <1>5 DEF DropReceiver
<1> QED BY <1>1, <1>2, <1>3, <1>4, <1>5 DEF OwnerStep

\* Every call is over after a bounded number of steps of the thread inside it.
THEOREM CallsEnd == SafetySpec => CallsAreShort
<1> DEFINE Nearer == /\ SenderStep => StepsLeft(Sender)' < StepsLeft(Sender)
                     /\ \A r \in Receivers : ReceiverStep(r) => StepsLeft(r)' < StepsLeft(r)
                     /\ \A t \in Threads : StepsLeft(t) > 0 => StepsLeft(t)' <= StepsLeft(t)
<1>1. ASSUME NEW t \in Threads PROVE StepsLeft(t) \in Nat /\ StepsLeft(t)' \in Nat
  BY DEF StepsLeft
<1>2. ASSUME IInv, Next PROVE \A t \in Threads : StepsLeft(t) > 0 => StepsLeft(t)' <= StepsLeft(t)
  <2>1. CASE OwnerStep
    BY <1>1, <1>2, <2>1, OwnerNotNearer
  <2>2. CASE SenderStep
    BY <1>1, <1>2, <2>2, SenderNearer DEF Threads
  <2>3. ASSUME NEW r \in Receivers, ReceiverStep(r)
        PROVE  \A t \in Threads : StepsLeft(t)' <= StepsLeft(t)
    BY <1>1, <1>2, <2>3, ReceiverNearer DEF Threads
  <2> QED BY <1>2, <2>1, <2>2, <2>3 DEF Next
<1>3. ASSUME IInv, [Next]_vars PROVE [Nearer]_vars
  BY <1>2, <1>3, SenderNearer, ReceiverNearer
<1> QED BY <1>3, Invariance, PTL DEF SafetySpec, CallsAreShort
=============================================================================
