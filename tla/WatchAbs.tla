------------------------------ MODULE WatchAbs ------------------------------
(***************************************************************************)
(* What the watch channel of src/watch.rs promises, without its locks: one *)
(* sender publishes versions of a value, receivers pick up the latest one, *)
(* versions may be skipped, and closing the channel is noticed by every    *)
(* receiver that asks.  A delivery may repeat the version a receiver holds *)
(* (the detailed channel does that), but a call that waits is owed an      *)
(* answer only when there is something new, or nothing more to come.       *)
(***************************************************************************)
EXTENDS Naturals

CONSTANTS
    Receivers,      \* receiver handles that may ever exist
    FirstReceiver,  \* the one channel() returns
    MaxVersion      \* bound on the versions published

VARIABLES
    latest,   \* the version a delivery hands out; channel(init) is version 1
    closed,   \* the sender is gone
    asking,   \* asking[r]: the call r is inside: "no", "get" or "wait"
    held,     \* held[r]: the version last handed to r, 0 for none
    answer    \* answer[r]: how r's last call ended

absVars == <<latest, closed, asking, held, answer>>

Init ==
    /\ latest = 1
    /\ closed = FALSE
    /\ asking = [r \in Receivers |-> "no"]
    /\ held   = [r \in Receivers |-> 0]
    /\ answer = [r \in Receivers |-> "none"]

Publish ==
    /\ ~closed
    /\ latest < MaxVersion
    /\ latest' = latest + 1
    /\ UNCHANGED <<closed, asking, held, answer>>

Close ==
    /\ ~closed
    /\ closed' = TRUE
    /\ UNCHANGED <<latest, asking, held, answer>>

Ask(r, call) ==
    /\ asking[r] = "no"
    /\ asking' = [asking EXCEPT ![r] = call]
    /\ UNCHANGED <<latest, closed, held, answer>>

Answer(r, a) ==
    /\ asking[r] # "no"
    /\ asking' = [asking EXCEPT ![r] = "no"]
    /\ answer' = [answer EXCEPT ![r] = a]

\* A call hands out the latest version, never an older one.
Deliver(r) ==
    /\ Answer(r, "value")
    /\ held' = [held EXCEPT ![r] = latest]
    /\ UNCHANGED <<latest, closed>>

\* Only get_changed may say "nothing new", and only when that is so.
Nothing(r) ==
    /\ asking[r] = "get"
    /\ held[r] = latest
    /\ Answer(r, "nothing")
    /\ UNCHANGED <<latest, closed, held>>

Refuse(r) ==
    /\ closed
    /\ Answer(r, "closed")
    /\ UNCHANGED <<latest, closed, held>>

\* A clone starts as up to date as the handle it copies.
Copy(r, s) ==
    /\ asking[r] = "no"
    /\ asking[s] = "no"
    /\ held[s] = 0
    /\ held' = [held EXCEPT ![s] = held[r]]
    /\ UNCHANGED <<latest, closed, asking, answer>>

Next ==
    \/ Publish
    \/ Close
    \/ \E r \in Receivers :
        \/ \E call \in {"get", "wait"} : Ask(r, call)
        \/ Deliver(r)
        \/ Nothing(r)
        \/ Refuse(r)
        \/ \E s \in Receivers : Copy(r, s)

AbsSafety == Init /\ [][Next]_absVars

\* A caller is owed an answer when it does not hold the latest version, when
\* the channel is closed, or when it did not ask to wait.
Owed(r) == asking[r] = "get" \/ held[r] # latest \/ closed
Serve(r) == Owed(r) /\ (Deliver(r) \/ Nothing(r) \/ Refuse(r))

AbsLiveness == \A r \in Receivers : WF_absVars(Serve(r))
=============================================================================
