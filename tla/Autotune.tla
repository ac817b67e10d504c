------------------------------ MODULE Autotune ------------------------------
(***************************************************************************)
(* The power-limit autotuner of one CUDA GPU (plugins/cuda/src/autotune.rs)*)
(* and its life with the worker that owns the AutotuneHandle: every worker *)
(* that is built spawns an autotuner, which starts from the limit the last *)
(* one left on the device.                                                 *)
(*                                                                         *)
(* Power limits are natural numbers in one unit.  The device is external:  *)
(* it applies a limit or refuses to, and its efficiency (hashrate over     *)
(* power) is anything at all, unless the behaviour is calm: then nothing   *)
(* fails and the efficiency depends on the limit alone, by one of Curves.  *)
(***************************************************************************)
EXTENDS Integers

CONSTANTS
    HwMin, HwMax,        \* power_management_limit_constraints
    MinPower, MaxPower,  \* AutotuneConfig's min_power_w and max_power_w, 0 for None
    Step,                \* step_w
    MaxErrors,           \* failed sets in a row after which the autotuner quits (5)
    Curves               \* efficiency by limit, in calm behaviours

ASSUME AutotuneAssumption ==
    /\ HwMin \in Nat /\ HwMax \in Nat /\ HwMin <= HwMax
    /\ MinPower \in Nat /\ MaxPower \in Nat
    /\ Step \in Nat \ {0}
    /\ MaxErrors \in Nat \ {0}
    /\ Curves # {} /\ Curves \subseteq [HwMin..HwMax -> Nat]

Larger(a, b)  == IF a >= b THEN a ELSE b
Smaller(a, b) == IF a <= b THEN a ELSE b

hard_min == Larger(IF MinPower = 0 THEN HwMin ELSE MinPower, HwMin)
hard_max == Smaller(IF MaxPower = 0 THEN HwMax ELSE MaxPower, HwMax)
ClampToHardware(l) == Larger(HwMin, Smaller(l, HwMax))   \* faulty: see BoundsRespected
Clamp(l) == Larger(hard_min, Smaller(l, hard_max))

None == -1     \* best_score before the first score, and after an overheat

VARIABLES
    device,             \* the limit in force on the GPU
    calm, curve,        \* the world outside, see above
    handle,             \* the worker's AutotuneHandle: "none", "held", "joining"
    shutdown_tx,        \* the Sender of the shutdown channel is alive
    thread,             \* "none", "start", "wait" (recv_timeout), "busy", "ended"
    started,            \* the limit this autotuner started from
    current_limit,      \* the autotuner's idea of device
    best_score,
    direction,
    consecutive_errors

world  == <<calm, curve>>
owner  == <<handle, shutdown_tx>>
tuning == <<current_limit, best_score, direction, consecutive_errors>>
vars   == <<device, calm, curve, handle, shutdown_tx, thread, started, current_limit,
            best_score, direction, consecutive_errors>>

Init ==
    /\ device \in HwMin..HwMax
    /\ calm \in BOOLEAN
    /\ curve \in IF calm THEN Curves ELSE {CHOOSE c \in Curves : TRUE}
    /\ handle = "none"
    /\ shutdown_tx = FALSE
    /\ thread = "none"
    /\ started = device
    /\ current_limit = device
    /\ best_score = None
    /\ direction = -Step
    /\ consecutive_errors = 0

Scores == IF calm THEN {curve[device]} ELSE 0..(HwMax - HwMin)

-----------------------------------------------------------------------------
(* Faulty variants of definitions below, each of which breaks a property.  *)

\* DropReturns: the sender is left where it is.
DropHandleOnly ==
    /\ handle = "held"
    /\ handle' = "joining"
    /\ UNCHANGED <<device, world, shutdown_tx, thread, started, tuning>>

\* KnowsTheLimit: the new limit is recorded before the device has accepted it.
RecordFirst(score) ==
    /\ thread = "busy"
    /\ ~calm
    /\ current_limit' = Clamp(current_limit + direction)
    /\ best_score' = score
    /\ consecutive_errors' = consecutive_errors + 1
    /\ thread' = IF consecutive_errors' >= MaxErrors THEN "ended" ELSE "wait"
    /\ UNCHANGED <<device, world, owner, started, direction>>

\* Converges: the direction is kept when the score got worse.
KeepGoing(score) == direction

\* TypeOK: the safety limit is not bounded.
SafeLimitUnbounded == current_limit - Step

-----------------------------------------------------------------------------
(* The worker that owns the handle.                                        *)

\* spawn_autotuner, at the end of CudaGPUWorker::new.
Spawn ==
    /\ handle = "none"
    /\ handle' = "held"
    /\ shutdown_tx' = TRUE
    /\ thread' = "start"
    /\ UNCHANGED <<device, world, started, tuning>>

\* Drop lets go of the sender, then joins.
DropHandle ==
    /\ handle = "held"
    /\ handle' = "joining"
    /\ shutdown_tx' = FALSE
    /\ UNCHANGED <<device, world, thread, started, tuning>>

Join ==
    /\ handle = "joining"
    /\ thread = "ended"
    /\ handle' = "none"
    /\ UNCHANGED <<device, world, shutdown_tx, thread, started, tuning>>

-----------------------------------------------------------------------------
(* run_autotune_loop.                                                      *)

\* NVML fails or the bounds are invalid, and the thread is done; or it starts from
\* the limit it finds, downwards.
Open ==
    /\ thread = "start"
    /\ IF hard_min < hard_max
       THEN thread' \in IF calm THEN {"wait"} ELSE {"wait", "ended"}
       ELSE thread' = "ended"
    /\ started' = device
    /\ current_limit' = device
    /\ best_score' = None
    /\ direction' = -Step
    /\ consecutive_errors' = 0
    /\ UNCHANGED <<device, world, owner>>

\* recv_timeout returns at once when the sender is gone, else after the interval.
Wake ==
    /\ thread = "wait"
    /\ thread' = IF shutdown_tx THEN "busy" ELSE "ended"
    /\ UNCHANGED <<device, world, owner, started, tuning>>

\* No sample yet, a stale one, or a temperature or power that cannot be read.
Skip ==
    /\ thread = "busy"
    /\ ~calm
    /\ thread' = "wait"
    /\ UNCHANGED <<device, world, owner, started, tuning>>

\* Too hot: a step down, but not below hard_min, and the climb starts over.  The
\* subtraction saturates at 0.  A refused set is only logged.
SafeLimit == Larger(hard_min, Larger(0, current_limit - Step))

Overheat ==
    /\ thread = "busy"
    /\ ~calm
    /\ thread' = "wait"
    /\ \/ /\ device' = SafeLimit
          /\ current_limit' = SafeLimit
          /\ best_score' = None
       \/ UNCHANGED <<device, current_limit, best_score>>
    /\ UNCHANGED <<world, owner, started, direction, consecutive_errors>>

\* A score that is no better than the last one turns the climb around.
Heading(score) ==
    IF best_score # None /\ score <= best_score THEN -direction ELSE direction

\* Against a bound nothing is set, and the climb is turned (again).
Pinned(score) ==
    /\ thread = "busy"
    /\ Clamp(current_limit + Heading(score)) = current_limit
    /\ best_score' = score
    /\ direction' = -Heading(score)
    /\ thread' = "wait"
    /\ UNCHANGED <<device, world, owner, started, current_limit, consecutive_errors>>

Climb(score) ==
    /\ thread = "busy"
    /\ LET clamped == Clamp(current_limit + Heading(score)) IN
        /\ clamped # current_limit
        /\ device' = clamped
        /\ current_limit' = clamped
    /\ best_score' = score
    /\ direction' = Heading(score)
    /\ consecutive_errors' = 0
    /\ thread' = "wait"
    /\ UNCHANGED <<world, owner, started>>

\* The device refuses the new limit.
ClimbFails(score) ==
    /\ thread = "busy"
    /\ ~calm
    /\ Clamp(current_limit + Heading(score)) # current_limit
    /\ best_score' = score
    /\ direction' = Heading(score)
    /\ consecutive_errors' = consecutive_errors + 1
    /\ thread' = IF consecutive_errors' >= MaxErrors THEN "ended" ELSE "wait"
    /\ UNCHANGED <<device, world, owner, started, current_limit>>

-----------------------------------------------------------------------------
TunerStep ==
    \/ Open \/ Wake \/ Skip \/ Overheat
    \/ \E score \in Scores : Pinned(score) \/ Climb(score) \/ ClimbFails(score)

Next == Spawn \/ DropHandle \/ Join \/ TunerStep

SafetySpec == Init /\ [][Next]_vars

\* The thread is scheduled, and so is a drop that has begun.  Nothing is assumed
\* of the device, or of when workers come and go.
Spec == SafetySpec /\ WF_vars(TunerStep) /\ WF_vars(Join)

-----------------------------------------------------------------------------
(* Properties.                                                             *)

\* Every variable keeps its type; in particular the limit on the device stays what
\* the hardware accepts (autotune.rs:4-5).
TypeOK ==
    /\ device \in HwMin..HwMax
    /\ calm \in BOOLEAN
    /\ curve \in Curves
    /\ handle \in {"none", "held", "joining"}
    /\ shutdown_tx \in BOOLEAN
    /\ thread \in {"none", "start", "wait", "busy", "ended"}
    /\ started \in HwMin..HwMax
    /\ current_limit \in HwMin..HwMax
    /\ best_score \in Nat \cup {None}
    /\ direction \in {-Step, Step}
    /\ consecutive_errors \in 0..MaxErrors

\* The autotuner steers by the limit that is in force, through refused sets,
\* overheating and every change of worker: there are never two of them.
KnowsTheLimit == thread \in {"wait", "busy"} => current_limit = device

\* Whatever the device reports, no set goes below the configured minimum, and one
\* above the configured maximum only comes down from a higher limit.
BoundsRespected ==
    [][device' # device => /\ hard_min <= device'
                           /\ device' <= hard_max \/ device' < device]_vars

\* Dropping a worker never hangs on its autotuner, wherever that is in its cycle.
DropReturns == handle = "joining" ~> handle = "none"

\* In a calm behaviour that keeps its worker, the hill-climb ends up around the
\* limit of best efficiency for good, less than two steps away from it, when it
\* does not start at the lower bound.
Best == {l \in hard_min..hard_max : \A m \in hard_min..hard_max : curve[m] <= curve[l]}
Around(l) == {m \in HwMin..HwMax : m - l < 2 * Step /\ l - m < 2 * Step}
Converges ==
    calm => \/ []<>(handle # "held")
            \/ <>[](started <= hard_min \/ \E l \in Best : device \in Around(l))

-----------------------------------------------------------------------------
(* What a comment says and the code does not keep.                         *)

\* autotune.rs:240 flips the direction at a bound "so we don't get stuck there
\* forever".  At the next cycle the unchanged limit has an unchanged score, which
\* flips it back: an autotuner that starts at the lower bound stays there, although
\* one step up is more efficient.
Improvable ==
    /\ calm
    /\ thread = "wait"
    /\ device = hard_min
    /\ hard_min + Step <= hard_max
    /\ curve[hard_min] < curve[hard_min + Step]
NotStuckAtBound == Improvable ~> device # hard_min \/ handle # "held"
=============================================================================
