--------------------------- MODULE Autotune_proofs ---------------------------
(***************************************************************************)
(* Proofs about the autotuner, for all bounds, steps and efficiencies.     *)
(***************************************************************************)
EXTENDS Autotune, TLAPS

\* Where the configured bounds lie, and what clamping does.
LEMMA Bounds ==
    /\ hard_min \in Nat /\ HwMin <= hard_min
    /\ hard_max \in Nat /\ hard_max <= HwMax
  BY AutotuneAssumption DEF hard_min, hard_max, Larger, Smaller

\* Clamping leads between the bounds, from wherever.
LEMMA ClampIsWithin ==
    ASSUME NEW l \in Int, hard_min < hard_max
    PROVE  Clamp(l) \in hard_min..hard_max
  BY Bounds DEF Clamp, Larger, Smaller

\* A thread that tunes has valid bounds, has not used up its errors, and knows the
\* limit on the device.
Tuning ==
    thread \in {"wait", "busy"} =>
        /\ hard_min < hard_max
        /\ consecutive_errors < MaxErrors
        /\ current_limit = device

IInv == TypeOK /\ Tuning

-----------------------------------------------------------------------------
\* The limit set when the GPU is too hot is not below hard_min, and is above it only
\* on the way down.
LEMMA SafeLimitIsSafe ==
    ASSUME TypeOK, hard_min < hard_max
    PROVE  /\ SafeLimit \in hard_min..HwMax
           /\ SafeLimit = hard_min \/ SafeLimit < current_limit
  BY AutotuneAssumption, Bounds DEF SafeLimit, TypeOK, Larger

\* The climb goes one step up or down.
LEMMA HeadingIsAStep ==
    ASSUME TypeOK, NEW score
    PROVE  Heading(score) \in {-Step, Step}
  BY AutotuneAssumption DEF Heading, TypeOK

\* Initially nothing is tuned.
LEMMA InitIInv == Init => IInv
<1> SUFFICES ASSUME Init PROVE IInv
  OBVIOUS
<1>1. curve \in Curves
  <2>1. (CHOOSE c \in Curves : TRUE) \in Curves
    BY AutotuneAssumption
  <2> QED BY <2>1 DEF Init
<1>2. best_score \in Nat \cup {None} /\ 0 \in 0..MaxErrors
  BY AutotuneAssumption DEF Init
<1>3. shutdown_tx \in BOOLEAN /\ calm \in BOOLEAN
  BY DEF Init
<1>4. TypeOK
  BY <1>1, <1>2, <1>3 DEF Init, TypeOK
<1> QED BY <1>4 DEF Init, IInv, Tuning

\* Every step preserves the invariant, and sets the device within its bounds.
Bounded == device' # device => /\ hard_min <= device'
                               /\ device' <= hard_max \/ device' < device

\* Together: an inductive invariant and what a step may do to the device.
LEMMA NextIInv == ASSUME IInv, Next PROVE IInv' /\ Bounded
<1> USE AutotuneAssumption DEF IInv, world, owner, tuning
<1>1. CASE Spawn \/ DropHandle \/ Join
  BY <1>1 DEF Spawn, DropHandle, Join, TypeOK, Tuning, Bounded
<1>2. CASE Open
  <2>1. best_score' \in Nat \cup {None} /\ consecutive_errors' \in 0..MaxErrors
    BY <1>2 DEF Open
  <2>2. thread' = "wait" => hard_min < hard_max
    BY <1>2 DEF Open
  <2>3. thread' \in {"wait", "ended"}
    BY <1>2 DEF Open
  <2> QED BY <1>2, <2>1, <2>2, <2>3 DEF Open, TypeOK, Tuning, Bounded
<1>3. CASE Wake \/ Skip
  BY <1>3 DEF Wake, Skip, TypeOK, Tuning, Bounded
<1>4. CASE Overheat
  <2>1. hard_min < hard_max /\ current_limit = device
    BY <1>4 DEF Overheat, Tuning
  <2>2. /\ SafeLimit \in HwMin..HwMax
        /\ hard_min <= SafeLimit
        /\ SafeLimit <= hard_max \/ SafeLimit < device
    BY <2>1, SafeLimitIsSafe, Bounds
  <2>3. best_score' \in Nat \cup {None}
    BY <1>4 DEF Overheat, TypeOK
  <2>4. device' \in HwMin..HwMax /\ current_limit' = device' /\ Bounded
    BY <1>4, <2>1, <2>2 DEF Overheat, TypeOK, Bounded
  <2> QED BY <1>4, <2>1, <2>3, <2>4 DEF Overheat, TypeOK, Tuning
<1>5. ASSUME NEW score \in Scores, Pinned(score) \/ Climb(score) \/ ClimbFails(score)
      PROVE  IInv' /\ Bounded
  <2>1. hard_min < hard_max /\ consecutive_errors < MaxErrors /\ current_limit = device
    BY <1>5 DEF Pinned, Climb, ClimbFails, Tuning
  <2>2. score \in Nat
    <3>1. 0..(HwMax - HwMin) \subseteq Nat
      OBVIOUS
    <3>2. curve[device] \in Nat
      BY DEF TypeOK
    <3> QED BY <1>5, <3>1, <3>2 DEF Scores
  <2>3. Heading(score) \in {-Step, Step} /\ -Heading(score) \in {-Step, Step}
    BY HeadingIsAStep
  <2>4. Clamp(current_limit + Heading(score)) \in hard_min..hard_max
    <3>1. current_limit + Heading(score) \in Int
      BY <2>3 DEF TypeOK
    <3> QED BY <2>1, <3>1, ClampIsWithin
  <2>5. CASE Pinned(score)
    BY <2>1, <2>2, <2>3, <2>5 DEF Pinned, TypeOK, Tuning, Bounded
  <2>6. CASE Climb(score)
    <3>1. device' \in hard_min..hard_max /\ device' \in HwMin..HwMax /\ current_limit' = device'
      BY <2>4, <2>6, Bounds DEF Climb
    <3> QED BY <2>1, <2>2, <2>3, <2>6, <3>1 DEF Climb, TypeOK, Tuning, Bounded
  <2>7. CASE ClimbFails(score)
    BY <2>1, <2>2, <2>3, <2>7 DEF ClimbFails, TypeOK, Tuning, Bounded
  <2> QED BY <1>5, <2>5, <2>6, <2>7
<1> QED BY <1>1, <1>2, <1>3, <1>4, <1>5 DEF Next, TunerStep

\* Every step, or none, keeps the inductive invariant.
LEMMA InvStep == ASSUME IInv, [Next]_vars PROVE IInv'
<1>1. CASE UNCHANGED vars
  BY <1>1 DEF vars, IInv, TypeOK, Tuning
<1> QED BY <1>1, NextIInv

\* The inductive invariant holds in every reachable state.
THEOREM Invariance == SafetySpec => []IInv
  BY InitIInv, InvStep, PTL DEF SafetySpec

-----------------------------------------------------------------------------
\* Type correctness; the device is never set outside the hardware's bounds.
THEOREM TypeCorrect == SafetySpec => []TypeOK
  BY Invariance, PTL DEF IInv

\* The autotuner always steers by the limit in force.
THEOREM KnowsLimit == SafetySpec => []KnowsTheLimit
<1>1. IInv => KnowsTheLimit
  BY DEF IInv, Tuning, KnowsTheLimit
<1> QED BY <1>1, Invariance, PTL

\* No set leaves the configured bounds, but to come down from above them.
THEOREM KeepsBounds == SafetySpec => BoundsRespected
<1>1. ASSUME IInv, [Next]_vars
      PROVE  [device' # device => /\ hard_min <= device'
                                  /\ device' <= hard_max \/ device' < device]_vars
  BY <1>1, NextIInv DEF Bounded
<1> QED BY <1>1, Invariance, PTL DEF SafetySpec, BoundsRespected

-----------------------------------------------------------------------------
(* The safety core of Converges: when the efficiency has a single peak,    *)
(* every cycle of a calm climb ends around the best limit or a whole step  *)
(* nearer to it.                                                           *)

\* The efficiency rises up to t and falls after it.
Peak(t) ==
    /\ t \in HwMin..HwMax
    /\ \A l, m \in HwMin..HwMax : l < m =>
        /\ m <= t => curve[l] < curve[m]
        /\ t <= l => curve[m] < curve[l]

Distance(l) == IF device >= l THEN device - l ELSE l - device

\* A cycle that has a score to compare with, of an autotuner that did not start at
\* or below the lower bound.
Compares == calm /\ started > hard_min /\ thread = "busy" /\ best_score # None

\* However the climb turns, overshoots or runs into a bound, no cycle of it leaves the
\* neighbourhood of the best limit once it is there, and until then each one brings
\* the device nearer by a full step.
ClosingIn ==
    [][ Compares /\ thread' = "wait" /\ (\E t \in HwMin..HwMax : Peak(t)) =>
          \A l \in Best : device' \in Around(l) \/ Distance(l)' <= Distance(l) - Step ]_vars

\* Where a calm climb is: at its first limit; just off a limit prev whose score it
\* remembers, heading away from it; or held against a bound around the best limit.
OnTheWay(prev) ==
    /\ hard_min <= prev /\ best_score = curve[prev]
    /\ hard_min <= current_limit /\ current_limit <= hard_max
    /\ \/ /\ prev < current_limit /\ direction = Step
          /\ current_limit - prev <= Step
       \/ /\ current_limit < prev /\ direction = -Step
          /\ prev - current_limit <= Step \/ current_limit = hard_max

Held ==
    /\ best_score = curve[current_limit]
    /\ \/ current_limit = hard_min /\ direction = Step
       \/ current_limit = hard_max /\ direction = -Step
    /\ \A t \in HwMin..HwMax : Peak(t) => current_limit \in Around(Clamp(t))

ClimbState ==
    calm /\ started > hard_min /\ thread \in {"wait", "busy"} =>
        \/ best_score = None /\ direction = -Step /\ current_limit = started
        \/ \E prev \in HwMin..HwMax : OnTheWay(prev)
        \/ Held

-----------------------------------------------------------------------------
\* Clamping leaves a limit where it is between the bounds, and moves it to the nearer
\* bound otherwise.
LEMMA ClampIsNearest ==
    ASSUME NEW l \in Int, hard_min < hard_max
    PROVE  /\ Clamp(l) \in hard_min..hard_max
           /\ Clamp(l) < l => Clamp(l) = hard_max
           /\ l < Clamp(l) => Clamp(l) = hard_min
  BY Bounds DEF Clamp, Larger, Smaller

\* Of a single peak the limit of best efficiency between the bounds is the nearest.
LEMMA PeakIsBest ==
    ASSUME TypeOK, hard_min < hard_max, NEW t \in HwMin..HwMax, Peak(t)
    PROVE  Best = {Clamp(t)}
<1> USE AutotuneAssumption, Bounds
<1> DEFINE p == Clamp(t)
<1>0. t \in Int
  OBVIOUS
<1>1. /\ p \in hard_min..hard_max
      /\ p < t => p = hard_max
      /\ t < p => p = hard_min
  BY <1>0, ClampIsNearest
<1> HIDE DEF p
<1>2. p \in HwMin..HwMax
  BY <1>1
<1>3. ASSUME NEW l \in Best, l # p PROVE FALSE
  <2>1. l \in hard_min..hard_max /\ l \in HwMin..HwMax /\ curve[p] <= curve[l]
    BY <1>1 DEF Best
  <2>2. curve[p] \in Nat /\ curve[l] \in Nat
    BY <1>2, <2>1 DEF TypeOK
  <2>3. CASE l < p
    BY <1>1, <1>2, <2>1, <2>2, <2>3 DEF Peak
  <2>4. CASE p < l
    BY <1>1, <1>2, <2>1, <2>2, <2>4 DEF Peak
  <2> QED BY <1>1, <1>3, <2>1, <2>3, <2>4
<1>4. ASSUME NEW l \in hard_min..hard_max PROVE curve[l] <= curve[p]
  <2>1. l \in HwMin..HwMax
    OBVIOUS
  <2>2. curve[p] \in Nat /\ curve[l] \in Nat
    BY <1>2, <2>1 DEF TypeOK
  <2> QED BY <1>1, <1>2, <2>1, <2>2 DEF Peak
<1>5. p \in Best
  BY <1>1, <1>4 DEF Best
<1>6. Best = {p}
  BY <1>3, <1>5
<1> QED BY <1>6 DEF p

\* One step from c in the direction of a peak that is not behind prev, the limit
\* before: it leads around the peak, or a full step nearer to it.
LEMMA StepTowards ==
    ASSUME NEW c \in hard_min..hard_max, NEW p \in hard_min..hard_max, hard_min < hard_max,
           NEW h \in {-Step, Step},
           h = Step => c - Step < p,
           h = -Step => p < c + Step
    PROVE  LET cc == Clamp(c + h) IN
           \/ cc - p < 2 * Step /\ p - cc < 2 * Step
           \/ /\ (IF cc >= p THEN cc - p ELSE p - cc)
                   <= (IF c >= p THEN c - p ELSE p - c) - Step
              /\ cc # c
  BY AutotuneAssumption, Bounds DEF Clamp, Larger, Smaller

\* Where the peak lies is told by two scores at different limits.
LEMMA ScoresTell ==
    ASSUME TypeOK, NEW t \in HwMin..HwMax, Peak(t),
           NEW l \in HwMin..HwMax, NEW m \in HwMin..HwMax, l < m
    PROVE  /\ curve[l] < curve[m] => l < t
           /\ curve[m] <= curve[l] => t < m
           /\ curve[m] < curve[l] => t < m
           /\ curve[l] <= curve[m] => l < t
<1>1. curve[l] \in Nat /\ curve[m] \in Nat
  BY AutotuneAssumption DEF TypeOK
<1> QED BY <1>1, AutotuneAssumption DEF Peak

\* So the climb heads for the peak, or has it between the last two limits.
LEMMA HeadsForPeak ==
    ASSUME TypeOK, hard_min < hard_max, NEW t \in HwMin..HwMax, Peak(t),
           NEW prev \in HwMin..HwMax, OnTheWay(prev)
    PROVE  LET h == Heading(curve[current_limit]) IN
           /\ h = Step => current_limit - Step < Clamp(t)
           /\ h = -Step => Clamp(t) < current_limit + Step
<1> USE AutotuneAssumption, Bounds
<1> DEFINE c == current_limit
           p == Clamp(t)
<1>0. t \in Int
  OBVIOUS
<1>1. /\ p \in hard_min..hard_max
      /\ p < t => p = hard_max
      /\ t < p => p = hard_min
  BY <1>0, ClampIsNearest
<1>2. /\ c \in HwMin..HwMax /\ c \in hard_min..hard_max /\ best_score = curve[prev]
      /\ best_score \in Nat /\ curve[c] \in Nat /\ best_score # None
  BY DEF TypeOK, OnTheWay, None
<1> HIDE DEF p
<1>3. CASE prev < c
  <2>1. direction = Step /\ c - prev <= Step /\ hard_min <= prev
    BY <1>2, <1>3 DEF OnTheWay
  <2>2. CASE curve[c] <= best_score
    <3>1. t < c /\ Heading(curve[c]) = -Step
      BY <1>2, <1>3, <2>1, <2>2, ScoresTell DEF Heading
    <3>2. p < c + Step
      BY <1>0, <1>1, <1>2, <1>3, <2>1, <3>1
    <3> QED BY <3>1, <3>2 DEF p
  <2>3. CASE ~(curve[c] <= best_score)
    <3>1. prev < t /\ Heading(curve[c]) = Step
      BY <1>2, <1>3, <2>1, <2>3, ScoresTell DEF Heading
    <3> QED BY <1>1, <1>2, <1>3, <2>1, <3>1 DEF p
  <2> QED BY <2>2, <2>3
<1>4. CASE c < prev
  <2>1. direction = -Step /\ (prev - c <= Step \/ c = hard_max)
    BY <1>2, <1>4 DEF OnTheWay
  <2>2. CASE curve[c] <= best_score
    <3>1. c < t /\ Heading(curve[c]) = Step
      BY <1>2, <1>4, <2>1, <2>2, ScoresTell DEF Heading
    <3> QED BY <1>1, <1>2, <3>1 DEF p
  <2>3. CASE ~(curve[c] <= best_score)
    <3>1. t < prev /\ Heading(curve[c]) = -Step
      BY <1>2, <1>4, <2>1, <2>3, ScoresTell DEF Heading
    <3> QED BY <1>1, <1>2, <1>4, <2>1, <3>1 DEF p
  <2> QED BY <2>2, <2>3
<1>5. prev < c \/ c < prev
  BY DEF OnTheWay
<1> QED BY <1>3, <1>4, <1>5

\* A cycle with a score to compare with ends around the peak, or a step nearer.
LEMMA CycleCloses ==
    ASSUME TypeOK, hard_min < hard_max, current_limit = device,
           NEW t \in HwMin..HwMax, Peak(t),
           Held \/ (\E prev \in HwMin..HwMax : OnTheWay(prev)),
           LET score == curve[current_limit] IN Pinned(score) \/ Climb(score)
    PROVE  \/ device' \in Around(Clamp(t))
           \/ Distance(Clamp(t))' <= Distance(Clamp(t)) - Step /\ device' # device
<1> USE AutotuneAssumption, Bounds
<1> DEFINE c == current_limit
           p == Clamp(t)
           h == Heading(curve[c])
           cc == Clamp(c + h)
<1>1. p \in hard_min..hard_max
  <2>1. t \in Int
    OBVIOUS
  <2> QED BY <2>1, ClampIsNearest
<1>2. device' = cc
  BY DEF Pinned, Climb
<1>3. h \in {-Step, Step} /\ device \in HwMin..HwMax
  BY HeadingIsAStep DEF TypeOK
<1>4. cc \in HwMin..HwMax
  <2>1. c + h \in Int
    BY <1>3 DEF TypeOK
  <2>2. cc \in hard_min..hard_max
    BY <2>1, ClampIsNearest
  <2> HIDE DEF cc
  <2> QED BY <2>2
<1>5. CASE Held
  <2>1. /\ best_score = curve[c] /\ c \in Around(p)
        /\ \/ c = hard_min /\ direction = Step
           \/ c = hard_max /\ direction = -Step
    BY <1>5 DEF Held
  <2>2. best_score \in Nat /\ best_score # None
    BY <2>1 DEF TypeOK, None
  <2>3. h = -direction
    BY <2>1, <2>2 DEF Heading
  <2>4. cc = c
    BY <2>1, <2>3 DEF Clamp, Larger, Smaller
  <2> QED BY <1>2, <2>1, <2>4
<1>6. ASSUME NEW prev \in HwMin..HwMax, OnTheWay(prev)
      PROVE  \/ device' \in Around(p)
             \/ Distance(p)' <= Distance(p) - Step /\ device' # device
  <2>1. c \in hard_min..hard_max
    BY <1>6 DEF OnTheWay, TypeOK
  <2>2. /\ h = Step => c - Step < p
        /\ h = -Step => p < c + Step
    BY <1>6, HeadsForPeak
  <2> HIDE DEF p, h
  <2>3. \/ cc - p < 2 * Step /\ p - cc < 2 * Step
        \/ /\ (IF cc >= p THEN cc - p ELSE p - cc)
                <= (IF c >= p THEN c - p ELSE p - c) - Step
           /\ cc # c
    BY <1>1, <1>3, <2>1, <2>2, StepTowards
  <2> QED BY <1>2, <1>4, <2>3 DEF Distance, Around
<1> QED BY <1>5, <1>6

\* What a comparing cycle leaves behind is where the next one starts.
LEMMA CycleState ==
    ASSUME TypeOK, TypeOK', hard_min < hard_max, current_limit = device, UNCHANGED curve,
           current_limit' = device',
           Held \/ (\E prev \in HwMin..HwMax : OnTheWay(prev)),
           LET score == curve[current_limit] IN Pinned(score) \/ Climb(score)
    PROVE  Held' \/ \E prev \in HwMin..HwMax : OnTheWay(prev)'
<1> USE AutotuneAssumption, Bounds
<1>0. PICK c \in HwMin..HwMax : c = current_limit
  BY DEF TypeOK
<1> DEFINE h == Heading(curve[c])
<1>1. c \in HwMin..HwMax /\ c \in hard_min..hard_max /\ h \in {-Step, Step}
  BY <1>0, HeadingIsAStep DEF TypeOK, Held, OnTheWay
<1>2. CASE Climb(curve[c])
  <2>1. /\ current_limit' = Clamp(c + h) /\ Clamp(c + h) # c
        /\ best_score' = curve[c] /\ direction' = h
    BY <1>0, <1>2 DEF Climb
  <2> HIDE DEF h
  <2>2. OnTheWay(c)'
    BY <1>1, <2>1 DEF OnTheWay, Clamp, Larger, Smaller
  <2> QED BY <1>1, <2>2
<1>3. CASE Pinned(curve[c])
  <2>1. /\ current_limit' = c /\ Clamp(c + h) = c
        /\ best_score' = curve[c] /\ direction' = -h
    BY <1>0, <1>3 DEF Pinned
  <2>2. ASSUME NEW t \in HwMin..HwMax, Peak(t) PROVE c \in Around(Clamp(t))
    BY <1>0, <1>3, <2>1, <2>2, CycleCloses
  <2>3. \A t \in HwMin..HwMax : Peak(t)' => Peak(t)
    BY DEF Peak
  <2> HIDE DEF h
  <2>4. \/ c = hard_min /\ -h = Step
        \/ c = hard_max /\ -h = -Step
    BY <1>1, <2>1 DEF Clamp, Larger, Smaller
  <2>5. Held'
    BY <2>1, <2>2, <2>3, <2>4, <1>0 DEF Held
  <2> QED BY <2>5
<1> QED BY <1>0, <1>2, <1>3

\* The first cycle of a climb leads one step down from where it started.
LEMMA FirstCycle ==
    ASSUME TypeOK, hard_min < hard_max, started > hard_min, UNCHANGED curve,
           best_score = None, direction = -Step, current_limit = started,
           LET score == curve[current_limit] IN Pinned(score) \/ Climb(score)
    PROVE  \E prev \in HwMin..HwMax : OnTheWay(prev)'
<1> USE AutotuneAssumption, Bounds
<1>0. PICK c \in HwMin..HwMax : c = current_limit
  BY DEF TypeOK
<1>1. Heading(curve[c]) = -Step
  BY DEF Heading
<1>2. /\ Clamp(c - Step) # c /\ Clamp(c - Step) \in hard_min..hard_max
      /\ Clamp(c - Step) < c
      /\ c - Clamp(c - Step) <= Step \/ Clamp(c - Step) = hard_max
  BY <1>0 DEF Clamp, Larger, Smaller
<1>3. c + (-Step) = c - Step
  OBVIOUS
<1>4. /\ current_limit' = Clamp(c - Step) /\ best_score' = curve[c] /\ direction' = -Step
  BY <1>0, <1>1, <1>2, <1>3 DEF Pinned, Climb
<1>5. OnTheWay(c)'
  BY <1>0, <1>2, <1>4 DEF OnTheWay
<1> QED BY <1>5

\* In a calm behaviour a cycle is one of these.
LEMMA CalmCycle ==
    ASSUME IInv, calm, Next, thread = "busy", thread' \in {"wait", "busy"}, thread' # thread
    PROVE  LET score == curve[current_limit] IN Pinned(score) \/ Climb(score)
<1>1. current_limit = device /\ Scores = {curve[device]}
  BY DEF IInv, Tuning, Scores
<1> QED
  BY <1>1
  DEF Next, TunerStep, Spawn, DropHandle, Join, Open, Wake, Skip, Overheat, ClimbFails

\* Where a climb is stays so through every step.
LEMMA ClimbStep == ASSUME IInv, IInv', ClimbState, [Next]_vars PROVE ClimbState'
<1> SUFFICES ASSUME calm', (started > hard_min)', thread' \in {"wait", "busy"}
             PROVE  \/ (best_score = None /\ direction = -Step /\ current_limit = started)'
                    \/ \E prev \in HwMin..HwMax : OnTheWay(prev)'
                    \/ Held'
  BY DEF ClimbState
<1>0. calm /\ UNCHANGED <<calm, curve>> /\ TypeOK /\ TypeOK'
  BY DEF IInv, vars, Next, TunerStep, Spawn, DropHandle, Join, Open, Wake, Skip, Overheat,
     Pinned, Climb, ClimbFails, world
<1>1. CASE UNCHANGED <<started, tuning>> /\ thread \in {"wait", "busy"}
  BY <1>0, <1>1 DEF ClimbState, tuning, OnTheWay, Held, Peak
<1>2. CASE Open
  BY <1>2 DEF Open
<1>3. CASE thread = "busy" /\ thread' # thread /\ Next
  <2>1. LET score == curve[current_limit] IN Pinned(score) \/ Climb(score)
    BY <1>0, <1>3, CalmCycle
  <2>2. /\ started' = started /\ hard_min < hard_max /\ current_limit = device
        /\ current_limit' = device'
    BY <1>0, <1>3, <2>1 DEF Pinned, Climb, IInv, Tuning
  <2>3. started > hard_min
    BY <2>2
  <2>4. CASE best_score = None /\ direction = -Step /\ current_limit = started
    BY <1>0, <2>1, <2>2, <2>3, <2>4, FirstCycle
  <2>5. CASE Held \/ \E prev \in HwMin..HwMax : OnTheWay(prev)
    BY <1>0, <2>1, <2>2, <2>5, CycleState
  <2> QED BY <1>0, <1>3, <2>3, <2>4, <2>5 DEF ClimbState
<1>4. \/ UNCHANGED <<started, tuning>> /\ thread \in {"wait", "busy"}
      \/ Open
      \/ thread = "busy" /\ thread' # thread /\ Next
  BY <1>0 DEF vars, tuning, Next, TunerStep, Spawn, DropHandle, Join, Wake, Skip, Overheat,
     Pinned, Climb, ClimbFails
<1> QED BY <1>1, <1>2, <1>3, <1>4

\* The hill-climb closes in on a single peak, for all bounds, steps and curves.
THEOREM ClosesIn == SafetySpec => ClosingIn
<1> DEFINE Closer ==
      Compares /\ thread' = "wait" /\ (\E t \in HwMin..HwMax : Peak(t)) =>
          \A l \in Best : device' \in Around(l) \/ Distance(l)' <= Distance(l) - Step
<1>1. Init => ClimbState
  BY DEF Init, ClimbState
<1>2. ASSUME IInv, ClimbState, [Next]_vars PROVE ClimbState'
  BY <1>2, InvStep, ClimbStep
<1>3. ASSUME IInv, ClimbState, [Next]_vars PROVE [Closer]_vars
  <2> SUFFICES ASSUME Next, Compares, thread' = "wait",
                      NEW t \in HwMin..HwMax, Peak(t), NEW l \in Best
               PROVE  device' \in Around(l) \/ Distance(l)' <= Distance(l) - Step
    BY <1>3
  <2>1. /\ calm /\ started > hard_min /\ thread = "busy" /\ best_score # None
        /\ TypeOK /\ hard_min < hard_max /\ current_limit = device
    BY <1>3 DEF Compares, IInv, Tuning
  <2>2. LET score == curve[current_limit] IN Pinned(score) \/ Climb(score)
    BY <1>3, <2>1, CalmCycle
  <2>3. Held \/ \E prev \in HwMin..HwMax : OnTheWay(prev)
    BY <1>3, <2>1 DEF ClimbState
  <2>4. \/ device' \in Around(Clamp(t))
        \/ Distance(Clamp(t))' <= Distance(Clamp(t)) - Step
    BY <2>1, <2>2, <2>3, CycleCloses
  <2>5. l = Clamp(t)
    BY <2>1, PeakIsBest
  <2> QED BY <2>4, <2>5
<1> QED BY <1>1, <1>2, <1>3, Invariance, PTL DEF SafetySpec, ClosingIn

-----------------------------------------------------------------------------
(* The safety core of DropReturns.                                         *)

\* There is one autotuner per worker: a new one is only spawned when the last has
\* ended, whose handle was joined, and its channel is open until that handle is
\* dropped.
OneAutotuner ==
    /\ handle = "none"  => thread \in {"none", "ended"}
    /\ handle # "none"  => thread # "none"
    /\ shutdown_tx <=> handle = "held"

\* Handle, channel and thread come and go together.
THEOREM NeverTwo == SafetySpec => []OneAutotuner
<1>1. Init => OneAutotuner
  BY DEF Init, OneAutotuner
<1>2. ASSUME IInv, OneAutotuner, [Next]_vars PROVE OneAutotuner'
  BY <1>2
  DEF IInv, TypeOK, OneAutotuner, vars, world, owner, tuning, Next, TunerStep, Spawn,
      DropHandle, Join, Open, Wake, Skip, Overheat, Pinned, Climb, ClimbFails
<1> QED BY <1>1, <1>2, Invariance, PTL DEF SafetySpec

CyclesLeft == CASE thread \in {"start", "busy"} -> 2
                [] thread = "wait"              -> 1
                [] OTHER                        -> 0

\* A worker that is being dropped waits for two steps of its autotuner at most: the
\* one that finishes the cycle, whatever the device does in it, and the one that
\* finds the channel closed.
DropIsSwift ==
    [][ handle = "joining" =>
          /\ thread \in {"start", "busy", "wait", "ended"}
          /\ TunerStep => CyclesLeft' < CyclesLeft ]_vars

\* The join of a dropped handle is bounded.
THEOREM DropEnds == SafetySpec => DropIsSwift
<1> DEFINE Swift == handle = "joining" =>
                      /\ thread \in {"start", "busy", "wait", "ended"}
                      /\ TunerStep => CyclesLeft' < CyclesLeft
<1>1. ASSUME IInv, OneAutotuner, [Next]_vars PROVE [Swift]_vars
  BY <1>1
  DEF IInv, TypeOK, OneAutotuner, CyclesLeft, TunerStep, Open, Wake, Skip, Overheat, Pinned,
      Climb, ClimbFails
<1> QED BY <1>1, NeverTwo, Invariance, PTL DEF SafetySpec, DropIsSwift
=============================================================================
