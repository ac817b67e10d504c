---------------------------- MODULE PayeeSchedule ----------------------------
(***************************************************************************)
(* Whom the miner works for: templates are numbered through a cycle, the   *)
(* devfund gets those with a number below its share, and the job at hand   *)
(* is for the payee of the newest template, or there is none.  Each        *)
(* client is held to it across all of its connections.                     *)
(***************************************************************************)
EXTENDS Naturals

CONSTANTS
    Share,   \* a number: templates of each cycle that are the devfund's
    Cycle    \* a positive number: templates of a cycle

VARIABLES
    turn,    \* the number of the next template
    paid     \* whom the job at hand is for, or "nobody"

Due == IF turn < Share THEN "dev" ELSE "miner"

\* The first number is random, so that restarts do not favour anybody.
Init ==
    /\ turn \in 0..(Cycle - 1)
    /\ paid \in {"miner", "nobody"}

\* A template comes, for the payee that is due, or is lost after it was counted ...
NextTemplate ==
    /\ turn' = (turn + 1) % Cycle
    /\ paid' \in {Due, "nobody"}

\* ... and the job is given up.
GiveUp ==
    /\ paid' = "nobody"
    /\ UNCHANGED turn

Next == NextTemplate \/ GiveUp

Spec == Init /\ [][Next]_<<turn, paid>>
=============================================================================
