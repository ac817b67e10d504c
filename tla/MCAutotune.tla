----------------------------- MODULE MCAutotune -----------------------------
(***************************************************************************)
(* Autotune for TLC: seven limits, the configured bounds inside those of   *)
(* the hardware on both sides, a step that does not divide their distance, *)
(* and efficiency curves with every peak and three pairs of slopes.        *)
(***************************************************************************)
EXTENDS Autotune

Slopes == {<<1, 1>>, <<1, 3>>, <<3, 1>>}
MCCurves ==
    {[l \in HwMin..HwMax |-> 30 - (IF l < p THEN s[1] * (p - l) ELSE s[2] * (l - p))]
        : p \in HwMin..HwMax, s \in Slopes}
=============================================================================
