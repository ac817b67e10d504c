---------------------------- MODULE MCGpuKernel ----------------------------
(***************************************************************************)
(* GpuKernel for TLC: two groups of two items, two jobs with a solution of *)
(* their own (and nonce 0 for one of them), two launches.                  *)
(***************************************************************************)
EXTENDS GpuKernel

CONSTANTS a, b

Cuda   == [api |-> "cuda", block |-> 2, units |-> 1, absolute |-> FALSE, num |-> 2, den |-> 1,
           group |-> 2, experimental_amd |-> FALSE, listed |-> FALSE]
OpenCL == [Cuda EXCEPT !.api = "opencl"]

\* Three nonces in blocks of two, by number or by ratio.
Tails == {[Cuda EXCEPT !.absolute = TRUE, !.num = 3],
          [Cuda EXCEPT !.num = 3, !.den = 2]}

MCSetups == Tails \cup
    {Cuda, OpenCL,
     [OpenCL EXCEPT !.group = 4],
     [OpenCL EXCEPT !.absolute = TRUE, !.num = 3, !.group = 1],
     [OpenCL EXCEPT !.experimental_amd = TRUE, !.listed = TRUE],
     [OpenCL EXCEPT !.experimental_amd = TRUE]}

MCSolves == {<<a, 1>>, <<b, 2>>, <<b, 0>>}
=============================================================================
