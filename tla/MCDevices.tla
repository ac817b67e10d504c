----------------------------- MODULE MCDevices -----------------------------
(***************************************************************************)
(* Devices for TLC: NVIDIA GPUs n1, n2 of one model, n3 of another and n4  *)
(* without the brand in its name, an AMD GPU a1 and an integrated one i1,  *)
(* in 24 machines; and command lines that choose GPUs, platforms and       *)
(* values per GPU.                                                         *)
(***************************************************************************)
EXTENDS Devices

CONSTANTS n1, n2, n3, n4, a1, i1
MCGpus == {n1, n2, n3, n4, a1, i1}
MCNames == {"nvidia a", "nvidia b", "titan", "amd", "intel"}
MCBranded == {"nvidia a", "nvidia b"}
MCName == [g \in MCGpus |->
    CASE g \in {n1, n2} -> "nvidia a" [] g = n3 -> "nvidia b" [] g = n4 -> "titan"
      [] g = a1 -> "amd" [] g = i1 -> "intel"]

\* Of n1; the other GPUs are of compute capability 8.6.  3.5 is not supported.
Capabilities == {<<3, 5>>, <<5, 0>>, <<5, 2>>, <<5, 3>>, <<6, 0>>, <<6, 1>>, <<6, 2>>, <<7, 0>>,
    <<7, 2>>, <<7, 5>>, <<8, 0>>, <<8, 6>>, <<8, 7>>, <<8, 9>>, <<9, 0>>, <<10, 0>>, <<12, 0>>}
On(amd, devices) == [amd |-> amd, devices |-> devices]
Machine(cuda, platforms, capability) ==
    [cuda |-> cuda, platforms |-> platforms,
     capability |-> [g \in MCGpus |-> IF g = n1 THEN capability ELSE <<8, 6>>]]
MCMachines ==
    {Machine(<<n1>>, <<On(FALSE, <<n1>>)>>, c) : c \in Capabilities} \cup
    {Machine(<<n1, n2>>, <<On(FALSE, <<n1, n2>>)>>, <<7, 0>>),
     Machine(<<n1, n3>>, <<On(FALSE, <<n1, n3>>)>>, <<7, 0>>),
     Machine(<<n1, n3>>, <<On(FALSE, <<n3, n1>>)>>, <<7, 0>>),
     Machine(<<n1, n4>>, <<On(FALSE, <<i1>>), On(FALSE, <<n1, n4>>)>>, <<7, 5>>),
     Machine(<<n1>>, <<On(FALSE, <<n1>>), On(TRUE, <<a1>>), On(TRUE, <<>>)>>, <<7, 5>>),
     Machine(<<>>, <<On(TRUE, <<a1>>)>>, <<7, 5>>),
     Machine(<<n1, n3>>, <<>>, <<7, 5>>)}

Default == [cuda_disable |-> FALSE, cuda_device |-> <<>>, kernel_variant |-> <<>>,
    power_limits |-> <<>>, autotune_max |-> <<>>, opencl_disable |-> FALSE,
    opencl_platform |-> <<>>, opencl_amd_disable |-> FALSE, opencl_device |-> <<>>,
    num_threads |-> 0]
MCOptions ==
    {[Default EXCEPT !.cuda_device = c, !.opencl_device = o] :
        c \in {<<>>, <<1>>, <<1, 0>>, <<0, 0>>}, o \in {<<>>, <<1>>}} \cup
    {[Default EXCEPT !.cuda_device = c, !.power_limits = l, !.autotune_max = m] :
        c \in {<<>>, <<1>>, <<1, 0>>}, l \in {<<3>>, <<2, 3>>}, m \in {<<>>, <<4>>}} \cup
    {[Default EXCEPT !.cuda_disable = c, !.opencl_disable = o, !.num_threads = n] :
        c, o \in BOOLEAN, n \in 0..1} \cup
    {[Default EXCEPT !.opencl_platform = p, !.opencl_amd_disable = a,
                     !.kernel_variant = <<"baseline", "high-occupancy">>] :
        p \in {<<>>, <<1>>}, a \in BOOLEAN}
=============================================================================
