------------------------------ MODULE Devices ------------------------------
(***************************************************************************)
(* From the command line to the GPU threads: plugins are loaded and read   *)
(* their options (src/lib.rs and the lib.rs of both plugins), the manager  *)
(* of every connection plans which spec is whose fallback (src/miner.rs),  *)
(* and a thread per planned spec builds a worker and, when that fails, its *)
(* fallback.  What a thread does with its worker is in MinerPool.          *)
(*                                                                         *)
(* A spec's id is what it is matched by: a slot and a name.  Of the        *)
(* options that are lists per GPU, kernel variants, power limits and the   *)
(* autotuner's ceilings stand for all.  Indices on the command line exist; *)
(* CUDA and NVML number GPUs alike.                                        *)
(***************************************************************************)
EXTENDS Naturals, Sequences, FiniteSets

CONSTANTS
    Gpus,          \* the GPUs of all machines
    Names,
    Name,          \* of a GPU: CUDA and OpenCL agree on it
    Branded,       \* the names that contain "nvidia"
    Machines,      \* [cuda, platforms, capability], see DevicesAssumption
    Options,       \* command lines
    NoLimit        \* a power no limit reaches

ASSUME DevicesAssumption ==
    /\ Name \in [Gpus -> Names]
    /\ Branded \subseteq Names
    /\ NoLimit \in Nat
    /\ \A m \in Machines :
        /\ m.cuda \in Seq(Gpus)
        /\ m.platforms \in Seq([amd : BOOLEAN, devices : Seq(Gpus)])
        /\ \A i, j \in 1..Len(m.cuda) : m.cuda[i] = m.cuda[j] => i = j
        /\ m.capability \in [Gpus -> Nat \X Nat]
    /\ \A o \in Options :
        /\ {o.cuda_device, o.opencl_device, o.opencl_platform} \subseteq Seq(Nat)
        /\ o.power_limits \in Seq(0..NoLimit)

VARIABLES
    machine, opt,      \* what the miner is started on, and how
    phase,             \* main: "load", "options", "refused", "connect", "mining"
    todo,              \* plugins yet to be loaded, or to read their options
    plugins,           \* PluginManager.plugins
    enabled, specs,    \* of each plugin
    count,             \* what process_options counts
    power,             \* the power limits set on GPUs at start
    threads            \* GPU threads of the connection

start   == <<machine, opt>>
manager == <<plugins, enabled, specs, count, power>>
vars    == <<machine, opt, phase, todo, plugins, enabled, specs, count, power, threads>>

Plugins == {"cuda", "opencl"}

\* Values for the i-th GPU that is used: the i-th of the list, else its last.
Pick(values, i, default) ==
    IF values = <<>> THEN default
    ELSE values[IF i <= Len(values) THEN i ELSE Len(values)]

-----------------------------------------------------------------------------
(* The specs of the two plugins.  GPUs are counted from 0 on the command   *)
(* line.                                                                   *)

CudaGpus ==
    IF opt.cuda_device = <<>> THEN [i \in 1..Len(machine.cuda) |-> i - 1] ELSE opt.cuda_device

\* A faulty variant: CeilingKept breaks when the GPU's index is taken for its position.
CeilingByIndex(i) == Pick(opt.autotune_max, CudaGpus[i] + 1,
                          Pick(opt.power_limits, CudaGpus[i] + 1, NoLimit))

\* An explicit power limit is the autotuner's ceiling if there is no other.
Ceiling(i) == Pick(opt.autotune_max, i, Pick(opt.power_limits, i, NoLimit))

CudaSpecs == [i \in 1..Len(CudaGpus) |->
    LET gpu == machine.cuda[CudaGpus[i] + 1] IN
    [plugin |-> "cuda", pos |-> i, gpu |-> gpu, slot |-> CudaGpus[i], name |-> Name[gpu],
     variant |-> Pick(opt.kernel_variant, i, "baseline"), max_power_w |-> Ceiling(i)]]

AmdPlatforms == {p \in 1..Len(machine.platforms) :
    machine.platforms[p].amd /\ machine.platforms[p].devices # <<>>}
Platform ==
    CASE opt.opencl_platform # <<>> -> opt.opencl_platform[1] + 1
      [] opt.opencl_platform = <<>> /\ ~opt.opencl_amd_disable /\ AmdPlatforms # {} ->
            CHOOSE p \in AmdPlatforms : \A q \in AmdPlatforms : p <= q
      [] OTHER -> 1

\* The slot is the position among the GPUs that are used, whatever their index.
OpenCLSpecs ==
    LET devices == machine.platforms[Platform].devices
        used == IF opt.opencl_device = <<>> THEN [i \in 1..Len(devices) |-> i - 1]
                ELSE opt.opencl_device
    IN [i \in 1..Len(used) |->
            LET gpu == devices[used[i] + 1] IN
            [plugin |-> "opencl", pos |-> i, gpu |-> gpu, slot |-> i - 1, name |-> Name[gpu],
             variant |-> "baseline", max_power_w |-> NoLimit]]

-----------------------------------------------------------------------------
(* plan_gpu_specs.                                                         *)

\* PluginManager::build, plugin by plugin.
Built ==
    LET of(i) == IF i <= Len(plugins) /\ enabled[plugins[i]] THEN specs[plugins[i]] ELSE <<>>
    IN of(1) \o of(2)

\* Faulty variants, each of which breaks the property it is named with.
\*   FallsBackOnSameGpu: GPUs are matched by their slots alone.
KeySlotOnly(spec) == <<spec.slot>>
\*   TypeOK: every spec is kept, also those with the same key.
FirstAlways(all, i) == TRUE

Key(spec) == <<spec.slot, spec.name>>

\* or_insert: of specs with the same key the first is kept.
First(all, i) == \A j \in 1..(i - 1) :
    all[j].plugin = all[i].plugin => Key(all[j]) # Key(all[i])

\* NVIDIA's GPUs, by their name, that a plugin offers.
Nvidia(all, plugin) ==
    {all[i] : i \in {i \in 1..Len(all) :
        all[i].plugin = plugin /\ all[i].name \in Branded /\ First(all, i)}}

\* Faulty variants of Leftover.
\*   NoneForgotten: a CUDA spec without an OpenCL one is dropped.
LeftoverNone(all) == {}
\*   NoGpuTwice: the map is read, and nothing removed from it.
LeftoverAll(all) == {<<spec, {}>> : spec \in Nvidia(all, "cuda")}

Fallbacks(all, primary) == {spec \in Nvidia(all, "cuda") : Key(spec) = Key(primary)}

Others(all) == {<<all[i], {}>> : i \in {i \in 1..Len(all) : all[i].name \notin Branded}}
Paired(all) == {<<spec, Fallbacks(all, spec)>> : spec \in Nvidia(all, "opencl")}
Leftover(all) == {<<spec, {}>> : spec \in
    {c \in Nvidia(all, "cuda") : \A o \in Nvidia(all, "opencl") : Key(o) # Key(c)}}
Plan(all) == Others(all) \cup Paired(all) \cup Leftover(all)

-----------------------------------------------------------------------------
(* The kernel CudaGPUWorker::new loads: the first rule that the compute    *)
(* capability meets, 99 for any minor number.                              *)

\* A faulty variant: KernelFits breaks when the minor number is not looked at.
KernelRulesMajor == <<
    [major |-> 9, minor |-> 99, ptx |-> 90], [major |-> 8, minor |-> 99, ptx |-> 89],
    [major |-> 7, minor |-> 99, ptx |-> 75], [major |-> 6, minor |-> 99, ptx |-> 62],
    [major |-> 5, minor |-> 99, ptx |-> 52]>>

KernelRules == <<
    [major |-> 9, minor |-> 99, ptx |-> 90], [major |-> 8, minor |-> 9, ptx |-> 89],
    [major |-> 8, minor |-> 7, ptx |-> 87],  [major |-> 8, minor |-> 6, ptx |-> 86],
    [major |-> 8, minor |-> 0, ptx |-> 80],  [major |-> 7, minor |-> 5, ptx |-> 75],
    [major |-> 7, minor |-> 2, ptx |-> 72],  [major |-> 7, minor |-> 0, ptx |-> 70],
    [major |-> 6, minor |-> 2, ptx |-> 62],  [major |-> 6, minor |-> 1, ptx |-> 61],
    [major |-> 6, minor |-> 0, ptx |-> 60],  [major |-> 5, minor |-> 2, ptx |-> 52],
    [major |-> 5, minor |-> 99, ptx |-> 50]>>

Kernel(gpu) ==
    LET major == machine.capability[gpu][1]
        minor == machine.capability[gpu][2]
        met == {r \in 1..Len(KernelRules) :
            major >= KernelRules[r].major /\ KernelRules[r].minor \in {minor, 99}}
    IN IF met = {} THEN 0
       ELSE KernelRules[CHOOSE r \in met : \A q \in met : r <= q].ptx

\* A GPU that is too old for every kernel cannot be built; others may fail as well.
Buildable(spec) == spec.plugin = "cuda" => Kernel(spec.gpu) # 0

-----------------------------------------------------------------------------
Init ==
    /\ machine \in Machines
    /\ opt \in Options
    /\ \A i \in 1..Len(opt.cuda_device) : opt.cuda_device[i] < Len(machine.cuda)
    /\ opt.opencl_platform # <<>> => opt.opencl_platform[1] < Len(machine.platforms)
    /\ opt.opencl_device # <<>> =>
        /\ machine.platforms # <<>>
        /\ \A i \in 1..Len(opt.opencl_device) :
            opt.opencl_device[i] < Len(machine.platforms[Platform].devices)
    /\ phase = "load"
    /\ todo \in {<<>>, <<"cuda">>, <<"opencl">>, <<"cuda", "opencl">>, <<"opencl", "cuda">>}
    /\ plugins = <<>>
    /\ enabled = [p \in Plugins |-> FALSE]
    /\ specs = [p \in Plugins |-> <<>>]
    /\ count = 0
    /\ power = [g \in Gpus |-> NoLimit]
    /\ threads = {}

-----------------------------------------------------------------------------
(* Start-up.                                                               *)

\* load_single_plugin: a library that does not load, or whose constructor fails, is
\* skipped.
LoadPlugin ==
    /\ phase = "load"
    /\ todo # <<>>
    /\ todo' = Tail(todo)
    /\ plugins' \in {plugins, Append(plugins, Head(todo))}
    /\ UNCHANGED <<start, phase, enabled, specs, count, power, threads>>

ParseCommandLine ==
    /\ phase = "load"
    /\ todo = <<>>
    /\ phase' = "options"
    /\ todo' = plugins
    /\ UNCHANGED <<start, manager, threads>>

Reads(plugin) ==
    /\ phase = "options"
    /\ todo # <<>>
    /\ Head(todo) = plugin
    /\ todo' = Tail(todo)
    /\ UNCHANGED <<start, phase, plugins, threads>>

\* The static power limits of the first n GPUs; those that NVML refuses are logged.
SetLimits(n, refused) ==
    power' = [g \in Gpus |->
        LET of == {i \in (1..n) \ refused : machine.cuda[CudaGpus[i] + 1] = g}
        IN IF of = {} THEN power[g]
           ELSE Pick(opt.power_limits, CHOOSE i \in of : \A j \in of : j <= i, NoLimit)]

CudaOptions ==
    /\ Reads("cuda")
    /\ ~opt.cuda_disable
    /\ enabled' = [enabled EXCEPT !["cuda"] = TRUE]
    /\ \/ /\ opt.power_limits # <<>>
          /\ \E refused \in SUBSET (1..Len(CudaGpus)) : SetLimits(Len(CudaGpus), refused)
       \/ opt.power_limits = <<>> /\ UNCHANGED power
    /\ specs' = [specs EXCEPT !["cuda"] = CudaSpecs]
    /\ count' = count + Len(CudaSpecs)

\* A faulty variant: CountIsBuilt breaks when the specs are made first.
CudaOptionsFailLate ==
    /\ Reads("cuda")
    /\ ~opt.cuda_disable
    /\ opt.power_limits # <<>>
    /\ enabled' = [enabled EXCEPT !["cuda"] = TRUE]
    /\ specs' = [specs EXCEPT !["cuda"] = CudaSpecs]
    /\ UNCHANGED <<count, power>>

\* NVML does not find a GPU, or cannot name one it has set: the plugin is enabled, and
\* has nothing to offer.
CudaOptionsFail ==
    /\ Reads("cuda")
    /\ ~opt.cuda_disable
    /\ opt.power_limits # <<>> /\ CudaGpus # <<>>
    /\ enabled' = [enabled EXCEPT !["cuda"] = TRUE]
    /\ \E n \in 0..Len(CudaGpus), refused \in SUBSET (1..Len(CudaGpus)) :
            SetLimits(n, refused)
    /\ UNCHANGED <<specs, count>>

CudaDisabled ==
    /\ Reads("cuda")
    /\ opt.cuda_disable
    /\ enabled' = [enabled EXCEPT !["cuda"] = FALSE]
    /\ UNCHANGED <<specs, count, power>>

OpenCLOptions ==
    /\ Reads("opencl")
    /\ ~opt.opencl_disable
    /\ machine.platforms # <<>>
    /\ enabled' = [enabled EXCEPT !["opencl"] = TRUE]
    /\ specs' = [specs EXCEPT !["opencl"] = OpenCLSpecs]
    /\ count' = count + Len(OpenCLSpecs)
    /\ UNCHANGED power

\* Disabled, no runtime, or no platform.
OpenCLOff ==
    /\ Reads("opencl")
    /\ enabled' = [enabled EXCEPT !["opencl"] = FALSE]
    /\ specs' = [specs EXCEPT !["opencl"] = <<>>]
    /\ UNCHANGED <<count, power>>

\* main: without GPU workers or CPU threads it returns an error.
CheckWorkers ==
    /\ phase = "options"
    /\ todo = <<>>
    /\ phase' = IF count = 0 /\ opt.num_threads = 0 THEN "refused" ELSE "connect"
    /\ UNCHANGED <<start, todo, manager, threads>>

-----------------------------------------------------------------------------
(* Connections and their GPU threads.                                      *)

\* MinerManager::new.
Connect ==
    /\ phase = "connect"
    /\ phase' = "mining"
    /\ threads' = {[primary |-> pair[1], fallback |-> pair[2], runs |-> "none"] :
                    pair \in Plan(Built)}
    /\ UNCHANGED <<start, todo, manager>>

Becomes(t, runs) ==
    /\ threads' = (threads \ {t}) \cup {[t EXCEPT !.runs = runs]}
    /\ UNCHANGED <<start, phase, todo, manager>>

Builds(t) ==
    /\ t.runs = "none"
    /\ Buildable(t.primary)
    /\ Becomes(t, "primary")

\* The primary cannot be built, or fails later.
FallsBack(t) ==
    /\ t.runs \in {"none", "primary"}
    /\ \E spec \in t.fallback : Buildable(spec)
    /\ Becomes(t, "fallback")

\* Nothing is left to build, or the fallback cannot be built either.
Ends(t) ==
    /\ t.runs # "ended"
    /\ Becomes(t, "ended")

Hangup ==
    /\ phase = "mining"
    /\ phase' = "connect"
    /\ threads' = {}
    /\ UNCHANGED <<start, todo, manager>>

Next ==
    \/ LoadPlugin \/ ParseCommandLine
    \/ CudaOptions \/ CudaOptionsFail \/ CudaDisabled \/ OpenCLOptions \/ OpenCLOff
    \/ CheckWorkers \/ Connect \/ Hangup
    \/ \E t \in threads : Builds(t) \/ FallsBack(t) \/ Ends(t)

Spec == Init /\ [][Next]_vars

-----------------------------------------------------------------------------
(* Properties.                                                             *)

Running(t) ==
    CASE t.runs = "primary" -> {t.primary}
      [] t.runs = "fallback" -> t.fallback
      [] OTHER -> {}

\* Every variable keeps its type; a thread has at most one fallback.
TypeOK ==
    /\ phase \in {"load", "options", "refused", "connect", "mining"}
    /\ todo \in Seq(Plugins) /\ plugins \in Seq(Plugins)
    /\ enabled \in [Plugins -> BOOLEAN]
    /\ \A p \in Plugins : \A i \in 1..Len(specs[p]) : specs[p][i].plugin = p
    /\ count \in Nat
    /\ power \in [Gpus -> Nat]
    /\ \A t \in threads : t.runs \in {"none", "primary", "fallback", "ended"}
                        /\ Cardinality(t.fallback) <= 1

\* What main counts before it starts is what every connection builds, although the
\* one is read from process_option's results and the other from enabled plugins:
\* "No workers specified" is said exactly when there are none.
CountIsBuilt ==
    phase \in {"refused", "connect", "mining"} =>
        /\ count = Len(Built)
        /\ phase = "refused" <=> count = 0 /\ opt.num_threads = 0

\* What a slot and a name need to tell a GPU: names that differ, or two plugins that
\* use the same GPUs in the same order.
Offered(plugin) == {specs[plugin][i] : i \in 1..Len(specs[plugin])}
NamesDiffer == \A p, q \in Plugins : \A a \in Offered(p), b \in Offered(q) :
    a.gpu # b.gpu => Name[a.gpu] # Name[b.gpu]
SameUse ==
    /\ opt.cuda_device = <<>> /\ opt.opencl_device = <<>>
    /\ machine.platforms # <<>>
    /\ machine.platforms[Platform].devices = machine.cuda

\* A thread falls back on its own GPU, whichever GPUs the two plugins were told to use.
FallsBackOnSameGpu ==
    NamesDiffer \/ SameUse =>
        \A t \in threads : \A spec \in t.fallback : spec.gpu = t.primary.gpu

\* Every GPU a plugin offers is in the care of a thread, although two maps are merged
\* and entries of both are dropped.
NoneForgotten ==
    phase = "mining" /\ (NamesDiffer \/ SameUse) =>
        \A p \in Plugins : \A spec \in Offered(p) :
            \E t \in threads : t.primary.gpu = spec.gpu

\* No two threads run on the same GPU, whoever has fallen back and whoever has not
\* (the GPUs' names carry the brand the plan looks for).
NoGpuTwice ==
    SameUse /\ (\A i \in 1..Len(machine.cuda) : Name[machine.cuda[i]] \in Branded) =>
        \A t, u \in threads : t # u =>
            \A a \in Running(t), b \in Running(u) : a.gpu # b.gpu

\* No GPU is named twice on the command line.
UsedOnce == \A i, j \in 1..Len(CudaGpus) : i # j => CudaGpus[i] # CudaGpus[j]

\* The autotuner of a running worker does not go above the power limit its GPU was
\* given at start, when no ceiling of its own was asked for (plugins/cuda/src/lib.rs:55).
CeilingKept ==
    opt.autotune_max = <<>> /\ UsedOnce =>
        \A t \in threads : \A spec \in Running(t) :
            spec.plugin = "cuda" => spec.max_power_w <= power[spec.gpu]

\* A worker runs a kernel its GPU understands, never one newer than its compute
\* capability; and a GPU that there is a kernel for gets that one, whatever rules for
\* older and newer ones stand around its own.  (A capability without a kernel, 8.8 say,
\* may end at one of a much older generation.)
KernelFits ==
    \A t \in threads : \A spec \in Running(t) : spec.plugin = "cuda" =>
        LET major == machine.capability[spec.gpu][1]
            minor == machine.capability[spec.gpu][2]
            capability == 10 * major + minor
        IN /\ Kernel(spec.gpu) <= capability
           /\ minor < 10 /\ (\E r \in 1..Len(KernelRules) : KernelRules[r].ptx = capability)
                => Kernel(spec.gpu) = capability

=============================================================================
