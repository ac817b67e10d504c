---------------------------- MODULE Devices_proofs ----------------------------
(***************************************************************************)
(* Proofs about the plan of GPUs, for any machines, names and options.     *)
(***************************************************************************)
EXTENDS Devices, SequenceTheorems, FiniteSetTheorems, WellFoundedInduction, TLAPS

-----------------------------------------------------------------------------
(* The inductive invariant.                                                *)

Started ==
    /\ machine \in Machines
    /\ opt \in Options
    /\ \A i \in 1..Len(opt.cuda_device) : opt.cuda_device[i] < Len(machine.cuda)
    /\ opt.opencl_platform # <<>> => opt.opencl_platform[1] < Len(machine.platforms)
    /\ todo \in Seq(Plugins) /\ plugins \in Seq(Plugins)

\* A plugin has no specs, or those its options say.
SpecsMade ==
    /\ DOMAIN specs = Plugins
    /\ specs["cuda"] \in {<<>>, CudaSpecs}
    /\ specs["opencl"] = <<>> \/ (machine.platforms # <<>> /\ specs["opencl"] = OpenCLSpecs)

\* A thread that falls back goes from an OpenCL spec to the CUDA one with the same key.
ThreadsMade ==
    \A t \in threads :
        /\ phase = "mining"
        /\ \A spec \in t.fallback :
            /\ spec \in Offered("cuda")
            /\ t.primary \in Offered("opencl")
            /\ Key(spec) = Key(t.primary)

IInv == Started /\ SpecsMade /\ ThreadsMade

-----------------------------------------------------------------------------
(* Specs.                                                                  *)

\* The chosen CUDA devices are a sequence of indices.
LEMMA CudaGpusType ==
    ASSUME Started
    PROVE  CudaGpus \in Seq(Nat) /\ Len(CudaGpus) \in Nat
  <1>1. machine.cuda \in Seq(Gpus) /\ opt.cuda_device \in Seq(Nat)
    BY DevicesAssumption DEF Started
  <1>2. Len(machine.cuda) \in Nat
    BY <1>1, LenProperties
  <1>3. CASE opt.cuda_device = <<>>
    BY <1>2, <1>3 DEF CudaGpus
  <1>4. CASE opt.cuda_device # <<>>
    BY <1>1, <1>4 DEF CudaGpus
  <1> QED BY <1>3, <1>4, LenProperties

\* ... of GPUs there are.
LEMMA CudaGpusInRange ==
    ASSUME Started, NEW i \in 1..Len(CudaGpus)
    PROVE  CudaGpus[i] + 1 \in 1..Len(machine.cuda)
  <1>1. /\ machine.cuda \in Seq(Gpus) /\ opt.cuda_device \in Seq(Nat)
        /\ Len(machine.cuda) \in Nat /\ Len(opt.cuda_device) \in Nat
    BY DevicesAssumption, LenProperties DEF Started
  <1>2. CASE opt.cuda_device = <<>>
    <2>1. CudaGpus = [j \in 1..Len(machine.cuda) |-> j - 1]
      BY <1>2 DEF CudaGpus
    <2>2. Len(CudaGpus) = Len(machine.cuda)
      BY <1>1, <2>1
    <2> QED BY <1>1, <2>1, <2>2
  <1>3. CASE opt.cuda_device # <<>>
    <2>1. CudaGpus = opt.cuda_device
      BY <1>3 DEF CudaGpus
    <2>2. CudaGpus[i] \in Nat /\ CudaGpus[i] < Len(machine.cuda)
      BY <1>1, <2>1, ElementOfSeq DEF Started
    <2> QED BY <1>1, <2>2
  <1> QED BY <1>2, <1>3

\* What a CUDA spec says of its GPU.
LEMMA CudaOffer ==
    ASSUME IInv, NEW spec \in Offered("cuda")
    PROVE  /\ spec.plugin = "cuda" /\ spec.name = Name[spec.gpu] /\ spec.gpu \in Gpus
           /\ opt.cuda_device = <<>> => spec.gpu = machine.cuda[spec.slot + 1]
  <1>1. CudaGpus \in Seq(Nat) /\ Len(CudaGpus) \in Nat
    BY CudaGpusType DEF IInv
  <1>2. specs["cuda"] = CudaSpecs
    BY DEF IInv, SpecsMade, Offered
  <1>3. PICK i \in 1..Len(CudaSpecs) : spec = CudaSpecs[i]
    BY <1>2 DEF Offered
  <1>4. i \in 1..Len(CudaGpus)
    BY <1>1, <1>3 DEF CudaSpecs
  <1>5. /\ spec.plugin = "cuda" /\ spec.slot = CudaGpus[i]
        /\ spec.gpu = machine.cuda[CudaGpus[i] + 1] /\ spec.name = Name[spec.gpu]
    BY <1>3, <1>4 DEF CudaSpecs
  <1>6. CudaGpus[i] + 1 \in 1..Len(machine.cuda)
    BY <1>1, <1>4, CudaGpusInRange DEF IInv
  <1>7. machine.cuda \in Seq(Gpus)
    BY DevicesAssumption DEF IInv, Started
  <1> QED BY <1>5, <1>6, <1>7, ElementOfSeq

\* A set of numbers that is not empty has a smallest one.
LEMMA Smallest ==
    ASSUME NEW T, T \subseteq Nat, T # {}
    PROVE  \E x \in T : \A y \in T : x <= y
  <1>1. PICK x \in T : \A y \in T : <<y, x>> \notin OpToRel(<, Nat)
    BY NatLessThanWellFounded, WFMin
  <1>2. \A y \in T : ~(y < x)
    BY <1>1 DEF OpToRel
  <1>3. \A y \in T : x <= y
    <2>1. SUFFICES ASSUME NEW y \in T PROVE x <= y
      OBVIOUS
    <2>2. x \in Nat /\ y \in Nat /\ ~(y < x)
      BY <1>2
    <2> QED BY <2>2
  <1> QED BY <1>3

\* There is a platform to mine on, and its devices are GPUs.
LEMMA PlatformType ==
    ASSUME Started, machine.platforms # <<>>
    PROVE  machine.platforms[Platform].devices \in Seq(Gpus)
  <1>1. /\ machine.platforms \in Seq([amd : BOOLEAN, devices : Seq(Gpus)])
        /\ opt.opencl_platform \in Seq(Nat)
    BY DevicesAssumption DEF Started
  <1>2. Len(machine.platforms) \in Nat \ {0}
    BY <1>1, LenProperties
  <1>3. Platform \in 1..Len(machine.platforms)
    <2>1. CASE opt.opencl_platform # <<>>
      <3>1. Len(opt.opencl_platform) \in Nat \ {0}
        BY <1>1, <2>1, LenProperties
      <3>2. opt.opencl_platform[1] \in Nat
        BY <1>1, <3>1, ElementOfSeq
      <3>3. Platform = opt.opencl_platform[1] + 1
        BY <2>1 DEF Platform
      <3> QED BY <1>2, <2>1, <3>2, <3>3 DEF Started
    <2>2. CASE opt.opencl_platform = <<>> /\ ~opt.opencl_amd_disable /\ AmdPlatforms # {}
      <3>1. AmdPlatforms \subseteq 1..Len(machine.platforms)
        BY DEF AmdPlatforms
      <3>2. \E p \in AmdPlatforms : \A q \in AmdPlatforms : p <= q
        <4>1. AmdPlatforms \subseteq Nat /\ AmdPlatforms # {}
          BY <1>2, <2>2, <3>1
        <4> QED BY <4>1, Smallest
      <3>3. Platform = CHOOSE p \in AmdPlatforms : \A q \in AmdPlatforms : p <= q
        BY <2>2 DEF Platform
      <3> QED BY <3>1, <3>2, <3>3
    <2>3. CASE ~(opt.opencl_platform # <<>>)
               /\ ~(opt.opencl_platform = <<>> /\ ~opt.opencl_amd_disable /\ AmdPlatforms # {})
      BY <1>2, <2>3 DEF Platform
    <2> QED BY <2>1, <2>2, <2>3
  <1>4. machine.platforms[Platform] \in [amd : BOOLEAN, devices : Seq(Gpus)]
    BY <1>1, <1>3, ElementOfSeq
  <1> QED BY <1>4

\* OpenCL's specs are a sequence.
LEMMA OpenCLIsSeq ==
    ASSUME Started, machine.platforms # <<>>
    PROVE  \E n \in Nat : /\ DOMAIN OpenCLSpecs = 1..n
                          /\ OpenCLSpecs = [i \in 1..n |-> OpenCLSpecs[i]]
                          /\ Len(OpenCLSpecs) = n
  <1> DEFINE devices == machine.platforms[Platform].devices
             used == IF opt.opencl_device = <<>> THEN [i \in 1..Len(devices) |-> i - 1]
                     ELSE opt.opencl_device
  <1>1. devices \in Seq(Gpus) /\ Len(devices) \in Nat
    BY PlatformType, LenProperties
  <1>2. Len(used) \in Nat
    <2>1. CASE opt.opencl_device = <<>>
      BY <1>1, <2>1
    <2>2. CASE opt.opencl_device # <<>>
      <3>1. opt.opencl_device \in Seq(Nat)
        BY DevicesAssumption DEF Started
      <3> QED BY <2>2, <3>1, LenProperties
    <2> QED BY <2>1, <2>2
  <1>3. DOMAIN OpenCLSpecs = 1..Len(used) /\ OpenCLSpecs = [i \in 1..Len(used) |-> OpenCLSpecs[i]]
    BY DEF OpenCLSpecs
  <1> HIDE DEF used
  <1>4. Len(OpenCLSpecs) = Len(used)
    BY <1>2, <1>3
  <1> QED BY <1>2, <1>3, <1>4

\* What an OpenCL spec says of its GPU.
LEMMA OpenCLOffer ==
    ASSUME IInv, NEW spec \in Offered("opencl")
    PROVE  /\ spec.plugin = "opencl" /\ spec.name = Name[spec.gpu]
           /\ opt.opencl_device = <<>> =>
                spec.gpu = machine.platforms[Platform].devices[spec.slot + 1]
  <1> DEFINE devices == machine.platforms[Platform].devices
             used == IF opt.opencl_device = <<>> THEN [i \in 1..Len(devices) |-> i - 1]
                     ELSE opt.opencl_device
  <1>1. machine.platforms # <<>> /\ specs["opencl"] = OpenCLSpecs
    BY DEF IInv, SpecsMade, Offered
  <1>2. devices \in Seq(Gpus) /\ Len(devices) \in Nat
    BY <1>1, PlatformType, LenProperties DEF IInv
  <1>3. used \in Seq(Nat) /\ Len(used) \in Nat
    <2>1. CASE opt.opencl_device = <<>>
      BY <1>2, <2>1
    <2>2. CASE opt.opencl_device # <<>>
      <3>1. opt.opencl_device \in Seq(Nat)
        BY DevicesAssumption DEF IInv, Started
      <3> QED BY <2>2, <3>1, LenProperties
    <2> QED BY <2>1, <2>2
  <1>4. PICK i \in 1..Len(OpenCLSpecs) : spec = OpenCLSpecs[i]
    BY <1>1 DEF Offered
  <1>5. OpenCLSpecs = [j \in 1..Len(used) |->
            [plugin |-> "opencl", pos |-> j, gpu |-> devices[used[j] + 1], slot |-> j - 1,
             name |-> Name[devices[used[j] + 1]], variant |-> "baseline",
             max_power_w |-> NoLimit]]
    BY DEF OpenCLSpecs
  <1> HIDE DEF devices
  <1>6. i \in 1..Len(used)
    <2> HIDE DEF used
    <2> QED BY <1>3, <1>4, <1>5
  <1>7. /\ spec.plugin = "opencl" /\ spec.slot = i - 1
        /\ spec.gpu = devices[used[i] + 1] /\ spec.name = Name[spec.gpu]
    <2> HIDE DEF used
    <2> QED BY <1>4, <1>5, <1>6
  <1>8. ASSUME opt.opencl_device = <<>>
        PROVE  spec.gpu = devices[spec.slot + 1]
    <2>1. i \in 1..Len(devices)
      BY <1>2, <1>6, <1>8
    <2>2. used[i] = i - 1
      BY <1>8, <2>1
    <2> QED BY <1>7, <2>1, <2>2
  <1> QED BY <1>7, <1>8 DEF devices

-----------------------------------------------------------------------------
(* Kernels.                                                                *)

\* The rules, spelled out.
LEMMA Rules ==
    /\ Len(KernelRules) = 13
    /\ \A r \in 1..13 :
        /\ KernelRules[r].ptx \in 50..90
        /\ KernelRules[r].minor = 99 \/ KernelRules[r].minor \in 0..9
        /\ KernelRules[r].major \in 5..9
        /\ KernelRules[r].minor # 99 =>
            KernelRules[r].ptx = 10 * KernelRules[r].major + KernelRules[r].minor
        /\ KernelRules[r].minor = 99 => KernelRules[r].ptx = 10 * KernelRules[r].major
    /\ \A q, r \in 1..13 : q < r => KernelRules[q].ptx > KernelRules[r].ptx
  BY DEF KernelRules

\* The rule a GPU ends at is the first that it meets.
LEMMA FirstRule ==
    ASSUME NEW gpu, machine.capability[gpu] \in Nat \X Nat, Kernel(gpu) # 0
    PROVE  LET Meets(r) == /\ machine.capability[gpu][1] >= KernelRules[r].major
                           /\ KernelRules[r].minor \in {machine.capability[gpu][2], 99}
           IN \E r \in 1..13 : /\ Kernel(gpu) = KernelRules[r].ptx /\ Meets(r)
                               /\ \A q \in 1..13 : Meets(q) => r <= q
  <1> DEFINE major == machine.capability[gpu][1]
             minor == machine.capability[gpu][2]
             Meets(r) == major >= KernelRules[r].major /\ KernelRules[r].minor \in {minor, 99}
             met == {r \in 1..13 : Meets(r)}
             first == CHOOSE r \in met : \A q \in met : r <= q
  <1>1. met # {} /\ Kernel(gpu) = KernelRules[first].ptx
    BY Rules DEF Kernel
  <1>2. \E r \in met : \A q \in met : r <= q
    <2>1. met \subseteq Nat
      OBVIOUS
    <2> HIDE DEF met
    <2> QED BY <1>1, <2>1, Smallest
  <1>3. first \in met /\ \A q \in met : first <= q
    BY <1>2
  <1> HIDE DEF first
  <1> QED BY <1>1, <1>3

\* A chain of >= and == ends at a kernel that is no newer than the GPU, and at the GPU's
\* own if there is one: the rules before that one are for kernels still newer.
LEMMA KernelOfGpu ==
    ASSUME NEW gpu, machine.capability[gpu] \in Nat \X Nat, Kernel(gpu) # 0
    PROVE  LET major == machine.capability[gpu][1]
               minor == machine.capability[gpu][2]
               capability == 10 * major + minor
           IN /\ Kernel(gpu) <= capability
              /\ minor < 10 /\ (\E r \in 1..Len(KernelRules) : KernelRules[r].ptx = capability)
                    => Kernel(gpu) = capability
  <1> DEFINE major == machine.capability[gpu][1]
             minor == machine.capability[gpu][2]
             capability == 10 * major + minor
             Meets(r) == major >= KernelRules[r].major /\ KernelRules[r].minor \in {minor, 99}
  <1>1. major \in Nat /\ minor \in Nat
    OBVIOUS
  <1>2. PICK r \in 1..13 : /\ Kernel(gpu) = KernelRules[r].ptx /\ Meets(r)
                           /\ \A q \in 1..13 : Meets(q) => r <= q
    BY FirstRule
  <1> HIDE DEF major, minor
  <1>3. Kernel(gpu) <= capability
    BY <1>1, <1>2, Rules
  <1>4. ASSUME minor < 10, NEW own \in 1..13, KernelRules[own].ptx = capability
        PROVE  Kernel(gpu) = capability
    <2>1. Meets(own)
      <3> DEFINE rule == KernelRules[own]
      <3>1. /\ rule.major \in 5..9 /\ (rule.minor = 99 \/ rule.minor \in 0..9)
            /\ rule.ptx = 10 * major + minor
            /\ rule.ptx = 10 * rule.major + (IF rule.minor = 99 THEN 0 ELSE rule.minor)
        BY <1>1, <1>4, Rules
      <3> HIDE DEF rule
      <3>2. rule.major = major /\ rule.minor \in {minor, 99}
        BY <1>1, <1>4, <3>1
      <3> QED BY <1>1, <3>2 DEF rule
    <2>2. r = own \/ r < own
      BY <1>2, <2>1
    <2>3. r < own => KernelRules[r].ptx > capability
      BY <1>4, Rules
    <2> QED BY <1>1, <1>2, <1>3, <1>4, <2>2, <2>3, Rules
  <1>5. /\ Kernel(gpu) <= capability
        /\ minor < 10 /\ (\E q \in 1..Len(KernelRules) : KernelRules[q].ptx = capability)
            => Kernel(gpu) = capability
    BY <1>3, <1>4, Rules
  <1> QED BY <1>5 DEF major, minor

-----------------------------------------------------------------------------
(* The plan.                                                               *)

\* What PluginManager::build returns is what the plugins offer.
LEMMA BuiltIsOffered ==
    ASSUME IInv
    PROVE  /\ Len(Built) \in Nat
           /\ \A i \in 1..Len(Built) : Built[i] \in Offered("cuda") \cup Offered("opencl")
  <1> DEFINE All == Offered("cuda") \cup Offered("opencl")
             of(i) == IF i <= Len(plugins) /\ enabled[plugins[i]] THEN specs[plugins[i]] ELSE <<>>
  <1>1. \A p \in Plugins : specs[p] \in Seq(All)
    <2>1. specs["cuda"] \in Seq(All)
      <3>1. CASE specs["cuda"] = <<>>
        BY <3>1
      <3>2. CASE specs["cuda"] = CudaSpecs
        <4>1. Len(CudaGpus) \in Nat
          BY CudaGpusType DEF IInv
        <4>2. \A i \in 1..Len(CudaSpecs) : CudaSpecs[i] \in All
          BY <3>2 DEF Offered
        <4>3. CudaSpecs = [i \in 1..Len(CudaGpus) |-> CudaSpecs[i]]
          BY DEF CudaSpecs
        <4> QED BY <3>2, <4>1, <4>2, <4>3
      <3> QED BY <3>1, <3>2 DEF IInv, SpecsMade
    <2>2. specs["opencl"] \in Seq(All)
      <3>1. CASE specs["opencl"] = <<>>
        BY <3>1
      <3>2. CASE machine.platforms # <<>> /\ specs["opencl"] = OpenCLSpecs
        <4>1. PICK n \in Nat : DOMAIN OpenCLSpecs = 1..n
          BY <3>2, OpenCLIsSeq DEF IInv
        <4> QED BY <3>2, <4>1, OpenCLIsSeq DEF Offered, IInv
      <3> QED BY <3>1, <3>2 DEF IInv, SpecsMade
    <2> QED BY <2>1, <2>2 DEF Plugins
  <1>2. of(1) \in Seq(All) /\ of(2) \in Seq(All)
    <2>1. plugins \in Seq(Plugins) /\ Len(plugins) \in Nat
      BY LenProperties DEF IInv, Started
    <2> QED BY <1>1, <2>1, ElementOfSeq
  <1>3. Built = of(1) \o of(2)
    BY DEF Built
  <1> HIDE DEF of, All
  <1>4. Built \in Seq(All)
    BY <1>2, <1>3, ConcatProperties
  <1> QED BY <1>4, ElementOfSeq, LenProperties DEF All

\* NVIDIA's GPUs of a plugin are among what it offers.
LEMMA NvidiaIsOffered ==
    ASSUME IInv
    PROVE  /\ \A c \in Nvidia(Built, "cuda") : c \in Offered("cuda")
           /\ \A o \in Nvidia(Built, "opencl") : o \in Offered("opencl")
  <1>1. \A i \in 1..Len(Built) : Built[i] \in Offered("cuda") \cup Offered("opencl")
    BY BuiltIsOffered
  <1>2. \A spec \in Offered("cuda") : spec.plugin = "cuda"
    BY CudaOffer
  <1>3. \A spec \in Offered("opencl") : spec.plugin = "opencl"
    BY OpenCLOffer
  <1>4. ASSUME NEW c \in Nvidia(Built, "cuda") PROVE c \in Offered("cuda")
    <2>1. PICK i \in 1..Len(Built) : c = Built[i] /\ Built[i].plugin = "cuda"
      BY DEF Nvidia
    <2> QED BY <1>1, <1>3, <2>1
  <1>5. ASSUME NEW o \in Nvidia(Built, "opencl") PROVE o \in Offered("opencl")
    <2>1. PICK i \in 1..Len(Built) : o = Built[i] /\ Built[i].plugin = "opencl"
      BY DEF Nvidia
    <2> QED BY <1>1, <1>2, <2>1
  <1> QED BY <1>4, <1>5

\* A planned fallback is a CUDA spec, its primary an OpenCL one, and their keys agree.
LEMMA PlannedFallback ==
    ASSUME IInv, NEW pair \in Plan(Built), NEW spec \in pair[2]
    PROVE  /\ spec \in Offered("cuda") /\ pair[1] \in Offered("opencl")
           /\ Key(spec) = Key(pair[1])
  <1>1. pair \in Paired(Built)
    <2>1. pair \notin Others(Built)
      BY DEF Others
    <2>2. pair \notin Leftover(Built)
      BY DEF Leftover
    <2> QED BY <2>1, <2>2 DEF Plan
  <1>2. PICK o \in Nvidia(Built, "opencl") : pair = <<o, Fallbacks(Built, o)>>
    BY <1>1 DEF Paired
  <1>3. spec \in Nvidia(Built, "cuda") /\ Key(spec) = Key(o)
    BY <1>2 DEF Fallbacks
  <1> QED BY <1>2, <1>3, NvidiaIsOffered

\* Specs with the same key are the same GPU's, when GPUs can be told by their keys.
LEMMA KeyTellsGpu ==
    ASSUME IInv, NamesDiffer \/ SameUse,
           NEW c \in Offered("cuda"), NEW o \in Offered("opencl"), Key(c) = Key(o)
    PROVE  c.gpu = o.gpu
  <1>1. c.slot = o.slot /\ c.name = o.name
    BY DEF Key
  <1>2. /\ c.name = Name[c.gpu]
        /\ opt.cuda_device = <<>> => c.gpu = machine.cuda[c.slot + 1]
    BY CudaOffer
  <1>3. /\ o.name = Name[o.gpu]
        /\ opt.opencl_device = <<>> =>
                o.gpu = machine.platforms[Platform].devices[o.slot + 1]
    BY OpenCLOffer
  <1>4. CASE NamesDiffer
    BY <1>1, <1>2, <1>3, <1>4 DEF NamesDiffer, Plugins
  <1>5. CASE SameUse
    BY <1>1, <1>2, <1>3, <1>5 DEF SameUse
  <1> QED BY <1>4, <1>5

-----------------------------------------------------------------------------
(* The steps.                                                              *)

\* The miner starts with nothing loaded, offered or running.
LEMMA InitIInv == Init => IInv
  <1> SUFFICES ASSUME Init PROVE IInv
    OBVIOUS
  <1>1. Started
    <2>1. todo \in Seq(Plugins)
      <3>1. "cuda" \in Plugins /\ "opencl" \in Plugins
        BY DEF Plugins
      <3>2. <<>> \in Seq(Plugins)
        OBVIOUS
      <3>3. \A p \in Plugins : <<p>> \in Seq(Plugins)
        OBVIOUS
      <3>4. \A p, q \in Plugins : <<p, q>> \in Seq(Plugins)
        OBVIOUS
      <3>5. todo \in {<<>>, <<"cuda">>, <<"opencl">>, <<"cuda", "opencl">>,
                     <<"opencl", "cuda">>}
        BY DEF Init
      <3> QED BY <3>1, <3>2, <3>3, <3>4, <3>5
    <2> QED BY <2>1 DEF Init, Started
  <1>2. SpecsMade
    BY DEF Init, SpecsMade, Plugins
  <1>3. ThreadsMade
    BY DEF Init, ThreadsMade
  <1> QED BY <1>1, <1>2, <1>3 DEF IInv

\* What the options say of the specs does not change.
LEMMA FrameStart ==
    ASSUME UNCHANGED start
    PROVE  CudaSpecs' = CudaSpecs /\ OpenCLSpecs' = OpenCLSpecs /\ CudaGpus' = CudaGpus
  <1>1. machine' = machine /\ opt' = opt
    BY DEF start
  <1>2. CudaGpus' = CudaGpus
    BY <1>1 DEF CudaGpus
  <1>3. \A i : Ceiling(i)' = Ceiling(i)
    BY <1>1 DEF Ceiling
  <1>4. CudaSpecs' = CudaSpecs
    BY <1>1, <1>2, <1>3 DEF CudaSpecs
  <1>5. AmdPlatforms' = AmdPlatforms
    BY <1>1 DEF AmdPlatforms
  <1>6. Platform' = Platform
    BY <1>1, <1>5 DEF Platform
  <1>7. OpenCLSpecs' = OpenCLSpecs
    BY <1>1, <1>6 DEF OpenCLSpecs
  <1> QED BY <1>2, <1>4, <1>7

\* Specs stay made when nothing they depend on changes.
LEMMA FrameSpecs ==
    ASSUME SpecsMade, UNCHANGED <<start, specs>>
    PROVE  SpecsMade'
  BY FrameStart DEF SpecsMade, start

\* A plugin that reads its options does so when nothing runs.
LEMMA ReadsFrame ==
    ASSUME IInv, NEW plugin \in Plugins, Reads(plugin)
    PROVE  Started' /\ ThreadsMade' /\ UNCHANGED start
  <1>1. todo' \in Seq(Plugins)
    BY HeadTailProperties DEF IInv, Started, Reads
  <1>2. threads' = {}
    BY DEF IInv, ThreadsMade, Reads
  <1> QED BY <1>1, <1>2 DEF IInv, Started, ThreadsMade, Reads, start

\* Every step keeps the invariant.
LEMMA NextIInv == IInv /\ [Next]_vars => IInv'
  <1> SUFFICES ASSUME IInv, [Next]_vars PROVE IInv'
    OBVIOUS
  <1>1. CASE LoadPlugin
    <2>1. todo' \in Seq(Plugins) /\ plugins' \in Seq(Plugins)
      <3>1. todo \in Seq(Plugins) /\ todo # <<>> /\ plugins \in Seq(Plugins)
        BY <1>1 DEF LoadPlugin, IInv, Started
      <3>2. Head(todo) \in Plugins /\ Tail(todo) \in Seq(Plugins)
        BY <3>1, HeadTailProperties
      <3>3. Append(plugins, Head(todo)) \in Seq(Plugins)
        BY <3>1, <3>2, AppendProperties
      <3> QED BY <1>1, <3>1, <3>2, <3>3 DEF LoadPlugin
    <2>2. Started'
      BY <1>1, <2>1 DEF LoadPlugin, IInv, Started, start
    <2>3. SpecsMade'
      BY <1>1, FrameSpecs DEF LoadPlugin, IInv
    <2>4. ThreadsMade'
      BY <1>1 DEF LoadPlugin, IInv, ThreadsMade, Offered
    <2> QED BY <2>2, <2>3, <2>4 DEF IInv
  <1>2. CASE ParseCommandLine
    <2>1. Started'
      BY <1>2 DEF ParseCommandLine, IInv, Started, start, manager
    <2>2. SpecsMade'
      BY <1>2, FrameSpecs DEF ParseCommandLine, IInv, manager
    <2>3. ThreadsMade'
      BY <1>2 DEF ParseCommandLine, IInv, ThreadsMade
    <2> QED BY <2>1, <2>2, <2>3 DEF IInv
  <1>3. CASE CudaOptions
    <2>1. Started' /\ ThreadsMade' /\ UNCHANGED start
      BY <1>3, ReadsFrame DEF CudaOptions, Plugins
    <2>2. /\ DOMAIN specs' = Plugins
          /\ specs'["cuda"] = CudaSpecs /\ specs'["opencl"] = specs["opencl"]
      BY <1>3 DEF CudaOptions, IInv, SpecsMade, Plugins
    <2>3. CudaSpecs' = CudaSpecs /\ OpenCLSpecs' = OpenCLSpecs
      BY <2>1, FrameStart
    <2>4. SpecsMade'
      BY <2>1, <2>2, <2>3 DEF IInv, SpecsMade, start
    <2> QED BY <2>1, <2>4 DEF IInv
  <1>4. CASE CudaOptionsFail \/ CudaDisabled
    <2>1. Started' /\ ThreadsMade' /\ UNCHANGED start
      BY <1>4, ReadsFrame DEF CudaOptionsFail, CudaDisabled, Plugins
    <2>2. SpecsMade'
      BY <1>4, <2>1, FrameSpecs DEF CudaOptionsFail, CudaDisabled, IInv
    <2> QED BY <2>1, <2>2 DEF IInv
  <1>5. CASE OpenCLOptions \/ OpenCLOff
    <2>1. Started' /\ ThreadsMade' /\ UNCHANGED start
      BY <1>5, ReadsFrame DEF OpenCLOptions, OpenCLOff, Plugins
    <2>2. /\ DOMAIN specs' = Plugins
          /\ specs'["cuda"] = specs["cuda"]
          /\ \/ specs'["opencl"] = <<>>
             \/ machine.platforms # <<>> /\ specs'["opencl"] = OpenCLSpecs
      BY <1>5 DEF OpenCLOptions, OpenCLOff, IInv, SpecsMade, Plugins
    <2>3. CudaSpecs' = CudaSpecs /\ OpenCLSpecs' = OpenCLSpecs
      BY <2>1, FrameStart
    <2>4. SpecsMade'
      BY <2>1, <2>2, <2>3 DEF IInv, SpecsMade, start
    <2> QED BY <2>1, <2>4 DEF IInv
  <1>6. CASE CheckWorkers
    <2>1. Started'
      BY <1>6 DEF CheckWorkers, IInv, Started, start, manager
    <2>2. SpecsMade'
      BY <1>6, FrameSpecs DEF CheckWorkers, IInv, manager
    <2>3. ThreadsMade'
      BY <1>6 DEF CheckWorkers, IInv, ThreadsMade
    <2> QED BY <2>1, <2>2, <2>3 DEF IInv
  <1>7. CASE Connect
    <2>1. Started'
      BY <1>7 DEF Connect, IInv, Started, start, manager
    <2>2. SpecsMade'
      BY <1>7, FrameSpecs DEF Connect, IInv, manager
    <2>3. ThreadsMade'
      <3>1. SUFFICES ASSUME NEW t \in threads', NEW spec \in t.fallback
                     PROVE  /\ spec \in Offered("cuda")
                            /\ t.primary \in Offered("opencl")
                            /\ Key(spec) = Key(t.primary)
        BY <1>7 DEF Connect, ThreadsMade, Offered, manager
      <3>2. PICK pair \in Plan(Built) :
                t = [primary |-> pair[1], fallback |-> pair[2], runs |-> "none"]
        BY <1>7 DEF Connect
      <3>3. t.primary = pair[1] /\ spec \in pair[2]
        BY <3>2
      <3> QED BY <3>3, PlannedFallback
    <2> QED BY <2>1, <2>2, <2>3 DEF IInv
  <1>8. CASE Hangup
    <2>1. Started'
      BY <1>8 DEF Hangup, IInv, Started, start, manager
    <2>2. SpecsMade'
      BY <1>8, FrameSpecs DEF Hangup, IInv, manager
    <2>3. ThreadsMade'
      BY <1>8 DEF Hangup, ThreadsMade
    <2> QED BY <2>1, <2>2, <2>3 DEF IInv
  <1>9. ASSUME NEW t \in threads, Builds(t) \/ FallsBack(t) \/ Ends(t)
        PROVE  IInv'
    <2>1. PICK runs : Becomes(t, runs)
      BY <1>9 DEF Builds, FallsBack, Ends
    <2>2. Started'
      BY <2>1 DEF Becomes, IInv, Started, start, manager
    <2>3. SpecsMade'
      BY <2>1, FrameSpecs DEF Becomes, IInv, manager
    <2>4. ThreadsMade'
      <3>1. /\ phase' = phase /\ specs' = specs
            /\ threads' = (threads \ {t}) \cup {[t EXCEPT !.runs = runs]}
        BY <2>1 DEF Becomes, manager
      <3>2. Offered("cuda")' = Offered("cuda") /\ Offered("opencl")' = Offered("opencl")
        BY <3>1 DEF Offered
      <3>3. /\ [t EXCEPT !.runs = runs].primary = t.primary
            /\ [t EXCEPT !.runs = runs].fallback = t.fallback
        OBVIOUS
      <3> QED BY <3>1, <3>2, <3>3 DEF IInv, ThreadsMade
    <2> QED BY <2>2, <2>3, <2>4 DEF IInv
  <1>10. CASE UNCHANGED vars
    <2>1. Started'
      BY <1>10 DEF vars, IInv, Started
    <2>2. SpecsMade'
      BY <1>10, FrameSpecs DEF vars, IInv, start
    <2>3. ThreadsMade'
      BY <1>10 DEF vars, IInv, ThreadsMade, Offered
    <2> QED BY <2>1, <2>2, <2>3 DEF IInv
  <1> QED BY <1>1, <1>2, <1>3, <1>4, <1>5, <1>6, <1>7, <1>8, <1>9, <1>10 DEF Next

\* The keys of a thread's two specs tell that they are one GPU's.
LEMMA IInvFallsBack == IInv => FallsBackOnSameGpu
  <1> SUFFICES ASSUME IInv, NamesDiffer \/ SameUse,
                      NEW t \in threads, NEW spec \in t.fallback
               PROVE  spec.gpu = t.primary.gpu
    BY DEF FallsBackOnSameGpu
  <1>1. /\ spec \in Offered("cuda") /\ t.primary \in Offered("opencl")
        /\ Key(spec) = Key(t.primary)
    BY DEF IInv, ThreadsMade
  <1> QED BY <1>1, KeyTellsGpu

-----------------------------------------------------------------------------
(* What threads run.                                                       *)

\* A thread's specs are offered ones, with one fallback at most; what it runs could be
\* built.
ThreadsRun ==
    \A t \in threads :
        /\ t = [primary |-> t.primary, fallback |-> t.fallback, runs |-> t.runs]
        /\ t.primary \in Offered("cuda") \cup Offered("opencl")
        /\ \A a, b \in t.fallback : a = b
        /\ t.runs = "primary" => Buildable(t.primary)
        /\ t.runs = "fallback" => \A spec \in t.fallback : Buildable(spec)

\* The machine is what decides which kernel a GPU gets.
LEMMA FrameBuildable ==
    ASSUME UNCHANGED machine
    PROVE  \A spec : Buildable(spec)' <=> Buildable(spec)
  <1>1. \A gpu : Kernel(gpu)' = Kernel(gpu)
    BY DEF Kernel
  <1> QED BY <1>1 DEF Buildable

\* Of specs with one key, a plugin's first is the only one that is planned.
LEMMA OneFallback ==
    ASSUME IInv, NEW primary, NEW a \in Fallbacks(Built, primary),
           NEW b \in Fallbacks(Built, primary)
    PROVE  a = b
  <1>1. PICK i \in 1..Len(Built) : a = Built[i] /\ Built[i].plugin = "cuda" /\ First(Built, i)
    BY DEF Fallbacks, Nvidia
  <1>2. PICK j \in 1..Len(Built) : b = Built[j] /\ Built[j].plugin = "cuda" /\ First(Built, j)
    BY DEF Fallbacks, Nvidia
  <1>3. Key(Built[i]) = Key(Built[j])
    BY <1>1, <1>2 DEF Fallbacks
  <1>4. ~(i < j) /\ ~(j < i)
    BY <1>1, <1>2, <1>3 DEF First
  <1> QED BY <1>1, <1>2, <1>4

\* What is planned is offered, with one fallback at most.
LEMMA Planned ==
    ASSUME IInv, NEW pair \in Plan(Built)
    PROVE  /\ pair[1] \in Offered("cuda") \cup Offered("opencl")
           /\ \A a, b \in pair[2] : a = b
  <1>1. CASE pair \in Others(Built)
    BY <1>1, BuiltIsOffered DEF Others
  <1>2. CASE pair \in Paired(Built)
    <2>1. PICK spec \in Nvidia(Built, "opencl") : pair = <<spec, Fallbacks(Built, spec)>>
      BY <1>2 DEF Paired
    <2> QED BY <2>1, NvidiaIsOffered, OneFallback
  <1>3. CASE pair \in Leftover(Built)
    BY <1>3, NvidiaIsOffered DEF Leftover
  <1> QED BY <1>1, <1>2, <1>3 DEF Plan

\* Every step keeps it so.
LEMMA NextThreadsRun == IInv /\ ThreadsRun /\ [Next]_vars => ThreadsRun'
  <1> SUFFICES ASSUME IInv, ThreadsRun, [Next]_vars PROVE ThreadsRun'
    OBVIOUS
  <1>1. ASSUME threads' = {} PROVE ThreadsRun'
    BY <1>1 DEF ThreadsRun
  <1>2. ASSUME UNCHANGED <<start, specs, threads>> PROVE ThreadsRun'
    <2>1. Offered("cuda")' = Offered("cuda") /\ Offered("opencl")' = Offered("opencl")
      BY <1>2 DEF Offered
    <2>2. \A spec : Buildable(spec)' <=> Buildable(spec)
      BY <1>2, FrameBuildable DEF start
    <2> QED BY <1>2, <2>1, <2>2 DEF ThreadsRun
  <1>3. CASE LoadPlugin \/ ParseCommandLine \/ CheckWorkers \/ UNCHANGED vars
    BY <1>2, <1>3 DEF LoadPlugin, ParseCommandLine, CheckWorkers, vars, manager, start
  <1>4. CASE CudaOptions \/ CudaOptionsFail \/ CudaDisabled \/ OpenCLOptions \/ OpenCLOff
    <2>1. phase = "options" /\ UNCHANGED threads
      BY <1>4 DEF CudaOptions, CudaOptionsFail, CudaDisabled, OpenCLOptions, OpenCLOff, Reads
    <2>2. threads' = {}
      BY <2>1 DEF IInv, ThreadsMade
    <2> QED BY <1>1, <2>2
  <1>5. CASE Hangup
    BY <1>1, <1>5 DEF Hangup
  <1>6. CASE Connect
    <2>1. Offered("cuda")' = Offered("cuda") /\ Offered("opencl")' = Offered("opencl")
      BY <1>6 DEF Connect, manager, Offered
    <2>2. SUFFICES ASSUME NEW pair \in Plan(Built),
                          NEW t, t = [primary |-> pair[1], fallback |-> pair[2], runs |-> "none"]
                   PROVE  /\ t = [primary |-> t.primary, fallback |-> t.fallback, runs |-> t.runs]
                          /\ t.primary \in Offered("cuda") \cup Offered("opencl")
                          /\ \A a, b \in t.fallback : a = b
                          /\ t.runs = "none"
      BY <1>6, <2>1 DEF Connect, ThreadsRun
    <2> QED BY <2>2, Planned
  <1>7. ASSUME NEW t \in threads, Builds(t) \/ FallsBack(t) \/ Ends(t)
        PROVE  ThreadsRun'
    <2>1. PICK runs : /\ Becomes(t, runs)
                      /\ runs = "primary" => Buildable(t.primary)
                      /\ runs = "fallback" => \E spec \in t.fallback : Buildable(spec)
      BY <1>7 DEF Builds, FallsBack, Ends
    <2> DEFINE u == [t EXCEPT !.runs = runs]
    <2>2. /\ threads' = (threads \ {t}) \cup {u}
          /\ UNCHANGED <<start, specs>>
      BY <2>1 DEF Becomes, manager
    <2>3. Offered("cuda")' = Offered("cuda") /\ Offered("opencl")' = Offered("opencl")
      BY <2>2 DEF Offered
    <2>4. \A spec : Buildable(spec)' <=> Buildable(spec)
      BY <2>2, FrameBuildable DEF start
    <2>5. t = [primary |-> t.primary, fallback |-> t.fallback, runs |-> t.runs]
      BY DEF ThreadsRun
    <2>6. u = [primary |-> t.primary, fallback |-> t.fallback, runs |-> runs]
      BY <2>5
    <2> HIDE DEF u
    <2>7. /\ u.primary = t.primary /\ u.fallback = t.fallback /\ u.runs = runs
          /\ u = [primary |-> u.primary, fallback |-> u.fallback, runs |-> u.runs]
      BY <2>6
    <2>8. /\ u.primary \in Offered("cuda") \cup Offered("opencl")
          /\ \A a, b \in u.fallback : a = b
          /\ u.runs = "primary" => Buildable(u.primary)
          /\ u.runs = "fallback" => \A spec \in u.fallback : Buildable(spec)
      BY <2>1, <2>7 DEF ThreadsRun
    <2> QED BY <2>2, <2>3, <2>4, <2>7, <2>8 DEF ThreadsRun
  <1> QED BY <1>3, <1>4, <1>5, <1>6, <1>7 DEF Next

\* What runs could be built, so there is a kernel for it.
LEMMA RunFits == IInv /\ ThreadsRun => KernelFits
  <1> SUFFICES ASSUME IInv, ThreadsRun, NEW t \in threads, NEW spec \in Running(t),
                      spec.plugin = "cuda"
               PROVE  LET major == machine.capability[spec.gpu][1]
                          minor == machine.capability[spec.gpu][2]
                          capability == 10 * major + minor
                      IN /\ Kernel(spec.gpu) <= capability
                         /\ minor < 10
                            /\ (\E r \in 1..Len(KernelRules) : KernelRules[r].ptx = capability)
                              => Kernel(spec.gpu) = capability
    BY DEF KernelFits
  <1>1. spec \in Offered("cuda") \cup Offered("opencl") /\ Buildable(spec)
    BY DEF ThreadsRun, Running, IInv, ThreadsMade
  <1>2. spec \in Offered("cuda")
    BY <1>1, OpenCLOffer
  <1>3. spec.gpu \in Gpus
    BY <1>2, CudaOffer
  <1>4. machine.capability[spec.gpu] \in Nat \X Nat
    BY <1>3, DevicesAssumption DEF IInv, Started
  <1>5. Kernel(spec.gpu) # 0
    BY <1>1 DEF Buildable
  <1> QED BY <1>4, <1>5, KernelOfGpu

-----------------------------------------------------------------------------
(* What is read and counted.                                               *)

\* Lists of plugins: none twice.
Short == {<<>>, <<"cuda">>, <<"opencl">>, <<"cuda", "opencl">>, <<"opencl", "cuda">>}
In(list) == {list[i] : i \in 1..Len(list)}

\* A plugin is loaded once, and reads its options once, after it was loaded.
Lists ==
    /\ todo \in Short /\ plugins \in Short
    /\ phase = "load" => In(plugins) \cap In(todo) = {}
    /\ phase = "options" => In(todo) \subseteq In(plugins)
    /\ phase \notin {"load", "options"} => todo = <<>>

\* The plugins that have read their options.
HasRead == IF phase = "load" THEN {} ELSE In(plugins) \ In(todo)

\* What is offered is counted, and comes from an enabled plugin that has read its options.
Counted ==
    /\ enabled \in [Plugins -> BOOLEAN]
    /\ \A p \in Plugins : p \notin HasRead \/ ~enabled[p] => specs[p] = <<>>
    /\ count = Len(specs["cuda"]) + Len(specs["opencl"])

\* main has looked at the count.
Checked ==
    /\ phase = "refused" => count = 0 /\ opt.num_threads = 0
    /\ phase \in {"connect", "mining"} => ~(count = 0 /\ opt.num_threads = 0)

ReadInv == Lists /\ Counted /\ Checked

\* Appending to a list of one.
LEMMA AppendToOne ==
    ASSUME NEW p, NEW q
    PROVE  Append(<<q>>, p) = <<q, p>>
  <1> DEFINE both == {p, q}
             a == Append(<<q>>, p)
             b == <<q, p>>
  <1>1. <<q>> \in Seq(both) /\ b \in Seq(both) /\ p \in both
    OBVIOUS
  <1>2. a \in Seq(both)
    BY <1>1
  <1>3. Len(a) = 2 /\ Len(b) = 2
    BY <1>1
  <1>4. a[1] = q /\ a[2] = p /\ b[1] = q /\ b[2] = p
    BY <1>1
  <1> HIDE DEF a, b
  <1>5. \A i \in 1..Len(a) : a[i] = b[i]
    BY <1>3, <1>4
  <1>6. a = b
    BY <1>1, <1>2, <1>3, <1>5, SeqEqual
  <1> QED BY <1>6 DEF a, b

\* Lists of at most two plugins.
LEMMA ShortLists ==
    ASSUME NEW list \in Short
    PROVE  /\ Len(list) \in 0..2 /\ In(list) \subseteq Plugins
           /\ list = <<>> => In(list) = {}
           /\ list # <<>> =>
                /\ Head(list) \in Plugins /\ Tail(list) \in Short
                /\ Head(list) \notin In(Tail(list))
                /\ In(list) = {Head(list)} \cup In(Tail(list))
           /\ \A p \in Plugins : p \notin In(list) =>
                Append(list, p) \in Short /\ In(Append(list, p)) = In(list) \cup {p}
  <1> DEFINE Good ==
        /\ Len(list) \in 0..2 /\ In(list) \subseteq Plugins
        /\ list = <<>> => In(list) = {}
        /\ list # <<>> =>
            /\ Head(list) \in Plugins /\ Tail(list) \in Short
            /\ Head(list) \notin In(Tail(list))
            /\ In(list) = {Head(list)} \cup In(Tail(list))
        /\ \A p \in Plugins : p \notin In(list) =>
            Append(list, p) \in Short /\ In(Append(list, p)) = In(list) \cup {p}
  <1> SUFFICES Good
    OBVIOUS
  <1>1. In(<<>>) = {} /\ (\A p : In(<<p>>) = {p}) /\ (\A p, q : In(<<p, q>>) = {p, q})
    BY DEF In
  <1>2. CASE list = <<>>
    <2>1. \A p : Append(<<>>, p) = <<p>>
      OBVIOUS
    <2>2. \A p \in Plugins : <<p>> \in Short
      BY DEF Plugins, Short
    <2> QED BY <1>1, <1>2, <2>1, <2>2
  <1>3. CASE \E p \in Plugins : list = <<p>>
    <2>1. PICK p \in Plugins : list = <<p>>
      BY <1>3
    <2>2. list # <<>> /\ Len(list) = 1 /\ Head(list) = p /\ Tail(list) = <<>> /\ <<>> \in Short
      BY <2>1 DEF Short
    <2>3. \A q \in Plugins : q # p => <<p, q>> \in Short
      BY DEF Plugins, Short
    <2>4. \A q \in Plugins : q \notin In(list) =>
            Append(list, q) \in Short /\ In(Append(list, q)) = In(list) \cup {q}
      <3>1. SUFFICES ASSUME NEW q \in Plugins, q \notin In(list)
                     PROVE  Append(list, q) \in Short /\ In(Append(list, q)) = In(list) \cup {q}
        OBVIOUS
      <3>2. Append(list, q) = <<p, q>>
        BY <2>1, AppendToOne
      <3>3. In(list) = {p} /\ In(<<p, q>>) = {p, q}
        BY <1>1, <2>1
      <3> QED BY <2>3, <3>1, <3>2, <3>3
    <2>5. In(list) = {p} /\ In(Tail(list)) = {}
      BY <1>1, <2>1, <2>2
    <2>6. Len(list) \in 0..2 /\ In(list) \subseteq Plugins
      BY <2>2, <2>5
    <2>7. /\ Head(list) \in Plugins /\ Tail(list) \in Short
          /\ Head(list) \notin In(Tail(list))
          /\ In(list) = {Head(list)} \cup In(Tail(list))
      BY <2>2, <2>5
    <2>8. list # <<>>
      BY <2>2
    <2> QED BY <2>4, <2>6, <2>7, <2>8
  <1>4. CASE \E p, q \in Plugins : p # q /\ list = <<p, q>>
    <2>1. PICK p \in Plugins, q \in Plugins : p # q /\ list = <<p, q>>
      BY <1>4
    <2>2. list # <<>> /\ Len(list) = 2 /\ Head(list) = p
      BY <2>1
    <2>3. Tail(list) = <<q>>
      BY <2>1
    <2>4. <<q>> \in Short /\ Plugins = {p, q}
      BY <2>1 DEF Plugins, Short
    <2> QED BY <1>1, <2>1, <2>2, <2>3, <2>4
  <1>5. "cuda" \in Plugins /\ "opencl" \in Plugins /\ "cuda" # "opencl"
    BY DEF Plugins
  <1>6. \/ list = <<>> \/ list = <<"cuda">> \/ list = <<"opencl">>
        \/ list = <<"cuda", "opencl">> \/ list = <<"opencl", "cuda">>
    BY DEF Short
  <1>7. \/ list = <<>>
        \/ \E p \in Plugins : list = <<p>>
        \/ \E p, q \in Plugins : p # q /\ list = <<p, q>>
    <2>1. CASE list = <<"cuda">> \/ list = <<"opencl">>
      BY <1>5, <2>1
    <2>2. CASE list = <<"cuda", "opencl">>
      BY <1>5, <2>2
    <2>3. CASE list = <<"opencl", "cuda">>
      BY <1>5, <2>3
    <2> QED BY <1>6, <2>1, <2>2, <2>3
  <1> HIDE DEF Good
  <1> QED BY <1>2, <1>3, <1>4, <1>7

\* Specs are sequences.
LEMMA SpecsAreSeqs ==
    ASSUME IInv
    PROVE  /\ specs["cuda"] \in Seq(Offered("cuda")) /\ Len(specs["cuda"]) \in Nat
           /\ specs["opencl"] \in Seq(Offered("opencl")) /\ Len(specs["opencl"]) \in Nat
  <1>1. specs["cuda"] \in Seq(Offered("cuda"))
    <2>1. CASE specs["cuda"] = <<>>
      BY <2>1
    <2>2. CASE specs["cuda"] = CudaSpecs
      <3>1. Len(CudaGpus) \in Nat
        BY CudaGpusType DEF IInv
      <3>2. \A i \in 1..Len(CudaSpecs) : CudaSpecs[i] \in Offered("cuda")
        BY <2>2 DEF Offered
      <3>3. CudaSpecs = [i \in 1..Len(CudaGpus) |-> CudaSpecs[i]]
        BY DEF CudaSpecs
      <3> QED BY <2>2, <3>1, <3>2, <3>3
    <2> QED BY <2>1, <2>2 DEF IInv, SpecsMade
  <1>2. specs["opencl"] \in Seq(Offered("opencl"))
    <2>1. CASE specs["opencl"] = <<>>
      BY <2>1
    <2>2. CASE machine.platforms # <<>> /\ specs["opencl"] = OpenCLSpecs
      <3>1. PICK n \in Nat : DOMAIN OpenCLSpecs = 1..n
        BY <2>2, OpenCLIsSeq DEF IInv
      <3> QED BY <2>2, <3>1, OpenCLIsSeq DEF Offered, IInv
    <2> QED BY <2>1, <2>2 DEF IInv, SpecsMade
  <1> QED BY <1>1, <1>2, LenProperties

\* A plugin that reads its options has not read them before.
LEMMA ReadsOnce ==
    ASSUME ReadInv, NEW p \in Plugins, Reads(p)
    PROVE  /\ Lists' /\ Checked' /\ specs[p] = <<>>
           /\ p \notin HasRead /\ HasRead' = HasRead \cup {p}
  <1>1. /\ todo \in Short /\ plugins \in Short /\ todo # <<>> /\ Head(todo) = p
        /\ In(todo) \subseteq In(plugins) /\ phase = "options"
        /\ phase' = "options" /\ plugins' = plugins /\ todo' = Tail(todo)
    BY DEF ReadInv, Lists, Reads
  <1>2. /\ Tail(todo) \in Short /\ p \notin In(Tail(todo))
        /\ In(todo) = {p} \cup In(Tail(todo))
    BY <1>1, ShortLists
  <1>3. In(todo)' = In(Tail(todo)) /\ In(plugins)' = In(plugins)
    BY <1>1 DEF In
  <1>4. Lists'
    BY <1>1, <1>2, <1>3 DEF Lists
  <1>5. p \notin HasRead /\ HasRead' = HasRead \cup {p}
    BY <1>1, <1>2, <1>3 DEF HasRead
  <1>6. specs[p] = <<>>
    BY <1>5 DEF ReadInv, Counted
  <1> QED BY <1>1, <1>4, <1>5, <1>6 DEF Checked

\* Nothing is read, counted or checked by a step of the connection.
LEMMA FrameRead ==
    ASSUME ReadInv, UNCHANGED <<opt, todo, manager>>,
           {phase, phase'} \subseteq {"connect", "mining"} \/ phase' = phase
    PROVE  ReadInv'
  <1>1. In(todo)' = In(todo) /\ In(plugins)' = In(plugins)
    BY DEF manager, In
  <1>2. HasRead' = HasRead
    BY <1>1 DEF HasRead
  <1>3. Lists'
    BY <1>1 DEF ReadInv, Lists, manager
  <1>4. Counted'
    BY <1>2 DEF ReadInv, Counted, manager
  <1>5. Checked'
    BY DEF ReadInv, Checked, manager
  <1> QED BY <1>3, <1>4, <1>5 DEF ReadInv

\* At first nothing is loaded or read.
LEMMA InitReadInv == Init => ReadInv
  <1> SUFFICES ASSUME Init PROVE ReadInv
    OBVIOUS
  <1>1. In(plugins) = {}
    BY DEF Init, In
  <1>2. Lists
    BY <1>1 DEF Init, Lists, Short
  <1>3. Counted
    <2>1. /\ enabled = [p \in Plugins |-> FALSE] /\ count = 0
          /\ specs = [p \in Plugins |-> <<>>] /\ {"cuda", "opencl"} \subseteq Plugins
      BY DEF Init, Plugins
    <2> QED BY <2>1 DEF Counted
  <1>4. Checked
    BY DEF Init, Checked
  <1> QED BY <1>2, <1>3, <1>4 DEF ReadInv

\* Every step keeps the count.
LEMMA NextReadInv == IInv /\ ReadInv /\ [Next]_vars => ReadInv'
  <1> SUFFICES ASSUME IInv, ReadInv, [Next]_vars PROVE ReadInv'
    OBVIOUS
  <1> USE DEF ReadInv
  <1>1. CASE LoadPlugin
    <2>1. /\ todo \in Short /\ plugins \in Short /\ todo # <<>> /\ phase = "load"
          /\ In(plugins) \cap In(todo) = {} /\ phase' = "load" /\ todo' = Tail(todo)
          /\ plugins' \in {plugins, Append(plugins, Head(todo))}
          /\ UNCHANGED <<opt, enabled, specs, count>>
      BY <1>1 DEF LoadPlugin, Lists, start
    <2>2. /\ Head(todo) \in Plugins /\ Tail(todo) \in Short /\ Head(todo) \notin In(Tail(todo))
          /\ In(todo) = {Head(todo)} \cup In(Tail(todo))
      BY <2>1, ShortLists
    <2>3. /\ Append(plugins, Head(todo)) \in Short
          /\ In(Append(plugins, Head(todo))) = In(plugins) \cup {Head(todo)}
      BY <2>1, <2>2, ShortLists
    <2>4. /\ In(todo)' = In(Tail(todo))
          /\ In(plugins)' \in {In(plugins), In(plugins) \cup {Head(todo)}}
      BY <2>1, <2>3 DEF In
    <2>5. Lists'
      BY <2>1, <2>2, <2>3, <2>4 DEF Lists
    <2>6. Counted'
      BY <2>1 DEF Counted, HasRead
    <2>7. Checked'
      BY <2>1 DEF Checked
    <2> QED BY <2>5, <2>6, <2>7
  <1>2. CASE ParseCommandLine
    <2>1. /\ plugins \in Short /\ phase = "load" /\ phase' = "options" /\ todo' = plugins
          /\ plugins' = plugins /\ UNCHANGED <<enabled, specs, count>>
      BY <1>2 DEF ParseCommandLine, Lists, manager
    <2>2. In(todo)' = In(plugins) /\ In(plugins)' = In(plugins)
      BY <2>1 DEF In
    <2>3. Lists'
      BY <2>1, <2>2 DEF Lists
    <2>4. HasRead' = {} /\ HasRead = {}
      BY <2>1, <2>2 DEF HasRead
    <2>5. Counted'
      BY <2>1, <2>4 DEF Counted
    <2>6. Checked'
      BY <2>1 DEF Checked
    <2> QED BY <2>3, <2>5, <2>6
  <1>3. CASE CudaOptions
    <2>1. Lists' /\ Checked' /\ specs["cuda"] = <<>> /\ HasRead' = HasRead \cup {"cuda"}
      BY <1>3, ReadsOnce DEF CudaOptions, Plugins
    <2>2. Len(specs["opencl"]) \in Nat /\ Len(specs["cuda"]) = 0
      BY <2>1, SpecsAreSeqs
    <2>3. Len(CudaSpecs) \in Nat
      BY CudaGpusType DEF CudaSpecs, IInv
    <2>4. /\ count' = count + Len(CudaSpecs) /\ enabled' = [enabled EXCEPT !["cuda"] = TRUE]
          /\ specs' = [specs EXCEPT !["cuda"] = CudaSpecs]
      BY <1>3 DEF CudaOptions
    <2>5. specs'["cuda"] = CudaSpecs /\ specs'["opencl"] = specs["opencl"]
      BY <2>4 DEF IInv, SpecsMade, Plugins
    <2>6. /\ enabled' \in [Plugins -> BOOLEAN]
          /\ enabled'["cuda"] /\ enabled'["opencl"] = enabled["opencl"]
      BY <2>4 DEF Counted, Plugins
    <2>7. \A p \in Plugins : p \notin HasRead' \/ ~enabled'[p] => specs'[p] = <<>>
      BY <2>1, <2>5, <2>6 DEF Counted, Plugins
    <2>8. count' = Len(specs'["cuda"]) + Len(specs'["opencl"])
      <3>1. count = Len(specs["cuda"]) + Len(specs["opencl"])
        BY DEF Counted
      <3>2. count' = count + Len(CudaSpecs)
        BY <2>4
      <3>3. /\ Len(specs'["cuda"]) = Len(CudaSpecs)
            /\ Len(specs'["opencl"]) = Len(specs["opencl"])
        BY <2>5
      <3> QED BY <2>2, <2>3, <3>1, <3>2, <3>3
    <2> QED BY <2>1, <2>6, <2>7, <2>8 DEF Counted
  <1>4. CASE CudaOptionsFail \/ CudaDisabled
    <2>1. Lists' /\ Checked' /\ specs["cuda"] = <<>> /\ HasRead' = HasRead \cup {"cuda"}
      BY <1>4, ReadsOnce DEF CudaOptionsFail, CudaDisabled, Plugins
    <2>2. PICK b \in BOOLEAN : enabled' = [enabled EXCEPT !["cuda"] = b]
      BY <1>4 DEF CudaOptionsFail, CudaDisabled
    <2>3. enabled' \in [Plugins -> BOOLEAN] /\ enabled'["opencl"] = enabled["opencl"]
      BY <2>2 DEF Counted, Plugins
    <2>4. UNCHANGED <<specs, count>>
      BY <1>4 DEF CudaOptionsFail, CudaDisabled
    <2> QED BY <2>1, <2>3, <2>4 DEF Counted, Plugins
  <1>5. CASE OpenCLOptions \/ OpenCLOff
    <2>1. Lists' /\ Checked' /\ specs["opencl"] = <<>> /\ HasRead' = HasRead \cup {"opencl"}
      BY <1>5, ReadsOnce DEF OpenCLOptions, OpenCLOff, Plugins
    <2>2. Len(specs["cuda"]) \in Nat /\ Len(specs["opencl"]) = 0
      BY <2>1, SpecsAreSeqs
    <2>3. PICK new : /\ specs' = [specs EXCEPT !["opencl"] = new]
                     /\ count' = count + Len(new) /\ Len(new) \in Nat
                     /\ \E b \in BOOLEAN : /\ enabled' = [enabled EXCEPT !["opencl"] = b]
                                           /\ b \/ new = <<>>
      <3>1. CASE OpenCLOptions
        <4>1. Len(OpenCLSpecs) \in Nat
          BY <3>1, OpenCLIsSeq DEF OpenCLOptions, IInv
        <4>2. /\ specs' = [specs EXCEPT !["opencl"] = OpenCLSpecs]
              /\ count' = count + Len(OpenCLSpecs)
              /\ enabled' = [enabled EXCEPT !["opencl"] = TRUE]
          BY <3>1 DEF OpenCLOptions
        <4> HIDE DEF OpenCLSpecs
        <4> QED BY <4>1, <4>2
      <3>2. CASE OpenCLOff
        <4>1. Len(<<>>) = 0
          OBVIOUS
        <4>2. count \in Nat
          <5>1. count = Len(specs["cuda"]) + Len(specs["opencl"])
            BY DEF Counted
          <5> QED BY <2>2, <5>1
        <4>3. count' = count + Len(<<>>) /\ Len(<<>>) \in Nat
          BY <3>2, <4>1, <4>2 DEF OpenCLOff
        <4>4. /\ specs' = [specs EXCEPT !["opencl"] = <<>>]
              /\ enabled' = [enabled EXCEPT !["opencl"] = FALSE]
          BY <3>2 DEF OpenCLOff
        <4>5. WITNESS <<>>
        <4> QED BY <4>3, <4>4
      <3> QED BY <1>5, <3>1, <3>2
    <2>4. specs'["opencl"] = new /\ specs'["cuda"] = specs["cuda"]
      BY <2>3 DEF IInv, SpecsMade, Plugins
    <2>5. /\ enabled' \in [Plugins -> BOOLEAN] /\ enabled'["cuda"] = enabled["cuda"]
          /\ enabled'["opencl"] \/ new = <<>>
      BY <2>3 DEF Counted, Plugins
    <2>6. \A p \in Plugins : p \notin HasRead' \/ ~enabled'[p] => specs'[p] = <<>>
      BY <2>1, <2>4, <2>5 DEF Counted, Plugins
    <2>7. count' = Len(specs'["cuda"]) + Len(specs'["opencl"])
      <3>1. count = Len(specs["cuda"]) + Len(specs["opencl"])
        BY DEF Counted
      <3>2. count' = count + Len(new) /\ Len(new) \in Nat
        BY <2>3
      <3>3. Len(specs'["opencl"]) = Len(new) /\ Len(specs'["cuda"]) = Len(specs["cuda"])
        BY <2>4
      <3> QED BY <2>2, <3>1, <3>2, <3>3
    <2> QED BY <2>1, <2>5, <2>6, <2>7 DEF Counted
  <1>6. CASE CheckWorkers
    <2>1. /\ phase = "options" /\ todo = <<>> /\ todo' = todo /\ UNCHANGED <<opt, manager>>
          /\ phase' = IF count = 0 /\ opt.num_threads = 0 THEN "refused" ELSE "connect"
      BY <1>6 DEF CheckWorkers, start
    <2>2. In(todo)' = In(todo) /\ In(plugins)' = In(plugins)
      BY <2>1 DEF manager, In
    <2>3. HasRead' = HasRead
      BY <2>1, <2>2 DEF HasRead
    <2>4. Lists'
      BY <2>1, <2>2 DEF Lists, manager
    <2>5. Counted'
      BY <2>1, <2>3 DEF Counted, manager
    <2>6. Checked'
      BY <2>1 DEF Checked, manager
    <2> QED BY <2>4, <2>5, <2>6
  <1>7. CASE Connect \/ Hangup
    BY <1>7, FrameRead DEF Connect, Hangup, start
  <1>8. ASSUME NEW t \in threads, Builds(t) \/ FallsBack(t) \/ Ends(t)
        PROVE  ReadInv'
    <2>1. PICK runs : Becomes(t, runs)
      BY <1>8 DEF Builds, FallsBack, Ends
    <2> QED BY <2>1, FrameRead DEF Becomes, start
  <1>9. CASE UNCHANGED vars
    BY <1>9, FrameRead DEF vars, manager
  <1> QED BY <1>1, <1>2, <1>3, <1>4, <1>5, <1>6, <1>7, <1>8, <1>9 DEF Next

\* What is built is what the plugins offer: every plugin in the list has read its
\* options, and those outside it, or disabled, offer nothing.
LEMMA BuiltIsBoth ==
    ASSUME IInv, ReadInv, phase \in {"refused", "connect", "mining"}
    PROVE  \/ Built = specs["cuda"] \o specs["opencl"]
           \/ Built = specs["opencl"] \o specs["cuda"]
  <1> DEFINE of(i) == IF i <= Len(plugins) /\ enabled[plugins[i]] THEN specs[plugins[i]] ELSE <<>>
             cuda == specs["cuda"]
             opencl == specs["opencl"]
  <1>1. HasRead = In(plugins)
    <2>1. todo = <<>>
      BY DEF ReadInv, Lists
    <2>2. In(todo) = {}
      BY <2>1 DEF In
    <2> QED BY <2>2 DEF HasRead
  <1>2. /\ "cuda" \notin In(plugins) \/ ~enabled["cuda"] => cuda = <<>>
        /\ "opencl" \notin In(plugins) \/ ~enabled["opencl"] => opencl = <<>>
    BY <1>1 DEF ReadInv, Counted, Plugins
  <1>3. \/ of(1) = cuda /\ of(2) = opencl
        \/ of(1) = opencl /\ of(2) = cuda
    <2>1. CASE plugins = <<>>
      BY <1>2, <2>1 DEF In
    <2>2. CASE plugins = <<"cuda">>
      <3>1. Len(plugins) = 1 /\ plugins[1] = "cuda" /\ "opencl" \notin In(plugins)
        BY <2>2 DEF In
      <3> QED BY <1>2, <3>1
    <2>3. CASE plugins = <<"opencl">>
      <3>1. Len(plugins) = 1 /\ plugins[1] = "opencl" /\ "cuda" \notin In(plugins)
        BY <2>3 DEF In
      <3> QED BY <1>2, <3>1
    <2>4. CASE plugins = <<"cuda", "opencl">>
      <3>1. Len(plugins) = 2 /\ plugins[1] = "cuda" /\ plugins[2] = "opencl"
        BY <2>4
      <3> QED BY <1>2, <3>1
    <2>5. CASE plugins = <<"opencl", "cuda">>
      <3>1. Len(plugins) = 2 /\ plugins[1] = "opencl" /\ plugins[2] = "cuda"
        BY <2>5
      <3> QED BY <1>2, <3>1
    <2> QED BY <2>1, <2>2, <2>3, <2>4, <2>5 DEF ReadInv, Lists, Short
  <1>4. Built = of(1) \o of(2)
    BY DEF Built
  <1> QED BY <1>3, <1>4

\* What is counted is what is built.
LEMMA CountedIsBuilt == IInv /\ ReadInv => CountIsBuilt
  <1> SUFFICES ASSUME IInv, ReadInv, phase \in {"refused", "connect", "mining"}
               PROVE  /\ count = Len(Built)
                      /\ phase = "refused" <=> count = 0 /\ opt.num_threads = 0
    BY DEF CountIsBuilt
  <1> DEFINE cuda == specs["cuda"]
             opencl == specs["opencl"]
             All == Offered("cuda") \cup Offered("opencl")
  <1>1. /\ cuda \in Seq(Offered("cuda")) /\ Len(cuda) \in Nat
        /\ opencl \in Seq(Offered("opencl")) /\ Len(opencl) \in Nat
    BY SpecsAreSeqs
  <1>2. Built = cuda \o opencl \/ Built = opencl \o cuda
    BY BuiltIsBoth
  <1>3. cuda \in Seq(All) /\ opencl \in Seq(All)
    BY <1>1
  <1> HIDE DEF cuda, opencl, All
  <1>4. Len(Built) = Len(cuda) + Len(opencl)
    <2>1. /\ Len(cuda \o opencl) = Len(cuda) + Len(opencl)
          /\ Len(opencl \o cuda) = Len(opencl) + Len(cuda)
      BY <1>3, ConcatProperties
    <2> QED BY <1>1, <1>2, <2>1
  <1>5. count = Len(Built)
    BY <1>4 DEF ReadInv, Counted, cuda, opencl
  <1> QED BY <1>5 DEF ReadInv, Checked

-----------------------------------------------------------------------------
(* Every GPU is in somebody's care.                                        *)

\* Every planned pair has its thread.
Mined == phase = "mining" => \A pair \in Plan(Built) : \E t \in threads : t.primary = pair[1]

\* The plan is one of what the plugins offer.
LEMMA FramePlan ==
    ASSUME UNCHANGED manager
    PROVE  Plan(Built)' = Plan(Built)
  <1>1. Built' = Built
    BY DEF manager, Built
  <1> QED BY <1>1 DEF Plan, Others, Paired, Leftover, Nvidia, Fallbacks, First, Key

\* Threads change what they run, not what they are for.
LEMMA NextMined == Mined /\ [Next]_vars => Mined'
  <1> SUFFICES ASSUME Mined, [Next]_vars, phase' = "mining",
                      NEW pair \in Plan(Built)'
               PROVE  \E t \in threads' : t.primary = pair[1]
    BY DEF Mined
  <1>1. CASE Connect
    <2>1. pair \in Plan(Built)
      BY <1>1, FramePlan DEF Connect
    <2> DEFINE t == [primary |-> pair[1], fallback |-> pair[2], runs |-> "none"]
    <2>2. t \in threads' /\ t.primary = pair[1]
      BY <1>1, <2>1 DEF Connect
    <2> QED BY <2>2
  <1>2. ASSUME NEW t \in threads, Builds(t) \/ FallsBack(t) \/ Ends(t)
        PROVE  \E u \in threads' : u.primary = pair[1]
    <2>1. PICK runs : Becomes(t, runs)
      BY <1>2 DEF Builds, FallsBack, Ends
    <2>2. pair \in Plan(Built) /\ phase = "mining"
      BY <2>1, FramePlan DEF Becomes
    <2>3. PICK u \in threads : u.primary = pair[1]
      BY <2>2 DEF Mined
    <2>4. CASE u # t
      BY <2>1, <2>3, <2>4 DEF Becomes
    <2>5. CASE u = t
      <3>1. [t EXCEPT !.runs = runs].primary = t.primary
        OBVIOUS
      <3> QED BY <2>1, <2>3, <2>5, <3>1 DEF Becomes
    <2> QED BY <2>4, <2>5
  <1>3. CASE UNCHANGED vars
    <2>1. pair \in Plan(Built)
      BY <1>3, FramePlan DEF vars, manager
    <2> QED BY <1>3, <2>1 DEF vars, Mined
  <1>4. CASE \/ LoadPlugin \/ ParseCommandLine \/ CudaOptions \/ CudaOptionsFail
             \/ CudaDisabled \/ OpenCLOptions \/ OpenCLOff \/ CheckWorkers \/ Hangup
    <2>1. phase' # "mining"
      BY <1>4 DEF LoadPlugin, ParseCommandLine, CudaOptions, CudaOptionsFail, CudaDisabled,
                  OpenCLOptions, OpenCLOff, CheckWorkers, Hangup, Reads
    <2> QED BY <2>1
  <1> QED BY <1>1, <1>2, <1>3, <1>4 DEF Next

\* What a plugin offers is built.
LEMMA OfferedIsBuilt ==
    ASSUME IInv, ReadInv, phase = "mining", NEW p \in Plugins, NEW spec \in Offered(p)
    PROVE  \E i \in 1..Len(Built) : Built[i] = spec
  <1> DEFINE cuda == specs["cuda"]
             opencl == specs["opencl"]
             All == Offered("cuda") \cup Offered("opencl")
  <1>1. /\ cuda \in Seq(All) /\ Len(cuda) \in Nat
        /\ opencl \in Seq(All) /\ Len(opencl) \in Nat
    BY SpecsAreSeqs
  <1>2. Built = cuda \o opencl \/ Built = opencl \o cuda
    BY BuiltIsBoth
  <1>3. \/ \E i \in 1..Len(cuda) : spec = cuda[i]
        \/ \E i \in 1..Len(opencl) : spec = opencl[i]
    BY DEF Offered, Plugins
  <1> HIDE DEF cuda, opencl, All
  <1>4. ASSUME NEW a \in Seq(All), NEW b \in Seq(All), Len(a) \in Nat, Len(b) \in Nat,
               NEW i \in 1..Len(a), Built = a \o b
        PROVE  \E j \in 1..Len(Built) : Built[j] = a[i]
    <2>1. Len(Built) = Len(a) + Len(b) /\ Built[i] = a[i]
      BY <1>4, ConcatProperties
    <2> QED BY <1>4, <2>1
  <1>5. ASSUME NEW a \in Seq(All), NEW b \in Seq(All), Len(a) \in Nat, Len(b) \in Nat,
               NEW i \in 1..Len(b), Built = a \o b
        PROVE  \E j \in 1..Len(Built) : Built[j] = b[i]
    <2>1. Len(Built) = Len(a) + Len(b)
      BY <1>5, ConcatProperties
    <2>2. Len(a) + i \in 1..Len(Built) /\ Len(a) + i > Len(a) /\ (Len(a) + i) - Len(a) = i
      BY <1>5, <2>1
    <2>3. Built[Len(a) + i] = b[i]
      BY <1>5, <2>1, <2>2, ConcatProperties
    <2> QED BY <2>2, <2>3
  <1>6. ASSUME NEW i \in 1..Len(cuda), spec = cuda[i]
        PROVE  \E j \in 1..Len(Built) : Built[j] = spec
    BY <1>1, <1>2, <1>4, <1>5, <1>6
  <1>7. ASSUME NEW i \in 1..Len(opencl), spec = opencl[i]
        PROVE  \E j \in 1..Len(Built) : Built[j] = spec
    BY <1>1, <1>2, <1>4, <1>5, <1>7
  <1> QED BY <1>3, <1>6, <1>7

\* Specs of one plugin with the same key are the same GPU's too.
LEMMA KeyTellsGpuOfPlugin ==
    ASSUME IInv, NamesDiffer \/ SameUse, NEW p \in Plugins,
           NEW a \in Offered(p), NEW b \in Offered(p), Key(a) = Key(b)
    PROVE  a.gpu = b.gpu
  <1>1. a.slot = b.slot /\ a.name = b.name
    BY DEF Key
  <1>2. /\ a.name = Name[a.gpu] /\ b.name = Name[b.gpu]
        /\ SameUse => a.gpu = machine.cuda[a.slot + 1] /\ b.gpu = machine.cuda[b.slot + 1]
    <2>1. CASE p = "cuda"
      BY <2>1, CudaOffer DEF SameUse
    <2>2. CASE p = "opencl"
      BY <2>2, OpenCLOffer DEF SameUse
    <2> QED BY <2>1, <2>2 DEF Plugins
  <1>3. CASE NamesDiffer
    BY <1>1, <1>2, <1>3 DEF NamesDiffer
  <1>4. CASE SameUse
    BY <1>1, <1>2, <1>4
  <1> QED BY <1>3, <1>4

\* Of the specs with one key the first is in the map, whichever they are.
LEMMA FirstIsKept ==
    ASSUME IInv, NEW i \in 1..Len(Built), Built[i].name \in Branded, Len(Built) \in Nat
    PROVE  \E f \in Nvidia(Built, Built[i].plugin) : Key(f) = Key(Built[i])
  <1> DEFINE T == {j \in 1..Len(Built) : /\ Built[j].plugin = Built[i].plugin
                                        /\ Key(Built[j]) = Key(Built[i])}
  <1>1. T \subseteq Nat /\ i \in T
    OBVIOUS
  <1>2. PICK j \in T : \A k \in T : j <= k
    <2>1. T # {}
      BY <1>1
    <2> HIDE DEF T
    <2> QED BY <1>1, <2>1, Smallest
  <1>3. First(Built, j)
    <2>1. SUFFICES ASSUME NEW k \in 1..(j - 1), Built[k].plugin = Built[j].plugin,
                          Key(Built[k]) = Key(Built[j])
                   PROVE  FALSE
      BY DEF First
    <2>2. k \in T /\ k < j
      BY <1>2, <2>1
    <2> QED BY <1>2, <2>2
  <1>4. Built[j].name = Built[i].name /\ Key(Built[j]) = Key(Built[i])
    BY <1>2 DEF Key
  <1>5. Built[j] \in Nvidia(Built, Built[i].plugin)
    BY <1>2, <1>3, <1>4 DEF Nvidia
  <1> QED BY <1>4, <1>5

\* Whoever's entry is dropped, another with the same GPU is in the plan.
LEMMA MinedForgetsNone == IInv /\ ReadInv /\ Mined => NoneForgotten
  <1> SUFFICES ASSUME IInv, ReadInv, Mined, phase = "mining", NamesDiffer \/ SameUse,
                      NEW p \in Plugins, NEW spec \in Offered(p)
               PROVE  \E t \in threads : t.primary.gpu = spec.gpu
    BY DEF NoneForgotten
  <1>1. SUFFICES \E pair \in Plan(Built) : pair[1].gpu = spec.gpu
    BY <1>1 DEF Mined
  <1>2. PICK i \in 1..Len(Built) : Built[i] = spec
    BY OfferedIsBuilt
  <1>3. CASE spec.name \notin Branded
    <2>1. <<spec, {}>> \in Others(Built)
      BY <1>2, <1>3 DEF Others
    <2>2. <<spec, {}>> \in Plan(Built) /\ <<spec, {}>>[1] = spec
      BY <2>1 DEF Plan
    <2> QED BY <2>2
  <1>4. CASE spec.name \in Branded
    <2>1. spec.plugin = p
      BY CudaOffer, OpenCLOffer DEF Plugins
    <2>2. Len(Built) \in Nat
      BY BuiltIsOffered
    <2>3. PICK f \in Nvidia(Built, p) : Key(f) = Key(spec)
      BY <1>2, <1>4, <2>1, <2>2, FirstIsKept
    <2>4. f \in Offered(p)
      BY NvidiaIsOffered DEF Plugins
    <2>5. f.gpu = spec.gpu
      BY <2>3, <2>4, KeyTellsGpuOfPlugin
    <2>6. \A o \in Nvidia(Built, "opencl") :
            <<o, Fallbacks(Built, o)>> \in Plan(Built) /\ <<o, Fallbacks(Built, o)>>[1] = o
      BY DEF Plan, Paired
    <2>7. CASE p = "opencl"
      BY <2>5, <2>6, <2>7
    <2>8. CASE p = "cuda" /\ \A o \in Nvidia(Built, "opencl") : Key(o) # Key(f)
      <3>1. <<f, {}>> \in Plan(Built) /\ <<f, {}>>[1] = f
        BY <2>8 DEF Plan, Leftover
      <3> QED BY <2>5, <3>1
    <2>9. CASE p = "cuda" /\ \E o \in Nvidia(Built, "opencl") : Key(o) = Key(f)
      <3>1. PICK o \in Nvidia(Built, "opencl") : Key(o) = Key(f)
        BY <2>9
      <3>2. f.gpu = o.gpu
        BY <2>4, <2>9, <3>1, NvidiaIsOffered, KeyTellsGpu
      <3> QED BY <2>5, <2>6, <3>1, <3>2
    <2> QED BY <2>7, <2>8, <2>9 DEF Plugins
  <1> QED BY <1>3, <1>4

-----------------------------------------------------------------------------
(* No two threads on a GPU.                                                *)

\* Threads are the plan's, one for each pair.
OnePerPair ==
    \A t \in threads :
        /\ phase = "mining" /\ <<t.primary, t.fallback>> \in Plan(Built)
        /\ t = [primary |-> t.primary, fallback |-> t.fallback, runs |-> t.runs]
        /\ \A u \in threads : t.primary = u.primary /\ t.fallback = u.fallback => t = u

\* A pair has a primary and fallbacks.
LEMMA PairsAreTuples ==
    ASSUME NEW pair \in Plan(Built)
    PROVE  pair = <<pair[1], pair[2]>>
  BY DEF Plan, Others, Paired, Leftover

\* A thread keeps its pair.
LEMMA NextOnePerPair == OnePerPair /\ ThreadsMade /\ [Next]_vars => OnePerPair'
  <1> SUFFICES ASSUME OnePerPair, ThreadsMade, [Next]_vars PROVE OnePerPair'
    OBVIOUS
  <1>1. ASSUME threads' = {} PROVE OnePerPair'
    BY <1>1 DEF OnePerPair
  <1>2. CASE Connect
    <2>1. /\ phase' = "mining" /\ Plan(Built)' = Plan(Built)
          /\ threads' = {[primary |-> pair[1], fallback |-> pair[2], runs |-> "none"] :
                            pair \in Plan(Built)}
      BY <1>2, FramePlan DEF Connect
    <2>2. ASSUME NEW t \in threads'
          PROVE  /\ <<t.primary, t.fallback>> \in Plan(Built)
                 /\ t = [primary |-> t.primary, fallback |-> t.fallback, runs |-> t.runs]
                 /\ t.runs = "none"
      <3>1. PICK pair \in Plan(Built) :
                t = [primary |-> pair[1], fallback |-> pair[2], runs |-> "none"]
        BY <2>1
      <3> QED BY <3>1, PairsAreTuples
    <2>3. ASSUME NEW t \in threads', NEW u \in threads',
                 t.primary = u.primary, t.fallback = u.fallback
          PROVE  t = u
      BY <2>2, <2>3
    <2> QED BY <2>1, <2>2, <2>3 DEF OnePerPair
  <1>3. ASSUME NEW t \in threads, Builds(t) \/ FallsBack(t) \/ Ends(t)
        PROVE  OnePerPair'
    <2>1. PICK runs : Becomes(t, runs)
      BY <1>3 DEF Builds, FallsBack, Ends
    <2> DEFINE v == [t EXCEPT !.runs = runs]
    <2>2. /\ threads' = (threads \ {t}) \cup {v} /\ phase' = phase
          /\ Plan(Built)' = Plan(Built)
      BY <2>1, FramePlan DEF Becomes
    <2>3. t = [primary |-> t.primary, fallback |-> t.fallback, runs |-> t.runs]
      BY DEF OnePerPair
    <2>4. v = [primary |-> t.primary, fallback |-> t.fallback, runs |-> runs]
      BY <2>3
    <2> HIDE DEF v
    <2>5. /\ v.primary = t.primary /\ v.fallback = t.fallback /\ v.runs = runs
          /\ v = [primary |-> v.primary, fallback |-> v.fallback, runs |-> v.runs]
      BY <2>4
    <2>6. ASSUME NEW u \in threads'
          PROVE  /\ phase' = "mining" /\ <<u.primary, u.fallback>> \in Plan(Built)
                 /\ u = [primary |-> u.primary, fallback |-> u.fallback, runs |-> u.runs]
                 /\ \A w \in threads' :
                        u.primary = w.primary /\ u.fallback = w.fallback => u = w
      BY <2>2, <2>5, <2>6 DEF OnePerPair
    <2> QED BY <2>2, <2>6 DEF OnePerPair
  <1>4. CASE UNCHANGED vars
    <2>1. Plan(Built)' = Plan(Built) /\ threads' = threads /\ phase' = phase
      BY <1>4, FramePlan DEF vars, manager
    <2> QED BY <2>1 DEF OnePerPair
  <1>5. CASE \/ LoadPlugin \/ ParseCommandLine \/ CudaOptions \/ CudaOptionsFail
             \/ CudaDisabled \/ OpenCLOptions \/ OpenCLOff \/ CheckWorkers \/ Hangup
    <2>1. threads' = {}
      BY <1>5 DEF LoadPlugin, ParseCommandLine, CudaOptions, CudaOptionsFail, CudaDisabled,
                  OpenCLOptions, OpenCLOff, CheckWorkers, Hangup, Reads, ThreadsMade
    <2> QED BY <1>1, <2>1
  <1> QED BY <1>2, <1>3, <1>4, <1>5 DEF Next

\* An offered spec's slot is a GPU of the machine, when both plugins use all of them.
LEMMA SlotInRange ==
    ASSUME IInv, SameUse, NEW spec \in Offered("cuda") \cup Offered("opencl")
    PROVE  /\ spec.slot + 1 \in 1..Len(machine.cuda)
           /\ spec.gpu = machine.cuda[spec.slot + 1] /\ spec.name = Name[spec.gpu]
           /\ spec.slot \in Nat
  <1>1. machine.cuda \in Seq(Gpus) /\ Len(machine.cuda) \in Nat
    BY DevicesAssumption, LenProperties DEF IInv, Started
  <1>2. CASE spec \in Offered("cuda")
    <2>1. specs["cuda"] = CudaSpecs
      BY <1>2 DEF IInv, SpecsMade, Offered
    <2>2. PICK i \in 1..Len(CudaSpecs) : spec = CudaSpecs[i]
      BY <1>2, <2>1 DEF Offered
    <2>3. CudaGpus \in Seq(Nat) /\ Len(CudaGpus) \in Nat
      BY CudaGpusType DEF IInv
    <2>4. i \in 1..Len(CudaGpus)
      BY <2>2, <2>3 DEF CudaSpecs
    <2>5. spec.slot = CudaGpus[i]
      BY <2>2, <2>4 DEF CudaSpecs
    <2>6. CudaGpus[i] + 1 \in 1..Len(machine.cuda) /\ CudaGpus[i] \in Nat
      BY <2>3, <2>4, CudaGpusInRange, ElementOfSeq DEF IInv
    <2> QED BY <1>2, <2>5, <2>6, CudaOffer DEF SameUse
  <1>3. CASE spec \in Offered("opencl")
    <2>1. specs["opencl"] = OpenCLSpecs
      BY <1>3 DEF IInv, SpecsMade, Offered
    <2>2. PICK i \in 1..Len(OpenCLSpecs) : spec = OpenCLSpecs[i]
      BY <1>3, <2>1 DEF Offered
    <2> DEFINE used == [j \in 1..Len(machine.cuda) |-> j - 1]
    <2>3. OpenCLSpecs = [j \in 1..Len(used) |->
            [plugin |-> "opencl", pos |-> j, gpu |-> machine.cuda[used[j] + 1], slot |-> j - 1,
             name |-> Name[machine.cuda[used[j] + 1]], variant |-> "baseline",
             max_power_w |-> NoLimit]]
      BY DEF OpenCLSpecs, SameUse
    <2>4. Len(used) = Len(machine.cuda)
      BY <1>1
    <2> HIDE DEF used
    <2>5. i \in 1..Len(machine.cuda) /\ spec.slot = i - 1
      BY <1>1, <2>2, <2>3, <2>4
    <2> QED BY <1>1, <1>3, <2>5, OpenCLOffer DEF SameUse
  <1> QED BY <1>2, <1>3

\* A plugin's specs with one key are one in the plan.
LEMMA NvidiaKeys ==
    ASSUME NEW p, NEW a \in Nvidia(Built, p), NEW b \in Nvidia(Built, p), Key(a) = Key(b),
           Len(Built) \in Nat
    PROVE  a = b
  <1>1. PICK i \in 1..Len(Built) : a = Built[i] /\ Built[i].plugin = p /\ First(Built, i)
    BY DEF Nvidia
  <1>2. PICK j \in 1..Len(Built) : b = Built[j] /\ Built[j].plugin = p /\ First(Built, j)
    BY DEF Nvidia
  <1>3. ~(i < j) /\ ~(j < i)
    BY <1>1, <1>2 DEF First
  <1> QED BY <1>1, <1>2, <1>3

\* Two pairs of the plan are for two GPUs.
LEMMA PairsApart ==
    ASSUME IInv, SameUse, \A i \in 1..Len(machine.cuda) : Name[machine.cuda[i]] \in Branded,
           NEW a \in Plan(Built), NEW b \in Plan(Built), a[1].gpu = b[1].gpu
    PROVE  a = b
  <1>1. \A spec \in Offered("cuda") \cup Offered("opencl") : spec.name \in Branded
    BY SlotInRange
  <1>2. Others(Built) = {}
    BY <1>1, BuiltIsOffered DEF Others
  <1>3. \A pair \in Plan(Built) :
            \/ /\ pair[1] \in Nvidia(Built, "opencl")
               /\ pair = <<pair[1], Fallbacks(Built, pair[1])>>
            \/ /\ pair[1] \in Nvidia(Built, "cuda") /\ pair = <<pair[1], {}>>
               /\ \A o \in Nvidia(Built, "opencl") : Key(o) # Key(pair[1])
    BY <1>2 DEF Plan, Paired, Leftover
  <1>4. Key(a[1]) = Key(b[1])
    <2>1. /\ a[1] \in Offered("cuda") \cup Offered("opencl")
          /\ b[1] \in Offered("cuda") \cup Offered("opencl")
      BY Planned
    <2>2. /\ a[1].slot \in Nat /\ a[1].slot + 1 \in 1..Len(machine.cuda)
          /\ a[1].gpu = machine.cuda[a[1].slot + 1] /\ a[1].name = Name[a[1].gpu]
          /\ b[1].slot \in Nat /\ b[1].slot + 1 \in 1..Len(machine.cuda)
          /\ b[1].gpu = machine.cuda[b[1].slot + 1] /\ b[1].name = Name[b[1].gpu]
      BY <2>1, SlotInRange
    <2>3. \A i, j \in 1..Len(machine.cuda) : machine.cuda[i] = machine.cuda[j] => i = j
      BY DevicesAssumption DEF IInv, Started
    <2>4. a[1].slot + 1 = b[1].slot + 1
      BY <2>2, <2>3
    <2> QED BY <2>2, <2>4 DEF Key
  <1>5. Len(Built) \in Nat
    BY BuiltIsOffered
  <1>6. \A p : \A c, d \in Nvidia(Built, p) : Key(c) = Key(d) => c = d
    BY <1>5, NvidiaKeys
  <1>7. a[1] = b[1]
    BY <1>3, <1>4, <1>6
  <1> QED BY <1>3, <1>7

\* ... so two threads are, whether they have fallen back or not.
LEMMA ThreadsApart == IInv /\ OnePerPair => NoGpuTwice
  <1> SUFFICES ASSUME IInv, OnePerPair, SameUse,
                      \A i \in 1..Len(machine.cuda) : Name[machine.cuda[i]] \in Branded,
                      NEW t \in threads, NEW u \in threads, t # u,
                      NEW a \in Running(t), NEW b \in Running(u), a.gpu = b.gpu
               PROVE  FALSE
    BY DEF NoGpuTwice
  <1>1. a.gpu = t.primary.gpu /\ b.gpu = u.primary.gpu
    BY IInvFallsBack DEF FallsBackOnSameGpu, Running
  <1> DEFINE p == <<t.primary, t.fallback>>
             q == <<u.primary, u.fallback>>
  <1>2. p \in Plan(Built) /\ q \in Plan(Built) /\ p # q
    BY DEF OnePerPair
  <1>3. p[1].gpu = q[1].gpu
    BY <1>1
  <1> HIDE DEF p, q
  <1> QED BY <1>2, <1>3, PairsApart

-----------------------------------------------------------------------------
(* Power limits and ceilings.                                              *)

\* The plugin sets the limits that it makes into ceilings.
PowerInv ==
    /\ power \in [Gpus -> 0..NoLimit]
    /\ "cuda" \notin HasRead => power = [g \in Gpus |-> NoLimit]
    /\ opt.autotune_max = <<>> /\ UsedOnce =>
        \A spec \in Offered("cuda") : spec.max_power_w <= power[spec.gpu]

\* Of a set of numbers with a bound that is not empty, one is the greatest.
LEMMA Greatest ==
    ASSUME NEW n \in Nat, NEW T, T \subseteq 1..n, T # {}
    PROVE  \E x \in T : \A y \in T : y <= x
  <1> DEFINE S == {n - y : y \in T}
  <1>1. S \subseteq Nat /\ S # {}
    <2>1. \A y \in T : n - y \in Nat
      OBVIOUS
    <2> QED BY <2>1
  <1>2. PICK z \in S : \A w \in S : z <= w
    <2> HIDE DEF S
    <2> QED BY <1>1, Smallest
  <1>3. PICK x \in T : z = n - x
    BY <1>2
  <1>4. \A y \in T : n - x <= n - y
    BY <1>2, <1>3
  <1>5. \A y \in T : y <= x
    BY <1>4
  <1> QED BY <1>3, <1>5

\* What is picked is in the list, or the default.
LEMMA PickIn ==
    ASSUME NEW S, NEW values \in Seq(S), NEW i \in Nat \ {0}, NEW default \in S
    PROVE  Pick(values, i, default) \in S
  <1>1. CASE values = <<>>
    BY <1>1 DEF Pick
  <1>2. CASE values # <<>>
    <2>1. Len(values) \in Nat \ {0}
      BY <1>2, LenProperties
    <2> QED BY <1>2, <2>1, ElementOfSeq DEF Pick
  <1> QED BY <1>1, <1>2

\* A limit that is set is one of the list, or none.
LEMMA LimitsType ==
    ASSUME IInv, power \in [Gpus -> 0..NoLimit], NEW n \in 0..Len(CudaGpus), NEW refused,
           SetLimits(n, refused)
    PROVE  power' \in [Gpus -> 0..NoLimit]
  <1> DEFINE of(g) == {i \in (1..n) \ refused : machine.cuda[CudaGpus[i] + 1] = g}
             last(g) == CHOOSE i \in of(g) : \A j \in of(g) : j <= i
  <1>1. power' = [g \in Gpus |->
            IF of(g) = {} THEN power[g] ELSE Pick(opt.power_limits, last(g), NoLimit)]
    BY DEF SetLimits
  <1>2. n \in Nat
    BY CudaGpusType DEF IInv
  <1>3. ASSUME NEW g \in Gpus, of(g) # {}
        PROVE  Pick(opt.power_limits, last(g), NoLimit) \in 0..NoLimit
    <2>1. of(g) \subseteq 1..n
      OBVIOUS
    <2>2. \E x \in of(g) : \A y \in of(g) : y <= x
      <3> HIDE DEF of
      <3> QED BY <1>2, <1>3, <2>1, Greatest
    <2>3. last(g) \in of(g)
      BY <2>2
    <2>4. last(g) \in Nat \ {0}
      <3> HIDE DEF of, last
      <3>1. last(g) \in 1..n
        BY <2>1, <2>3
      <3> QED BY <1>2, <3>1
    <2>5. opt.power_limits \in Seq(0..NoLimit) /\ NoLimit \in 0..NoLimit
      BY DevicesAssumption DEF IInv, Started
    <2> HIDE DEF last
    <2> QED BY <2>4, <2>5, PickIn
  <1> HIDE DEF of, last
  <1> QED BY <1>1, <1>3

\* What a CUDA spec is made of.
LEMMA CudaSpecAt ==
    ASSUME IInv
    PROVE  /\ Len(CudaSpecs) = Len(CudaGpus) /\ Len(CudaGpus) \in Nat
           /\ \A i \in 1..Len(CudaGpus) :
                /\ CudaSpecs[i].gpu = machine.cuda[CudaGpus[i] + 1]
                /\ CudaSpecs[i].gpu \in Gpus
                /\ CudaSpecs[i].max_power_w = Ceiling(i)
  <1>1. Len(CudaGpus) \in Nat
    BY CudaGpusType DEF IInv
  <1>2. machine.cuda \in Seq(Gpus)
    BY DevicesAssumption DEF IInv, Started
  <1>3. \A i \in 1..Len(CudaGpus) : machine.cuda[CudaGpus[i] + 1] \in Gpus
    BY <1>2, CudaGpusInRange, ElementOfSeq DEF IInv
  <1> QED BY <1>1, <1>3 DEF CudaSpecs

\* The limit of a GPU that is used once is its position's, when NVML does not refuse it:
\* that position's ceiling.
LEMMA LimitsAreCeilings ==
    ASSUME IInv, power = [g \in Gpus |-> NoLimit], opt.autotune_max = <<>>, UsedOnce,
           NEW refused, SetLimits(Len(CudaGpus), refused), NEW k \in 1..Len(CudaGpus)
    PROVE  Ceiling(k) <= power'[CudaSpecs[k].gpu]
  <1> DEFINE g == CudaSpecs[k].gpu
             of == {i \in (1..Len(CudaGpus)) \ refused : machine.cuda[CudaGpus[i] + 1] = g}
  <1>1. g \in Gpus /\ g = machine.cuda[CudaGpus[k] + 1] /\ Len(CudaGpus) \in Nat
    BY CudaSpecAt
  <1>2. Ceiling(k) = Pick(opt.power_limits, k, NoLimit)
    BY DEF Ceiling, Pick
  <1>3. \A i \in of : i = k
    <2>1. SUFFICES ASSUME NEW i \in of PROVE i = k
      OBVIOUS
    <2>2. /\ CudaGpus[i] + 1 \in 1..Len(machine.cuda) /\ CudaGpus[k] + 1 \in 1..Len(machine.cuda)
          /\ CudaGpus[i] \in Nat /\ CudaGpus[k] \in Nat
      BY CudaGpusType, CudaGpusInRange, ElementOfSeq DEF IInv
    <2>3. CudaGpus[i] + 1 = CudaGpus[k] + 1
      BY <1>1, <2>2, DevicesAssumption DEF IInv, Started
    <2>4. CudaGpus[i] = CudaGpus[k]
      BY <2>2, <2>3
    <2> QED BY <2>4 DEF UsedOnce
  <1>4. power'[g] = IF of = {} THEN power[g]
                    ELSE Pick(opt.power_limits, CHOOSE i \in of : \A j \in of : j <= i, NoLimit)
    BY <1>1 DEF SetLimits
  <1>5. Pick(opt.power_limits, k, NoLimit) \in 0..NoLimit
    <2>1. opt.power_limits \in Seq(0..NoLimit) /\ NoLimit \in 0..NoLimit
      BY DevicesAssumption DEF IInv, Started
    <2> QED BY <1>1, <2>1, PickIn
  <1> HIDE DEF of, g
  <1>6. CASE of = {}
    BY <1>1, <1>2, <1>4, <1>5, <1>6, DevicesAssumption DEF g
  <1>7. CASE of # {}
    <2>1. (CHOOSE i \in of : \A j \in of : j <= i) = k
      <3>1. k \in of /\ \A j \in of : j <= k
        BY <1>1, <1>3, <1>7
      <3>2. (CHOOSE i \in of : \A j \in of : j <= i) \in of
        BY <3>1
      <3> QED BY <1>3, <3>2
    <2>2. power'[g] = Pick(opt.power_limits, k, NoLimit)
      BY <1>4, <1>7, <2>1
    <2> QED BY <1>2, <1>5, <2>2 DEF g
  <1> QED BY <1>6, <1>7

\* What has been read stays read.
LEMMA ReadGrows ==
    ASSUME IInv, ReadInv, [Next]_vars
    PROVE  HasRead \subseteq HasRead'
  <1>1. CASE LoadPlugin \/ ParseCommandLine
    BY <1>1 DEF LoadPlugin, ParseCommandLine, HasRead
  <1>2. ASSUME NEW p \in Plugins, Reads(p)
        PROVE  HasRead \subseteq HasRead'
    BY <1>2, ReadsOnce
  <1>3. CASE CudaOptions \/ CudaOptionsFail \/ CudaDisabled \/ OpenCLOptions \/ OpenCLOff
    BY <1>2, <1>3 DEF CudaOptions, CudaOptionsFail, CudaDisabled, OpenCLOptions, OpenCLOff, Plugins
  <1>4. ASSUME UNCHANGED <<todo, plugins>>, phase = "load" \/ phase' # "load"
        PROVE  HasRead \subseteq HasRead'
    <2>1. In(todo)' = In(todo) /\ In(plugins)' = In(plugins)
      BY <1>4 DEF In
    <2> QED BY <1>4, <2>1 DEF HasRead
  <1>5. CASE CheckWorkers \/ Connect \/ Hangup \/ UNCHANGED vars
    BY <1>4, <1>5 DEF CheckWorkers, Connect, Hangup, vars, manager
  <1>6. ASSUME NEW t \in threads, Builds(t) \/ FallsBack(t) \/ Ends(t)
        PROVE  HasRead \subseteq HasRead'
    <2>1. UNCHANGED <<todo, plugins>> /\ phase' = phase
      BY <1>6 DEF Builds, FallsBack, Ends, Becomes, manager
    <2> QED BY <1>4, <2>1
  <1> QED BY <1>1, <1>3, <1>5, <1>6 DEF Next

\* Every step keeps ceilings below limits.
LEMMA NextPowerInv == IInv /\ ReadInv /\ PowerInv /\ [Next]_vars => PowerInv'
  <1> SUFFICES ASSUME IInv, ReadInv, PowerInv, [Next]_vars PROVE PowerInv'
    OBVIOUS
  <1>1. HasRead \subseteq HasRead'
    BY ReadGrows
  <1>2. ASSUME UNCHANGED <<start, power>>, specs'["cuda"] = specs["cuda"]
        PROVE  PowerInv'
    <2>1. CudaGpus' = CudaGpus /\ opt' = opt
      BY <1>2, FrameStart DEF start
    <2>2. Offered("cuda")' = Offered("cuda") /\ (UsedOnce' <=> UsedOnce)
      BY <1>2, <2>1 DEF Offered, UsedOnce
    <2> QED BY <1>1, <1>2, <2>1, <2>2 DEF PowerInv
  <1>3. CASE CudaOptions
    <2>1. /\ UNCHANGED start /\ HasRead' = HasRead \cup {"cuda"} /\ "cuda" \notin HasRead
      BY <1>3, ReadsOnce DEF CudaOptions, Plugins, Reads
    <2>2. CudaGpus' = CudaGpus /\ opt' = opt
      BY <2>1, FrameStart DEF start
    <2>3. power = [g \in Gpus |-> NoLimit]
      BY <2>1 DEF PowerInv
    <2>4. specs'["cuda"] = CudaSpecs
      BY <1>3 DEF CudaOptions, IInv, SpecsMade, Plugins
    <2>5. power' \in [Gpus -> 0..NoLimit]
      <3>1. CASE UNCHANGED power
        BY <3>1 DEF PowerInv
      <3>2. ASSUME NEW refused, SetLimits(Len(CudaGpus), refused)
            PROVE  power' \in [Gpus -> 0..NoLimit]
        <4>1. Len(CudaGpus) \in 0..Len(CudaGpus)
          BY CudaGpusType DEF IInv
        <4> QED BY <3>2, <4>1, LimitsType DEF PowerInv
      <3> QED BY <1>3, <3>1, <3>2 DEF CudaOptions
    <2>6. ASSUME opt.autotune_max = <<>>, UsedOnce, NEW k \in 1..Len(CudaGpus)
          PROVE  Ceiling(k) <= power'[CudaSpecs[k].gpu]
      <3>1. CASE opt.power_limits = <<>>
        <4>1. Ceiling(k) = NoLimit
          BY <2>6, <3>1 DEF Ceiling, Pick
        <4>2. power' = power
          BY <1>3, <3>1 DEF CudaOptions
        <4>3. CudaSpecs[k].gpu \in Gpus
          BY CudaSpecAt
        <4> QED BY <2>3, <4>1, <4>2, <4>3, DevicesAssumption
      <3>2. CASE opt.power_limits # <<>>
        <4>1. PICK refused : SetLimits(Len(CudaGpus), refused)
          BY <1>3, <3>2 DEF CudaOptions
        <4> QED BY <2>3, <2>6, <4>1, LimitsAreCeilings
      <3> QED BY <3>1, <3>2
    <2>7. ASSUME opt.autotune_max = <<>>, UsedOnce, NEW spec \in Offered("cuda")'
          PROVE  spec.max_power_w <= power'[spec.gpu]
      <3>1. PICK k \in 1..Len(CudaSpecs) : spec = CudaSpecs[k]
        BY <2>4 DEF Offered
      <3>2. k \in 1..Len(CudaGpus) /\ spec.max_power_w = Ceiling(k)
        BY <3>1, CudaSpecAt
      <3> QED BY <2>6, <2>7, <3>1, <3>2
    <2>8. UsedOnce' <=> UsedOnce
      BY <2>2 DEF UsedOnce
    <2> QED BY <2>1, <2>2, <2>5, <2>7, <2>8 DEF PowerInv
  <1>4. CASE CudaOptionsFail
    <2>1. /\ UNCHANGED <<start, specs>> /\ HasRead' = HasRead \cup {"cuda"}
          /\ specs["cuda"] = <<>>
      BY <1>4, ReadsOnce DEF CudaOptionsFail, Plugins, Reads
    <2>2. Offered("cuda")' = {}
      BY <2>1 DEF Offered
    <2>3. power' \in [Gpus -> 0..NoLimit]
      BY <1>4, LimitsType DEF CudaOptionsFail, PowerInv
    <2> QED BY <2>1, <2>2, <2>3 DEF PowerInv
  <1>5. CASE CudaDisabled
    BY <1>2, <1>5 DEF CudaDisabled, Reads
  <1>6. CASE OpenCLOptions \/ OpenCLOff
    <2>1. specs'["cuda"] = specs["cuda"]
      BY <1>6 DEF OpenCLOptions, OpenCLOff, IInv, SpecsMade, Plugins
    <2> QED BY <1>2, <1>6, <2>1 DEF OpenCLOptions, OpenCLOff, Reads
  <1>7. CASE \/ LoadPlugin \/ ParseCommandLine \/ CheckWorkers \/ Connect \/ Hangup
             \/ UNCHANGED vars
    <2>1. UNCHANGED <<start, specs, power>>
      BY <1>7 DEF LoadPlugin, ParseCommandLine, CheckWorkers, Connect, Hangup, vars, manager, start
    <2> QED BY <1>2, <2>1
  <1>8. ASSUME NEW t \in threads, Builds(t) \/ FallsBack(t) \/ Ends(t)
        PROVE  PowerInv'
    <2>1. UNCHANGED <<start, specs, power>>
      BY <1>8 DEF Builds, FallsBack, Ends, Becomes, manager
    <2> QED BY <1>2, <2>1
  <1> QED BY <1>3, <1>4, <1>5, <1>6, <1>7, <1>8 DEF Next

\* What runs was offered.
LEMMA CeilingsHold == IInv /\ ThreadsRun /\ PowerInv => CeilingKept
  <1> SUFFICES ASSUME IInv, ThreadsRun, PowerInv, opt.autotune_max = <<>>, UsedOnce,
                      NEW t \in threads, NEW spec \in Running(t), spec.plugin = "cuda"
               PROVE  spec.max_power_w <= power[spec.gpu]
    BY DEF CeilingKept
  <1>1. spec \in Offered("cuda") \cup Offered("opencl")
    BY DEF ThreadsRun, Running, IInv, ThreadsMade
  <1>2. spec \in Offered("cuda")
    BY <1>1, OpenCLOffer
  <1> QED BY <1>2 DEF PowerInv

-----------------------------------------------------------------------------
(* Types.                                                                  *)

\* What main and a thread may be at.
States ==
    /\ phase \in {"load", "options", "refused", "connect", "mining"}
    /\ \A t \in threads : t.runs \in {"none", "primary", "fallback", "ended"}

\* Every step goes to one of them.
LEMMA NextStates == ThreadsRun /\ States /\ [Next]_vars => States'
  <1> SUFFICES ASSUME ThreadsRun, States, [Next]_vars PROVE States'
    OBVIOUS
  <1>1. CASE \/ LoadPlugin \/ ParseCommandLine \/ CudaOptions \/ CudaOptionsFail
             \/ CudaDisabled \/ OpenCLOptions \/ OpenCLOff \/ CheckWorkers
    BY <1>1 DEF LoadPlugin, ParseCommandLine, CudaOptions, CudaOptionsFail, CudaDisabled,
                OpenCLOptions, OpenCLOff, CheckWorkers, Reads, States
  <1>2. CASE Connect \/ Hangup \/ UNCHANGED vars
    BY <1>2 DEF Connect, Hangup, vars, States
  <1>3. ASSUME NEW t \in threads, Builds(t) \/ FallsBack(t) \/ Ends(t)
        PROVE  States'
    <2>1. PICK runs \in {"primary", "fallback", "ended"} : Becomes(t, runs)
      BY <1>3 DEF Builds, FallsBack, Ends
    <2>2. t = [primary |-> t.primary, fallback |-> t.fallback, runs |-> t.runs]
      BY DEF ThreadsRun
    <2>3. [t EXCEPT !.runs = runs].runs = runs
      BY <2>2
    <2> QED BY <2>1, <2>3 DEF Becomes, States
  <1> QED BY <1>1, <1>2, <1>3 DEF Next

\* The parts make the type invariant.
LEMMA PartsTypeOK == IInv /\ ReadInv /\ ThreadsRun /\ PowerInv /\ States => TypeOK
  <1> SUFFICES ASSUME IInv, ReadInv, ThreadsRun, PowerInv, States PROVE TypeOK
    OBVIOUS
  <1>1. \A p \in Plugins : \A i \in 1..Len(specs[p]) : specs[p][i].plugin = p
    <2>1. \A p \in Plugins : \A i \in 1..Len(specs[p]) : specs[p][i] \in Offered(p)
      BY DEF Offered
    <2> QED BY <2>1, CudaOffer, OpenCLOffer DEF Plugins
  <1>2. count \in Nat
    <2> DEFINE cuda == Len(specs["cuda"])
               opencl == Len(specs["opencl"])
    <2>1. cuda \in Nat /\ opencl \in Nat
      BY SpecsAreSeqs
    <2>2. count = cuda + opencl
      BY DEF ReadInv, Counted
    <2> HIDE DEF cuda, opencl
    <2> QED BY <2>1, <2>2
  <1>3. power \in [Gpus -> Nat]
    BY DevicesAssumption DEF PowerInv
  <1>4. ASSUME NEW t \in threads PROVE Cardinality(t.fallback) <= 1
    <2>1. CASE t.fallback = {}
      BY <2>1, FS_EmptySet
    <2>2. CASE t.fallback # {}
      <3>1. PICK spec \in t.fallback : t.fallback = {spec}
        BY <2>2 DEF ThreadsRun
      <3>2. Cardinality({spec}) = 1
        BY FS_Singleton
      <3> QED BY <3>1, <3>2
    <2> QED BY <2>1, <2>2
  <1> QED BY <1>1, <1>2, <1>3, <1>4 DEF TypeOK, States, IInv, Started, ReadInv, Counted

-----------------------------------------------------------------------------
(* The theorems.                                                           *)

\* The invariant holds throughout.
LEMMA Invariance == Spec => []IInv
  <1>1. Init => IInv
    BY InitIInv
  <1>2. IInv /\ [Next]_vars => IInv'
    BY NextIInv
  <1> QED BY <1>1, <1>2, PTL DEF Spec

\* A thread falls back from OpenCL to CUDA on its own GPU, whatever machine, names and
\* options, if the GPUs' names differ or both plugins use the same GPUs
\* (plan_gpu_specs in src/miner.rs).
THEOREM OwnFallback == Spec => []FallsBackOnSameGpu
  BY Invariance, IInvFallsBack, PTL

\* Threads run what could be built, throughout.
LEMMA RunInvariance == Spec => []ThreadsRun
  <1>1. Init => ThreadsRun
    BY DEF Init, ThreadsRun
  <1>2. IInv /\ ThreadsRun /\ [Next]_vars => ThreadsRun'
    BY NextThreadsRun
  <1> QED BY <1>1, <1>2, Invariance, PTL DEF Spec

\* A CUDA worker runs the kernel for its GPU's compute capability if there is one, and
\* never a newer one, on whatever GPUs (CudaGPUWorker::new in plugins/cuda/src/worker.rs).
THEOREM FittingKernel == Spec => []KernelFits
  BY Invariance, RunInvariance, RunFits, PTL

\* What is read is counted, throughout.
LEMMA ReadInvariance == Spec => []ReadInv
  <1>1. Init => ReadInv
    BY InitReadInv
  <1>2. IInv /\ ReadInv /\ [Next]_vars => ReadInv'
    BY NextReadInv
  <1>3. Spec => []IInv
    BY Invariance
  <1> QED BY <1>1, <1>2, <1>3, PTL DEF Spec

\* What main counts is what every connection builds, and it refuses to start exactly
\* when there is nothing to build and no CPU thread (process_options in src/lib.rs,
\* main in src/main.rs).
THEOREM CountIsKept == Spec => []CountIsBuilt
  BY Invariance, ReadInvariance, CountedIsBuilt, PTL

\* Every GPU a plugin offers is in the care of a thread, whatever the plan drops on the
\* way, if GPUs can be told by their keys (plan_gpu_specs in src/miner.rs).
THEOREM AllInCare == Spec => []NoneForgotten
  <1>1. Init => Mined
    BY DEF Init, Mined
  <1>2. Mined /\ [Next]_vars => Mined'
    BY NextMined
  <1>3. IInv /\ ReadInv /\ Mined => NoneForgotten
    BY MinedForgetsNone
  <1> QED BY <1>1, <1>2, <1>3, Invariance, ReadInvariance, PTL DEF Spec

\* No two threads run on one GPU, whoever has fallen back, if both plugins use the same
\* GPUs and all are NVIDIA's by name (plan_gpu_specs in src/miner.rs).
THEOREM GpusApart == Spec => []NoGpuTwice
  <1>1. Init => OnePerPair
    BY DEF Init, OnePerPair
  <1>2. IInv /\ OnePerPair /\ [Next]_vars => OnePerPair'
    BY NextOnePerPair DEF IInv
  <1>3. IInv /\ OnePerPair => NoGpuTwice
    BY ThreadsApart
  <1> QED BY <1>1, <1>2, <1>3, Invariance, PTL DEF Spec

\* Ceilings are within limits, throughout.
LEMMA PowerInvariance == Spec => []PowerInv
  <1>1. Init => PowerInv
    <2> SUFFICES ASSUME Init PROVE PowerInv
      OBVIOUS
    <2>1. specs["cuda"] = <<>> /\ power = [g \in Gpus |-> NoLimit]
      BY DEF Init, Plugins
    <2> QED BY <2>1, DevicesAssumption DEF PowerInv, Offered
  <1>2. IInv /\ ReadInv /\ PowerInv /\ [Next]_vars => PowerInv'
    BY NextPowerInv
  <1> QED BY <1>1, <1>2, Invariance, ReadInvariance, PTL DEF Spec

\* The autotuner's ceiling is no higher than the power limit its GPU was given, for any
\* list of GPUs that names none twice, and whichever limits NVML refuses (pick_indexed
\* and build_autotune_setting in plugins/cuda/src/lib.rs).
THEOREM CeilingIsKept == Spec => []CeilingKept
  BY Invariance, RunInvariance, PowerInvariance, CeilingsHold, PTL

\* Every variable keeps its type, and a thread has one fallback at most, however many
\* specs share a key (or_insert in plan_gpu_specs, src/miner.rs).
THEOREM TypeCorrect == Spec => []TypeOK
  <1>1. Init => States
    BY DEF Init, States
  <1>2. ThreadsRun /\ States /\ [Next]_vars => States'
    BY NextStates
  <1>3. IInv /\ ReadInv /\ ThreadsRun /\ PowerInv /\ States => TypeOK
    BY PartsTypeOK
  <1> QED BY <1>1, <1>2, <1>3, Invariance, ReadInvariance, RunInvariance, PowerInvariance,
             PTL DEF Spec

=============================================================================
