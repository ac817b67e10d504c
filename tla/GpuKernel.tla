------------------------------ MODULE GpuKernel ------------------------------
(***************************************************************************)
(* One GPU worker and its device: what the CUDA and the OpenCL plugin do   *)
(* for a launch (plugins/cuda/src/worker.rs, plugins/opencl/src/worker.rs),*)
(* the work items of the kernel heavy_hash (cryptix-cuda.cu,               *)
(* cryptix-opencl.cl), and the host's look at the one cell in which they   *)
(* leave a nonce (launch_gpu_miner in src/miner.rs).                       *)
(*                                                                         *)
(* Items of one group share a local copy of the job's matrix that all of   *)
(* them fill.  A hash is only whether it meets the target: as the job says *)
(* when the copy is the job's matrix, either way when it is not.           *)
(***************************************************************************)
EXTENDS Naturals

CONSTANTS
    Setups,      \* devices with their options, see SetupType
    Jobs,        \* what the host mines on
    Nonces,      \* what masking may make of a random number; 0 is one
    Solves,      \* the pairs of a job and a nonce that solves it
    MaxLaunches  \* bound: kernel launches

NoJob == "no job"

SetupType ==
    [api: {"cuda", "opencl"},
     block: Nat \ {0},      \* suggested block size; maximal work-group size
     units: Nat \ {0},      \* resident blocks; compute units
     absolute: BOOLEAN,     \* the workload is a number of nonces, not a ratio
     num: Nat, den: Nat \ {0},              \* the workload option, as a fraction
     group: Nat \ {0},      \* size of the groups the driver forms
     experimental_amd: BOOLEAN, listed: BOOLEAN]    \* the device's name is in the list

ASSUME KernelAssumption ==
    /\ Setups \subseteq SetupType
    /\ Nonces \subseteq Nat /\ Nonces # {}
    /\ Solves \subseteq Jobs \X Nonces
    /\ NoJob \notin Jobs
    /\ MaxLaunches \in Nat

VARIABLES
    setup,        \* the device, its plugin and its options
    hpc,          \* the host thread: "loop", "running", "check", "ended"
    job,          \* its `state`
    launches,     \* launches so far
    got,          \* nonces[0]
    gpu_job,      \* whose header, matrix and target are on the device
    final_nonce,  \* the cell on the device; 0 is no nonce
    ipc,          \* ipc[i]: where item i of the last launch is
    nonce         \* nonce[i]: the nonce with which i met the target

host == <<hpc, job, launches, got, gpu_job>>
vars == <<setup, hpc, job, launches, got, gpu_job, final_nonce, ipc, nonce>>

-----------------------------------------------------------------------------
(* What a setup makes of its options.                                      *)

\* The workload of a CUDA worker; a fraction of a nonce is cut off.
CudaWorkload(s) == ((IF s.absolute THEN 1 ELSE s.block * s.units) * s.num) \div s.den

\* set_workload: as many blocks as it takes, the last one not always whole.
GridSize(s) == (CudaWorkload(s) + s.block - 1) \div s.block

OpenCLWorkload(s) == ((IF s.absolute THEN 1 ELSE s.block * s.units) * s.num) \div s.den

\* The matrix is sent with two entries to a byte; the kernel reads one from each.  (No
\* device has a precompiled kernel, so use_binary is always cleared.)
Packed(s) == s.api = "opencl" /\ s.experimental_amd /\ ~s.listed

Workload == IF setup.api = "cuda" THEN CudaWorkload(setup) ELSE OpenCLWorkload(setup)

\* CUDA starts whole blocks, OpenCL exactly the workload.
Launched == IF setup.api = "cuda" THEN GridSize(setup) * setup.block ELSE Workload
Items    == 0..(Launched - 1)
Beyond(i) == i >= Workload    \* an item of the last block without a nonce
Group(i) == {j \in Items : j \div setup.group = i \div setup.group}

Init ==
    /\ setup \in Setups
    /\ hpc = "loop"
    /\ job = NoJob
    /\ launches = 0
    /\ got = 0
    /\ gpu_job = NoJob
    /\ final_nonce = 0
    /\ ipc = [i \in Items |-> "missed"]
    /\ nonce = [i \in Items |-> 0]

Goto(i, where) == ipc' = [ipc EXCEPT ![i] = where]

-----------------------------------------------------------------------------
(* Faulty variants of steps below, each of which breaks a property; none   *)
(* is part of Next.                                                        *)

\* ReportedSolves: the nonce is stored without a look at the cell.
CudaStoreAlways(i) ==
    /\ setup.api = "cuda"
    /\ ipc[i] = "store"
    /\ final_nonce' = nonce[i]
    /\ Goto(i, "found")
    /\ UNCHANGED <<setup, host, nonce>>

\* FoundIsReported: get_local_id() for get_global_id(), so that every group clears the cell.
OpenCLEnterLocal(i) ==
    /\ setup.api = "opencl"
    /\ ipc[i] = "start"
    /\ final_nonce' = IF i % setup.group = 0 THEN 0 ELSE final_nonce
    /\ Goto(i, "barrier")
    /\ UNCHANGED <<setup, host, nonce>>

-----------------------------------------------------------------------------
(* The host thread.                                                        *)

\* wait_for_change gives a job at last.
WaitForJob ==
    /\ hpc = "loop"
    /\ job = NoJob
    /\ job' \in Jobs
    /\ UNCHANGED <<setup, hpc, launches, got, gpu_job, final_nonce, ipc, nonce>>

\* load_to_gpu and pow_gpu; nonces[0] was cleared at the head of the loop.
LoadAndLaunch ==
    /\ hpc = "loop"
    /\ job # NoJob
    /\ launches < MaxLaunches
    /\ hpc' = "running"
    /\ launches' = launches + 1
    /\ got' = 0
    /\ gpu_job' = job
    /\ ipc' = [i \in Items |-> "start"]
    /\ nonce' = [i \in Items |-> 0]
    /\ UNCHANGED <<setup, job>>

\* CUDA clears the cell before it launches, OpenCL when it loads the constants.
CudaLaunch   == setup.api = "cuda" /\ LoadAndLaunch /\ final_nonce' = 0
OpenCLLaunch == setup.api = "opencl" /\ LoadAndLaunch /\ final_nonce' = 0

AllDone == \A i \in Items : ipc[i] \in {"left", "missed", "found"}

\* sync() and copy_output_to(): the kernel has ended and its nonce is read.
ReadNonce ==
    /\ hpc = "running"
    /\ AllDone
    /\ got' = final_nonce
    /\ hpc' = "check"
    /\ UNCHANGED <<setup, job, launches, gpu_job, final_nonce, ipc, nonce>>

\* sync() reports a run that took longer than the block time, or a failed wait: without
\* a fallback the run is ignored, and the loop goes on with the same job.
RunIgnored ==
    /\ hpc = "running"
    /\ AllDone
    /\ hpc' = "loop"
    /\ UNCHANGED <<setup, job, launches, got, gpu_job, final_nonce, ipc, nonce>>

\* generate_block_if_pow agrees: a full block is finished with, a partial one mined on.
Confirmed ==
    /\ hpc = "check"
    /\ got # 0
    /\ <<job, got>> \in Solves
    /\ hpc' = "loop"
    /\ job' \in {job, NoJob}
    /\ UNCHANGED <<setup, launches, got, gpu_job, final_nonce, ipc, nonce>>

\* "Something is wrong in GPU results!": the thread ends.
NotConfirmed ==
    /\ hpc = "check"
    /\ got # 0
    /\ <<job, got>> \notin Solves
    /\ hpc' = "ended"
    /\ UNCHANGED <<setup, job, launches, got, gpu_job, final_nonce, ipc, nonce>>

\* Nothing was found: get_changed may hand out another job, or None.
NothingFound ==
    /\ hpc = "check"
    /\ got = 0
    /\ hpc' = "loop"
    /\ job' \in Jobs \cup {NoJob}
    /\ UNCHANGED <<setup, launches, got, gpu_job, final_nonce, ipc, nonce>>

-----------------------------------------------------------------------------
(* The work items.                                                         *)

\* An item past the end of the workload, or one that finds the cell taken, returns; the
\* others copy their stride of the matrix and come to __syncthreads.
CudaEnter(i) ==
    /\ setup.api = "cuda"
    /\ ipc[i] = "start"
    /\ Goto(i, IF Beyond(i) \/ final_nonce # 0 THEN "left" ELSE "barrier")
    /\ UNCHANGED <<setup, host, final_nonce, nonce>>

\* The first item clears the cell, whatever the other groups have found by now.
OpenCLEnter(i) ==
    /\ setup.api = "opencl"
    /\ ipc[i] = "start"
    /\ final_nonce' = IF i = 0 THEN 0 ELSE final_nonce
    /\ Goto(i, "barrier")
    /\ UNCHANGED <<setup, host, nonce>>

\* The barrier opens when every item of the group is there or has returned.
PassBarrier(i) ==
    /\ ipc[i] = "barrier"
    /\ \A j \in Group(i) : ipc[j] \in {"barrier", "left"}
    /\ ipc' = [j \in Items |-> IF j \in Group(i) /\ ipc[j] = "barrier" THEN "hash" ELSE ipc[j]]
    /\ UNCHANGED <<setup, host, final_nonce, nonce>>

\* The local matrix is the job's when nobody left its stride out.
MatrixComplete(i) == ~Packed(setup) /\ \A j \in Group(i) : ipc[j] # "left"

\* What hash_meets_target_words may say of n.
Verdicts(i, n) == IF MatrixComplete(i) THEN {(<<gpu_job, n>> \in Solves)} ELSE BOOLEAN

HashNonce(i) ==
    /\ ipc[i] = "hash"
    /\ \E n \in Nonces :
        \/ TRUE \in Verdicts(i, n) /\ nonce' = [nonce EXCEPT ![i] = n] /\ Goto(i, "store")
        \/ FALSE \in Verdicts(i, n) /\ Goto(i, "missed") /\ UNCHANGED nonce
    /\ UNCHANGED <<setup, host, final_nonce>>

\* atomicCAS.
CudaStore(i) ==
    /\ setup.api = "cuda"
    /\ ipc[i] = "store"
    /\ final_nonce' = IF final_nonce = 0 THEN nonce[i] ELSE final_nonce
    /\ Goto(i, "found")
    /\ UNCHANGED <<setup, host, nonce>>

\* A plain look at the cell ...
OpenCLTest(i) ==
    /\ setup.api = "opencl"
    /\ ipc[i] = "store"
    /\ Goto(i, IF final_nonce = 0 THEN "write" ELSE "found")
    /\ UNCHANGED <<setup, host, final_nonce, nonce>>

\* ... and a store after it.
OpenCLWrite(i) ==
    /\ ipc[i] = "write"
    /\ final_nonce' = nonce[i]
    /\ Goto(i, "found")
    /\ UNCHANGED <<setup, host, nonce>>

-----------------------------------------------------------------------------
HostStep ==
    \/ WaitForJob
    \/ CudaLaunch
    \/ OpenCLLaunch
    \/ ReadNonce
    \/ RunIgnored
    \/ Confirmed
    \/ NotConfirmed
    \/ NothingFound

ItemStep(i) ==
    \/ CudaEnter(i)
    \/ OpenCLEnter(i)
    \/ PassBarrier(i)
    \/ HashNonce(i)
    \/ CudaStore(i)
    \/ OpenCLTest(i)
    \/ OpenCLWrite(i)

Next == HostStep \/ \E i \in Items : ItemStep(i)

Spec == Init /\ [][Next]_vars

-----------------------------------------------------------------------------
(* Properties.                                                             *)

\* Every variable keeps its type; the setup is one of the given ones.
TypeOK ==
    /\ setup \in Setups
    /\ hpc \in {"loop", "running", "check", "ended"}
    /\ job \in Jobs \cup {NoJob}
    /\ launches \in 0..MaxLaunches
    /\ got \in Nonces \cup {0}
    /\ gpu_job \in Jobs \cup {NoJob}
    /\ final_nonce \in Nonces \cup {0}
    /\ ipc \in [Items -> {"start", "barrier", "hash", "store", "write", "left", "missed", "found"}]
    /\ nonce \in [Items -> Nonces \cup {0}]

\* Every block is inside the workload, and the matrix comes as the kernel reads it.
Sound ==
    /\ ~Packed(setup)
    /\ setup.api = "cuda" => \A i \in Items : ~Beyond(i)

\* What the host reads solves the job it holds: no nonce of an earlier launch, and none
\* that was hashed with a matrix that items which returned early left incomplete.  So
\* the check in launch_gpu_miner never ends a thread on a sound setup.
ReportedSolves == hpc = "check" /\ got # 0 /\ Sound => <<job, got>> \in Solves

\* The same of every setup: "Something is wrong in GPU results!" (miner.rs:398) is never
\* the host's verdict.
NothingWrong == hpc # "ended"

\* A launch in which some item got past the store gives the host a nonce: racing stores
\* and returns do not lose all of them.  With OpenCL this is promised to the first item's
\* group only, for that item clears the cell when it starts; and 0 cannot be reported.
FoundIsReported ==
    LET Found == {i \in Items : ipc[i] = "found"}
        Heard == {i \in Found : setup.api = "cuda" \/ 0 \in Group(i)}
    IN  hpc = "check" /\ Heard # {} /\ (\A i \in Found : nonce[i] # 0) => got # 0
=============================================================================
