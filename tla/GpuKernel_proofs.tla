-------------------------- MODULE GpuKernel_proofs --------------------------
(***************************************************************************)
(* What GpuKernel keeps for any setups, groups, jobs and nonces.           *)
(***************************************************************************)
EXTENDS GpuKernel, TLAPS

Finished == {"left", "missed", "found"}
Past     == {"hash", "store", "write", "missed", "found"}    \* the barrier

\* Items run only while the host waits for them.
Quiet == hpc # "running" => AllDone

\* The device has the job that the host compares with.
Loaded == hpc \in {"running", "check"} => job = gpu_job

\* What was read is what the cell holds.
GotIsCell == hpc = "check" => got = final_nonce

\* Nobody is past the barrier before all of the group are there.
BarrierHolds ==
    \A i \in Items : \A j \in Group(i) : ipc[i] \in Past => ipc[j] \notin {"start", "barrier"}

\* OpenCL items do not return early; only they write without a compare-and-swap.
StaysOrCas ==
    \A i \in Items :
        /\ setup.api = "opencl" => ipc[i] # "left"
        /\ ipc[i] = "write" => setup.api = "opencl"

\* Who left early saw a nonce in the cell.
LeftIsLate == Sound => \A i \in Items : ipc[i] = "left" => final_nonce # 0

\* What is about to be stored solves the job, or came of an incomplete matrix.
HitSolves ==
    ~Packed(setup) =>
        \A i \in Items : ipc[i] \in {"store", "write"} =>
            <<gpu_job, nonce[i]>> \in Solves \/ \E j \in Group(i) : ipc[j] = "left"

\* The cell never holds a nonce that does not solve the job.
CellSolves == Sound /\ final_nonce # 0 => <<gpu_job, final_nonce>> \in Solves

IInv ==
    /\ TypeOK
    /\ Quiet
    /\ Loaded
    /\ GotIsCell
    /\ BarrierHolds
    /\ StaysOrCas
    /\ LeftIsLate
    /\ HitSolves
    /\ CellSolves

-----------------------------------------------------------------------------
\* Groups are the classes of an equivalence.
LEMMA Groups ==
    /\ \A i \in Items : i \in Group(i)
    /\ \A i \in Items : Group(i) \subseteq Items
    /\ \A i \in Items : \A j \in Group(i) : i \in Group(j) /\ Group(j) = Group(i)
BY DEF Group

\* The setup never changes, and what is computed from it does not.
LEMMA SetupStays ==
    ASSUME setup' = setup
    PROVE  /\ Items' = Items
           /\ Workload' = Workload
           /\ Packed(setup)' = Packed(setup)
           /\ Sound' = Sound
           /\ \A i \in Items : Group(i)' = Group(i)
BY DEF Items, Launched, Workload, Beyond, Packed, Sound, Group

LEMMA InitInvariant == Init => IInv
<1> SUFFICES ASSUME Init PROVE IInv
  OBVIOUS
<1> USE DEF Init
<1>1. TypeOK
  BY KernelAssumption DEF TypeOK
<1>2. Quiet /\ Loaded /\ GotIsCell
  BY DEF Quiet, Loaded, GotIsCell, AllDone
<1>3. BarrierHolds
  BY Groups DEF BarrierHolds
<1>4. StaysOrCas /\ LeftIsLate /\ HitSolves /\ CellSolves
  BY DEF StaysOrCas, LeftIsLate, HitSolves, CellSolves
<1> QED BY <1>1, <1>2, <1>3, <1>4 DEF IInv

\* A launch starts from an empty cell with every item at its start.
LEMMA LaunchKeeps ==
    ASSUME IInv, LoadAndLaunch, final_nonce' = 0
    PROVE  IInv'
<1> USE SetupStays DEF LoadAndLaunch
<1>1. TypeOK'
  BY KernelAssumption DEF IInv, TypeOK
<1>2. Quiet' /\ Loaded' /\ GotIsCell'
  BY DEF Quiet, Loaded, GotIsCell
<1>3. BarrierHolds'
  BY DEF BarrierHolds, Past, Group
<1>4. StaysOrCas' /\ LeftIsLate' /\ HitSolves' /\ CellSolves'
  BY DEF StaysOrCas, LeftIsLate, HitSolves, CellSolves
<1> QED BY <1>1, <1>2, <1>3, <1>4 DEF IInv

\* Steps of the host that leave the device alone.
DeviceKept == UNCHANGED <<setup, gpu_job, final_nonce, ipc, nonce>>

LEMMA DeviceKeeps ==
    ASSUME IInv, DeviceKept
    PROVE  BarrierHolds' /\ StaysOrCas' /\ LeftIsLate' /\ HitSolves' /\ CellSolves'
<1> USE SetupStays DEF DeviceKept, IInv
<1>1. BarrierHolds'
  BY DEF BarrierHolds, Group
<1>2. StaysOrCas' /\ LeftIsLate' /\ CellSolves'
  BY DEF StaysOrCas, LeftIsLate, CellSolves
<1>3. HitSolves'
  BY DEF HitSolves, Group
<1> QED BY <1>1, <1>2, <1>3

LEMMA HostKeeps ==
    ASSUME IInv, HostStep
    PROVE  IInv'
<1>1. CASE CudaLaunch \/ OpenCLLaunch
  BY <1>1, LaunchKeeps DEF CudaLaunch, OpenCLLaunch
<1>2. CASE WaitForJob
  <2>1. TypeOK' /\ Quiet' /\ Loaded' /\ GotIsCell'
    BY <1>2, SetupStays DEF WaitForJob, IInv, TypeOK, Quiet, Loaded, GotIsCell, AllDone
  <2> QED BY <1>2, <2>1, DeviceKeeps DEF WaitForJob, DeviceKept, IInv
<1>3. CASE ReadNonce
  <2>1. TypeOK' /\ Quiet' /\ Loaded' /\ GotIsCell'
    BY <1>3, SetupStays DEF ReadNonce, IInv, TypeOK, Quiet, Loaded, GotIsCell, AllDone
  <2> QED BY <1>3, <2>1, DeviceKeeps DEF ReadNonce, DeviceKept, IInv
<1>4. CASE RunIgnored
  <2>1. TypeOK' /\ Quiet' /\ Loaded' /\ GotIsCell'
    BY <1>4, SetupStays DEF RunIgnored, IInv, TypeOK, Quiet, Loaded, GotIsCell, AllDone
  <2> QED BY <1>4, <2>1, DeviceKeeps DEF RunIgnored, DeviceKept, IInv
<1>5. CASE Confirmed
  <2>1. TypeOK' /\ Quiet' /\ Loaded' /\ GotIsCell'
    BY <1>5, SetupStays DEF Confirmed, IInv, TypeOK, Quiet, Loaded, GotIsCell, AllDone
  <2> QED BY <1>5, <2>1, DeviceKeeps DEF Confirmed, DeviceKept, IInv
<1>6. CASE NotConfirmed
  <2>1. TypeOK' /\ Quiet' /\ Loaded' /\ GotIsCell'
    BY <1>6, SetupStays DEF NotConfirmed, IInv, TypeOK, Quiet, Loaded, GotIsCell, AllDone
  <2> QED BY <1>6, <2>1, DeviceKeeps DEF NotConfirmed, DeviceKept, IInv
<1>7. CASE NothingFound
  <2>1. TypeOK' /\ Quiet' /\ Loaded' /\ GotIsCell'
    BY <1>7, SetupStays DEF NothingFound, IInv, TypeOK, Quiet, Loaded, GotIsCell, AllDone
  <2> QED BY <1>7, <2>1, DeviceKeeps DEF NothingFound, DeviceKept, IInv
<1> QED BY <1>1, <1>2, <1>3, <1>4, <1>5, <1>6, <1>7 DEF HostStep

-----------------------------------------------------------------------------
\* An item that moves does so during a launch, and the host stands still.
Moves(i) == ipc[i] \notin Finished /\ UNCHANGED <<setup, host>>

LEMMA ItemMoves ==
    ASSUME NEW i \in Items, ItemStep(i)
    PROVE  Moves(i)
<1> USE DEF Moves, Finished, Goto
<1>1. CASE CudaEnter(i)      BY <1>1 DEF CudaEnter
<1>2. CASE OpenCLEnter(i)    BY <1>2 DEF OpenCLEnter
<1>3. CASE PassBarrier(i)    BY <1>3 DEF PassBarrier
<1>4. CASE HashNonce(i)      BY <1>4 DEF HashNonce
<1>5. CASE CudaStore(i)      BY <1>5 DEF CudaStore
<1>6. CASE OpenCLTest(i)     BY <1>6 DEF OpenCLTest
<1>7. CASE OpenCLWrite(i)    BY <1>7 DEF OpenCLWrite
<1> QED BY <1>1, <1>2, <1>3, <1>4, <1>5, <1>6, <1>7 DEF ItemStep

\* So the host is waiting, and nothing it relies on is at stake.
LEMMA HostUndisturbed ==
    ASSUME IInv, NEW i \in Items, Moves(i)
    PROVE  hpc = "running" /\ Quiet' /\ Loaded' /\ GotIsCell'
<1>1. hpc = "running"
  BY DEF IInv, Quiet, AllDone, Moves, Finished
<1> QED BY <1>1 DEF IInv, Moves, host, Quiet, Loaded, GotIsCell

Places == {"start", "barrier", "hash", "store", "write", "left", "missed", "found"}

\* One item moves on, from behind the barrier or up to it.
LEMMA StepTypes ==
    ASSUME IInv, NEW i \in Items, NEW where \in Places, UNCHANGED <<setup, host>>, Goto(i, where),
           nonce' \in [Items -> Nonces \cup {0}], final_nonce' \in Nonces \cup {0}
    PROVE  /\ TypeOK'
           /\ ipc'[i] = where
           /\ \A j \in Items : j # i => ipc'[j] = ipc[j]
<1>1. ipc \in [Items -> Places]
  BY DEF IInv, TypeOK, Places
<1>2. ipc' = [ipc EXCEPT ![i] = where]
  BY DEF Goto
<1>3. ipc' \in [Items -> Places]
  BY <1>1, <1>2
<1>4. TypeOK'
  BY <1>3, SetupStays DEF IInv, TypeOK, host, Places
<1> QED BY <1>1, <1>2, <1>4

\* A step past the barrier, or up to it, keeps it.
LEMMA BarrierKept ==
    ASSUME IInv, NEW i \in Items, NEW where \in Places, setup' = setup,
           ipc'[i] = where, \A j \in Items : j # i => ipc'[j] = ipc[j],
           \/ ipc[i] = "start" /\ where \notin Past
           \/ ipc[i] \in Past /\ where \in Past
    PROVE  BarrierHolds'
<1> SUFFICES ASSUME NEW k \in Items, NEW j \in Group(k), ipc'[k] \in Past
             PROVE  ipc'[j] \notin {"start", "barrier"}
  BY SetupStays DEF BarrierHolds
<1>1. j \in Items /\ ipc[k] \in Past
  BY Groups
<1>2. ipc[j] \notin {"start", "barrier"}
  BY <1>1 DEF IInv, BarrierHolds
<1> QED BY <1>1, <1>2 DEF Past

LEMMA CudaEnterKeeps ==
    ASSUME IInv, NEW i \in Items, CudaEnter(i)
    PROVE  TypeOK' /\ BarrierHolds' /\ StaysOrCas' /\ LeftIsLate' /\ HitSolves' /\ CellSolves'
<1> DEFINE where == IF Beyond(i) \/ final_nonce # 0 THEN "left" ELSE "barrier"
<1>1. where \in {"left", "barrier"} /\ where \in Places /\ where \notin Past
  BY DEF Places, Past
<1>2. UNCHANGED <<setup, host, final_nonce, nonce>> /\ ipc[i] = "start" /\ Goto(i, where)
  BY DEF CudaEnter
<1>3. nonce' \in [Items -> Nonces \cup {0}] /\ final_nonce' \in Nonces \cup {0}
  BY <1>2 DEF IInv, TypeOK
<1>4. where = "left" => ~Sound \/ final_nonce # 0
  BY DEF Sound, CudaEnter
<1> HIDE DEF where
<1>5. TypeOK' /\ ipc'[i] = where /\ \A j \in Items : j # i => ipc'[j] = ipc[j]
  BY <1>1, <1>2, <1>3, StepTypes
<1>6. BarrierHolds'
  BY <1>1, <1>2, <1>5, BarrierKept
<1>7. StaysOrCas'
  BY <1>1, <1>2, <1>5, SetupStays DEF CudaEnter, IInv, StaysOrCas
<1>8. LeftIsLate' /\ CellSolves'
  BY <1>1, <1>2, <1>4, <1>5, SetupStays DEF IInv, LeftIsLate, CellSolves, host
<1>9. HitSolves'
  <2> SUFFICES ASSUME ~Packed(setup), NEW k \in Items, ipc'[k] \in {"store", "write"}
               PROVE  <<gpu_job, nonce[k]>> \in Solves \/ \E j \in Group(k) : ipc'[j] = "left"
    BY <1>2, SetupStays DEF HitSolves, host
  <2>1. ipc[k] \in {"store", "write"}
    BY <1>1, <1>5
  <2> QED BY <1>2, <1>5, <2>1, Groups DEF IInv, HitSolves
<1> QED BY <1>5, <1>6, <1>7, <1>8, <1>9

LEMMA OpenCLEnterKeeps ==
    ASSUME IInv, NEW i \in Items, OpenCLEnter(i)
    PROVE  TypeOK' /\ BarrierHolds' /\ StaysOrCas' /\ LeftIsLate' /\ HitSolves' /\ CellSolves'
<1>1. "barrier" \in Places /\ "barrier" \notin Past
  BY DEF Places, Past
<1>2. UNCHANGED <<setup, host, nonce>> /\ ipc[i] = "start" /\ Goto(i, "barrier")
  BY DEF OpenCLEnter
<1>3. nonce' \in [Items -> Nonces \cup {0}] /\ final_nonce' \in {final_nonce, 0}
      /\ final_nonce' \in Nonces \cup {0}
  BY <1>2 DEF IInv, TypeOK, OpenCLEnter
<1>5. TypeOK' /\ ipc'[i] = "barrier" /\ \A j \in Items : j # i => ipc'[j] = ipc[j]
  BY <1>1, <1>2, <1>3, StepTypes
<1>6. BarrierHolds'
  BY <1>1, <1>2, <1>5, BarrierKept
<1>7. StaysOrCas'
  BY <1>2, <1>5, SetupStays DEF OpenCLEnter, IInv, StaysOrCas
<1>8. LeftIsLate' /\ CellSolves'
  BY <1>2, <1>3, <1>5, SetupStays DEF IInv, LeftIsLate, CellSolves, host, StaysOrCas, OpenCLEnter
<1>9. HitSolves'
  <2> SUFFICES ASSUME ~Packed(setup), NEW k \in Items, ipc'[k] \in {"store", "write"}
               PROVE  <<gpu_job, nonce[k]>> \in Solves \/ \E j \in Group(k) : ipc'[j] = "left"
    BY <1>2, SetupStays DEF HitSolves, host
  <2> QED BY <1>2, <1>5, Groups DEF IInv, HitSolves
<1> QED BY <1>5, <1>6, <1>7, <1>8, <1>9

\* Whoever passes leaves nobody of its group behind.
LEMMA PassBarrierKeeps ==
    ASSUME IInv, NEW i \in Items, PassBarrier(i)
    PROVE  TypeOK' /\ BarrierHolds' /\ StaysOrCas' /\ LeftIsLate' /\ HitSolves' /\ CellSolves'
<1>1. UNCHANGED <<setup, host, final_nonce, nonce>>
  BY DEF PassBarrier
<1>2. \A j \in Items : ipc'[j] = IF j \in Group(i) /\ ipc[j] = "barrier" THEN "hash" ELSE ipc[j]
  BY DEF PassBarrier
<1>3. ipc' \in [Items -> Places]
  BY DEF PassBarrier, IInv, TypeOK, Places
<1>4. TypeOK'
  BY <1>1, <1>3, SetupStays DEF IInv, TypeOK, host, Places
<1>5. BarrierHolds'
  <2> SUFFICES ASSUME NEW k \in Items, NEW j \in Group(k), ipc'[k] \in Past
               PROVE  ipc'[j] \notin {"start", "barrier"}
    BY <1>1, SetupStays DEF BarrierHolds
  <2>1. j \in Items
    BY Groups
  <2>2. CASE k \in Group(i)
    <3>1. Group(k) = Group(i)
      BY <2>2, Groups
    <3>2. ipc[j] \in {"barrier", "left"}
      BY <3>1 DEF PassBarrier
    <3> QED BY <1>2, <2>1, <3>1, <3>2
  <2>3. CASE k \notin Group(i)
    <3>1. ipc[k] \in Past
      BY <1>2, <2>3
    <3>2. ipc[j] \notin {"start", "barrier"}
      BY <3>1 DEF IInv, BarrierHolds
    <3> QED BY <1>2, <2>1, <3>2
  <2> QED BY <2>2, <2>3
<1>6. StaysOrCas' /\ LeftIsLate' /\ CellSolves'
  BY <1>1, <1>2, SetupStays DEF IInv, StaysOrCas, LeftIsLate, CellSolves, host
<1>7. HitSolves'
  <2> SUFFICES ASSUME ~Packed(setup), NEW k \in Items, ipc'[k] \in {"store", "write"}
               PROVE  <<gpu_job, nonce[k]>> \in Solves \/ \E j \in Group(k) : ipc'[j] = "left"
    BY <1>1, SetupStays DEF HitSolves, host
  <2>1. ipc[k] \in {"store", "write"}
    BY <1>2
  <2> QED BY <1>1, <1>2, <2>1, Groups DEF IInv, HitSolves
<1> QED BY <1>4, <1>5, <1>6, <1>7

\* With a whole matrix a hit solves the job.
LEMMA HashNonceKeeps ==
    ASSUME IInv, NEW i \in Items, HashNonce(i)
    PROVE  TypeOK' /\ BarrierHolds' /\ StaysOrCas' /\ LeftIsLate' /\ HitSolves' /\ CellSolves'
<1>1. UNCHANGED <<setup, host, final_nonce>> /\ ipc[i] = "hash"
  BY DEF HashNonce
<1>2. PICK n \in Nonces :
        \/ TRUE \in Verdicts(i, n) /\ nonce' = [nonce EXCEPT ![i] = n] /\ Goto(i, "store")
        \/ FALSE \in Verdicts(i, n) /\ Goto(i, "missed") /\ UNCHANGED nonce
  BY DEF HashNonce
<1>3. PICK where \in {"store", "missed"} :
        /\ Goto(i, where)
        /\ where = "store" => TRUE \in Verdicts(i, n) /\ nonce' = [nonce EXCEPT ![i] = n]
        /\ where = "missed" => UNCHANGED nonce
  BY <1>2
<1>4. where \in Places /\ where \in Past /\ ipc[i] \in Past
  BY <1>1 DEF Places, Past
<1>5. nonce' \in [Items -> Nonces \cup {0}] /\ final_nonce' \in Nonces \cup {0}
      /\ \A j \in Items : j # i => nonce'[j] = nonce[j]
  BY <1>1, <1>3 DEF IInv, TypeOK
<1>6. TypeOK' /\ ipc'[i] = where /\ \A j \in Items : j # i => ipc'[j] = ipc[j]
  BY <1>1, <1>3, <1>4, <1>5, StepTypes
<1>7. BarrierHolds'
  BY <1>1, <1>4, <1>6, BarrierKept
<1>8. StaysOrCas' /\ LeftIsLate' /\ CellSolves'
  BY <1>1, <1>3, <1>6, SetupStays DEF IInv, StaysOrCas, LeftIsLate, CellSolves, host
<1>9. HitSolves'
  <2> SUFFICES ASSUME ~Packed(setup), NEW k \in Items, ipc'[k] \in {"store", "write"}
               PROVE  <<gpu_job, nonce'[k]>> \in Solves \/ \E j \in Group(k) : ipc'[j] = "left"
    BY <1>1, SetupStays DEF HitSolves, host
  <2>1. CASE k = i
    <3>1. where = "store" /\ nonce'[i] = n
      BY <1>3, <1>6, <2>1 DEF IInv, TypeOK
    <3>2. <<gpu_job, n>> \in Solves \/ ~MatrixComplete(i)
      BY <1>3, <3>1 DEF Verdicts
    <3>3. ~MatrixComplete(i) => \E j \in Group(i) : j # i /\ ipc[j] = "left"
      BY <1>1 DEF MatrixComplete
    <3> QED BY <1>6, <2>1, <3>1, <3>2, <3>3, Groups
  <2>2. CASE k # i
    BY <1>1, <1>5, <1>6, <2>2, Groups DEF IInv, HitSolves
  <2> QED BY <2>1, <2>2
<1> QED BY <1>6, <1>7, <1>8, <1>9

\* A store puts a nonce into an empty cell only if it solves the job: had somebody left
\* the group, the cell would be taken.
LEMMA CudaStoreKeeps ==
    ASSUME IInv, NEW i \in Items, CudaStore(i)
    PROVE  TypeOK' /\ BarrierHolds' /\ StaysOrCas' /\ LeftIsLate' /\ HitSolves' /\ CellSolves'
<1>1. UNCHANGED <<setup, host, nonce>> /\ ipc[i] = "store" /\ Goto(i, "found")
  BY DEF CudaStore
<1>2. "found" \in Places /\ "found" \in Past /\ ipc[i] \in Past
  BY <1>1 DEF Places, Past
<1>3. /\ final_nonce' = IF final_nonce = 0 THEN nonce[i] ELSE final_nonce
      /\ nonce' \in [Items -> Nonces \cup {0}] /\ final_nonce' \in Nonces \cup {0}
  BY <1>1 DEF CudaStore, IInv, TypeOK
<1>4. TypeOK' /\ ipc'[i] = "found" /\ \A j \in Items : j # i => ipc'[j] = ipc[j]
  BY <1>1, <1>2, <1>3, StepTypes
<1>5. BarrierHolds'
  BY <1>1, <1>2, <1>4, BarrierKept
<1>6. StaysOrCas' /\ LeftIsLate'
  BY <1>1, <1>3, <1>4, SetupStays DEF IInv, StaysOrCas, LeftIsLate
<1>7. CellSolves'
  <2>1. Sound /\ final_nonce = 0 => <<gpu_job, nonce[i]>> \in Solves
    BY <1>1, Groups DEF IInv, HitSolves, LeftIsLate, Sound
  <2> QED BY <1>1, <1>3, <2>1, SetupStays DEF IInv, CellSolves, host
<1>8. HitSolves'
  <2> SUFFICES ASSUME ~Packed(setup), NEW k \in Items, ipc'[k] \in {"store", "write"}
               PROVE  <<gpu_job, nonce[k]>> \in Solves \/ \E j \in Group(k) : ipc'[j] = "left"
    BY <1>1, SetupStays DEF HitSolves, host
  <2> QED BY <1>1, <1>4, Groups DEF IInv, HitSolves
<1> QED BY <1>4, <1>5, <1>6, <1>7, <1>8

LEMMA OpenCLTestKeeps ==
    ASSUME IInv, NEW i \in Items, OpenCLTest(i)
    PROVE  TypeOK' /\ BarrierHolds' /\ StaysOrCas' /\ LeftIsLate' /\ HitSolves' /\ CellSolves'
<1>1. UNCHANGED <<setup, host, nonce, final_nonce>> /\ ipc[i] = "store"
  BY DEF OpenCLTest
<1>2. PICK where \in {"write", "found"} : Goto(i, where)
  BY DEF OpenCLTest
<1>3. where \in Places /\ where \in Past /\ ipc[i] \in Past
  BY <1>1 DEF Places, Past
<1>4. nonce' \in [Items -> Nonces \cup {0}] /\ final_nonce' \in Nonces \cup {0}
  BY <1>1 DEF IInv, TypeOK
<1>5. TypeOK' /\ ipc'[i] = where /\ \A j \in Items : j # i => ipc'[j] = ipc[j]
  BY <1>1, <1>2, <1>3, <1>4, StepTypes
<1>6. BarrierHolds'
  BY <1>1, <1>3, <1>5, BarrierKept
<1>7. StaysOrCas' /\ LeftIsLate' /\ CellSolves'
  BY <1>1, <1>5, SetupStays DEF OpenCLTest, IInv, StaysOrCas, LeftIsLate, CellSolves, host
<1>8. HitSolves'
  <2> SUFFICES ASSUME ~Packed(setup), NEW k \in Items, ipc'[k] \in {"store", "write"}
               PROVE  <<gpu_job, nonce[k]>> \in Solves \/ \E j \in Group(k) : ipc'[j] = "left"
    BY <1>1, SetupStays DEF HitSolves, host
  <2>1. ipc[k] \in {"store", "write"}
    BY <1>1, <1>5
  <2> QED BY <1>1, <1>5, <2>1, Groups DEF IInv, HitSolves
<1> QED BY <1>5, <1>6, <1>7, <1>8

LEMMA OpenCLWriteKeeps ==
    ASSUME IInv, NEW i \in Items, OpenCLWrite(i)
    PROVE  TypeOK' /\ BarrierHolds' /\ StaysOrCas' /\ LeftIsLate' /\ HitSolves' /\ CellSolves'
<1>1. UNCHANGED <<setup, host, nonce>> /\ ipc[i] = "write" /\ Goto(i, "found")
  BY DEF OpenCLWrite
<1>2. "found" \in Places /\ "found" \in Past /\ ipc[i] \in Past
  BY <1>1 DEF Places, Past
<1>3. /\ final_nonce' = nonce[i]
      /\ nonce' \in [Items -> Nonces \cup {0}] /\ final_nonce' \in Nonces \cup {0}
  BY <1>1 DEF OpenCLWrite, IInv, TypeOK
<1>4. TypeOK' /\ ipc'[i] = "found" /\ \A j \in Items : j # i => ipc'[j] = ipc[j]
  BY <1>1, <1>2, <1>3, StepTypes
<1>5. BarrierHolds'
  BY <1>1, <1>2, <1>4, BarrierKept
<1>6. setup.api = "opencl" /\ \A j \in Items : ipc[j] # "left"
  BY <1>1 DEF IInv, StaysOrCas
<1>7. StaysOrCas' /\ LeftIsLate'
  BY <1>1, <1>4, <1>6, SetupStays DEF IInv, StaysOrCas, LeftIsLate
<1>8. CellSolves'
  BY <1>1, <1>3, <1>6, Groups, SetupStays DEF IInv, HitSolves, Sound, CellSolves, host
<1>9. HitSolves'
  <2> SUFFICES ASSUME ~Packed(setup), NEW k \in Items, ipc'[k] \in {"store", "write"}
               PROVE  <<gpu_job, nonce[k]>> \in Solves \/ \E j \in Group(k) : ipc'[j] = "left"
    BY <1>1, SetupStays DEF HitSolves, host
  <2> QED BY <1>1, <1>4, <1>6, Groups DEF IInv, HitSolves
<1> QED BY <1>4, <1>5, <1>7, <1>8, <1>9

LEMMA ItemKeeps ==
    ASSUME IInv, NEW i \in Items, ItemStep(i)
    PROVE  IInv'
<1>1. Quiet' /\ Loaded' /\ GotIsCell'
  BY ItemMoves, HostUndisturbed
<1>2. TypeOK' /\ BarrierHolds' /\ StaysOrCas' /\ LeftIsLate' /\ HitSolves' /\ CellSolves'
  BY CudaEnterKeeps, OpenCLEnterKeeps, PassBarrierKeeps, HashNonceKeeps, CudaStoreKeeps,
     OpenCLTestKeeps, OpenCLWriteKeeps, Zenon DEF ItemStep
<1> QED BY <1>1, <1>2 DEF IInv

LEMMA NextInvariant == IInv /\ [Next]_vars => IInv'
<1> SUFFICES ASSUME IInv, [Next]_vars PROVE IInv'
  OBVIOUS
<1>1. CASE HostStep
  BY <1>1, HostKeeps
<1>2. ASSUME NEW i \in Items, ItemStep(i) PROVE IInv'
  BY <1>2, ItemKeeps
<1>3. CASE UNCHANGED vars
  <2>1. DeviceKept /\ UNCHANGED <<hpc, job, launches, got>>
    BY <1>3 DEF vars, DeviceKept
  <2>2. TypeOK' /\ Quiet' /\ Loaded' /\ GotIsCell'
    BY <2>1, SetupStays DEF DeviceKept, IInv, TypeOK, Quiet, Loaded, GotIsCell, AllDone
  <2> QED BY <2>1, <2>2, DeviceKeeps DEF IInv
<1> QED BY <1>1, <1>2, <1>3 DEF Next

LEMMA Invariance == Spec => []IInv
<1> QED BY InitInvariant, NextInvariant, PTL DEF Spec

\* The worker's and the items' variables keep their types.
THEOREM TypeCorrect == Spec => []TypeOK
<1>1. IInv => TypeOK
  BY DEF IInv
<1> QED BY <1>1, Invariance, PTL

\* For any number of items and groups: if no block reaches beyond the workload, what the
\* host reads solves its job, whoever returned early.
THEOREM ReportsSolve == Spec => []ReportedSolves
<1>1. IInv => ReportedSolves
  BY DEF IInv, ReportedSolves, GotIsCell, Loaded, CellSolves
<1> QED BY <1>1, Invariance, PTL

-----------------------------------------------------------------------------
(* No nonce is lost between the store and the host.                        *)

Heard(i) == ipc[i] = "found" /\ (setup.api = "cuda" \/ 0 \in Group(i))
NoneZero == \A i \in Items : ipc[i] = "found" => nonce[i] # 0
NoneLost == NoneZero /\ (\E i \in Items : Heard(i)) => final_nonce # 0

\* A step after which nobody new has found anything, and the cell is as it was.
LEMMA NobodyNew ==
    ASSUME NoneLost, UNCHANGED <<setup, final_nonce>>,
           \A j \in Items : ipc'[j] = "found" => ipc[j] = "found",
           \A j \in Items : ipc[j] = "found" => ipc'[j] = "found" /\ nonce'[j] = nonce[j]
    PROVE  NoneLost'
<1>1. NoneZero' => NoneZero
  BY SetupStays DEF NoneZero
<1>2. (\E i \in Items : Heard(i))' => \E i \in Items : Heard(i)
  BY SetupStays DEF Heard
<1> QED BY <1>1, <1>2 DEF NoneLost

LEMMA ItemLosesNone ==
    ASSUME IInv, NoneLost, NEW i \in Items, ItemStep(i)
    PROVE  NoneLost'
<1> USE DEF IInv, TypeOK, Goto
<1>1. CASE CudaEnter(i)
  BY <1>1, NobodyNew DEF CudaEnter
<1>2. CASE OpenCLEnter(i)
  <2>1. CASE i # 0
    BY <1>2, <2>1, NobodyNew DEF OpenCLEnter
  <2>2. CASE i = 0
    <3>1. \A j \in Items : ipc[j] = "found" => 0 \notin Group(j)
      BY <1>2, <2>2 DEF OpenCLEnter, BarrierHolds, Past
    <3>2. \A j \in Items : ~Heard(j)'
      BY <1>2, <3>1, SetupStays DEF OpenCLEnter, Heard
    <3> QED BY <1>2, <3>2, SetupStays DEF NoneLost, OpenCLEnter
  <2> QED BY <2>1, <2>2
<1>3. CASE PassBarrier(i)
  BY <1>3, NobodyNew DEF PassBarrier
<1>4. CASE HashNonce(i)
  BY <1>4, NobodyNew DEF HashNonce
<1>5. CASE CudaStore(i)
  <2>1. ipc'[i] = "found" /\ nonce'[i] = nonce[i]
    BY <1>5 DEF CudaStore
  <2>2. NoneZero' => nonce[i] # 0
    BY <1>5, <2>1, SetupStays DEF NoneZero, CudaStore
  <2> QED BY <1>5, <2>2 DEF NoneLost, CudaStore
<1>6. CASE OpenCLTest(i)
  <2>1. CASE final_nonce = 0
    BY <1>6, <2>1, NobodyNew DEF OpenCLTest
  <2>2. CASE final_nonce # 0
    BY <1>6, <2>2 DEF OpenCLTest, NoneLost
  <2> QED BY <2>1, <2>2
<1>7. CASE OpenCLWrite(i)
  <2>1. ipc'[i] = "found" /\ nonce'[i] = nonce[i]
    BY <1>7 DEF OpenCLWrite
  <2>2. NoneZero' => nonce[i] # 0
    BY <1>7, <2>1, SetupStays DEF NoneZero, OpenCLWrite
  <2> QED BY <1>7, <2>2 DEF NoneLost, OpenCLWrite
<1> QED BY <1>1, <1>2, <1>3, <1>4, <1>5, <1>6, <1>7 DEF ItemStep

LEMMA NextLosesNone == IInv /\ NoneLost /\ [Next]_vars => NoneLost'
<1> SUFFICES ASSUME IInv, NoneLost, [Next]_vars PROVE NoneLost'
  OBVIOUS
<1>1. CASE CudaLaunch \/ OpenCLLaunch
  BY <1>1, SetupStays DEF CudaLaunch, OpenCLLaunch, LoadAndLaunch, NoneLost, Heard
<1>2. CASE WaitForJob \/ ReadNonce \/ RunIgnored \/ Confirmed \/ NotConfirmed \/ NothingFound
  BY <1>2, NobodyNew DEF WaitForJob, ReadNonce, RunIgnored, Confirmed, NotConfirmed, NothingFound
<1>3. ASSUME NEW i \in Items, ItemStep(i) PROVE NoneLost'
  BY <1>3, ItemLosesNone
<1>4. CASE UNCHANGED vars
  BY <1>4, NobodyNew DEF vars
<1> QED BY <1>1, <1>2, <1>3, <1>4 DEF Next, HostStep

\* For any number of items and groups: a find is reported, but for the race with the
\* first item's clear.
THEOREM FindsAreReported == Spec => []FoundIsReported
<1>1. Init => NoneLost
  BY DEF Init, NoneLost, Heard
<1>2. IInv /\ NoneLost => FoundIsReported
  <2> SUFFICES ASSUME IInv, NoneLost, hpc = "check",
                      NEW i \in Items, Heard(i), NoneZero
               PROVE  got # 0
    BY DEF FoundIsReported, Heard, NoneZero
  <2> QED BY DEF IInv, GotIsCell, NoneLost
<1> QED BY <1>1, <1>2, NextLosesNone, Invariance, PTL DEF Spec

-----------------------------------------------------------------------------
(* A launch comes to its end: sync() waits for nothing that cannot happen. *)

\* The guard of the step that item i takes next.
CanMove(i) ==
    \/ ipc[i] \in {"start", "hash", "store", "write"}
    \/ ipc[i] = "barrier" /\ \A j \in Group(i) : ipc[j] \in {"barrier", "left"}

\* Nobody waits for ever at __syncthreads: as long as an item of the launch has not
\* returned, one of its group, if not itself, can take a step.
NoItemStuck ==
    \A i \in Items : ipc[i] \notin Finished => \E j \in Group(i) : CanMove(j)

\* How many steps item i has left at most.
StepsLeft(i) ==
    CASE ipc[i] = "start"   -> 5
      [] ipc[i] = "barrier" -> 4
      [] ipc[i] = "hash"    -> 3
      [] ipc[i] = "store"   -> 2
      [] ipc[i] = "write"   -> 1
      [] OTHER              -> 0

\* No step of a launch takes an item back, and each brings one of them forward.
Forward ==
    /\ \A i \in Items : StepsLeft(i)' \in Nat /\ StepsLeft(i)' <= StepsLeft(i)
    /\ \E i \in Items : StepsLeft(i)' < StepsLeft(i)
ItemsGoOn == [][hpc = "running" /\ hpc' = "running" => Forward]_vars

\* For any number of items and groups: whoever returned early, and whatever the setup,
\* the others of the group are let through the barrier.
THEOREM BarrierOpens == Spec => []NoItemStuck
<1>1. IInv => NoItemStuck
  <2> SUFFICES ASSUME IInv, NEW i \in Items, ipc[i] \notin Finished
               PROVE  \E j \in Group(i) : CanMove(j)
    BY DEF NoItemStuck
  <2>1. i \in Group(i)
    BY Groups
  <2>2. CASE ipc[i] # "barrier"
    BY <2>1, <2>2 DEF IInv, TypeOK, Finished, CanMove
  <2>3. CASE ipc[i] = "barrier"
    <3>1. CASE \E j \in Group(i) : ipc[j] = "start"
      BY <3>1 DEF CanMove
    <3>2. CASE \A j \in Group(i) : ipc[j] # "start"
      <4>1. ASSUME NEW j \in Group(i) PROVE ipc[j] \in {"barrier", "left"}
        <5>1. j \in Items /\ i \in Group(j)
          BY Groups
        <5>2. ipc[j] \notin Past
          BY <2>3, <5>1 DEF IInv, BarrierHolds
        <5> QED BY <3>2, <5>1, <5>2 DEF IInv, TypeOK, Past
      <4> QED BY <2>1, <2>3, <4>1 DEF CanMove
    <3> QED BY <3>1, <3>2
  <2> QED BY <2>2, <2>3
<1> QED BY <1>1, Invariance, PTL

\* A launch of n items is over after at most 5 n of their steps.
THEOREM LaunchEnds == Spec => ItemsGoOn
<1>1. ASSUME IInv, NEW i \in Items, ItemStep(i) PROVE Forward
  <2>1. ASSUME NEW where \in {"barrier", "left", "store", "missed", "write", "found"},
               Goto(i, where), ipc[i] \in {"start", "hash", "store", "write"},
               ipc[i] = "hash" => where \in {"store", "missed"},
               ipc[i] = "store" => where \in {"write", "found"},
               ipc[i] = "write" => where = "found"
        PROVE  Forward
    <3>1. ipc'[i] = where /\ \A k \in Items : k # i => ipc'[k] = ipc[k]
      BY <1>1, <2>1 DEF IInv, TypeOK, Goto
    <3>2. \A k \in Items : k # i => StepsLeft(k)' = StepsLeft(k)
      BY <3>1 DEF StepsLeft
    <3>3. StepsLeft(i) \in Nat /\ StepsLeft(i)' \in Nat /\ StepsLeft(i)' < StepsLeft(i)
      BY <2>1, <3>1 DEF StepsLeft
    <3>4. \A k \in Items : StepsLeft(k) \in Nat
      BY DEF StepsLeft
    <3> QED BY <3>2, <3>3, <3>4 DEF Forward
  <2>2. CASE CudaEnter(i)
    BY <2>1, <2>2 DEF CudaEnter
  <2>3. CASE OpenCLEnter(i)
    BY <2>1, <2>3 DEF OpenCLEnter
  <2>4. CASE PassBarrier(i)
    <3>1. \A k \in Items : ipc'[k] = IF k \in Group(i) /\ ipc[k] = "barrier" THEN "hash" ELSE ipc[k]
      BY <2>4 DEF PassBarrier
    <3>2. ipc[i] = "barrier" /\ ipc'[i] = "hash"
      BY <2>4, <3>1, Groups DEF PassBarrier
    <3> QED BY <3>1, <3>2 DEF StepsLeft, Forward
  <2>5. CASE HashNonce(i)
    BY <2>1, <2>5 DEF HashNonce
  <2>6. CASE CudaStore(i)
    BY <2>1, <2>6 DEF CudaStore
  <2>7. CASE OpenCLTest(i)
    BY <2>1, <2>7 DEF OpenCLTest
  <2>8. CASE OpenCLWrite(i)
    BY <2>1, <2>8 DEF OpenCLWrite
  <2> QED BY <1>1, <2>2, <2>3, <2>4, <2>5, <2>6, <2>7, <2>8 DEF ItemStep
<1>2. IInv /\ [Next]_vars => [hpc = "running" /\ hpc' = "running" => Forward]_vars
  <2> SUFFICES ASSUME IInv, Next, hpc = "running", hpc' = "running" PROVE Forward
    OBVIOUS
  <2>1. ~HostStep
    BY DEF HostStep, WaitForJob, CudaLaunch, OpenCLLaunch, LoadAndLaunch, ReadNonce, RunIgnored,
           Confirmed, NotConfirmed, NothingFound
  <2> QED BY <1>1, <2>1 DEF Next
<1> QED BY <1>2, Invariance, PTL DEF Spec, ItemsGoOn
=============================================================================
