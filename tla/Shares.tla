------------------------------- MODULE Shares -------------------------------
(***************************************************************************)
(* What is mined and submitted over one connection, in numbers: a pool's   *)
(* difficulty and extranonce, or a node's compact target, become a target  *)
(* of four words and a partition of the nonces (src/client/stratum.rs,     *)
(* src/target.rs, src/pow.rs), by which a CPU and a GPU worker choose      *)
(* nonces and judge hashes (src/miner.rs).                                 *)
(*                                                                         *)
(* The widths are constants: a nonce is one word.  Masks are 2^k - 1 and   *)
(* fixed parts multiples of 2^k, so & and | are % and +.  The steps within *)
(* a worker's turn are those of MinerPool, and one action here.            *)
(***************************************************************************)
EXTENDS Integers, Sequences

CONSTANTS
    ByteBits, WordBytes,       \* 8 and 8
    Factor, Exponent,          \* DIFFICULTY_1_TARGET: 0xffff and 208
    PollEvery,                 \* 128
    Difficulties,              \* [mantissa, exponent] of 1/difficulty
    Extranonces,               \* [val, bytes, size]: the digits, and nonce_size
    Bits,                      \* [expt, mant] of compact targets
    Pow,                       \* [job number -> [nonce -> hash]], of four words
    Seeds,                     \* the random nonces a CPU worker may start from
    Probes,                    \* the nonces EveryNonceTried asks about
    MaxJobs, MaxDifficulties, MaxExtranonces

WordBits == ByteBits * WordBytes
Radix == 2 ^ WordBits
Nonces == 0..(Radix - 1)
Words == [0..3 -> Nonces]
NoMask == Radix - 1

ASSUME SharesAssumption ==
    /\ {ByteBits, WordBytes, Factor, PollEvery} \subseteq Nat \ {0}
    /\ WordBytes >= 3
    /\ Exponent \in Nat
    /\ Difficulties \subseteq [mantissa : Nat, exponent : Int]
    /\ \A d \in Difficulties :
        d.mantissa * Factor \in Nonces /\ Exponent + d.exponent \in Nat
    /\ Extranonces \subseteq [val : Nat, bytes : Nat, size : Nat]
    /\ \A x \in Extranonces : x.val < 2 ^ (ByteBits * x.bytes)
    /\ \A b \in Bits : b.expt \in Nat /\ b.mant \in 0..(2 ^ (3 * ByteBits) - 1)
    /\ Seeds \subseteq Nonces /\ Probes \subseteq Nonces
    /\ MaxJobs \in Nat /\ Pow \in [1..MaxJobs -> [Nonces -> Words]]

VARIABLES
    kind,              \* "stratum" or "grpc"
    conn,              \* "up", "ended" by an error, "crashed" by a panic
    target_pool, nonce_mask, nonce_fixed,
    command,           \* the job in the watch channel
    unseen,            \* the workers that have yet to look at it
    cpu, gpu,          \* what a worker holds between its turns
    share,             \* the share this step hands to the client
    said               \* what the pool has announced (difficulty, extranonce), how
                       \* often, and whether it moved the partition under a job

settings == <<target_pool, nonce_mask, nonce_fixed>>
workers  == <<unseen, cpu, gpu>>
vars     == <<kind, conn, target_pool, nonce_mask, nonce_fixed, command, unseen, cpu, gpu,
              share, said>>

None == [number |-> 0]
NoShare == [by |-> "nobody"]
Unsaid == [none |-> TRUE]

-----------------------------------------------------------------------------
(* Uint256.                                                                *)

Value(words) ==
    words[0] + Radix * (words[1] + Radix * (words[2] + Radix * words[3]))

\* A faulty variant: MeetsTarget breaks when the low words are compared first.
LeqForward(a, b) ==
    a = b \/ \E i \in 0..3 : a[i] < b[i] /\ \A j \in 0..3 : j < i => a[j] = b[j]

\* The little-endian words, compared from the top one down.
Leq(a, b) == a = b \/ \E i \in 0..3 : a[i] < b[i] /\ \A j \in 0..3 : j > i => a[j] = b[j]

Shl(words, shift) ==
    LET word_shift == shift \div WordBits
        bit_shift == shift % WordBits
        shifted(i) == IF i < word_shift THEN 0
                      ELSE (words[i - word_shift] * 2 ^ bit_shift) % Radix
        carry(i) == IF bit_shift = 0 \/ i < word_shift + 1 THEN 0
                    ELSE words[i - word_shift - 1] \div 2 ^ (WordBits - bit_shift)
    IN [i \in 0..3 |-> shifted(i) + carry(i)]

FromWord(word) == [i \in 0..3 |-> IF i = 0 THEN word ELSE 0]

FromCompact(bits) ==
    LET mant == IF bits.expt <= 3 THEN bits.mant \div 2 ^ (ByteBits * (3 - bits.expt))
                ELSE bits.mant
        shift == IF bits.expt <= 3 THEN 0 ELSE ByteBits * (bits.expt - 3)
    IN IF mant >= 2 ^ (3 * ByteBits - 1) THEN FromWord(0) ELSE Shl(FromWord(mant), shift)

-----------------------------------------------------------------------------
(* Nonces.                                                                 *)

Masked(nonce, mask, fixed) == (nonce % (mask + 1)) + fixed

Solves(job, nonce) == Leq(Pow[job.number][nonce], job.target)

\* Faulty variants of Advance.
\*   TypeOK: the addition does not wrap.
AdvanceNoWrap(nonce) == nonce + 1
\*   EveryNonceTried: every other nonce is passed over.
AdvanceByTwo(nonce) == (nonce + 2) % Radix

Advance(nonce) == (nonce + 1) % Radix

-----------------------------------------------------------------------------
Init ==
    /\ kind \in {"stratum", "grpc"}
    /\ conn = "up"
    /\ target_pool = FromWord(0)
    /\ nonce_mask = NoMask /\ nonce_fixed = 0
    /\ command = None
    /\ unseen = {}
    /\ \E nonce \in Seeds : cpu = [job |-> None, mask |-> 0, fixed |-> 0, nonce |-> nonce]
    /\ gpu = None
    /\ share = NoShare
    /\ said = [difficulty |-> Unsaid, extranonce |-> Unsaid,
               difficulties |-> 0, extranonces |-> 0, moved |-> FALSE]

-----------------------------------------------------------------------------
(* The client.                                                             *)

Heard == kind = "stratum" /\ conn = "up"

NewMantissa(d) == d.mantissa * Factor
Start(d) == (Exponent + d.exponent) \div WordBits
Remainder(d) == (Exponent + d.exponent) % WordBits

\* A faulty variant: TargetAsAsked breaks when the upper word is off by one bit.
TopOffByOne(d) == NewMantissa(d) \div 2 ^ ((WordBits - Remainder(d) - 1) % WordBits)

\* A shift by the width of a word is taken modulo that width, as release builds do.
Top(d) == NewMantissa(d) \div 2 ^ ((WordBits - Remainder(d)) % WordBits)

TooBig(d) == Start(d) = 3 /\ NewMantissa(d) * 2 ^ Remainder(d) >= Radix

HearDifficulty(d) ==
    /\ Heard
    /\ said.difficulties < MaxDifficulties
    /\ share' = NoShare
    /\ UNCHANGED <<kind, nonce_mask, nonce_fixed, command, workers>>

SetDifficulty(d) ==
    /\ HearDifficulty(d)
    /\ Start(d) <= 3 /\ ~TooBig(d)
    /\ target_pool' = [i \in 0..3 |->
        CASE i = Start(d) -> (NewMantissa(d) * 2 ^ Remainder(d)) % Radix
          [] i = Start(d) + 1 -> Top(d)
          [] OTHER -> 0]
    /\ said' = [said EXCEPT !.difficulty = d, !.difficulties = @ + 1]
    /\ UNCHANGED conn

\* The error ends listen(); past the last word the index is out of bounds.
RefuseDifficulty(d) ==
    /\ HearDifficulty(d)
    /\ Start(d) > 3 \/ TooBig(d)
    /\ conn' = IF Start(d) > 3 THEN "crashed" ELSE "ended"
    /\ UNCHANGED <<target_pool, said>>

HearExtranonce(x) ==
    /\ Heard
    /\ said.extranonces < MaxExtranonces
    /\ share' = NoShare
    /\ UNCHANGED <<kind, target_pool, command, workers>>

Unreadable(x) == x.bytes > 0 /\ x.val >= Radix

\* A faulty variant: InPartition breaks when the extranonce is not moved to the top.
FixedUnshifted(x, size) == IF size >= WordBytes THEN 0 ELSE x.val % Radix

FixedPart(x, size) ==
    IF size >= WordBytes THEN 0 ELSE (x.val * 2 ^ (ByteBits * size)) % Radix

Partition(x, size) ==
    /\ nonce_fixed' = IF size = 0 THEN 0 ELSE FixedPart(x, size)
    /\ nonce_mask' = IF size = 0 \/ size >= WordBytes THEN NoMask
                     ELSE 2 ^ (ByteBits * size) - 1
    /\ said' = [said EXCEPT !.extranonce = [x EXCEPT !.size = size],
            !.extranonces = @ + 1,
            !.moved = @ \/ (command # None /\ <<nonce_mask', nonce_fixed'>>
                                              # <<nonce_mask, nonce_fixed>>)]
    /\ UNCHANGED conn

\* The answer to mining.subscribe, and set_extranonce with a size.
SetExtranonce(x) ==
    /\ HearExtranonce(x)
    /\ x.size # 0
    /\ ~Unreadable(x)
    /\ Partition(x, x.size)

\* The size is that of the digits: set_extranonce without one, and the eth variant.
SetExtranonceInferred(x) ==
    /\ HearExtranonce(x)
    /\ ~Unreadable(x)
    /\ Partition(x, x.bytes)

RefuseExtranonce(x) ==
    /\ HearExtranonce(x)
    /\ Unreadable(x)
    /\ conn' = "ended"
    /\ UNCHANGED <<nonce_mask, nonce_fixed, said>>

\* process_block hands the workers the job that State::new makes.
Process(job) ==
    /\ conn = "up"
    /\ command.number < MaxJobs
    /\ command' = job
    /\ unseen' = {"cpu", "gpu"}
    /\ share' = NoShare
    /\ UNCHANGED <<kind, conn, settings, cpu, gpu, said>>

Notify ==
    /\ kind = "stratum"
    /\ Process([number |-> command.number + 1, full |-> FALSE, target |-> target_pool,
                mask |-> nonce_mask, fixed |-> nonce_fixed,
                asked |-> [difficulty |-> said.difficulty, extranonce |-> said.extranonce]])

Template(bits) ==
    /\ kind = "grpc"
    /\ Process([number |-> command.number + 1, full |-> TRUE, target |-> FromCompact(bits),
                mask |-> NoMask, fixed |-> 0, asked |-> [bits |-> bits, extranonce |-> Unsaid]])

-----------------------------------------------------------------------------
(* The workers.                                                            *)

Submits(by, job, nonce) ==
    share' = IF Solves(job, nonce) THEN [by |-> by, job |-> job, nonce |-> nonce] ELSE NoShare

\* wait_for_change: here alone the nonces the worker may use are renewed.
CpuWait ==
    /\ conn = "up"
    /\ cpu.job = None
    /\ "cpu" \in unseen
    /\ unseen' = unseen \ {"cpu"}
    /\ cpu' = [cpu EXCEPT !.job = command, !.mask = command.mask, !.fixed = command.fixed]
    /\ share' = NoShare
    /\ UNCHANGED <<kind, conn, settings, command, gpu, said>>

\* One nonce; a full block is left once it is solved, and every so often the worker
\* looks for another job.
CpuTurn ==
    /\ conn = "up"
    /\ cpu.job # None
    /\ LET nonce == Masked(cpu.nonce, cpu.mask, cpu.fixed)
           looks == Advance(nonce) % PollEvery = 0 /\ "cpu" \in unseen
           left == IF cpu.job.full /\ Solves(cpu.job, nonce) THEN None ELSE cpu.job
       IN /\ Submits("cpu", cpu.job, nonce)
          /\ cpu' = [cpu EXCEPT !.nonce = Advance(nonce), !.job = IF looks THEN command ELSE left]
          /\ unseen' = IF looks THEN unseen \ {"cpu"} ELSE unseen
    /\ UNCHANGED <<kind, conn, settings, command, gpu, said>>

GpuWait ==
    /\ conn = "up"
    /\ gpu = None
    /\ "gpu" \in unseen
    /\ unseen' = unseen \ {"gpu"}
    /\ gpu' = command
    /\ share' = NoShare
    /\ UNCHANGED <<kind, conn, settings, command, cpu, said>>

\* A launch brings a solution or 0, which stands for none; only a launch without one is
\* followed by a look at the channel.
GpuFinds ==
    /\ conn = "up"
    /\ gpu # None
    /\ \E drawn \in Nonces :
        LET nonce == Masked(drawn, gpu.mask, gpu.fixed) IN
        /\ nonce # 0
        /\ Solves(gpu, nonce)
        /\ Submits("gpu", gpu, nonce)
    /\ gpu' = IF gpu.full THEN None ELSE gpu
    /\ UNCHANGED <<kind, conn, settings, command, unseen, cpu, said>>

GpuFindsNothing ==
    /\ conn = "up"
    /\ gpu # None
    /\ share' = NoShare
    /\ gpu' = IF "gpu" \in unseen THEN command ELSE gpu
    /\ unseen' = unseen \ {"gpu"}
    /\ UNCHANGED <<kind, conn, settings, command, cpu, said>>

Next ==
    \/ \E d \in Difficulties : SetDifficulty(d) \/ RefuseDifficulty(d)
    \/ \E x \in Extranonces : SetExtranonce(x) \/ SetExtranonceInferred(x) \/ RefuseExtranonce(x)
    \/ Notify
    \/ \E bits \in Bits : Template(bits)
    \/ CpuWait \/ CpuTurn \/ GpuWait \/ GpuFinds \/ GpuFindsNothing

\* The CPU worker is a thread of its own.
Spec == Init /\ [][Next]_vars /\ WF_vars(CpuWait) /\ WF_vars(CpuTurn)

-----------------------------------------------------------------------------
(* Properties.                                                             *)

Jobs == {command, cpu.job, gpu} \ {None}

\* Every variable keeps its type: words and nonces their width, workers their jobs.
TypeOK ==
    /\ conn \in {"up", "ended", "crashed"}
    /\ target_pool \in Words /\ {nonce_mask, nonce_fixed, cpu.nonce} \subseteq Nonces
    /\ unseen \subseteq {"cpu", "gpu"}
    /\ \A job \in Jobs : job.number \in 1..command.number /\ job.target \in Words

\* A share's hash is, as a number of four words, at most the target of the share's job:
\* the comparison runs over words in the order in which they are not stored.
MeetsTarget ==
    share # NoShare => Value(Pow[share.job.number][share.nonce]) <= Value(share.job.target)

\* What a pool's difficulty stands for.
DifficultyValue(d) == d.mantissa * Factor * 2 ^ (Exponent + d.exponent)

\* What compact bits stand for: the mantissa times 256^(exponent - 3), of which the lowest
\* 256 bits are kept, and 0 when it is negative.
CompactValue(bits) ==
    LET bytes(n) == 2 ^ (ByteBits * n)
        mant == IF bits.expt > 3 THEN bits.mant ELSE bits.mant \div bytes(3 - bits.expt)
    IN CASE 2 * mant >= bytes(3) -> 0
         [] 2 * mant < bytes(3) /\ bits.expt <= 3 -> mant
         [] OTHER -> IF bits.expt - 3 >= 4 * WordBytes THEN 0
                     ELSE (mant * bytes(bits.expt - 3)) % bytes(4 * WordBytes)

\* A job's target is the number its difficulty or its bits stand for, however that number
\* straddles the words; and 0, which no hash meets, until a pool has announced a
\* difficulty.  Left out are difficulties beyond 2^56 whose lowest bit falls on a word
\* boundary below the top word: for them a shift by a whole word is computed.
TargetAsAsked ==
    \A job \in Jobs :
        IF job.full THEN Value(job.target) = CompactValue(job.asked.bits)
        ELSE LET d == job.asked.difficulty IN
             IF d = Unsaid THEN Value(job.target) = 0
             ELSE Remainder(d) # 0 \/ Start(d) = 3 => Value(job.target) = DifficultyValue(d)

\* The nonces that have the extranonce x for their upper bytes, where there is room for
\* them beside x.size bytes of the miner's own.
Announced(x) ==
    IF x = Unsaid THEN Nonces
    ELSE IF x.size = 0 \/ x.bytes + x.size > WordBytes THEN Nonces
    ELSE {n \in Nonces : n \div 2 ^ (ByteBits * x.size) = x.val}

\* A share's nonce is in the partition the pool announced before the share's job, so
\* that no two miners of a pool submit the same; with a CPU worker, as long as the pool
\* has not moved the partition under a job: the worker keeps the one it began with.
InPartition ==
    share # NoShare /\ (share.by = "gpu" \/ ~said.moved) =>
        share.nonce \in Announced(share.job.asked.extranonce)

\* A CPU worker that stays with a job comes to every nonce it may use, wherever its
\* random start was, and submits the solutions among them.
EveryNonceTried ==
    \A n \in 1..MaxJobs, nonce \in Probes :
        conn = "up" /\ cpu.job.number = n /\ nonce = Masked(nonce, cpu.mask, cpu.fixed)
                /\ Solves(cpu.job, nonce)
            ~> \/ conn # "up" \/ cpu.job.number # n
               \/ share # NoShare /\ share = [by |-> "cpu", job |-> cpu.job, nonce |-> nonce]
=============================================================================
