------------------------------ MODULE MCShares ------------------------------
(***************************************************************************)
(* Shares for TLC: bytes of one bit, words of four of them, a difficulty   *)
(* one of 3 * 2^13, and hashes that look arbitrary.                        *)
(***************************************************************************)
EXTENDS Shares

Hash(number, nonce) == (nonce * nonce * 2741 + nonce * 2503 + number * 12345 + 211) % 65536
MCPow == [number \in 1..MaxJobs |-> [nonce \in Nonces |->
    [i \in 0..3 |-> (Hash(number, nonce) \div Radix ^ i) % Radix]]]

\* Word boundaries, both sides of them, the top of the last word and past it.
MCDifficulties == {[mantissa |-> d[1], exponent |-> d[2]] :
    d \in {<<2, -1>>, <<3, -2>>, <<2, 1>>, <<3, 3>>, <<2, -4>>, <<3, -5>>, <<3, -7>>}}
MCExtranonces == {[val |-> x[1], bytes |-> x[2], size |-> x[3]] :
    x \in {<<0, 0, 0>>, <<1, 1, 3>>, <<2, 2, 2>>, <<21, 5, 4>>}}
MCBits == {[expt |-> b[1], mant |-> b[2]] :
    b \in {<<1, 5>>, <<3, 3>>, <<3, 5>>, <<6, 3>>, <<8, 2>>, <<14, 3>>, <<17, 3>>, <<20, 1>>}}
=============================================================================
