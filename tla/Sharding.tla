------------------------------ MODULE Sharding ------------------------------
(***************************************************************************)
(* The hash of src/include/sharding.hpp, bit for bit.  A symbol is the     *)
(* sequence of its bytes; a uint64_t is four 16-bit digits, the least      *)
(* significant first.                                                      *)
(***************************************************************************)
EXTENDS Integers, Sequences, SequencesExt, Bitwise

Base == 65536

\* The value of the digits that ds stand for once carries are moved up; what is
\* carried out of the fourth is lost, as in unsigned arithmetic.
Carried(ds) ==
    LET sum[i \in 1..4] == ds[i] + (IF i = 1 THEN 0 ELSE sum[i - 1] \div Base)
    IN  [i \in 1..4 |-> sum[i] % Base]

\* 14695981039346656037 = 0xcbf29ce484222325
OffsetBasis == <<8997, 33826, 40164, 52210>>

\* h * 1099511628211: the prime is 2^40 + 435, and 2^40 = 256 * Base^2.
TimesPrime(h) ==
    Carried(<<435 * h[1], 435 * h[2], 435 * h[3] + 256 * h[1], 435 * h[4] + 256 * h[2]>>)

fnv1a(s) == FoldLeft(LAMBDA h, c : TimesPrime([h EXCEPT ![1] = @ ^^ c]), OffsetBasis, s)

\* h % n, digit by digit; n is less than 2^15.
Mod(h, n) == FoldLeft(LAMBDA r, d : (r * Base + d) % n, 0, Reverse(h))

shard_for_symbol(symbol, num_shards) == Mod(fnv1a(symbol), num_shards)

XYZ == <<88, 89, 90>>
ABC == <<65, 66, 67>>

\* FNV-1a's published values for "a" (0xaf63dc4c8601ec8c) and for "foobar"
\* (0x85944171f73967e8); and "XYZ landed on shard 0, ABC on shard 1"
\* (docs/distributed_system.md:107-108) of two.
ASSUME KnownHashes ==
    /\ fnv1a(<<97>>) = <<60556, 34305, 56396, 44899>>
    /\ fnv1a(<<102, 111, 111, 98, 97, 114>>) = <<26600, 63289, 16753, 34196>>
    /\ shard_for_symbol(XYZ, 2) = 0 /\ shard_for_symbol(ABC, 2) = 1
=============================================================================
