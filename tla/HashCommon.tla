------------------------------- MODULE HashCommon -------------------------------
(***************************************************************************)
(* collections/hash-common.c: sizes, which are powers of two, and primes.  *)
(***************************************************************************)
EXTENDS Integers

MinShift == 3

\* primeModMask, for sizes that a signed integer holds
PrimeMod ==
    <<2, 3, 7, 13, 31, 61, 127, 251, 509, 1021, 2039, 4093, 8191, 16381, 32749, 65521,
      131071, 262139, 524287, 1048573, 2097143, 4194301, 8388593, 16777213, 33554393,
      67108859, 134217689, 268435399, 536870909, 1073741789>>

\* 1 << n
Power[n \in Nat] == IF n = 0 THEN 1 ELSE 2 * Power[n - 1]

\* swHashClosestShiftFind: the number of bits of n.
Bits(n) == CHOOSE i \in 0 .. n : Power[i] > n /\ (i > 0 => Power[i - 1] <= n)
===============================================================================
