-------------------------------- MODULE Word --------------------------------
(***************************************************************************)
(* Machine words of the emulator and the macros of rvemu.h on them.        *)
(*                                                                         *)
(* uint64_t is modelled by the integers 0 .. AddrSpace-1; AddrSpace stands *)
(* for 2^64 and is scaled down for model checking.  Every unsigned C       *)
(* addition or subtraction is Wrap(...) of the mathematical one, and the   *)
(* cast (int64_t)x is Signed(x).                                           *)
(***************************************************************************)
EXTENDS Integers

CONSTANT AddrSpace  \* the number of uint64_t values, 2^64 in the code

ASSUME WordAssumption == AddrSpace \in Nat /\ AddrSpace > 1

Word == 0 .. (AddrSpace - 1)

\* Unsigned wrap-around of a sum or difference of words.
Wrap(x) == x % AddrSpace

\* (int64_t)x for a word x.
Signed(x) == IF 2 * x < AddrSpace THEN x ELSE x - AddrSpace

\* ROUNDDOWN(x, k) is x & -k, for a power of two k.
ROUNDDOWN(x, k) == x - (x % k)

\* ROUNDUP(x, k) is (x + k - 1) & -k, computed in uint64_t.
ROUNDUP(x, k) == ROUNDDOWN(Wrap(x + k - 1), k)

\* Mutant: the later argument always wins.
MAX_Last(x, y) == y

\* The macro MAX, with its own comparison.
MAX(x, y) == IF y < x THEN x ELSE y
=============================================================================
