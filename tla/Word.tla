-------------------------------- MODULE Word --------------------------------
(***************************************************************************)
(* Fixed-width integers as the Go contracts use them: uint64 values with   *)
(* the checked operations of contract/simapp/safemath, and the two         *)
(* conversions between uint64 and int64 that the dividend code relies on.  *)
(* A checked operation returns the wrapped result and whether to trust it. *)
(* The width is a parameter: the code's WordSize is 2^64.                  *)
(***************************************************************************)
EXTENDS Integers

CONSTANT WordSize    \* number of values of a uint64

ASSUME WordAssumption == WordSize \in Nat \ {0} /\ WordSize % 2 = 0

UInt == 0 .. WordSize - 1

HalfWord == WordSize \div 2

\* What a uint64 operation leaves of an exact integer result.
Wrap(n) == n % WordSize

\* Faults: an overflow test that a sum of zero fails, and one that takes a
\* product for a sum.
Add64Strict(a, b) == LET c == Wrap(a + b) IN [val |-> c, ok |-> c > a]

Mul64Add(a, b) == LET c == Wrap(a * b) IN [val |-> c, ok |-> c >= a]

Add64(a, b) == LET c == Wrap(a + b) IN [val |-> c, ok |-> c >= a]

Sub64(a, b) == LET c == Wrap(a - b) IN [val |-> c, ok |-> c <= a]

Mul64(a, b) ==
    IF a = 0 \/ b = 0
    THEN [val |-> 0, ok |-> TRUE]
    ELSE LET c == Wrap(a * b) IN [val |-> c, ok |-> c \div b = a]

\* A fault: the conversion to a signed integer changes nothing.
ToInt64Unsigned(v) == v

\* int64(v): the bit pattern of v read as a signed integer.
ToInt64(v) == IF v < HalfWord THEN v ELSE v - WordSize

\* -v on a uint64.
Neg64(v) == Wrap(-v)

\* What is expected of a checked operation: it says ok just when the exact
\* result is a word, and then returns that result.
Exact(op, result) ==
    /\ op.ok <=> result \in UInt
    /\ op.ok => op.val = result
=============================================================================
