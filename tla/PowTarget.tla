------------------------------ MODULE PowTarget ------------------------------
(***************************************************************************)
(* The compact difficulty encoding, src/src/consensus.rs: from 32 bits to  *)
(* a threshold of Width digits, most significant first, and from there to  *)
(* the work a block counts for.  Base is 256 and Width 32 in the code; the *)
(* operators hold for any even Base and Width.                             *)
(***************************************************************************)
EXTENDS Integers, Sequences

CONSTANTS
    Base,    \* values of a byte: 256
    Width    \* bytes of a target: 32

ASSUME PowAssumption ==
    /\ Base \in Nat /\ Base >= 2 /\ Base % 2 = 0
    /\ Width \in Nat /\ Width >= 8 /\ Width % 2 = 0

NoTarget == <<>>

Power[n \in Nat] == IF n = 0 THEN 1 ELSE Base * Power[n - 1]

\* The number that the digits first..last of a target stand for
\* (u128::from_be_bytes).
Value(digits, first, last) ==
    LET upTo[i \in (first - 1)..last] ==
          IF i < first THEN 0 ELSE Base * upTo[i - 1] + digits[i]
    IN  upTo[last]

\* u32::to_be_bytes into the last four bytes of a target.
SmallTarget(value) ==
    [i \in 1..Width |->
        IF i > Width - 4 THEN (value \div Power[Width - i]) % Base ELSE 0]

\* Deliberate fault: the mantissa starts one byte too low.
from_compact_Fault(bits) ==
    LET exponent == bits \div Power[3]
        mantissa == bits % (Power[3] \div 2)
        offset == Width - exponent + 1
    IN  IF bits % Power[3] # mantissa \/ mantissa = 0
          THEN NoTarget
        ELSE IF exponent <= 3
          THEN SmallTarget(mantissa \div Power[3 - exponent])
        ELSE IF exponent > Width \/ offset + 3 > Width
          THEN NoTarget
          ELSE [i \in 1..Width |->
                  IF i - offset \in 1..3
                    THEN (mantissa \div Power[3 - (i - offset)]) % Base
                    ELSE 0]

\* The first byte is an exponent, the other three a mantissa whose highest
\* bit is a sign.
from_compact(bits) ==
    LET exponent == bits \div Power[3]
        mantissa == bits % (Power[3] \div 2)
        offset == Width - exponent
    IN  IF bits % Power[3] # mantissa \/ mantissa = 0
          THEN NoTarget
        ELSE IF exponent <= 3
          THEN SmallTarget(mantissa \div Power[3 - exponent])
        ELSE IF exponent > Width \/ offset + 3 > Width
          THEN NoTarget
          ELSE [i \in 1..Width |->
                  IF i - offset \in 1..3
                    THEN (mantissa \div Power[3 - (i - offset)]) % Base
                    ELSE 0]

\* Comparison of byte arrays: the first difference decides.
is_met_by(target, hash) ==
    \/ hash = target
    \/ \E i \in 1..Width : /\ hash[i] < target[i]
                           /\ \A j \in 1..(i - 1) : hash[j] = target[j]

\* Deliberate fault: the low half is subtracted in full.
WorkOf_Fault(leading, trailing, max) ==
    LET base_work == max \div (IF leading = 0 THEN 1
                               ELSE IF leading < max THEN leading + 1 ELSE max)
    IN  IF leading = 0 /\ trailing # max
          THEN base_work - trailing
          ELSE base_work

\* The work of the target with these halves, where max is u128::MAX.
WorkOf(leading, trailing, max) ==
    LET base_work == max \div (IF leading = 0 THEN 1
                               ELSE IF leading < max THEN leading + 1 ELSE max)
    IN  IF leading = 0 /\ trailing # max
          THEN base_work - trailing \div 2
          ELSE base_work

MaxHalf == Power[Width \div 2] - 1

work(target) ==
    WorkOf(Value(target, 1, Width \div 2), Value(target, Width \div 2 + 1, Width),
           MaxHalf)
==============================================================================
