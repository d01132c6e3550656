---------------------------- MODULE ExecutionId ----------------------------
(***************************************************************************)
(* ProcessRunner::generateExecutionId: a clock reading, the process id and *)
(* a counter, xored into overlapping fields of one unsigned integer        *)
(*                                                                         *)
(*     (nanos << 16) ^ ((pid & 0xFFFF) << 8) ^ counter                     *)
(*                                                                         *)
(* An integer is the function from bit numbers to bits, of parametric      *)
(* width; bits shifted out are lost as in the code.  Nothing is assumed of *)
(* the clock: two readings may be equal, or come in any order.             *)
(***************************************************************************)
EXTENDS Naturals

CONSTANTS
    IdWidth,        \* 64
    ClockShift,     \* 16
    PidShift,       \* 8
    PidWidth,       \* 16, the bits of the mask
    Pid,            \* getpid()
    ClockReadings   \* steady_clock readings, in ns

ASSUME IdAssumption ==
    /\ IdWidth \in Nat /\ ClockShift \in 1 .. IdWidth /\ PidShift \in Nat
    /\ PidWidth \in Nat /\ Pid \in Nat /\ ClockReadings \subseteq Nat

BitPositions == 0 .. IdWidth - 1
Bit(value, i) == IF (value \div 2^i) % 2 = 1 THEN 1 ELSE 0
Shifted(value, by, i) == IF i < by THEN 0 ELSE Bit(value, i - by)
PidBit(i) == IF i < PidShift + PidWidth THEN Shifted(Pid, PidShift, i) ELSE 0

\* Mutant of RawId: the counter is left out.
RawIdWithoutCounter(nanos, counter) ==
    [i \in BitPositions |-> (Shifted(nanos, ClockShift, i) + PidBit(i)) % 2]

\* The xor of three bits is the parity of their sum.
RawId(nanos, counter) ==
    [i \in BitPositions |->
        (Shifted(nanos, ClockShift, i) + PidBit(i) + Bit(counter, i)) % 2]

Zero == [i \in BitPositions |-> 0]
One  == [i \in BitPositions |-> IF i = 0 THEN 1 ELSE 0]

GenerateExecutionId(nanos, counter) ==
    IF RawId(nanos, counter) = Zero THEN One ELSE RawId(nanos, counter)

============================================================================
