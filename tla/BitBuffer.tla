------------------------------ MODULE BitBuffer ------------------------------
(***************************************************************************)
(* The shift register of src/bit_buffer.hh.                                *)
(*                                                                         *)
(* BitBuffer<BufferSize> keeps one bit per character still waiting in the  *)
(* character queue of the Moore machine: bit i belongs to the character    *)
(* fed i feeds ago, and a set bit means "emit it unmasked".  A             *)
(* std::bitset is the set of the positions whose bit is 1.                 *)
(*                                                                         *)
(* The machine widths are parameters (32 and 64 in the source), so that    *)
(* small instances reach the branches and the overflow that large buffers  *)
(* reach in the program.                                                   *)
(***************************************************************************)
EXTENDS Integers

CONSTANTS
  BufferSize,  \* template parameter BufferSize, -DBUFFER_SIZE (default 10)
  IntWidth,    \* width of int, the type of the literal in 1 << n
  LongWidth    \* width of uint64_t, the type of mask

ASSUME BufferSizeAssumption == BufferSize \in Nat \ {0}

ASSUME WidthAssumption ==
  /\ IntWidth \in Nat \ {0}
  /\ LongWidth \in Nat
  /\ IntWidth =< LongWidth

Positions == 0 .. BufferSize - 1

LowBits(n) == {i \in Positions : i < n}

(* Faulty: the last bit comes back as bit 0.                               *)
ShiftAround(bits) == {i \in Positions : (i - 1) % BufferSize \in bits}

(***************************************************************************)
(* bitBuffer <<= 1: every bit moves up, the last one is dropped, bit 0 is  *)
(* cleared.                                                                *)
(***************************************************************************)
ShiftLeft(bits) == {i \in Positions : i - 1 \in bits}

(* Faulty: the loop that sets the bits runs once too often.                *)
EnabledBitsAndOne(n) == {{i \in Positions : i =< n}}

(***************************************************************************)
(* The bits that getAndEnable(n) may set.  Up to LongWidth bits the code   *)
(* takes them from (1 << n) - 1, computed in int: shifting by IntWidth or  *)
(* more is undefined, and the build either reduces the count modulo the    *)
(* width, as x86 does, or happens to compute the wide value.  Longer       *)
(* buffers are set bit by bit.                                             *)
(***************************************************************************)
EnabledBits(n) ==
  IF BufferSize > LongWidth \/ n < IntWidth
    THEN {LowBits(n)}
    ELSE {LowBits(n), LowBits(n % IntWidth)}

(* The value getAndEnable returns: the oldest bit, read before the shift.  *)
OldestBit(bits) == BufferSize - 1 \in bits

(* The register after getAndEnable(n).                                     *)
Enable(bits, n) == {ShiftLeft(bits) \union ones : ones \in EnabledBits(n)}

(* The sizes for which getAndEnable never overflows its shift.             *)
NoOverflow == BufferSize < IntWidth \/ BufferSize > LongWidth

==============================================================================
