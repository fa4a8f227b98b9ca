CONSTANTS
  BufferSize = 2
  IntWidth = 32
  LongWidth = 64
  MaxLength = 5
  Alphabet <- MCAlphabet
  MaskChar <- MCMaskChar
  MaskOf <- MCMaskOf
  Machines <- MCMachines
SPECIFICATION Spec
INVARIANTS TypeOK Aligned FaithfulOutput AllPrinted
PROPERTY Delays
\* filter() returns once the buffer is flushed.
CHECK_DEADLOCK FALSE
