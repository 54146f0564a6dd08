------------------------------ MODULE BitArrays ------------------------------
(***************************************************************************)
(* The bit arrays of src/bitarray.h.  A bit array is the set of positions   *)
(* whose bit is set, over all the blocks it owns.  The operations of the    *)
(* header take the number nr_bits of bits of interest but work on whole     *)
(* blocks, so they also reach the trailing bits of the last block; the      *)
(* block size is a parameter (64 in the program) so that a small model has  *)
(* trailing bits too.                                                       *)
(***************************************************************************)
EXTENDS Integers, FiniteSets

CONSTANT BlockBits        \* bits per block (NR_BITS_PER_BLOCK)

ASSUME BlockBitsAssumption == BlockBits \in Nat \ {0}

number_of_blocks(nr_bits) == (nr_bits + BlockBits - 1) \div BlockBits

(* The positions held by the blocks that an operation on nr_bits touches.   *)
Covered(nr_bits) == 0 .. (BlockBits * number_of_blocks(nr_bits) - 1)

(* The positions the callers mean.                                          *)
Meant(nr_bits) == 0 .. (nr_bits - 1)

init_bit_array(a, val, nr_bits) ==
  IF val THEN a \cup Covered(nr_bits) ELSE a \ Covered(nr_bits)

set_bit_array(a, pos, val) == IF val THEN a \cup {pos} ELSE a \ {pos}

intersect_bit_arrays(a, b, nr_bits) == a \ (Covered(nr_bits) \ b)

complement_bit_arrays(a, b, nr_bits) == a \ (Covered(nr_bits) \cap b)

union_bit_arrays(a, b, nr_bits) == a \cup (b \cap Covered(nr_bits))

copy_bit_array(a, b, nr_bits) ==
  (a \ Covered(nr_bits)) \cup (b \cap Covered(nr_bits))

size_bit_array(a, nr_bits) == Cardinality(a \cap Covered(nr_bits))

(* What FOR_SET_BITS enumerates, in increasing order: it stops at nr_bits.  *)
SetBits(a, nr_bits) == a \cap Meant(nr_bits)
==============================================================================
