---------------------------- MODULE BinaryBuffer ----------------------------
(***************************************************************************)
(* The growable byte buffer of src/util/binary_buffer.c, with its size_t   *)
(* arithmetic taken modulo 2^Width.  The bytes themselves are not          *)
(* modelled, only where each write lands relative to the allocation.      *)
(***************************************************************************)
EXTENDS Naturals

CONSTANTS
    Width,       \* bits of size_t
    Capacities,  \* capacities binary_buffer_init / _reset is called with
    Lengths,     \* value_length of the writes
    MaxSize      \* writes are explored while index + value_length <= MaxSize

ASSUME BufferConstantsAssumption ==
    /\ Width \in Nat \ {0}
    /\ Capacities \subseteq 0 .. 2^Width - 1
    /\ Lengths \subseteq 0 .. 2^Width - 1
    /\ MaxSize \in Nat

SizeMax == 2^Width

\* BINARY_BUFFER_MIN_SIZE
MinSize == 128

(* roundup_to_power_of_2 (src/util, not in this tree): the least power of *)
(* two not below x, computed in size_t: 0 for 0 and for every x above the *)
(* largest power of two of the type.                                       *)
RoundupToPowerOf2(x) ==
    IF x = 0 \/ x > SizeMax \div 2 THEN 0
    ELSE CHOOSE p \in {2^k : k \in 0 .. Width - 1} : p >= x /\ p \div 2 < x

(* What binary_buffer_grow relies on from roundup_to_power_of_2: a size_t *)
(* that does not wrap and a result, for every argument up to half of      *)
(* SIZE_MAX, that is no smaller than the argument.  A fact about powers of *)
(* two, evaluated by TLC for the Width of each run.                        *)
RoundupCorrect ==
    \A x \in 1 .. SizeMax \div 2 : RoundupToPowerOf2(x) \in x .. SizeMax - 1

ASSUME RoundupAssumption == SizeMax \in Nat \ {0} /\ RoundupCorrect

VARIABLES
    index,     \* buffer->index
    capacity,  \* buffer->capacity
    overrun    \* some write went past the end of the allocation

vars == <<index, capacity, overrun>>

-----------------------------------------------------------------------------
(* binary_buffer_reset: index back to zero, the allocation resized to     *)
(* capacity (freed for zero).                                              *)
BinaryBufferReset(cap) ==
    /\ index' = 0
    /\ capacity' = cap
    /\ UNCHANGED overrun

(* binary_buffer_init: a buffer set up by binary_buffer_reset. *)
Init ==
    /\ \E cap \in Capacities : capacity = cap
    /\ index = 0
    /\ overrun = FALSE

(* binary_buffer_grow: the new capacity, doubled and rounded up in size_t *)
(* arithmetic, at least BINARY_BUFFER_MIN_SIZE.                            *)
BinaryBufferGrow(cap, len) ==
    LET n == RoundupToPowerOf2(((cap + len) * 2) % SizeMax)
    IN  IF n < MinSize THEN MinSize ELSE n

(* The test that makes binary_buffer_write grow the buffer. *)
\* Slip: the test forgets the bytes already in the buffer.
NeedsGrowIgnoringIndex(idx, len, cap) == len > cap
NeedsGrow(idx, len, cap) == (idx + len) % SizeMax > cap

(* binary_buffer_write of len bytes: grow if the test says so, copy at     *)
(* index, then advance index unless index + len wraps.                     *)
BinaryBufferWrite(len) ==
    /\ index + len <= MaxSize
    /\ LET cap == IF NeedsGrow(index, len, capacity)
                  THEN BinaryBufferGrow(capacity, len) ELSE capacity
       IN  /\ capacity' = cap
           /\ overrun' = (overrun \/ index + len > cap)
           /\ index' = IF index < (index + len) % SizeMax THEN index + len ELSE index

Next ==
    \/ \E cap \in Capacities : BinaryBufferReset(cap)
    \/ \E len \in Lengths : BinaryBufferWrite(len)

Spec == Init /\ [][Next]_vars

-----------------------------------------------------------------------------
(* Properties.                                                             *)

(* The buffer's fields stay within their size_t ranges. *)
TypeOK ==
    /\ index \in 0 .. SizeMax - 1
    /\ capacity \in 0 .. SizeMax - 1
    /\ overrun \in BOOLEAN

(* Every byte binary_buffer_write copies lands inside the allocation:     *)
(* the grow test and the grow size together always make room, however    *)
(* the capacities of resets and the lengths of writes interleave.          *)
NoOverrun == ~overrun

=============================================================================
