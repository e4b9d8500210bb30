------------------------- MODULE BinaryBufferProofs -------------------------
(***************************************************************************)
(* Proofs about the byte buffer of src/util/binary_buffer.c               *)
(* (BinaryBuffer.tla): as long as the buffer is kept at or below an eighth *)
(* of SIZE_MAX, so that no size computation wraps, every write lands      *)
(* inside the allocation, whatever capacities the resets pass and however *)
(* writes interleave.                                                      *)
(***************************************************************************)
EXTENDS BinaryBuffer, TLAPS

(* No sum binary_buffer_write and binary_buffer_grow compute reaches       *)
(* SIZE_MAX: the buffer holds at most MaxSize bytes and MaxSize is at most *)
(* an eighth of SIZE_MAX.                                                  *)
NoWrap == MaxSize * 8 <= SizeMax

(* The buffer's state, the property, and what makes it inductive: the     *)
(* index never passes the capacity.                                        *)
BufInv ==
    /\ index \in Nat /\ capacity \in Nat /\ overrun \in BOOLEAN
    /\ ~overrun
    /\ index <= capacity

-----------------------------------------------------------------------------
(* A sum below SIZE_MAX is left alone by the size_t arithmetic. *)
LEMMA ModSmall ==
    ASSUME NEW a \in Nat, a < SizeMax
    PROVE  a % SizeMax = a
BY RoundupAssumption

(* When binary_buffer_write grows the buffer, the new capacity has room    *)
(* for the bytes already there and the new ones: twice capacity + length, *)
(* rounded up to a power of two, no less than BINARY_BUFFER_MIN_SIZE.      *)
LEMMA GrowRoom ==
    ASSUME NoWrap, NEW cap \in Nat, NEW idx \in Nat, NEW len \in Nat,
           idx <= cap, idx + len <= MaxSize, idx + len > cap
    PROVE  /\ BinaryBufferGrow(cap, len) \in Nat
           /\ BinaryBufferGrow(cap, len) >= idx + len
<1>0. SizeMax \in Nat \ {0} /\ MaxSize \in Nat
  BY RoundupAssumption, BufferConstantsAssumption
<1>1. (cap + len) * 2 \in 1 .. SizeMax \div 2
  BY <1>0 DEF NoWrap
<1>2. ((cap + len) * 2) % SizeMax = (cap + len) * 2
  BY <1>0, <1>1, ModSmall
<1>3. RoundupToPowerOf2((cap + len) * 2) \in (cap + len) * 2 .. SizeMax - 1
  BY <1>1, RoundupAssumption DEF RoundupCorrect
<1>4. (cap + len) * 2 >= idx + len
  OBVIOUS
<1>. QED  BY <1>2, <1>3, <1>4 DEF BinaryBufferGrow, MinSize

-----------------------------------------------------------------------------
(* The capacities binary_buffer_reset is given are sizes. *)
LEMMA CapacitiesNat == Capacities \subseteq Nat /\ Lengths \subseteq Nat
BY RoundupAssumption, BufferConstantsAssumption DEF SizeMax

LEMMA BufInitInv == Init => BufInv
<1> SUFFICES ASSUME Init PROVE BufInv
  OBVIOUS
<1>1. capacity \in Nat
  BY CapacitiesNat DEF Init
<1>2. overrun \in BOOLEAN /\ ~overrun
  BY Zenon DEF Init
<1>3. index \in Nat /\ index <= capacity
  BY <1>1 DEF Init
<1>. QED  BY <1>1, <1>2, <1>3, Zenon DEF BufInv

(* binary_buffer_reset starts the buffer over at index zero. *)
LEMMA ResetInv ==
    ASSUME BufInv, NEW cap \in Capacities, BinaryBufferReset(cap)
    PROVE  BufInv'
BY CapacitiesNat DEF BinaryBufferReset, BufInv

(* binary_buffer_write of len bytes: the grow test sees the true end of    *)
(* the write, the grown capacity covers it, and the index moves past it.  *)
LEMMA WriteInv ==
    ASSUME NoWrap, BufInv, NEW len \in Lengths, BinaryBufferWrite(len)
    PROVE  BufInv'
<1>0. /\ len \in Nat /\ index \in Nat /\ capacity \in Nat
      /\ index + len <= MaxSize /\ index + len < SizeMax
  <2>1. len \in Nat /\ index \in Nat /\ capacity \in Nat /\ index + len <= MaxSize
    BY CapacitiesNat DEF BinaryBufferWrite, BufInv
  <2>2. SizeMax \in Nat \ {0} /\ MaxSize \in Nat
    BY RoundupAssumption, BufferConstantsAssumption
  <2>. QED  BY <2>1, <2>2 DEF NoWrap
<1>1. (index + len) % SizeMax = index + len
  BY <1>0, ModSmall
<1>2. /\ capacity' = IF index + len > capacity
                     THEN BinaryBufferGrow(capacity, len) ELSE capacity
      /\ overrun' = (overrun \/ index + len > capacity')
      /\ index' = IF index < index + len THEN index + len ELSE index
  BY <1>1 DEF BinaryBufferWrite, NeedsGrow
<1>3. capacity' \in Nat /\ index + len <= capacity'
  <2>1. CASE index + len > capacity
    BY <1>0, <1>2, <2>1, GrowRoom DEF BufInv
  <2>2. CASE ~(index + len > capacity)
    BY <1>0, <1>2, <2>2
  <2>. QED  BY <2>1, <2>2
<1>4. index' = index + len
  BY <1>0, <1>2
<1>. QED  BY <1>0, <1>2, <1>3, <1>4 DEF BufInv

LEMMA BufStep ==
    ASSUME NoWrap, BufInv, [Next]_vars
    PROVE  BufInv'
<1>1. CASE \E cap \in Capacities : BinaryBufferReset(cap)
  BY <1>1, ResetInv
<1>2. CASE \E len \in Lengths : BinaryBufferWrite(len)
  BY <1>2, WriteInv
<1>3. CASE UNCHANGED vars
  BY <1>3 DEF vars, BufInv
<1>. QED  BY <1>1, <1>2, <1>3 DEF Next

(* While the buffer is kept to an eighth of SIZE_MAX, no byte              *)
(* binary_buffer_write copies lands past the allocation, for every width  *)
(* of size_t, every capacity binary_buffer_reset is given and every       *)
(* sequence of resets and writes: binary_buffer_grow always makes room.    *)
THEOREM NoOverrunHolds ==
    ASSUME NoWrap
    PROVE  Spec => []NoOverrun
<1>1. BufInv /\ [Next]_vars => BufInv'
  BY BufStep
<1>2. BufInv => NoOverrun
  BY DEF BufInv, NoOverrun
<1>. QED  BY <1>1, <1>2, BufInitInv, PTL DEF Spec

=============================================================================
