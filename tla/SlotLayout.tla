----------------------------- MODULE SlotLayout -----------------------------
(***************************************************************************)
(* Geometry of a SCEF container: where the four header+table slots lie,    *)
(* how a position is moved past a slot, how many bytes fit before the next *)
(* one, and how much room for data is left.  Everything here is a pure     *)
(* function of the sizes; the state machine over it is DataArea.           *)
(*                                                                         *)
(* Sizes are counted in abstract cells: the constants keep the code's      *)
(* relations (a slot is a header followed by the table area, a chunk is a  *)
(* block plus nonce and tag), not its magnitudes.                          *)
(***************************************************************************)
EXTENDS Integers

CONSTANTS HEADER_SIZE,   \* cells of a header; slots are aligned to it
          BLOCK_SIZE,    \* plaintext cells of a full chunk
          OVERHEAD,      \* NONCE_SIZE + AUTH_TAG_SIZE, added to every chunk
          UINT32         \* modulus of the 32-bit sum header_size + max_table_size

ASSUME SizesAssumption ==
  /\ HEADER_SIZE \in Nat \ {0}
  /\ BLOCK_SIZE \in Nat \ {0}
  /\ OVERHEAD \in Nat \ {0}
  /\ UINT32 \in Nat \ {0}

SLOT_COUNT == 4
Slots == 1 .. SLOT_COUNT
SLOT_PERCENTAGES == <<0, 25, 50, 75>>

LesserOf(a, b) == IF a <= b THEN a ELSE b
GreaterOf(a, b) == IF a >= b THEN a ELSE b

(***************************************************************************)
(* Slot offsets: floor(size * percent / 100 / header_size) * header_size.  *)
(***************************************************************************)
computeSlotOffset(size, percent) ==
  IF percent = 0
  THEN 0
  ELSE (((size * percent) \div 100) \div HEADER_SIZE) * HEADER_SIZE

computeSlotOffsets(size) ==
  [i \in Slots |-> computeSlotOffset(size, SLOT_PERCENTAGES[i])]

\* header_size and max_table_size are uint32_t: their sum wraps before it is
\* widened to 64 bits.
slotReserved(max_table_size) == (HEADER_SIZE + max_table_size) % UINT32

\* A container as the geometry sees it.
Layout(size, max_table_size) ==
  [size     |-> size,
   reserved |-> slotReserved(max_table_size),
   slots    |-> computeSlotOffsets(size)]

\* What createContainerFile accepts (its upper limit plays no role here).
Accepted(size, max_table_size) == size >= 4 * slotReserved(max_table_size)

-----------------------------------------------------------------------------
(***************************************************************************)
(* Moving around the slots.  Both loops of the code take the FIRST slot,   *)
(* in array order, that matches.                                           *)
(***************************************************************************)
FirstOf(S) == CHOOSE i \in S : \A j \in S : i <= j

SlotsAt(c, pos) ==
  {i \in Slots : c.slots[i] <= pos /\ pos < c.slots[i] + c.reserved}

SlotsAfter(c, pos) == {i \in Slots : pos < c.slots[i]}

\* Mutated: positions are taken as they come.
skipSlotsNever(c, pos) == pos

\* The end of the first slot pos lies in.  The position returned is not
\* looked at again, even if another slot begins there.
skipSlots(c, pos) ==
  IF SlotsAt(c, pos) = {}
  THEN pos
  ELSE c.slots[FirstOf(SlotsAt(c, pos))] + c.reserved

\* Mutated: what remains of the chunk is forgotten.
bytesToSlot(c, cur, remaining) ==
  IF SlotsAfter(c, cur) = {}
  THEN remaining
  ELSE c.slots[FirstOf(SlotsAfter(c, cur))] - cur

bytesUntilNextSlot(c, cur, remaining) ==
  IF SlotsAfter(c, cur) = {}
  THEN remaining
  ELSE LesserOf(remaining, c.slots[FirstOf(SlotsAfter(c, cur))] - cur)

-----------------------------------------------------------------------------
(***************************************************************************)
(* Capacity.                                                               *)
(***************************************************************************)

\* Mutated: nonce and tag of the last chunk are forgotten.
encryptedSizeWithoutTail(plain) ==
  (plain \div BLOCK_SIZE) * (BLOCK_SIZE + OVERHEAD) + (plain % BLOCK_SIZE)

\* Encrypted footprint of a file: every chunk, the last one included, carries
\* a nonce and a tag; an empty file has no chunk.
encryptedSizeCalc(plain) ==
  (plain \div BLOCK_SIZE) * (BLOCK_SIZE + OVERHEAD)
    + (IF plain % BLOCK_SIZE > 0 THEN (plain % BLOCK_SIZE) + OVERHEAD ELSE 0)

\* What write() compares the required bytes with.
computeAvailableDataCapacity(c) ==
  IF c.size <= SLOT_COUNT * c.reserved
  THEN 0
  ELSE c.size - SLOT_COUNT * c.reserved

\* Mutated: the slots before "from" count as well.
ReservedEverywhere(c, i, from) ==
  LET end == LesserOf(c.slots[i] + c.reserved, c.size)
  IN  end - c.slots[i]

\* Cells of slot i that lie in [from, size), as add() counts them.
ReservedFrom(c, i, from) ==
  LET begin == GreaterOf(c.slots[i], from)
      end   == LesserOf(c.slots[i] + c.reserved, c.size)
  IN  IF begin < end THEN end - begin ELSE 0

\* What add() compares the required bytes with.
freeCapacity(c, from) ==
  (c.size - from)
    - (ReservedFrom(c, 1, from) + ReservedFrom(c, 2, from)
         + ReservedFrom(c, 3, from) + ReservedFrom(c, 4, from))

-----------------------------------------------------------------------------
(***************************************************************************)
(* Two conditions on a layout that the properties of DataArea rest on.     *)
(***************************************************************************)

\* The slots lie one after another inside the container.
SlotsInOrder(c) ==
  /\ c.slots[1] = 0
  /\ \A i \in 1 .. 3 : c.slots[i] + c.reserved <= c.slots[i + 1]
  /\ c.slots[4] + c.reserved <= c.size

\* ... with at least one data cell between any two of them.
SlotsApart(c) ==
  /\ SlotsInOrder(c)
  /\ \A i \in 1 .. 3 : c.slots[i] + c.reserved < c.slots[i + 1]
=============================================================================
