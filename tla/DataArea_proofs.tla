--------------------------- MODULE DataArea_proofs ---------------------------
(***************************************************************************)
(* For every container whose slots lie apart, every block, header and      *)
(* table size, every sequence of create, add, abort and extract calls and  *)
(* every file size: file data stays out of the slots, never overwrites     *)
(* file data, and stays inside the container.                              *)
(***************************************************************************)
EXTENDS DataArea, FiniteSetTheorems, TLAPS

-----------------------------------------------------------------------------
(***************************************************************************)
(* The container geometry, for every header, block and table size and      *)
(* every container size.                                                   *)
(***************************************************************************)

\* Rounding down to a multiple of h moves a position back by less than h.
LEMMA RoundDown ==
  ASSUME NEW x \in Nat, NEW h \in Nat \ {0}
  PROVE  /\ (x \div h) \in Nat
         /\ (x \div h) * h \in Nat
         /\ (x \div h) * h <= x
         /\ x < (x \div h) * h + h
<1>1. x = h * (x \div h) + (x % h) /\ x % h \in 0 .. (h - 1) /\ x \div h \in Int
  OBVIOUS
<1>2. (x \div h) * h = h * (x \div h)
  BY <1>1
<1>3. x \div h \in Nat
  BY <1>1, SMT
<1> QED
  BY <1>1, <1>2, <1>3

\* Quarters of a size that is at least 4 * n lie at least n apart.
LEMMA QuartersApart ==
  ASSUME NEW size \in Nat, NEW n \in Nat, size >= 4 * n
  PROVE  /\ (size * 25) \div 100 \in Nat
         /\ (size * 50) \div 100 \in Nat
         /\ (size * 75) \div 100 \in Nat
         /\ (size * 25) \div 100 >= n
         /\ (size * 50) \div 100 >= (size * 25) \div 100 + n
         /\ (size * 75) \div 100 >= (size * 50) \div 100 + n
         /\ size >= (size * 75) \div 100 + n
  BY SMT

\* Positions at least d + h apart stay more than d apart when rounded down to
\* multiples of h.
LEMMA RoundedApart ==
  ASSUME NEW x \in Nat, NEW y \in Nat, NEW h \in Nat \ {0}, NEW d \in Nat,
         y >= x + d + h
  PROVE  (x \div h) * h + d < (y \div h) * h
<1>1. (x \div h) * h <= x /\ (x \div h) * h \in Nat
  BY RoundDown
<1>2. y < (y \div h) * h + h /\ (y \div h) * h \in Nat
  BY RoundDown
<1> QED
  BY <1>1, <1>2

\* The slot offsets written out.
LEMMA SlotOffsetsAre ==
  ASSUME NEW size \in Nat
  PROVE  /\ computeSlotOffsets(size)[1] = 0
         /\ computeSlotOffsets(size)[2] = (((size * 25) \div 100) \div HEADER_SIZE) * HEADER_SIZE
         /\ computeSlotOffsets(size)[3] = (((size * 50) \div 100) \div HEADER_SIZE) * HEADER_SIZE
         /\ computeSlotOffsets(size)[4] = (((size * 75) \div 100) \div HEADER_SIZE) * HEADER_SIZE
         /\ computeSlotOffsets(size) \in [Slots -> Nat]
<1> DEFINE q(p) == ((size * p) \div 100)
<1>1. q(25) \in Nat /\ q(50) \in Nat /\ q(75) \in Nat
  BY SMT
<1>2. ((q(25) \div HEADER_SIZE) * HEADER_SIZE) \in Nat
  BY <1>1, RoundDown, SizesAssumption
<1>3. ((q(50) \div HEADER_SIZE) * HEADER_SIZE) \in Nat
  BY <1>1, RoundDown, SizesAssumption
<1>4. ((q(75) \div HEADER_SIZE) * HEADER_SIZE) \in Nat
  BY <1>1, RoundDown, SizesAssumption
<1>5. Slots = {1, 2, 3, 4}
  BY DEF Slots, SLOT_COUNT
<1>6. /\ computeSlotOffsets(size)[1] = 0
      /\ computeSlotOffsets(size)[2] = ((q(25) \div HEADER_SIZE) * HEADER_SIZE)
      /\ computeSlotOffsets(size)[3] = ((q(50) \div HEADER_SIZE) * HEADER_SIZE)
      /\ computeSlotOffsets(size)[4] = ((q(75) \div HEADER_SIZE) * HEADER_SIZE)
      /\ DOMAIN computeSlotOffsets(size) = Slots
      /\ computeSlotOffsets(size) = [i \in Slots |-> computeSlotOffsets(size)[i]]
  BY <1>5 DEF computeSlotOffsets, computeSlotOffset, SLOT_PERCENTAGES
<1> HIDE DEF q
<1>7. \A i \in Slots : computeSlotOffsets(size)[i] \in Nat
  BY <1>2, <1>3, <1>4, <1>5, <1>6
<1>8. computeSlotOffsets(size) \in [Slots -> Nat]
  BY <1>6, <1>7
<1> QED
  BY <1>6, <1>8 DEF q

\* Three positions, each at least d + h after the one before (the first after
\* 0), stay more than d apart when rounded down to multiples of h.
LEMMA RoundedInOrder ==
  ASSUME NEW d \in Nat, NEW h \in Nat \ {0}, NEW size \in Nat,
         NEW x \in Nat, NEW y \in Nat, NEW z \in Nat,
         x >= d + h, y >= x + (d + h), z >= y + (d + h), size >= z + (d + h)
  PROVE  /\ d < (x \div h) * h
         /\ (x \div h) * h + d < (y \div h) * h
         /\ (y \div h) * h + d < (z \div h) * h
         /\ (z \div h) * h + d <= size
<1>1. x < (x \div h) * h + h /\ (x \div h) * h \in Nat
  BY RoundDown
<1>2. d < (x \div h) * h
  BY <1>1
<1>3. (x \div h) * h + d < (y \div h) * h
  BY RoundedApart
<1>4. (y \div h) * h + d < (z \div h) * h
  BY RoundedApart
<1>5. (z \div h) * h <= z /\ (z \div h) * h \in Nat
  BY RoundDown
<1>6. (z \div h) * h + d <= size
  BY <1>5
<1> QED
  BY <1>2, <1>3, <1>4, <1>6

-----------------------------------------------------------------------------
\* A container with room for one more header per slot than the minimum has its
\* four slots in order, inside the container, with data cells between any two
\* of them -- for every table size, a multiple of the header size or not
\* (computeSlotOffset, createContainerFile).
THEOREM RoomyContainerHasSlotsApart ==
  ASSUME NEW size \in Nat, NEW max_table_size \in Nat,
         size >= 4 * (slotReserved(max_table_size) + HEADER_SIZE)
  PROVE  SlotsApart(Layout(size, max_table_size))
<1>1. PICK r \in Nat : r = slotReserved(max_table_size)
  BY SizesAssumption DEF slotReserved
<1>2. PICK x \in Nat, y \in Nat, z \in Nat :
         x = (size * 25) \div 100 /\ y = (size * 50) \div 100 /\ z = (size * 75) \div 100
  BY SMT
<1>3. HEADER_SIZE \in Nat \ {0} /\ r + HEADER_SIZE \in Nat
  BY SizesAssumption
<1>4. /\ x >= r + HEADER_SIZE
      /\ y >= x + (r + HEADER_SIZE)
      /\ z >= y + (r + HEADER_SIZE)
      /\ size >= z + (r + HEADER_SIZE)
  <2>1. size >= 4 * (r + HEADER_SIZE)
    BY <1>1
  <2> QED
    BY ONLY <2>1, <1>2, <1>3, QuartersApart
<1>5. /\ r < (x \div HEADER_SIZE) * HEADER_SIZE
      /\ (x \div HEADER_SIZE) * HEADER_SIZE + r < (y \div HEADER_SIZE) * HEADER_SIZE
      /\ (y \div HEADER_SIZE) * HEADER_SIZE + r < (z \div HEADER_SIZE) * HEADER_SIZE
      /\ (z \div HEADER_SIZE) * HEADER_SIZE + r <= size
  BY <1>3, <1>4, RoundedInOrder
<1> DEFINE s == computeSlotOffsets(size)
<1>6. /\ s \in [Slots -> Nat]
      /\ s[1] = 0
      /\ s[2] = (((size * 25) \div 100) \div HEADER_SIZE) * HEADER_SIZE
      /\ s[3] = (((size * 50) \div 100) \div HEADER_SIZE) * HEADER_SIZE
      /\ s[4] = (((size * 75) \div 100) \div HEADER_SIZE) * HEADER_SIZE
  BY SlotOffsetsAre
<1> HIDE DEF s
<1>7. /\ s[1] = 0 /\ r < s[2] /\ s[2] + r < s[3] /\ s[3] + r < s[4] /\ s[4] + r <= size
  <2>1. /\ s[2] = (x \div HEADER_SIZE) * HEADER_SIZE
        /\ s[3] = (y \div HEADER_SIZE) * HEADER_SIZE
        /\ s[4] = (z \div HEADER_SIZE) * HEADER_SIZE
    BY ONLY <1>6, <1>2, Zenon
  <2> QED
    BY ONLY <1>5, <1>6, <2>1, Zenon
<1>8. /\ Layout(size, max_table_size).slots = s
      /\ Layout(size, max_table_size).reserved = r
      /\ Layout(size, max_table_size).size = size
  BY <1>1 DEF Layout, s
<1>9. s[1] \in Nat /\ s[2] \in Nat /\ s[3] \in Nat /\ s[4] \in Nat
  BY <1>6 DEF Slots, SLOT_COUNT
<1>10. \A i \in 1 .. 3 : s[i] + r < s[i + 1]
  <2>1. s[1] + r < s[1 + 1] /\ s[2] + r < s[2 + 1] /\ s[3] + r < s[3 + 1]
    BY <1>7
  <2> QED BY <2>1
<1>11. \A i \in 1 .. 3 : s[i] + r <= s[i + 1]
  <2> SUFFICES ASSUME NEW i \in 1 .. 3
               PROVE  s[i] + r <= s[i + 1]
    OBVIOUS
  <2>1. s[i] \in Nat /\ s[i + 1] \in Nat
    BY <1>6 DEF Slots, SLOT_COUNT
  <2> QED BY <2>1, <1>10
<1> QED
  BY <1>7, <1>8, <1>10, <1>11 DEF SlotsApart, SlotsInOrder

-----------------------------------------------------------------------------
(***************************************************************************)
(* skipSlots and bytesUntilNextSlot when the slots lie apart.              *)
(***************************************************************************)
LayoutType == [size : Nat, reserved : Nat, slots : [Slots -> Nat]]

\* The first element of a non-empty set of slots exists.
LEMMA FirstOfIsFirst ==
  ASSUME NEW S \in SUBSET Slots, S # {}
  PROVE  FirstOf(S) \in S /\ \A j \in S : FirstOf(S) <= j
<1>1. \E i \in S : \A j \in S : i <= j
  <2>1. CASE 1 \in S
    BY <2>1 DEF Slots, SLOT_COUNT
  <2>2. CASE 1 \notin S /\ 2 \in S
    BY <2>2 DEF Slots, SLOT_COUNT
  <2>3. CASE 1 \notin S /\ 2 \notin S /\ 3 \in S
    BY <2>3 DEF Slots, SLOT_COUNT
  <2>4. CASE 1 \notin S /\ 2 \notin S /\ 3 \notin S
    <3>1. \A i \in S : i = 4
      BY <2>4 DEF Slots, SLOT_COUNT
    <3> QED BY <3>1
  <2> QED BY <2>1, <2>2, <2>3, <2>4
<1> QED
  BY <1>1 DEF FirstOf

\* Slots that lie apart, as inequalities between numbers.
LEMMA ApartMeans ==
  ASSUME NEW c \in LayoutType, SlotsApart(c)
  PROVE  /\ c.size \in Nat /\ c.reserved \in Nat
         /\ c.slots[1] \in Nat /\ c.slots[2] \in Nat
         /\ c.slots[3] \in Nat /\ c.slots[4] \in Nat
         /\ c.slots[1] = 0
         /\ c.slots[1] + c.reserved < c.slots[2]
         /\ c.slots[2] + c.reserved < c.slots[3]
         /\ c.slots[3] + c.reserved < c.slots[4]
         /\ c.slots[4] + c.reserved <= c.size
<1>1. /\ c.slots[1] + c.reserved < c.slots[1 + 1]
      /\ c.slots[2] + c.reserved < c.slots[2 + 1]
      /\ c.slots[3] + c.reserved < c.slots[3 + 1]
  BY DEF SlotsApart
<1>2. c.slots \in [Slots -> Nat] /\ c.size \in Nat /\ c.reserved \in Nat
  BY DEF LayoutType
<1>3. /\ c.slots[1] \in Nat /\ c.slots[2] \in Nat
      /\ c.slots[3] \in Nat /\ c.slots[4] \in Nat
  BY <1>2 DEF Slots, SLOT_COUNT
<1> QED
  BY <1>1, <1>2, <1>3 DEF SlotsApart, SlotsInOrder

\* add() counts the cells of a slot as taken wherever the position lies in it,
\* so moving to the end of that slot leaves the free cells as they were.
LEMMA FreeAcrossSlot ==
  ASSUME NEW c \in LayoutType, SlotsApart(c), NEW pos \in Nat, NEW i \in Slots,
         c.slots[i] <= pos, pos < c.slots[i] + c.reserved
  PROVE  freeCapacity(c, c.slots[i] + c.reserved) = freeCapacity(c, pos)
<1> DEFINE end == c.slots[i] + c.reserved
<1>1. i = 1 \/ i = 2 \/ i = 3 \/ i = 4
  BY DEF Slots, SLOT_COUNT
<1>2. ASSUME NEW j \in Slots, j # i
      PROVE  /\ ReservedFrom(c, j, end) = ReservedFrom(c, j, pos)
             /\ ReservedFrom(c, j, pos) \in Nat
  <2>1. j = 1 \/ j = 2 \/ j = 3 \/ j = 4
    BY DEF Slots, SLOT_COUNT
  <2>2. c.slots[j] + c.reserved <= pos \/ end <= c.slots[j]
    BY <1>1, <1>2, <2>1, ApartMeans
  <2>3. c.slots[j] \in Nat /\ c.slots[i] \in Nat /\ c.reserved \in Nat /\ c.size \in Nat
    BY DEF LayoutType
  <2> QED
    BY <2>2, <2>3 DEF ReservedFrom, LesserOf, GreaterOf
<1>3. ReservedFrom(c, i, end) = 0 /\ ReservedFrom(c, i, pos) = end - pos
  <2>1. end <= c.size
    BY <1>1, ApartMeans
  <2>2. c.slots[i] \in Nat /\ c.reserved \in Nat /\ c.size \in Nat
    BY DEF LayoutType
  <2> QED
    BY <2>1, <2>2 DEF ReservedFrom, LesserOf, GreaterOf
<1>4. c.size \in Nat /\ end \in Nat
  BY DEF LayoutType
<1>5. 1 \in Slots /\ 2 \in Slots /\ 3 \in Slots /\ 4 \in Slots
  BY DEF Slots, SLOT_COUNT
<1> HIDE DEF end
<1>6. freeCapacity(c, end) = freeCapacity(c, pos)
  <2>1. CASE i = 1
    BY <2>1, <1>2, <1>3, <1>4, <1>5 DEF freeCapacity
  <2>2. CASE i = 2
    BY <2>2, <1>2, <1>3, <1>4, <1>5 DEF freeCapacity
  <2>3. CASE i = 3
    BY <2>3, <1>2, <1>3, <1>4, <1>5 DEF freeCapacity
  <2>4. CASE i = 4
    BY <2>4, <1>2, <1>3, <1>4, <1>5 DEF freeCapacity
  <2> QED BY <1>1, <2>1, <2>2, <2>3, <2>4
<1> QED
  BY <1>6 DEF end

\* skipSlots moves forward to a data cell, stays in the container, and loses
\* no free cell on the way.
LEMMA SkipLandsOnData ==
  ASSUME NEW c \in LayoutType, SlotsApart(c), NEW pos \in Nat
  PROVE  /\ skipSlots(c, pos) \in Nat
         /\ skipSlots(c, pos) >= pos
         /\ SlotsAt(c, skipSlots(c, pos)) = {}
         /\ freeCapacity(c, skipSlots(c, pos)) = freeCapacity(c, pos)
         /\ pos <= c.size => skipSlots(c, pos) <= c.size
<1>1. CASE SlotsAt(c, pos) = {}
  BY <1>1 DEF skipSlots
<1>2. CASE SlotsAt(c, pos) # {}
  <2>1. PICK i \in Slots : i = FirstOf(SlotsAt(c, pos)) /\ i \in SlotsAt(c, pos)
    BY <1>2, FirstOfIsFirst DEF SlotsAt
  <2>2. c.slots[i] <= pos /\ pos < c.slots[i] + c.reserved
    BY <2>1 DEF SlotsAt
  <2>3. skipSlots(c, pos) = c.slots[i] + c.reserved
    BY <1>2, <2>1 DEF skipSlots
  <2>4. i = 1 \/ i = 2 \/ i = 3 \/ i = 4
    BY DEF Slots, SLOT_COUNT
  <2>5. c.slots[i] + c.reserved \in Nat /\ c.slots[i] + c.reserved <= c.size
    BY <2>4, ApartMeans
  <2>6. \A j \in Slots : ~ (/\ c.slots[j] <= c.slots[i] + c.reserved
                           /\ c.slots[i] + c.reserved < c.slots[j] + c.reserved)
    BY <2>4, ApartMeans DEF Slots, SLOT_COUNT
  <2>7. SlotsAt(c, c.slots[i] + c.reserved) = {}
    BY <2>6 DEF SlotsAt
  <2>8. c.slots[i] + c.reserved >= pos
    BY <2>2, <2>5, <2>4, ApartMeans
  <2> QED
    BY <2>2, <2>3, <2>5, <2>7, <2>8, FreeAcrossSlot
<1> QED
  BY <1>1, <1>2

\* From a data cell, bytesUntilNextSlot gives at least one byte, never more
\* than asked for, and a range no slot reaches into; the free cells shrink by
\* exactly that range.
LEMMA SegmentFitsGap ==
  ASSUME NEW c \in LayoutType, SlotsApart(c), NEW cur \in Nat, SlotsAt(c, cur) = {},
         NEW remaining \in Nat \ {0}
  PROVE  /\ bytesUntilNextSlot(c, cur, remaining) \in 1 .. remaining
         /\ \A i \in Slots :
              \/ c.slots[i] + c.reserved <= cur
              \/ cur + bytesUntilNextSlot(c, cur, remaining) <= c.slots[i]
         /\ freeCapacity(c, cur + bytesUntilNextSlot(c, cur, remaining))
              = freeCapacity(c, cur) - bytesUntilNextSlot(c, cur, remaining)
         /\ freeCapacity(c, cur) <= c.size - cur
<1>1. \A i \in Slots : c.slots[i] + c.reserved <= cur \/ cur < c.slots[i]
  <2> TAKE i \in Slots
  <2>1. c.slots[i] \in Nat /\ c.reserved \in Nat
    BY DEF LayoutType
  <2> QED BY <2>1 DEF SlotsAt
<1>2. PICK n \in 1 .. remaining :
        /\ n = bytesUntilNextSlot(c, cur, remaining)
        /\ \A i \in Slots : cur < c.slots[i] => cur + n <= c.slots[i]
  <2>1. CASE SlotsAfter(c, cur) = {}
    <3>1. bytesUntilNextSlot(c, cur, remaining) = remaining
      BY <2>1 DEF bytesUntilNextSlot
    <3> QED BY <2>1, <3>1 DEF SlotsAfter
  <2>2. CASE SlotsAfter(c, cur) # {}
    <3>1. PICK f \in Slots : /\ f = FirstOf(SlotsAfter(c, cur))
                             /\ f \in SlotsAfter(c, cur)
                             /\ \A j \in SlotsAfter(c, cur) : f <= j
      BY <2>2, FirstOfIsFirst DEF SlotsAfter
    <3>2. bytesUntilNextSlot(c, cur, remaining) = LesserOf(remaining, c.slots[f] - cur)
      BY <2>2, <3>1 DEF bytesUntilNextSlot
    <3>3. cur < c.slots[f] /\ c.slots[f] \in Nat
      BY <3>1 DEF SlotsAfter, LayoutType
    <3>4. LesserOf(remaining, c.slots[f] - cur) \in 1 .. remaining
      BY <3>3 DEF LesserOf
    <3>5. cur + LesserOf(remaining, c.slots[f] - cur) <= c.slots[f]
      BY <3>3 DEF LesserOf
    <3>6. \A j \in Slots : cur < c.slots[j] => c.slots[f] <= c.slots[j]
      <4> SUFFICES ASSUME NEW j \in Slots, cur < c.slots[j]
                   PROVE  c.slots[f] <= c.slots[j]
        OBVIOUS
      <4>1. f <= j
        BY <3>1 DEF SlotsAfter
      <4>2. (f = 1 \/ f = 2 \/ f = 3 \/ f = 4) /\ (j = 1 \/ j = 2 \/ j = 3 \/ j = 4)
        BY DEF Slots, SLOT_COUNT
      <4> QED BY <4>1, <4>2, ApartMeans
    <3>7. \A j \in Slots : cur < c.slots[j]
                          => cur + LesserOf(remaining, c.slots[f] - cur) <= c.slots[j]
      <4> SUFFICES ASSUME NEW j \in Slots, cur < c.slots[j]
                   PROVE  cur + LesserOf(remaining, c.slots[f] - cur) <= c.slots[j]
        OBVIOUS
      <4>1. c.slots[j] \in Nat
        BY DEF LayoutType
      <4> QED BY <4>1, <3>3, <3>4, <3>5, <3>6
    <3> QED BY <3>2, <3>4, <3>7
  <2> QED BY <2>1, <2>2
<1>3. \A i \in Slots : c.slots[i] + c.reserved <= cur \/ cur + n <= c.slots[i]
  BY <1>1, <1>2
<1>4. /\ c.slots[1] + c.reserved <= cur \/ cur + n <= c.slots[1]
      /\ c.slots[2] + c.reserved <= cur \/ cur + n <= c.slots[2]
      /\ c.slots[3] + c.reserved <= cur \/ cur + n <= c.slots[3]
      /\ c.slots[4] + c.reserved <= cur \/ cur + n <= c.slots[4]
  BY <1>3 DEF Slots, SLOT_COUNT
<1>5. \A i \in Slots : ReservedFrom(c, i, cur + n) = ReservedFrom(c, i, cur)
                        /\ ReservedFrom(c, i, cur) \in Nat
  <2> TAKE i \in Slots
  <2>1. c.slots[i] \in Nat /\ c.reserved \in Nat /\ c.size \in Nat
    BY DEF LayoutType
  <2>2. c.slots[i] + c.reserved <= cur \/ cur + n <= c.slots[i]
    BY <1>3
  <2> QED BY <2>1, <2>2 DEF ReservedFrom, LesserOf, GreaterOf
<1>6. 1 \in Slots /\ 2 \in Slots /\ 3 \in Slots /\ 4 \in Slots /\ c.size \in Nat
  BY DEF Slots, SLOT_COUNT, LayoutType
<1>7. /\ freeCapacity(c, cur + n) = freeCapacity(c, cur) - n
      /\ freeCapacity(c, cur) <= c.size - cur
  BY <1>5, <1>6 DEF freeCapacity
<1> QED
  BY <1>2, <1>3, <1>7

-----------------------------------------------------------------------------
(***************************************************************************)
(* The data area of the containers whose slots lie apart.                  *)
(***************************************************************************)

\* The containers in question; RoomyContainerHasSlotsApart says which sizes
\* are enough.
ContainersApart ==
  \A k \in Containers : SlotsApart(Layout(k.size, k.max_table_size))

-----------------------------------------------------------------------------
(***************************************************************************)
(* Cutting a chunk off a file leaves the rest of its encrypted size.       *)
(***************************************************************************)

\* Division after one block is taken off.
LEMMA DivOneBlock ==
  ASSUME NEW p \in Nat, NEW b \in Nat \ {0}, p >= b
  PROVE  /\ p \div b = ((p - b) \div b) + 1
         /\ p % b = (p - b) % b
<1> DEFINE q == p \div b
           r == p % b
           u == (p - b) \div b
           v == (p - b) % b
<1>1. /\ q \in Int /\ u \in Int
      /\ r \in 0 .. (b - 1) /\ v \in 0 .. (b - 1)
      /\ p = b * q + r /\ p - b = b * u + v
  <2>1. p - b \in Nat
    OBVIOUS
  <2>2. \A x \in Nat : /\ x \div b \in Int /\ x % b \in 0 .. (b - 1)
                       /\ x = b * (x \div b) + (x % b)
    OBVIOUS
  <2> QED BY <2>1, <2>2
<1> HIDE DEF q, r, u, v
<1>2. PICK d \in Int : d = q - u
  BY <1>1
<1>3. b * d = b * q - b * u
  BY <1>1, <1>2
<1>4. b * d = b + v - r
  BY <1>1, <1>3
<1>5. d = 1
  <2>1. ~ (d <= 0)
    <3> SUFFICES ASSUME d <= 0 PROVE FALSE
      OBVIOUS
    <3>1. b * d <= 0
      BY <1>2
    <3> QED BY <3>1, <1>1, <1>4
  <2>2. ~ (d >= 2)
    <3> SUFFICES ASSUME d >= 2 PROVE FALSE
      OBVIOUS
    <3>1. b * d >= b * 2
      BY <1>2
    <3> QED BY <3>1, <1>1, <1>4
  <2> QED BY <2>1, <2>2, <1>2
<1>6. q = u + 1 /\ r = v
  BY <1>1, <1>2, <1>4, <1>5
<1> QED
  BY <1>6 DEF q, r, u, v

\* encryptedSizeCalc counts what the pipeline writes chunk by chunk.
LEMMA ChunkCutsEncryptedSize ==
  ASSUME NEW p \in Nat
  PROVE  /\ ChunkOf(p) \in Nat
         /\ p - LesserOf(p, BLOCK_SIZE) \in Nat
         /\ encryptedSizeCalc(p) \in Nat
         /\ ChunkOf(p) + encryptedSizeCalc(p - LesserOf(p, BLOCK_SIZE)) = encryptedSizeCalc(p)
<1>1. BLOCK_SIZE \in Nat \ {0} /\ OVERHEAD \in Nat
  BY SizesAssumption
<1>2. \A x \in Nat : x \div BLOCK_SIZE \in Nat /\ x % BLOCK_SIZE \in Nat
  <2> TAKE x \in Nat
  <2>1. x \div BLOCK_SIZE \in Nat
    BY <1>1, RoundDown
  <2> QED BY <1>1, <2>1
<1>3. \A x \in Nat : encryptedSizeCalc(x) \in Nat
  <2> TAKE x \in Nat
  <2>1. PICK q \in Nat, r \in Nat : q = x \div BLOCK_SIZE /\ r = x % BLOCK_SIZE
    BY <1>2
  <2>2. q * (BLOCK_SIZE + OVERHEAD) \in Nat
    BY <1>1
  <2>3. encryptedSizeCalc(x)
          = q * (BLOCK_SIZE + OVERHEAD) + (IF r > 0 THEN r + OVERHEAD ELSE 0)
    BY <2>1 DEF encryptedSizeCalc
  <2> QED
    BY <1>1, <2>2, <2>3
<1>4. \A x \in Nat : x < BLOCK_SIZE => x \div BLOCK_SIZE = 0 /\ x % BLOCK_SIZE = x
  BY <1>1
<1>5. CASE p >= BLOCK_SIZE
  <2>1. LesserOf(p, BLOCK_SIZE) = BLOCK_SIZE /\ ChunkOf(p) = BLOCK_SIZE + OVERHEAD
    BY <1>1, <1>5 DEF LesserOf, ChunkOf
  <2>2. PICK u \in Nat : u = (p - BLOCK_SIZE) \div BLOCK_SIZE
    BY <1>1, <1>2, <1>5
  <2>3. p \div BLOCK_SIZE = u + 1 /\ p % BLOCK_SIZE = (p - BLOCK_SIZE) % BLOCK_SIZE
    BY <1>1, <1>5, <2>2, DivOneBlock
  <2>4. (u + 1) * (BLOCK_SIZE + OVERHEAD) = u * (BLOCK_SIZE + OVERHEAD) + (BLOCK_SIZE + OVERHEAD)
    BY <1>1
  <2>5. p % BLOCK_SIZE \in Nat /\ u * (BLOCK_SIZE + OVERHEAD) \in Nat
    BY <1>1, <1>2
  <2>6. encryptedSizeCalc(p)
          = encryptedSizeCalc(p - BLOCK_SIZE) + (BLOCK_SIZE + OVERHEAD)
    BY <1>1, <2>2, <2>3, <2>4, <2>5 DEF encryptedSizeCalc
  <2> QED
    BY <1>1, <1>3, <1>5, <2>1, <2>6
<1>6. CASE p < BLOCK_SIZE /\ p > 0
  <2>1. LesserOf(p, BLOCK_SIZE) = p /\ ChunkOf(p) = p + OVERHEAD
    BY <1>1, <1>6 DEF LesserOf, ChunkOf
  <2>2. 0 \div BLOCK_SIZE = 0 /\ 0 % BLOCK_SIZE = 0
    BY <1>1
  <2>3. 0 * (BLOCK_SIZE + OVERHEAD) = 0
    BY <1>1
  <2>4. encryptedSizeCalc(0) = 0
    BY <2>2, <2>3 DEF encryptedSizeCalc
  <2>5. p \div BLOCK_SIZE = 0 /\ p % BLOCK_SIZE = p
    BY <1>4, <1>6
  <2>6. encryptedSizeCalc(p) = 0 * (BLOCK_SIZE + OVERHEAD) + (p + OVERHEAD)
    BY <1>6, <2>5, Zenon DEF encryptedSizeCalc
  <2>7. encryptedSizeCalc(p) = p + OVERHEAD
    BY <1>1, <2>3, <2>6
  <2> QED BY <1>1, <1>6, <2>1, <2>4, <2>7
<1>7. CASE p = 0
  BY <1>1, <1>3, <1>4, <1>7 DEF LesserOf, ChunkOf, encryptedSizeCalc
<1> QED
  BY <1>1, <1>5, <1>6, <1>7

-----------------------------------------------------------------------------
(***************************************************************************)
(* The capacity checks.                                                    *)
(***************************************************************************)

\* write() compares with the free cells after slot 0.
LEMMA AvailableIsFreeAfterSlotZero ==
  ASSUME NEW c \in LayoutType, SlotsApart(c)
  PROVE  computeAvailableDataCapacity(c) = freeCapacity(c, c.reserved)
<1>1. /\ ReservedFrom(c, 1, c.reserved) = 0
      /\ ReservedFrom(c, 2, c.reserved) = c.reserved
      /\ ReservedFrom(c, 3, c.reserved) = c.reserved
      /\ ReservedFrom(c, 4, c.reserved) = c.reserved
  BY ApartMeans DEF ReservedFrom, LesserOf, GreaterOf
<1> QED
  BY <1>1, ApartMeans DEF computeAvailableDataCapacity, freeCapacity, SLOT_COUNT

\* A layout made by Layout is one.
LEMMA LayoutHasType ==
  ASSUME NEW size \in Nat, NEW max_table_size \in Nat
  PROVE  Layout(size, max_table_size) \in LayoutType
<1>1. slotReserved(max_table_size) \in Nat
  BY SizesAssumption DEF slotReserved
<1> QED
  BY <1>1, SlotOffsetsAre DEF Layout, LayoutType

-----------------------------------------------------------------------------
(***************************************************************************)
(* PlacementInv is inductive.                                              *)
(***************************************************************************)
LEMMA PlacementInit ==
  ASSUME ContainersApart, Init
  PROVE  PlacementInv
<1>1. PICK k \in Containers : container = Layout(k.size, k.max_table_size)
  BY DEF Init
<1>2. k.size \in Nat /\ k.max_table_size \in Nat
  BY InputsAssumption
<1>3. container \in LayoutType /\ SlotsApart(container)
  BY <1>1, <1>2, LayoutHasType DEF ContainersApart
<1>4. TypeOK
  BY <1>3 DEF Init, TypeOK, LayoutType
<1> QED
  BY <1>3, <1>4 DEF Init, PlacementInv, SegmentOwners, DataBelowCursor, DemandFits,
     NothingPending, SlotsUntouched, SegmentsDisjoint, InsideContainer

\* Create and Add: the check establishes DemandFits at the position the
\* pipeline starts from.
LEMMA BeginKeepsPlacement ==
  ASSUME PlacementInv, NEW required \in Totals, Create(required) \/ Add(required)
  PROVE  PlacementInv'
<1>1. TypeOK /\ container \in LayoutType /\ SlotsApart(container) /\ required \in Nat
  BY InputsAssumption DEF PlacementInv, TypeOK, LayoutType
<1>2. container.reserved \in Nat /\ next_write_offset \in Nat
  BY <1>1 DEF TypeOK, LayoutType
<1>3. /\ cursor' \in Nat /\ next_write_offset <= cursor'
      /\ required <= freeCapacity(container, cursor')
  <2>1. CASE Create(required)
    <3>1. next_write_offset <= container.reserved
      <4>1. next_write_offset = 0
        BY <2>1 DEF Create, PlacementInv, NothingPending
      <4> QED BY <1>2, <4>1
    <3>2. required <= freeCapacity(container, container.reserved)
      BY <1>1, <2>1, AvailableIsFreeAfterSlotZero DEF Create
    <3>3. cursor' = skipSlots(container, container.reserved)
      BY <2>1 DEF Create
    <3> QED
      BY <1>1, <1>2, <3>1, <3>2, <3>3, SkipLandsOnData
  <2>2. CASE Add(required)
    BY <1>1, <1>2, <2>2, SkipLandsOnData DEF Add
  <2> QED BY <2>1, <2>2
<1>4. chunkLeft = 0 /\ plainLeft = 0
  BY DEF PlacementInv, NothingPending, Create, Add
<1>5. encryptedSizeCalc(0) = 0
  <2>1. 0 \div BLOCK_SIZE = 0 /\ 0 % BLOCK_SIZE = 0
    BY SizesAssumption
  <2> QED BY <2>1, SizesAssumption DEF encryptedSizeCalc
<1>6. /\ pc' = "files" /\ demand' = required
      /\ UNCHANGED <<container, book, plainSize, plainLeft, chunkLeft, streamed, fileStart,
                     current, written, readBack>>
      /\ pc \in {"new", "idle"}
  BY DEF Create, Add
<1>7. TypeOK'
  BY <1>1, <1>3, <1>6 DEF TypeOK, book
<1>8. SegmentOwners'
  BY <1>6 DEF PlacementInv, SegmentOwners, book
<1>9. DataBelowCursor'
  <2>1. \A s \in written : s.pos + s.len <= next_write_offset
    BY <1>6 DEF PlacementInv, SegmentOwners, DataBelowCursor
  <2>2. \A s \in written : s.pos \in Nat /\ s.len \in Nat
    BY <1>1 DEF TypeOK
  <2> QED
    BY <1>2, <1>3, <1>6, <2>1, <2>2 DEF DataBelowCursor, book
<1>10. DemandFits'
  <2>1. required + 0 + encryptedSizeCalc(0) = required
    BY <1>1, <1>5
  <2> QED BY <1>3, <1>4, <1>6, <2>1 DEF DemandFits
<1>11. NothingPending'
  BY <1>4, <1>6 DEF NothingPending
<1> QED
  BY <1>6, <1>7, <1>8, <1>9, <1>10, <1>11
     DEF PlacementInv, SlotsUntouched, SegmentsDisjoint, InsideContainer

\* StartFile: the demand pays for the file, its first chunk is cut off.
LEMMA StartFileKeepsPlacement ==
  ASSUME PlacementInv, NEW plain \in PlainSizes, StartFile(plain)
  PROVE  PlacementInv'
<1>1. TypeOK /\ container \in LayoutType /\ SlotsApart(container) /\ plain \in Nat
  BY InputsAssumption DEF PlacementInv, TypeOK, LayoutType
<1>2. /\ cursor \in Nat /\ cursor' \in Nat /\ cursor <= cursor'
      /\ freeCapacity(container, cursor') = freeCapacity(container, cursor)
  BY <1>1, SkipLandsOnData DEF StartFile, TypeOK
<1>3. /\ ChunkOf(plain) \in Nat
      /\ plain - LesserOf(plain, BLOCK_SIZE) \in Nat
      /\ encryptedSizeCalc(plain) \in Nat
      /\ encryptedSizeCalc(plain - LesserOf(plain, BLOCK_SIZE)) \in Nat
      /\ ChunkOf(plain) + encryptedSizeCalc(plain - LesserOf(plain, BLOCK_SIZE))
           = encryptedSizeCalc(plain)
  BY <1>1, ChunkCutsEncryptedSize
<1>4. TypeOK'
  BY <1>1, <1>2, <1>3 DEF StartFile, TypeOK, book
<1>5. SegmentOwners'
  <2>1. \A s \in written : s.file <= file_count
    BY DEF PlacementInv, SegmentOwners, StartFile
  <2>2. \A s \in written : s.file \in Nat
    BY <1>1 DEF TypeOK
  <2>3. file_count \in Nat
    BY <1>1 DEF TypeOK
  <2> QED BY <2>1, <2>2, <2>3 DEF SegmentOwners, StartFile, book
<1>6. DataBelowCursor'
  <2>1. \A s \in written : s.pos \in Nat /\ s.len \in Nat
    BY <1>1 DEF TypeOK
  <2>2. next_write_offset \in Nat
    BY <1>1 DEF TypeOK
  <2>3. next_write_offset <= cursor /\ \A s \in written : s.pos + s.len <= cursor
    BY DEF PlacementInv, DataBelowCursor, StartFile
  <2>4. \A s \in written : s.pos + s.len <= cursor'
    BY <1>2, <2>1, <2>3
  <2> QED
    BY <1>2, <2>2, <2>3, <2>4 DEF PlacementInv, DataBelowCursor, StartFile, book
<1>7. DemandFits'
  <2>1. demand \in Nat /\ demand' = demand - encryptedSizeCalc(plain)
    BY <1>1 DEF StartFile, TypeOK
  <2>2. demand <= freeCapacity(container, cursor)
    <3>1. chunkLeft = 0 /\ plainLeft = 0 /\ pc = "files"
      BY DEF PlacementInv, NothingPending, StartFile
    <3>2. demand + 0 + encryptedSizeCalc(0) <= freeCapacity(container, cursor)
      BY <3>1 DEF PlacementInv, DemandFits
    <3>3. encryptedSizeCalc(0) = 0
      <4>1. 0 \div BLOCK_SIZE = 0 /\ 0 % BLOCK_SIZE = 0
        BY SizesAssumption
      <4> QED BY <4>1, SizesAssumption DEF encryptedSizeCalc
    <3> QED BY <2>1, <3>2, <3>3
  <2>3. demand' + ChunkOf(plain) + encryptedSizeCalc(plain - LesserOf(plain, BLOCK_SIZE)) = demand
    BY <1>3, <2>1
  <2> QED
    BY <1>2, <2>2, <2>3 DEF DemandFits, StartFile
<1>8. NothingPending'
  BY DEF NothingPending, StartFile
<1> QED
  BY <1>4, <1>5, <1>6, <1>7, <1>8
     DEF StartFile, PlacementInv, SlotsUntouched, SegmentsDisjoint, InsideContainer

\* WriteSegment: the heart of the argument.  The segment begins on a data cell
\* at or above the cursor, ends before the next slot, and is paid for.
LEMMA WriteSegmentKeepsPlacement ==
  ASSUME PlacementInv, WriteSegment
  PROVE  PlacementInv'
<1>1. TypeOK /\ container \in LayoutType /\ SlotsApart(container)
  BY DEF PlacementInv, TypeOK, LayoutType
<1>2. chunkLeft \in Nat \ {0} /\ cursor \in Nat /\ demand \in Nat /\ plainLeft \in Nat
      /\ streamed \in Nat /\ file_count \in Nat /\ pc = "write"
  BY <1>1 DEF TypeOK, WriteSegment
<1>3. PICK pos \in Nat :
        /\ pos = skipSlots(container, cursor)
        /\ cursor <= pos
        /\ SlotsAt(container, pos) = {}
        /\ freeCapacity(container, pos) = freeCapacity(container, cursor)
  BY <1>1, <1>2, SkipLandsOnData
<1>4. PICK len \in 1 .. chunkLeft :
        /\ len = bytesUntilNextSlot(container, pos, chunkLeft)
        /\ \A i \in Slots : \/ container.slots[i] + container.reserved <= pos
                            \/ pos + len <= container.slots[i]
        /\ freeCapacity(container, pos + len) = freeCapacity(container, pos) - len
        /\ freeCapacity(container, pos) <= container.size - pos
  BY <1>1, <1>2, <1>3, SegmentFitsGap
<1> DEFINE seg == Segment(file_count + 1, streamed, pos, len)
<1>5. /\ seg.file = file_count + 1 /\ seg.pos = pos /\ seg.len = len
      /\ seg \in [file : Nat, at : Nat, pos : Nat, len : Nat \ {0}]
  BY <1>2 DEF Segment
<1>50. seg = Segment(file_count + 1, streamed, pos, len)
  OBVIOUS
<1> HIDE DEF seg
<1>6. /\ written' = written \cup {seg}
      /\ cursor' = pos + len
      /\ chunkLeft' = chunkLeft - len
      /\ streamed' = streamed + len
      /\ UNCHANGED <<container, pc, book, demand, plainSize, plainLeft, fileStart, current,
                     readBack>>
  BY <1>3, <1>4, <1>50 DEF WriteSegment
<1>7. \A s \in written : s.file \in Nat /\ s.pos \in Nat /\ s.len \in Nat /\ s.pos + s.len <= cursor
  BY <1>1, <1>2 DEF TypeOK, PlacementInv, DataBelowCursor
<1>8. TypeOK'
  BY <1>1, <1>2, <1>4, <1>5, <1>6 DEF TypeOK, book
<1>9. SegmentOwners'
  BY <1>2, <1>5, <1>6 DEF PlacementInv, SegmentOwners, book
<1>10. DataBelowCursor'
  <2>1. persisted \in Nat /\ persisted <= file_count /\ next_write_offset \in Nat
    BY <1>1 DEF TypeOK
  <2>2. \A s \in written' : s.file <= persisted => s.pos + s.len <= next_write_offset
    BY <1>2, <1>5, <1>6, <2>1 DEF PlacementInv, DataBelowCursor
  <2>3. next_write_offset <= cursor'
    BY <1>2, <1>3, <1>4, <1>6, <2>1 DEF PlacementInv, DataBelowCursor
  <2>4. \A s \in written' : s.pos + s.len <= cursor'
    BY <1>2, <1>3, <1>4, <1>5, <1>6, <1>7
  <2> QED
    BY <1>6, <2>2, <2>3, <2>4 DEF DataBelowCursor, book
<1>11. /\ container.size \in Nat
       /\ demand + chunkLeft + encryptedSizeCalc(plainLeft) <= freeCapacity(container, pos)
       /\ encryptedSizeCalc(plainLeft) \in Nat
  BY <1>1, <1>2, <1>3, ChunkCutsEncryptedSize DEF PlacementInv, DemandFits, LayoutType
<1>12. freeCapacity(container, pos) \in Int
  <2>1. \A i \in Slots : ReservedFrom(container, i, pos) \in Int
    <3> TAKE i \in Slots
    <3>1. container.slots[i] \in Nat /\ container.reserved \in Nat /\ container.size \in Nat
      BY <1>1 DEF LayoutType
    <3> QED BY <3>1 DEF ReservedFrom, LesserOf, GreaterOf
  <2>2. 1 \in Slots /\ 2 \in Slots /\ 3 \in Slots /\ 4 \in Slots
    BY DEF Slots, SLOT_COUNT
  <2> QED BY <1>11, <2>1, <2>2 DEF freeCapacity
<1>13. DemandFits'
  <2>1. demand + (chunkLeft - len) + encryptedSizeCalc(plainLeft)
          <= freeCapacity(container, pos + len)
    BY <1>2, <1>4, <1>11, <1>12
  <2> QED BY <1>6, <2>1 DEF DemandFits
<1>14. NothingPending'
  BY <1>2, <1>6 DEF NothingPending
<1>15. SlotsUntouched'
  <2>1. \A i \in Slots : container.slots[i] \in Nat /\ container.reserved \in Nat
    BY <1>1 DEF LayoutType
  <2>2. \A i \in Slots :
          ~ Overlap(pos, len, container.slots[i], container.reserved)
    BY <1>4, <2>1 DEF Overlap
  <2> QED
    BY <1>5, <1>6, <2>2 DEF PlacementInv, SlotsUntouched
<1>16. SegmentsDisjoint'
  <2>1. \A s \in written : ~ Overlap(s.pos, s.len, pos, len) /\ ~ Overlap(pos, len, s.pos, s.len)
    BY <1>2, <1>3, <1>4, <1>7 DEF Overlap
  <2> QED
    BY <1>5, <1>6, <2>1 DEF PlacementInv, SegmentsDisjoint
<1>17. InsideContainer'
  <2>1. pos + len <= container.size
    BY <1>2, <1>4, <1>11, <1>12
  <2> QED
    BY <1>5, <1>6, <2>1 DEF PlacementInv, InsideContainer
<1> QED
  BY <1>1, <1>6, <1>8, <1>9, <1>10, <1>13, <1>14, <1>15, <1>16, <1>17 DEF PlacementInv

\* NextChunk moves plain text from plainLeft to chunkLeft, tag and nonce added.
LEMMA NextChunkKeepsPlacement ==
  ASSUME PlacementInv, NextChunk
  PROVE  PlacementInv'
<1>1. TypeOK /\ plainLeft \in Nat /\ chunkLeft = 0 /\ pc = "write" /\ demand \in Nat
  BY DEF PlacementInv, TypeOK, NextChunk
<1>2. /\ ChunkOf(plainLeft) \in Nat
      /\ plainLeft - LesserOf(plainLeft, BLOCK_SIZE) \in Nat
      /\ encryptedSizeCalc(plainLeft - LesserOf(plainLeft, BLOCK_SIZE)) \in Nat
      /\ encryptedSizeCalc(plainLeft) \in Nat
      /\ ChunkOf(plainLeft) + encryptedSizeCalc(plainLeft - LesserOf(plainLeft, BLOCK_SIZE))
           = encryptedSizeCalc(plainLeft)
  BY <1>1, ChunkCutsEncryptedSize
<1>3. TypeOK'
  BY <1>1, <1>2 DEF NextChunk, TypeOK, book
<1>4. DemandFits'
  <2>1. demand + ChunkOf(plainLeft)
          + encryptedSizeCalc(plainLeft - LesserOf(plainLeft, BLOCK_SIZE))
          = demand + chunkLeft + encryptedSizeCalc(plainLeft)
    BY <1>1, <1>2
  <2> QED BY <1>1, <2>1 DEF PlacementInv, DemandFits, NextChunk
<1> QED
  BY <1>1, <1>3, <1>4
     DEF NextChunk, book, PlacementInv, SegmentOwners, DataBelowCursor, NothingPending,
         SlotsUntouched, SegmentsDisjoint, InsideContainer

\* EndFile adds an entry for the segments already written.
LEMMA EndFileKeepsPlacement ==
  ASSUME PlacementInv, EndFile
  PROVE  PlacementInv'
<1>1. TypeOK /\ SegmentOwners /\ DataBelowCursor /\ DemandFits /\ NothingPending
  BY DEF PlacementInv
<1> DEFINE entry == [file |-> file_count + 1, size |-> plainSize, offset |-> fileStart]
<1>2. TypeOK'
  <2>1. entry \in [file : 1 .. file_count + 1, size : Nat, offset : Nat]
    BY <1>1 DEF TypeOK
  <2>2. \A e \in table : e \in [file : 1 .. file_count + 1, size : Nat, offset : Nat]
    <3> TAKE e \in table
    <3>1. e \in [file : 1 .. file_count, size : Nat, offset : Nat]
      BY <1>1 DEF TypeOK
    <3>2. e.file \in 1 .. file_count + 1
      BY <1>1, <3>1 DEF TypeOK
    <3> QED BY <3>1, <3>2
  <2> HIDE DEF entry
  <2>3. \A e \in table \cup {entry} : e \in [file : 1 .. file_count + 1, size : Nat, offset : Nat]
    BY <2>1, <2>2
  <2>4. table' = table \cup {entry} /\ file_count' = file_count + 1
    BY DEF EndFile, entry
  <2> QED BY <1>1, <2>3, <2>4 DEF EndFile, TypeOK, call
<1>3. SegmentOwners'
  BY <1>1 DEF EndFile, SegmentOwners
<1>4. DataBelowCursor' /\ DemandFits' /\ NothingPending'
  BY <1>1 DEF EndFile, DataBelowCursor, DemandFits, NothingPending, call
<1> QED
  BY <1>2, <1>3, <1>4
     DEF EndFile, PlacementInv, SlotsUntouched, SegmentsDisjoint, InsideContainer

\* EndCall persists the table and the position writing stopped at.
LEMMA EndCallKeepsPlacement ==
  ASSUME PlacementInv, EndCall
  PROVE  PlacementInv'
<1>1. TypeOK /\ SegmentOwners /\ DataBelowCursor /\ NothingPending
  BY DEF PlacementInv
<1>2. TypeOK'
  BY <1>1 DEF EndCall, TypeOK, call
<1>3. SegmentOwners' /\ DataBelowCursor' /\ NothingPending' /\ DemandFits'
  BY <1>1 DEF EndCall, SegmentOwners, DataBelowCursor, DemandFits, NothingPending, call
<1> QED
  BY <1>2, <1>3
     DEF EndCall, PlacementInv, SlotsUntouched, SegmentsDisjoint, InsideContainer

\* Abort forgets the segments of the failed call.
LEMMA AbortKeepsPlacement ==
  ASSUME PlacementInv, Abort
  PROVE  PlacementInv'
<1>1. TypeOK /\ SegmentOwners /\ DataBelowCursor /\ NothingPending
  BY DEF PlacementInv
<1>2. TypeOK'
  <2>1. \A e \in table' : e \in [file : 1 .. file_count', size : Nat, offset : Nat]
    <3> TAKE e \in table'
    <3>1. e \in table /\ e.file <= persisted /\ file_count' = persisted
      BY DEF Abort
    <3>2. e \in [file : 1 .. file_count, size : Nat, offset : Nat]
      BY <1>1, <3>1 DEF TypeOK
    <3>3. e.file \in 1 .. persisted
      BY <1>1, <3>1, <3>2 DEF TypeOK
    <3> QED BY <3>1, <3>2, <3>3
  <2>2. /\ \A s \in written' \cup readBack' : s \in written \cup readBack
        /\ pc' \in {"new", "idle", "files", "write", "read"}
    BY DEF Abort
  <2>3. \A s \in written' \cup readBack' : s \in [file : Nat, at : Nat, pos : Nat, len : Nat \ {0}]
    BY <1>1, <2>2 DEF TypeOK
  <2>4. persisted' \in 0 .. file_count' /\ file_count' \in Nat
    BY <1>1 DEF Abort, TypeOK
  <2>5. plainLeft' \in Nat /\ chunkLeft' \in Nat
    BY DEF Abort
  <2> QED BY <1>1, <2>1, <2>2, <2>3, <2>4, <2>5 DEF Abort, TypeOK
<1>3. SegmentOwners' /\ DataBelowCursor' /\ NothingPending' /\ DemandFits'
  BY <1>1 DEF Abort, SegmentOwners, DataBelowCursor, DemandFits, NothingPending
<1> QED
  BY <1>2, <1>3
     DEF Abort, PlacementInv, SlotsUntouched, SegmentsDisjoint, InsideContainer

\* The four steps of an extraction.
Reading ==
  (\E e \in table : Extract(e)) \/ ReadSegment \/ ReadNextChunk \/ EndExtract

\* Reading leaves the medium and the books alone; only its own bookkeeping
\* has to keep its type.
LEMMA ReadingKeepsType ==
  ASSUME PlacementInv, Reading
  PROVE  TypeOK'
<1>1. TypeOK /\ container \in LayoutType /\ SlotsApart(container)
  BY DEF PlacementInv, TypeOK, LayoutType
<1>2. ASSUME NEW e \in table, Extract(e)
      PROVE  TypeOK'
  <2>1. e.size \in Nat /\ e.offset \in Nat /\ e.file \in Nat
    BY <1>1 DEF TypeOK
  <2>2. ChunkOf(e.size) \in Nat /\ e.size - LesserOf(e.size, BLOCK_SIZE) \in Nat
    BY <2>1, ChunkCutsEncryptedSize
  <2>3. UNCHANGED <<container, next_write_offset, table, file_count, persisted, demand,
                    plainSize, fileStart, written>>
    BY <1>2 DEF Extract, book
  <2>4. /\ pc' = "read" /\ current' = e.file /\ cursor' = e.offset /\ streamed' = 0
        /\ readBack' = {} /\ chunkLeft' = ChunkOf(e.size)
        /\ plainLeft' = e.size - LesserOf(e.size, BLOCK_SIZE)
    BY <1>2 DEF Extract
  <2> QED BY <1>1, <2>1, <2>2, <2>3, <2>4 DEF TypeOK
<1>3. CASE ReadSegment
  <2>1. chunkLeft \in Nat \ {0} /\ cursor \in Nat /\ streamed \in Nat /\ current \in Nat
    BY <1>1, <1>3 DEF TypeOK, ReadSegment
  <2>2. PICK pos \in Nat : pos = skipSlots(container, cursor) /\ SlotsAt(container, pos) = {}
    BY <1>1, <2>1, SkipLandsOnData
  <2>3. PICK len \in 1 .. chunkLeft : len = bytesUntilNextSlot(container, pos, chunkLeft)
    BY <1>1, <2>1, <2>2, SegmentFitsGap
  <2>4. Segment(current, streamed, pos, len) \in [file : Nat, at : Nat, pos : Nat, len : Nat \ {0}]
    BY <2>1 DEF Segment
  <2>5. /\ readBack' = readBack \cup {Segment(current, streamed, pos, len)}
        /\ cursor' = pos + len
        /\ chunkLeft' = chunkLeft - len
        /\ streamed' = streamed + len
        /\ UNCHANGED <<container, pc, next_write_offset, table, file_count, persisted, demand,
                       plainSize, plainLeft, fileStart, current, written>>
    BY <1>3, <2>2, <2>3 DEF ReadSegment, book
  <2>6. \A s \in written' \cup readBack' : s \in [file : Nat, at : Nat, pos : Nat, len : Nat \ {0}]
    BY <1>1, <2>4, <2>5 DEF TypeOK
  <2>7. cursor' \in Nat /\ chunkLeft' \in Nat /\ streamed' \in Nat
    BY <2>1, <2>5
  <2> QED BY <1>1, <2>5, <2>6, <2>7 DEF TypeOK
<1>4. CASE ReadNextChunk
  <2>1. /\ ChunkOf(plainLeft) \in Nat
        /\ plainLeft - LesserOf(plainLeft, BLOCK_SIZE) \in Nat
    BY <1>1, ChunkCutsEncryptedSize DEF TypeOK
  <2> QED BY <1>1, <1>4, <2>1 DEF ReadNextChunk, TypeOK, book
<1>5. CASE EndExtract
  BY <1>1, <1>5 DEF EndExtract, TypeOK, book, call
<1> QED BY <1>2, <1>3, <1>4, <1>5 DEF Reading

LEMMA ReadingKeepsPlacement ==
  ASSUME PlacementInv, Reading
  PROVE  PlacementInv'
<1>1. TypeOK'
  BY ReadingKeepsType
<1>2. pc \in {"idle", "read"} /\ pc' \in {"idle", "read"}
  BY DEF Reading, Extract, ReadSegment, ReadNextChunk, EndExtract
<1>3. UNCHANGED <<container, next_write_offset, table, file_count, persisted, written>>
  BY DEF Reading, Extract, ReadSegment, ReadNextChunk, EndExtract, book, call
<1>4. NothingPending'
  <2>1. CASE pc' = "read"
    BY <1>2, <2>1 DEF NothingPending
  <2>2. CASE pc' = "idle"
    <3>1. EndExtract
      BY <2>2 DEF Reading, Extract, ReadSegment, ReadNextChunk, EndExtract
    <3> QED BY <2>2, <3>1 DEF EndExtract, NothingPending, call
  <2> QED BY <1>2, <2>1, <2>2
<1> QED
  BY <1>1, <1>2, <1>3, <1>4
     DEF PlacementInv, SegmentOwners, DataBelowCursor, DemandFits, SlotsUntouched,
         SegmentsDisjoint, InsideContainer

-----------------------------------------------------------------------------
LEMMA StepKeepsPlacement ==
  ASSUME PlacementInv, [Next]_vars
  PROVE  PlacementInv'
<1>1. ASSUME NEW required \in Totals, Create(required) \/ Add(required)
      PROVE  PlacementInv'
  BY <1>1, BeginKeepsPlacement
<1>2. ASSUME NEW plain \in PlainSizes, StartFile(plain)
      PROVE  PlacementInv'
  BY <1>2, StartFileKeepsPlacement
<1>3. CASE EndFile       BY <1>3, EndFileKeepsPlacement
<1>4. CASE WriteSegment  BY <1>4, WriteSegmentKeepsPlacement
<1>5. CASE NextChunk     BY <1>5, NextChunkKeepsPlacement
<1>6. CASE EndCall       BY <1>6, EndCallKeepsPlacement
<1>7. CASE Abort         BY <1>7, AbortKeepsPlacement
<1>8. CASE Reading       BY <1>8, ReadingKeepsPlacement
<1>9. CASE UNCHANGED vars
  BY <1>9
     DEF vars, call, book, PlacementInv, TypeOK, SegmentOwners, DataBelowCursor, DemandFits,
         NothingPending, SlotsUntouched, SegmentsDisjoint, InsideContainer
<1> QED
  BY <1>1, <1>2, <1>3, <1>4, <1>5, <1>6, <1>7, <1>8, <1>9 DEF Next, Reading

(***************************************************************************)
(* The placement invariant holds in every reachable state, whatever the    *)
(* sizes of header, block, table and container, the sizes and number of    *)
(* files and the number of add and extract calls, provided that slots of   *)
(* the containers create accepts do not touch.                             *)
(***************************************************************************)
THEOREM PlacementInvariant ==
  ASSUME ContainersApart
  PROVE  Spec => []PlacementInv
<1>1. Init => PlacementInv
  BY PlacementInit
<1>2. PlacementInv /\ [Next]_vars => PlacementInv'
  BY StepKeepsPlacement
<1> QED
  BY <1>1, <1>2, PTL DEF Spec

\* writeFragmented never touches a slot (FileManager.cpp, writeFragmented).
THEOREM NoSlotIsWritten ==
  ASSUME ContainersApart
  PROVE  Spec => []SlotsUntouched
<1>1. PlacementInv => SlotsUntouched
  BY DEF PlacementInv
<1> QED
  BY <1>1, PlacementInvariant, PTL

\* No byte of file data is written twice, over all create and add calls that
\* reach the table.
THEOREM NoDataIsOverwritten ==
  ASSUME ContainersApart
  PROVE  Spec => []SegmentsDisjoint
<1>1. PlacementInv => SegmentsDisjoint
  BY DEF PlacementInv
<1> QED
  BY <1>1, PlacementInvariant, PTL

\* The capacity checks of write() and add() keep the container at its size.
THEOREM ContainerNeverGrows ==
  ASSUME ContainersApart
  PROVE  Spec => []InsideContainer
<1>1. PlacementInv => InsideContainer
  BY DEF PlacementInv
<1> QED
  BY <1>1, PlacementInvariant, PTL

\* Every variable keeps its type; what is left of a chunk, a file or a call (size_t in the code)
\* never goes below zero.
THEOREM TypeCorrect ==
  ASSUME ContainersApart
  PROVE  Spec => []TypeOK
<1>1. PlacementInv => TypeOK
  BY DEF PlacementInv
<1> QED
  BY <1>1, PlacementInvariant, PTL

-----------------------------------------------------------------------------
(***************************************************************************)
(* The free cells, counted.                                                *)
(***************************************************************************)
SlotCells(c, i, from) ==
  GreaterOf(c.slots[i], from) .. LesserOf(c.slots[i] + c.reserved, c.size) - 1

LEMMA SlotCellsCounted ==
  ASSUME NEW c \in LayoutType, NEW i \in Slots, NEW from \in Nat
  PROVE  /\ IsFiniteSet(SlotCells(c, i, from))
         /\ Cardinality(SlotCells(c, i, from)) = ReservedFrom(c, i, from)
<1>1. c.slots[i] \in Nat /\ c.reserved \in Nat /\ c.size \in Nat
  BY DEF LayoutType
<1>2. PICK b \in Int, e \in Int :
        b = GreaterOf(c.slots[i], from) /\ e = LesserOf(c.slots[i] + c.reserved, c.size)
  BY <1>1 DEF GreaterOf, LesserOf
<1>3. /\ IsFiniteSet(b .. e - 1)
      /\ Cardinality(b .. e - 1) = IF b > e - 1 THEN 0 ELSE (e - 1) - b + 1
  BY e - 1 \in Int, FS_Interval, Zenon
<1>4. SlotCells(c, i, from) = b .. e - 1
  BY <1>2 DEF SlotCells
<1>5. ReservedFrom(c, i, from) = IF b < e THEN e - b ELSE 0
  BY <1>2 DEF ReservedFrom
<1> QED BY <1>2, <1>3, <1>4, <1>5

\* Sets that have nothing in common count for their sum.
LEMMA DisjointSum ==
  ASSUME NEW S, NEW T, IsFiniteSet(S), IsFiniteSet(T), S \cap T = {}
  PROVE  IsFiniteSet(S \cup T) /\ Cardinality(S \cup T) = Cardinality(S) + Cardinality(T)
<1>1. Cardinality(S \cap T) = 0
  BY FS_EmptySet
<1>2. Cardinality(S) \in Nat /\ Cardinality(T) \in Nat
  BY FS_CardinalityType
<1>3. /\ IsFiniteSet(S \cup T)
      /\ Cardinality(S \cup T) = Cardinality(S) + Cardinality(T) - Cardinality(S \cap T)
  BY FS_Union, Zenon
<1> QED BY <1>1, <1>2, <1>3

\* The cells of no slot among those from a position on are what add() counts.
LEMMA FreeCellsCounted ==
  ASSUME NEW c \in LayoutType, SlotsApart(c), NEW from \in Nat, from <= c.size
  PROVE  freeCapacity(c, from) = Cardinality({p \in from .. c.size - 1 : SlotsAt(c, p) = {}})
<1> DEFINE R(i) == SlotCells(c, i, from)
           F == {p \in from .. c.size - 1 : SlotsAt(c, p) = {}}
           T == R(1) \cup R(2) \cup R(3) \cup R(4)
<1>1. /\ c.size \in Nat /\ c.reserved \in Nat
      /\ \A i \in Slots : c.slots[i] \in Nat
      /\ Slots = {1, 2, 3, 4}
  BY DEF LayoutType, Slots, SLOT_COUNT
<1>2. \A i \in Slots, p \in Int :
        p \in R(i) <=> /\ from <= p /\ p < c.size
                       /\ c.slots[i] <= p /\ p < c.slots[i] + c.reserved
  BY <1>1 DEF SlotCells, GreaterOf, LesserOf
<1>3. \A i \in Slots : R(i) \subseteq Int
  BY <1>1 DEF SlotCells, GreaterOf, LesserOf
<1>4. \A i \in Slots : IsFiniteSet(R(i)) /\ Cardinality(R(i)) = ReservedFrom(c, i, from)
  BY SlotCellsCounted
<1>5. \A i, j \in Slots : i < j => R(i) \cap R(j) = {}
  <2> SUFFICES ASSUME NEW i \in Slots, NEW j \in Slots, i < j, NEW p \in R(i), p \in R(j)
               PROVE  FALSE
    OBVIOUS
  <2>1. p \in Int /\ p < c.slots[i] + c.reserved /\ c.slots[j] <= p
    BY <1>2, <1>3
  <2>2. c.slots[i] + c.reserved < c.slots[j]
    BY <1>1, ApartMeans
  <2> QED BY <1>1, <2>1, <2>2
<1>6. /\ T \subseteq from .. c.size - 1
      /\ F = (from .. c.size - 1) \ T
  <2>1. ASSUME NEW p \in from .. c.size - 1
        PROVE  SlotsAt(c, p) = {} <=> \A i \in Slots : p \notin R(i)
    BY <1>1, <1>2, <2>1 DEF SlotsAt
  <2>2. \A p : p \in T <=> \E i \in Slots : p \in R(i)
    BY <1>1
  <2>3. T \subseteq from .. c.size - 1
    <3> SUFFICES ASSUME NEW i \in Slots, NEW p \in R(i) PROVE p \in from .. c.size - 1
      BY <2>2
    <3> QED BY <1>1, <1>2, <1>3
  <2> QED BY <2>1, <2>2, <2>3
<1> HIDE DEF R
<1>7. /\ IsFiniteSet(T)
      /\ Cardinality(T) = ReservedFrom(c, 1, from) + ReservedFrom(c, 2, from)
                            + ReservedFrom(c, 3, from) + ReservedFrom(c, 4, from)
  <2>1. /\ R(1) \cap R(2) = {} /\ (R(1) \cup R(2)) \cap R(3) = {}
        /\ (R(1) \cup R(2) \cup R(3)) \cap R(4) = {}
    BY <1>1, <1>5
  <2>2. /\ IsFiniteSet(R(1) \cup R(2))
        /\ Cardinality(R(1) \cup R(2)) = Cardinality(R(1)) + Cardinality(R(2))
    BY <1>1, <1>4, <2>1, DisjointSum
  <2>3. /\ IsFiniteSet(R(1) \cup R(2) \cup R(3))
        /\ Cardinality(R(1) \cup R(2) \cup R(3)) = Cardinality(R(1) \cup R(2)) + Cardinality(R(3))
    BY <1>1, <1>4, <2>1, <2>2, DisjointSum
  <2>4. /\ IsFiniteSet(T)
        /\ Cardinality(T) = Cardinality(R(1) \cup R(2) \cup R(3)) + Cardinality(R(4))
    BY <1>1, <1>4, <2>1, <2>3, DisjointSum
  <2> QED BY <1>1, <1>4, <2>2, <2>3, <2>4
<1>8. IsFiniteSet(from .. c.size - 1) /\ Cardinality(from .. c.size - 1) = c.size - from
  <2>1. /\ IsFiniteSet(from .. c.size - 1)
        /\ Cardinality(from .. c.size - 1)
             = IF from > c.size - 1 THEN 0 ELSE (c.size - 1) - from + 1
    BY <1>1, c.size - 1 \in Int, from \in Int, FS_Interval, Zenon
  <2> QED BY <1>1, <2>1
<1>9. Cardinality(F) = Cardinality(from .. c.size - 1) - Cardinality(T)
  <2>1. (from .. c.size - 1) \cap T = T
    BY <1>6
  <2>2. Cardinality((from .. c.size - 1) \ T)
          = Cardinality(from .. c.size - 1) - Cardinality((from .. c.size - 1) \cap T)
    BY <1>8, FS_Difference
  <2> QED BY <1>6, <2>1, <2>2
<1> QED BY <1>7, <1>8, <1>9 DEF freeCapacity

\* The check of add() neither refuses what fits nor counts a cell of a slot, in every container
\* whose slots lie apart and wherever the data ends (FileManager::add).
THEOREM CapacityIsExact ==
  ASSUME ContainersApart
  PROVE  Spec => []CapacityExact
<1>1. ASSUME PlacementInv PROVE CapacityExact
  <2>1. container \in LayoutType /\ SlotsApart(container) /\ next_write_offset \in Nat
    BY <1>1 DEF PlacementInv, TypeOK, LayoutType
  <2>2. container.size \in Nat
    BY <2>1 DEF LayoutType
  <2> QED BY <2>1, <2>2, FreeCellsCounted DEF CapacityExact
<1> QED BY <1>1, PlacementInvariant, PTL

-----------------------------------------------------------------------------
(***************************************************************************)
(* What extract reads.  The chunk a position of the encrypted stream lies  *)
(* in depends on the size of the file alone, so writer and reader cut the  *)
(* same segments as long as they stand at the same place.                  *)
(***************************************************************************)
FullChunk == BLOCK_SIZE + OVERHEAD

\* The plain text behind the n-th chunk, and the end of that chunk in the stream.
RestAfter(n, size) == IF size > BLOCK_SIZE * n THEN size - BLOCK_SIZE * n ELSE 0
ChunkEnd(n, size) == encryptedSizeCalc(size) - encryptedSizeCalc(RestAfter(n, size))

InChunk(n, size, at) ==
  /\ FullChunk * (n - 1) <= at /\ at <= ChunkEnd(n, size)
  /\ ChunkEnd(n, size) <= FullChunk * n
  /\ RestAfter(n, size) > 0 => ChunkEnd(n, size) = FullChunk * n

\* The chunk being transferred, by either side.
Transferring(size) ==
  \E n \in Nat \ {0} :
    /\ InChunk(n, size, streamed)
    /\ plainLeft = RestAfter(n, size)
    /\ chunkLeft = ChunkEnd(n, size) - streamed

\* A segment as both loops cut it.
Placed(c, s, size) ==
  \E n \in Nat \ {0} :
    /\ InChunk(n, size, s.at)
    /\ s.at < ChunkEnd(n, size)
    /\ s.len = bytesUntilNextSlot(c, s.pos, ChunkEnd(n, size) - s.at)

\* pos is where the segments S, laid from start on, end after "at" bytes of the stream.
Reached(S, at, pos, start) ==
  IF at = 0 THEN pos = start ELSE \E s \in S : s.at + s.len = at /\ s.pos + s.len = pos

\* S holds the first "end" bytes of a file, each segment where a walk from start finds it.
Walked(c, S, size, start, end) ==
  /\ \A s \in S : s.at + s.len <= end /\ Placed(c, s, size)
  /\ \A s, t \in S : s.at < t.at => s.at + s.len <= t.at
  /\ \A s, t \in S : s.at = t.at => s = t
  /\ end > 0 => \E t \in S : t.at = 0 /\ t.pos = skipSlots(c, start)
  /\ \A s \in S : s.at + s.len < end =>
       \E t \in S : t.at = s.at + s.len /\ t.pos = skipSlots(c, s.pos + s.len)

SegmentsOf(f) == {s \in written : s.file = f}

EntriesWalked ==
  \A e \in table :
    Walked(container, SegmentsOf(e.file), e.size, e.offset, encryptedSizeCalc(e.size))

WriterWalks ==
  pc = "write" =>
    /\ Walked(container, SegmentsOf(file_count + 1), plainSize, fileStart, streamed)
    /\ Reached(SegmentsOf(file_count + 1), streamed, cursor, fileStart)
    /\ Transferring(plainSize)

ReaderWalks ==
  pc = "read" =>
    \E e \in table :
      /\ e.file = current
      /\ Transferring(e.size)
      /\ readBack = {s \in SegmentsOf(current) : s.at < streamed}
      /\ Reached(readBack, streamed, cursor, e.offset)

ReadFromFiles == \A s \in readBack : s \in written /\ s.file <= persisted

WalkInv == EntriesWalked /\ WriterWalks /\ ReaderWalks /\ ReadFromFiles

-----------------------------------------------------------------------------
\* Sizes and rests as numbers.
LEMMA ChunkNumbers ==
  ASSUME NEW n \in Nat, NEW size \in Nat
  PROVE  /\ RestAfter(n, size) \in Nat
         /\ encryptedSizeCalc(size) \in Nat
         /\ encryptedSizeCalc(RestAfter(n, size)) \in Nat
         /\ ChunkEnd(n, size) \in Int
         /\ ChunkEnd(n, size) <= encryptedSizeCalc(size)
         /\ FullChunk * n \in Nat
<1>1. BLOCK_SIZE \in Nat /\ FullChunk \in Nat
  BY SizesAssumption DEF FullChunk
<1>2. BLOCK_SIZE * n \in Nat /\ FullChunk * n \in Nat
  BY <1>1
<1>3. RestAfter(n, size) \in Nat
  BY <1>2 DEF RestAfter
<1>4. encryptedSizeCalc(size) \in Nat /\ encryptedSizeCalc(RestAfter(n, size)) \in Nat
  BY <1>3, ChunkCutsEncryptedSize
<1> QED BY <1>2, <1>3, <1>4 DEF ChunkEnd

LEMMA NothingLeft == encryptedSizeCalc(0) = 0
<1>1. 0 \div BLOCK_SIZE = 0 /\ 0 % BLOCK_SIZE = 0
  BY SizesAssumption
<1> QED BY <1>1, SizesAssumption DEF encryptedSizeCalc

\* A file begins with its first chunk.
LEMMA FirstChunk ==
  ASSUME NEW size \in Nat
  PROVE  /\ InChunk(1, size, 0)
         /\ size - LesserOf(size, BLOCK_SIZE) = RestAfter(1, size)
         /\ ChunkOf(size) = ChunkEnd(1, size) - 0
<1>1. BLOCK_SIZE \in Nat \ {0} /\ OVERHEAD \in Nat \ {0}
  BY SizesAssumption
<1>2. BLOCK_SIZE * 1 = BLOCK_SIZE /\ FullChunk * 1 = FullChunk /\ FullChunk * (1 - 1) = 0
  BY <1>1 DEF FullChunk
<1>3. size - LesserOf(size, BLOCK_SIZE) = RestAfter(1, size)
  BY <1>1, <1>2 DEF LesserOf, RestAfter
<1>4. /\ ChunkOf(size) \in Nat
      /\ ChunkOf(size) + encryptedSizeCalc(RestAfter(1, size)) = encryptedSizeCalc(size)
  BY <1>3, ChunkCutsEncryptedSize
<1>5. ChunkOf(size) = ChunkEnd(1, size)
  BY <1>4, ChunkNumbers DEF ChunkEnd
<1>6. ChunkOf(size) <= FullChunk /\ (RestAfter(1, size) > 0 => ChunkOf(size) = FullChunk)
  BY <1>1, <1>2 DEF ChunkOf, LesserOf, RestAfter, FullChunk
<1> QED BY <1>2, <1>3, <1>4, <1>5, <1>6 DEF InChunk

\* ... and goes on with the next.
LEMMA ChunkAfter ==
  ASSUME NEW n \in Nat \ {0}, NEW size \in Nat, NEW at \in Nat,
         InChunk(n, size, at), at = ChunkEnd(n, size), RestAfter(n, size) > 0
  PROVE  LET rest == RestAfter(n, size)
         IN  /\ InChunk(n + 1, size, at)
             /\ rest - LesserOf(rest, BLOCK_SIZE) = RestAfter(n + 1, size)
             /\ ChunkOf(rest) = ChunkEnd(n + 1, size) - at
<1>1. BLOCK_SIZE \in Nat \ {0} /\ OVERHEAD \in Nat \ {0} /\ FullChunk \in Nat
  BY SizesAssumption DEF FullChunk
<1>2. /\ BLOCK_SIZE * (n + 1) = BLOCK_SIZE * n + BLOCK_SIZE
      /\ FullChunk * (n + 1) = FullChunk * n + FullChunk
      /\ BLOCK_SIZE * n \in Nat /\ FullChunk * n \in Nat
      /\ n + 1 \in Nat /\ (n + 1) - 1 = n
  BY <1>1
<1>3. PICK rest \in Nat : rest = RestAfter(n, size)
  BY ChunkNumbers
<1>4. PICK bn \in Nat : bn = BLOCK_SIZE * n
  BY <1>2
<1>5. rest = size - bn /\ rest > 0 /\ at = FullChunk * n
  BY <1>3, <1>4 DEF RestAfter, InChunk
<1>6. RestAfter(n + 1, size) = IF size > bn + BLOCK_SIZE THEN size - (bn + BLOCK_SIZE) ELSE 0
  BY <1>2, <1>4 DEF RestAfter
<1>7. rest - LesserOf(rest, BLOCK_SIZE) = RestAfter(n + 1, size)
  BY <1>1, <1>5, <1>6 DEF LesserOf
<1>8. /\ ChunkOf(rest) \in Nat
      /\ ChunkOf(rest) + encryptedSizeCalc(RestAfter(n + 1, size)) = encryptedSizeCalc(rest)
  BY <1>7, ChunkCutsEncryptedSize
<1>9. ChunkOf(rest) = ChunkEnd(n + 1, size) - at
  <2>1. /\ encryptedSizeCalc(size) \in Nat /\ encryptedSizeCalc(rest) \in Nat
        /\ encryptedSizeCalc(RestAfter(n + 1, size)) \in Nat
    BY <1>2, <1>3, ChunkNumbers
  <2>2. at = encryptedSizeCalc(size) - encryptedSizeCalc(rest)
    BY <1>3 DEF ChunkEnd
  <2> QED BY <1>8, <2>1, <2>2 DEF ChunkEnd
<1>10. /\ ChunkOf(rest) <= FullChunk
       /\ RestAfter(n + 1, size) > 0 => ChunkOf(rest) = FullChunk
  BY <1>1, <1>5, <1>6 DEF ChunkOf, LesserOf, FullChunk
<1>11. InChunk(n + 1, size, at)
  <2>1. PICK end \in Int : end = ChunkEnd(n + 1, size)
    BY <1>2, ChunkNumbers
  <2>2. end = at + ChunkOf(rest)
    BY <1>8, <1>9, <2>1
  <2> QED BY <1>1, <1>2, <1>5, <1>8, <1>10, <2>1, <2>2 DEF InChunk
<1> QED BY <1>3, <1>7, <1>9, <1>11

\* A position before the end of a chunk is in that chunk only.
LEMMA OneChunk ==
  ASSUME NEW m \in Nat \ {0}, NEW n \in Nat \ {0}, NEW size \in Nat, NEW at \in Nat,
         InChunk(m, size, at), InChunk(n, size, at),
         at < ChunkEnd(m, size), at < ChunkEnd(n, size)
  PROVE  m = n
<1>1. FullChunk \in Nat
  BY SizesAssumption DEF FullChunk
<1>2. ASSUME NEW i \in Nat \ {0}, NEW j \in Nat \ {0}, i < j,
             InChunk(i, size, at), InChunk(j, size, at), at < ChunkEnd(i, size)
      PROVE  FALSE
  <2>1. PICK d \in Nat : (j - 1) = i + d
    BY <1>2
  <2>2. FullChunk * (i + d) = FullChunk * i + FullChunk * d
    BY <1>1
  <2>3. FullChunk * d \in Nat /\ FullChunk * i \in Nat
    BY <1>1
  <2>4. FullChunk * (i + d) <= at
    BY <1>2, <2>1 DEF InChunk
  <2>5. ChunkEnd(i, size) \in Int /\ ChunkEnd(i, size) <= FullChunk * i
    BY <1>2, ChunkNumbers DEF InChunk
  <2> QED BY <1>2, <2>2, <2>3, <2>4, <2>5
<1> QED BY <1>2

-----------------------------------------------------------------------------
Segments == [file : Nat, at : Nat, pos : Nat, len : Nat \ {0}]

\* The writer takes the walk one segment further.
LEMMA WalkExtended ==
  ASSUME NEW c, NEW S \in SUBSET Segments, NEW size \in Nat, NEW start \in Nat, NEW end \in Nat,
         NEW cur \in Nat, NEW pos \in Nat, NEW len \in Nat \ {0}, NEW seg \in Segments,
         Walked(c, S, size, start, end), Reached(S, end, cur, start),
         pos = skipSlots(c, cur),
         seg.at = end, seg.pos = pos, seg.len = len, Placed(c, seg, size)
  PROVE  /\ Walked(c, S \cup {seg}, size, start, end + len)
         /\ Reached(S \cup {seg}, end + len, pos + len, start)
<1>1. \A s \in S : /\ s.at \in Nat /\ s.pos \in Nat /\ s.len \in Nat /\ s.len > 0
                   /\ s.at + s.len <= end /\ s.at < end
  BY DEF Walked, Segments
<1>2. \A s \in S \cup {seg} : s.at + s.len <= end + len /\ Placed(c, s, size)
  BY <1>1 DEF Walked
<1>3. \A s, t \in S \cup {seg} : s.at < t.at => s.at + s.len <= t.at
  BY <1>1 DEF Walked
<1>4. \A s, t \in S \cup {seg} : s.at = t.at => s = t
  BY <1>1 DEF Walked
<1>5. \E t \in S \cup {seg} : t.at = 0 /\ t.pos = skipSlots(c, start)
  <2>1. CASE end = 0
    BY <2>1 DEF Reached
  <2>2. CASE end > 0
    BY <2>2 DEF Walked
  <2> QED BY <2>1, <2>2
<1>6. ASSUME NEW s \in S \cup {seg}, s.at + s.len < end + len
      PROVE  \E t \in S \cup {seg} : t.at = s.at + s.len /\ t.pos = skipSlots(c, s.pos + s.len)
  <2>1. s \in S
    BY <1>6
  <2>2. CASE s.at + s.len < end
    BY <2>1, <2>2 DEF Walked
  <2>3. CASE s.at + s.len = end
    <3>1. PICK p \in S : p.at + p.len = end /\ p.pos + p.len = cur
      BY <1>1, <2>1, <2>3 DEF Reached
    <3>2. s.at = p.at
      <4>1. ~ (s.at < p.at) /\ ~ (p.at < s.at)
        BY <1>1, <2>1, <2>3, <3>1 DEF Walked
      <4> QED BY <1>1, <2>1, <3>1, <4>1
    <3>3. s = p
      BY <2>1, <3>1, <3>2 DEF Walked
    <3> QED BY <2>3, <3>1, <3>3
  <2> QED BY <1>1, <2>1, <2>2, <2>3
<1>7. Reached(S \cup {seg}, end + len, pos + len, start)
  BY DEF Reached
<1> QED BY <1>2, <1>3, <1>4, <1>5, <1>6, <1>7 DEF Walked

\* The reader, having reached "at", finds there the segment the writer made.
LEMMA WalkRetraced ==
  ASSUME NEW c, NEW S \in SUBSET Segments, NEW size \in Nat, NEW start \in Nat,
         NEW at \in Nat, NEW cur \in Nat, NEW pos \in Nat, NEW len \in Nat \ {0},
         NEW n \in Nat \ {0},
         Walked(c, S, size, start, encryptedSizeCalc(size)),
         Reached({s \in S : s.at < at}, at, cur, start),
         InChunk(n, size, at), at < ChunkEnd(n, size),
         pos = skipSlots(c, cur), len = bytesUntilNextSlot(c, pos, ChunkEnd(n, size) - at)
  PROVE  \E t \in S :
           /\ t.at = at /\ t.pos = pos /\ t.len = len
           /\ {s \in S : s.at < at + len} = {s \in S : s.at < at} \cup {t}
           /\ Reached({s \in S : s.at < at + len}, at + len, pos + len, start)
<1>1. \A s \in S : s.at \in Nat /\ s.pos \in Nat /\ s.len \in Nat /\ s.len > 0
  BY DEF Segments
<1>2. encryptedSizeCalc(size) \in Nat /\ at < encryptedSizeCalc(size)
  BY ChunkNumbers
<1>3. PICK t \in S : t.at = at /\ t.pos = pos
  <2>1. CASE at = 0
    BY <1>2, <2>1 DEF Walked, Reached
  <2>2. CASE at # 0
    <3>1. PICK p \in S : p.at + p.len = at /\ p.pos + p.len = cur
      BY <2>2 DEF Reached
    <3> QED BY <1>2, <3>1 DEF Walked
  <2> QED BY <2>1, <2>2
<1>4. t.len = len
  <2>1. PICK m \in Nat \ {0} :
          /\ InChunk(m, size, at) /\ at < ChunkEnd(m, size)
          /\ t.len = bytesUntilNextSlot(c, pos, ChunkEnd(m, size) - at)
    BY <1>3 DEF Walked, Placed
  <2>2. m = n
    BY <2>1, OneChunk
  <2> QED BY <2>1, <2>2
<1>5. {s \in S : s.at < at + len} = {s \in S : s.at < at} \cup {t}
  <2>1. ASSUME NEW s \in S, s.at < at + len, ~ (s.at < at)
        PROVE  s = t
    <3>1. ~ (t.at < s.at)
      BY <1>1, <1>3, <1>4, <2>1 DEF Walked
    <3>2. s.at = t.at
      BY <1>1, <1>3, <2>1, <3>1
    <3> QED BY <2>1, <3>2 DEF Walked
  <2>2. \A s \in S : s.at < at => s.at < at + len
    BY <1>1
  <2> QED BY <1>1, <1>3, <2>1, <2>2
<1>6. Reached({s \in S : s.at < at + len}, at + len, pos + len, start)
  BY <1>1, <1>3, <1>4 DEF Reached
<1> QED BY <1>3, <1>4, <1>5, <1>6

-----------------------------------------------------------------------------
LEMMA SegmentsTyped ==
  ASSUME TypeOK
  PROVE  /\ \A f : SegmentsOf(f) \in SUBSET Segments
         /\ \A e \in table : e.file \in 1 .. file_count /\ e.size \in Nat /\ e.offset \in Nat
BY DEF TypeOK, SegmentsOf, Segments

\* What a step does not write it leaves walked.
LEMMA EntriesKept ==
  ASSUME EntriesWalked, container' = container, table' \subseteq table,
         \A e \in table' : SegmentsOf(e.file)' = SegmentsOf(e.file)
  PROVE  EntriesWalked'
<1> SUFFICES ASSUME NEW e \in table'
             PROVE  Walked(container, SegmentsOf(e.file), e.size, e.offset,
                           encryptedSizeCalc(e.size))'
  BY DEF EntriesWalked
<1>1. Walked(container, SegmentsOf(e.file), e.size, e.offset, encryptedSizeCalc(e.size))
  BY DEF EntriesWalked
<1> QED BY <1>1 DEF Walked, Placed, InChunk

LEMMA StartFileKeepsWalk ==
  ASSUME PlacementInv, WalkInv, NEW plain \in PlainSizes, StartFile(plain)
  PROVE  WalkInv'
<1>1. TypeOK /\ plain \in Nat /\ file_count \in Nat
  BY InputsAssumption DEF PlacementInv, TypeOK
<1>2. EntriesWalked'
  BY EntriesKept DEF WalkInv, StartFile, book, SegmentsOf
<1>3. SegmentsOf(file_count + 1)' = {}
  <2>1. \A s \in written : s.file \in Nat /\ s.file <= file_count
    BY <1>1 DEF PlacementInv, SegmentOwners, StartFile, TypeOK
  <2> QED BY <1>1, <2>1 DEF StartFile, book, SegmentsOf
<1>4. WriterWalks'
  <2>1. /\ streamed' = 0 /\ plainSize' = plain /\ cursor' = fileStart'
        /\ plainLeft' = plain - LesserOf(plain, BLOCK_SIZE) /\ chunkLeft' = ChunkOf(plain)
    BY DEF StartFile
  <2>2. Transferring(plainSize)'
    BY <1>1, <2>1, FirstChunk DEF Transferring
  <2>3. Walked(container, SegmentsOf(file_count + 1), plainSize, fileStart, streamed)'
    BY <1>3, <2>1 DEF Walked
  <2>4. Reached(SegmentsOf(file_count + 1), streamed, cursor, fileStart)'
    BY <2>1 DEF Reached
  <2> QED BY <2>2, <2>3, <2>4 DEF WriterWalks
<1> QED BY <1>2, <1>4 DEF WalkInv, StartFile, ReaderWalks, ReadFromFiles, book

LEMMA WriteSegmentKeepsWalk ==
  ASSUME PlacementInv, WalkInv, WriteSegment
  PROVE  WalkInv'
<1>1. TypeOK /\ container \in LayoutType /\ SlotsApart(container)
  BY DEF PlacementInv, TypeOK, LayoutType
<1>2. /\ chunkLeft \in Nat \ {0} /\ cursor \in Nat /\ streamed \in Nat /\ file_count \in Nat
      /\ plainSize \in Nat /\ fileStart \in Nat /\ persisted \in Nat /\ persisted <= file_count
      /\ pc = "write"
  BY <1>1 DEF TypeOK, WriteSegment
<1>3. PICK pos \in Nat : pos = skipSlots(container, cursor) /\ SlotsAt(container, pos) = {}
  BY <1>1, <1>2, SkipLandsOnData
<1>4. PICK len \in 1 .. chunkLeft : len = bytesUntilNextSlot(container, pos, chunkLeft)
  BY <1>1, <1>2, <1>3, SegmentFitsGap
<1>5. PICK seg \in Segments :
        /\ seg = Segment(file_count + 1, streamed, pos, len)
        /\ seg.file = file_count + 1 /\ seg.at = streamed /\ seg.pos = pos /\ seg.len = len
  <2> DEFINE g == Segment(file_count + 1, streamed, pos, len)
  <2>1. /\ g.file = file_count + 1 /\ g.at = streamed /\ g.pos = pos /\ g.len = len
        /\ g \in Segments
    BY <1>2 DEF Segment, Segments
  <2>2. g = Segment(file_count + 1, streamed, pos, len)
    OBVIOUS
  <2> HIDE DEF g
  <2> QED BY <2>1, <2>2
<1>6. /\ written' = written \cup {seg}
      /\ cursor' = pos + len
      /\ chunkLeft' = chunkLeft - len
      /\ streamed' = streamed + len
      /\ UNCHANGED <<container, pc, book, plainSize, plainLeft, fileStart, current, readBack>>
  BY <1>3, <1>4, <1>5 DEF WriteSegment
<1>7. PICK n \in Nat \ {0} :
        /\ InChunk(n, plainSize, streamed)
        /\ plainLeft = RestAfter(n, plainSize)
        /\ chunkLeft = ChunkEnd(n, plainSize) - streamed
  BY <1>2 DEF WalkInv, WriterWalks, Transferring
<1>8. ChunkEnd(n, plainSize) \in Int /\ FullChunk * (n - 1) \in Nat
  BY <1>2, ChunkNumbers, n - 1 \in Nat
<1> DEFINE S == SegmentsOf(file_count + 1)
<1>9. S' = S \cup {seg}
  BY <1>5, <1>6 DEF SegmentsOf, book
<1>10. /\ Walked(container, S, plainSize, fileStart, streamed)
       /\ Reached(S, streamed, cursor, fileStart)
       /\ S \in SUBSET Segments
  BY <1>1, <1>2, SegmentsTyped DEF WalkInv, WriterWalks
<1>11. Placed(container, seg, plainSize)
  <2>1. streamed < ChunkEnd(n, plainSize)
    BY <1>2, <1>7, <1>8
  <2> QED BY <1>4, <1>5, <1>7, <2>1 DEF Placed
<1> HIDE DEF S
<1>12. /\ Walked(container, S \cup {seg}, plainSize, fileStart, streamed + len)
       /\ Reached(S \cup {seg}, streamed + len, pos + len, fileStart)
  BY <1>2, <1>3, <1>4, <1>5, <1>10, <1>11, WalkExtended
<1>13. Transferring(plainSize)'
  <2>1. InChunk(n, plainSize, streamed + len)
    BY <1>2, <1>4, <1>7, <1>8 DEF InChunk
  <2>2. chunkLeft - len = ChunkEnd(n, plainSize) - (streamed + len)
    BY <1>2, <1>4, <1>7, <1>8
  <2>3. InChunk(n, plainSize, streamed)' /\ plainLeft' = RestAfter(n, plainSize)'
        /\ chunkLeft' = ChunkEnd(n, plainSize)' - streamed'
    BY <1>6, <1>7, <2>1, <2>2 DEF InChunk
  <2> QED BY <2>3 DEF Transferring
<1>14. WriterWalks'
  <2>1. Walked(container', S', plainSize', fileStart', streamed')
    BY <1>6, <1>9, <1>12
  <2>2. Reached(S', streamed', cursor', fileStart')
    BY <1>6, <1>9, <1>12
  <2> QED BY <1>13, <2>1, <2>2 DEF WriterWalks, S, Walked, Placed, InChunk, Reached
<1>15. EntriesWalked'
  <2>1. ASSUME NEW e \in table' PROVE SegmentsOf(e.file)' = SegmentsOf(e.file)
    <3>1. e \in table /\ e.file # seg.file
      BY <1>1, <1>2, <1>5, <1>6, SegmentsTyped DEF book
    <3> QED BY <1>6, <3>1 DEF SegmentsOf
  <2> QED BY <1>6, <2>1, EntriesKept DEF WalkInv, book
<1>16. ReadFromFiles' /\ ReaderWalks'
  BY <1>2, <1>6 DEF WalkInv, ReadFromFiles, ReaderWalks, book
<1> QED BY <1>14, <1>15, <1>16 DEF WalkInv

\* NextChunk and ReadNextChunk: the transfer goes on in the next chunk.
LEMMA NextChunkIsNext ==
  ASSUME TypeOK, NEW size \in Nat, Transferring(size), chunkLeft = 0, plainLeft > 0,
         chunkLeft' = ChunkOf(plainLeft), plainLeft' = plainLeft - LesserOf(plainLeft, BLOCK_SIZE),
         streamed' = streamed
  PROVE  /\ \E n \in Nat \ {0} :
              /\ InChunk(n, size, streamed')
              /\ plainLeft' = RestAfter(n, size)
              /\ chunkLeft' = ChunkEnd(n, size) - streamed'
<1>1. streamed \in Nat
  BY DEF TypeOK
<1>2. PICK n \in Nat \ {0} :
        /\ InChunk(n, size, streamed)
        /\ plainLeft = RestAfter(n, size)
        /\ chunkLeft = ChunkEnd(n, size) - streamed
  BY DEF Transferring
<1>3. ChunkEnd(n, size) \in Int
  BY ChunkNumbers
<1>4. streamed = ChunkEnd(n, size)
  BY <1>1, <1>2, <1>3
<1> QED BY <1>1, <1>2, <1>4, ChunkAfter, n + 1 \in Nat \ {0}

LEMMA NextChunkKeepsWalk ==
  ASSUME PlacementInv, WalkInv, NextChunk
  PROVE  WalkInv'
<1>1. TypeOK /\ plainSize \in Nat
  BY DEF PlacementInv, TypeOK
<1>2. EntriesWalked'
  BY EntriesKept DEF WalkInv, NextChunk, book, SegmentsOf
<1>3. Transferring(plainSize)'
  <2>1. Transferring(plainSize)
    BY DEF WalkInv, WriterWalks, NextChunk
  <2>2. \E n \in Nat \ {0} :
          /\ InChunk(n, plainSize, streamed')
          /\ plainLeft' = RestAfter(n, plainSize)
          /\ chunkLeft' = ChunkEnd(n, plainSize) - streamed'
    BY <1>1, <2>1, NextChunkIsNext DEF NextChunk
  <2> QED BY <2>2 DEF Transferring, NextChunk
<1>4. WriterWalks'
  BY <1>3 DEF WalkInv, WriterWalks, NextChunk, book, SegmentsOf, Walked, Placed, InChunk, Reached
<1> QED BY <1>2, <1>4 DEF WalkInv, NextChunk, ReaderWalks, ReadFromFiles, book

\* A transfer that has nothing left has reached the end of the file.
LEMMA AllTransferred ==
  ASSUME TypeOK, NEW size \in Nat, Transferring(size), chunkLeft = 0, plainLeft = 0
  PROVE  streamed = encryptedSizeCalc(size)
<1>1. PICK n \in Nat \ {0} : 0 = RestAfter(n, size) /\ 0 = ChunkEnd(n, size) - streamed
  BY DEF Transferring
<1>2. streamed \in Nat
  BY DEF TypeOK
<1>3. ChunkEnd(n, size) = encryptedSizeCalc(size) - 0 /\ encryptedSizeCalc(size) \in Nat
  BY <1>1, ChunkNumbers, NothingLeft DEF ChunkEnd
<1> QED BY <1>1, <1>2, <1>3

LEMMA EndFileKeepsWalk ==
  ASSUME PlacementInv, WalkInv, EndFile
  PROVE  WalkInv'
<1>1. TypeOK /\ plainSize \in Nat /\ file_count \in Nat
  BY DEF PlacementInv, TypeOK
<1>2. streamed = encryptedSizeCalc(plainSize)
  BY <1>1, AllTransferred DEF WalkInv, WriterWalks, EndFile
<1>3. ASSUME NEW e \in table'
      PROVE  Walked(container, SegmentsOf(e.file), e.size, e.offset, encryptedSizeCalc(e.size))
  <2>1. CASE e \in table
    BY <2>1 DEF WalkInv, EntriesWalked
  <2>2. CASE e = [file |-> file_count + 1, size |-> plainSize, offset |-> fileStart]
    <3>1. e.file = file_count + 1 /\ e.size = plainSize /\ e.offset = fileStart
      BY <2>2
    <3> QED BY <1>2, <3>1 DEF WalkInv, WriterWalks, EndFile
  <2> QED BY <2>1, <2>2 DEF EndFile
<1>4. EntriesWalked'
  BY <1>3 DEF EntriesWalked, EndFile, SegmentsOf, Walked, Placed, InChunk
<1> QED BY <1>4 DEF WalkInv, EndFile, WriterWalks, ReaderWalks, ReadFromFiles

LEMMA BooksKeepWalk ==
  ASSUME PlacementInv, WalkInv,
         (\E required \in Totals : Create(required) \/ Add(required)) \/ EndCall \/ EndExtract
  PROVE  WalkInv'
<1>1. /\ UNCHANGED <<container, table, written, readBack>>
      /\ pc' \in {"files", "idle"}
      /\ persisted' = persisted \/ persisted' = file_count
      /\ persisted \in Nat /\ file_count \in Nat /\ persisted <= file_count
  BY DEF Create, Add, EndCall, EndExtract, book, call, PlacementInv, TypeOK
<1>2. EntriesWalked'
  BY <1>1, EntriesKept DEF WalkInv, SegmentsOf
<1>3. ReadFromFiles'
  <2> SUFFICES ASSUME NEW s \in readBack PROVE s \in written /\ s.file <= persisted'
    BY <1>1 DEF ReadFromFiles
  <2>1. s \in written /\ s.file <= persisted /\ s.file \in Nat
    BY DEF WalkInv, ReadFromFiles, PlacementInv, TypeOK
  <2> QED BY <1>1, <2>1
<1> QED BY <1>1, <1>2, <1>3 DEF WalkInv, WriterWalks, ReaderWalks

LEMMA AbortKeepsWalk ==
  ASSUME PlacementInv, WalkInv, Abort
  PROVE  WalkInv'
<1>1. EntriesWalked'
  BY EntriesKept DEF WalkInv, Abort, SegmentsOf
<1>2. ReadFromFiles'
  BY DEF WalkInv, ReadFromFiles, Abort
<1> QED BY <1>1, <1>2 DEF WalkInv, Abort, WriterWalks, ReaderWalks

LEMMA ExtractKeepsWalk ==
  ASSUME PlacementInv, WalkInv, NEW e \in table, Extract(e)
  PROVE  WalkInv'
<1>1. TypeOK /\ e.size \in Nat /\ \A s \in written : s.at \in Nat
  BY DEF PlacementInv, TypeOK
<1>2. EntriesWalked'
  BY EntriesKept DEF WalkInv, Extract, book, SegmentsOf
<1>3. /\ streamed' = 0 /\ cursor' = e.offset /\ readBack' = {} /\ current' = e.file
      /\ plainLeft' = e.size - LesserOf(e.size, BLOCK_SIZE) /\ chunkLeft' = ChunkOf(e.size)
      /\ pc' = "read" /\ UNCHANGED <<table, written>>
  BY DEF Extract, book
<1>4. \E n \in Nat \ {0} :
        /\ InChunk(n, e.size, streamed')
        /\ plainLeft' = RestAfter(n, e.size)
        /\ chunkLeft' = ChunkEnd(n, e.size) - streamed'
  BY <1>1, <1>3, FirstChunk
<1>5. readBack' = {s \in SegmentsOf(current)' : s.at < streamed'}
  BY <1>1, <1>3 DEF SegmentsOf
<1>6. Reached(readBack', streamed', cursor', e.offset)
  BY <1>3 DEF Reached
<1>7. ReaderWalks'
  BY <1>3, <1>4, <1>5, <1>6 DEF ReaderWalks, Transferring, SegmentsOf, Reached
<1> QED BY <1>2, <1>3, <1>7 DEF WalkInv, WriterWalks, ReadFromFiles

LEMMA ReadSegmentKeepsWalk ==
  ASSUME PlacementInv, WalkInv, ReadSegment
  PROVE  WalkInv'
<1>1. TypeOK /\ container \in LayoutType /\ SlotsApart(container)
  BY DEF PlacementInv, TypeOK, LayoutType
<1>2. /\ chunkLeft \in Nat \ {0} /\ cursor \in Nat /\ streamed \in Nat /\ pc = "read"
      /\ persisted = file_count
  BY <1>1 DEF PlacementInv, SegmentOwners, TypeOK, ReadSegment
<1>3. PICK e \in table :
        /\ e.file = current
        /\ Transferring(e.size)
        /\ readBack = {s \in SegmentsOf(current) : s.at < streamed}
        /\ Reached(readBack, streamed, cursor, e.offset)
  BY <1>2 DEF WalkInv, ReaderWalks
<1>4. PICK n \in Nat \ {0} :
        /\ InChunk(n, e.size, streamed)
        /\ plainLeft = RestAfter(n, e.size)
        /\ chunkLeft = ChunkEnd(n, e.size) - streamed
  BY <1>3 DEF Transferring
<1>5. e.size \in Nat /\ e.offset \in Nat /\ e.file \in 1 .. file_count
  BY <1>1, SegmentsTyped
<1>6. PICK pos \in Nat : pos = skipSlots(container, cursor) /\ SlotsAt(container, pos) = {}
  BY <1>1, <1>2, SkipLandsOnData
<1>7. PICK len \in 1 .. chunkLeft : len = bytesUntilNextSlot(container, pos, chunkLeft)
  BY <1>1, <1>2, <1>6, SegmentFitsGap
<1>8. ChunkEnd(n, e.size) \in Int /\ streamed < ChunkEnd(n, e.size)
  <2>1. ChunkEnd(n, e.size) \in Int
    BY <1>5, ChunkNumbers
  <2> QED BY <1>2, <1>4, <2>1
<1> DEFINE S == SegmentsOf(current)
<1>9. /\ Walked(container, S, e.size, e.offset, encryptedSizeCalc(e.size))
      /\ S \in SUBSET Segments
  BY <1>1, <1>3, SegmentsTyped DEF WalkInv, EntriesWalked
<1>10. readBack = {s \in S : s.at < streamed}
  BY <1>3
<1> HIDE DEF S
<1>11. PICK t \in S :
         /\ t.at = streamed /\ t.pos = pos /\ t.len = len
         /\ {s \in S : s.at < streamed + len} = {s \in S : s.at < streamed} \cup {t}
         /\ Reached({s \in S : s.at < streamed + len}, streamed + len, pos + len, e.offset)
  <2>1. Reached({s \in S : s.at < streamed}, streamed, cursor, e.offset)
    BY <1>3, <1>10
  <2> QED BY <1>2, <1>4, <1>5, <1>6, <1>7, <1>8, <1>9, <2>1, WalkRetraced
<1>12. t = Segment(current, streamed, pos, len)
  <2>1. t.file = current /\ t \in Segments
    BY <1>9 DEF S, SegmentsOf
  <2> QED BY <1>11, <2>1 DEF Segment, Segments
<1>13. /\ readBack' = readBack \cup {t}
       /\ cursor' = pos + len
       /\ chunkLeft' = chunkLeft - len
       /\ streamed' = streamed + len
       /\ UNCHANGED <<container, pc, book, plainLeft, current, written>>
  BY <1>6, <1>7, <1>12 DEF ReadSegment
<1>14. S' = S
  BY <1>13 DEF S, SegmentsOf
<1>15. ReaderWalks'
  <2>1. /\ InChunk(n, e.size, streamed + len)
        /\ chunkLeft - len = ChunkEnd(n, e.size) - (streamed + len)
    <3>1. FullChunk * (n - 1) \in Int
      BY <1>5, ChunkNumbers, n - 1 \in Nat
    <3>2. streamed + len <= ChunkEnd(n, e.size)
      BY <1>2, <1>4, <1>7, <1>8
    <3> QED BY <1>2, <1>4, <1>7, <1>8, <3>1, <3>2 DEF InChunk
  <2>2. \E m \in Nat \ {0} :
          /\ InChunk(m, e.size, streamed')
          /\ plainLeft' = RestAfter(m, e.size)
          /\ chunkLeft' = ChunkEnd(m, e.size) - streamed'
    BY <1>4, <1>13, <2>1
  <2>3. readBack' = {s \in S : s.at < streamed'}
    BY <1>10, <1>11, <1>13
  <2>4. Reached(readBack', streamed', cursor', e.offset)
    BY <1>11, <1>13, <2>3
  <2>5. /\ e \in table' /\ e.file = current'
        /\ readBack' = {s \in SegmentsOf(current)' : s.at < streamed'}
    BY <1>3, <1>13, <1>14, <2>3 DEF S, book
  <2> QED BY <2>2, <2>4, <2>5 DEF ReaderWalks, Transferring, Reached
<1>16. ReadFromFiles'
  <2>1. t \in written /\ t.file <= persisted
    BY <1>2, <1>3, <1>5, <1>11 DEF S, SegmentsOf
  <2> QED BY <1>13, <2>1 DEF WalkInv, ReadFromFiles, book
<1>17. EntriesWalked'
  BY <1>13, EntriesKept DEF WalkInv, SegmentsOf, book
<1> QED BY <1>2, <1>13, <1>15, <1>16, <1>17 DEF WalkInv, WriterWalks

LEMMA ReadNextChunkKeepsWalk ==
  ASSUME PlacementInv, WalkInv, ReadNextChunk
  PROVE  WalkInv'
<1>1. TypeOK
  BY DEF PlacementInv
<1>2. EntriesWalked'
  BY EntriesKept DEF WalkInv, ReadNextChunk, book, SegmentsOf
<1>3. PICK e \in table :
        /\ e.file = current
        /\ Transferring(e.size)
        /\ readBack = {s \in SegmentsOf(current) : s.at < streamed}
        /\ Reached(readBack, streamed, cursor, e.offset)
  BY DEF WalkInv, ReaderWalks, ReadNextChunk
<1>4. e.size \in Nat
  BY <1>1, SegmentsTyped
<1>5. \E n \in Nat \ {0} :
        /\ InChunk(n, e.size, streamed')
        /\ plainLeft' = RestAfter(n, e.size)
        /\ chunkLeft' = ChunkEnd(n, e.size) - streamed'
  BY <1>1, <1>3, <1>4, NextChunkIsNext DEF ReadNextChunk
<1>6. UNCHANGED <<pc, table, current, readBack, written, streamed, cursor, persisted>>
  BY DEF ReadNextChunk, book
<1>7. ReaderWalks'
  BY <1>3, <1>5, <1>6 DEF ReaderWalks, Transferring, SegmentsOf, Reached
<1>8. pc' = "read"
  BY DEF ReadNextChunk
<1> QED BY <1>2, <1>6, <1>7, <1>8 DEF WalkInv, WriterWalks, ReadFromFiles

LEMMA StepKeepsWalk ==
  ASSUME PlacementInv, WalkInv, [Next]_vars
  PROVE  WalkInv'
<1>1. CASE UNCHANGED vars
  BY <1>1
     DEF vars, call, book, WalkInv, EntriesWalked, WriterWalks, ReaderWalks, ReadFromFiles,
         Transferring, SegmentsOf, Walked, Placed, InChunk, Reached
<1>2. CASE \E plain \in PlainSizes : StartFile(plain)
  BY <1>2, StartFileKeepsWalk
<1>3. CASE \E e \in table : Extract(e)
  BY <1>3, ExtractKeepsWalk
<1> QED
  BY <1>1, <1>2, <1>3, BooksKeepWalk, WriteSegmentKeepsWalk, NextChunkKeepsWalk, EndFileKeepsWalk,
     AbortKeepsWalk, ReadSegmentKeepsWalk, ReadNextChunkKeepsWalk DEF Next

\* writeFragmented and readFragmented walk the same way: from the offset of an entry, readerTask
\* meets the segments the writer made, each at its place, and when it is done it has met them
\* all, for any number of files, failed calls and slots in between.
THEOREM ReaderMeetsWhatWasWritten ==
  ASSUME ContainersApart
  PROVE  Spec => []ReadsBackWhatWasWritten
<1>1. Init => WalkInv
  BY DEF Init, WalkInv, EntriesWalked, WriterWalks, ReaderWalks, ReadFromFiles
<1>2. PlacementInv /\ WalkInv /\ [Next]_vars => WalkInv'
  BY StepKeepsWalk
<1>3. ASSUME PlacementInv, WalkInv PROVE ReadsBackWhatWasWritten
  <2>1. readBack \subseteq written
    BY <1>3 DEF WalkInv, ReadFromFiles
  <2>2. ASSUME pc = "read", chunkLeft = 0, plainLeft = 0
        PROVE  readBack = {s \in written : s.file = current}
    <3>1. PICK e \in table :
            /\ e.file = current
            /\ Transferring(e.size)
            /\ readBack = {s \in SegmentsOf(current) : s.at < streamed}
      BY <1>3, <2>2 DEF WalkInv, ReaderWalks
    <3>2. TypeOK /\ e.size \in Nat
      BY <1>3, SegmentsTyped DEF PlacementInv
    <3>3. streamed = encryptedSizeCalc(e.size) /\ streamed \in Nat
      BY <2>2, <3>1, <3>2, AllTransferred DEF TypeOK
    <3>4. ASSUME NEW s \in SegmentsOf(current) PROVE s.at < streamed
      <4>1. s.at + s.len <= streamed
        BY <1>3, <3>1, <3>3, <3>4 DEF WalkInv, EntriesWalked, Walked
      <4>2. s.at \in Nat /\ s.len \in Nat /\ s.len > 0
        BY <3>2, <3>4, SegmentsTyped DEF Segments
      <4> QED BY <3>3, <4>1, <4>2
    <3> QED BY <3>1, <3>4 DEF SegmentsOf
  <2> QED BY <2>1, <2>2 DEF ReadsBackWhatWasWritten
<1> QED BY <1>1, <1>2, <1>3, PlacementInvariant, PTL DEF Spec
=============================================================================
