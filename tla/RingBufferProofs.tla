--------------------------- MODULE RingBufferProofs ---------------------------
(***************************************************************************)
(* For a ring of any capacity: the array with its head and its count is a  *)
(* queue that forgets its oldest message when it is full.                  *)
(***************************************************************************)
EXTENDS RingBuffer, TLAPS

(* Taking the modulus of an index that passed the end once is going round. *)
LEMMA GoingRound ==
  ASSUME NEW c \in Nat \ {0}, NEW x \in 0 .. 2 * c - 1
  PROVE  x % c = IF x < c THEN x ELSE x - c
OBVIOUS

LEMMA SameSequence ==
  ASSUME NEW S, NEW s \in Seq(S), NEW t \in Seq(S), Len(s) = Len(t),
         \A i \in 1 .. Len(s) : s[i] = t[i]
  PROVE  s = t
OBVIOUS

(* The slot i places after the head, and different places have different   *)
(* slots.                                                                  *)
LEMMA SlotValue ==
  ASSUME NEW r \in RingType, NEW i \in 0 .. RING_CAPACITY
  PROVE  /\ Slot(r, i) = IF r.head + i < RING_CAPACITY THEN r.head + i
                                                       ELSE r.head + i - RING_CAPACITY
         /\ i < RING_CAPACITY => Slot(r, i) \in Slots
         /\ i = RING_CAPACITY => Slot(r, i) = r.head
<1>1. /\ RING_CAPACITY \in Nat \ {0} /\ r.head \in 0 .. RING_CAPACITY - 1
      /\ r.head + i \in 0 .. 2 * RING_CAPACITY - 1
  BY RingAssumption DEF RingType, Slots
<1>2. Slot(r, i) = IF r.head + i < RING_CAPACITY THEN r.head + i
                                                 ELSE r.head + i - RING_CAPACITY
  <2> DEFINE c == RING_CAPACITY
             x == r.head + i
  <2>1. c \in Nat \ {0} /\ x \in 0 .. 2 * c - 1
    BY <1>1
  <2>3. Slot(r, i) = x % c
    BY DEF Slot
  <2> HIDE DEF c, x
  <2>2. x % c = IF x < c THEN x ELSE x - c
    BY <2>1, GoingRound
  <2>4. Slot(r, i) = IF x < c THEN x ELSE x - c
    BY <2>2, <2>3
  <2> QED
    BY <1>1, <2>4 DEF c, x
<1> QED
  BY <1>1, <1>2 DEF Slots

LEMMA ContentsShape ==
  ASSUME NEW r \in RingType
  PROVE  /\ Contents(r) \in Seq(Message \cup {NoMessage})
         /\ Len(Contents(r)) = r.count
         /\ \A i \in 1 .. r.count : Contents(r)[i] = r.slots[Slot(r, i - 1)]
         /\ r.count > 0 => Head(Contents(r)) = Oldest(r)
<1>1. r.count \in 0 .. RING_CAPACITY /\ RING_CAPACITY \in Nat \ {0}
  BY RingAssumption DEF RingType
<1>2. \A i \in 1 .. r.count : r.slots[Slot(r, i - 1)] \in Message \cup {NoMessage}
  BY <1>1, SlotValue DEF RingType
<1>3. Contents(r) \in Seq(Message \cup {NoMessage}) /\ Len(Contents(r)) = r.count
  BY <1>1, <1>2 DEF Contents
<1>4. \A i \in 1 .. r.count : Contents(r)[i] = r.slots[Slot(r, i - 1)]
  BY DEF Contents
<1>5. r.count > 0 => Head(Contents(r)) = Oldest(r)
  <2> SUFFICES ASSUME r.count > 0 PROVE Head(Contents(r)) = Oldest(r)
    OBVIOUS
  <2>1. Slot(r, 0) = r.head
    BY <1>1, SlotValue DEF RingType, Slots
  <2>2. Contents(r)[1] = r.slots[Slot(r, 1 - 1)]
    BY <1>1, <1>4
  <2> QED
    BY <1>1, <1>3, <2>1, <2>2 DEF Oldest
<1> QED
  BY <1>3, <1>4, <1>5

-----------------------------------------------------------------------------
(* Popped takes the oldest message out and leaves the others in order.     *)
LEMMA PoppedIsTail ==
  ASSUME NEW r \in RingType, r.count > 0
  PROVE  /\ Popped(r) \in RingType
         /\ Popped(r).count = r.count - 1
         /\ Contents(Popped(r)) = Tail(Contents(r))
<1> DEFINE p == Popped(r)
<1>1. r.count \in 1 .. RING_CAPACITY /\ RING_CAPACITY \in Nat \ {0}
  BY RingAssumption DEF RingType
<1>2. p = [slots |-> r.slots, head |-> Slot(r, 1), count |-> r.count - 1]
  BY DEF Popped
<1>3. Slot(r, 1) \in Slots
  <2>1. 1 \in 0 .. RING_CAPACITY /\ (1 < RING_CAPACITY \/ 1 = RING_CAPACITY)
    BY <1>1
  <2> QED
    BY <2>1, SlotValue DEF RingType
<1>4. p \in RingType
  BY <1>1, <1>2, <1>3 DEF RingType
<1>5. \A i \in 1 .. p.count : Slot(p, i - 1) = Slot(r, i)
  <2> SUFFICES ASSUME NEW i \in 1 .. p.count PROVE Slot(p, i - 1) = Slot(r, i)
    OBVIOUS
  <2>1. i \in 1 .. RING_CAPACITY - 1
    BY <1>1, <1>2
  <2>2. r.head \in 0 .. RING_CAPACITY - 1
    BY DEF RingType, Slots
  <2>3. Slot(r, 1) = IF r.head + 1 < RING_CAPACITY THEN r.head + 1 ELSE r.head + 1 - RING_CAPACITY
    BY <1>1, SlotValue
  <2>4. Slot(r, i) = IF r.head + i < RING_CAPACITY THEN r.head + i ELSE r.head + i - RING_CAPACITY
    BY <2>1, <1>1, SlotValue
  <2>5. Slot(p, i - 1) = IF p.head + (i - 1) < RING_CAPACITY THEN p.head + (i - 1)
                                                     ELSE p.head + (i - 1) - RING_CAPACITY
    BY <2>1, <1>1, <1>4, SlotValue
  <2> QED
    BY <1>1, <1>2, <2>1, <2>2, <2>3, <2>4, <2>5
<1>6. /\ Contents(p) \in Seq(Message \cup {NoMessage}) /\ Len(Contents(p)) = r.count - 1
      /\ \A i \in 1 .. r.count - 1 : Contents(p)[i] = r.slots[Slot(r, i)]
  BY <1>2, <1>4, <1>5, ContentsShape
<1>7. /\ Contents(r) \in Seq(Message \cup {NoMessage}) /\ Len(Contents(r)) = r.count
      /\ \A i \in 1 .. r.count - 1 : Contents(r)[i + 1] = r.slots[Slot(r, i)]
  <2>1. \A i \in 1 .. r.count - 1 : i + 1 \in 1 .. r.count /\ i + 1 - 1 = i
    BY <1>1
  <2> QED
    BY <2>1, ContentsShape
<1>8. /\ Tail(Contents(r)) \in Seq(Message \cup {NoMessage})
      /\ Len(Tail(Contents(r))) = r.count - 1
      /\ \A i \in 1 .. r.count - 1 : Tail(Contents(r))[i] = Contents(r)[i + 1]
  BY <1>1, <1>7
<1>9. Contents(p) = Tail(Contents(r))
  BY <1>1, <1>6, <1>7, <1>8
<1> QED
  BY <1>2, <1>4, <1>9

(* Placed puts a message behind the others when there is room.             *)
LEMMA PlacedIsAppend ==
  ASSUME NEW r \in RingType, ~Full(r), NEW m \in Message
  PROVE  /\ Placed(r, m) \in RingType
         /\ Placed(r, m).count = r.count + 1
         /\ Contents(Placed(r, m)) = Append(Contents(r), m)
<1> DEFINE p == Placed(r, m)
           k == Slot(r, r.count)
<1>1. r.count \in 0 .. RING_CAPACITY - 1 /\ RING_CAPACITY \in Nat \ {0}
  BY RingAssumption DEF RingType, Full
<1>2. p = [slots |-> [r.slots EXCEPT ![k] = m], head |-> r.head, count |-> r.count + 1]
  BY DEF Placed
<1>3. k \in Slots
  BY <1>1, SlotValue
<1>4. p \in RingType
  BY <1>1, <1>2, <1>3 DEF RingType
<1>5. \A i \in 0 .. r.count : Slot(p, i) = Slot(r, i)
  BY <1>2 DEF Slot
<1>6. \A i \in 0 .. r.count - 1 : Slot(r, i) \in Slots /\ Slot(r, i) # k
  <2> SUFFICES ASSUME NEW i \in 0 .. r.count - 1 PROVE Slot(r, i) \in Slots /\ Slot(r, i) # k
    OBVIOUS
  <2>1. i \in 0 .. RING_CAPACITY /\ i < RING_CAPACITY /\ i < r.count
    BY <1>1
  <2>2. r.head \in 0 .. RING_CAPACITY - 1
    BY DEF RingType, Slots
  <2>3. Slot(r, i) = IF r.head + i < RING_CAPACITY THEN r.head + i ELSE r.head + i - RING_CAPACITY
    BY <2>1, SlotValue
  <2>4. k = IF r.head + r.count < RING_CAPACITY THEN r.head + r.count
                                                ELSE r.head + r.count - RING_CAPACITY
    BY <1>1, SlotValue
  <2> QED
    BY <1>1, <2>1, <2>2, <2>3, <2>4, SlotValue DEF Slots
<1>7. /\ Contents(p) \in Seq(Message \cup {NoMessage}) /\ Len(Contents(p)) = r.count + 1
      /\ \A i \in 1 .. r.count + 1 : Contents(p)[i] = p.slots[Slot(r, i - 1)]
  <2>1. \A i \in 1 .. r.count + 1 : i - 1 \in 0 .. r.count
    BY <1>1
  <2> QED
    BY <1>2, <1>4, <1>5, <2>1, ContentsShape
<1>8. /\ Contents(r) \in Seq(Message \cup {NoMessage}) /\ Len(Contents(r)) = r.count
      /\ \A i \in 1 .. r.count : Contents(r)[i] = r.slots[Slot(r, i - 1)]
  BY ContentsShape
<1>9. \A i \in 1 .. r.count : Contents(p)[i] = Contents(r)[i]
  <2> SUFFICES ASSUME NEW i \in 1 .. r.count PROVE Contents(p)[i] = Contents(r)[i]
    OBVIOUS
  <2>1. i - 1 \in 0 .. r.count - 1 /\ i \in 1 .. r.count + 1
    BY <1>1
  <2>2. p.slots[Slot(r, i - 1)] = r.slots[Slot(r, i - 1)]
    BY <1>2, <1>3, <1>6, <2>1 DEF RingType
  <2> QED
    BY <1>7, <1>8, <2>1, <2>2
<1>10. Contents(p)[r.count + 1] = m
  <2>1. r.count + 1 \in 1 .. r.count + 1 /\ r.count + 1 - 1 = r.count
    BY <1>1
  <2>2. p.slots[k] = m
    BY <1>2, <1>3 DEF RingType
  <2>3. Contents(p)[r.count + 1] = p.slots[Slot(r, r.count + 1 - 1)]
    <3> HIDE DEF p
    <3> QED
      BY <1>1, <1>7, <2>1
  <2>4. Slot(r, r.count + 1 - 1) = k
    BY <2>1
  <2> QED
    BY <2>2, <2>3, <2>4
<1>11. Contents(p) = Append(Contents(r), m)
  <2> DEFINE a == Append(Contents(r), m)
  <2>1. /\ a \in Seq(Message \cup {NoMessage}) /\ Len(a) = r.count + 1
        /\ \A i \in 1 .. r.count : a[i] = Contents(r)[i]
        /\ a[r.count + 1] = m
    BY <1>1, <1>8
  <2>2. /\ Contents(p) \in Seq(Message \cup {NoMessage})
        /\ Len(Contents(p)) = Len(a) /\ Len(a) = r.count + 1
    BY <1>7, <2>1
  <2> HIDE DEF a, p
  <2>3. \A i \in 1 .. r.count + 1 : Contents(p)[i] = a[i]
    <3> SUFFICES ASSUME NEW i \in 1 .. r.count + 1 PROVE Contents(p)[i] = a[i]
      OBVIOUS
    <3>1. i \in 1 .. r.count \/ i = r.count + 1
      BY <1>1
    <3> QED
      BY <1>9, <1>10, <2>1, <3>1
  <2>4. Contents(p) = a
    BY <2>1, <2>2, <2>3, SameSequence
  <2> QED
    BY <2>4 DEF a
<1>12. p.count = r.count + 1
  BY <1>2
<1> QED
  BY <1>4, <1>11, <1>12

(* Pushed (ringPush) is an append to the messages held, without the oldest *)
(* one when the ring is full: the array, its head and its count implement  *)
(* a queue of bounded length, for every capacity (main.cpp 149-157).       *)
THEOREM RingIsQueue ==
  ASSUME NEW r \in RingType, NEW m \in Message
  PROVE  /\ Pushed(r, m) \in RingType
         /\ Contents(Pushed(r, m)) =
              Append(IF Full(r) THEN Tail(Contents(r)) ELSE Contents(r), m)
         /\ Pushed(r, m).count = IF Full(r) THEN r.count ELSE r.count + 1
<1>1. CASE ~Full(r)
  BY <1>1, PlacedIsAppend DEF Pushed
<1>2. CASE Full(r)
  <2>1. r.count > 0 /\ r.count = RING_CAPACITY /\ RING_CAPACITY \in Nat
    BY <1>2, RingAssumption DEF Full
  <2>2. /\ Popped(r) \in RingType /\ Popped(r).count = r.count - 1
        /\ Contents(Popped(r)) = Tail(Contents(r))
    BY <2>1, PoppedIsTail
  <2>3. ~Full(Popped(r))
    BY <2>1, <2>2 DEF Full
  <2> DEFINE q == Popped(r)
  <2> HIDE DEF q
  <2>4. /\ Placed(q, m) \in RingType /\ Placed(q, m).count = q.count + 1
        /\ Contents(Placed(q, m)) = Append(Contents(q), m)
    BY <2>2, <2>3, PlacedIsAppend DEF q
  <2>5. Pushed(r, m) = Placed(q, m)
    BY <1>2 DEF Pushed, q
  <2>6. q.count + 1 = r.count /\ Contents(q) = Tail(Contents(r))
    BY <2>1, <2>2 DEF q
  <2> QED
    BY <1>2, <2>4, <2>5, <2>6
<1> QED
  BY <1>1, <1>2
=============================================================================
