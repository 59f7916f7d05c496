----------------------------- MODULE RingBuffer -----------------------------
(***************************************************************************)
(* The ring of unsent node messages                                        *)
(* (retrofit/esp32-ct-clamp/firmware/src/main.cpp, ringPush and the        *)
(* removal in mqttEnsure): an array, the index of the oldest message and   *)
(* the number of messages.                                                 *)
(***************************************************************************)
EXTENDS Integers, Sequences

CONSTANTS
  RING_CAPACITY,
  Message,
  NoMessage      \* what a slot holds at first

ASSUME RingAssumption == RING_CAPACITY \in Nat \ {0} /\ NoMessage \notin Message

Slots == 0 .. RING_CAPACITY - 1

RingType ==
  [slots : [Slots -> Message \cup {NoMessage}], head : Slots, count : 0 .. RING_CAPACITY]

EmptyRing == [slots |-> [i \in Slots |-> NoMessage], head |-> 0, count |-> 0]

Slot(r, i) == (r.head + i) % RING_CAPACITY
Full(r) == r.count = RING_CAPACITY

Oldest(r) == r.slots[r.head]

(* The oldest message is taken out: its slot is free, the string stays.    *)
Popped(r) == [slots |-> r.slots, head |-> Slot(r, 1), count |-> r.count - 1]

Placed(r, m) ==
  [slots |-> [r.slots EXCEPT ![Slot(r, r.count)] = m], head |-> r.head, count |-> r.count + 1]

(* Mutation: a full ring is written over, and its oldest message is not    *)
(* moved past.                                                             *)
Pushed_HeadStays(r, m) ==
  IF Full(r) THEN [r EXCEPT !.slots[r.head] = m] ELSE Placed(r, m)

(* ringPush: a full ring loses its oldest message.                         *)
Pushed(r, m) == IF Full(r) THEN Placed(Popped(r), m) ELSE Placed(r, m)

(* What is in the ring, oldest first.                                      *)
Contents(r) == [i \in 1 .. r.count |-> r.slots[Slot(r, i - 1)]]
=============================================================================
