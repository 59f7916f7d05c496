-------------------------- MODULE RetrofitNodeProofs --------------------------
(***************************************************************************)
(* What a retrofit node and its adapter keep for any ring, any number of   *)
(* messages and any number of faults.                                      *)
(*                                                                         *)
(* A reading goes one way: from the turn of loop() that made it, through   *)
(* the ring or past it when it is empty, the connection, the inbox of the  *)
(* adapter's client and its queue, to emit().  Path is that way, last      *)
(* place first; the order proof is that a step moves the first reading of  *)
(* one place behind the last of the next one that holds any.               *)
(*                                                                         *)
(* The account of the readings: every reading is in the turn of loop()     *)
(* that made it, in the ring, among the dropped ones, or it left the node, *)
(* and in one of these only.  It is what the last part needs, the number   *)
(* of copies: what the node still has was never forwarded, and what the    *)
(* broker forwards once makes one copy for each client.                    *)
(***************************************************************************)
EXTENDS RetrofitNode, RingBufferProofs, FiniteSetTheorems

Mail == [kind : {"hello"}, id : Nat, count : Nat] \cup Message

First(boxes) == IF boxes = <<>> THEN <<>> ELSE boxes[1]

Path == <<emitted, queue, First(inbox), net, Contents(ring), todo>>
Places == 1 .. 6

Rising(s) ==
  \A i, j \in DOMAIN s :
    i < j /\ s[i].kind # "hello" /\ s[j].kind # "hello" => s[i].id < s[j].id

Earlier(A, B) == \A m \in A, n \in B : m.id < n.id

Ordered(S) ==
  /\ \A c \in Places : Rising(S[c])
  /\ \A a, b \in Places : a < b => Earlier(Readings(S[a]), Readings(S[b]))

TypeOK ==
  /\ pc \in {"idle", "drain", "publish"} /\ todo \in Seq(Message) /\ (pc # "idle" => todo # <<>>)
  /\ samples \in Nat /\ dropped \in Nat
  /\ ring \in RingType /\ Contents(ring) \in Seq(Message)
  /\ conn \in {"none", "live", "dead"}
  /\ net \in Seq(Mail) /\ inbox \in Seq(Seq(Mail)) /\ Len(inbox) <= starts
  /\ stage \in {"down", "running", "stopped"} /\ queue \in Seq(Mail)
  /\ emitted \in Seq(Message) /\ flags \subseteq Nat \X Nat
  /\ made \in 0 .. MaxMessages /\ boot \in Nat /\ starts \in Nat /\ faults \in 0 .. MaxFaults
  /\ gone \subseteq Message /\ overflowed \subseteq Message

(* While the node is connected, a new message waits for the ring to be     *)
(* empty, unless a publish failed and the connection stayed.               *)
NewerWaits == conn # "none" /\ pc # "drain" /\ ~short => ring.count = 0

Way(S, n) == Ordered(S) /\ \A c \in Places : \A m \in Readings(S[c]) : m.id <= n

PathInv == NewerWaits /\ (~short /\ starts <= 1 => Way(Path, made))

(* The hello of this connection, with the losses since the boot, is on its *)
(* way or has been handled.                                                *)
Telling == conn = "live" /\ ~short /\ ~missed /\ stage # "stopped"

Told ==
  \/ dropped = 0 \/ <<boot, dropped>> \in flags
  \/ Hello(dropped) \in ToSet(net) \/ Hello(dropped) \in ToSet(queue)
  \/ \E i \in DOMAIN inbox : Hello(dropped) \in ToSet(inbox[i])

LossInv == Telling => Told

-----------------------------------------------------------------------------
(* The readings of a sequence and of its parts.                            *)
LEMMA ReadingsOf ==
  ASSUME NEW s \in Seq(Mail)
  PROVE  /\ Readings(s) = {m \in {s[i] : i \in 1 .. Len(s)} : m.kind # "hello"}
         /\ DOMAIN s = 1 .. Len(s)
BY DEF Readings, ToSet

LEMMA NoReadings == Readings(<<>>) = {} /\ Rising(<<>>)
BY DEF Readings, ToSet, Rising

LEMMA OneReading ==
  ASSUME NEW m
  PROVE  Readings(<<m>>) = IF m.kind = "hello" THEN {} ELSE {m}
<1>1. ToSet(<<m>>) = {m}
  BY DEF ToSet
<1> QED
  BY <1>1 DEF Readings

LEMMA AppendReadings ==
  ASSUME NEW s \in Seq(Mail), NEW m \in Mail
  PROVE  /\ Append(s, m) \in Seq(Mail)
         /\ ToSet(Append(s, m)) = ToSet(s) \cup {m}
         /\ Readings(Append(s, m)) = Readings(s) \cup Readings(<<m>>)
         /\ Rising(s) /\ Earlier(Readings(s), Readings(<<m>>)) => Rising(Append(s, m))
<1> DEFINE a == Append(s, m)
<1>1. /\ a \in Seq(Mail) /\ DOMAIN a = 1 .. Len(s) + 1 /\ DOMAIN s = 1 .. Len(s) /\ Len(s) \in Nat
      /\ \A i \in 1 .. Len(s) : a[i] = s[i]
      /\ a[Len(s) + 1] = m
  OBVIOUS
<1> HIDE DEF a
<1>2. ToSet(a) = ToSet(s) \cup {m}
  BY <1>1 DEF ToSet
<1>3. Readings(a) = Readings(s) \cup Readings(<<m>>)
  BY <1>2, OneReading DEF Readings
<1>4. ASSUME Rising(s), Earlier(Readings(s), Readings(<<m>>)) PROVE Rising(a)
  <2> SUFFICES ASSUME NEW i \in DOMAIN a, NEW j \in DOMAIN a,
                      i < j, a[i].kind # "hello", a[j].kind # "hello"
               PROVE  a[i].id < a[j].id
    BY DEF Rising
  <2>1. i \in 1 .. Len(s) /\ (j \in 1 .. Len(s) \/ j = Len(s) + 1)
    BY <1>1
  <2>2. CASE j \in 1 .. Len(s)
    BY <1>1, <1>4, <2>1, <2>2 DEF Rising
  <2>3. CASE j = Len(s) + 1
    <3>1. a[i] \in Readings(s) /\ a[j] \in Readings(<<m>>)
      BY <1>1, <2>1, <2>3, OneReading DEF Readings, ToSet
    <3> QED
      BY <1>4, <3>1 DEF Earlier
  <2> QED
    BY <2>1, <2>2, <2>3
<1> QED
  BY <1>1, <1>2, <1>3, <1>4 DEF a

LEMMA TailReadings ==
  ASSUME NEW s \in Seq(Mail), s # <<>>
  PROVE  /\ Head(s) \in Mail /\ Tail(s) \in Seq(Mail)
         /\ ToSet(s) = {Head(s)} \cup ToSet(Tail(s))
         /\ Readings(s) = Readings(<<Head(s)>>) \cup Readings(Tail(s))
         /\ Rising(s) => /\ Rising(Tail(s))
                         /\ Earlier(Readings(<<Head(s)>>), Readings(Tail(s)))
<1> DEFINE t == Tail(s)
           h == Head(s)
<1>1. /\ t \in Seq(Mail) /\ h \in Mail
      /\ DOMAIN t = 1 .. Len(s) - 1 /\ DOMAIN s = 1 .. Len(s) /\ Len(s) \in Nat \ {0}
      /\ \A i \in 1 .. Len(s) - 1 : t[i] = s[i + 1]
      /\ s[1] = h
  OBVIOUS
<1> HIDE DEF t, h
<1>2. ToSet(s) = {h} \cup ToSet(t)
  <2>1. \A i \in 1 .. Len(s) : i = 1 \/ (i - 1 \in 1 .. Len(s) - 1 /\ s[i] = t[i - 1])
    BY <1>1
  <2>2. ToSet(s) \subseteq {h} \cup ToSet(t)
    <3> SUFFICES ASSUME NEW i \in 1 .. Len(s) PROVE s[i] \in {h} \cup ToSet(t)
      BY <1>1 DEF ToSet
    <3> QED
      BY <1>1, <2>1 DEF ToSet
  <2>3. \A i \in 1 .. Len(s) - 1 : i + 1 \in 1 .. Len(s)
    BY <1>1
  <2>4. 1 \in 1 .. Len(s)
    BY <1>1
  <2>5. {h} \cup ToSet(t) \subseteq ToSet(s)
    BY <1>1, <2>3, <2>4 DEF ToSet
  <2> QED
    BY <2>2, <2>5
<1>3. Readings(s) = Readings(<<h>>) \cup Readings(t)
  BY <1>2, OneReading DEF Readings
<1>4. ASSUME Rising(s) PROVE Rising(t)
  <2> SUFFICES ASSUME NEW i \in DOMAIN t, NEW j \in DOMAIN t,
                      i < j, t[i].kind # "hello", t[j].kind # "hello"
               PROVE  t[i].id < t[j].id
    BY DEF Rising
  <2>1. /\ i + 1 \in DOMAIN s /\ j + 1 \in DOMAIN s /\ i + 1 < j + 1
        /\ t[i] = s[i + 1] /\ t[j] = s[j + 1]
    BY <1>1
  <2> QED
    BY <1>4, <2>1 DEF Rising
<1>5. ASSUME Rising(s) PROVE Earlier(Readings(<<h>>), Readings(t))
  <2> SUFFICES ASSUME NEW m \in Readings(<<h>>), NEW n \in Readings(t) PROVE m.id < n.id
    BY DEF Earlier
  <2>1. m = h /\ h.kind # "hello"
    BY OneReading
  <2>2. PICK j \in DOMAIN t : t[j] = n /\ n.kind # "hello"
    BY DEF Readings, ToSet
  <2>3. 1 \in DOMAIN s /\ j + 1 \in DOMAIN s /\ 1 < j + 1 /\ s[j + 1] = n /\ s[1] = h
    BY <1>1, <2>2
  <2> QED
    BY <1>5, <2>1, <2>2, <2>3 DEF Rising
<1> QED
  BY <1>1, <1>2, <1>3, <1>4, <1>5 DEF t, h

LEMMA PrefixReadings ==
  ASSUME NEW s \in Seq(Mail), NEW k \in 0 .. Len(s)
  PROVE  /\ SubSeq(s, 1, k) \in Seq(Mail)
         /\ Readings(s) = Readings(SubSeq(s, 1, k)) \cup Readings(SubSeq(s, k + 1, Len(s)))
         /\ Rising(s) => Rising(SubSeq(s, 1, k))
<1> DEFINE p == SubSeq(s, 1, k)
           q == SubSeq(s, k + 1, Len(s))
<1>1. /\ p \in Seq(Mail) /\ DOMAIN p = 1 .. k
      /\ \A i \in 1 .. k : p[i] = s[i]
  OBVIOUS
<1>2. /\ q \in Seq(Mail) /\ DOMAIN q = 1 .. Len(s) - k
      /\ \A i \in 1 .. Len(s) - k : q[i] = s[k + i]
  OBVIOUS
<1>3. DOMAIN s = 1 .. Len(s) /\ Len(s) \in Nat /\ k \in Nat /\ k <= Len(s)
  OBVIOUS
<1> HIDE DEF p, q
<1>4. ToSet(s) = ToSet(p) \cup ToSet(q)
  <2>1. \A i \in 1 .. Len(s) : i \in 1 .. k \/ (i - k \in 1 .. Len(s) - k /\ s[i] = q[i - k])
    BY <1>2, <1>3
  <2>2. ToSet(s) \subseteq ToSet(p) \cup ToSet(q)
    BY <1>1, <1>2, <1>3, <2>1 DEF ToSet
  <2>3. \A i \in 1 .. Len(s) - k : k + i \in 1 .. Len(s)
    BY <1>3
  <2>4. ToSet(p) \cup ToSet(q) \subseteq ToSet(s)
    BY <1>1, <1>2, <1>3, <2>3 DEF ToSet
  <2> QED
    BY <2>2, <2>4
<1>5. Readings(s) = Readings(p) \cup Readings(q)
  BY <1>4 DEF Readings
<1>6. Rising(s) => Rising(p)
  BY <1>1, <1>3 DEF Rising
<1> QED
  BY <1>1, <1>5, <1>6 DEF p, q

-----------------------------------------------------------------------------
(* Places that lose readings, or get mail that is no reading, stay in      *)
(* order.                                                                  *)
LEMMA OrderedShrinks ==
  ASSUME NEW S, NEW T, Ordered(S),
         \A c \in Places : Readings(T[c]) \subseteq Readings(S[c]) /\ Rising(T[c])
  PROVE  Ordered(T)
<1>1. ASSUME NEW a \in Places, NEW b \in Places, a < b
      PROVE  Earlier(Readings(T[a]), Readings(T[b]))
  BY <1>1 DEF Ordered, Earlier
<1> QED
  BY <1>1 DEF Ordered

(* The first mail of a place goes behind the last of an earlier one, past  *)
(* places without readings.                                                *)
LEMMA OrderedMoves ==
  ASSUME NEW S, NEW T, Ordered(S), NEW a \in Places, NEW b \in Places, a < b,
         S[a] \in Seq(Mail), S[b] \in Seq(Mail), S[b] # <<>>,
         \A c \in Places : a < c /\ c < b => Readings(S[c]) = {},
         T[a] = Append(S[a], Head(S[b])), T[b] = Tail(S[b]),
         \A c \in Places : c # a /\ c # b => T[c] = S[c]
  PROVE  Ordered(T)
<1> DEFINE h == Readings(<<Head(S[b])>>)
<1>1. /\ Head(S[b]) \in Mail /\ Rising(T[b]) /\ Earlier(h, Readings(T[b]))
      /\ Readings(S[b]) = h \cup Readings(T[b])
  BY TailReadings DEF Ordered
<1>2. Readings(T[a]) = Readings(S[a]) \cup h /\ Rising(T[a])
  <2>1. Earlier(Readings(S[a]), h)
    BY <1>1 DEF Ordered, Earlier
  <2> QED
    BY <1>1, <2>1, AppendReadings DEF Ordered
<1> HIDE DEF h
<1>3. \A c \in Places : Rising(T[c])
  BY <1>1, <1>2 DEF Ordered
<1>4. ASSUME NEW c \in Places, NEW d \in Places, c < d
      PROVE  Earlier(Readings(T[c]), Readings(T[d]))
  <2>1. Earlier(Readings(S[c]), Readings(S[d]))
    BY <1>4 DEF Ordered
  <2>2. CASE c = a /\ d = b
    BY <1>1, <1>2, <2>1, <2>2 DEF Earlier
  <2>3. CASE c = a /\ d # b
    <3>1. T[d] = S[d] /\ (b < d \/ Readings(S[d]) = {})
      BY <1>4, <2>3 DEF Places
    <3>2. Earlier(h, Readings(T[d]))
      BY <1>1, <3>1 DEF Ordered, Earlier
    <3> QED
      BY <1>2, <2>1, <2>3, <3>1, <3>2 DEF Earlier
  <2>4. CASE d = a
    <3>1. c # a /\ c # b /\ T[c] = S[c] /\ c < b
      BY <1>4, <2>4 DEF Places
    <3>2. Earlier(Readings(S[c]), h)
      BY <1>1, <3>1 DEF Ordered, Earlier
    <3> QED
      BY <1>2, <2>1, <2>4, <3>1, <3>2 DEF Earlier
  <2>5. CASE c # a /\ d # a
    <3>1. Readings(T[c]) \subseteq Readings(S[c]) /\ Readings(T[d]) \subseteq Readings(S[d])
      BY <1>1, <2>5
    <3> QED
      BY <2>1, <3>1 DEF Earlier
  <2> QED
    BY <2>2, <2>3, <2>4, <2>5
<1> QED
  BY <1>3, <1>4 DEF Ordered

-----------------------------------------------------------------------------
(* Types.                                                                  *)
LEMMA MailTypes ==
  /\ Message \subseteq Mail
  /\ \A m \in Message : m.kind # "hello" /\ m.id \in 1 .. MaxMessages
  /\ \A m \in Mail : m.kind # "hello" => m \in Message
  /\ \A s \in Seq(Message) : s \in Seq(Mail)
  /\ \A s \in Seq(Mail) : Readings(s) \subseteq Message
<1>1. Message \subseteq Mail
  BY DEF Mail
<1>2. \A m \in Message : m.kind # "hello" /\ m.id \in 1 .. MaxMessages
  BY NodeAssumption
<1>3. \A m \in Mail : m.kind # "hello" => m \in Message
  BY DEF Mail
<1>4. \A s \in Seq(Message) : s \in Seq(Mail)
  BY <1>1
<1>5. \A s \in Seq(Mail) : Readings(s) \subseteq Message
  BY <1>3 DEF Readings, ToSet
<1> QED
  BY <1>1, <1>2, <1>3, <1>4, <1>5

LEMMA DeliveredType ==
  ASSUME TypeOK
  PROVE  Delivered \subseteq Message
BY MailTypes DEF TypeOK, Delivered

(* The message at the head of the ring, and the ring without it.           *)
LEMMA RingPops ==
  ASSUME TypeOK, ring.count > 0
  PROVE  /\ Oldest(ring) \in Message /\ Popped(ring) \in RingType
         /\ Contents(ring) # <<>> /\ Head(Contents(ring)) = Oldest(ring)
         /\ Contents(Popped(ring)) = Tail(Contents(ring))
         /\ Contents(Popped(ring)) \in Seq(Message)
<1>1. ring \in RingType /\ Contents(ring) \in Seq(Message)
  BY DEF TypeOK
<1>2. Len(Contents(ring)) = ring.count /\ Head(Contents(ring)) = Oldest(ring)
  BY <1>1, ContentsShape
<1>3. Contents(ring) # <<>>
  BY <1>2
<1>4. Popped(ring) \in RingType /\ Contents(Popped(ring)) = Tail(Contents(ring))
  BY <1>1, PoppedIsTail
<1> QED
  BY <1>1, <1>2, <1>3, <1>4

LEMMA RingPushes ==
  ASSUME TypeOK, NEW m \in Message
  PROVE  /\ Pushed(ring, m) \in RingType
         /\ Contents(Pushed(ring, m)) =
              Append(IF Full(ring) THEN Tail(Contents(ring)) ELSE Contents(ring), m)
         /\ Contents(Pushed(ring, m)) \in Seq(Message)
         /\ Full(ring) => ring.count > 0 /\ Contents(ring) # <<>>
<1>1. ring \in RingType /\ Contents(ring) \in Seq(Message)
  BY DEF TypeOK
<1>2. Full(ring) => ring.count > 0
  BY RingAssumption DEF Full
<1>3. Full(ring) => Contents(ring) # <<>>
  BY <1>2, RingPops
<1>4. (IF Full(ring) THEN Tail(Contents(ring)) ELSE Contents(ring)) \in Seq(Message)
  BY <1>1, <1>3
<1>5. /\ Pushed(ring, m) \in RingType
      /\ Contents(Pushed(ring, m)) =
           Append(IF Full(ring) THEN Tail(Contents(ring)) ELSE Contents(ring), m)
  BY <1>1, RingIsQueue
<1> QED
  BY <1>2, <1>3, <1>4, <1>5

LEMMA EmptyRingType == EmptyRing \in RingType /\ Contents(EmptyRing) = <<>>
<1>1. EmptyRing \in RingType
  BY RingAssumption DEF EmptyRing, RingType, Slots
<1>2. Len(Contents(EmptyRing)) = 0 /\ Contents(EmptyRing) \in Seq(Message \cup {NoMessage})
  BY <1>1, ContentsShape DEF EmptyRing
<1> QED
  BY <1>1, <1>2

LEMMA TypeInit == Init => TypeOK
BY EmptyRingType, NodeAssumption DEF Init, TypeOK

LEMMA WrittenTypes ==
  ASSUME TypeOK, NEW m \in Mail, Written(m)
  PROVE  /\ net' \in Seq(Mail) /\ conn' \in {"none", "live", "dead"}
         /\ gone' \subseteq Message /\ faults' \in 0 .. MaxFaults
<1>1. Readings(<<m>>) \subseteq Message
  BY MailTypes, OneReading
<1>2. CASE conn = "live" /\ net' = Append(net, m) /\ UNCHANGED <<conn, gone, short, faults>>
  BY <1>2 DEF TypeOK
<1>3. CASE conn = "dead" /\ gone' = gone \cup Readings(<<m>>) /\ UNCHANGED <<net, conn, short, faults>>
  BY <1>1, <1>3 DEF TypeOK
<1> QED
  BY <1>2, <1>3 DEF Written

LEMMA NotWrittenTypes ==
  ASSUME TypeOK, NotWritten
  PROVE  /\ net' = net /\ gone' = gone /\ conn' \in {"none", "live", "dead"}
         /\ (short' \/ conn' = "none") /\ (short => short') /\ faults' \in 0 .. MaxFaults
BY NodeAssumption DEF TypeOK, NotWritten, Fault

LEMMA BufferedTypes ==
  ASSUME TypeOK, todo # <<>>, Buffered
  PROVE  /\ pc' = "idle" /\ todo' \in Seq(Message) /\ dropped' \in Nat
         /\ ring' \in RingType /\ Contents(ring)' \in Seq(Message)
         /\ overflowed' \subseteq Message
<1>1. Head(todo) \in Message /\ Tail(todo) \in Seq(Message)
  BY DEF TypeOK
<1>2. /\ Pushed(ring, Head(todo)) \in RingType
      /\ Contents(Pushed(ring, Head(todo))) \in Seq(Message)
      /\ Full(ring) => ring.count > 0
  BY <1>1, RingPushes
<1>3. Full(ring) => Oldest(ring) \in Message
  BY <1>2, RingPops
<1>4. Contents(ring)' = Contents(ring')
  BY DEF Contents, Slot
<1> QED
  BY <1>1, <1>2, <1>3, <1>4 DEF TypeOK, Buffered, Drops

LEMMA SampleKinds ==
  ASSUME Sample
  PROVE  \E kinds \in Seq({"event", "energy"}) :
           /\ Len(kinds) \in 0 .. 2
           /\ todo' = [i \in DOMAIN kinds |-> Reading(kinds[i], made + i)]
           /\ made' = made + Len(kinds)
<1> DEFINE due == samples + 1 >= ENERGY_INTERVAL
           event == IF running' # running THEN <<"event">> ELSE <<>>
           energy == IF due THEN <<"energy">> ELSE <<>>
           kinds == event \o energy
<1>1. /\ todo' = [i \in DOMAIN kinds |-> Reading(kinds[i], made + i)]
      /\ made' = made + Len(kinds)
  BY DEF Sample
<1>2. /\ <<>> \in Seq({"event", "energy"}) /\ Len(<<>>) = 0
      /\ <<"event">> \in Seq({"event", "energy"}) /\ Len(<<"event">>) = 1
      /\ <<"energy">> \in Seq({"event", "energy"}) /\ Len(<<"energy">>) = 1
  OBVIOUS
<1>3. event = <<>> \/ event = <<"event">>
  OBVIOUS
<1>4. energy = <<>> \/ energy = <<"energy">>
  OBVIOUS
<1> HIDE DEF event, energy
<1>5. event \in Seq({"event", "energy"}) /\ (Len(event) = 0 \/ Len(event) = 1)
  BY <1>2, <1>3
<1>6. energy \in Seq({"event", "energy"}) /\ (Len(energy) = 0 \/ Len(energy) = 1)
  BY <1>2, <1>4
<1>7. kinds \in Seq({"event", "energy"}) /\ Len(kinds) = Len(event) + Len(energy)
  BY <1>5, <1>6
<1>8. Len(event) \in {0, 1} /\ Len(energy) \in {0, 1} /\ \A x, y \in {0, 1} : x + y \in 0 .. 2
  BY <1>5, <1>6
<1>9. kinds \in Seq({"event", "energy"}) /\ Len(kinds) \in 0 .. 2
  BY <1>7, <1>8
<1> HIDE DEF kinds
<1> QED
  BY <1>1, <1>9

LEMMA SampleType == ASSUME TypeOK, Sample PROVE TypeOK'
<1>1. PICK kinds \in Seq({"event", "energy"}) :
        /\ Len(kinds) \in 0 .. 2
        /\ todo' = [i \in DOMAIN kinds |-> Reading(kinds[i], made + i)]
        /\ made' = made + Len(kinds)
  BY SampleKinds
<1>2. made \in Nat /\ MaxMessages \in Nat /\ samples \in Nat /\ made + 2 <= MaxMessages
  BY NodeAssumption DEF TypeOK, Sample
<1>3. samples' \in Nat
  BY <1>2 DEF Sample
<1>4. made' \in 0 .. MaxMessages
  <2>1. made' = made + Len(kinds) /\ Len(kinds) \in 0 .. 2
    BY <1>1
  <2>2. \A n \in 0 .. 2 : made + n \in 0 .. MaxMessages
    BY <1>2
  <2> QED
    BY <2>1, <2>2
<1>5. \A i \in DOMAIN kinds : Reading(kinds[i], made + i) \in Message
  <2> SUFFICES ASSUME NEW i \in DOMAIN kinds PROVE Reading(kinds[i], made + i) \in Message
    OBVIOUS
  <2>1. i \in 1 .. Len(kinds) /\ kinds[i] \in {"event", "energy"}
    BY <1>1
  <2>2. made + i \in 1 .. MaxMessages
    BY <1>1, <1>2, <2>1
  <2> QED
    BY <2>1, <2>2, NodeAssumption DEF Reading
<1>6. todo' \in Seq(Message)
  <2>1. DOMAIN kinds = 1 .. Len(kinds) /\ Len(kinds) \in Nat
    BY <1>1
  <2> QED
    BY <1>1, <1>5, <2>1
<1> QED
  BY <1>3, <1>4, <1>6 DEF Sample, TypeOK, linkVars, adapterVars

LEMMA FaultType == ASSUME TypeOK, Fault PROVE faults' \in 0 .. MaxFaults
BY NodeAssumption DEF TypeOK, Fault

LEMMA HelloType == ASSUME TypeOK, NEW n \in Nat PROVE Hello(n) \in Mail /\ Hello(n).kind = "hello"
BY DEF TypeOK, Hello, Mail

LEMMA PublisherType ==
  ASSUME TypeOK, EnsureConnected \/ EnsureFails \/ EnsureConnects \/ Replay \/ ReplayEnds
                   \/ Publish \/ Notice
  PROVE  TypeOK'
<1>1. CASE EnsureConnected
  BY <1>1 DEF TypeOK, EnsureConnected, linkVars, adapterVars, bookVars
<1>2. CASE EnsureFails
  <2>1. todo # <<>> /\ Buffered
    BY <1>2 DEF EnsureFails
  <2> QED
    BY <1>2, <2>1, BufferedTypes DEF TypeOK, EnsureFails, linkVars, adapterVars
<1>3. CASE EnsureConnects
  <2>1. Hello(HelloCount) \in Mail
    BY HelloType DEF TypeOK, HelloCount
  <2>2. net' = net \/ net' = Append(net, Hello(HelloCount))
    BY <1>3 DEF EnsureConnects
  <2>3. faults' \in 0 .. MaxFaults
    BY <1>3, FaultType DEF TypeOK, EnsureConnects
  <2>4. net' \in Seq(Mail)
    <3>1. net \in Seq(Mail)
      BY DEF TypeOK
    <3>2. Append(net, Hello(HelloCount)) \in Seq(Mail)
      BY <2>1, <3>1
    <3> QED
      BY <2>2, <3>1, <3>2
  <2>5. todo # <<>>
    BY <1>3 DEF EnsureConnects
  <2> QED
    BY <1>3, <2>3, <2>4, <2>5 DEF TypeOK, EnsureConnects, adapterVars
<1>4. CASE Replay
  <2>1. /\ Oldest(ring) \in Mail /\ Popped(ring) \in RingType
        /\ Contents(Popped(ring)) \in Seq(Message)
    BY <1>4, RingPops, MailTypes DEF Replay
  <2>2. CASE Written(Oldest(ring)) /\ ring' = AfterReplay(ring) /\ UNCHANGED pc
    BY <1>4, <2>1, <2>2, WrittenTypes DEF TypeOK, Replay, AfterReplay, adapterVars
  <2>3. CASE NotWritten /\ pc' = "publish" /\ UNCHANGED ring
    BY <1>4, <2>3, NotWrittenTypes DEF TypeOK, Replay, adapterVars
  <2> QED
    BY <1>4, <2>2, <2>3 DEF Replay
<1>5. CASE ReplayEnds
  BY <1>5 DEF TypeOK, ReplayEnds, linkVars, adapterVars, bookVars
<1>6. CASE Publish
  <2>1. todo # <<>> /\ Head(todo) \in Mail /\ Tail(todo) \in Seq(Message)
    BY <1>6, MailTypes DEF TypeOK, Publish
  <2>2. CASE /\ Written(Head(todo))
             /\ todo' = Tail(todo) /\ pc' = "idle" /\ UNCHANGED <<ring, dropped, overflowed>>
    BY <1>6, <2>1, <2>2, WrittenTypes DEF TypeOK, Publish, adapterVars
  <2>3. CASE NotWritten /\ Buffered
    BY <1>6, <2>1, <2>3, NotWrittenTypes, BufferedTypes DEF TypeOK, Publish, adapterVars
  <2>4. CASE Buffered /\ UNCHANGED <<net, conn, gone, short, faults>>
    BY <1>6, <2>1, <2>4, BufferedTypes DEF TypeOK, Publish, adapterVars
  <2> QED
    BY <1>6, <2>2, <2>3, <2>4 DEF Publish
<1>7. CASE Notice
  BY <1>7 DEF TypeOK, Notice, linkVars, adapterVars, bookVars
<1> QED
  BY <1>1, <1>2, <1>3, <1>4, <1>5, <1>6, <1>7

(* The inboxes after a step: one more message each, one less in one of     *)
(* them, or one inbox more.                                                *)
LEMMA InboxTypes ==
  ASSUME NEW boxes \in Seq(Seq(Mail)), NEW m \in Mail, NEW i \in DOMAIN boxes
  PROVE  /\ [c \in DOMAIN boxes |-> Append(boxes[c], m)] \in Seq(Seq(Mail))
         /\ Len([c \in DOMAIN boxes |-> Append(boxes[c], m)]) = Len(boxes)
         /\ boxes[i] # <<>> =>
              /\ [boxes EXCEPT ![i] = Tail(@)] \in Seq(Seq(Mail))
              /\ Len([boxes EXCEPT ![i] = Tail(@)]) = Len(boxes)
<1>1. DOMAIN boxes = 1 .. Len(boxes) /\ Len(boxes) \in Nat
  OBVIOUS
<1>2. \A c \in DOMAIN boxes : boxes[c] \in Seq(Mail) /\ Append(boxes[c], m) \in Seq(Mail)
  OBVIOUS
<1>3. ASSUME boxes[i] # <<>>
      PROVE  /\ [boxes EXCEPT ![i] = Tail(@)] \in Seq(Seq(Mail))
             /\ Len([boxes EXCEPT ![i] = Tail(@)]) = Len(boxes)
  <2>1. Tail(boxes[i]) \in Seq(Mail)
    BY <1>2, <1>3
  <2> QED
    BY <1>1, <2>1
<1> QED
  BY <1>1, <1>2, <1>3

LEMMA LinkType ==
  ASSUME TypeOK, Break \/ Reboot \/ BrokerRestart \/ Forward
  PROVE  TypeOK'
<1>1. \A k \in 0 .. Len(net) :
        SubSeq(net, 1, k) \in Seq(Mail) /\ Readings(SubSeq(net, k + 1, Len(net))) \subseteq Message
  BY PrefixReadings, MailTypes DEF TypeOK
<1>2. CASE Break
  <2>1. net' \in Seq(Mail) /\ gone' \subseteq Message
    BY <1>1, <1>2 DEF TypeOK, Break, Cut
  <2>2. faults' \in 0 .. MaxFaults
    BY <1>2, FaultType DEF Break
  <2> QED
    BY <1>2, <2>1, <2>2 DEF TypeOK, Break, adapterVars
<1>3. CASE Reboot
  <2>1. Readings(todo) \subseteq Message /\ Readings(Contents(ring)) \subseteq Message
    BY MailTypes DEF TypeOK
  <2>2. net' \in Seq(Mail) /\ gone' \subseteq Message
    BY <1>1, <1>3, <2>1 DEF TypeOK, Reboot
  <2>3. faults' \in 0 .. MaxFaults
    BY <1>3, FaultType DEF Reboot
  <2> QED
    BY <1>3, <2>2, <2>3, EmptyRingType DEF TypeOK, Reboot, adapterVars
<1>4. CASE BrokerRestart
  <2>1. gone' \subseteq Message
    BY <1>4, MailTypes, DeliveredType DEF TypeOK, BrokerRestart
  <2>2. faults' \in 0 .. MaxFaults
    BY <1>4, FaultType DEF BrokerRestart
  <2>3. net' \in Seq(Mail) /\ inbox' \in Seq(Seq(Mail)) /\ Len(inbox') <= starts
    BY <1>4 DEF TypeOK, BrokerRestart
  <2> QED
    BY <1>4, <2>1, <2>2, <2>3 DEF TypeOK, BrokerRestart, adapterVars
<1>5. CASE Forward
  <2>1. net # <<>> /\ net \in Seq(Mail) /\ inbox \in Seq(Seq(Mail))
    BY <1>5 DEF TypeOK, Forward
  <2>2. Head(net) \in Mail /\ Tail(net) \in Seq(Mail)
    BY <2>1
  <2>3. inbox' \in Seq(Seq(Mail)) /\ Len(inbox') = Len(inbox)
    <3>1. CASE inbox = <<>>
      BY <1>5, <3>1 DEF Forward
    <3>2. CASE inbox # <<>>
      <4>1. 1 \in DOMAIN inbox
        <5>1. DOMAIN inbox = 1 .. Len(inbox) /\ Len(inbox) \in Nat \ {0}
          BY <2>1, <3>2
        <5> QED
          BY <5>1
      <4>2. inbox' = [c \in DOMAIN inbox |-> Append(inbox[c], Head(net))]
        BY <1>5 DEF Forward
      <4> HIDE DEF Mail
      <4> QED
        BY <2>1, <2>2, <4>1, <4>2, InboxTypes
    <3> QED
      BY <3>1, <3>2
  <2>4. gone' \subseteq Message
    <3>1. Readings(<<Head(net)>>) \subseteq Message
      BY <2>2, MailTypes, OneReading
    <3>2. gone' = gone \/ gone' = gone \cup Readings(<<Head(net)>>)
      BY <1>5 DEF Forward
    <3> QED
      BY <3>1, <3>2 DEF TypeOK
  <2> QED
    BY <1>5, <2>2, <2>3, <2>4 DEF TypeOK, Forward, nodeVars, adapterVars
<1> QED
  BY <1>2, <1>3, <1>4, <1>5

LEMMA BodiesType ==
  ASSUME TypeOK, NEW m \in Mail, Bodies(m)
  PROVE  emitted' \in Seq(Message) /\ flags' \subseteq Nat \X Nat
<1>1. CASE m.kind = "hello"
  <2>1. m.id \in Nat /\ m.count \in Nat
    BY <1>1, MailTypes DEF Mail
  <2>2. <<m.id, m.count>> \in Nat \X Nat
    BY <2>1
  <2>3. flags' = flags \/ flags' = flags \cup {<<m.id, m.count>>}
    BY <1>1 DEF Bodies
  <2> QED
    BY <1>1, <2>2, <2>3 DEF TypeOK, Bodies
<1>2. CASE m.kind # "hello"
  <2>1. m \in Message
    BY <1>2, MailTypes
  <2>2. emitted' = Append(emitted, m) /\ flags' = flags
    BY <1>2 DEF Bodies
  <2> QED
    BY <2>1, <2>2 DEF TypeOK
<1> QED
  BY <1>1, <1>2

LEMMA AdapterType ==
  ASSUME TypeOK, OnMessage \/ Start \/ Handle \/ HandleRaises \/ Stop
  PROVE  TypeOK'
<1>1. CASE OnMessage
  <2>1. PICK i \in DOMAIN inbox :
          /\ inbox[i] # <<>>
          /\ queue' = Append(queue, Head(inbox[i]))
          /\ inbox' = [inbox EXCEPT ![i] = Tail(@)]
    BY <1>1 DEF OnMessage
  <2>2. inbox \in Seq(Seq(Mail)) /\ inbox[i] \in Seq(Mail) /\ Head(inbox[i]) \in Mail
    BY <2>1 DEF TypeOK
  <2>3. inbox' \in Seq(Seq(Mail)) /\ Len(inbox') = Len(inbox)
    BY <2>1, <2>2, InboxTypes
  <2>4. queue' \in Seq(Mail)
    BY <2>1, <2>2 DEF TypeOK
  <2> QED
    BY <1>1, <2>3, <2>4 DEF TypeOK, OnMessage, nodeVars, bookVars
<1>2. CASE Start
  <2>1. queue' \in Seq(Mail) /\ gone' \subseteq Message
    BY <1>2, MailTypes DEF TypeOK, Start, NewQueue
  <2>2. CASE stage' = "running" /\ inbox' = Append(inbox, <<>>) /\ UNCHANGED faults
    <3>1. inbox' \in Seq(Seq(Mail)) /\ Len(inbox') = Len(inbox) + 1
      <4>1. <<>> \in Seq(Mail) /\ inbox \in Seq(Seq(Mail))
        BY DEF TypeOK
      <4> QED
        BY <2>2, <4>1
    <3>2. starts' = starts + 1 /\ starts' \in Nat /\ Len(inbox') <= starts'
      BY <1>2, <3>1 DEF TypeOK, Start
    <3> QED
      BY <1>2, <2>1, <2>2, <3>1, <3>2 DEF TypeOK, Start, nodeVars
  <2>3. CASE Fault /\ UNCHANGED <<stage, inbox>>
    <3>1. starts' = starts + 1 /\ starts' \in Nat /\ Len(inbox') <= starts'
      BY <1>2, <2>3 DEF TypeOK, Start
    <3> QED
      BY <1>2, <2>1, <2>3, <3>1, FaultType DEF TypeOK, Start, nodeVars
  <2> QED
    BY <1>2, <2>2, <2>3 DEF Start
<1>3. CASE Handle
  <2>1. Head(queue) \in Mail /\ Tail(queue) \in Seq(Mail)
    BY <1>3 DEF TypeOK, Handle
  <2>2. emitted' \in Seq(Message) /\ flags' \subseteq Nat \X Nat
    BY <1>3, <2>1, BodiesType DEF Handle
  <2> QED
    BY <1>3, <2>1, <2>2 DEF TypeOK, Handle, nodeVars, linkVars, bookVars
<1>4. CASE HandleRaises
  <2>1. Head(queue) \in Mail /\ Tail(queue) \in Seq(Mail)
    BY <1>4 DEF TypeOK, HandleRaises
  <2>2. emitted' \in Seq(Message) /\ flags' \subseteq Nat \X Nat
    BY <1>4, <2>1, BodiesType DEF TypeOK, HandleRaises
  <2>3. gone' \subseteq Message
    <3>1. Readings(<<Head(queue)>>) \subseteq Message
      BY <2>1, MailTypes, OneReading
    <3>2. gone' = gone \/ gone' = gone \cup Readings(<<Head(queue)>>)
      BY <1>4 DEF HandleRaises
    <3> QED
      BY <3>1, <3>2 DEF TypeOK
  <2>4. faults' \in 0 .. MaxFaults
    BY <1>4, FaultType DEF HandleRaises
  <2> QED
    BY <1>4, <2>1, <2>2, <2>3, <2>4 DEF TypeOK, HandleRaises, nodeVars, linkVars
<1>5. CASE Stop
  <2>1. gone' \subseteq Message
    BY <1>5, MailTypes, DeliveredType DEF TypeOK, Stop
  <2>2. queue' \in Seq(Mail) /\ inbox' \in Seq(Seq(Mail)) /\ Len(inbox') <= starts
    BY <1>5 DEF TypeOK, Stop
  <2> QED
    BY <1>5, <2>1, <2>2 DEF TypeOK, Stop, nodeVars
<1> QED
  BY <1>1, <1>2, <1>3, <1>4, <1>5

LEMMA TypeStep == TypeOK /\ [Next]_vars => TypeOK'
<1> SUFFICES ASSUME TypeOK, [Next]_vars PROVE TypeOK'
  OBVIOUS
<1>1. CASE UNCHANGED vars
  BY <1>1 DEF TypeOK, vars, nodeVars, linkVars, adapterVars, bookVars
<1> QED
  BY <1>1, SampleType, PublisherType, LinkType, AdapterType DEF Next

(* Every variable keeps its type; the boxes of the adapter are never more  *)
(* than its starts, and emitOrBuffer only runs with a message in hand.     *)
THEOREM NodeTypeCorrect == Spec => []TypeOK
BY TypeInit, TypeStep, PTL DEF Spec

-----------------------------------------------------------------------------
(* Order.                                                                  *)
LEMMA WayShrinks ==
  ASSUME NEW S, NEW T, NEW n, Way(S, n),
         \A c \in Places : \/ T[c] = S[c]
                           \/ Readings(T[c]) \subseteq Readings(S[c]) /\ Rising(T[c])
  PROVE  Way(T, n)
<1>1. \A c \in Places : Readings(T[c]) \subseteq Readings(S[c]) /\ Rising(T[c])
  BY DEF Way, Ordered
<1>2. Ordered(T)
  BY <1>1, OrderedShrinks DEF Way
<1> QED
  BY <1>1, <1>2 DEF Way

LEMMA WayMoves ==
  ASSUME NEW S, NEW T, NEW n, Way(S, n), NEW a \in Places, NEW b \in Places, a < b,
         S[a] \in Seq(Mail), S[b] \in Seq(Mail), S[b] # <<>>,
         \A c \in Places : a < c /\ c < b => Readings(S[c]) = {},
         T[a] = Append(S[a], Head(S[b])), T[b] = Tail(S[b]),
         \A c \in Places : c # a /\ c # b => T[c] = S[c]
  PROVE  Way(T, n)
<1>1. Ordered(T)
  BY OrderedMoves DEF Way
<1>2. /\ Readings(T[b]) \subseteq Readings(S[b])
      /\ Readings(T[a]) \subseteq Readings(S[a]) \cup Readings(S[b])
  <2>1. /\ Head(S[b]) \in Mail
        /\ Readings(S[b]) = Readings(<<Head(S[b])>>) \cup Readings(Tail(S[b]))
    BY TailReadings
  <2>2. Readings(Append(S[a], Head(S[b]))) = Readings(S[a]) \cup Readings(<<Head(S[b])>>)
    BY <2>1, AppendReadings
  <2> QED
    BY <2>1, <2>2
<1>3. ASSUME NEW c \in Places, NEW m \in Readings(T[c]) PROVE m.id <= n
  <2>1. c = a \/ c = b \/ T[c] = S[c]
    OBVIOUS
  <2> QED
    BY <1>2, <2>1 DEF Way
<1> QED
  BY <1>1, <1>3 DEF Way

LEMMA PathParts ==
  ASSUME TypeOK
  PROVE  /\ Path[1] = emitted /\ Path[2] = queue /\ Path[3] = First(inbox)
         /\ Path[4] = net /\ Path[5] = Contents(ring) /\ Path[6] = todo
         /\ \A c \in Places : Path[c] \in Seq(Mail)
<1>1. /\ Path[1] = emitted /\ Path[2] = queue /\ Path[3] = First(inbox)
      /\ Path[4] = net /\ Path[5] = Contents(ring) /\ Path[6] = todo
  BY DEF Path
<1>2. First(inbox) \in Seq(Mail)
  <2>1. CASE inbox = <<>>
    BY <2>1 DEF First
  <2>2. CASE inbox # <<>>
    BY <2>2 DEF First, TypeOK
  <2> QED
    BY <2>1, <2>2
<1>3. emitted \in Seq(Mail) /\ Contents(ring) \in Seq(Mail) /\ todo \in Seq(Mail)
  BY MailTypes DEF TypeOK
<1>4. queue \in Seq(Mail) /\ net \in Seq(Mail)
  BY DEF TypeOK
<1>5. \A c \in Places : c = 1 \/ c = 2 \/ c = 3 \/ c = 4 \/ c = 5 \/ c = 6
  BY DEF Places
<1> QED
  BY <1>1, <1>2, <1>3, <1>4, <1>5

(* The first mail of the place b of the path goes to the place a.          *)
Passed(a, b) ==
  /\ a \in Places /\ b \in Places /\ a < b
  /\ \A c \in Places : a < c /\ c < b => Readings(Path[c]) = {}
  /\ Path[b] # <<>> /\ Path'[a] = Append(Path[a], Head(Path[b])) /\ Path'[b] = Tail(Path[b])
  /\ \A c \in Places : c # a /\ c # b => Path'[c] = Path[c]

LEMMA PassedWay ==
  ASSUME TypeOK, Way(Path, made), NEW a, NEW b, Passed(a, b)
  PROVE  Way(Path', made)
<1> DEFINE S == Path
           T == Path'
<1>1. S[a] \in Seq(Mail) /\ S[b] \in Seq(Mail) /\ Way(S, made)
  BY PathParts DEF Passed
<1>2. /\ a \in Places /\ b \in Places /\ a < b
      /\ \A c \in Places : a < c /\ c < b => Readings(S[c]) = {}
      /\ S[b] # <<>> /\ T[a] = Append(S[a], Head(S[b])) /\ T[b] = Tail(S[b])
      /\ \A c \in Places : c # a /\ c # b => T[c] = S[c]
  BY DEF Passed
<1> HIDE DEF S, T
<1>3. Ordered(T)
  BY <1>1, <1>2, OrderedMoves DEF Way
<1>4. ASSUME NEW c \in Places, NEW m \in Readings(T[c]) PROVE m.id <= made
  <2>1. /\ Head(S[b]) \in Mail
        /\ Readings(S[b]) = Readings(<<Head(S[b])>>) \cup Readings(T[b])
    BY <1>1, <1>2, TailReadings
  <2>2. Readings(T[a]) = Readings(S[a]) \cup Readings(<<Head(S[b])>>)
    BY <1>1, <1>2, <2>1, AppendReadings
  <2>3. c = a \/ c = b \/ T[c] = S[c]
    BY <1>2
  <2> QED
    BY <1>1, <1>2, <1>4, <2>1, <2>2, <2>3 DEF Way
<1> QED
  BY <1>3, <1>4 DEF T, Way

LEMMA BufferedWay ==
  ASSUME TypeOK, todo # <<>>, Buffered, Way(Path, made), UNCHANGED <<emitted, queue, inbox, net>>
  PROVE  Way(Path', made)
<1> DEFINE held == IF Full(ring) THEN Tail(Contents(ring)) ELSE Contents(ring)
           U == <<emitted, queue, First(inbox), net, held, todo>>
<1>1. Head(todo) \in Message /\ todo' = Tail(todo) /\ ring' = Pushed(ring, Head(todo))
  BY DEF TypeOK, Buffered
<1>2. Contents(ring') = Append(held, Head(todo))
  BY <1>1, RingPushes
<1>3. /\ held \in Seq(Mail)
      /\ held = Contents(ring) \/ (Readings(held) \subseteq Readings(Contents(ring)) /\ Rising(held))
  <2>1. Contents(ring) \in Seq(Mail) /\ Rising(Contents(ring))
    BY PathParts DEF Way, Ordered, Places
  <2>2. CASE ~Full(ring)
    BY <2>1, <2>2
  <2>3. CASE Full(ring)
    <3>1. Contents(ring) # <<>>
      BY <1>1, <2>3, RingPushes
    <3> QED
      BY <2>1, <2>3, <3>1, TailReadings
  <2> QED
    BY <2>2, <2>3
<1> HIDE DEF held
<1>4. Way(U, made)
  <2>1. \A c \in Places : U[c] = Path[c] \/ (c = 5 /\ U[c] = held)
    BY PathParts DEF Places
  <2>2. Path[5] = Contents(ring)
    BY PathParts
  <2> HIDE DEF U
  <2> QED
    BY <1>3, <2>1, <2>2, WayShrinks
<1>5. U[5] = held /\ U[6] = todo
  OBVIOUS
<1>6. Path'[5] = Append(U[5], Head(U[6])) /\ Path'[6] = Tail(U[6])
  BY <1>1, <1>2, <1>5 DEF Path
<1>7. \A c \in Places : c # 5 /\ c # 6 => Path'[c] = U[c]
  BY DEF Path, Places
<1>8. U[6] \in Seq(Mail) /\ U[6] # <<>> /\ U[5] \in Seq(Mail)
  BY <1>3, <1>5, MailTypes DEF TypeOK
<1> HIDE DEF U
<1>9. 5 \in Places /\ 6 \in Places /\ 5 < 6 /\ \A c \in Places : ~(5 < c /\ c < 6)
  BY DEF Places
<1> QED
  BY <1>4, <1>6, <1>7, <1>8, <1>9, WayMoves

LEMMA SampleWay ==
  ASSUME TypeOK, TypeOK', Sample, Way(Path, made)
  PROVE  Way(Path', made')
<1>1. PICK kinds : /\ todo' = [i \in DOMAIN kinds |-> Reading(kinds[i], made + i)]
                   /\ made' = made + Len(kinds)
                   /\ kinds \in Seq({"event", "energy"})
  BY SampleKinds
<1>2. /\ DOMAIN todo' = 1 .. Len(kinds) /\ Len(kinds) \in Nat /\ made \in Nat
      /\ \A i \in 1 .. Len(kinds) : todo'[i].id = made + i
  <2>1. DOMAIN kinds = 1 .. Len(kinds) /\ Len(kinds) \in Nat
    BY <1>1
  <2>6. made \in Nat
    BY DEF TypeOK
  <2>2. DOMAIN todo' = DOMAIN kinds /\ \A i \in DOMAIN kinds : todo'[i] = Reading(kinds[i], made + i)
    BY <1>1
  <2>3. \A i \in DOMAIN kinds : Reading(kinds[i], made + i).id = made + i
    BY DEF Reading
  <2>4. DOMAIN todo' = 1 .. Len(kinds)
    BY <2>1, <2>2
  <2>5. \A i \in 1 .. Len(kinds) : todo'[i].id = made + i
    BY <2>1, <2>2, <2>3
  <2> QED
    BY <2>1, <2>6, <2>4, <2>5
<1>3. Rising(todo') /\ \A m \in Readings(todo') : made < m.id /\ m.id <= made'
  <2>1. Rising(todo')
    BY <1>2 DEF Rising
  <2>2. \A m \in Readings(todo') : \E i \in 1 .. Len(kinds) : m = todo'[i]
    BY <1>2 DEF Readings, ToSet
  <2>3. \A m \in Readings(todo') : made < m.id /\ m.id <= made'
    <3> SUFFICES ASSUME NEW m \in Readings(todo') PROVE made < m.id /\ m.id <= made'
      OBVIOUS
    <3>1. PICK i \in 1 .. Len(kinds) : m = todo'[i]
      BY <2>2
    <3>2. m.id = made + i
      BY <1>2, <3>1
    <3>3. made' = made + Len(kinds)
      BY <1>1
    <3> QED
      BY <1>2, <3>2, <3>3
  <2> QED
    BY <2>1, <2>3
<1>4. /\ todo = <<>> /\ Path'[6] = todo' /\ made <= made'
      /\ \A c \in Places : c # 6 => Path'[c] = Path[c]
  BY <1>1, <1>2 DEF Sample, Path, Places, linkVars, adapterVars
<1>5. \A c \in Places : \A m \in Readings(Path[c]) : m.id \in Nat /\ m.id <= made
  <2> SUFFICES ASSUME NEW c \in Places, NEW m \in Readings(Path[c]) PROVE m.id \in Nat /\ m.id <= made
    OBVIOUS
  <2>1. m \in Message
    BY PathParts, MailTypes
  <2> QED
    BY <2>1, MailTypes DEF Way
<1>6. \A c \in Places : Rising(Path'[c])
  BY <1>3, <1>4 DEF Way, Ordered
<1>7. ASSUME NEW a \in Places, NEW b \in Places, a < b
      PROVE  Earlier(Readings(Path'[a]), Readings(Path'[b]))
  <2>1. a # 6 /\ Path'[a] = Path[a]
    BY <1>4, <1>7 DEF Places
  <2>2. CASE b # 6
    BY <1>4, <1>7, <2>1, <2>2 DEF Way, Ordered
  <2>3. CASE b = 6
    <3> SUFFICES ASSUME NEW m \in Readings(Path'[a]), NEW n \in Readings(Path'[b]) PROVE m.id < n.id
      BY DEF Earlier
    <3>1. m.id \in Nat /\ m.id <= made
      BY <1>5, <2>1
    <3>2. made < n.id
      BY <1>3, <1>4, <2>3
    <3>3. n \in Message
      BY <1>4, <2>3, MailTypes DEF TypeOK
    <3> QED
      BY <1>2, <3>1, <3>2, <3>3, MailTypes
  <2> QED
    BY <2>2, <2>3
<1>8. ASSUME NEW c \in Places, NEW m \in Readings(Path'[c]) PROVE m.id <= made'
  <2>1. CASE c = 6
    BY <1>3, <1>4, <1>8, <2>1
  <2>2. CASE c # 6
    <3>1. m.id \in Nat /\ m.id <= made
      BY <1>4, <1>5, <1>8, <2>2
    <3> QED
      BY <1>1, <1>2, <3>1
  <2> QED
    BY <2>1, <2>2
<1> QED
  BY <1>6, <1>7, <1>8 DEF Way, Ordered

LEMMA PublisherWay ==
  ASSUME TypeOK, TypeOK', NewerWaits, Way(Path, made), ~short', made' = made,
         EnsureConnected \/ EnsureFails \/ EnsureConnects \/ Replay \/ ReplayEnds
           \/ Publish \/ Notice
  PROVE  Way(Path', made)
<1>1. CASE EnsureConnected
  BY <1>1 DEF EnsureConnected, Path, linkVars, adapterVars
<1>2. CASE EnsureFails
  <2>1. todo # <<>> /\ Buffered /\ UNCHANGED <<emitted, queue, inbox, net>>
    BY <1>2 DEF EnsureFails, linkVars, adapterVars
  <2> QED
    BY <2>1, BufferedWay
<1>3. CASE EnsureConnects
  <2>1. /\ net' = net \/ net' = Append(net, Hello(dropped))
        /\ UNCHANGED <<emitted, queue, inbox, ring, todo>>
    BY <1>3 DEF EnsureConnects, HelloCount, adapterVars
  <2>2. Path'[4] = net' /\ Path[4] = net /\ 4 \in Places
    BY DEF Path, Places
  <2>3. \A c \in Places : c # 4 => Path'[c] = Path[c]
    BY <2>1 DEF Path, Places
  <2>4. CASE net' = net
    BY <2>2, <2>3, <2>4, WayShrinks
  <2>5. CASE net' = Append(net, Hello(dropped))
    <3>1. Hello(dropped) \in Mail /\ Readings(<<Hello(dropped)>>) = {} /\ net \in Seq(Mail) /\ Rising(net)
      BY <2>2, HelloType, OneReading DEF TypeOK, Way, Ordered
    <3>2. Earlier(Readings(net), Readings(<<Hello(dropped)>>))
      BY <3>1 DEF Earlier
    <3>3. /\ Readings(Append(net, Hello(dropped))) = Readings(net) \cup Readings(<<Hello(dropped)>>)
          /\ Rising(Append(net, Hello(dropped)))
      <4> DEFINE h == Hello(dropped)
      <4> HIDE DEF h
      <4>1. h \in Mail /\ net \in Seq(Mail) /\ Rising(net) /\ Earlier(Readings(net), Readings(<<h>>))
        BY <3>1, <3>2 DEF h
      <4>2. /\ Readings(Append(net, h)) = Readings(net) \cup Readings(<<h>>)
            /\ Rising(Append(net, h))
        BY <4>1, AppendReadings
      <4> QED
        BY <4>2 DEF h
    <3>4. Readings(net') = Readings(net) /\ Rising(net')
      BY <2>5, <3>1, <3>3
    <3> QED
      BY <2>2, <2>3, <3>4, WayShrinks
  <2> QED
    BY <2>1, <2>4, <2>5
<1>4. CASE Replay
  <2>1. /\ Contents(ring) # <<>> /\ Head(Contents(ring)) = Oldest(ring)
        /\ Contents(Popped(ring)) = Tail(Contents(ring)) /\ Contents(ring) \in Seq(Mail)
    BY <1>4, RingPops, MailTypes DEF TypeOK, Replay
  <2>2. UNCHANGED <<emitted, queue, inbox, todo>>
    BY <1>4 DEF Replay, adapterVars
  <2>3. Path[5] = Contents(ring) /\ Path'[5] = Contents(ring') /\ 5 \in Places /\ 4 \in Places
        /\ Path[4] = net /\ Path'[4] = net'
    BY DEF Path, Places
  <2>4. CASE Written(Oldest(ring)) /\ ring' = Popped(ring)
    <3>1. CASE net' = Append(net, Oldest(ring))
      <4>1. \A c \in Places : c # 4 /\ c # 5 => Path'[c] = Path[c]
        BY <2>2 DEF Path, Places
      <4>2. \A c \in Places : ~(4 < c /\ c < 5)
        BY DEF Places
      <4>3. Passed(4, 5)
        BY <2>1, <2>3, <2>4, <3>1, <4>1, <4>2 DEF Passed
      <4> QED
        BY <4>3, PassedWay
    <3>2. CASE net' = net
      <4>1. \A c \in Places : c # 5 => Path'[c] = Path[c]
        BY <2>2, <3>2 DEF Path, Places
      <4>2. Readings(Contents(ring')) \subseteq Readings(Contents(ring)) /\ Rising(Contents(ring'))
        BY <2>1, <2>3, <2>4, TailReadings DEF Way, Ordered
      <4> QED
        BY <2>3, <4>1, <4>2, WayShrinks
    <3> QED
      BY <2>4, <3>1, <3>2 DEF Written
  <2>5. CASE NotWritten /\ UNCHANGED ring
    <3>1. Path' = Path
      BY <2>2, <2>5, NotWrittenTypes DEF Path
    <3> QED
      BY <3>1
  <2> QED
    BY <1>4, <2>4, <2>5 DEF Replay, AfterReplay
<1>5. CASE ReplayEnds
  BY <1>5 DEF ReplayEnds, Path, linkVars, adapterVars
<1>6. CASE Publish
  <2>1. todo # <<>> /\ Head(todo) \in Mail /\ Tail(todo) \in Seq(Message) /\ todo \in Seq(Mail)
    BY <1>6, MailTypes DEF TypeOK, Publish
  <2>2. UNCHANGED <<emitted, queue, inbox>>
    BY <1>6 DEF Publish, adapterVars
  <2>3. Path[6] = todo /\ Path'[6] = todo' /\ 6 \in Places /\ 4 \in Places
        /\ Path[4] = net /\ Path'[4] = net'
    BY DEF Path, Places
  <2>4. CASE conn # "none" /\ Written(Head(todo)) /\ todo' = Tail(todo) /\ UNCHANGED ring
    <3>1. CASE net' = Append(net, Head(todo)) /\ short' = short
      <4>1. ring.count = 0
        BY <1>6, <2>4, <3>1 DEF NewerWaits, Publish
      <4>2. Contents(ring) = <<>>
        <5>1. Contents(ring) \in Seq(Message) /\ Len(Contents(ring)) = 0
          BY <4>1, ContentsShape DEF TypeOK
        <5> QED
          BY <5>1
      <4>3. \A c \in Places : 4 < c /\ c < 6 => Readings(Path[c]) = {}
        <5>1. \A c \in Places : 4 < c /\ c < 6 => c = 5
          BY DEF Places
        <5> QED
          BY <4>2, <5>1, PathParts, NoReadings
      <4>4. \A c \in Places : c # 4 /\ c # 6 => Path'[c] = Path[c]
        BY <2>2, <2>4 DEF Path, Places
      <4>5. Passed(4, 6)
        <5>1. /\ Path[6] # <<>> /\ Path'[4] = Append(Path[4], Head(Path[6]))
              /\ Path'[6] = Tail(Path[6])
          BY <2>1, <2>3, <2>4, <3>1
        <5>2. 4 < 6
          OBVIOUS
        <5> QED
          BY <2>3, <4>3, <4>4, <5>1, <5>2, Zenon DEF Passed
      <4> QED
        BY <4>5, PassedWay
    <3>2. CASE net' = net
      <4>1. \A c \in Places : c # 6 => Path'[c] = Path[c]
        BY <2>2, <2>4, <3>2 DEF Path, Places
      <4>2. Readings(todo') \subseteq Readings(todo) /\ Rising(todo')
        BY <2>1, <2>3, <2>4, TailReadings DEF Way, Ordered
      <4> QED
        BY <2>3, <4>1, <4>2, WayShrinks
    <3> QED
      BY <2>4, <3>1, <3>2 DEF Written
  <2>5. CASE Buffered /\ UNCHANGED net
    BY <2>1, <2>2, <2>5, BufferedWay
  <2> QED
    BY <1>6, <2>4, <2>5, NotWrittenTypes DEF Publish
<1>7. CASE Notice
  BY <1>7 DEF Notice, Path, linkVars, adapterVars
<1> QED
  BY <1>1, <1>2, <1>3, <1>4, <1>5, <1>6, <1>7

(* A step that only takes readings away.                                   *)
LEMMA LostWay ==
  ASSUME TypeOK, Way(Path, made),
         emitted' = emitted,
         queue' = queue \/ queue' = <<>>,
         First(inbox') = First(inbox) \/ First(inbox') = <<>>,
         net' = net \/ net' = <<>> \/ (\E k \in 0 .. Len(net) : net' = SubSeq(net, 1, k)),
         ring' = ring \/ ring' = EmptyRing,
         todo' = todo \/ todo' = <<>>
  PROVE  Way(Path', made)
<1> DEFINE Less(s, t) == s = t \/ (Readings(s) \subseteq Readings(t) /\ Rising(s))
<1>1. Less(queue', queue) /\ Less(First(inbox'), First(inbox)) /\ Less(todo', todo)
  BY NoReadings
<1>2. Less(net', net)
  <2>1. net \in Seq(Mail) /\ Rising(net)
    BY PathParts DEF Way, Ordered, Places, TypeOK
  <2>2. CASE net' = net \/ net' = <<>>
    BY <2>2, NoReadings
  <2>3. CASE \E k \in 0 .. Len(net) : net' = SubSeq(net, 1, k)
    BY <2>1, <2>3, PrefixReadings
  <2> QED
    BY <2>2, <2>3
<1>3. Less(Contents(ring'), Contents(ring))
  BY EmptyRingType, NoReadings
<1>4. /\ Path'[1] = Path[1] /\ Path'[2] = queue' /\ Path'[3] = First(inbox')
      /\ Path'[4] = net' /\ Path'[5] = Contents(ring') /\ Path'[6] = todo'
  BY DEF Path
<1> HIDE DEF Less
<1>5. /\ Less(Path'[2], Path[2]) /\ Less(Path'[3], Path[3]) /\ Less(Path'[4], Path[4])
      /\ Less(Path'[5], Path[5]) /\ Less(Path'[6], Path[6])
  BY <1>1, <1>2, <1>3, <1>4, PathParts
<1>6. \A c \in Places : Path'[c] = Path[c] \/ Less(Path'[c], Path[c])
  <2>1. \A c \in Places : c = 1 \/ c = 2 \/ c = 3 \/ c = 4 \/ c = 5 \/ c = 6
    BY DEF Places
  <2> QED
    BY <1>4, <1>5, <2>1
<1> QED
  BY <1>6, WayShrinks DEF Less

LEMMA FirstTypes ==
  ASSUME NEW boxes \in Seq(Seq(Mail))
  PROVE  /\ boxes # <<>> => First(boxes) = boxes[1] /\ 1 \in DOMAIN boxes
         /\ boxes = <<>> => First(boxes) = <<>>
         /\ DOMAIN boxes = 1 .. Len(boxes) /\ Len(boxes) \in Nat
BY DEF First

LEMMA LinkWay ==
  ASSUME TypeOK, TypeOK', Way(Path, made), Break \/ Reboot \/ BrokerRestart \/ Forward
  PROVE  Way(Path', made)
<1>1. CASE Break
  <2>1. \E k \in 0 .. Len(net) : net' = SubSeq(net, 1, k)
    BY <1>1 DEF Break, Cut
  <2> QED
    BY <1>1, <2>1, LostWay DEF Break, adapterVars
<1>2. CASE Reboot
  <2>1. \E k \in 0 .. Len(net) : net' = SubSeq(net, 1, k)
    BY <1>2 DEF Reboot
  <2> QED
    BY <1>2, <2>1, LostWay DEF Reboot, adapterVars
<1>3. CASE BrokerRestart
  <2>1. First(inbox') = <<>>
    BY <1>3 DEF BrokerRestart, First
  <2> QED
    BY <1>3, <2>1, LostWay DEF BrokerRestart, adapterVars
<1>4. CASE Forward
  <2>1. /\ net # <<>> /\ net' = Tail(net)
        /\ inbox' = [i \in DOMAIN inbox |-> Append(inbox[i], Head(net))]
        /\ UNCHANGED <<emitted, queue, ring, todo>>
    BY <1>4 DEF Forward, nodeVars, adapterVars
  <2>2. inbox \in Seq(Seq(Mail)) /\ inbox' \in Seq(Seq(Mail))
    BY DEF TypeOK
  <2>3. /\ Path'[3] = First(inbox') /\ Path[3] = First(inbox) /\ Path[4] = net /\ Path'[4] = net'
        /\ \A c \in Places : c # 3 /\ c # 4 => Path'[c] = Path[c]
        /\ 3 \in Places /\ 4 \in Places
    BY <2>1 DEF Path, Places
  <2>4. CASE inbox = <<>>
    <3>1. inbox' = <<>>
      BY <2>1, <2>4
    <3>2. First(inbox') = First(inbox)
      BY <2>4, <3>1
    <3>3. Readings(net') \subseteq Readings(net) /\ Rising(net')
      BY <2>1, <2>3, TailReadings DEF TypeOK, Way, Ordered
    <3>4. \A c \in Places : c # 4 => Path'[c] = Path[c]
      BY <2>3, <3>2
    <3> QED
      BY <2>3, <3>3, <3>4, WayShrinks
  <2>5. CASE inbox # <<>>
    <3>1. 1 \in DOMAIN inbox /\ First(inbox) = inbox[1]
      BY <2>2, <2>5, FirstTypes
    <3>2. DOMAIN inbox' = DOMAIN inbox /\ inbox'[1] = Append(inbox[1], Head(net))
      BY <2>1, <3>1
    <3>3. First(inbox') = inbox'[1]
      BY <2>2, <3>1, <3>2 DEF First
    <3>4. Path[4] # <<>> /\ Path'[3] = Append(Path[3], Head(Path[4])) /\ Path'[4] = Tail(Path[4])
      BY <2>1, <2>3, <3>1, <3>2, <3>3
    <3>5. \A c \in Places : ~(3 < c /\ c < 4)
      BY DEF Places
    <3>6. Passed(3, 4)
      BY <2>3, <3>4, <3>5 DEF Passed
    <3> QED
      BY <3>6, PassedWay
  <2> QED
    BY <2>4, <2>5
<1> QED
  BY <1>1, <1>2, <1>3, <1>4

LEMMA AdapterWay ==
  ASSUME TypeOK, TypeOK', Way(Path, made), starts' <= 1,
         OnMessage \/ Start \/ Handle \/ HandleRaises \/ Stop
  PROVE  Way(Path', made)
<1>1. CASE OnMessage
  <2>1. PICK i \in DOMAIN inbox :
          /\ inbox[i] # <<>>
          /\ queue' = Append(queue, Head(inbox[i]))
          /\ inbox' = [inbox EXCEPT ![i] = Tail(@)]
    BY <1>1 DEF OnMessage
  <2>2. inbox \in Seq(Seq(Mail)) /\ inbox' \in Seq(Seq(Mail)) /\ Len(inbox) <= 1
    <3>1. inbox \in Seq(Seq(Mail)) /\ Len(inbox) <= starts /\ starts \in Nat
      BY DEF TypeOK
    <3>2. inbox' \in Seq(Seq(Mail))
      BY DEF TypeOK
    <3>3. starts' = starts
      BY <1>1 DEF OnMessage, bookVars
    <3> QED
      BY <3>1, <3>2, <3>3
  <2>3. i = 1
    BY <2>1, <2>2
  <2>4. First(inbox) = inbox[1] /\ First(inbox') = Tail(inbox[1])
    BY <2>1, <2>2, <2>3 DEF First
  <2>5. UNCHANGED <<emitted, net, ring, todo>>
    BY <1>1 DEF OnMessage, nodeVars
  <2>6. /\ Path'[2] = queue' /\ Path[2] = queue /\ Path[3] = First(inbox) /\ Path'[3] = First(inbox')
        /\ \A c \in Places : c # 2 /\ c # 3 => Path'[c] = Path[c]
        /\ 2 \in Places /\ 3 \in Places /\ \A c \in Places : ~(2 < c /\ c < 3)
    BY <2>5 DEF Path, Places
  <2>7. Path[3] # <<>> /\ Path'[2] = Append(Path[2], Head(Path[3])) /\ Path'[3] = Tail(Path[3])
    BY <2>1, <2>3, <2>4, <2>6
  <2>8. Passed(2, 3)
    BY <2>6, <2>7 DEF Passed
  <2> QED
    BY <2>8, PassedWay
<1>2. CASE Start
  <2>1. queue' = <<>> /\ UNCHANGED <<emitted, net, ring, todo>> /\ starts' = starts + 1
    BY <1>2 DEF Start, NewQueue, nodeVars
  <2>2. inbox = <<>>
    <3>1. inbox \in Seq(Seq(Mail)) /\ Len(inbox) = 0
      BY <2>1 DEF TypeOK
    <3> QED
      BY <3>1
  <2>3. inbox' = <<>> \/ inbox' = <<(<<>>)>>
    BY <1>2, <2>2 DEF Start
  <2>4. First(inbox') = <<>>
    BY <2>3 DEF First
  <2> QED
    BY <2>1, <2>4, LostWay
<1>3. ASSUME Handle \/ HandleRaises PROVE Way(Path', made)
  <2>1. /\ queue # <<>> /\ queue \in Seq(Mail) /\ queue' = Tail(queue)
        /\ UNCHANGED <<inbox, net, ring, todo>>
        /\ Bodies(Head(queue)) \/ emitted' = emitted
    BY <1>3 DEF TypeOK, Handle, HandleRaises, nodeVars, linkVars
  <2>2. emitted' = emitted \/ emitted' = Append(emitted, Head(queue))
    BY <2>1 DEF Bodies
  <2>3. /\ Path'[1] = emitted' /\ Path[1] = emitted /\ Path[2] = queue /\ Path'[2] = queue'
        /\ \A c \in Places : c # 1 /\ c # 2 => Path'[c] = Path[c]
        /\ 1 \in Places /\ 2 \in Places /\ \A c \in Places : ~(1 < c /\ c < 2)
    BY <2>1 DEF Path, Places
  <2>4. CASE emitted' = emitted
    <3>1. Readings(queue') \subseteq Readings(queue) /\ Rising(queue')
      BY <2>1, <2>3, TailReadings DEF Way, Ordered
    <3>2. \A c \in Places : c # 2 => Path'[c] = Path[c]
      BY <2>3, <2>4
    <3> QED
      BY <2>3, <3>1, <3>2, WayShrinks
  <2>5. CASE emitted' = Append(emitted, Head(queue))
    <3>1. Passed(1, 2)
      BY <2>1, <2>3, <2>5 DEF Passed
    <3> QED
      BY <3>1, PassedWay
  <2> QED
    BY <2>2, <2>4, <2>5
<1>4. CASE Stop
  <2>1. First(inbox') = <<>>
    BY <1>4 DEF Stop, First
  <2> QED
    BY <1>4, <2>1, LostWay DEF Stop, nodeVars
<1> QED
  BY <1>1, <1>2, <1>3, <1>4

(* The ring is emptied before anything newer is published.                 *)
LEMMA NewerWaitsStep == ASSUME TypeOK, NewerWaits, [Next]_vars PROVE NewerWaits'
<1>1. CASE Sample
  BY <1>1 DEF Sample, NewerWaits
<1>2. CASE EnsureConnected
  BY <1>2 DEF EnsureConnected, NewerWaits, bookVars
<1>3. CASE EnsureFails
  BY <1>3 DEF EnsureFails, NewerWaits
<1>4. CASE EnsureConnects
  BY <1>4 DEF EnsureConnects, NewerWaits
<1>5. CASE Replay
  <2>1. CASE Written(Oldest(ring)) /\ UNCHANGED pc
    BY <1>5, <2>1 DEF Replay, NewerWaits
  <2>2. CASE NotWritten /\ pc' = "publish" /\ UNCHANGED ring
    BY <2>2, NotWrittenTypes DEF NewerWaits
  <2> QED
    BY <1>5, <2>1, <2>2 DEF Replay
<1>6. CASE ReplayEnds
  BY <1>6 DEF ReplayEnds, NewerWaits, bookVars
<1>7. CASE Publish
  <2>1. CASE Written(Head(todo)) /\ UNCHANGED ring /\ conn # "none"
    BY <1>7, <2>1 DEF Publish, Written, NewerWaits
  <2>2. CASE NotWritten
    BY <2>2, NotWrittenTypes DEF NewerWaits
  <2>3. CASE conn = "none" /\ UNCHANGED conn
    BY <2>3 DEF NewerWaits
  <2> QED
    BY <1>7, <2>1, <2>2, <2>3 DEF Publish
<1>8. CASE Notice
  BY <1>8 DEF Notice, NewerWaits
<1>9. CASE Break
  BY <1>9 DEF Break, NewerWaits
<1>10. CASE Reboot
  BY <1>10 DEF Reboot, NewerWaits
<1>11. CASE BrokerRestart
  BY <1>11 DEF BrokerRestart, NewerWaits
<1>12. CASE Forward
  BY <1>12 DEF Forward, NewerWaits, nodeVars
<1>13. CASE OnMessage
  BY <1>13 DEF OnMessage, NewerWaits, nodeVars, bookVars
<1>14. CASE Start
  BY <1>14 DEF Start, NewerWaits, nodeVars
<1>15. CASE Handle \/ HandleRaises
  BY <1>15 DEF Handle, HandleRaises, NewerWaits, nodeVars, bookVars
<1>16. CASE Stop
  BY <1>16 DEF Stop, NewerWaits, nodeVars
<1>17. CASE UNCHANGED vars
  BY <1>17 DEF vars, nodeVars, bookVars, NewerWaits
<1> QED
  BY <1>1, <1>2, <1>3, <1>4, <1>5, <1>6, <1>7, <1>8, <1>9, <1>10, <1>11, <1>12, <1>13,
     <1>14, <1>15, <1>16, <1>17 DEF Next

(* A failed publish and a start of the adapter are never forgotten.        *)
LEMMA CalmBefore ==
  ASSUME TypeOK, [Next]_vars
  PROVE  (short => short') /\ starts <= starts'
<1>1. CASE Sample \/ EnsureConnected \/ EnsureFails \/ EnsureConnects \/ ReplayEnds \/ Notice
  BY <1>1 DEF TypeOK, Sample, EnsureConnected, EnsureFails, EnsureConnects, ReplayEnds, Notice, bookVars
<1>2. CASE Replay
  BY <1>2, NotWrittenTypes DEF TypeOK, Replay, Written
<1>3. CASE Publish
  BY <1>3, NotWrittenTypes DEF TypeOK, Publish, Written
<1>4. CASE Break \/ Reboot \/ BrokerRestart \/ Forward
  BY <1>4 DEF TypeOK, Break, Reboot, BrokerRestart, Forward
<1>5. CASE OnMessage \/ Start \/ Handle \/ HandleRaises \/ Stop
  BY <1>5 DEF TypeOK, OnMessage, Start, Handle, HandleRaises, Stop, bookVars
<1>6. CASE UNCHANGED vars
  BY <1>6 DEF TypeOK, vars, bookVars
<1> QED
  BY <1>1, <1>2, <1>3, <1>4, <1>5, <1>6 DEF Next

LEMMA PathInit == Init => PathInv
<1> SUFFICES ASSUME Init PROVE PathInv
  OBVIOUS
<1>1. Path = << <<>>, <<>>, <<>>, <<>>, <<>>, <<>> >>
  BY EmptyRingType DEF Init, Path, First
<1>2. \A c \in Places : Path[c] = <<>>
  BY <1>1 DEF Places
<1>3. NewerWaits
  BY DEF Init, NewerWaits
<1> QED
  BY <1>2, <1>3, NoReadings DEF PathInv, Way, Ordered, Earlier

LEMMA PathStep == TypeOK /\ PathInv /\ [Next]_vars => PathInv'
<1> SUFFICES ASSUME TypeOK, PathInv, [Next]_vars PROVE PathInv'
  OBVIOUS
<1>1. TypeOK' /\ NewerWaits /\ NewerWaits'
  BY TypeStep, NewerWaitsStep DEF PathInv
<1>2. ASSUME ~short', starts' <= 1 PROVE Way(Path', made')
  <2>1. Way(Path, made)
    <3>1. (short => short') /\ starts <= starts'
      BY CalmBefore
    <3>2. starts \in Nat /\ starts' \in Nat
      BY <1>1 DEF TypeOK
    <3>3. starts <= 1
      BY <1>2, <3>1, <3>2
    <3> QED
      BY <1>2, <3>1, <3>3, Zenon DEF PathInv
  <2>2. CASE Sample
    BY <1>1, <2>1, <2>2, SampleWay
  <2>3. CASE EnsureConnected \/ EnsureFails \/ EnsureConnects \/ Replay \/ ReplayEnds
               \/ Publish \/ Notice
    <3>1. made' = made
      BY <2>3 DEF EnsureConnected, EnsureFails, EnsureConnects, Replay, ReplayEnds, Publish,
                  Notice, bookVars
    <3> QED
      BY <1>1, <1>2, <2>1, <2>3, <3>1, PublisherWay
  <2>4. CASE Break \/ Reboot \/ BrokerRestart \/ Forward
    <3>1. made' = made
      BY <2>4 DEF Break, Reboot, BrokerRestart, Forward
    <3> QED
      BY <1>1, <2>1, <2>4, <3>1, LinkWay
  <2>5. CASE OnMessage \/ Start \/ Handle \/ HandleRaises \/ Stop
    <3>1. made' = made
      BY <2>5 DEF OnMessage, Start, Handle, HandleRaises, Stop, bookVars
    <3> QED
      BY <1>1, <1>2, <2>1, <2>5, <3>1, AdapterWay
  <2>6. CASE UNCHANGED vars
    <3>1. UNCHANGED <<emitted, queue, inbox, net, ring, todo, made>>
      BY <2>6 DEF vars, nodeVars, linkVars, adapterVars, bookVars
    <3>2. Path' = Path
      BY <3>1 DEF Path
    <3> QED
      BY <2>1, <3>1, <3>2
  <2> QED
    BY <2>2, <2>3, <2>4, <2>5, <2>6 DEF Next
<1> QED
  BY <1>1, <1>2 DEF PathInv

LEMMA PathInvGivesOrder == TypeOK /\ PathInv => OrderKept
<1> SUFFICES ASSUME TypeOK, PathInv, ~short, starts <= 1,
                    NEW i \in DOMAIN emitted, NEW j \in DOMAIN emitted, i < j
             PROVE  emitted[i].id < emitted[j].id
  BY DEF OrderKept
<1>1. Rising(emitted)
  BY PathParts DEF PathInv, Way, Ordered, Places
<1>2. emitted[i].kind # "hello" /\ emitted[j].kind # "hello"
  BY MailTypes DEF TypeOK
<1> QED
  BY <1>1, <1>2 DEF Rising

(* The order in which the node made its readings is the order in which     *)
(* emit() gets them, through outages, ring overflows, replays, reboots and *)
(* broker restarts, as long as no publish failed on a connection that      *)
(* stayed up and the adapter was started once (main.cpp 149-193,           *)
(* adapter.py 76-111).                                                     *)
THEOREM ReadingsStayInOrder == Spec => []OrderKept
<1>1. Init => TypeOK /\ PathInv
  BY TypeInit, PathInit
<1>2. (TypeOK /\ PathInv) /\ [Next]_vars => (TypeOK /\ PathInv)'
  BY TypeStep, PathStep
<1>3. TypeOK /\ PathInv => OrderKept
  BY PathInvGivesOrder
<1> QED
  BY <1>1, <1>2, <1>3, PTL DEF Spec

-----------------------------------------------------------------------------
(* The losses.                                                             *)
LEMMA MailParts ==
  ASSUME NEW s \in Seq(Mail)
  PROVE  /\ \A m \in Mail : ToSet(Append(s, m)) = ToSet(s) \cup {m}
         /\ s # <<>> => ToSet(s) = {Head(s)} \cup ToSet(Tail(s))
BY AppendReadings, TailReadings

(* A step that keeps the counter, the boot and the flags, and what was     *)
(* under way.                                                              *)
LEMMA StillTold ==
  ASSUME Told, dropped' = dropped, boot' = boot, flags \subseteq flags',
         ToSet(net) \subseteq ToSet(net'), ToSet(queue) \subseteq ToSet(queue'),
         \A i \in DOMAIN inbox : i \in DOMAIN inbox' /\ ToSet(inbox[i]) \subseteq ToSet(inbox'[i])
  PROVE  Told'
BY DEF Told, Hello

LEMMA PublisherTells ==
  ASSUME TypeOK, LossInv, Telling',
         Sample \/ EnsureConnected \/ EnsureFails \/ EnsureConnects \/ Replay
           \/ ReplayEnds \/ Publish \/ Notice
  PROVE  Told'
<1>1. CASE Sample \/ EnsureConnected \/ ReplayEnds
  <2>1. /\ UNCHANGED <<conn, short, missed, stage, dropped, boot, flags, net, queue, inbox>>
    BY <1>1 DEF Sample, EnsureConnected, ReplayEnds, linkVars, adapterVars, bookVars
  <2> QED
    BY <2>1, StillTold DEF LossInv, Telling
<1>2. CASE EnsureFails \/ Notice
  BY <1>2 DEF EnsureFails, Notice, Telling
<1>3. CASE EnsureConnects
  <2>1. net' = Append(net, Hello(dropped)) /\ dropped' = dropped /\ boot' = boot
    BY <1>3 DEF EnsureConnects, HelloCount, Telling
  <2>2. Hello(dropped) \in ToSet(net')
    BY <2>1, HelloType, MailParts DEF TypeOK
  <2> QED
    BY <2>1, <2>2 DEF Told, Hello
<1>4. CASE Replay \/ Publish
  <2>1. ASSUME NEW m \in Mail, Written(m), UNCHANGED dropped PROVE Told'
    <3>1. UNCHANGED <<short, missed, stage, boot, flags, queue, inbox>> /\ conn = "live"
      BY <1>4, <2>1 DEF Replay, Publish, Written, adapterVars, Telling
    <3>2. net' = net \/ net' = Append(net, m)
      BY <2>1 DEF Written
    <3>3. ToSet(net) \subseteq ToSet(net')
      <4>1. net \in Seq(Mail)
        BY DEF TypeOK
      <4>2. ToSet(Append(net, m)) = ToSet(net) \cup {m}
        BY <4>1, MailParts
      <4> QED
        BY <3>2, <4>2
    <3> QED
      BY <2>1, <3>1, <3>3, StillTold DEF LossInv, Telling
  <2>2. ~NotWritten /\ conn # "none"
    <3>1. conn' = "live" /\ ~short'
      BY DEF Telling
    <3>2. ~NotWritten
      BY <3>1, NotWrittenTypes
    <3>3. conn # "none"
      BY <1>4, <3>1 DEF Replay, Publish
    <3> QED
      BY <3>2, <3>3
  <2>3. CASE Replay
    <3>1. Written(Oldest(ring)) /\ Oldest(ring) \in Mail /\ UNCHANGED dropped
      BY <2>2, <2>3, RingPops, MailTypes DEF Replay
    <3> QED
      BY <2>1, <3>1
  <2>4. CASE Publish
    <3>1. Written(Head(todo)) /\ Head(todo) \in Mail /\ UNCHANGED dropped
      BY <2>2, <2>4, MailTypes DEF Publish, TypeOK
    <3> QED
      BY <2>1, <3>1
  <2> QED
    BY <1>4, <2>3, <2>4
<1> QED
  BY <1>1, <1>2, <1>3, <1>4

LEMMA LinkTells ==
  ASSUME TypeOK, LossInv, Telling', Break \/ Reboot \/ BrokerRestart \/ Forward
  PROVE  Told'
<1>1. CASE Break \/ Reboot \/ BrokerRestart
  BY <1>1 DEF Break, Reboot, BrokerRestart, Telling
<1>2. CASE Forward
  <2>1. /\ net # <<>> /\ net' = Tail(net) /\ net \in Seq(Mail) /\ inbox \in Seq(Seq(Mail))
        /\ inbox' = [i \in DOMAIN inbox |-> Append(inbox[i], Head(net))]
        /\ UNCHANGED <<conn, short, stage, dropped, boot, flags, queue>>
    BY <1>2 DEF Forward, TypeOK, nodeVars, adapterVars
  <2>2. inbox # <<>> /\ UNCHANGED missed
    BY <1>2 DEF Forward, Telling
  <2>3. Told
    BY <2>1, <2>2 DEF LossInv, Telling
  <2>4. Head(net) \in Mail /\ ToSet(net) = {Head(net)} \cup ToSet(net')
    BY <2>1, MailParts
  <2>5. \A i \in DOMAIN inbox : i \in DOMAIN inbox' /\ ToSet(inbox'[i]) = ToSet(inbox[i]) \cup {Head(net)}
    <3> SUFFICES ASSUME NEW i \in DOMAIN inbox
                 PROVE  i \in DOMAIN inbox' /\ ToSet(inbox'[i]) = ToSet(inbox[i]) \cup {Head(net)}
      OBVIOUS
    <3>1. inbox[i] \in Seq(Mail) /\ i \in DOMAIN inbox' /\ inbox'[i] = Append(inbox[i], Head(net))
      BY <2>1
    <3> QED
      BY <2>4, <3>1, MailParts
  <2>6. 1 \in DOMAIN inbox
    BY <2>1, <2>2, FirstTypes
  <2>7. Hello(dropped)' = Hello(dropped)
    BY <2>1 DEF Hello
  <2> QED
    BY <2>1, <2>3, <2>4, <2>5, <2>6, <2>7 DEF Told
<1> QED
  BY <1>1, <1>2

LEMMA AdapterTells ==
  ASSUME TypeOK, LossInv, Telling', OnMessage \/ Start \/ Handle \/ HandleRaises \/ Stop
  PROVE  Told'
<1>1. CASE OnMessage
  <2>1. PICK i \in DOMAIN inbox :
          /\ inbox[i] # <<>>
          /\ queue' = Append(queue, Head(inbox[i]))
          /\ inbox' = [inbox EXCEPT ![i] = Tail(@)]
    BY <1>1 DEF OnMessage
  <2>2. UNCHANGED <<conn, short, missed, stage, dropped, boot, flags, net>>
    BY <1>1 DEF OnMessage, nodeVars, bookVars
  <2>3. Told /\ Hello(dropped)' = Hello(dropped)
    BY <2>2 DEF LossInv, Telling, Hello
  <2>4. inbox[i] \in Seq(Mail) /\ Head(inbox[i]) \in Mail
    BY <2>1 DEF TypeOK
  <2>5. ToSet(queue') = ToSet(queue) \cup {Head(inbox[i])}
    BY <2>1, <2>4, MailParts DEF TypeOK
  <2>6. ToSet(inbox[i]) = {Head(inbox[i])} \cup ToSet(inbox'[i])
    BY <2>1, <2>4, MailParts
  <2>7. DOMAIN inbox' = DOMAIN inbox /\ \A c \in DOMAIN inbox : c # i => inbox'[c] = inbox[c]
    BY <2>1
  <2> QED
    BY <2>2, <2>3, <2>5, <2>6, <2>7 DEF Told
<1>2. CASE Start
  <2>1. /\ UNCHANGED <<conn, short, dropped, boot, flags, net>> /\ stage = "down"
        /\ missed' = (missed \/ queue # <<>>) /\ queue' = <<>>
        /\ inbox' = inbox \/ inbox' = Append(inbox, <<>>)
    BY <1>2 DEF Start, NewQueue, nodeVars
  <2>2. ~missed /\ queue = <<>>
    BY <2>1, Zenon DEF Telling
  <2>3. \A i \in DOMAIN inbox : i \in DOMAIN inbox' /\ ToSet(inbox[i]) \subseteq ToSet(inbox'[i])
    <3>1. inbox \in Seq(Seq(Mail))
      BY DEF TypeOK
    <3>2. \A i \in DOMAIN inbox : /\ i \in DOMAIN Append(inbox, <<>>)
                                  /\ Append(inbox, <<>>)[i] = inbox[i]
      BY <3>1
    <3>3. \A i \in DOMAIN inbox : i \in DOMAIN inbox' /\ inbox'[i] = inbox[i]
      BY <2>1, <3>2
    <3> QED
      BY <3>3
  <2> QED
    BY <2>1, <2>2, <2>3, StillTold DEF LossInv, Telling
<1>3. ASSUME Handle \/ HandleRaises PROVE Told'
  <2>1. /\ queue # <<>> /\ queue \in Seq(Mail) /\ queue' = Tail(queue) /\ stage = "running"
        /\ UNCHANGED <<inbox, net, conn, short, dropped, boot>>
    BY <1>3 DEF TypeOK, Handle, HandleRaises, nodeVars, linkVars, bookVars
  <2>2. Bodies(Head(queue)) /\ UNCHANGED missed
    BY <1>3 DEF Handle, HandleRaises, Telling, bookVars
  <2>3. Told /\ Hello(dropped)' = Hello(dropped)
    BY <2>1, <2>2 DEF LossInv, Telling, Hello
  <2>4. ToSet(queue) = {Head(queue)} \cup ToSet(queue')
    BY <2>1, MailParts
  <2>5. flags \subseteq flags'
    BY <2>2 DEF Bodies
  <2>6. Head(queue) = Hello(dropped) => dropped = 0 \/ <<boot, dropped>> \in flags'
    BY <2>2 DEF Bodies, Hello
  <2> QED
    BY <2>1, <2>3, <2>4, <2>5, <2>6 DEF Told
<1>4. CASE Stop
  BY <1>4 DEF Stop, Telling
<1> QED
  BY <1>1, <1>2, <1>3, <1>4

LEMMA LossStep == TypeOK /\ LossInv /\ [Next]_vars => LossInv'
<1> SUFFICES ASSUME TypeOK, LossInv, [Next]_vars, Telling' PROVE Told'
  BY DEF LossInv
<1>1. CASE UNCHANGED vars
  <2>1. UNCHANGED <<conn, short, missed, stage, dropped, boot, flags, net, queue, inbox>>
    BY <1>1 DEF vars, nodeVars, linkVars, adapterVars, bookVars
  <2> QED
    BY <2>1, StillTold DEF LossInv, Telling
<1> QED
  BY <1>1, PublisherTells, LinkTells, AdapterTells DEF Next

(* However many messages the full ring lost, once the hello of a           *)
(* connection that held has come through the gateway has the flag with     *)
(* their exact number: losses on the node are never silent (main.cpp       *)
(* 163-184, adapter.py 101-111).                                           *)
THEOREM LossesReachTheGateway == Spec => []DropsSurfaced
<1>1. Init => LossInv
  BY DEF Init, LossInv, Telling
<1>2. TypeOK /\ LossInv => DropsSurfaced
  <2> SUFFICES ASSUME TypeOK, LossInv, Telling, ~HelloUnderWay
               PROVE  dropped = 0 \/ <<boot, dropped>> \in flags
    BY DEF DropsSurfaced, Telling
  <2>1. Hello(dropped).kind = "hello"
    BY DEF Hello
  <2>2. Hello(dropped) \notin Out
    BY <2>1 DEF HelloUnderWay
  <2> QED
    BY <2>2 DEF LossInv, Told, Out
<1>3. Init => TypeOK /\ LossInv
  BY <1>1, TypeInit
<1>4. (TypeOK /\ LossInv) /\ [Next]_vars => (TypeOK /\ LossInv)'
  BY TypeStep, LossStep
<1> QED
  BY <1>2, <1>3, <1>4, PTL DEF Spec

-----------------------------------------------------------------------------
(* The account.                                                            *)
Hand == ToSet(todo)
Held == ToSet(Contents(ring))
Left == Readings(net) \cup Readings(queue) \cup Delivered \cup Readings(emitted) \cup gone

Distinct(s) == \A i, j \in DOMAIN s : s[i] = s[j] => i = j

Apart(T, H, O, L) ==
  T \cap (H \cup O \cup L) = {} /\ H \cap (O \cup L) = {} /\ O \cap L = {}

AccountInv ==
  /\ {m.id : m \in Hand \cup Held \cup overflowed \cup Left} = 1 .. made
  /\ Apart(Hand, Held, overflowed, Left)
  /\ Distinct(todo) /\ Distinct(Contents(ring))
  /\ IsFiniteSet(overflowed) /\ dropped = Cardinality(overflowed)

-----------------------------------------------------------------------------
(* Sequences whose elements differ.                                        *)
LEMMA DistinctCount ==
  ASSUME NEW s \in Seq(Mail), Distinct(s)
  PROVE  Cardinality(ToSet(s)) = Len(s)
<1>1. Len(s) \in Nat /\ DOMAIN s = 1 .. Len(s)
  OBVIOUS
<1>2. s \in Bijection(1 .. Len(s), ToSet(s))
  BY <1>1 DEF Distinct, ToSet, Bijection, Injection, Surjection, IsInjective
<1>3. IsFiniteSet(1 .. Len(s)) /\ Cardinality(1 .. Len(s)) = Len(s)
  BY <1>1, FS_Interval
<1> QED
  BY <1>2, <1>3, FS_Bijection DEF ExistsBijection

LEMMA DistinctAppend ==
  ASSUME NEW s \in Seq(Mail), NEW m \in Mail, Distinct(s), m \notin ToSet(s)
  PROVE  Distinct(Append(s, m))
<1>1. /\ DOMAIN Append(s, m) = 1 .. Len(s) + 1 /\ DOMAIN s = 1 .. Len(s) /\ Len(s) \in Nat
      /\ \A i \in 1 .. Len(s) : Append(s, m)[i] = s[i]
      /\ Append(s, m)[Len(s) + 1] = m
  OBVIOUS
<1>2. \A i \in 1 .. Len(s) : s[i] # m
  BY <1>1 DEF ToSet
<1>3. \A i \in 1 .. Len(s) + 1 : i \in 1 .. Len(s) \/ i = Len(s) + 1
  BY <1>1
<1> QED
  BY <1>1, <1>2, <1>3 DEF Distinct

LEMMA DistinctTail ==
  ASSUME NEW s \in Seq(Mail), s # <<>>, Distinct(s)
  PROVE  Distinct(Tail(s)) /\ Head(s) \notin ToSet(Tail(s))
<1>1. /\ DOMAIN Tail(s) = 1 .. Len(s) - 1 /\ DOMAIN s = 1 .. Len(s) /\ Len(s) \in Nat \ {0}
      /\ \A i \in 1 .. Len(s) - 1 : Tail(s)[i] = s[i + 1]
      /\ s[1] = Head(s)
  OBVIOUS
<1>2. \A i \in 1 .. Len(s) - 1 : i + 1 \in 1 .. Len(s) /\ i + 1 # 1
  BY <1>1
<1>3. 1 \in 1 .. Len(s)
  BY <1>1
<1>4. Head(s) \notin ToSet(Tail(s))
  BY <1>1, <1>2, <1>3 DEF Distinct, ToSet
<1>5. ASSUME NEW i \in 1 .. Len(s) - 1, NEW j \in 1 .. Len(s) - 1, Tail(s)[i] = Tail(s)[j]
      PROVE  i = j
  <2>1. s[i + 1] = s[j + 1] /\ i + 1 \in DOMAIN s /\ j + 1 \in DOMAIN s
    BY <1>1, <1>2, <1>5
  <2>2. i + 1 = j + 1
    BY <2>1 DEF Distinct
  <2> QED
    BY <1>1, <2>2
<1> QED
  BY <1>1, <1>4, <1>5 DEF Distinct

-----------------------------------------------------------------------------
(* What left the node only grows, and only by what the step takes out of   *)
(* the node.                                                               *)
LEMMA AllReadings == \A s \in Seq(Message) : Readings(s) = ToSet(s)
BY MailTypes DEF Readings, ToSet

LEMMA SameDelivered == ASSUME UNCHANGED inbox PROVE Delivered' = Delivered
BY DEF Delivered

LEMMA LeftWritten ==
  ASSUME TypeOK, NEW m \in Mail, Written(m), UNCHANGED <<queue, inbox, emitted>>
  PROVE  Left' = Left \cup Readings(<<m>>)
<1>1. net \in Seq(Mail)
  BY DEF TypeOK
<1>2. Readings(Append(net, m)) = Readings(net) \cup Readings(<<m>>)
  BY <1>1, AppendReadings
<1>3. \/ net' = Append(net, m) /\ gone' = gone
      \/ net' = net /\ gone' = gone \cup Readings(<<m>>)
  BY DEF Written
<1>4. Delivered' = Delivered
  BY SameDelivered
<1>5. CASE net' = Append(net, m) /\ gone' = gone
  BY <1>2, <1>4, <1>5 DEF Left
<1>6. CASE net' = net /\ gone' = gone \cup Readings(<<m>>)
  BY <1>4, <1>6 DEF Left
<1> QED
  BY <1>3, <1>5, <1>6

LEMMA LeftStays ==
  ASSUME TypeOK, UNCHANGED <<net, queue, inbox, emitted, gone>>
  PROVE  Left' = Left
<1>1. Delivered' = Delivered
  BY SameDelivered
<1> QED
  BY <1>1 DEF Left

LEMMA LeftConnects ==
  ASSUME TypeOK, EnsureConnects
  PROVE  Left' = Left
<1>1. UNCHANGED <<queue, inbox, emitted, gone>> /\ (net' = net \/ net' = Append(net, Hello(dropped)))
  BY DEF EnsureConnects, HelloCount, adapterVars
<1>2. CASE net' = net
  BY <1>1, <1>2, LeftStays
<1>3. CASE net' = Append(net, Hello(dropped))
  <2> DEFINE h == Hello(dropped)
  <2>1. h \in Mail /\ h.kind = "hello" /\ net \in Seq(Mail)
    BY HelloType DEF TypeOK
  <2> HIDE DEF h
  <2>2. Readings(Append(net, h)) = Readings(net)
    <3>1. Readings(<<h>>) = {}
      BY <2>1, OneReading
    <3>2. Readings(Append(net, h)) = Readings(net) \cup Readings(<<h>>)
      BY <2>1, AppendReadings
    <3> QED
      BY <3>1, <3>2
  <2>3. Readings(net') = Readings(net) /\ Delivered' = Delivered
    BY <1>1, <1>3, <2>2, SameDelivered DEF h
  <2> QED
    BY <1>1, <2>3 DEF Left
<1> QED
  BY <1>1, <1>2, <1>3

LEMMA LeftBreaks ==
  ASSUME TypeOK, Break \/ BrokerRestart
  PROVE  Left' = Left
<1>1. CASE Break
  <2>1. PICK k \in 0 .. Len(net) :
          /\ net' = SubSeq(net, 1, k)
          /\ gone' = gone \cup Readings(SubSeq(net, k + 1, Len(net)))
    BY <1>1 DEF Break, Cut
  <2>2. Readings(net) = Readings(net') \cup Readings(SubSeq(net, k + 1, Len(net)))
    BY <2>1, PrefixReadings DEF TypeOK
  <2>3. UNCHANGED <<queue, emitted>> /\ Delivered' = Delivered
    BY <1>1, SameDelivered DEF Break, adapterVars
  <2> QED
    BY <2>1, <2>2, <2>3 DEF Left
<1>2. CASE BrokerRestart
  <2>1. /\ net' = <<>> /\ inbox' = <<>> /\ gone' = gone \cup Readings(net) \cup Delivered
        /\ UNCHANGED <<queue, emitted>>
    BY <1>2 DEF BrokerRestart, adapterVars
  <2>2. Delivered' = {} /\ Readings(net') = {}
    BY <2>1, NoReadings DEF Delivered
  <2> QED
    BY <2>1, <2>2 DEF Left
<1> QED
  BY <1>1, <1>2

LEMMA LeftReboots ==
  ASSUME TypeOK, Reboot
  PROVE  Left' = Left \cup Hand \cup Held \cup overflowed
<1>1. PICK k \in 0 .. Len(net) :
        /\ net' = SubSeq(net, 1, k)
        /\ gone' = gone \cup Readings(SubSeq(net, k + 1, Len(net))) \cup Readings(todo)
                    \cup Readings(Contents(ring)) \cup overflowed
  BY DEF Reboot
<1>2. Readings(net) = Readings(net') \cup Readings(SubSeq(net, k + 1, Len(net)))
  BY <1>1, PrefixReadings DEF TypeOK
<1>3. UNCHANGED <<queue, emitted>> /\ Delivered' = Delivered
  BY SameDelivered DEF Reboot, adapterVars
<1>4. Readings(todo) = Hand /\ Readings(Contents(ring)) = Held
  BY AllReadings DEF TypeOK, Hand, Held
<1> QED
  BY <1>1, <1>2, <1>3, <1>4 DEF Left

LEMMA LeftForwards ==
  ASSUME TypeOK, Forward
  PROVE  Left' = Left
<1> DEFINE new == Readings(<<Head(net)>>)
<1>1. /\ net # <<>> /\ net' = Tail(net) /\ net \in Seq(Mail) /\ inbox \in Seq(Seq(Mail))
      /\ inbox' = [i \in DOMAIN inbox |-> Append(inbox[i], Head(net))]
      /\ UNCHANGED <<queue, emitted>>
  BY DEF Forward, TypeOK, adapterVars
<1>2. Head(net) \in Mail /\ Readings(net) = new \cup Readings(net')
  BY <1>1, TailReadings
<1>3. CASE inbox = <<>>
  <2>1. gone' = gone \cup new /\ inbox' = inbox
    BY <1>1, <1>3 DEF Forward
  <2>2. Delivered' = Delivered
    BY <2>1, SameDelivered
  <2> QED
    BY <1>1, <1>2, <2>1, <2>2 DEF Left
<1>4. CASE inbox # <<>>
  <2>1. gone' = gone
    BY <1>4 DEF Forward
  <2>2. 1 \in DOMAIN inbox /\ DOMAIN inbox' = DOMAIN inbox
    BY <1>1, <1>4, FirstTypes
  <2>3. \A i \in DOMAIN inbox : Readings(inbox'[i]) = Readings(inbox[i]) \cup new
    <3> SUFFICES ASSUME NEW i \in DOMAIN inbox
                 PROVE  Readings(inbox'[i]) = Readings(inbox[i]) \cup new
      OBVIOUS
    <3>1. inbox[i] \in Seq(Mail) /\ inbox'[i] = Append(inbox[i], Head(net))
      BY <1>1
    <3> QED
      BY <1>2, <3>1, AppendReadings
  <2>4. Delivered' = Delivered \cup new
    BY <2>2, <2>3 DEF Delivered
  <2> QED
    BY <1>1, <1>2, <2>1, <2>4 DEF Left
<1> QED
  BY <1>3, <1>4

LEMMA LeftAdapter ==
  ASSUME TypeOK, OnMessage \/ Start \/ Handle \/ HandleRaises \/ Stop
  PROVE  Left' = Left
<1>1. CASE OnMessage
  <2>1. PICK i \in DOMAIN inbox :
          /\ inbox[i] # <<>>
          /\ queue' = Append(queue, Head(inbox[i]))
          /\ inbox' = [inbox EXCEPT ![i] = Tail(@)]
    BY <1>1 DEF OnMessage
  <2> DEFINE new == Readings(<<Head(inbox[i])>>)
  <2>2. UNCHANGED <<net, emitted, gone>>
    BY <1>1 DEF OnMessage, bookVars
  <2>3. inbox[i] \in Seq(Mail) /\ queue \in Seq(Mail)
    BY <2>1 DEF TypeOK
  <2>4. Readings(inbox[i]) = new \cup Readings(Tail(inbox[i])) /\ Head(inbox[i]) \in Mail
    BY <2>1, <2>3, TailReadings
  <2>5. Readings(queue') = Readings(queue) \cup new
    BY <2>1, <2>3, <2>4, AppendReadings
  <2>6. DOMAIN inbox' = DOMAIN inbox /\ \A c \in DOMAIN inbox :
          inbox'[c] = IF c = i THEN Tail(inbox[i]) ELSE inbox[c]
    BY <2>1
  <2>7. Delivered \cup new = Delivered' \cup new
    BY <2>4, <2>6 DEF Delivered
  <2> HIDE DEF new
  <2>8. new \subseteq Delivered
    BY <2>4 DEF Delivered
  <2> QED
    BY <2>2, <2>5, <2>7, <2>8 DEF Left
<1>2. CASE Start
  <2>1. /\ UNCHANGED <<net, emitted>> /\ queue' = <<>> /\ gone' = gone \cup Readings(queue)
        /\ inbox' = inbox \/ inbox' = Append(inbox, <<>>)
    BY <1>2 DEF Start, NewQueue, nodeVars
  <2>2. Delivered' = Delivered
    <3>1. CASE inbox' = inbox
      BY <3>1, SameDelivered
    <3>2. CASE inbox' = Append(inbox, <<>>)
      <4>1. inbox \in Seq(Seq(Mail)) /\ Len(inbox) \in Nat /\ DOMAIN inbox = 1 .. Len(inbox)
        BY DEF TypeOK
      <4>2. /\ DOMAIN inbox' = DOMAIN inbox \cup {Len(inbox) + 1}
            /\ \A i \in DOMAIN inbox : inbox'[i] = inbox[i]
            /\ inbox'[Len(inbox) + 1] = <<>>
        BY <3>2, <4>1
      <4> QED
        BY <4>1, <4>2, NoReadings DEF Delivered
    <3> QED
      BY <2>1, <3>1, <3>2
  <2> QED
    BY <2>1, <2>2, NoReadings DEF Left
<1>3. ASSUME Handle \/ HandleRaises PROVE Left' = Left
  <2> DEFINE new == Readings(<<Head(queue)>>)
  <2>1. /\ queue # <<>> /\ queue \in Seq(Mail) /\ emitted \in Seq(Mail) /\ queue' = Tail(queue)
        /\ UNCHANGED <<inbox, net>>
        /\ \/ Bodies(Head(queue)) /\ gone' = gone
           \/ gone' = gone \cup new /\ emitted' = emitted
    BY <1>3, MailTypes DEF TypeOK, Handle, HandleRaises, nodeVars, linkVars, bookVars
  <2>2. Head(queue) \in Mail /\ Readings(queue) = new \cup Readings(queue')
    BY <2>1, TailReadings
  <2>3. Delivered' = Delivered
    BY <2>1, SameDelivered
  <2>4. CASE gone' = gone \cup new /\ emitted' = emitted
    BY <2>1, <2>2, <2>3, <2>4 DEF Left
  <2>5. CASE Bodies(Head(queue)) /\ gone' = gone
    <3>1. CASE Head(queue).kind = "hello"
      <4>1. new = {} /\ emitted' = emitted
        BY <2>5, <3>1, OneReading DEF Bodies
      <4> QED
        BY <2>1, <2>2, <2>3, <2>5, <4>1 DEF Left
    <3>2. CASE Head(queue).kind # "hello"
      <4>1. emitted' = Append(emitted, Head(queue))
        BY <2>5, <3>2 DEF Bodies
      <4>2. Readings(emitted') = Readings(emitted) \cup new
        BY <2>1, <2>2, <4>1, AppendReadings
      <4> QED
        BY <2>1, <2>2, <2>3, <2>5, <4>2 DEF Left
    <3> QED
      BY <3>1, <3>2
  <2> QED
    BY <2>1, <2>4, <2>5
<1>4. CASE Stop
  <2>1. /\ queue' = <<>> /\ inbox' = <<>> /\ gone' = gone \cup Readings(queue) \cup Delivered
        /\ UNCHANGED <<net, emitted>>
    BY <1>4 DEF Stop, nodeVars
  <2>2. Delivered' = {} /\ Readings(queue') = {}
    BY <2>1, NoReadings DEF Delivered
  <2> QED
    BY <2>1, <2>2 DEF Left
<1> QED
  BY <1>1, <1>2, <1>3, <1>4

-----------------------------------------------------------------------------
(* The node's side.                                                        *)
LEMMA AccountStays ==
  ASSUME AccountInv, UNCHANGED <<todo, ring, overflowed, dropped, made>>, Left' = Left
  PROVE  AccountInv'
BY DEF AccountInv, Hand, Held

LEMMA AccountInit == Init => AccountInv
<1> SUFFICES ASSUME Init PROVE AccountInv
  OBVIOUS
<1>1. Contents(ring) = <<>> /\ todo = <<>> /\ Distinct(<<>>) /\ ToSet(<<>>) = {}
  BY EmptyRingType DEF Init, Distinct, ToSet
<1>2. Delivered = {}
  BY DEF Init, Delivered
<1>3. Left = {}
  BY <1>2, NoReadings DEF Init, Left
<1>4. 1 .. made = {}
  BY DEF Init
<1> QED
  BY <1>1, <1>3, <1>4, FS_EmptySet DEF Init, AccountInv, Apart, Hand, Held

LEMMA AccountSample == ASSUME TypeOK, TypeOK', AccountInv, Sample PROVE AccountInv'
<1>1. PICK kinds \in Seq({"event", "energy"}) :
        /\ Len(kinds) \in 0 .. 2
        /\ todo' = [i \in DOMAIN kinds |-> Reading(kinds[i], made + i)]
        /\ made' = made + Len(kinds)
  BY SampleKinds
<1>2. made \in Nat /\ Len(kinds) \in Nat /\ DOMAIN kinds = 1 .. Len(kinds)
  <2>1. made \in Nat
    BY DEF TypeOK
  <2> QED
    BY <1>1, <2>1
<1>3. /\ DOMAIN todo' = 1 .. Len(kinds)
      /\ \A i \in 1 .. Len(kinds) : todo'[i].id = made + i
  <2>1. DOMAIN todo' = DOMAIN kinds /\ \A i \in DOMAIN kinds : todo'[i] = Reading(kinds[i], made + i)
    BY <1>1
  <2>2. \A i \in DOMAIN kinds : Reading(kinds[i], made + i).id = made + i
    BY DEF Reading
  <2> QED
    BY <1>2, <2>1, <2>2
<1>4. /\ todo = <<>> /\ UNCHANGED <<ring, overflowed, dropped, net, queue, inbox, emitted, gone>>
  BY DEF Sample, linkVars, adapterVars
<1>5. Left' = Left /\ Held' = Held /\ Hand = {}
  BY <1>4, LeftStays DEF Held, Hand, ToSet
<1> DEFINE others == Held \cup overflowed \cup Left
<1>6. {m.id : m \in others} = 1 .. made /\ Apart({}, Held, overflowed, Left)
  BY <1>5 DEF AccountInv, Apart
<1>7. {m.id : m \in Hand'} = made + 1 .. made'
  <2>1. \A m \in Hand' : m.id \in made + 1 .. made'
    <3>1. \A m \in Hand' : \E i \in 1 .. Len(kinds) : m.id = made + i
      BY <1>3 DEF Hand, ToSet
    <3>2. \A i \in 1 .. Len(kinds) : made + i \in made + 1 .. made'
      BY <1>1, <1>2
    <3> QED
      BY <3>1, <3>2
  <2>2. \A n \in made + 1 .. made' : \E m \in Hand' : m.id = n
    <3>1. \A n \in made + 1 .. made' : n - made \in 1 .. Len(kinds) /\ made + (n - made) = n
      BY <1>1, <1>2
    <3>2. \A i \in 1 .. Len(kinds) : todo'[i] \in Hand'
      BY <1>3 DEF Hand, ToSet
    <3> QED
      BY <1>3, <3>1, <3>2
  <2> QED
    BY <2>1, <2>2
<1>8. Hand' \cap others = {}
  <2> SUFFICES ASSUME NEW m \in Hand', m \in others PROVE FALSE
    OBVIOUS
  <2>1. m.id \in made + 1 .. made' /\ m.id \in 1 .. made
    BY <1>6, <1>7
  <2> QED
    BY <1>2, <2>1
<1>9. {m.id : m \in Hand' \cup others} = 1 .. made'
  <2>1. 1 .. made' = 1 .. made \cup (made + 1 .. made')
    BY <1>1, <1>2
  <2> HIDE DEF others
  <2> QED
    BY <1>6, <1>7, <2>1
<1>10. Distinct(todo')
  <2> SUFFICES ASSUME NEW i \in 1 .. Len(kinds), NEW j \in 1 .. Len(kinds), todo'[i] = todo'[j]
               PROVE  i = j
    BY <1>3 DEF Distinct
  <2>1. made + i = made + j
    BY <1>3
  <2> QED
    BY <1>2, <2>1
<1>11. Hand' \cup others = Hand' \cup Held' \cup overflowed' \cup Left'
  BY <1>4, <1>5
<1>12. Apart(Hand', Held', overflowed', Left')
  BY <1>4, <1>5, <1>6, <1>8 DEF Apart
<1>13. Contents(ring)' = Contents(ring)
  BY <1>4
<1> HIDE DEF others
<1>14. {m.id : m \in Hand' \cup Held' \cup overflowed' \cup Left'} = 1 .. made'
  BY <1>9, <1>11
<1> QED
  BY <1>4, <1>10, <1>12, <1>13, <1>14 DEF AccountInv

(* A message goes from the turn of loop() into the ring, and from the full *)
(* ring its oldest one to the dropped ones, which are counted.             *)
LEMMA AccountBuffered ==
  ASSUME TypeOK, AccountInv, todo # <<>>, Buffered, made' = made, Left' = Left
  PROVE  AccountInv'
<1> DEFINE m == Head(todo)
           kept == IF Full(ring) THEN Tail(Contents(ring)) ELSE Contents(ring)
<1>1. /\ m \in Mail /\ m \in Message /\ todo' = Tail(todo) /\ todo \in Seq(Mail)
      /\ ring' = Pushed(ring, m) /\ Contents(ring) \in Seq(Mail)
      /\ dropped' = dropped + Drops(ring) /\ dropped \in Nat
      /\ overflowed' = IF Full(ring) THEN overflowed \cup {Oldest(ring)} ELSE overflowed
  BY MailTypes DEF TypeOK, Buffered
<1>2. Contents(ring') = Append(kept, m) /\ (Full(ring) => ring.count > 0 /\ Contents(ring) # <<>>)
  BY <1>1, RingPushes
<1>3. Hand = {m} \cup Hand' /\ m \notin Hand' /\ Distinct(todo')
  BY <1>1, TailReadings, DistinctTail DEF Hand, AccountInv
<1> HIDE DEF m
<1>4. CASE ~Full(ring)
  <2>1. kept = Contents(ring) /\ UNCHANGED <<overflowed, dropped>>
    BY <1>1, <1>4 DEF Drops
  <2>2. m \notin Held
    BY <1>3 DEF AccountInv, Apart
  <2>3. Held' = Held \cup {m} /\ Distinct(Contents(ring'))
    <3>1. Contents(ring') = Append(Contents(ring), m) /\ Distinct(Contents(ring))
      BY <1>2, <2>1 DEF AccountInv
    <3>2. ToSet(Append(Contents(ring), m)) = Held \cup {m}
      BY <1>1, MailParts DEF Held
    <3>3. Distinct(Append(Contents(ring), m))
      BY <1>1, <2>2, <3>1, DistinctAppend DEF Held
    <3> QED
      BY <3>1, <3>2, <3>3 DEF Held
  <2>4. Hand' \cup Held' \cup overflowed' \cup Left' = Hand \cup Held \cup overflowed \cup Left
    BY <1>3, <2>1, <2>3
  <2>5. Apart(Hand', Held', overflowed', Left')
    BY <1>3, <2>1, <2>3 DEF AccountInv, Apart
  <2> QED
    BY <1>3, <2>1, <2>3, <2>4, <2>5 DEF AccountInv
<1>5. CASE Full(ring)
  <2> DEFINE o == Oldest(ring)
  <2>1. kept = Tail(Contents(ring)) /\ overflowed' = overflowed \cup {o} /\ dropped' = dropped + 1
    BY <1>1, <1>5 DEF Drops
  <2>2. o = Head(Contents(ring))
    BY <1>2, <1>5, RingPops
  <2>3. kept \in Seq(Mail) /\ Held = {o} \cup ToSet(kept) /\ o \notin ToSet(kept) /\ Distinct(kept)
    BY <1>1, <1>2, <1>5, <2>1, <2>2, TailReadings, DistinctTail DEF Held, AccountInv
  <2> HIDE DEF kept, o
  <2>4. m \notin ToSet(kept)
    BY <1>3, <2>3 DEF AccountInv, Apart
  <2>5. Held' = ToSet(kept) \cup {m} /\ Distinct(Contents(ring'))
    <3>1. ToSet(Append(kept, m)) = ToSet(kept) \cup {m}
      BY <1>1, <2>3, MailParts
    <3>2. Distinct(Append(kept, m))
      BY <1>1, <2>3, <2>4, DistinctAppend
    <3> QED
      BY <1>2, <3>1, <3>2 DEF Held
  <2>6. o \notin overflowed
    BY <2>3 DEF AccountInv, Apart
  <2>7. Hand' \cup Held' \cup overflowed' \cup Left' = Hand \cup Held \cup overflowed \cup Left
    BY <1>3, <2>1, <2>3, <2>5
  <2>8. Apart(Hand', Held', overflowed', Left')
    BY <1>3, <2>1, <2>3, <2>5 DEF AccountInv, Apart
  <2>9. IsFiniteSet(overflowed') /\ dropped' = Cardinality(overflowed')
    <3>1. IsFiniteSet(overflowed) /\ dropped = Cardinality(overflowed)
      BY DEF AccountInv
    <3>2. /\ IsFiniteSet(overflowed \cup {o})
          /\ Cardinality(overflowed \cup {o}) = Cardinality(overflowed) + 1
      BY <2>6, <3>1, FS_AddElement
    <3> QED
      BY <2>1, <3>1, <3>2
  <2> QED
    BY <1>3, <2>5, <2>7, <2>8, <2>9 DEF AccountInv
<1> QED
  BY <1>4, <1>5

(* A message goes from the node into the connection.                       *)
LEMMA AccountPublished ==
  ASSUME TypeOK, AccountInv, NEW m \in Message, Written(m),
         UNCHANGED <<overflowed, dropped, made, queue, inbox, emitted>>,
         \/ /\ todo # <<>> /\ m = Head(todo) /\ todo' = Tail(todo) /\ ring' = ring
         \/ /\ ring.count > 0 /\ m = Oldest(ring) /\ ring' = Popped(ring) /\ todo' = todo
  PROVE  AccountInv'
<1>1. Left' = Left \cup {m}
  <2>1. m \in Mail /\ Readings(<<m>>) = {m}
    BY MailTypes, OneReading
  <2> QED
    BY <2>1, LeftWritten
<1>2. CASE todo # <<>> /\ m = Head(todo) /\ todo' = Tail(todo) /\ ring' = ring
  <2>1. todo \in Seq(Mail) /\ Distinct(todo)
    BY MailTypes DEF TypeOK, AccountInv
  <2>2. Hand = {m} \cup Hand' /\ m \notin Hand' /\ Distinct(todo')
    BY <1>2, <2>1, TailReadings, DistinctTail DEF Hand
  <2>3. Held' = Held /\ Distinct(Contents(ring'))
    BY <1>2 DEF Held, AccountInv
  <2>4. Hand' \cup Held' \cup overflowed' \cup Left' = Hand \cup Held \cup overflowed \cup Left
    BY <1>1, <2>2, <2>3
  <2>5. Apart(Hand', Held', overflowed', Left')
    BY <1>1, <2>2, <2>3 DEF AccountInv, Apart
  <2> QED
    BY <2>2, <2>3, <2>4, <2>5 DEF AccountInv
<1>3. CASE ring.count > 0 /\ m = Oldest(ring) /\ ring' = Popped(ring) /\ todo' = todo
  <2>1. /\ Contents(ring) \in Seq(Mail) /\ Contents(ring) # <<>> /\ Distinct(Contents(ring))
        /\ Head(Contents(ring)) = m /\ Contents(ring') = Tail(Contents(ring))
    BY <1>3, MailTypes, RingPops DEF TypeOK, AccountInv
  <2>2. Held = {m} \cup Held' /\ m \notin Held' /\ Distinct(Contents(ring'))
    BY <2>1, TailReadings, DistinctTail DEF Held
  <2>3. Hand' = Hand /\ Distinct(todo')
    BY <1>3 DEF Hand, AccountInv
  <2>4. Hand' \cup Held' \cup overflowed' \cup Left' = Hand \cup Held \cup overflowed \cup Left
    BY <1>1, <2>2, <2>3
  <2>5. Apart(Hand', Held', overflowed', Left')
    BY <1>1, <2>2, <2>3 DEF AccountInv, Apart
  <2> QED
    BY <2>2, <2>3, <2>4, <2>5 DEF AccountInv
<1> QED
  BY <1>2, <1>3

LEMMA AccountReboots == ASSUME TypeOK, AccountInv, Reboot PROVE AccountInv'
<1>1. Left' = Left \cup Hand \cup Held \cup overflowed
  BY LeftReboots
<1>2. todo' = <<>> /\ Contents(ring') = <<>> /\ overflowed' = {} /\ dropped' = 0 /\ made' = made
  BY EmptyRingType DEF Reboot
<1>3. ToSet(<<>>) = {} /\ Distinct(<<>>)
  BY DEF ToSet, Distinct
<1>4. Hand' = {} /\ Held' = {}
  BY <1>2, <1>3 DEF Hand, Held
<1>5. Hand' \cup Held' \cup overflowed' \cup Left' = Hand \cup Held \cup overflowed \cup Left
  BY <1>1, <1>2, <1>4
<1>6. Apart(Hand', Held', overflowed', Left')
  BY <1>2, <1>4 DEF Apart
<1>7. Distinct(todo') /\ Distinct(Contents(ring'))
  BY <1>2, <1>3
<1> QED
  BY <1>2, <1>5, <1>6, <1>7, FS_EmptySet DEF AccountInv

LEMMA AccountStep == TypeOK /\ AccountInv /\ [Next]_vars => AccountInv'
<1> SUFFICES ASSUME TypeOK, AccountInv, [Next]_vars PROVE AccountInv'
  OBVIOUS
<1>1. TypeOK'
  BY TypeStep
<1>2. CASE Sample
  BY <1>1, <1>2, AccountSample
<1>3. CASE EnsureConnected \/ ReplayEnds \/ Notice \/ UNCHANGED vars
  <2>1. UNCHANGED <<todo, ring, overflowed, dropped, made, net, queue, inbox, emitted, gone>>
    BY <1>3 DEF EnsureConnected, ReplayEnds, Notice, vars, nodeVars, linkVars, adapterVars, bookVars
  <2> QED
    BY <2>1, LeftStays, AccountStays
<1>4. CASE EnsureFails
  <2>1. /\ todo # <<>> /\ Buffered /\ made' = made
        /\ UNCHANGED <<net, queue, inbox, emitted, gone>>
    BY <1>4 DEF EnsureFails, linkVars, adapterVars
  <2> QED
    BY <2>1, LeftStays, AccountBuffered
<1>5. CASE EnsureConnects
  <2>1. UNCHANGED <<todo, ring, overflowed, dropped, made>>
    BY <1>5 DEF EnsureConnects
  <2> QED
    BY <1>5, <2>1, LeftConnects, AccountStays
<1>6. CASE Replay
  <2>1. ring.count > 0 /\ UNCHANGED <<todo, overflowed, dropped, made, queue, inbox, emitted>>
    BY <1>6 DEF Replay, adapterVars
  <2>2. CASE Written(Oldest(ring)) /\ ring' = Popped(ring)
    <3>1. Oldest(ring) \in Message
      BY <2>1, RingPops
    <3> QED
      BY <2>1, <2>2, <3>1, AccountPublished
  <2>3. CASE NotWritten /\ UNCHANGED ring
    <3>1. UNCHANGED <<net, gone>>
      BY <2>3, NotWrittenTypes
    <3> QED
      BY <2>1, <2>3, <3>1, LeftStays, AccountStays
  <2> QED
    BY <1>6, <2>2, <2>3 DEF Replay, AfterReplay
<1>7. CASE Publish
  <2>1. todo # <<>> /\ UNCHANGED <<made, queue, inbox, emitted>>
    BY <1>7 DEF TypeOK, Publish, adapterVars
  <2>2. CASE /\ Written(Head(todo))
             /\ todo' = Tail(todo) /\ UNCHANGED <<ring, dropped, overflowed>>
    <3>1. Head(todo) \in Message
      BY <2>1 DEF TypeOK
    <3> QED
      BY <2>1, <2>2, <3>1, AccountPublished
  <2>3. CASE Buffered /\ UNCHANGED <<net, gone>>
    BY <2>1, <2>3, LeftStays, AccountBuffered
  <2> QED
    BY <1>7, <2>2, <2>3, NotWrittenTypes DEF Publish
<1>8. CASE Break \/ BrokerRestart
  <2>1. UNCHANGED <<todo, ring, overflowed, dropped, made>>
    BY <1>8 DEF Break, BrokerRestart
  <2> QED
    BY <1>8, <2>1, LeftBreaks, AccountStays
<1>9. CASE Reboot
  BY <1>9, AccountReboots
<1>10. CASE Forward
  <2>1. UNCHANGED <<todo, ring, overflowed, dropped, made>>
    BY <1>10 DEF Forward, nodeVars
  <2> QED
    BY <1>10, <2>1, LeftForwards, AccountStays
<1>11. CASE OnMessage \/ Start \/ Handle \/ HandleRaises \/ Stop
  <2>1. UNCHANGED <<todo, ring, overflowed, dropped, made>>
    BY <1>11 DEF OnMessage, Start, Handle, HandleRaises, Stop, nodeVars, bookVars
  <2> QED
    BY <1>11, <2>1, LeftAdapter, AccountStays
<1> QED
  BY <1>2, <1>3, <1>4, <1>5, <1>6, <1>7, <1>8, <1>9, <1>10, <1>11 DEF Next

(* What Accounted calls left is Left.                                      *)
LEMMA LeftIsOut == ASSUME TypeOK PROVE {m \in Out : m.kind # "hello"} = Left
<1> DEFINE boxes == UNION {ToSet(inbox[i]) : i \in DOMAIN inbox}
<1>1. {m \in boxes : m.kind # "hello"} = Delivered
  BY DEF Delivered, Readings
<1>2. \A m \in gone : m.kind # "hello"
  BY MailTypes DEF TypeOK
<1> HIDE DEF boxes
<1>3. Out = ToSet(net) \cup ToSet(queue) \cup boxes \cup ToSet(emitted) \cup gone
  BY DEF Out, boxes
<1>4. ASSUME NEW m PROVE m \in {n \in Out : n.kind # "hello"} <=> m \in Left
  <2>1. \A s : m \in Readings(s) <=> m \in ToSet(s) /\ m.kind # "hello"
    BY DEF Readings
  <2>2. m \in Delivered <=> m \in boxes /\ m.kind # "hello"
    BY <1>1
  <2> QED
    BY <1>2, <1>3, <2>1, <2>2 DEF Left
<1> QED
  BY <1>4

(* No reading is lost uncounted and none is in two places, for every size  *)
(* of the ring: what has not left the node is in loop()'s hands or in the  *)
(* ring, and the rest is as many as the counter says (main.cpp 149-193).   *)
THEOREM EveryReadingAccounted == Spec => []Accounted
<1>1. TypeOK /\ AccountInv => Accounted
  <2> SUFFICES ASSUME TypeOK, AccountInv PROVE Accounted
    OBVIOUS
  <2> DEFINE left == {m \in Out : m.kind # "hello"}
  <2>1. left = Left
    BY LeftIsOut
  <2>2. Readings(todo) = Hand
    BY AllReadings DEF TypeOK, Hand
  <2>3. Cardinality(Held) = ring.count
    <3>1. Contents(ring) \in Seq(Mail) /\ Len(Contents(ring)) = ring.count
      BY MailTypes, ContentsShape DEF TypeOK
    <3> QED
      BY <3>1, DistinctCount DEF AccountInv, Held
  <2> HIDE DEF left
  <2>4. /\ {m.id : m \in Readings(todo) \cup Held \cup overflowed \cup left} = 1 .. made
        /\ Hand \cap (Held \cup overflowed \cup left) = {}
        /\ Held \cap (overflowed \cup left) = {} /\ overflowed \cap left = {}
        /\ dropped = Cardinality(overflowed)
    BY <2>1, <2>2 DEF AccountInv, Apart
  <2> QED
    BY <2>3, <2>4 DEF Accounted, Hand, Held, left
<1>2. Init => TypeOK /\ AccountInv
  BY TypeInit, AccountInit
<1>3. (TypeOK /\ AccountInv) /\ [Next]_vars => (TypeOK /\ AccountInv)'
  BY TypeStep, AccountStep
<1> QED
  BY <1>1, <1>2, <1>3, PTL DEF Spec

-----------------------------------------------------------------------------
(* The copies of a reading.  A shelf is where a copy may stand on the      *)
(* gateway's side: emit()'s (-1), the queue (0) and each client's inbox.   *)
(* As many copies as there were calls of start() is said by numbering      *)
(* them; moving a copy keeps its number.                                   *)
ShelvesOf(e, q, b) == [k \in -1 .. Len(b) |-> IF k = -1 THEN e ELSE IF k = 0 THEN q ELSE b[k]]

Shelves == ShelvesOf(emitted, queue, inbox)

Spots(S, m) ==
  {p \in (DOMAIN S) \X (Nat \ {0}) : p[2] \in DOMAIN S[p[1]] /\ S[p[1]][p[2]] = m}

Fits(P, n) == \E f \in [P -> 1 .. n] : \A p, q \in P : f[p] = f[q] => p = q

Once(s) == \A i, j \in DOMAIN s : s[i] \in Message /\ s[i] = s[j] => i = j

(* What the broker has not forwarded yet has no copy.                      *)
CopyInv ==
  /\ \A m \in Message : Fits(Spots(Shelves, m), starts)
  /\ \A m \in Readings(net) : Spots(Shelves, m) = {}
  /\ Once(net)

(* The first copy of shelf a goes behind the last of shelf b.              *)
Moved(S, T, a, b) ==
  /\ DOMAIN T = DOMAIN S /\ a \in DOMAIN S /\ b \in DOMAIN S /\ a # b /\ S[a] # <<>>
  /\ T[a] = Tail(S[a]) /\ T[b] = Append(S[b], Head(S[a]))
  /\ \A k \in DOMAIN S : k # a /\ k # b => T[k] = S[k]

Shelved(S) == \E n \in Nat : DOMAIN S = -1 .. n /\ \A k \in -1 .. n : S[k] \in Seq(Mail)

LEMMA FitsInto ==
  ASSUME NEW P, NEW Q, NEW n \in Nat, NEW k \in Nat, n <= k, Fits(P, n),
         NEW g \in [Q -> P], \A p, q \in Q : g[p] = g[q] => p = q
  PROVE  Fits(Q, k)
<1>1. PICK f \in [P -> 1 .. n] : \A p, q \in P : f[p] = f[q] => p = q
  BY DEF Fits
<1> DEFINE h == [q \in Q |-> f[g[q]]]
<1>2. \A q \in Q : g[q] \in P /\ f[g[q]] \in 1 .. k
  <2>1. \A p \in P : f[p] \in 1 .. n
    BY <1>1
  <2>2. \A i \in 1 .. n : i \in 1 .. k
    OBVIOUS
  <2> QED
    BY <2>1, <2>2
<1>3. h \in [Q -> 1 .. k]
  BY <1>2
<1>4. \A p, q \in Q : h[p] = h[q] => p = q
  BY <1>1, <1>2
<1> QED
  BY <1>3, <1>4 DEF Fits

(* A shelf keeps what it has, loses its first copy, or is emptied.         *)
LEMMA FewerCopies ==
  ASSUME NEW S, NEW T, Shelved(S), Shelved(T), NEW m,
         \A k \in DOMAIN T : \/ T[k] = <<>>
                             \/ k \in DOMAIN S /\ S[k] # <<>> /\ T[k] = Tail(S[k])
                             \/ k \in DOMAIN S /\ T[k] = S[k]
  PROVE  \E g \in [Spots(T, m) -> Spots(S, m)] :
           \A p, q \in Spots(T, m) : g[p] = g[q] => p = q
<1> DEFINE whole(k) == k \in DOMAIN S /\ T[k] = S[k]
           g == [p \in Spots(T, m) |-> IF whole(p[1]) THEN p ELSE <<p[1], p[2] + 1>>]
<1>1. ASSUME NEW p \in Spots(T, m), ~whole(p[1])
      PROVE  <<p[1], p[2] + 1>> \in Spots(S, m)
  <2>1. PICK k \in DOMAIN T, i \in Nat \ {0} : p = <<k, i>> /\ i \in DOMAIN T[k] /\ T[k][i] = m
    BY DEF Spots
  <2>2. T[k] # <<>>
    BY <2>1
  <2>3. k \in DOMAIN S /\ S[k] # <<>> /\ T[k] = Tail(S[k]) /\ S[k] \in Seq(Mail)
    BY <1>1, <2>1, <2>2 DEF Shelved
  <2>4. DOMAIN T[k] = 1 .. Len(S[k]) - 1 /\ \A j \in 1 .. Len(S[k]) - 1 : T[k][j] = S[k][j + 1]
    BY <2>3
  <2>5. i + 1 \in DOMAIN S[k] /\ S[k][i + 1] = m /\ i + 1 \in Nat \ {0}
    BY <2>1, <2>3, <2>4
  <2> QED
    BY <2>1, <2>3, <2>5 DEF Spots
<1>2. \A p \in Spots(T, m) : whole(p[1]) => p \in Spots(S, m)
  BY DEF Spots
<1>3. \A p \in Spots(T, m) : \E k \in DOMAIN T, i \in Nat : p = <<k, i>>
  BY DEF Spots
<1> HIDE DEF whole
<1>4. g \in [Spots(T, m) -> Spots(S, m)]
  BY <1>1, <1>2
<1>5. ASSUME NEW p \in Spots(T, m), NEW q \in Spots(T, m), g[p] = g[q]
      PROVE  p = q
  <2>1. PICK k \in DOMAIN T, i \in Nat : p = <<k, i>>
    BY <1>3
  <2>2. PICK l \in DOMAIN T, j \in Nat : q = <<l, j>>
    BY <1>3
  <2>3. g[p] = (IF whole(p[1]) THEN p ELSE <<p[1], p[2] + 1>>)
    OBVIOUS
  <2>4. g[q] = (IF whole(q[1]) THEN q ELSE <<q[1], q[2] + 1>>)
    OBVIOUS
  <2> HIDE DEF g
  <2>5. <<k, IF whole(k) THEN i ELSE i + 1>> = <<l, IF whole(l) THEN j ELSE j + 1>>
    BY <1>5, <2>1, <2>2, <2>3, <2>4
  <2>6. k = l /\ (IF whole(k) THEN i ELSE i + 1) = (IF whole(k) THEN j ELSE j + 1)
    BY <2>5
  <2> QED
    BY <2>1, <2>2, <2>6
<1> QED
  BY <1>4, <1>5

LEMMA CopyMoves ==
  ASSUME NEW S, NEW T, Shelved(S), Shelved(T), NEW m, NEW a, NEW b, Moved(S, T, a, b)
  PROVE  \E g \in [Spots(T, m) -> Spots(S, m)] :
           \A p, q \in Spots(T, m) : g[p] = g[q] => p = q
<1> DEFINE last == <<b, Len(S[b]) + 1>>
           from(p) == IF p = last THEN <<a, 1>> ELSE IF p[1] = a THEN <<a, p[2] + 1>> ELSE p
           g == [p \in Spots(T, m) |-> from(p)]
<1>0. Moved(S, T, a, b)
  OBVIOUS
<1> USE <1>0 DEF Moved
<1>1. /\ S[a] \in Seq(Mail) /\ S[b] \in Seq(Mail) /\ Len(S[b]) \in Nat /\ Len(S[a]) \in Nat \ {0}
      /\ DOMAIN T[a] = 1 .. Len(S[a]) - 1 /\ \A j \in 1 .. Len(S[a]) - 1 : T[a][j] = S[a][j + 1]
      /\ DOMAIN S[a] = 1 .. Len(S[a]) /\ S[a][1] = Head(S[a])
      /\ DOMAIN T[b] = 1 .. Len(S[b]) + 1 /\ T[b][Len(S[b]) + 1] = Head(S[a])
      /\ DOMAIN S[b] = 1 .. Len(S[b]) /\ \A j \in 1 .. Len(S[b]) : T[b][j] = S[b][j]
  BY DEF Shelved
<1>2. ASSUME NEW p \in Spots(T, m)
      PROVE  p = <<p[1], p[2]>> /\ p[2] \in Nat \ {0} /\ from(p) \in Spots(S, m)
  <2>1. PICK k \in DOMAIN S, i \in Nat \ {0} : p = <<k, i>> /\ i \in DOMAIN T[k] /\ T[k][i] = m
    BY DEF Spots
  <2>2. CASE p = last
    <3>1. k = b /\ i = Len(S[b]) + 1
      BY <2>1, <2>2
    <3>2. <<a, 1>> \in Spots(S, m)
      BY <1>1, <2>1, <3>1 DEF Spots
    <3> QED
      BY <2>1, <2>2, <3>2
  <2>3. CASE p # last /\ k = a
    <3>0. i \in 1 .. Len(S[a]) - 1 /\ T[a][i] = m
      BY <1>1, <2>1, <2>3
    <3>1. i + 1 \in DOMAIN S[a] /\ S[a][i + 1] = m /\ i + 1 \in Nat \ {0}
      BY <1>1, <3>0
    <3>2. <<a, i + 1>> \in Spots(S, m)
      BY <3>1 DEF Spots
    <3> QED
      BY <2>1, <2>3, <3>2
  <2>4. CASE p # last /\ k = b
    <3>1. i # Len(S[b]) + 1
      BY <2>1, <2>4
    <3>2. i \in DOMAIN S[b] /\ S[b][i] = m
      BY <1>1, <2>1, <2>4, <3>1
    <3>3. <<b, i>> \in Spots(S, m)
      BY <2>1, <3>2 DEF Spots
    <3> QED
      BY <2>1, <2>4, <3>3
  <2>5. CASE k # a /\ k # b
    <3>1. <<k, i>> \in Spots(S, m)
      BY <2>1, <2>5 DEF Spots
    <3> QED
      BY <2>1, <2>5, <3>1
  <2> QED
    BY <2>2, <2>3, <2>4, <2>5
<1>3. ASSUME NEW p \in Spots(T, m), NEW q \in Spots(T, m), from(p) = from(q)
      PROVE  p = q
  <2>1. p = <<p[1], p[2]>> /\ p[2] \in Nat \ {0} /\ q = <<q[1], q[2]>> /\ q[2] \in Nat \ {0}
    BY <1>2
  <2>2. p[1] = q[1] \/ p = last \/ q = last
    BY <1>3, <2>1
  <2>3. CASE p = last /\ q # last
    <3>1. <<a, 1>> = from(q)
      BY <1>3, <2>3
    <3>2. (q[1] = a /\ q[2] + 1 = 1) \/ (q = <<a, 1>> /\ q[1] # a)
      BY <2>1, <2>3, <3>1
    <3> QED
      BY <2>1, <3>2
  <2>4. CASE q = last /\ p # last
    <3>1. <<a, 1>> = from(p)
      BY <1>3, <2>4
    <3>2. (p[1] = a /\ p[2] + 1 = 1) \/ (p = <<a, 1>> /\ p[1] # a)
      BY <2>1, <2>4, <3>1
    <3> QED
      BY <2>1, <3>2
  <2>5. CASE p # last /\ q # last
    <3>1. p[1] = q[1]
      BY <2>2, <2>5
    <3>2. p[2] = q[2]
      <4>1. CASE p[1] = a
        <5>1. <<a, p[2] + 1>> = <<a, q[2] + 1>>
          BY <1>3, <2>5, <3>1, <4>1
        <5> QED
          BY <2>1, <5>1
      <4>2. CASE p[1] # a
        BY <1>3, <2>5, <3>1, <4>2
      <4> QED
        BY <4>1, <4>2
    <3> QED
      BY <2>1, <3>1, <3>2
  <2>6. CASE p = last /\ q = last
    BY <2>6
  <2> QED
    BY <2>3, <2>4, <2>5, <2>6
<1> HIDE DEF from
<1>4. g \in [Spots(T, m) -> Spots(S, m)] /\ \A p \in Spots(T, m) : g[p] = from(p)
  BY <1>2
<1> HIDE DEF g
<1> QED
  BY <1>3, <1>4

(* A copy for every client, of what had none.                              *)
LEMMA CopyForwarded ==
  ASSUME NEW S, NEW T, Shelved(S), NEW m, NEW h \in Mail, NEW n \in Nat,
         DOMAIN S = -1 .. n, DOMAIN T = DOMAIN S, T[-1] = S[-1], T[0] = S[0],
         \A k \in 1 .. n : T[k] = Append(S[k], h)
  PROVE  /\ m # h => Spots(T, m) = Spots(S, m)
         /\ Spots(S, m) = {} => Fits(Spots(T, m), n)
<1>1. ASSUME NEW k \in DOMAIN S, NEW i \in Nat \ {0}
      PROVE  <<k, i>> \in Spots(T, m) <=>
                <<k, i>> \in Spots(S, m) \/ (k \in 1 .. n /\ i = Len(S[k]) + 1 /\ h = m)
  <2>1. S[k] \in Seq(Mail)
    BY DEF Shelved
  <2>2. CASE k \in 1 .. n
    <3>1. /\ T[k] = Append(S[k], h) /\ Len(S[k]) \in Nat /\ DOMAIN S[k] = 1 .. Len(S[k])
          /\ DOMAIN T[k] = 1 .. Len(S[k]) + 1 /\ T[k][Len(S[k]) + 1] = h
          /\ \A j \in 1 .. Len(S[k]) : T[k][j] = S[k][j]
      <4>1. T[k] = Append(S[k], h)
        BY <2>2
      <4>2. \A s \in Seq(Mail) :
              /\ Len(s) \in Nat /\ DOMAIN s = 1 .. Len(s)
              /\ DOMAIN Append(s, h) = 1 .. Len(s) + 1 /\ Append(s, h)[Len(s) + 1] = h
              /\ \A j \in 1 .. Len(s) : Append(s, h)[j] = s[j]
        OBVIOUS
      <4> QED
        BY <2>1, <4>1, <4>2
    <3>2. /\ <<k, i>> \in Spots(T, m) <=> i \in DOMAIN T[k] /\ T[k][i] = m
          /\ <<k, i>> \in Spots(S, m) <=> i \in DOMAIN S[k] /\ S[k][i] = m
      BY DEF Spots
    <3>3. CASE i \in 1 .. Len(S[k])
      BY <3>1, <3>2, <3>3
    <3>4. CASE i = Len(S[k]) + 1
      BY <2>2, <3>1, <3>2, <3>4
    <3>5. CASE i \notin 1 .. Len(S[k]) + 1
      BY <3>1, <3>2, <3>5
    <3> QED
      BY <3>1, <3>3, <3>4, <3>5
  <2>3. CASE k \notin 1 .. n
    <3>1. T[k] = S[k]
      <4>1. k = -1 \/ k = 0
        BY <2>3
      <4> QED
        BY <4>1
    <3> QED
      BY <2>3, <3>1 DEF Spots
  <2> QED
    BY <2>2, <2>3
<1>2. \A p : p \in Spots(T, m) \/ p \in Spots(S, m) =>
        p = <<p[1], p[2]>> /\ p[1] \in DOMAIN S /\ p[2] \in Nat \ {0}
  BY DEF Spots
<1>3. ASSUME m # h PROVE Spots(T, m) = Spots(S, m)
  <2>1. ASSUME NEW p PROVE p \in Spots(T, m) <=> p \in Spots(S, m)
    BY <1>1, <1>2, <1>3
  <2> QED
    BY <2>1
<1>4. ASSUME Spots(S, m) = {} PROVE Fits(Spots(T, m), n)
  <2> DEFINE f == [p \in Spots(T, m) |-> p[1]]
  <2>1. \A p \in Spots(T, m) : p[1] \in 1 .. n /\ p = <<p[1], Len(S[p[1]]) + 1>>
    BY <1>1, <1>2, <1>4
  <2>2. f \in [Spots(T, m) -> 1 .. n] /\ \A p \in Spots(T, m) : f[p] = p[1]
    BY <2>1
  <2> HIDE DEF f
  <2>3. ASSUME NEW p \in Spots(T, m), NEW q \in Spots(T, m), f[p] = f[q] PROVE p = q
    <3>1. p[1] = q[1]
      BY <2>2, <2>3
    <3>2. p = <<p[1], Len(S[p[1]]) + 1>>
      BY <2>1
    <3>3. q = <<q[1], Len(S[q[1]]) + 1>>
      BY <2>1
    <3> QED
      BY <3>1, <3>2, <3>3, Zenon
  <2> QED
    BY <2>2, <2>3 DEF Fits
<1> QED
  BY <1>3, <1>4

-----------------------------------------------------------------------------
(* The steps and the copies.                                               *)
LEMMA ShelvesParts ==
  ASSUME NEW e \in Seq(Mail), NEW q \in Seq(Mail), NEW b \in Seq(Seq(Mail)), NEW S, S = ShelvesOf(e, q, b)
  PROVE  /\ Shelved(S) /\ DOMAIN S = -1 .. Len(b) /\ Len(b) \in Nat /\ S[-1] = e /\ S[0] = q
         /\ DOMAIN b = 1 .. Len(b) /\ \A k \in 1 .. Len(b) : S[k] = b[k]
<1>1. Len(b) \in Nat /\ DOMAIN b = 1 .. Len(b) /\ \A k \in 1 .. Len(b) : b[k] \in Seq(Mail)
  OBVIOUS
<1>2. \A k \in -1 .. Len(b) : S[k] = IF k = -1 THEN e ELSE IF k = 0 THEN q ELSE b[k]
  BY DEF ShelvesOf
<1>3. -1 \in -1 .. Len(b) /\ 0 \in -1 .. Len(b) /\ 1 .. Len(b) \subseteq -1 .. Len(b)
  BY <1>1
<1>4. S[-1] = e /\ S[0] = q /\ \A k \in 1 .. Len(b) : S[k] = b[k]
  BY <1>1, <1>2, <1>3
<1>5. \A k \in -1 .. Len(b) : k = -1 \/ k = 0 \/ k \in 1 .. Len(b)
  BY <1>1
<1>6. \A k \in -1 .. Len(b) : S[k] \in Seq(Mail)
  BY <1>1, <1>4, <1>5
<1>7. DOMAIN S = -1 .. Len(b)
  BY DEF ShelvesOf
<1> QED
  BY <1>1, <1>4, <1>6, <1>7 DEF Shelved

LEMMA ShelvesType ==
  ASSUME TypeOK
  PROVE  /\ Shelved(Shelves) /\ DOMAIN Shelves = -1 .. Len(inbox) /\ Len(inbox) \in Nat
         /\ Shelves[-1] = emitted /\ Shelves[0] = queue
         /\ DOMAIN inbox = 1 .. Len(inbox) /\ \A k \in 1 .. Len(inbox) : Shelves[k] = inbox[k]
<1>1. emitted \in Seq(Mail) /\ queue \in Seq(Mail) /\ inbox \in Seq(Seq(Mail))
  BY MailTypes DEF TypeOK
<1> QED
  BY <1>1, ShelvesParts DEF Shelves

LEMMA ShelvesNext ==
  ASSUME TypeOK'
  PROVE  /\ Shelved(Shelves') /\ DOMAIN Shelves' = -1 .. Len(inbox') /\ Len(inbox') \in Nat
         /\ Shelves'[-1] = emitted' /\ Shelves'[0] = queue'
         /\ DOMAIN inbox' = 1 .. Len(inbox') /\ \A k \in 1 .. Len(inbox') : Shelves'[k] = inbox'[k]
<1>1. emitted' \in Seq(Mail) /\ queue' \in Seq(Mail) /\ inbox' \in Seq(Seq(Mail))
  BY MailTypes DEF TypeOK
<1>2. Shelves' = ShelvesOf(emitted', queue', inbox')
  BY DEF Shelves
<1> QED
  BY <1>1, <1>2, ShelvesParts

LEMMA SameLength ==
  ASSUME NEW i \in Nat, NEW j \in Nat, 1 .. i = 1 .. j
  PROVE  i = j
<1>1. \A k \in Int : k \in 1 .. i <=> k \in 1 .. j
  OBVIOUS
<1>2. \A k \in Int : (1 <= k /\ k <= i) <=> (1 <= k /\ k <= j)
  BY <1>1
<1>3. ~(i < j) /\ ~(j < i)
  BY <1>2
<1> QED
  BY <1>3

LEMMA CopiesKeep ==
  ASSUME TypeOK, TypeOK', CopyInv, starts <= starts',
         \A m \in Message : \E g \in [Spots(Shelves', m) -> Spots(Shelves, m)] :
           \A p, q \in Spots(Shelves', m) : g[p] = g[q] => p = q,
         Readings(net') \subseteq Readings(net), Once(net')
  PROVE  CopyInv'
<1>1. starts \in Nat /\ starts' \in Nat /\ net \in Seq(Mail)
  BY DEF TypeOK
<1>2. ASSUME NEW m \in Message PROVE Fits(Spots(Shelves', m), starts')
  <2>1. PICK g \in [Spots(Shelves', m) -> Spots(Shelves, m)] :
          \A p, q \in Spots(Shelves', m) : g[p] = g[q] => p = q
    OBVIOUS
  <2>2. Fits(Spots(Shelves, m), starts)
    BY DEF CopyInv
  <2> QED
    BY <1>1, <2>1, <2>2, FitsInto
<1>3. ASSUME NEW m \in Readings(net') PROVE Spots(Shelves', m) = {}
  <2>1. m \in Readings(net) /\ m \in Message
    BY <1>1, MailTypes
  <2>2. PICK g : g \in [Spots(Shelves', m) -> Spots(Shelves, m)]
    BY <2>1
  <2>3. Spots(Shelves, m) = {}
    BY <2>1 DEF CopyInv
  <2> QED
    BY <2>2, <2>3
<1> QED
  BY <1>2, <1>3 DEF CopyInv

LEMMA SameCopies ==
  ASSUME NEW S, NEW m
  PROVE  \E g \in [Spots(S, m) -> Spots(S, m)] : \A p, q \in Spots(S, m) : g[p] = g[q] => p = q
<1> DEFINE g == [p \in Spots(S, m) |-> p]
<1>1. g \in [Spots(S, m) -> Spots(S, m)] /\ \A p, q \in Spots(S, m) : g[p] = g[q] => p = q
  OBVIOUS
<1> QED
  BY <1>1

LEMMA OncePrefix ==
  ASSUME NEW s \in Seq(Mail), NEW k \in 0 .. Len(s), Once(s)
  PROVE  Once(SubSeq(s, 1, k))
<1>1. /\ DOMAIN SubSeq(s, 1, k) = 1 .. k /\ \A i \in 1 .. k : SubSeq(s, 1, k)[i] = s[i]
      /\ 1 .. k \subseteq DOMAIN s
  OBVIOUS
<1> QED
  BY <1>1 DEF Once

LEMMA OnceAppend ==
  ASSUME NEW s \in Seq(Mail), NEW m \in Mail, Once(s), m \in Message => m \notin Readings(s)
  PROVE  Once(Append(s, m))
<1>1. /\ DOMAIN Append(s, m) = 1 .. Len(s) + 1 /\ DOMAIN s = 1 .. Len(s) /\ Len(s) \in Nat
      /\ \A i \in 1 .. Len(s) : Append(s, m)[i] = s[i]
      /\ Append(s, m)[Len(s) + 1] = m
  OBVIOUS
<1>2. m \in Message => \A i \in 1 .. Len(s) : s[i] # m
  BY <1>1, MailTypes DEF Readings, ToSet
<1>3. \A i \in 1 .. Len(s) + 1 : i \in 1 .. Len(s) \/ i = Len(s) + 1
  BY <1>1
<1> QED
  BY <1>1, <1>2, <1>3 DEF Once

LEMMA OnceTail ==
  ASSUME NEW s \in Seq(Mail), s # <<>>, Once(s)
  PROVE  Once(Tail(s)) /\ (Head(s) \in Message => Head(s) \notin Readings(Tail(s)))
<1>1. /\ DOMAIN Tail(s) = 1 .. Len(s) - 1 /\ DOMAIN s = 1 .. Len(s) /\ Len(s) \in Nat \ {0}
      /\ \A i \in 1 .. Len(s) - 1 : Tail(s)[i] = s[i + 1]
      /\ s[1] = Head(s)
  OBVIOUS
<1>2. \A i \in 1 .. Len(s) - 1 : i + 1 \in 1 .. Len(s) /\ i + 1 # 1
  BY <1>1
<1>3. 1 \in 1 .. Len(s)
  BY <1>1
<1>4. Head(s) \in Message => Head(s) \notin ToSet(Tail(s))
  BY <1>1, <1>2, <1>3 DEF Once, ToSet
<1>5. ASSUME NEW i \in 1 .. Len(s) - 1, NEW j \in 1 .. Len(s) - 1,
             Tail(s)[i] \in Message, Tail(s)[i] = Tail(s)[j]
      PROVE  i = j
  <2>1. s[i + 1] \in Message /\ s[i + 1] = s[j + 1] /\ i + 1 \in DOMAIN s /\ j + 1 \in DOMAIN s
    BY <1>1, <1>2, <1>5
  <2>2. i + 1 = j + 1
    BY <2>1 DEF Once
  <2> QED
    BY <1>1, <2>2
<1> QED
  BY <1>1, <1>4, <1>5 DEF Once, Readings

(* What is still in the node has no copy outside.                          *)
LEMMA NewHasNone ==
  ASSUME TypeOK, NEW m \in Message, m \notin Left
  PROVE  Spots(Shelves, m) = {} /\ m \notin Readings(net)
<1>1. m.kind # "hello" /\ m \notin Readings(net)
  BY MailTypes DEF Left
<1>2. m \notin ToSet(emitted) /\ m \notin ToSet(queue) /\ \A k \in DOMAIN inbox : m \notin ToSet(inbox[k])
  BY <1>1 DEF Left, Delivered, Readings
<1>3. ASSUME NEW k \in DOMAIN Shelves, NEW i \in DOMAIN Shelves[k] PROVE Shelves[k][i] # m
  <2>1. k = -1 \/ k = 0 \/ k \in 1 .. Len(inbox)
    BY ShelvesType
  <2> QED
    BY <1>2, <2>1, ShelvesType DEF ToSet
<1> QED
  BY <1>1, <1>3 DEF Spots

LEMMA CopyWritten ==
  ASSUME TypeOK, TypeOK', CopyInv, UNCHANGED <<queue, inbox, emitted, starts>>,
         NEW m \in Mail, m \in Message => m \notin Left,
         net' = net \/ net' = Append(net, m)
  PROVE  CopyInv'
<1>1. Shelves' = Shelves
  BY DEF Shelves
<1>2. net \in Seq(Mail)
  BY DEF TypeOK
<1>3. CASE net' = net
  BY <1>1, <1>3 DEF CopyInv
<1>4. CASE net' = Append(net, m)
  <2>1. Once(net')
    BY <1>2, <1>4, NewHasNone, OnceAppend DEF CopyInv
  <2>2. Readings(net') = Readings(net) \cup Readings(<<m>>) /\ Readings(<<m>>) \subseteq {m} \cap Message
    BY <1>2, <1>4, AppendReadings, OneReading, MailTypes
  <2>3. \A n \in Readings(net') : Spots(Shelves, n) = {}
    BY <2>2, NewHasNone DEF CopyInv
  <2> QED
    BY <1>1, <2>1, <2>3 DEF CopyInv
<1> QED
  BY <1>3, <1>4

LEMMA CopyPublisher ==
  ASSUME TypeOK, TypeOK', AccountInv, CopyInv,
         \/ Sample \/ EnsureConnected \/ EnsureFails \/ EnsureConnects \/ Replay \/ ReplayEnds
         \/ Publish \/ Notice \/ UNCHANGED vars
  PROVE  CopyInv'
<1>1. UNCHANGED <<queue, inbox, emitted, starts>>
  BY DEF Sample, EnsureConnected, EnsureFails, EnsureConnects, Replay, ReplayEnds, Publish, Notice,
         vars, linkVars, adapterVars, bookVars
<1>2. \E m \in Mail : (m \in Message => m \notin Left) /\ (net' = net \/ net' = Append(net, m))
  <2>1. Hello(0) \in Mail /\ Hello(0).kind = "hello"
    BY HelloType
  <2>2. \A m \in Message : m.kind # "hello" /\ m \in Mail
    BY MailTypes
  <2>3. CASE UNCHANGED net
    BY <2>1, <2>2, <2>3
  <2>4. CASE EnsureConnects
    <3>1. net' = net \/ net' = Append(net, Hello(HelloCount))
      BY <2>4 DEF EnsureConnects
    <3>2. Hello(HelloCount) \in Mail /\ Hello(HelloCount).kind = "hello"
      BY HelloType DEF TypeOK, HelloCount
    <3> QED
      BY <2>2, <3>1, <3>2
  <2>5. CASE Replay
    <3>1. CASE Written(Oldest(ring))
      <4>1. Contents(ring) # <<>> /\ Head(Contents(ring)) = Oldest(ring) /\ Oldest(ring) \in Message
        BY <2>5, RingPops DEF Replay
      <4>2. Contents(ring) \in Seq(Mail)
        BY MailTypes DEF TypeOK
      <4>3. Oldest(ring) \in Held
        BY <4>1, <4>2, TailReadings DEF Held
      <4>4. Oldest(ring) \notin Left
        BY <4>3 DEF AccountInv, Apart
      <4>5. net' = net \/ net' = Append(net, Oldest(ring))
        BY <3>1 DEF Written
      <4> QED
        BY <2>2, <4>1, <4>4, <4>5
    <3>2. CASE NotWritten
      BY <2>3, <3>2, NotWrittenTypes
    <3> QED
      BY <2>5, <3>1, <3>2 DEF Replay
  <2>6. CASE Publish
    <3>1. todo # <<>> /\ Head(todo) \in Message /\ todo \in Seq(Mail)
      BY <2>6, MailTypes DEF TypeOK, Publish
    <3>2. CASE Written(Head(todo))
      <4>1. Head(todo) \in Hand
        BY <3>1, TailReadings DEF Hand
      <4>2. Head(todo) \notin Left
        BY <4>1 DEF AccountInv, Apart
      <4>3. net' = net \/ net' = Append(net, Head(todo))
        BY <3>2 DEF Written
      <4> QED
        BY <2>2, <3>1, <4>2, <4>3
    <3>3. CASE NotWritten
      BY <2>3, <3>3, NotWrittenTypes
    <3> QED
      BY <2>3, <2>6, <3>2, <3>3 DEF Publish
  <2>7. CASE Sample \/ EnsureConnected \/ EnsureFails \/ ReplayEnds \/ Notice \/ UNCHANGED vars
    BY <2>3, <2>7 DEF Sample, EnsureConnected, EnsureFails, ReplayEnds, Notice, vars, linkVars
  <2> QED
    BY <2>4, <2>5, <2>6, <2>7
<1> QED
  BY <1>1, <1>2, CopyWritten

LEMMA CopyLink ==
  ASSUME TypeOK, TypeOK', CopyInv, Break \/ Reboot \/ BrokerRestart
  PROVE  CopyInv'
<1>1. CASE Break \/ Reboot
  <2>1. PICK k \in 0 .. Len(net) : net' = SubSeq(net, 1, k)
    BY <1>1 DEF Break, Reboot, Cut
  <2>2. net \in Seq(Mail)
    BY DEF TypeOK
  <2>3. Once(net') /\ Readings(net') \subseteq Readings(net)
    BY <2>1, <2>2, OncePrefix, PrefixReadings DEF CopyInv
  <2>4. UNCHANGED <<queue, inbox, emitted, starts>>
    BY <1>1 DEF Break, Reboot, adapterVars
  <2>5. Shelves' = Shelves
    BY <2>4 DEF Shelves
  <2> QED
    BY <2>3, <2>4, <2>5 DEF CopyInv
<1>2. CASE BrokerRestart
  <2>1. net' = <<>> /\ inbox' = <<>> /\ UNCHANGED <<queue, emitted, starts>>
    BY <1>2 DEF BrokerRestart, adapterVars
  <2>2. Once(<<>>) /\ starts \in Nat
    BY DEF Once, TypeOK
  <2>3. /\ Shelved(Shelves) /\ -1 \in DOMAIN Shelves /\ 0 \in DOMAIN Shelves
        /\ Shelves[-1] = emitted /\ Shelves[0] = queue
    BY ShelvesType
  <2>4. /\ Shelved(Shelves') /\ Shelves'[-1] = emitted /\ Shelves'[0] = queue
        /\ \A k \in DOMAIN Shelves' : k = -1 \/ k = 0
    <3>1. Shelved(Shelves') /\ DOMAIN Shelves' = -1 .. Len(inbox') /\ Shelves'[-1] = emitted' /\ Shelves'[0] = queue'
      BY ShelvesNext
    <3> QED
      BY <2>1, <3>1
  <2>5. \A k \in DOMAIN Shelves' : k \in DOMAIN Shelves /\ Shelves'[k] = Shelves[k]
    BY <2>3, <2>4
  <2>6. \A m \in Message : \E g \in [Spots(Shelves', m) -> Spots(Shelves, m)] :
          \A p, q \in Spots(Shelves', m) : g[p] = g[q] => p = q
    BY <2>3, <2>4, <2>5, FewerCopies
  <2> QED
    BY <2>1, <2>2, <2>6, NoReadings, CopiesKeep
<1> QED
  BY <1>1, <1>2

LEMMA CopyForward == ASSUME TypeOK, TypeOK', CopyInv, Forward PROVE CopyInv'
<1> DEFINE h == Head(net)
<1>1. /\ net # <<>> /\ net' = Tail(net) /\ UNCHANGED <<queue, emitted, starts>>
      /\ inbox' = [i \in DOMAIN inbox |-> Append(inbox[i], h)]
  BY DEF Forward, adapterVars
<1>2. /\ net \in Seq(Mail) /\ h \in Mail /\ Readings(net) = Readings(<<h>>) \cup Readings(net')
      /\ Once(net') /\ (h \in Message => h \in Readings(net) /\ h \notin Readings(net'))
  <2>1. net \in Seq(Mail)
    BY DEF TypeOK
  <2>2. h \in Mail /\ Readings(net) = Readings(<<h>>) \cup Readings(net')
    BY <1>1, <2>1, TailReadings
  <2>3. Once(net') /\ (h \in Message => h \notin Readings(net'))
    BY <1>1, <2>1, OnceTail DEF CopyInv
  <2>4. h \in Message => h \in Readings(<<h>>)
    BY OneReading, MailTypes
  <2> QED
    BY <2>1, <2>2, <2>3, <2>4
<1>3. /\ Shelved(Shelves) /\ DOMAIN Shelves = -1 .. Len(inbox) /\ Len(inbox) \in Nat
      /\ DOMAIN Shelves' = DOMAIN Shelves /\ Shelves'[-1] = Shelves[-1] /\ Shelves'[0] = Shelves[0]
      /\ \A k \in 1 .. Len(inbox) : Shelves'[k] = Append(Shelves[k], h)
  <2>1. /\ Shelved(Shelves) /\ DOMAIN Shelves = -1 .. Len(inbox) /\ Len(inbox) \in Nat
        /\ Shelves[-1] = emitted /\ Shelves[0] = queue /\ DOMAIN inbox = 1 .. Len(inbox)
        /\ \A k \in 1 .. Len(inbox) : Shelves[k] = inbox[k]
    BY ShelvesType
  <2>2. /\ DOMAIN Shelves' = -1 .. Len(inbox') /\ Len(inbox') \in Nat
        /\ Shelves'[-1] = emitted' /\ Shelves'[0] = queue' /\ DOMAIN inbox' = 1 .. Len(inbox')
        /\ \A k \in 1 .. Len(inbox') : Shelves'[k] = inbox'[k]
    BY ShelvesNext
  <2> HIDE DEF h
  <2>3. DOMAIN inbox' = DOMAIN inbox /\ \A k \in DOMAIN inbox : inbox'[k] = Append(inbox[k], h)
    <3>1. inbox' = [i \in DOMAIN inbox |-> Append(inbox[i], h)]
      BY <1>1
    <3> QED
      BY <3>1, Zenon
  <2>4. Len(inbox') = Len(inbox)
    <3>1. 1 .. Len(inbox') = 1 .. Len(inbox)
      BY <2>1, <2>2, <2>3
    <3> QED
      BY <2>1, <2>2, <3>1, SameLength
  <2>5. ASSUME NEW k \in 1 .. Len(inbox) PROVE Shelves'[k] = Append(Shelves[k], h)
    <3>1. Shelves[k] = inbox[k] /\ inbox'[k] = Append(inbox[k], h)
      BY <2>1, <2>3
    <3>2. Shelves'[k] = inbox'[k]
      BY <2>2, <2>4
    <3> QED
      BY <3>1, <3>2
  <2>6. DOMAIN Shelves' = DOMAIN Shelves /\ Shelves'[-1] = Shelves[-1] /\ Shelves'[0] = Shelves[0]
    BY <1>1, <2>1, <2>2, <2>4
  <2> QED
    BY <2>1, <2>5, <2>6
<1> HIDE DEF h
<1>4. starts \in Nat /\ starts' = starts /\ Len(inbox) <= starts
  BY <1>1 DEF TypeOK
<1>5. ASSUME NEW m PROVE /\ m # h => Spots(Shelves', m) = Spots(Shelves, m)
                         /\ Spots(Shelves, m) = {} => Fits(Spots(Shelves', m), Len(inbox))
  <2> DEFINE S == Shelves
             T == Shelves'
             n == Len(inbox)
  <2>1. /\ Shelved(S) /\ n \in Nat /\ DOMAIN S = -1 .. n /\ DOMAIN T = DOMAIN S
        /\ T[-1] = S[-1] /\ T[0] = S[0] /\ \A k \in 1 .. n : T[k] = Append(S[k], h)
    BY <1>3
  <2> HIDE DEF S, T, n
  <2>2. /\ m # h => Spots(T, m) = Spots(S, m)
        /\ Spots(S, m) = {} => Fits(Spots(T, m), n)
    BY <1>2, <2>1, CopyForwarded
  <2> QED
    BY <2>2 DEF S, T, n
<1>6. ASSUME NEW m \in Message PROVE Fits(Spots(Shelves', m), starts')
  <2>1. CASE m # h
    BY <1>4, <1>5, <2>1 DEF CopyInv
  <2>2. CASE m = h
    <3>0. Spots(Shelves, m) = {}
      BY <1>2, <2>2 DEF CopyInv
    <3>1. Fits(Spots(Shelves', m), Len(inbox))
      BY <1>5, <3>0
    <3>2. PICK g \in [Spots(Shelves', m) -> Spots(Shelves', m)] :
            \A p, q \in Spots(Shelves', m) : g[p] = g[q] => p = q
      BY SameCopies
    <3> QED
      BY <1>3, <1>4, <3>1, <3>2, FitsInto
  <2> QED
    BY <2>1, <2>2
<1>7. ASSUME NEW m \in Readings(net') PROVE Spots(Shelves', m) = {}
  <2>1. m \in Readings(net) /\ m \in Message /\ m # h
    BY <1>2, MailTypes
  <2> QED
    BY <1>5, <2>1 DEF CopyInv
<1> QED
  BY <1>2, <1>6, <1>7 DEF CopyInv

LEMMA CopyAdapter ==
  ASSUME TypeOK, TypeOK', CopyInv, OnMessage \/ Start \/ Handle \/ HandleRaises \/ Stop
  PROVE  CopyInv'
<1> DEFINE S == Shelves
           T == Shelves'
           Carried == \A m \in Message : \E g \in [Spots(T, m) -> Spots(S, m)] :
                        \A p, q \in Spots(T, m) : g[p] = g[q] => p = q
<1>1. net' = net /\ starts <= starts'
  <2>1. starts \in Nat /\ net' = net /\ (starts' = starts \/ starts' = starts + 1)
    BY DEF TypeOK, OnMessage, Start, Handle, HandleRaises, Stop, nodeVars, linkVars, bookVars
  <2> QED
    BY <2>1
<1>2. /\ Shelved(S) /\ DOMAIN S = -1 .. Len(inbox) /\ Len(inbox) \in Nat
      /\ S[-1] = emitted /\ S[0] = queue
      /\ DOMAIN inbox = 1 .. Len(inbox) /\ \A k \in 1 .. Len(inbox) : S[k] = inbox[k]
  BY ShelvesType
<1>3. /\ Shelved(T) /\ DOMAIN T = -1 .. Len(inbox') /\ Len(inbox') \in Nat
      /\ T[-1] = emitted' /\ T[0] = queue'
      /\ DOMAIN inbox' = 1 .. Len(inbox') /\ \A k \in 1 .. Len(inbox') : T[k] = inbox'[k]
  BY ShelvesNext
<1> HIDE DEF S, T
<1>4. /\ -1 \in DOMAIN S /\ 0 \in DOMAIN S /\ 1 .. Len(inbox) \subseteq DOMAIN S
      /\ \A k \in DOMAIN S : k = -1 \/ k = 0 \/ k \in 1 .. Len(inbox)
      /\ \A k \in DOMAIN T : k = -1 \/ k = 0 \/ k \in 1 .. Len(inbox')
  BY <1>2, <1>3
<1>5. ASSUME OnMessage PROVE Carried
  <2>1. PICK i \in DOMAIN inbox :
          /\ inbox[i] # <<>>
          /\ queue' = Append(queue, Head(inbox[i]))
          /\ inbox' = [inbox EXCEPT ![i] = Tail(@)]
    BY <1>5 DEF OnMessage
  <2>2. emitted' = emitted
    BY <1>5, Zenon DEF OnMessage
  <2>3. DOMAIN inbox' = DOMAIN inbox /\ \A c \in DOMAIN inbox :
          inbox'[c] = IF c = i THEN Tail(inbox[i]) ELSE inbox[c]
    BY <2>1
  <2>4. Len(inbox') = Len(inbox)
    <3>1. 1 .. Len(inbox') = 1 .. Len(inbox)
      BY <1>2, <1>3, <2>3
    <3> QED
      BY <1>2, <1>3, <3>1, SameLength
  <2>5. /\ i \in DOMAIN S /\ i # 0 /\ i # -1 /\ S[i] = inbox[i] /\ S[i] # <<>> /\ T[i] = Tail(S[i])
        /\ T[0] = Append(S[0], Head(S[i])) /\ DOMAIN T = DOMAIN S
    BY <1>2, <1>3, <1>4, <2>1, <2>3, <2>4
  <2>6. ASSUME NEW k \in DOMAIN S, k # i, k # 0 PROVE T[k] = S[k]
    <3>1. CASE k = -1
      BY <1>2, <1>3, <2>2, <3>1
    <3>2. CASE k \in 1 .. Len(inbox)
      BY <1>2, <1>3, <2>3, <2>4, <2>6, <3>2
    <3> QED
      BY <1>4, <2>6, <3>1, <3>2
  <2>7. 0 \in DOMAIN S /\ 0 # i
    BY <1>4, <2>5
  <2>8. ASSUME NEW m
        PROVE  \E g \in [Spots(T, m) -> Spots(S, m)] :
                 \A p, q \in Spots(T, m) : g[p] = g[q] => p = q
    <3>1. Moved(S, T, i, 0)
      BY <2>5, <2>6, <2>7 DEF Moved
    <3> QED
      BY <1>2, <1>3, <3>1, CopyMoves
  <2> QED
    BY <2>8
<1>6. ASSUME Start \/ Stop PROVE Carried
  <2>1. /\ emitted' = emitted /\ queue' = <<>>
        /\ inbox' = inbox \/ inbox' = <<>> \/ inbox' = Append(inbox, <<>>)
    BY <1>6 DEF Start, Stop, NewQueue
  <2>2. \A k \in DOMAIN inbox' : inbox'[k] = <<>> \/ (k \in DOMAIN inbox /\ inbox'[k] = inbox[k])
    <3>1. inbox \in Seq(Seq(Mail))
      BY DEF TypeOK
    <3>2. CASE inbox' = Append(inbox, <<>>)
      <4>1. /\ DOMAIN inbox = 1 .. Len(inbox) /\ Len(inbox) \in Nat
            /\ DOMAIN inbox' = 1 .. Len(inbox) + 1 /\ inbox'[Len(inbox) + 1] = <<>>
            /\ \A k \in 1 .. Len(inbox) : inbox'[k] = inbox[k]
        BY <3>1, <3>2
      <4> QED
        BY <4>1
    <3>3. CASE inbox' = <<>>
      BY <3>3
    <3> QED
      BY <2>1, <3>2, <3>3
  <2>3. ASSUME NEW k \in DOMAIN T
        PROVE  \/ T[k] = <<>>
               \/ k \in DOMAIN S /\ S[k] # <<>> /\ T[k] = Tail(S[k])
               \/ k \in DOMAIN S /\ T[k] = S[k]
    <3>1. CASE k = -1
      <4>1. T[k] = S[k]
        BY <1>2, <1>3, <2>1, <3>1
      <4> QED
        BY <1>4, <3>1, <4>1
    <3>2. CASE k = 0
      <4>1. T[k] = <<>>
        BY <1>3, <2>1, <3>2
      <4> QED
        BY <4>1
    <3>3. CASE k \in 1 .. Len(inbox')
      <4>1. T[k] = inbox'[k] /\ k \in DOMAIN inbox'
        BY <1>3, <3>3
      <4>2. CASE inbox'[k] = <<>>
        BY <4>1, <4>2
      <4>3. CASE k \in DOMAIN inbox /\ inbox'[k] = inbox[k]
        <5>1. S[k] = inbox[k] /\ k \in DOMAIN S
          BY <1>2, <1>4, <4>3
        <5> QED
          BY <4>1, <4>3, <5>1
      <4> QED
        BY <2>2, <4>1, <4>2, <4>3
    <3> QED
      BY <1>4, <3>1, <3>2, <3>3
  <2>4. Shelved(S) /\ Shelved(T)
    BY <1>2, <1>3
  <2>5. ASSUME NEW m
        PROVE  \E g \in [Spots(T, m) -> Spots(S, m)] :
                 \A p, q \in Spots(T, m) : g[p] = g[q] => p = q
    BY <2>3, <2>4, FewerCopies
  <2> QED
    BY <2>5
<1>7. ASSUME Handle \/ HandleRaises PROVE Carried
  <2>1. /\ queue # <<>> /\ queue' = Tail(queue) /\ inbox' = inbox
        /\ emitted' = emitted \/ emitted' = Append(emitted, Head(queue))
    BY <1>7 DEF Handle, HandleRaises, linkVars, Bodies
  <2>2. DOMAIN T = DOMAIN S /\ \A k \in DOMAIN S : k # -1 /\ k # 0 => T[k] = S[k]
    BY <1>2, <1>3, <1>4, <2>1
  <2>3. S[0] # <<>> /\ T[0] = Tail(S[0])
    BY <1>2, <1>3, <2>1
  <2>4. ASSUME emitted' = emitted PROVE Carried
    <3>1. T[-1] = S[-1]
      BY <1>2, <1>3, <2>4
    <3>2. \A k \in DOMAIN T : \/ T[k] = <<>>
                              \/ k \in DOMAIN S /\ S[k] # <<>> /\ T[k] = Tail(S[k])
                              \/ k \in DOMAIN S /\ T[k] = S[k]
      BY <2>2, <2>3, <3>1
    <3>a. Shelved(S) /\ Shelved(T)
      BY <1>2, <1>3
    <3>3. ASSUME NEW m
          PROVE  \E g \in [Spots(T, m) -> Spots(S, m)] :
                   \A p, q \in Spots(T, m) : g[p] = g[q] => p = q
      BY <3>a, <3>2, FewerCopies
    <3> QED
      BY <3>3
  <2>5. ASSUME emitted' = Append(emitted, Head(queue)) PROVE Carried
    <3>1. T[-1] = Append(S[-1], Head(S[0]))
      BY <1>2, <1>3, <2>5
    <3> QED
      <4>1. Moved(S, T, 0, -1)
        BY <1>4, <2>2, <2>3, <3>1 DEF Moved
      <4>2. ASSUME NEW m
            PROVE  \E g \in [Spots(T, m) -> Spots(S, m)] :
                     \A p, q \in Spots(T, m) : g[p] = g[q] => p = q
        BY <1>2, <1>3, <4>1, CopyMoves
      <4> QED
        BY <4>2
  <2> QED
    BY <2>1, <2>4, <2>5
<1>8. Carried
  BY <1>5, <1>6, <1>7
<1>9. Readings(net') \subseteq Readings(net) /\ Once(net')
  BY <1>1 DEF CopyInv
<1> QED
  BY <1>1, <1>8, <1>9, CopiesKeep DEF S, T

LEMMA CopyInit == Init => CopyInv
<1> SUFFICES ASSUME Init PROVE CopyInv
  OBVIOUS
<1>1. emitted = <<>> /\ queue = <<>> /\ inbox = <<>> /\ net = <<>> /\ starts = 0
  BY DEF Init
<1>2. ASSUME NEW m PROVE Spots(Shelves, m) = {}
  <2>1. \A k \in DOMAIN Shelves : Shelves[k] = <<>>
    BY <1>1 DEF Shelves, ShelvesOf
  <2> QED
    BY <2>1 DEF Spots
<1>3. Fits({}, starts)
  <2>1. [p \in {} |-> p] \in [{} -> 1 .. starts]
    OBVIOUS
  <2> QED
    BY <2>1 DEF Fits
<1> QED
  <2>1. Once(net)
    BY <1>1 DEF Once
  <2>2. \A m \in Message : Fits(Spots(Shelves, m), starts)
    <3>1. ASSUME NEW m PROVE Fits(Spots(Shelves, m), starts)
      BY <1>2, <1>3, Zenon
    <3> QED
      BY <3>1
  <2> QED
    BY <1>2, <2>1, <2>2 DEF CopyInv

LEMMA CopyStep == TypeOK /\ AccountInv /\ CopyInv /\ [Next]_vars => CopyInv'
<1> SUFFICES ASSUME TypeOK, AccountInv, CopyInv, [Next]_vars PROVE CopyInv'
  OBVIOUS
<1>1. TypeOK'
  BY TypeStep
<1> QED
  BY <1>1, CopyPublisher, CopyLink, CopyForward, CopyAdapter DEF Next

(* However often the adapter is started, a reading becomes at most one     *)
(* body for each call of start(): the copies in the queue, the inboxes and *)
(* emit() together are at most that many, and a reading that is still in   *)
(* the node or the connection has none (adapter.py 76-90).                 *)
THEOREM BodiesPerStart == Spec => []CopiesBounded
<1>1. TypeOK /\ CopyInv => CopiesBounded
  <2> SUFFICES ASSUME TypeOK, CopyInv, NEW m \in ToSet(emitted)
               PROVE  Cardinality({i \in DOMAIN emitted : emitted[i] = m}) <= starts
    BY DEF CopiesBounded
  <2> DEFINE I == {i \in DOMAIN emitted : emitted[i] = m}
             at == [i \in I |-> <<-1, i>>]
  <2>1. m \in Message /\ DOMAIN emitted \subseteq Nat \ {0} /\ starts \in Nat
    BY DEF TypeOK, ToSet
  <2>2. -1 \in DOMAIN Shelves /\ Shelves[-1] = emitted
    BY ShelvesType
  <2>3. at \in [I -> Spots(Shelves, m)] /\ \A i, j \in I : at[i] = at[j] => i = j
    BY <2>1, <2>2 DEF Spots
  <2>4. Fits(I, starts)
    <3>1. Fits(Spots(Shelves, m), starts)
      BY <2>1 DEF CopyInv
    <3> HIDE DEF I, at
    <3> QED
      BY <2>1, <2>3, <3>1, FitsInto
  <2> HIDE DEF I
  <2>5. PICK f \in [I -> 1 .. starts] : \A i, j \in I : f[i] = f[j] => i = j
    BY <2>4 DEF Fits
  <2>6. f \in Injection(I, 1 .. starts)
    BY <2>5 DEF Injection, IsInjective
  <2>7. IsFiniteSet(1 .. starts) /\ Cardinality(1 .. starts) = starts
    BY <2>1, FS_Interval
  <2>8. Cardinality(I) <= starts
    BY <2>6, <2>7, FS_Injection
  <2> QED
    BY <2>8 DEF I
<1>2. Init => TypeOK /\ AccountInv /\ CopyInv
  BY TypeInit, AccountInit, CopyInit
<1>3. (TypeOK /\ AccountInv /\ CopyInv) /\ [Next]_vars => (TypeOK /\ AccountInv /\ CopyInv)'
  BY TypeStep, AccountStep, CopyStep
<1> QED
  BY <1>1, <1>2, <1>3, PTL DEF Spec
=============================================================================
