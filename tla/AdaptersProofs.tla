--------------------------- MODULE AdaptersProofs ---------------------------
(***************************************************************************)
(* What the polling adapters keep, for any register maps and line          *)
(* profiles, any window, any number of polls, lines and faults.            *)
(*                                                                         *)
(* AdapterInv has the types, what is open at which place, the windows with *)
(* the samples counted, and the health with the history of connections;    *)
(* four of the properties follow from it.  The events (StoryInv) and the   *)
(* attribution over TCP (TcpInv) have invariants of their own on top.      *)
(***************************************************************************)
EXTENDS Adapters, FiniteSetTheorems, SequenceTheorems, WellFoundedInduction, TLAPS

(***************************************************************************)
(* Induction over the natural numbers, for a set in place of a predicate:  *)
(* a set of numbers that is not empty has a least one, because < is well   *)
(* founded.                                                                *)
(***************************************************************************)
Less == {r \in Nat \X Nat : r[1] < r[2]}

LEMMA LessWellFounded == IsWellFoundedOn(Less, Nat)
BY NatLessThanWellFounded, Zenon DEF OpToRel, Less

LEMMA LeastElement ==
  ASSUME NEW T \in SUBSET Nat, T # {}
  PROVE  \E x \in T : \A y \in T : x <= y
<1>1. PICK x \in T : \A y \in T : <<y, x>> \notin Less
  BY LessWellFounded, WFMin
<1>2. ASSUME NEW y \in T PROVE x <= y
  <2>1. x \in Nat /\ y \in Nat
    OBVIOUS
  <2>2. y < x => <<y, x>> \in Less
    BY <2>1 DEF Less
  <2> QED
    BY <1>1, <2>1, <2>2
<1> QED
  BY <1>2

LEMMA NatSet ==
  ASSUME NEW S, 0 \in S, \A n \in Nat : n \in S => n + 1 \in S
  PROVE  Nat \subseteq S
<1>1. SUFFICES ASSUME Nat \ S # {} PROVE FALSE
  OBVIOUS
<1>2. PICK x \in Nat \ S : \A y \in Nat \ S : x <= y
  BY <1>1, LeastElement
<1>3. x # 0 /\ x - 1 \in Nat
  BY <1>2
<1>4. x - 1 \in S
  BY <1>2, <1>3
<1> QED
  BY <1>2, <1>3, <1>4

-----------------------------------------------------------------------------
(* The recursion of PowerOfTwo has a solution: up to n there is exactly    *)
(* one sequence of powers, and the function takes its value at n from it.  *)
Powers(n) ==
  {g \in [0 .. n -> Nat] :
     g[0] = 1 /\ \A i \in 1 .. n : g[i] = 2 * g[i - 1]}

LEMMA PowersExist == \A n \in Nat : Powers(n) # {}
<1> DEFINE S == {n \in Nat : Powers(n) # {}}
<1>1. 0 \in S
  <2>1. [i \in 0 .. 0 |-> 1] \in Powers(0)
    BY DEF Powers
  <2> QED
    BY <2>1
<1>2. ASSUME NEW n \in Nat, n \in S PROVE n + 1 \in S
  <2>1. PICK g : g \in Powers(n)
    BY <1>2
  <2> DEFINE h == [i \in 0 .. n + 1 |-> IF i = n + 1 THEN 2 * g[n] ELSE g[i]]
  <2>2. h \in Powers(n + 1)
    BY <2>1 DEF Powers
  <2> QED
    BY <2>2
<1> QED
  <2> HIDE DEF S
  <2>1. Nat \subseteq S
    BY <1>1, <1>2, NatSet
  <2> QED
    BY <2>1 DEF S

LEMMA PowersAgree ==
  ASSUME NEW n \in Nat, NEW m \in Nat, n <= m,
         NEW g \in Powers(n), NEW h \in Powers(m)
  PROVE  \A i \in 0 .. n : g[i] = h[i]
<1> DEFINE S == {i \in Nat : i <= n => g[i] = h[i]}
<1>1. 0 \in S
  BY DEF Powers
<1>2. ASSUME NEW i \in Nat, i \in S PROVE i + 1 \in S
  <2>1. SUFFICES ASSUME i + 1 <= n PROVE g[i + 1] = h[i + 1]
    OBVIOUS
  <2>2. g[i] = h[i]
    BY <1>2, <2>1
  <2>3. i + 1 \in 1 .. n /\ i + 1 \in 1 .. m /\ (i + 1) - 1 = i
    BY <2>1
  <2>4. g[i + 1] = 2 * g[i] /\ h[i + 1] = 2 * h[i]
    BY <2>3 DEF Powers
  <2> QED
    BY <2>2, <2>4
<1> QED
  <2> HIDE DEF S
  <2>1. Nat \subseteq S
    BY <1>1, <1>2, NatSet
  <2> QED
    BY <2>1 DEF S

LEMMA PowerUnfolds ==
  PowerOfTwo \in [Nat -> Nat] /\ PowerOfTwo[0] = 1
  /\ \A n \in Nat : PowerOfTwo[n + 1] = 2 * PowerOfTwo[n]
<1> DEFINE P == [n \in Nat |-> (CHOOSE g \in Powers(n) : TRUE)[n]]
<1>1. ASSUME NEW n \in Nat PROVE P[n] \in Nat /\ P[n] = IF n = 0 THEN 1 ELSE 2 * P[n - 1]
  <2> DEFINE g(k) == CHOOSE g \in Powers(k) : TRUE
  <2>1. \A k \in Nat : g(k) \in Powers(k)
    BY PowersExist
  <2>2. P[n] = g(n)[n] /\ g(n)[n] \in Nat
    <3>1. P[n] = g(n)[n]
      OBVIOUS
    <3> HIDE DEF g, P
    <3>2. g(n) \in [0 .. n -> Nat] /\ n \in 0 .. n
      BY <2>1 DEF Powers
    <3> QED
      BY <3>1, <3>2
  <2>3. CASE n = 0
    BY <2>1, <2>2, <2>3 DEF Powers
  <2>4. CASE n # 0
    <3>1. n - 1 \in Nat /\ n - 1 <= n /\ n \in 1 .. n /\ n - 1 \in 0 .. n - 1
      BY <2>4
    <3> HIDE DEF g
    <3>2. g(n - 1)[n - 1] = g(n)[n - 1]
      BY <2>1, <3>1, PowersAgree
    <3>3. g(n)[n] = 2 * g(n)[n - 1]
      BY <2>1, <3>1 DEF Powers
    <3>4. P[n - 1] = g(n - 1)[n - 1]
      BY <3>1 DEF g
    <3> HIDE DEF P
    <3> QED
      BY <2>2, <2>4, <3>2, <3>3, <3>4
  <2> QED
    BY <2>3, <2>4
<1>2. P = [n \in Nat |-> IF n = 0 THEN 1 ELSE 2 * P[n - 1]]
  <2>1. P = [n \in Nat |-> P[n]]
    OBVIOUS
  <2> HIDE DEF P
  <2> QED
    BY <1>1, <2>1
<1>3. PowerOfTwo = [n \in Nat |-> IF n = 0 THEN 1 ELSE 2 * PowerOfTwo[n - 1]]
  <2> DEFINE Solves(f) == f = [n \in Nat |-> IF n = 0 THEN 1 ELSE 2 * f[n - 1]]
  <2>1. PowerOfTwo = CHOOSE f : Solves(f)
    BY DEF PowerOfTwo
  <2> HIDE DEF P
  <2>2. Solves(P)
    BY <1>2
  <2> HIDE DEF Solves
  <2>3. Solves(CHOOSE f : Solves(f))
    BY <2>2, Zenon
  <2>4. Solves(PowerOfTwo)
    BY <2>1, <2>3
  <2> QED
    BY <2>4 DEF Solves
<1>4. PowerOfTwo[0] = 1 /\ \A n \in Nat : PowerOfTwo[n + 1] = 2 * PowerOfTwo[n]
  <2>1. \A n \in Nat : n + 1 \in Nat /\ n + 1 # 0 /\ (n + 1) - 1 = n
    OBVIOUS
  <2> QED
    BY <1>3, <2>1
<1>5. Nat \subseteq {n \in Nat : PowerOfTwo[n] \in Nat}
  <2> DEFINE S == {n \in Nat : PowerOfTwo[n] \in Nat}
  <2>1. 0 \in S /\ \A n \in Nat : n \in S => n + 1 \in S
    BY <1>4
  <2> HIDE DEF S
  <2>2. Nat \subseteq S
    BY <2>1, NatSet
  <2> QED
    BY <2>2 DEF S
<1> QED
  BY <1>3, <1>4, <1>5

-----------------------------------------------------------------------------
(* The conversions.                                                        *)
LEMMA ResolveFound ==
  ASSUME NEW a \in Nat, NEW b \in Bases, b[1] <= a, a < b[1] + TableSize
  PROVE  resolve_address(a) = [ok |-> TRUE, func |-> b[2], offset |-> a - b[1]]
<1> DEFINE found == {c \in Bases : c[1] <= a /\ a < c[1] + TableSize}
<1>1. found = {b}
  BY SMT DEF Bases, TableSize
<1>2. found # {} /\ (CHOOSE c \in found : TRUE) = b
  BY SMT, <1>1
<1> DEFINE c == CHOOSE c \in found : TRUE
<1>3. found # {} => resolve_address(a) = [ok |-> TRUE, func |-> c[2], offset |-> a - c[1]]
  BY Zenon DEF resolve_address
<1> HIDE DEF found, c
<1>4. c = b
  BY <1>2 DEF c
<1> QED
  BY <1>2, <1>3, <1>4, Zenon

LEMMA ResolveNone ==
  ASSUME NEW a \in Nat, \A b \in Bases : ~(b[1] <= a /\ a < b[1] + TableSize)
  PROVE  resolve_address(a) = IF a <= TableSize
           THEN [ok |-> TRUE, func |-> READ_HOLDING, offset |-> a] ELSE Error
BY SMT DEF resolve_address

LEMMA ResolveFunction ==
  ASSUME NEW a \in Nat, resolve_address(a).ok
  PROVE  resolve_address(a).func \in {READ_HOLDING, READ_INPUT}
<1>1. CASE \E b \in Bases : b[1] <= a /\ a < b[1] + TableSize
  BY SMT, <1>1, ResolveFound DEF Bases
<1>2. CASE ~ \E b \in Bases : b[1] <= a /\ a < b[1] + TableSize
  BY SMT, <1>2, ResolveNone DEF Error
<1> QED
  BY SMT, <1>1, <1>2

LEMMA ResolvesAsIntro ==
  ASSUME NEW a, NEW unit, NEW d \in {3, 4}, NEW r, a \div unit = d, a % unit = r,
         1 <= r /\ r <= TableSize,
         resolve_address(a) = [ok |-> TRUE, func |-> Table(d), offset |-> r - 1]
  PROVE  ResolvesAs(a, unit)
BY DEF ResolvesAs

LEMMA AddressCases ==
  ASSUME NEW a \in Nat
  PROVE  AddressAgrees(a)
<1> USE DEF READ_HOLDING, READ_INPUT, TableSize
<1>1. CASE 40001 <= a /\ a <= 49999
  <2>1. a \div 10000 = 4 /\ a % 10000 = a - 40000
    BY SMT, <1>1
  <2>2. resolve_address(a) = [ok |-> TRUE, func |-> 3, offset |-> a - 40001]
    BY SMT, <1>1, ResolveFound DEF Bases
  <2>3. 1 <= a - 40000 /\ a - 40000 <= 9999 /\ (a - 40000) - 1 = a - 40001 /\ Table(4) = 3
    BY SMT, <1>1 DEF Table
  <2>4. ResolvesAs(a, 10000)
    BY SMT, <2>1, <2>2, <2>3, ResolvesAsIntro
  <2>5. 10000 <= a /\ a < 100000
    BY SMT, <1>1
  <2> QED
    BY SMT, <2>4, <2>5 DEF AddressAgrees
<1>2. CASE 30001 <= a /\ a <= 39999
  <2>1. a \div 10000 = 3 /\ a % 10000 = a - 30000
    BY SMT, <1>2
  <2>2. resolve_address(a) = [ok |-> TRUE, func |-> 4, offset |-> a - 30001]
    BY SMT, <1>2, ResolveFound DEF Bases
  <2>3. 1 <= a - 30000 /\ a - 30000 <= 9999 /\ (a - 30000) - 1 = a - 30001 /\ Table(3) = 4
    BY SMT, <1>2 DEF Table
  <2>4. ResolvesAs(a, 10000)
    BY SMT, <2>1, <2>2, <2>3, ResolvesAsIntro
  <2>5. 10000 <= a /\ a < 100000
    BY SMT, <1>2
  <2> QED
    BY SMT, <2>4, <2>5 DEF AddressAgrees
<1>3. CASE 400001 <= a /\ a <= 409999
  <2>1. a \div 100000 = 4 /\ a % 100000 = a - 400000
    BY SMT, <1>3
  <2>2. resolve_address(a) = [ok |-> TRUE, func |-> 3, offset |-> a - 400001]
    BY SMT, <1>3, ResolveFound DEF Bases
  <2>3. 1 <= a - 400000 /\ a - 400000 <= 9999 /\ (a - 400000) - 1 = a - 400001 /\ Table(4) = 3
    BY SMT, <1>3 DEF Table
  <2>4. ResolvesAs(a, 100000)
    BY SMT, <2>1, <2>2, <2>3, ResolvesAsIntro
  <2>5. 100000 <= a /\ a < 1000000
    BY SMT, <1>3
  <2> QED
    BY SMT, <2>4, <2>5 DEF AddressAgrees
<1>4. CASE 300001 <= a /\ a <= 309999
  <2>1. a \div 100000 = 3 /\ a % 100000 = a - 300000
    BY SMT, <1>4
  <2>2. resolve_address(a) = [ok |-> TRUE, func |-> 4, offset |-> a - 300001]
    BY SMT, <1>4, ResolveFound DEF Bases
  <2>3. 1 <= a - 300000 /\ a - 300000 <= 9999 /\ (a - 300000) - 1 = a - 300001 /\ Table(3) = 4
    BY SMT, <1>4 DEF Table
  <2>4. ResolvesAs(a, 100000)
    BY SMT, <2>1, <2>2, <2>3, ResolvesAsIntro
  <2>5. 100000 <= a /\ a < 1000000
    BY SMT, <1>4
  <2> QED
    BY SMT, <2>4, <2>5 DEF AddressAgrees
<1>5. CASE /\ ~(40001 <= a /\ a <= 49999) /\ ~(30001 <= a /\ a <= 39999)
           /\ ~(400001 <= a /\ a <= 409999) /\ ~(300001 <= a /\ a <= 309999)
  <2>1. \A b \in Bases : ~(b[1] <= a /\ a < b[1] + TableSize)
    BY SMT, <1>5 DEF Bases
  <2>2. CASE a < 10000
    <3>1. resolve_address(a) = [ok |-> TRUE, func |-> READ_HOLDING, offset |-> a]
      BY SMT, <2>1, <2>2, ResolveNone
    <3> QED
      BY SMT, <2>2, <3>1 DEF AddressAgrees
  <2>3. CASE a >= 10000
    <3>1. ~resolve_address(a).ok
      <4>1. resolve_address(a) = Error
        BY SMT, <2>1, <2>3, ResolveNone
      <4> QED
        BY SMT, <4>1 DEF Error
    <3>2. /\ ~(a \div 10000 \in {3, 4} /\ 1 <= a % 10000 /\ a % 10000 <= 9999)
          /\ ~(a \div 100000 \in {3, 4} /\ 1 <= a % 100000 /\ a % 100000 <= 9999)
      <4>1. ~(a \div 10000 \in {3, 4} /\ 1 <= a % 10000 /\ a % 10000 <= 9999)
        BY SMT, <1>5
      <4>2. a \div 100000 = 3 => a = 300000 + (a % 100000)
        BY SMT
      <4>3. a \div 100000 = 4 => a = 400000 + (a % 100000)
        BY SMT
      <4> DEFINE r == a % 100000
      <4>4. r \in Int
        BY SMT
      <4> HIDE DEF r
      <4>5. 1 <= r /\ r <= 9999 => a # 300000 + r /\ a # 400000 + r
        BY SMT, <1>5, <4>4
      <4> QED
        BY SMT, <4>1, <4>2, <4>3, <4>5 DEF r
    <3>3. OutOfTables(a)
      <4> DEFINE Outside(unit) ==
                       ~(a \div unit \in {3, 4} /\ 1 <= a % unit /\ a % unit <= TableSize)
      <4>2. Outside(10000) /\ Outside(100000)
        BY <3>2
      <4>3. OutOfTables(a) <=> a >= 10000 /\ \A unit \in {10000, 100000} : Outside(unit)
        BY DEF OutOfTables
      <4> HIDE DEF Outside
      <4> QED
        BY SMT, <2>3, <4>2, <4>3
    <3> QED
      BY SMT, <3>1, <3>3 DEF AddressAgrees
  <2> QED
    BY SMT, <2>2, <2>3
<1> QED
  BY SMT, <1>1, <1>2, <1>3, <1>4, <1>5

(* resolve_address (protocol.py 20-33) and decode_value (94-111) agree     *)
(* with their definitions for every register number and every word.        *)
Word == 0 .. 2^16 - 1
HighWord == 0 .. 2^15 - 1

LEMMA WordsDecode ==
  ASSUME NEW w \in Word, NEW high \in HighWord
  PROVE  DecodesAlone(w) /\ DecodesPair(high, w)
<1> DEFINE s == decode_value(<<w>>, "s16", 1)
           v == decode_value(<<high, w>>, "u32", 1)
<1>1. 2^15 = 32768 /\ 2^16 = 65536
  BY SMT
<1>0. w \in 0 .. 2^16 - 1 /\ high \in 0 .. 2^15 - 1
  BY Zenon DEF Word, HighWord
<1>2. s = IF w >= 32768 THEN w - 65536 ELSE w
  BY SMT, <1>0, <1>1 DEF decode_value, raw_value, TwoComplement16
<1>3. v = high * 65536 + w
  BY SMT, <1>0, <1>1 DEF decode_value, raw_value
<1>4. decode_value(<<w, high>>, "u32_swapped", 1) = v
  BY SMT, <1>0, <1>1, <1>3 DEF decode_value, raw_value
<1>5. decode_value(<<w>>, "u16", 1) = w
  BY SMT, <1>0, <1>1 DEF decode_value, raw_value
<1> HIDE DEF s, v
<1>6. -(2^15) <= s /\ s < 2^15 /\ s % 2^16 = w
  BY SMT, <1>0, <1>1, <1>2
<1>7. v \div 2^16 = high /\ v % 2^16 = w
  BY SMT, <1>0, <1>1, <1>3
<1> QED
  BY <1>4, <1>5, <1>6, <1>7 DEF s, v, DecodesAlone, DecodesPair

-----------------------------------------------------------------------------
(* The windows.  WindowsOK(A, t, s) of the open windows A, the time t and  *)
(* the history s: windows follow one another, a window's sum lies between  *)
(* its extremes, and no sample is missing.                                 *)
Counts == [Channels -> Nat]
Histories ==
  [connects : Nat, fails : Nat, wait : Nat,
   fed : Counts, sent : Counts, lost : Counts, ends : Counts]

Spread(a) == a.min * a.count <= a.sum /\ a.sum <= a.max * a.count

Accounted(A, s) == s.fed = Plus(Plus(s.sent, s.lost), OpenCount(A))

WindowsOK(A, t, s) ==
  /\ A \in [Channels -> Windows \cup {NoBlock}] /\ t \in Nat /\ s \in Histories
  /\ \A c \in Channels : s.ends[c] <= t
  /\ \A c \in Channels : A[c] # NoBlock =>
       s.ends[c] <= A[c].mono /\ A[c].mono <= t /\ Spread(A[c])
  /\ Accounted(A, s)

LEMMA FedSpread ==
  ASSUME NEW a \in Windows, Spread(a), NEW v \in Int
  PROVE  Fed(a, v) \in Windows /\ Fed(a, v).mono = a.mono
         /\ Fed(a, v).count = a.count + 1 /\ Spread(Fed(a, v))
<1> DEFINE b == Fed(a, v)
<1>1. /\ b.mono = a.mono /\ b.count = a.count + 1 /\ b.sum = a.sum + v
      /\ b.min = SmallerOf(a.min, v) /\ b.max = LargerOf(a.max, v)
      /\ b \in Windows
  <2>1. b = [mono |-> a.mono, min |-> SmallerOf(a.min, v), max |-> LargerOf(a.max, v),
             sum |-> a.sum + v, count |-> a.count + 1]
    BY DEF Fed
  <2>2. SmallerOf(a.min, v) \in Int /\ LargerOf(a.max, v) \in Int
    BY DEF Windows, SmallerOf, LargerOf
  <2> HIDE DEF b
  <2> QED
    BY <2>1, <2>2 DEF Windows
<1>2. /\ b.min \in Int /\ b.max \in Int /\ b.min <= a.min /\ b.min <= v
      /\ b.max >= a.max /\ b.max >= v
  BY <1>1 DEF Windows, SmallerOf, LargerOf
<1>3. ASSUME NEW p \in Int, NEW q \in Int, NEW n \in Nat, p <= q
      PROVE  p * n <= q * n
  BY <1>3
<1> HIDE DEF b
<1>4. b.min * a.count <= a.min * a.count /\ a.max * a.count <= b.max * a.count
  BY <1>2, <1>3 DEF Windows
<1>5. /\ b.min * (a.count + 1) = b.min * a.count + b.min
      /\ b.max * (a.count + 1) = b.max * a.count + b.max
  BY <1>2 DEF Windows
<1>6. /\ b.min * a.count \in Int /\ b.max * a.count \in Int
      /\ a.min * a.count \in Int /\ a.max * a.count \in Int
  BY <1>2 DEF Windows
<1>7. Spread(b)
  BY <1>1, <1>2, <1>4, <1>5, <1>6 DEF Spread, Windows
<1> QED
  BY <1>1, <1>7 DEF b

LEMMA OpenedSpread ==
  ASSUME NEW v \in Int, NEW t \in Nat
  PROVE  Opened(v, t) \in Windows /\ Spread(Opened(v, t))
BY DEF Opened, Windows, Spread

LEMMA CountsOf ==
  ASSUME NEW A \in [Channels -> Windows \cup {NoBlock}]
  PROVE  OpenCount(A) \in Counts
BY DEF OpenCount, Counts, Windows

LEMMA PlusCounts ==
  ASSUME NEW f \in Counts, NEW g \in Counts
  PROVE  Plus(f, g) \in Counts /\ \A c \in Channels : Plus(f, g)[c] = f[c] + g[c]
BY DEF Plus, Counts

(* Accounted, channel by channel.                                          *)
LEMMA AccountedOf ==
  ASSUME NEW A \in [Channels -> Windows \cup {NoBlock}], NEW s \in Histories
  PROVE  Accounted(A, s) <=>
           \A c \in Channels : s.fed[c] = s.sent[c] + s.lost[c] + OpenCount(A)[c]
<1>1. /\ s.fed \in Counts /\ s.sent \in Counts /\ s.lost \in Counts
      /\ OpenCount(A) \in Counts
  BY CountsOf DEF Histories
<1> DEFINE g == Plus(Plus(s.sent, s.lost), OpenCount(A))
<1>2. g \in Counts /\ \A c \in Channels : g[c] = s.sent[c] + s.lost[c] + OpenCount(A)[c]
  <2>1. /\ Plus(s.sent, s.lost) \in Counts
        /\ \A c \in Channels : Plus(s.sent, s.lost)[c] = s.sent[c] + s.lost[c]
    BY <1>1, PlusCounts
  <2> QED
    BY <1>1, <2>1, PlusCounts
<1> HIDE DEF g
<1>3. s.fed = g <=> \A c \in Channels : s.fed[c] = g[c]
  BY <1>1, <1>2 DEF Counts
<1> QED
  BY <1>2, <1>3 DEF Accounted, g

-----------------------------------------------------------------------------
(* The average of a window lies between its extremes.                      *)
LEMMA QuotientBounds ==
  ASSUME NEW a \in Nat, NEW n \in Nat \ {0}
  PROVE  /\ a \div n \in Nat
         /\ \A p \in Int : p * n <= a => p <= a \div n
         /\ \A p \in Int : a <= p * n => a \div n <= p
<1>1. ASSUME NEW p \in Int, p * n <= a PROVE p <= a \div n
  BY <1>1
<1>2. ASSUME NEW p \in Int, a <= p * n PROVE a \div n <= p
  BY <1>2
<1> QED
  BY <1>1, <1>2

LEMMA TruncatedBetween ==
  ASSUME NEW sum \in Int, NEW n \in Nat \ {0}, NEW p \in Int, NEW q \in Int,
         p * n <= sum, sum <= q * n
  PROVE  Truncated(sum, n) \in Int /\ p <= Truncated(sum, n) /\ Truncated(sum, n) <= q
<1>1. CASE sum >= 0
  BY <1>1, QuotientBounds DEF Truncated
<1>2. CASE sum < 0
  <2>1. (-p) \in Int /\ (-q) \in Int /\ (-p) * n = -(p * n) /\ (-q) * n = -(q * n)
    OBVIOUS
  <2>2. -sum \in Nat /\ p * n \in Int /\ q * n \in Int
    BY <1>2
  <2>3. -sum <= (-p) * n /\ (-q) * n <= -sum
    BY <2>1, <2>2
  <2>4. (-sum) \div n <= -p /\ -q <= (-sum) \div n /\ (-sum) \div n \in Nat
    BY <2>1, <2>2, <2>3, QuotientBounds
  <2>5. Truncated(sum, n) = -((-sum) \div n)
    BY <1>2 DEF Truncated
  <2> QED
    BY <2>4, <2>5
<1> QED
  BY <1>1, <1>2

-----------------------------------------------------------------------------
(* What a sample, a flush, a crash, a failure and time do to the windows.  *)
LEMMA CountedNone ==
  ASSUME seen \in Histories, NEW c \in Channels, NEW t \in Nat
  PROVE  LET r == Counted(c, <<>>, t)
         IN  /\ r \in Histories /\ r.fed = [seen.fed EXCEPT ![c] = @ + 1]
             /\ r.lost = seen.lost /\ r.sent = seen.sent /\ r.ends = seen.ends
             /\ r.connects = seen.connects /\ r.fails = seen.fails /\ r.wait = seen.wait
<1> DEFINE F == [seen.fed EXCEPT ![c] = @ + 1]
<1>1. seen.fed \in Counts /\ seen.sent \in Counts /\ seen.ends \in Counts
  BY DEF Histories
<1>2. F \in Counts
  BY <1>1 DEF Counts
<1>3. [seen.sent EXCEPT ![c] = @] = seen.sent /\ [seen.ends EXCEPT ![c] = @] = seen.ends
  BY <1>1 DEF Counts
<1>4. Counted(c, <<>>, t) = [seen EXCEPT !.fed = F, !.sent = seen.sent, !.ends = seen.ends]
  BY <1>3 DEF Counted, Histories
<1> HIDE DEF F
<1>5. [seen EXCEPT !.fed = F, !.sent = seen.sent, !.ends = seen.ends] \in Histories
  BY <1>1, <1>2 DEF Histories
<1> QED
  BY <1>4, <1>5 DEF Histories, F

BlockHistory(r, c, n, t) ==
  /\ r \in Histories /\ r.fed = [seen.fed EXCEPT ![c] = @ + 1]
  /\ r.lost = seen.lost /\ r.sent = [seen.sent EXCEPT ![c] = @ + n]
  /\ r.ends = [seen.ends EXCEPT ![c] = t]
  /\ r.connects = seen.connects /\ r.fails = seen.fails /\ r.wait = seen.wait

LEMMA CountedBlock ==
  ASSUME seen \in Histories, NEW c \in Channels, NEW t \in Nat,
         NEW done, done # <<>>, NEW n \in Nat, done[1].count = n
  PROVE  BlockHistory(Counted(c, done, t), c, n, t)
<1> DEFINE F == [seen.fed EXCEPT ![c] = @ + 1]
           G == [seen.sent EXCEPT ![c] = @ + n]
           E == [seen.ends EXCEPT ![c] = t]
<1>1. seen.fed \in Counts /\ seen.sent \in Counts /\ seen.ends \in Counts
  BY DEF Histories
<1>2. F \in Counts /\ G \in Counts /\ E \in Counts
  BY <1>1 DEF Counts
<1>3. Counted(c, done, t) = [seen EXCEPT !.fed = F, !.sent = G, !.ends = E]
  BY DEF Counted, Histories
<1> HIDE DEF F, G, E
<1>4. [seen EXCEPT !.fed = F, !.sent = G, !.ends = E] \in Histories
  BY <1>2 DEF Histories
<1> QED
  BY <1>3, <1>4 DEF BlockHistory, Histories, F, G, E

LEMMA SampleWindows ==
  ASSUME WindowsOK(acc, now, seen), NEW c \in Channels, NEW v \in Int
  PROVE  LET r == Added(c, v, now)
         IN  /\ WindowsOK(r.acc, now, Counted(c, r.done, now))
             /\ Counted(c, r.done, now).fails = seen.fails
             /\ Counted(c, r.done, now).connects = seen.connects
             /\ Counted(c, r.done, now).wait = seen.wait
             /\ \A d \in Channels : seen.sent[d] <= Counted(c, r.done, now).sent[d]
             /\ \/ r.done = <<>>
                \/ \E a \in Windows :
                     /\ r.done = <<Block(c, a, now)>> /\ Spread(a)
                     /\ seen.ends[c] <= a.mono /\ a.mono <= now
<1> DEFINE r == Added(c, v, now)
           s == Counted(c, r.done, now)
<1>1. /\ acc \in [Channels -> Windows \cup {NoBlock}] /\ now \in Nat /\ seen \in Histories
      /\ \A d \in Channels : seen.ends[d] <= now
      /\ \A d \in Channels : acc[d] # NoBlock =>
           seen.ends[d] <= acc[d].mono /\ acc[d].mono <= now /\ Spread(acc[d])
      /\ \A d \in Channels : seen.fed[d] = seen.sent[d] + seen.lost[d] + OpenCount(acc)[d]
  BY AccountedOf DEF WindowsOK
<1>2. /\ seen.fed \in Counts /\ seen.sent \in Counts /\ seen.lost \in Counts
      /\ seen.ends \in Counts
  BY <1>1 DEF Histories
<1>3. NoBlock \notin Windows
  BY AdapterAssumption
(* The three cases: what the channel's window is then, and what is done.   *)
<1>4. CASE acc[c] = NoBlock
  <2>1. r = [acc |-> [acc EXCEPT ![c] = Opened(v, now)], done |-> <<>>]
    BY <1>4 DEF Added
  <2>2. /\ Opened(v, now) \in Windows /\ Spread(Opened(v, now))
        /\ Opened(v, now).mono = now /\ Opened(v, now).count = 1
    BY <1>1, OpenedSpread DEF Opened
  <2>3. r.acc \in [Channels -> Windows \cup {NoBlock}]
    BY <1>1, <2>1, <2>2
  <2>4. /\ s \in Histories /\ s.fed = [seen.fed EXCEPT ![c] = @ + 1]
        /\ s.lost = seen.lost /\ s.sent = seen.sent /\ s.ends = seen.ends
        /\ s.connects = seen.connects /\ s.fails = seen.fails /\ s.wait = seen.wait
    <3>1. s = Counted(c, <<>>, now)
      BY <2>1
    <3> HIDE DEF r, s
    <3>2. seen \in Histories /\ now \in Nat
      BY <1>1
    <3> QED
      BY <3>1, <3>2, CountedNone
  <2> HIDE DEF r, s
  <2>5. ASSUME NEW d \in Channels
        PROVE  s.fed[d] = s.sent[d] + s.lost[d] + OpenCount(r.acc)[d]
    <3>1. CASE d = c
      BY <1>1, <1>2, <1>3, <1>4, <2>1, <2>2, <2>4, <3>1 DEF OpenCount, Counts
    <3>2. CASE d # c
      BY <1>1, <1>2, <2>1, <2>4, <3>2 DEF OpenCount, Counts
    <3> QED
      BY <3>1, <3>2
  <2>6. ASSUME NEW d \in Channels, r.acc[d] # NoBlock
        PROVE  s.ends[d] <= r.acc[d].mono /\ r.acc[d].mono <= now /\ Spread(r.acc[d])
    BY <1>1, <2>1, <2>2, <2>4, <2>6
  <2>7. Accounted(r.acc, s)
    BY <2>3, <2>4, <2>5, AccountedOf
  <2>8. WindowsOK(r.acc, now, s)
    BY <1>1, <2>3, <2>4, <2>6, <2>7 DEF WindowsOK
  <2>9. \A d \in Channels : seen.sent[d] <= s.sent[d]
    BY <1>2, <2>4 DEF Counts
  <2> QED
    BY <2>1, <2>4, <2>8, <2>9 DEF r, s
<1>5. CASE acc[c] # NoBlock
  <2> DEFINE a == Fed(acc[c], v)
  <2>1. acc[c] \in Windows /\ Spread(acc[c])
    BY <1>1, <1>5
  <2>2. /\ a \in Windows /\ Spread(a) /\ a.mono = acc[c].mono
        /\ a.count = acc[c].count + 1
    BY <2>1, FedSpread
  <2>3. seen.ends[c] <= a.mono /\ a.mono <= now
    BY <1>1, <1>5, <2>2
  <2>4. CASE now - a.mono < Window
    <3>1. r = [acc |-> [acc EXCEPT ![c] = a], done |-> <<>>]
      BY <1>5, <2>4 DEF Added
    <3>2. s = Counted(c, <<>>, now)
      BY <3>1
    <3> HIDE DEF a, r, s
    <3>3. r.acc \in [Channels -> Windows \cup {NoBlock}]
      BY <1>1, <2>2, <3>1
    <3>4. /\ s \in Histories /\ s.fed = [seen.fed EXCEPT ![c] = @ + 1]
          /\ s.lost = seen.lost /\ s.sent = seen.sent /\ s.ends = seen.ends
          /\ s.connects = seen.connects /\ s.fails = seen.fails /\ s.wait = seen.wait
      BY <1>1, <3>2, CountedNone
    <3>5. ASSUME NEW d \in Channels
          PROVE  s.fed[d] = s.sent[d] + s.lost[d] + OpenCount(r.acc)[d]
      <4>1. CASE d = c
        <5>1. OpenCount(acc)[d] = acc[c].count /\ OpenCount(r.acc)[d] = a.count
          BY <1>1, <1>3, <1>5, <2>2, <3>1, <4>1 DEF OpenCount
        <5>2. acc[c].count \in Nat
          BY <2>1 DEF Windows
        <5>3. s.fed[d] = seen.fed[d] + 1 /\ s.sent[d] = seen.sent[d] /\ s.lost[d] = seen.lost[d]
          BY <1>2, <3>4, <4>1 DEF Counts
        <5>4. seen.fed[d] \in Nat /\ seen.sent[d] \in Nat /\ seen.lost[d] \in Nat
          BY <1>2 DEF Counts
        <5>5. seen.fed[d] = seen.sent[d] + seen.lost[d] + OpenCount(acc)[d]
          BY <1>1
        <5> QED
          BY <2>2, <5>1, <5>2, <5>3, <5>4, <5>5
      <4>2. CASE d # c
        BY <1>1, <1>2, <3>1, <3>4, <4>2 DEF OpenCount, Counts
      <4> QED
        BY <4>1, <4>2
    <3>6. ASSUME NEW d \in Channels, r.acc[d] # NoBlock
          PROVE  s.ends[d] <= r.acc[d].mono /\ r.acc[d].mono <= now /\ Spread(r.acc[d])
      BY <1>1, <2>2, <2>3, <3>1, <3>4, <3>6
    <3>7. Accounted(r.acc, s)
      BY <3>3, <3>4, <3>5, AccountedOf
    <3>8. WindowsOK(r.acc, now, s)
      BY <1>1, <3>3, <3>4, <3>6, <3>7 DEF WindowsOK
    <3>9. \A d \in Channels : seen.sent[d] <= s.sent[d]
      BY <1>2, <3>4 DEF Counts
    <3> QED
      BY <3>1, <3>4, <3>8, <3>9 DEF r, s
  <2>5. CASE ~(now - a.mono < Window)
    <3>1. r = [acc |-> [acc EXCEPT ![c] = NoBlock], done |-> <<Block(c, a, now)>>]
      BY <1>5, <2>5 DEF Added
    <3>2. r.done # <<>> /\ r.done[1].count = a.count /\ a.count \in Nat
      <4> HIDE DEF a
      <4> QED
        BY <2>2, <3>1 DEF Block, Windows
    <3> HIDE DEF a
    <3>3. r.acc \in [Channels -> Windows \cup {NoBlock}]
      BY <1>1, <3>1
    <3>4. /\ s \in Histories /\ s.fed = [seen.fed EXCEPT ![c] = @ + 1]
          /\ s.lost = seen.lost /\ s.sent = [seen.sent EXCEPT ![c] = @ + a.count]
          /\ s.ends = [seen.ends EXCEPT ![c] = now]
          /\ s.connects = seen.connects /\ s.fails = seen.fails /\ s.wait = seen.wait
      <4> DEFINE done == r.done
                 n == a.count
      <4>1. s = Counted(c, done, now)
        OBVIOUS
      <4>2. done # <<>> /\ done[1].count = n /\ n \in Nat
        BY <3>2
      <4> HIDE DEF r, s, done, n
      <4>3. BlockHistory(s, c, n, now)
        BY <1>1, <4>1, <4>2, CountedBlock
      <4> QED
        BY <4>3 DEF BlockHistory, n
    <3> HIDE DEF r, s
    <3>5. ASSUME NEW d \in Channels
          PROVE  s.fed[d] = s.sent[d] + s.lost[d] + OpenCount(r.acc)[d]
      <4>1. CASE d = c
        <5>1. OpenCount(acc)[d] = acc[c].count /\ OpenCount(r.acc)[d] = 0
          BY <1>1, <1>3, <1>5, <3>1, <4>1 DEF OpenCount
        <5>2. acc[c].count \in Nat
          BY <2>1 DEF Windows
        <5> QED
          BY <1>1, <1>2, <2>2, <3>4, <4>1, <5>1, <5>2 DEF Counts
      <4>2. CASE d # c
        BY <1>1, <1>2, <3>1, <3>4, <4>2 DEF OpenCount, Counts
      <4> QED
        BY <4>1, <4>2
    <3>6. ASSUME NEW d \in Channels, r.acc[d] # NoBlock
          PROVE  s.ends[d] <= r.acc[d].mono /\ r.acc[d].mono <= now /\ Spread(r.acc[d])
      BY <1>1, <1>2, <3>1, <3>4, <3>6 DEF Counts
    <3>7. Accounted(r.acc, s)
      BY <3>3, <3>4, <3>5, AccountedOf
    <3>8. \A d \in Channels : s.ends[d] <= now
      BY <1>1, <1>2, <3>4 DEF Counts
    <3>9. WindowsOK(r.acc, now, s)
      BY <1>1, <3>3, <3>4, <3>6, <3>7, <3>8 DEF WindowsOK
    <3>10. \A d \in Channels : seen.sent[d] <= s.sent[d]
      BY <1>2, <3>2, <3>4 DEF Counts
    <3> QED
      BY <2>2, <2>3, <3>1, <3>4, <3>9, <3>10 DEF r, s
  <2> QED
    BY <2>4, <2>5
<1> QED
  BY <1>4, <1>5

LEMMA HistoryWindows ==
  ASSUME NEW A, NEW t, NEW s, WindowsOK(A, t, s), NEW r \in Histories,
         r.fed = s.fed, r.sent = s.sent, r.lost = s.lost, r.ends = s.ends
  PROVE  WindowsOK(A, t, r)
BY DEF WindowsOK, Accounted

LEMMA LaterWindows ==
  ASSUME NEW A, NEW t, NEW s, WindowsOK(A, t, s), NEW u \in {t, t + 1}
  PROVE  WindowsOK(A, u, s)
<1>1. t \in Nat /\ u \in Nat /\ t <= u
  BY DEF WindowsOK
<1>2. \A c \in Channels : s.ends[c] \in Nat
  BY DEF WindowsOK, Histories, Counts
<1>3. \A c \in Channels : A[c] # NoBlock => A[c].mono \in Nat
  BY DEF WindowsOK, Windows
<1> QED
  BY <1>1, <1>2, <1>3 DEF WindowsOK

(* All windows are closed; the samples of each are sent, or lost.          *)
LEMMA NoWindows ==
  ASSUME NEW A, NEW t, NEW s, WindowsOK(A, t, s), NEW r \in Histories,
         r.fed = s.fed, r.ends = s.ends,
         \A c \in Channels :
           \/ r.sent[c] = s.sent[c] /\ r.lost[c] = s.lost[c] + OpenCount(A)[c]
           \/ r.lost[c] = s.lost[c] /\ r.sent[c] = s.sent[c] + OpenCount(A)[c]
  PROVE  WindowsOK(NothingOpen, t, r)
<1>1. /\ s.fed \in Counts /\ s.sent \in Counts /\ s.lost \in Counts /\ OpenCount(A) \in Counts
      /\ A \in [Channels -> Windows \cup {NoBlock}] /\ s \in Histories
  BY CountsOf DEF WindowsOK, Histories
<1>2. NothingOpen \in [Channels -> Windows \cup {NoBlock}]
      /\ \A c \in Channels : NothingOpen[c] = NoBlock /\ OpenCount(NothingOpen)[c] = 0
  BY DEF NothingOpen, OpenCount
<1>3. \A c \in Channels : s.fed[c] = s.sent[c] + s.lost[c] + OpenCount(A)[c]
  BY <1>1, AccountedOf DEF WindowsOK
<1>4. ASSUME NEW c \in Channels
      PROVE  r.fed[c] = r.sent[c] + r.lost[c] + OpenCount(NothingOpen)[c]
  <2>1. /\ s.fed[c] \in Nat /\ s.sent[c] \in Nat /\ s.lost[c] \in Nat /\ OpenCount(A)[c] \in Nat
        /\ s.fed[c] = s.sent[c] + s.lost[c] + OpenCount(A)[c]
        /\ OpenCount(NothingOpen)[c] = 0 /\ r.fed[c] = s.fed[c]
    BY <1>1, <1>2, <1>3 DEF Counts
  <2>2. \/ r.sent[c] = s.sent[c] /\ r.lost[c] = s.lost[c] + OpenCount(A)[c]
        \/ r.lost[c] = s.lost[c] /\ r.sent[c] = s.sent[c] + OpenCount(A)[c]
    OBVIOUS
  <2> QED
    BY <2>1, <2>2
<1>5. Accounted(NothingOpen, r)
  BY <1>2, <1>4, AccountedOf
<1>6. t \in Nat /\ \A c \in Channels : r.ends[c] <= t
  BY DEF WindowsOK
<1> QED
  BY <1>2, <1>5, <1>6 DEF WindowsOK

LEMMA AllLost ==
  ASSUME NEW A, NEW t, NEW s, WindowsOK(A, t, s), NEW r \in Histories,
         r.fed = s.fed, r.ends = s.ends, r.sent = s.sent,
         r.lost = Plus(s.lost, OpenCount(A))
  PROVE  WindowsOK(NothingOpen, t, r)
<1>1. s.lost \in Counts /\ OpenCount(A) \in Counts
  BY CountsOf DEF WindowsOK, Histories
<1>2. \A c \in Channels : r.sent[c] = s.sent[c] /\ r.lost[c] = s.lost[c] + OpenCount(A)[c]
  BY <1>1, PlusCounts
<1> QED
  BY <1>2, NoWindows

(* What emit() refused moves from the sent samples to the lost ones.       *)
LEMMA RefusedWindows ==
  ASSUME seen \in Histories, NEW A, NEW t, NEW s, WindowsOK(A, t, s),
         \A c \in Channels : seen.sent[c] <= s.sent[c]
  PROVE  LET r == Refused(s)
         IN  /\ WindowsOK(A, t, r) /\ r.connects = s.connects /\ r.fails = s.fails
             /\ r.wait = s.wait
<1> DEFINE L == [c \in Channels |-> s.lost[c] + s.sent[c] - seen.sent[c]]
           r == Refused(s)
<1>1. /\ A \in [Channels -> Windows \cup {NoBlock}] /\ s \in Histories
      /\ s.fed \in Counts /\ s.sent \in Counts /\ s.lost \in Counts /\ seen.sent \in Counts
      /\ OpenCount(A) \in Counts
  BY CountsOf DEF WindowsOK, Histories
<1>2. L \in Counts /\ \A c \in Channels : L[c] = s.lost[c] + s.sent[c] - seen.sent[c]
  BY <1>1 DEF Counts
<1>3. r = [s EXCEPT !.sent = seen.sent, !.lost = L]
  BY <1>1 DEF Refused, Histories
<1> HIDE DEF L, r
<1>4. /\ r \in Histories /\ r.fed = s.fed /\ r.sent = seen.sent /\ r.lost = L /\ r.ends = s.ends
      /\ r.connects = s.connects /\ r.fails = s.fails /\ r.wait = s.wait
  BY <1>1, <1>2, <1>3 DEF Histories
<1>5. ASSUME NEW c \in Channels
      PROVE  r.fed[c] = r.sent[c] + r.lost[c] + OpenCount(A)[c]
  <2>1. s.fed[c] = s.sent[c] + s.lost[c] + OpenCount(A)[c]
    BY <1>1, AccountedOf DEF WindowsOK
  <2> QED
    BY <1>1, <1>2, <1>4, <2>1 DEF Counts
<1>6. Accounted(A, r)
  BY <1>1, <1>4, <1>5, AccountedOf
<1>7. WindowsOK(A, t, r)
  BY <1>4, <1>6 DEF WindowsOK
<1> QED
  BY <1>4, <1>7 DEF r

LEMMA RefusedNothing ==
  ASSUME seen \in Histories
  PROVE  Refused(seen) = seen
<1> DEFINE L == [c \in Channels |-> seen.lost[c] + seen.sent[c] - seen.sent[c]]
<1>1. seen.lost \in Counts /\ seen.sent \in Counts
  BY DEF Histories
<1>2. L = seen.lost
  BY <1>1 DEF Counts
<1>3. Refused(seen) = [seen EXCEPT !.sent = seen.sent, !.lost = L]
  BY DEF Refused, Histories
<1> HIDE DEF L
<1> QED
  BY <1>2, <1>3 DEF Histories

LEMMA BlockIsSane ==
  ASSUME NEW c \in Channels, NEW a \in Windows, Spread(a), now \in Nat,
         seen.ends[c] <= a.mono, a.mono <= now
  PROVE  SaneBlock(Block(c, a, now))
<1> DEFINE b == Block(c, a, now)
<1>1. /\ b.channel = c /\ b.from = a.mono /\ b.to = now /\ b.min = a.min /\ b.max = a.max
      /\ b.avg = 10 * Truncated(a.sum, 10 * a.count)
  BY DEF Block
<1>2. ASSUME a.min % 10 = 0, a.max % 10 = 0
      PROVE  a.min <= b.avg /\ b.avg <= a.max
  <2> DEFINE p == a.min \div 10
             q == a.max \div 10
             n == 10 * a.count
  <2>1. /\ a.count \in Nat \ {0} /\ a.sum \in Int /\ a.min \in Int /\ a.max \in Int
        /\ a.min * a.count <= a.sum /\ a.sum <= a.max * a.count
    BY DEF Windows, Spread
  <2>2. p \in Int /\ q \in Int /\ a.min = 10 * p /\ a.max = 10 * q
    BY <1>2, <2>1
  <2>3. n \in Nat \ {0}
    BY <2>1
  <2>4. p * n = a.min * a.count /\ q * n = a.max * a.count
    <3> HIDE DEF p, q
    <3>1. p * (10 * a.count) = (10 * p) * a.count /\ q * (10 * a.count) = (10 * q) * a.count
      BY <2>1, <2>2
    <3> QED
      BY <2>2, <3>1
  <2>5. b.avg = 10 * Truncated(a.sum, n)
    BY <1>1
  <2> HIDE DEF p, q, n, b
  <2>6. p * n <= a.sum /\ a.sum <= q * n
    BY <2>1, <2>4
  <2>7. Truncated(a.sum, n) \in Int /\ p <= Truncated(a.sum, n) /\ Truncated(a.sum, n) <= q
    BY <2>1, <2>2, <2>3, <2>6, TruncatedBetween
  <2> QED
    BY <2>2, <2>5, <2>7
<1> HIDE DEF b
<1>3. SaneBlock(b)
  BY <1>1, <1>2 DEF SaneBlock
<1> QED
  BY <1>3 DEF b

-----------------------------------------------------------------------------
(* Types of the poller's variables.                                        *)
Requests ==
  [tid : 0 .. TidModulus - 1, func : {READ_HOLDING, READ_INPUT}, name : RegNames, at : Nat]
Heads == [part : {"head"}, request : Requests, regs : Seq(Int)]
Pieces == Heads \cup [part : {"tail"}]
Values == [RegNames -> Int \cup {NoValue}]

PollerType ==
  /\ place \in {"connect", "request", "reply", "wait", "crashed", "done"}
  /\ closed \in BOOLEAN /\ untold \subseteq RegNames
  /\ framing \in {"tcp", "rtu"} /\ registers \in Mappings /\ reg \in 1 .. Len(registers)
  /\ tid \in 0 .. TidModulus - 1 /\ last \in Values /\ told \in Values
  /\ onway \in Seq(Pieces) /\ wire \in Seq(Pieces) /\ faults \in 0 .. MaxFaults

LEMMA MappingLength == \A m \in Mappings : Len(m) \in Nat \ {0} /\ DOMAIN m = 1 .. Len(m)
BY PollerAssumption, Zenon

LEMMA WordsAreSeqs ==
  /\ WordValues \subseteq Int
  /\ [1 .. 1 -> WordValues] \subseteq Seq(Int) /\ [1 .. 2 -> WordValues] \subseteq Seq(Int)
<1>1. WordValues \subseteq 0 .. (2^16 - 1)
  BY PollerAssumption, Zenon
<1>2. WordValues \subseteq Int
  BY <1>1
<1>3. ASSUME NEW n \in {1, 2}, NEW f \in [1 .. n -> WordValues] PROVE f \in Seq(Int)
  <2>1. n \in Nat
    OBVIOUS
  <2>a. f \in [1 .. n -> Int]
    <3> DEFINE D == 1 .. n
    <3>1. f \in [D -> WordValues]
      OBVIOUS
    <3> HIDE DEF D
    <3>2. f \in [D -> Int]
      BY <1>2, <3>1
    <3> QED
      BY <3>2 DEF D
  <2>2. Seq(Int) = UNION {[1 .. m -> Int] : m \in Nat}
    BY SeqDef
  <2> QED
    BY <2>1, <2>a, <2>2, Zenon
<1> QED
  BY <1>2, <1>3

LEMMA RegisterType ==
  ASSUME PollerType
  PROVE  /\ Register.name \in RegNames /\ Register.address \in Nat /\ Register.scale \in Int
         /\ Register.type \in {"u16", "s16", "u32", "u32_swapped"}
         /\ Register.mode \in {"on_change", "on_increment", "stats"}
         /\ Register.mode = "stats" => Register.channel \in Channels
<1>1. registers \in Mappings /\ reg \in DOMAIN registers
  BY PollerAssumption DEF PollerType
<1> QED
  BY <1>1, PollerAssumption DEF Register

LEMMA ReplyPieces ==
  ASSUME NEW request \in Requests, NEW regs \in Seq(Int)
  PROVE  Reply(request, regs) \in Seq(Pieces)
<1>1. [part |-> "head", request |-> request, regs |-> regs] \in Pieces
  BY DEF Pieces, Heads
<1>2. [part |-> "tail"] \in Pieces
  BY DEF Pieces
<1> QED
  BY <1>1, <1>2 DEF Reply

LEMMA RequestType ==
  ASSUME PollerType, now \in Nat, Resolved.ok, NEW t \in 0 .. TidModulus - 1
  PROVE  Request(t) \in Requests
<1>1. Resolved.func \in {READ_HOLDING, READ_INPUT}
  BY RegisterType, ResolveFunction DEF Resolved
<1> QED
  BY <1>1, RegisterType DEF Request, Requests

LEMMA NextTidType ==
  ASSUME PollerType
  PROVE  NextTid \in 0 .. TidModulus - 1 /\ 0 \in 0 .. TidModulus - 1
<1>1. TidModulus \in Nat \ {0} /\ tid \in Int
  BY PollerAssumption DEF PollerType
<1>2. (tid + 1) % TidModulus \in Nat /\ (tid + 1) % TidModulus < TidModulus
  BY <1>1
<1> QED
  BY <1>1, <1>2 DEF NextTid

LEMMA DecodeType ==
  ASSUME NEW regs \in Seq(Int), NEW type \in {"u16", "s16", "u32", "u32_swapped"},
         ~TooShort(regs, type), NEW scale \in Int
  PROVE  decode_value(regs, type, scale) \in Int
<1>1. 2^15 \in Int /\ 2^16 \in Int
  BY SMT
<1>2. raw_value(regs, type) \in Int
  <2>1. Len(regs) >= 1
    BY DEF TooShort, reg_count
  <2>2. regs[1] \in Int
    BY <2>1
  <2>3. CASE type \in {"u32", "u32_swapped"}
    <3>1. Len(regs) >= 2
      BY <2>3 DEF TooShort, reg_count
    <3>2. regs[2] \in Int
      BY <3>1
    <3> QED
      BY <1>1, <2>2, <2>3, <3>2 DEF raw_value
  <2>4. CASE type \in {"u16", "s16"}
    BY <1>1, <2>2, <2>4 DEF raw_value, TwoComplement16
  <2> QED
    BY <2>3, <2>4
<1> QED
  BY <1>2 DEF decode_value

(* A reply that is accepted: whose it is, and what it holds.               *)
LEMMA ParsedIs ==
  ASSUME PollerType, Parsed.ok
  PROVE  /\ wire # <<>> /\ wire[1] \in Heads /\ Parsed.regs = wire[1].regs
         /\ Parsed.regs \in Seq(Int)
         /\ wire[1].request.func = Resolved.func
         /\ framing = "tcp" => wire[1].request.tid = tid
<1> DEFINE pay == Payload(wire[1], Resolved.func)
<1>1. wire \in Seq(Pieces) /\ Len(wire) \in Nat
  BY DEF PollerType
<1>2. Parsed # Error
  <2>1. ~Error.ok
    BY DEF Error
  <2> QED
    BY <2>1, Zenon
<1>3. Len(wire) >= 2 /\ wire[1].part = "head" /\ Parsed = pay
      /\ (framing = "tcp" => wire[1].request.tid = tid)
  <2>1. CASE framing = "tcp"
    <3>1. Parsed = IF \/ Len(wire) < 2 \/ wire[1].part # "head"
                      \/ wire[1].request.tid # tid
                   THEN Error ELSE pay
      BY <2>1, Zenon DEF Parsed, parse_read_tcp
    <3>2. ~(Len(wire) < 2) /\ wire[1].part = "head" /\ wire[1].request.tid = tid /\ Parsed = pay
      BY <1>2, <3>1, Zenon
    <3> QED
      BY <1>1, <3>2
  <2>2. CASE framing # "tcp"
    <3>1. Parsed = IF Len(wire) # 2 \/ wire[1].part # "head" THEN Error ELSE pay
      BY <2>2, Zenon DEF Parsed, parse_read_rtu
    <3>2. Len(wire) = 2 /\ wire[1].part = "head" /\ Parsed = pay
      BY <1>2, <3>1, Zenon
    <3> QED
      BY <1>1, <2>2, <3>2
  <2> QED
    BY <2>1, <2>2
<1>4. wire # <<>> /\ wire[1] \in Heads
  BY <1>1, <1>3 DEF Pieces
<1>5. wire[1].request.func = Resolved.func /\ Parsed = Words(wire[1].regs)
  BY <1>2, <1>3, Zenon DEF Payload
<1>6. Parsed.regs = wire[1].regs
  BY <1>5 DEF Words
<1>7. wire[1].regs \in Seq(Int)
  BY <1>4 DEF Heads
<1> QED
  BY <1>3, <1>4, <1>5, <1>6, <1>7

DecodedValue == decode_value(Parsed.regs, Register.type, Register.scale)

LEMMA DecodedType ==
  ASSUME PollerType, Parsed.ok, ~TooShort(Parsed.regs, Register.type)
  PROVE  DecodedValue \in Int
BY ParsedIs, RegisterType, DecodeType DEF DecodedValue

-----------------------------------------------------------------------------
(* A step of the poller keeps its types.                                   *)
LEMMA EmitType ==
  ASSUME PollerType, NEW v \in Int
  PROVE  EmitResult(v).last \in Values /\ EmitResult(v).told \in Values
<1>1. Register.name \in RegNames /\ last \in Values /\ told \in Values
  BY RegisterType DEF PollerType
<1>2. /\ SampleResult(v).last = last /\ SampleResult(v).told = told
      /\ ValueResult(v).last = [last EXCEPT ![Register.name] = v]
      /\ \/ ValueResult(v).told = told
         \/ ValueResult(v).told = [told EXCEPT ![Register.name] = v]
  BY DEF SampleResult, ValueResult
<1>3. [last EXCEPT ![Register.name] = v] \in Values /\ [told EXCEPT ![Register.name] = v] \in Values
  BY <1>1 DEF Values
<1>4. CASE Register.mode = "stats"
  BY <1>1, <1>2, <1>4 DEF EmitResult
<1>5. CASE Register.mode # "stats"
  BY <1>1, <1>2, <1>3, <1>5 DEF EmitResult
<1> QED
  BY <1>4, <1>5

LEMMA PollerTypeStep ==
  ASSUME PollerType, now \in Nat, PollerNext
  PROVE  PollerType'
<1>a. Len(registers) \in Nat \ {0} /\ 1 \in 1 .. Len(registers)
  <2>1. registers \in Mappings
    BY DEF PollerType
  <2>2. Len(registers) \in Nat \ {0}
    BY <2>1, MappingLength
  <2> QED
    BY <2>2
<1>b. MaxFaults \in Nat
  BY PollerAssumption
<1>c. faults \in 0 .. MaxFaults /\ (Fault \/ InTime \/ Late \/ LinkRaises) =>
        faults' \in 0 .. MaxFaults
  BY <1>b DEF InTime, Late, LinkRaises, Fault
<1>1. CASE PollerConnect
  <2>1. reg' = 1 /\ closed' = FALSE /\ wire' = <<>> /\ onway' = <<>> /\ place' = "request"
        /\ UNCHANGED <<framing, registers, tid, last, told, untold, faults>>
    BY <1>1 DEF PollerConnect, LastAtConnect
  <2>2. closed' \in BOOLEAN
    BY <2>1, Zenon
  <2> QED
    BY <1>a, <2>1, <2>2 DEF PollerType
<1>2. CASE PollerConnectFails
  BY <1>2, <1>c DEF PollerType, PollerConnectFails
<1>3. CASE SendRequest
  <2>1. tid' \in 0 .. TidModulus - 1
    BY <1>3, NextTidType DEF SendRequest
  <2>2. Request(tid') \in Requests
    BY <1>3, <2>1, RequestType DEF SendRequest
  <2>3. [1 .. reg_count(Register.type) -> WordValues] \subseteq Seq(Int)
    BY WordsAreSeqs DEF reg_count
  <2>4. Exception \in Seq(Int) /\ onway \in Seq(Pieces)
    BY DEF Exception, PollerType
  <2>5. onway' \in Seq(Pieces) /\ faults' \in 0 .. MaxFaults
    <3>1. CASE /\ UNCHANGED faults
               /\ \E regs \in [1 .. reg_count(Register.type) -> WordValues] :
                    onway' = onway \o Reply(Request(tid'), regs)
      <4>1. PICK regs \in Seq(Int) : onway' = onway \o Reply(Request(tid'), regs)
        BY <2>3, <3>1
      <4>2. Reply(Request(tid'), regs) \in Seq(Pieces)
        BY <2>2, ReplyPieces
      <4>3. onway' \in Seq(Pieces)
        BY <2>4, <4>1, <4>2
      <4> QED
        BY <3>1, <4>3 DEF PollerType
    <3>2. CASE Fault /\ onway' = onway \o Reply(Request(tid'), Exception)
      <4>1. Reply(Request(tid'), Exception) \in Seq(Pieces)
        BY <2>2, <2>4, ReplyPieces
      <4>2. onway' \in Seq(Pieces)
        BY <2>4, <3>2, <4>1
      <4> QED
        BY <3>2, <4>2, <1>b DEF PollerType, Fault
    <3>3. CASE UNCHANGED <<onway, faults>>
      BY <2>4, <3>3 DEF PollerType
    <3> QED
      BY <1>3, <3>1, <3>2, <3>3 DEF SendRequest
  <2> QED
    BY <1>3, <2>1, <2>5 DEF PollerType, SendRequest
<1>4. CASE BadAddress
  BY <1>4, NextTidType DEF PollerType, BadAddress, PollSpoilt
<1>5. CASE Arrive
  BY <1>5 DEF PollerType, Arrive
<1>6. CASE PieceLost
  BY <1>6, <1>c DEF PollerType, PieceLost
<1>7. CASE PeerCloses
  BY <1>7, <1>c DEF PollerType, PeerCloses
<1>8. CASE BadReply
  BY <1>8, <1>c DEF PollerType, BadReply, ReadWire, PollSpoilt, NoBodies
<1>9. CASE ShortReply
  BY <1>9, <1>c DEF PollerType, ShortReply, ReadWire, LinkDropped, NoBodies
<1>10. CASE GoodReply
  <2>1. DecodedValue \in Int
    BY <1>10, DecodedType DEF GoodReply
  <2>2. /\ last' = EmitResult(DecodedValue).last
        /\ told' \in {told, EmitResult(DecodedValue).told}
        /\ untold' \in {untold, untold \ {Register.name}, untold \cup {Register.name}}
    BY <1>10 DEF GoodReply, DecodedValue, Taken
  <2>3. last' \in Values /\ told' \in Values /\ untold' \subseteq RegNames
    BY <2>1, <2>2, EmitType, RegisterType DEF PollerType
  <2>4. /\ wire' = <<>> /\ UNCHANGED <<now, framing, registers, tid, onway, closed>>
    BY <1>10 DEF GoodReply, ReadWire
  <2>5. \/ (InTime \/ Late) /\ NextRegister
        \/ Fault /\ place' = "connect" /\ UNCHANGED reg
    BY <1>10 DEF GoodReply, LinkDropped
  <2>6. faults' \in 0 .. MaxFaults
    BY <1>c, <2>5 DEF PollerType
  <2>7. reg' \in 1 .. Len(registers) /\ place' \in {"connect", "request", "wait"}
    BY <1>a, <2>5 DEF PollerType, NextRegister
  <2> QED
    BY <2>3, <2>4, <2>6, <2>7 DEF PollerType
<1>11. CASE SendFails
  BY <1>11, <1>c, NextTidType DEF PollerType, SendFails, LinkDropped, NoBodies
<1>12. CASE ReceiveFails
  BY <1>12, <1>c DEF PollerType, ReceiveFails, LinkDropped, NoBodies
<1>13. CASE PollWait
  BY <1>13, <1>a DEF PollerType, PollWait
<1>14. CASE PollerStop
  BY <1>14, <1>c DEF PollerType, PollerStop
<1>15. CASE PollerRestart
  BY <1>15, NextTidType DEF PollerType, PollerRestart, Values
<1> QED
  BY <1>1, <1>2, <1>3, <1>4, <1>5, <1>6, <1>7, <1>8, <1>9, <1>10, <1>11, <1>12, <1>13,
     <1>14, <1>15 DEF PollerNext

-----------------------------------------------------------------------------
(* Steps, seen from the windows: no sample; a sample, after which start()  *)
(* goes on, loses the link or crashes; stop().                             *)
SameSamples(r) ==
  /\ r \in Histories
  /\ r.fed = seen.fed /\ r.sent = seen.sent /\ r.lost = seen.lost /\ r.ends = seen.ends

NoStats(bodies) == \A i \in DOMAIN bodies : bodies[i].kind # "stats"

Sampled(c, v) == Added(c, v, now)
SampledSeen(c, v) == Counted(c, Sampled(c, v).done, now)
OneFailure(s) == [s EXCEPT !.fails = @ + 1, !.wait = delay]
Crashed(s, A) == OneFailure([s EXCEPT !.lost = Plus(@, OpenCount(A))])

IdleStep ==
  /\ NoStats(emitted')
  /\ \/ acc' = acc /\ SameSamples(seen')
     \/ acc' = NothingOpen /\ seen' = Crashed(seen, acc)

SampleStep(c, v) ==
  /\ emitted' \in {Sampled(c, v).done, <<>>}
  /\ \E s \in {SampledSeen(c, v), Refused(SampledSeen(c, v))} :
       \/ acc' = Sampled(c, v).acc /\ seen' \in {s, OneFailure(s)}
       \/ acc' = NothingOpen /\ seen' = Crashed(s, Sampled(c, v).acc)

WindowStep ==
  /\ now' \in {now, now + 1}
  /\ \/ IdleStep
     \/ \E c \in Channels, v \in Int : SampleStep(c, v)
     \/ FlushAll
     \/ FlushRaises

LEMMA FailureHistory ==
  ASSUME NEW s \in Histories, delay \in Nat
  PROVE  /\ OneFailure(s) \in Histories /\ OneFailure(s).fed = s.fed
         /\ OneFailure(s).sent = s.sent /\ OneFailure(s).lost = s.lost
         /\ OneFailure(s).ends = s.ends /\ OneFailure(s).connects = s.connects
         /\ OneFailure(s).fails = s.fails + 1 /\ OneFailure(s).wait = delay
<1> DEFINE n == s.fails + 1
<1>1. n \in Nat
  BY DEF Histories
<1>2. OneFailure(s) = [s EXCEPT !.fails = n, !.wait = delay]
  BY Zenon DEF OneFailure
<1> HIDE DEF n
<1>3. OneFailure(s) \in Histories
  BY <1>1, <1>2 DEF Histories
<1> QED
  BY <1>2, <1>3 DEF Histories, n

LEMMA LossHistory ==
  ASSUME NEW s \in Histories, NEW f \in Counts
  PROVE  LET r == [s EXCEPT !.lost = f]
         IN  /\ r \in Histories /\ r.lost = f /\ r.fed = s.fed /\ r.sent = s.sent
             /\ r.ends = s.ends /\ r.connects = s.connects /\ r.fails = s.fails
             /\ r.wait = s.wait
BY DEF Histories

LEMMA CrashHistory ==
  ASSUME NEW s \in Histories, NEW A \in [Channels -> Windows \cup {NoBlock}], delay \in Nat
  PROVE  /\ Crashed(s, A) \in Histories /\ Crashed(s, A).fed = s.fed
         /\ Crashed(s, A).sent = s.sent /\ Crashed(s, A).lost = Plus(s.lost, OpenCount(A))
         /\ Crashed(s, A).ends = s.ends /\ Crashed(s, A).connects = s.connects
         /\ Crashed(s, A).fails = s.fails + 1
<1> DEFINE f == Plus(s.lost, OpenCount(A))
           r == [s EXCEPT !.lost = f]
<1>1. f \in Counts
  BY CountsOf, PlusCounts DEF Histories
<1>2. Crashed(s, A) = OneFailure(r)
  BY DEF Crashed
<1> HIDE DEF f
<1>3. /\ r \in Histories /\ r.lost = f /\ r.fed = s.fed /\ r.sent = s.sent
      /\ r.ends = s.ends /\ r.connects = s.connects /\ r.fails = s.fails
  BY <1>1, LossHistory
<1> HIDE DEF r
<1> QED
  BY <1>2, <1>3, FailureHistory DEF f

LEMMA SampleStepWindows ==
  ASSUME WindowsOK(acc, now, seen), delay \in Nat, NEW c \in Channels, NEW v \in Int,
         SampleStep(c, v)
  PROVE  WindowsOK(acc', now, seen') /\ \A i \in DOMAIN emitted' : SaneBlock(emitted'[i])
<1> DEFINE A == Sampled(c, v).acc
           s0 == SampledSeen(c, v)
<1>1. /\ WindowsOK(A, now, s0) /\ \A d \in Channels : seen.sent[d] <= s0.sent[d]
      /\ \/ emitted' = <<>>
         \/ \E a \in Windows :
              /\ emitted' = <<Block(c, a, now)>> /\ Spread(a)
              /\ seen.ends[c] <= a.mono /\ a.mono <= now
  BY SampleWindows DEF SampleStep, Sampled, SampledSeen
<1>2. PICK s \in {s0, Refused(s0)} :
        \/ acc' = A /\ seen' \in {s, OneFailure(s)}
        \/ acc' = NothingOpen /\ seen' = Crashed(s, A)
  BY DEF SampleStep
<1> HIDE DEF A, s0
<1>r. WindowsOK(A, now, s)
  <2>1. seen \in Histories
    BY DEF WindowsOK
  <2>2. WindowsOK(A, now, Refused(s0))
    BY <1>1, <2>1, RefusedWindows
  <2> QED
    BY <1>1, <2>2
<1>3. s \in Histories /\ A \in [Channels -> Windows \cup {NoBlock}] /\ now \in Nat
  BY <1>r DEF WindowsOK
<1>4. WindowsOK(acc', now, seen')
  <2>1. CASE acc' = A /\ seen' = s
    BY <1>r, <2>1
  <2>2. CASE acc' = A /\ seen' = OneFailure(s)
    BY <1>r, <1>3, <2>2, FailureHistory, HistoryWindows
  <2>3. CASE acc' = NothingOpen /\ seen' = Crashed(s, A)
    BY <1>r, <1>3, <2>3, CrashHistory, AllLost
  <2> QED
    BY <1>2, <2>1, <2>2, <2>3
<1>5. \A i \in DOMAIN emitted' : SaneBlock(emitted'[i])
  <2>1. CASE emitted' = <<>>
    BY <2>1
  <2>2. ASSUME NEW a \in Windows, emitted' = <<Block(c, a, now)>>, Spread(a),
               seen.ends[c] <= a.mono, a.mono <= now
        PROVE  \A i \in DOMAIN emitted' : SaneBlock(emitted'[i])
    <3>1. SaneBlock(Block(c, a, now))
      BY <1>3, <2>2, BlockIsSane
    <3> QED
      BY <2>2, <3>1
  <2> QED
    BY <1>1, <2>1, <2>2
<1> QED
  BY <1>4, <1>5

LEMMA OrderType ==
  ASSUME NEW order \in SetToSeqs(OpenChannels)
  PROVE  Len(order) \in Nat /\ order \in [1 .. Len(order) -> OpenChannels]
<1> DEFINE k == Cardinality(OpenChannels)
<1>1. k \in Nat
  <2>1. IsFiniteSet(Channels) /\ OpenChannels \in SUBSET Channels
    BY AdapterAssumption DEF OpenChannels
  <2> QED
    BY <2>1, FS_Subset, FS_CardinalityType
<1>2. order \in [1 .. k -> OpenChannels]
  BY DEF SetToSeqs
<1> HIDE DEF k
<1>3. Len(order) = k
  BY <1>1, <1>2
<1> QED
  BY <1>1, <1>2, <1>3

(* The blocks of a flush, in any order and as far as it came.              *)
LEMMA FlushedBlocks ==
  ASSUME WindowsOK(acc, now, seen), NEW order \in SetToSeqs(OpenChannels),
         NEW n \in 0 .. Len(order), Flushed(order, n)
  PROVE  /\ acc' = NothingOpen
         /\ \A i \in DOMAIN emitted' : SaneBlock(emitted'[i])
<1>1. /\ acc \in [Channels -> Windows \cup {NoBlock}] /\ now \in Nat
      /\ \A c \in Channels : acc[c] # NoBlock =>
           seen.ends[c] <= acc[c].mono /\ acc[c].mono <= now /\ Spread(acc[c])
  BY DEF WindowsOK
<1> DEFINE k == Len(order)
<1>2. k \in Nat /\ order \in [1 .. k -> OpenChannels]
  BY OrderType
<1> HIDE DEF k
<1>5. acc' = NothingOpen /\ emitted' = [i \in 1 .. n |-> Block(order[i], acc[order[i]], now)]
  BY DEF Flushed
<1>6. ASSUME NEW i \in DOMAIN emitted' PROVE SaneBlock(emitted'[i])
  <2>1. i \in 1 .. n /\ n \in 0 .. k
    BY <1>5 DEF k
  <2>2. order[i] \in OpenChannels
    BY <1>2, <2>1
  <2> DEFINE c == order[i]
             a == acc[c]
  <2>3. c \in Channels /\ acc[c] # NoBlock
    BY <2>2 DEF OpenChannels
  <2>4. emitted'[i] = Block(c, a, now)
    BY <1>5, <2>1
  <2> HIDE DEF c
  <2>5. a \in Windows /\ Spread(a) /\ seen.ends[c] <= a.mono /\ a.mono <= now
    BY <1>1, <2>3
  <2> QED
    BY <1>1, <2>3, <2>4, <2>5, BlockIsSane
<1> QED
  BY <1>5, <1>6

LEMMA FlushWindows ==
  ASSUME WindowsOK(acc, now, seen), FlushAll
  PROVE  /\ WindowsOK(acc', now, seen') /\ \A i \in DOMAIN emitted' : SaneBlock(emitted'[i])
         /\ seen'.connects = seen.connects /\ seen'.fails = seen.fails
         /\ seen'.wait = seen.wait
<1>1. acc \in [Channels -> Windows \cup {NoBlock}] /\ seen \in Histories
  BY DEF WindowsOK
<1> DEFINE f == Plus(seen.sent, OpenCount(acc))
<1>2. f \in Counts /\ \A c \in Channels : f[c] = seen.sent[c] + OpenCount(acc)[c]
  BY <1>1, CountsOf, PlusCounts DEF Histories
<1>3. PICK order \in SetToSeqs(OpenChannels) : Flushed(order, Len(order))
  BY DEF FlushAll
<1>4. acc' = NothingOpen /\ \A i \in DOMAIN emitted' : SaneBlock(emitted'[i])
  <2>1. Len(order) \in 0 .. Len(order)
    BY OrderType
  <2> QED
    BY <1>3, <2>1, FlushedBlocks
<1>5. seen' = [seen EXCEPT !.sent = f]
  BY DEF FlushAll
<1> HIDE DEF f
<1>6. /\ seen' \in Histories /\ seen'.sent = f /\ seen'.fed = seen.fed /\ seen'.lost = seen.lost
      /\ seen'.ends = seen.ends /\ seen'.connects = seen.connects /\ seen'.fails = seen.fails
      /\ seen'.wait = seen.wait
  BY <1>1, <1>2, <1>5 DEF Histories
<1>7. WindowsOK(acc', now, seen')
  BY <1>2, <1>4, <1>6, NoWindows
<1> QED
  BY <1>4, <1>6, <1>7

(* A flush that is cut short: the taken blocks are sent, the rest lost.    *)
CutHistory(taken) ==
  [seen EXCEPT !.sent = Plus(@, CountIn(taken)), !.lost = Plus(@, CountIn(Channels \ taken))]

LEMMA CutWindows ==
  ASSUME WindowsOK(acc, now, seen), NEW taken
  PROVE  /\ CutHistory(taken) \in Histories /\ WindowsOK(NothingOpen, now, CutHistory(taken))
         /\ CutHistory(taken).connects = seen.connects /\ CutHistory(taken).fails = seen.fails
<1> DEFINE f == Plus(seen.sent, CountIn(taken))
           g == Plus(seen.lost, CountIn(Channels \ taken))
           r == CutHistory(taken)
<1>1. seen \in Histories /\ OpenCount(acc) \in Counts /\ seen.sent \in Counts
      /\ seen.lost \in Counts
  BY CountsOf DEF WindowsOK, Histories
<1>2. CountIn(taken) \in Counts /\ CountIn(Channels \ taken) \in Counts
  BY <1>1 DEF CountIn, Counts
<1>3. f \in Counts /\ g \in Counts
      /\ \A c \in Channels : /\ f[c] = seen.sent[c] + CountIn(taken)[c]
                             /\ g[c] = seen.lost[c] + CountIn(Channels \ taken)[c]
  BY <1>1, <1>2, PlusCounts
<1>4. \A c \in Channels :
        \/ CountIn(taken)[c] = OpenCount(acc)[c] /\ CountIn(Channels \ taken)[c] = 0
        \/ CountIn(taken)[c] = 0 /\ CountIn(Channels \ taken)[c] = OpenCount(acc)[c]
  BY DEF CountIn
<1>5. r = [seen EXCEPT !.sent = f, !.lost = g]
  BY <1>1 DEF CutHistory, Histories
<1> HIDE DEF f, g, r
<1>6. /\ r \in Histories /\ r.sent = f /\ r.lost = g /\ r.fed = seen.fed /\ r.ends = seen.ends
      /\ r.connects = seen.connects /\ r.fails = seen.fails
  BY <1>1, <1>3, <1>5 DEF Histories
<1>7. ASSUME NEW c \in Channels
      PROVE  \/ r.sent[c] = seen.sent[c] /\ r.lost[c] = seen.lost[c] + OpenCount(acc)[c]
             \/ r.lost[c] = seen.lost[c] /\ r.sent[c] = seen.sent[c] + OpenCount(acc)[c]
  BY <1>1, <1>3, <1>4, <1>6 DEF Counts
<1>8. WindowsOK(NothingOpen, now, r)
  BY <1>6, <1>7, NoWindows
<1> QED
  BY <1>6, <1>8 DEF r

LEMMA CutFlush ==
  ASSUME WindowsOK(acc, now, seen), delay \in Nat, FlushRaises
  PROVE  /\ WindowsOK(acc', now, seen') /\ \A i \in DOMAIN emitted' : SaneBlock(emitted'[i])
         /\ health' = Disconnected(health) /\ delay' = NextDelay(delay)
         /\ seen'.connects = seen.connects /\ seen'.fails = seen.fails + 1
         /\ seen'.wait = delay
<1>o. PICK order \in SetToSeqs(OpenChannels) : \E n \in 0 .. Len(order) :
        /\ Flushed(order, n)
        /\ Fails(health, CutHistory({order[i] : i \in 1 .. n}))
  BY Zenon DEF FlushRaises, CutHistory
<1>1. PICK n \in 0 .. Len(order) :
        /\ Flushed(order, n)
        /\ Fails(health, CutHistory({order[i] : i \in 1 .. n}))
  BY <1>o
<1> DEFINE s == CutHistory({order[i] : i \in 1 .. n})
<1>2. acc' = NothingOpen /\ \A i \in DOMAIN emitted' : SaneBlock(emitted'[i])
  BY <1>1, FlushedBlocks
<1>3. /\ s \in Histories /\ WindowsOK(NothingOpen, now, s)
      /\ s.connects = seen.connects /\ s.fails = seen.fails
  BY CutWindows
<1>4. health' = Disconnected(health) /\ delay' = NextDelay(delay) /\ seen' = OneFailure(s)
  BY <1>1 DEF Fails, OneFailure
<1> HIDE DEF s
<1>5. /\ seen' \in Histories /\ seen'.fed = s.fed /\ seen'.sent = s.sent /\ seen'.lost = s.lost
      /\ seen'.ends = s.ends /\ seen'.connects = s.connects /\ seen'.fails = s.fails + 1
      /\ seen'.wait = delay
  BY <1>3, <1>4, FailureHistory
<1>6. WindowsOK(acc', now, seen')
  BY <1>2, <1>3, <1>5, HistoryWindows
<1> QED
  BY <1>2, <1>3, <1>4, <1>5, <1>6

LEMMA WindowStepOK ==
  ASSUME WindowsOK(acc, now, seen), delay \in Nat, WindowStep
  PROVE  WindowsOK(acc', now', seen') /\ \A i \in DOMAIN emitted' : SaneBlock(emitted'[i])
<1>1. WindowsOK(acc', now, seen') /\ \A i \in DOMAIN emitted' : SaneBlock(emitted'[i])
  <2>1. CASE IdleStep
    <3>1. WindowsOK(acc', now, seen')
      <4>1. CASE acc' = acc /\ SameSamples(seen')
        BY <4>1, HistoryWindows DEF SameSamples
      <4>2. CASE acc' = NothingOpen /\ seen' = Crashed(seen, acc)
        <5>1. /\ seen \in Histories /\ acc \in [Channels -> Windows \cup {NoBlock}]
          BY DEF WindowsOK
        <5> QED
          BY <4>2, <5>1, CrashHistory, AllLost
      <4> QED
        BY <2>1, <4>1, <4>2 DEF IdleStep
    <3>2. ASSUME NEW i \in DOMAIN emitted' PROVE SaneBlock(emitted'[i])
      BY <2>1 DEF IdleStep, NoStats, SaneBlock
    <3> QED
      BY <3>1, <3>2
  <2>2. CASE \E c \in Channels, v \in Int : SampleStep(c, v)
    BY <2>2, SampleStepWindows
  <2>3. CASE FlushAll
    BY <2>3, FlushWindows
  <2>4. CASE FlushRaises
    BY <2>4, CutFlush
  <2> QED
    BY <2>1, <2>2, <2>3, <2>4 DEF WindowStep
<1>2. now' \in {now, now + 1}
  BY DEF WindowStep
<1> QED
  BY <1>1, <1>2, LaterWindows

-----------------------------------------------------------------------------
(* Every step of the adapter is a step of the windows.                     *)
OneConnection(s) == [s EXCEPT !.connects = @ + 1, !.fails = 0]

LEMMA ConnectionHistory ==
  ASSUME NEW s \in Histories
  PROVE  /\ OneConnection(s) \in Histories /\ OneConnection(s).fed = s.fed
         /\ OneConnection(s).sent = s.sent /\ OneConnection(s).lost = s.lost
         /\ OneConnection(s).ends = s.ends /\ OneConnection(s).connects = s.connects + 1
         /\ OneConnection(s).fails = 0
<1> DEFINE n == s.connects + 1
           z == 0
<1>1. n \in Nat /\ z \in Nat /\ OneConnection(s) = [s EXCEPT !.connects = n, !.fails = z]
  <2>1. s.connects \in Nat
    BY DEF Histories
  <2>2. n \in Nat
    BY <2>1
  <2>3. OneConnection(s) = [s EXCEPT !.connects = n, !.fails = z]
    BY Zenon DEF OneConnection
  <2> QED
    BY <2>2, <2>3
<1> HIDE DEF n, z
<1>2. OneConnection(s) \in Histories
  BY <1>1 DEF Histories
<1> QED
  BY <1>1, <1>2 DEF Histories, n, z

LEMMA SeenSteps ==
  ASSUME seen \in Histories, delay \in Nat
  PROVE  /\ SameSamples(seen) /\ SameSamples(OneFailure(seen))
         /\ SameSamples(OneConnection(seen))
BY FailureHistory, ConnectionHistory DEF SameSamples

LEMMA GoodReplyWindows ==
  ASSUME PollerType, seen \in Histories, delay \in Nat, GoodReply
  PROVE  IdleStep \/ \E c \in Channels, v \in Int : SampleStep(c, v)
<1> DEFINE v == DecodedValue
           r == EmitResult(v)
<1>1. v \in Int
  BY DecodedType DEF GoodReply
<1>2. acc' = r.acc /\ emitted' \in {r.emitted, <<>>}
  BY DEF GoodReply, DecodedValue, Taken, Quiet
<1>s. PICK s \in {r.seen, Refused(r.seen)} : seen' \in {s, OneFailure(s)}
  BY DEF GoodReply, DecodedValue, LinkDropped, Fails, OneFailure
<1> HIDE DEF v
<1>3. CASE Register.mode = "stats"
  <2> DEFINE c == Register.channel
  <2>1. c \in Channels
    BY <1>3, RegisterType
  <2>2. r = SampleResult(v)
    BY <1>3 DEF EmitResult
  <2>3. /\ r.acc = Sampled(c, v).acc /\ r.emitted = Sampled(c, v).done
        /\ r.seen = SampledSeen(c, v)
    BY <2>2 DEF SampleResult, Sampled, SampledSeen
  <2> HIDE DEF c, r
  <2>4. SampleStep(c, v)
    BY <1>2, <1>s, <2>3 DEF SampleStep
  <2> QED
    BY <1>1, <2>1, <2>4
<1>4. CASE Register.mode # "stats"
  <2>1. r = ValueResult(v)
    BY <1>4 DEF EmitResult
  <2> DEFINE e == Event(last[Register.name], v)
  <2>2. NoStats(e)
    <3>1. \/ e = <<>>
          \/ e = <<[kind |-> Register.mode, name |-> Register.name,
                    from |-> last[Register.name], to |-> v]>>
      BY DEF Event
    <3> HIDE DEF e
    <3> QED
      BY <1>4, <3>1 DEF NoStats
  <2>3. r.acc = acc /\ r.emitted = e /\ r.seen = seen
    BY <2>1 DEF ValueResult
  <2> HIDE DEF r, e
  <2>4. SameSamples(seen')
    BY <1>s, <2>3, RefusedNothing, SeenSteps
  <2>5. NoStats(<<>>)
    BY DEF NoStats
  <2> QED
    BY <1>2, <2>2, <2>3, <2>4, <2>5 DEF IdleStep
<1> QED
  BY <1>3, <1>4

LEMMA PollerWindows ==
  ASSUME PollerType, seen \in Histories, delay \in Nat, PollerNext
  PROVE  WindowStep
<1>a. ASSUME acc' = acc, emitted' = <<>>, now' \in {now, now + 1},
             \/ seen' = seen \/ seen' = OneFailure(seen)
             \/ seen' = OneConnection(seen)
      PROVE  WindowStep
  BY <1>a, SeenSteps DEF WindowStep, IdleStep, NoStats
<1>1. CASE PollerConnect
  BY <1>1, <1>a DEF PollerConnect, Connects, Quiet, OneConnection
<1>2. CASE PollerConnectFails
  BY <1>2, <1>a DEF PollerConnectFails, Fails, Quiet, OneFailure
<1>3. CASE SendRequest
  BY <1>3, <1>a DEF SendRequest, Quiet
<1>4. CASE BadAddress
  BY <1>4, <1>a DEF BadAddress, PollSpoilt, Quiet
<1>5. CASE Arrive \/ PieceLost \/ PeerCloses
  BY <1>5, <1>a DEF Arrive, PieceLost, PeerCloses, Quiet
<1>6. CASE BadReply
  BY <1>6, <1>a DEF BadReply, ReadWire, PollSpoilt, NoBodies, Quiet
<1>7. CASE ShortReply
  BY <1>7, <1>a DEF ShortReply, ReadWire, LinkDropped, Fails, OneFailure, NoBodies, Quiet
<1>8. CASE GoodReply
  <2>1. now' = now
    BY <1>8 DEF GoodReply, ReadWire
  <2> QED
    BY <1>8, <2>1, GoodReplyWindows DEF WindowStep
<1>9. CASE SendFails \/ ReceiveFails
  BY <1>9, <1>a DEF SendFails, ReceiveFails, LinkDropped, Fails, OneFailure, NoBodies, Quiet
<1>10. CASE PollWait
  BY <1>10, <1>a DEF PollWait, Quiet
<1>11. CASE PollerStop
  BY <1>11 DEF PollerStop, WindowStep
<1>12. CASE PollerRestart
  BY <1>12, <1>a DEF PollerRestart, Quiet
<1> QED
  BY <1>1, <1>2, <1>3, <1>4, <1>5, <1>6, <1>7, <1>8, <1>9, <1>10, <1>11, <1>12 DEF PollerNext

(* The first pattern that matches is one of the profile.                   *)
LEMMA FirstMatchIs ==
  ASSUME NEW line, NEW part, Matching(line, part) # {}
  PROVE  \E i \in DOMAIN Patterns : FirstMatch(line, part) = Patterns[i]
<1> DEFINE M == Matching(line, part)
<1>1. DOMAIN Patterns = 1 .. Len(Patterns) /\ Len(Patterns) \in Nat
  BY SerialAssumption, Zenon
<1>2. M \in SUBSET Nat /\ M \subseteq DOMAIN Patterns
  BY <1>1 DEF Matching
<1>3. FirstMatch(line, part) = Patterns[CHOOSE i \in M : \A j \in M : i <= j]
  BY DEF FirstMatch
<1> HIDE DEF M
<1>4. \E i \in M : \A j \in M : i <= j
  BY <1>2, LeastElement DEF M
<1> DEFINE m == CHOOSE i \in M : \A j \in M : i <= j
<1>5. m \in M
  BY <1>4
<1> QED
  BY <1>2, <1>3, <1>5

LEMMA EmitsStep ==
  ASSUME NEW r, Emits(r)
  PROVE  /\ emitted' \in {r.done, <<>>}
         /\ \E s \in {r.seen, Refused(r.seen)} :
              \/ acc' = r.acc /\ seen' = s
              \/ acc' = NothingOpen /\ seen' = Crashed(s, r.acc)
<1>1. CASE emitted' = r.done /\ acc' = r.acc /\ seen' = r.seen
  BY <1>1
<1>2. ASSUME NEW s \in {r.seen, Refused(r.seen)}, emitted' \in {r.done, <<>>}, EmitRaises(r, s)
      PROVE  /\ acc' = NothingOpen /\ seen' = Crashed(s, r.acc)
  BY <1>2 DEF EmitRaises, Fails, Crashed, OneFailure
<1> QED
  BY <1>1, <1>2 DEF Emits

LEMMA TranslatedWindows ==
  ASSUME seen \in Histories, delay \in Nat, NEW line, NEW part, Translated(line, part)
  PROVE  IdleStep \/ \E c \in Channels, v \in Int : SampleStep(c, v)
<1> DEFINE p == FirstMatch(line, part)
<1>1. CASE p.schema = "event" /\ Emits(EventResult(p))
  <2> DEFINE r == EventResult(p)
  <2>1. /\ emitted' \in {r.done, <<>>}
        /\ \E s \in {r.seen, Refused(r.seen)} :
             \/ acc' = r.acc /\ seen' = s
             \/ acc' = NothingOpen /\ seen' = Crashed(s, r.acc)
    <3> HIDE DEF r
    <3> QED
      BY <1>1, EmitsStep DEF r
  <2>2. r.acc = acc /\ r.seen = seen /\ NoStats(r.done) /\ NoStats(<<>>)
    BY DEF EventResult, NoStats
  <2> HIDE DEF r
  <2>3. Refused(r.seen) = seen
    BY <2>2, RefusedNothing
  <2> QED
    BY <2>1, <2>2, <2>3, SeenSteps DEF IdleStep
<1>2. CASE p.schema = "telemetry" /\ \E v \in SampleValues : Emits(TelemetryResult(p, v))
  <2>1. PICK v \in SampleValues : Emits(TelemetryResult(p, v))
    BY <1>2
  <2> DEFINE r == TelemetryResult(p, v)
             c == p.name
  <2>2. v \in Int /\ c \in Channels
    BY <1>2, FirstMatchIs, SerialAssumption DEF Translated
  <2>3. /\ r.acc = Sampled(c, v).acc /\ r.done = Sampled(c, v).done
        /\ r.seen = SampledSeen(c, v)
    BY DEF TelemetryResult, Sampled, SampledSeen
  <2>4. /\ emitted' \in {r.done, <<>>}
        /\ \E s \in {r.seen, Refused(r.seen)} :
             \/ acc' = r.acc /\ seen' = s
             \/ acc' = NothingOpen /\ seen' = Crashed(s, r.acc)
    <3> HIDE DEF r
    <3> QED
      BY <2>1, EmitsStep DEF r
  <2> HIDE DEF r, c
  <2>5. SampleStep(c, v)
    BY <2>3, <2>4 DEF SampleStep
  <2> QED
    BY <2>2, <2>5
<1> QED
  BY <1>1, <1>2 DEF Translated

LEMMA SerialWindows ==
  ASSUME seen \in Histories, delay \in Nat, SerialNext
  PROVE  WindowStep
<1>a. ASSUME acc' = acc, emitted' = <<>>, now' \in {now, now + 1},
             \/ seen' = seen \/ seen' = OneFailure(seen)
             \/ seen' = OneConnection(seen)
      PROVE  WindowStep
  BY <1>a, SeenSteps DEF WindowStep, IdleStep, NoStats
<1>b. ASSUME NEW line, NEW part, Handle(line, part), now' \in {now, now + 1}
      PROVE  WindowStep
  <2>1. CASE Ignored(line, part)
    BY <1>a, <1>b, <2>1 DEF Ignored
  <2>2. CASE Unsupported(line, part)
    BY <1>a, <1>b, <2>2 DEF Unsupported
  <2>3. CASE Translated(line, part)
    BY <1>b, <2>3, TranslatedWindows DEF WindowStep
  <2> QED
    BY <1>b, <2>1, <2>2, <2>3 DEF Handle
<1>1. CASE SerialOpen
  BY <1>1, <1>a DEF SerialOpen, Connects, OneConnection
<1>2. CASE SerialFails
  BY <1>2, <1>a DEF SerialFails, Fails, OneFailure
<1>3. CASE ReadLine
  BY <1>3, <1>b DEF ReadLine
<1>4. CASE ReadRest
  BY <1>4, <1>b DEF ReadRest
<1>5. CASE SerialRestart
  BY <1>5, <1>a DEF SerialRestart
<1>6. CASE SerialStop
  BY <1>6 DEF SerialStop, WindowStep
<1> QED
  BY <1>1, <1>2, <1>3, <1>4, <1>5, <1>6 DEF SerialNext

-----------------------------------------------------------------------------
(* The health.  HealthOK strengthens HealthHonest: connected_since is set  *)
(* when there was a connection, which is what _mark_connected goes by, and *)
(* _backoff_s is the wait that the next failure will have.                 *)
Healths ==
  [state : {"ok", "degraded", "disconnected"}, since : BOOLEAN, data : BOOLEAN,
   reconnects : Nat, errors : Nat]

HealthOK ==
  /\ health \in Healths
  /\ health.since <=> seen.connects > 0
  /\ delay = SmallerOf(PowerOfTwo[seen.fails], MaxDelay)
  /\ CountersHonest
  /\ ~Stopped => (health.state = "disconnected" <=> ~Linked)

(* Steps, seen from the health: nothing or little of it changes; a         *)
(* connection; a failure.                                                  *)
KeepStep ==
  /\ \/ health' \in {health, WithData(health)}
     \/ Linked /\ health' = Degraded(health)
  /\ delay' = delay /\ seen'.connects = seen.connects /\ seen'.fails = seen.fails
  /\ seen'.wait = seen.wait
  /\ Stopped' \/ (~Stopped /\ (Linked' <=> Linked))

ConnectStep ==
  /\ health' = Connected(health) /\ delay' = 1
  /\ seen'.connects = seen.connects + 1 /\ seen'.fails = 0
  /\ ~Stopped /\ ~Linked /\ Linked'

FailStep ==
  /\ health' \in {Disconnected(health), Disconnected(WithData(health))}
  /\ delay' = NextDelay(delay)
  /\ seen'.connects = seen.connects /\ seen'.fails = seen.fails + 1 /\ seen'.wait = delay
  /\ ~Linked'

HealthStep == KeepStep \/ ConnectStep \/ FailStep

LEMMA HealthUpdates ==
  ASSUME NEW h \in Healths
  PROVE  /\ WithData(h) \in Healths /\ WithData(h).state = h.state
         /\ WithData(h).since = h.since /\ WithData(h).reconnects = h.reconnects
         /\ Degraded(h) \in Healths /\ Degraded(h).state = "degraded"
         /\ Degraded(h).since = h.since /\ Degraded(h).reconnects = h.reconnects
         /\ Disconnected(h) \in Healths /\ Disconnected(h).state = "disconnected"
         /\ Disconnected(h).since = h.since /\ Disconnected(h).reconnects = h.reconnects
<1>1. WithData(h) \in Healths /\ WithData(h).state = h.state
      /\ WithData(h).since = h.since /\ WithData(h).reconnects = h.reconnects
  BY DEF WithData, Healths
<1> DEFINE n == h.errors + 1
<1>2. n \in Nat
  BY DEF Healths
<1>3. /\ Degraded(h) = [h EXCEPT !.state = "degraded", !.errors = n]
      /\ Disconnected(h) = [h EXCEPT !.state = "disconnected", !.errors = n]
  BY Zenon DEF Degraded, Disconnected
<1> HIDE DEF n
<1>4. Degraded(h) \in Healths /\ Degraded(h).state = "degraded"
      /\ Degraded(h).since = h.since /\ Degraded(h).reconnects = h.reconnects
  BY <1>2, <1>3 DEF Healths
<1>5. Disconnected(h) \in Healths /\ Disconnected(h).state = "disconnected"
      /\ Disconnected(h).since = h.since /\ Disconnected(h).reconnects = h.reconnects
  BY <1>2, <1>3 DEF Healths
<1> QED
  BY <1>1, <1>4, <1>5

LEMMA ConnectedIs ==
  ASSUME NEW h \in Healths
  PROVE  /\ Connected(h) \in Healths /\ Connected(h).state = "ok" /\ Connected(h).since = TRUE
         /\ Connected(h).reconnects
              = IF h.state # "ok" /\ h.since THEN h.reconnects + 1 ELSE h.reconnects
<1> DEFINE n == IF h.state # "ok" /\ h.since THEN h.reconnects + 1 ELSE h.reconnects
<1>1. n \in Nat
  BY DEF Healths
<1>2. Connected(h) = [h EXCEPT !.state = "ok", !.since = TRUE, !.reconnects = n]
  BY Zenon DEF Connected
<1> HIDE DEF n
<1>3. Connected(h) \in Healths /\ Connected(h).state = "ok" /\ Connected(h).since = TRUE
      /\ Connected(h).reconnects = n
  BY <1>1, <1>2 DEF Healths
<1> QED
  BY <1>3 DEF n

LEMMA DelayType ==
  ASSUME HealthOK, seen \in Histories
  PROVE  delay \in Nat
<1>1. PowerOfTwo[seen.fails] \in Nat /\ MaxDelay \in Nat
  BY PowerUnfolds, AdapterAssumption DEF Histories
<1> QED
  BY <1>1 DEF HealthOK, SmallerOf

(* The backoff doubles up to the longest, however long it has been capped. *)
LEMMA DelayDoubles ==
  ASSUME NEW n \in Nat
  PROVE  /\ SmallerOf(PowerOfTwo[0], MaxDelay) = 1
         /\ NextDelay(SmallerOf(PowerOfTwo[n], MaxDelay)) = SmallerOf(PowerOfTwo[n + 1], MaxDelay)
<1> DEFINE p == PowerOfTwo[n]
<1>1. MaxDelay \in Nat \ {0}
  BY AdapterAssumption
<1>2. p \in Nat /\ PowerOfTwo[0] = 1 /\ PowerOfTwo[n + 1] = 2 * p
  BY PowerUnfolds
<1> HIDE DEF p
<1>3. SmallerOf(1, MaxDelay) = 1 /\ NextDelay(SmallerOf(p, MaxDelay)) = SmallerOf(2 * p, MaxDelay)
  BY <1>1, <1>2 DEF SmallerOf, NextDelay
<1> QED
  BY <1>2, <1>3 DEF p

LEMMA HealthStepOK ==
  ASSUME HealthOK, seen \in Histories, HealthStep
  PROVE  HealthOK'
<1>1. seen.connects \in Nat /\ seen.fails \in Nat
  BY DEF Histories
<1>2. /\ health \in Healths
      /\ health.since <=> seen.connects > 0
      /\ health.reconnects = LargerOf(seen.connects - 1, 0)
      /\ delay = SmallerOf(PowerOfTwo[seen.fails], MaxDelay)
      /\ seen.fails > 0 => seen.wait = SmallerOf(PowerOfTwo[seen.fails - 1], MaxDelay)
      /\ ~Stopped => (health.state = "disconnected" <=> ~Linked)
  BY DEF HealthOK, CountersHonest
<1>3. CASE KeepStep
  <2>1. /\ health' \in Healths /\ health'.since = health.since
        /\ health'.reconnects = health.reconnects
        /\ \/ health'.state = health.state
           \/ Linked /\ health'.state = "degraded"
    BY <1>2, <1>3, HealthUpdates DEF KeepStep
  <2>2. /\ delay' = delay /\ seen'.connects = seen.connects /\ seen'.fails = seen.fails
        /\ seen'.wait = seen.wait
        /\ Stopped' \/ (~Stopped /\ (Linked' <=> Linked))
    BY <1>3 DEF KeepStep
  <2>3. ~Stopped' => (health'.state = "disconnected" <=> ~Linked')
    BY <1>2, <2>1, <2>2
  <2>4. CountersHonest'
    BY <1>2, <2>1, <2>2 DEF CountersHonest
  <2> QED
    BY <1>2, <2>1, <2>2, <2>3, <2>4 DEF HealthOK
<1>4. CASE ConnectStep
  <2>1. /\ health' = Connected(health) /\ delay' = 1
        /\ seen'.connects = seen.connects + 1 /\ seen'.fails = 0
        /\ ~Stopped /\ ~Linked /\ Linked'
    BY <1>4 DEF ConnectStep
  <2>2. health.state = "disconnected"
    BY <1>2, <2>1
  <2>3. /\ health' \in Healths /\ health'.state = "ok" /\ health'.since = TRUE
        /\ health'.reconnects = IF health.since THEN health.reconnects + 1 ELSE health.reconnects
    BY <1>2, <2>1, <2>2, ConnectedIs
  <2>4. health'.reconnects = LargerOf(seen'.connects - 1, 0)
    BY <1>1, <1>2, <2>1, <2>3 DEF LargerOf
  <2>5. delay' = SmallerOf(PowerOfTwo[seen'.fails], MaxDelay)
    BY <2>1, DelayDoubles
  <2>6. health'.since <=> seen'.connects > 0
    BY <1>1, <2>1, <2>3
  <2>7. ~Stopped' => (health'.state = "disconnected" <=> ~Linked')
    BY <2>1, <2>3
  <2>8. CountersHonest'
    BY <2>1, <2>4 DEF CountersHonest
  <2> QED
    BY <2>3, <2>5, <2>6, <2>7, <2>8 DEF HealthOK
<1>5. CASE FailStep
  <2>1. /\ health' \in {Disconnected(health), Disconnected(WithData(health))}
        /\ delay' = NextDelay(delay)
        /\ seen'.connects = seen.connects /\ seen'.fails = seen.fails + 1 /\ seen'.wait = delay
        /\ ~Linked'
    BY <1>5 DEF FailStep
  <2>2. /\ health' \in Healths /\ health'.state = "disconnected" /\ health'.since = health.since
        /\ health'.reconnects = health.reconnects
    <3>1. WithData(health) \in Healths /\ WithData(health).since = health.since
          /\ WithData(health).reconnects = health.reconnects
      BY <1>2, HealthUpdates
    <3> QED
      BY <1>2, <2>1, <3>1, HealthUpdates
  <2>3. delay' = SmallerOf(PowerOfTwo[seen'.fails], MaxDelay)
    BY <1>1, <1>2, <2>1, DelayDoubles
  <2>4. CountersHonest'
    <3>1. seen'.fails - 1 = seen.fails
      BY <1>1, <2>1
    <3> QED
      BY <1>2, <2>1, <2>2, <3>1 DEF CountersHonest
  <2> QED
    BY <1>2, <2>1, <2>2, <2>3, <2>4 DEF HealthOK
<1> QED
  BY <1>3, <1>4, <1>5 DEF HealthStep

-----------------------------------------------------------------------------
(* Every step of the adapter is a step of the health.                      *)
Control ==
  /\ family \in {"modbus", "serial"}
  /\ stage \in {"open", "read", "crashed", "done"}
  /\ family = "modbus" => stage = "open"
  /\ family = "serial" => place = "connect"

(* A sample, refused or not, changes none of the health's counters.        *)
SameCounters(s) ==
  /\ s \in Histories /\ s.connects = seen.connects /\ s.fails = seen.fails
  /\ s.wait = seen.wait

LEMMA SampleCounters ==
  ASSUME WindowsOK(acc, now, seen), NEW c \in Channels, NEW v \in Int
  PROVE  /\ SameCounters(SampledSeen(c, v)) /\ SameCounters(Refused(SampledSeen(c, v)))
         /\ Sampled(c, v).acc \in [Channels -> Windows \cup {NoBlock}]
<1> DEFINE A == Sampled(c, v).acc
           s == SampledSeen(c, v)
<1>1. /\ WindowsOK(A, now, s) /\ \A d \in Channels : seen.sent[d] <= s.sent[d]
      /\ s.connects = seen.connects /\ s.fails = seen.fails /\ s.wait = seen.wait
  BY SampleWindows DEF SampledSeen, Sampled
<1> HIDE DEF A, s
<1>2. seen \in Histories
  BY DEF WindowsOK
<1>3. /\ WindowsOK(A, now, Refused(s)) /\ Refused(s).connects = s.connects
      /\ Refused(s).fails = s.fails /\ Refused(s).wait = s.wait
  BY <1>1, <1>2, RefusedWindows
<1>4. SameCounters(s) /\ SameCounters(Refused(s)) /\ A \in [Channels -> Windows \cup {NoBlock}]
  BY <1>1, <1>3 DEF WindowsOK, SameCounters
<1> QED
  BY <1>4 DEF A, s

LEMMA EmitCounters ==
  ASSUME PollerType, WindowsOK(acc, now, seen), NEW v \in Int
  PROVE  SameCounters(EmitResult(v).seen) /\ SameCounters(Refused(EmitResult(v).seen))
<1>1. CASE Register.mode = "stats"
  <2>1. Register.channel \in Channels
    BY <1>1, RegisterType
  <2>2. EmitResult(v).seen = SampledSeen(Register.channel, v)
    BY <1>1 DEF EmitResult, SampleResult, SampledSeen, Sampled
  <2> QED
    BY <2>1, <2>2, SampleCounters
<1>2. CASE Register.mode # "stats"
  <2>1. EmitResult(v).seen = seen
    BY <1>2 DEF EmitResult, ValueResult
  <2>2. seen \in Histories
    BY DEF WindowsOK
  <2> QED
    BY <2>1, <2>2, RefusedNothing DEF SameCounters
<1> QED
  BY <1>1, <1>2

(* A failure after such a sample, or after none.                           *)
LEMMA FailsCounters ==
  ASSUME NEW h, NEW s, SameCounters(s), Fails(h, s)
  PROVE  /\ health' = Disconnected(h) /\ delay' = NextDelay(delay)
         /\ seen'.connects = seen.connects /\ seen'.fails = seen.fails + 1
         /\ seen'.wait = delay
BY DEF Fails, Histories, SameCounters

LEMMA PollerHealth ==
  ASSUME PollerType, Control, family = "modbus", WindowsOK(acc, now, seen), delay \in Nat,
         PollerNext, UNCHANGED <<serialVars, family>>
  PROVE  HealthStep /\ Control'
<1>e. seen \in Histories /\ SameCounters(seen)
  BY DEF WindowsOK, SameCounters
<1>a. /\ Linked <=> place \in {"request", "reply", "wait"}
      /\ Linked' <=> place' \in {"request", "reply", "wait"}
      /\ Stopped <=> place = "done"
      /\ Stopped' <=> place' = "done"
      /\ Control'
  BY DEF Control, Linked, Stopped, serialVars
<1>f. SUFFICES HealthStep
  BY <1>a
<1>b. ASSUME place' = place, seen' = seen, delay' = delay, health' = health
      PROVE  HealthStep
  BY <1>a, <1>b DEF HealthStep, KeepStep, PollerType
<1>c. ASSUME place' = "wait", place \in {"request", "reply"}, UNCHANGED <<delay, seen>>,
             health' = Degraded(health)
      PROVE  HealthStep
  BY <1>a, <1>c DEF HealthStep, KeepStep
<1>d. ASSUME NEW h \in {health, WithData(health)}, NEW s, SameCounters(s), Fails(h, s),
             place' \in {"connect", "crashed"}
      PROVE  HealthStep
  BY <1>a, <1>d, FailsCounters DEF HealthStep, FailStep
<1>1. CASE PollerConnect
  <2>1. seen' = OneConnection(seen)
    BY <1>1 DEF PollerConnect, Connects, OneConnection
  <2>2. seen'.connects = seen.connects + 1 /\ seen'.fails = 0
    BY <2>1, <1>e, ConnectionHistory
  <2> QED
    BY <1>1, <1>a, <2>2 DEF PollerConnect, Connects, HealthStep, ConnectStep
<1>2. CASE PollerConnectFails
  BY <1>2, <1>d, <1>e DEF PollerConnectFails
<1>3. CASE SendRequest
  <2>1. place = "request" /\ place' = "reply" /\ UNCHANGED <<health, delay, seen>>
    BY <1>3 DEF SendRequest
  <2> QED
    BY <1>a, <2>1 DEF HealthStep, KeepStep
<1>4. CASE BadAddress
  BY <1>4, <1>c DEF BadAddress, PollSpoilt
<1>5. CASE Arrive \/ PieceLost \/ PeerCloses
  BY <1>5, <1>b DEF Arrive, PieceLost, PeerCloses
<1>6. CASE BadReply
  BY <1>6, <1>c DEF BadReply, ReadWire, PollSpoilt
<1>7. CASE ShortReply
  BY <1>7, <1>d, <1>e DEF ShortReply, LinkDropped
<1>8. CASE GoodReply
  <2> DEFINE s == EmitResult(DecodedValue).seen
  <2>1. SameCounters(s) /\ SameCounters(Refused(s))
    <3>1. DecodedValue \in Int
      BY <1>8, DecodedType DEF GoodReply
    <3> QED
      BY <3>1, EmitCounters
  <2>2. \/ /\ health' = WithData(health) /\ seen' = s /\ delay' = delay
           /\ place' \in {"request", "wait"}
        \/ LinkDropped(WithData(health), s)
        \/ LinkDropped(WithData(health), Refused(s))
    BY <1>8 DEF GoodReply, DecodedValue, NextRegister
  <2>3. place = "reply"
    BY <1>8 DEF GoodReply, ReadWire
  <2> HIDE DEF s
  <2>4. CASE LinkDropped(WithData(health), s) \/ LinkDropped(WithData(health), Refused(s))
    BY <2>1, <2>4, <1>d DEF LinkDropped
  <2>5. CASE /\ health' = WithData(health) /\ seen' = s /\ delay' = delay
             /\ place' \in {"request", "wait"}
    BY <1>a, <2>1, <2>3, <2>5 DEF HealthStep, KeepStep, SameCounters
  <2> QED
    BY <2>2, <2>4, <2>5
<1>9. CASE SendFails \/ ReceiveFails
  BY <1>9, <1>d, <1>e DEF SendFails, ReceiveFails, LinkDropped
<1>10. CASE PollWait
  <2>1. place = "wait" /\ place' = "request" /\ UNCHANGED <<health, delay, seen>>
    BY <1>10 DEF PollWait
  <2> QED
    BY <1>a, <2>1 DEF HealthStep, KeepStep
<1>11. CASE PollerStop
  <2>1. CASE place' = "done" /\ FlushAll /\ UNCHANGED <<health, delay, faults>>
    <3>1. seen'.connects = seen.connects /\ seen'.fails = seen.fails /\ seen'.wait = seen.wait
      BY <2>1, FlushWindows
    <3> QED
      BY <1>a, <2>1, <3>1 DEF HealthStep, KeepStep
  <2>2. CASE place' = "crashed" /\ FlushRaises
    BY <1>a, <2>2, CutFlush DEF HealthStep, FailStep
  <2> QED
    BY <1>11, <2>1, <2>2 DEF PollerStop
<1>12. CASE PollerRestart
  <2>1. place = "crashed" /\ place' = "connect" /\ UNCHANGED <<health, delay, seen>>
    BY <1>12 DEF PollerRestart
  <2> QED
    BY <1>a, <2>1 DEF HealthStep, KeepStep
<1> QED
  BY <1>1, <1>2, <1>3, <1>4, <1>5, <1>6, <1>7, <1>8, <1>9, <1>10, <1>11, <1>12 DEF PollerNext

LEMMA SerialHealth ==
  ASSUME Control, family = "serial", WindowsOK(acc, now, seen), delay \in Nat,
         SerialNext, UNCHANGED <<pollerVars, family>>
  PROVE  HealthStep /\ Control'
<1>e. /\ seen \in Histories /\ SameCounters(seen) /\ Refused(seen) = seen
      /\ acc \in [Channels -> Windows \cup {NoBlock}]
      /\ NothingOpen \in [Channels -> Windows \cup {NoBlock}]
  BY RefusedNothing DEF WindowsOK, NothingOpen, SameCounters
<1>a. /\ Linked <=> stage = "read"
      /\ Linked' <=> stage' = "read"
      /\ Stopped <=> stage = "done"
      /\ Stopped' <=> stage' = "done"
      /\ stage' \in {"open", "read", "crashed", "done"} => Control'
  BY DEF Control, Linked, Stopped, pollerVars
<1>b. ASSUME NEW h \in {health, WithData(health)}, NEW s, SameCounters(s), Fails(h, s),
             stage' \in {"open", "crashed"}
      PROVE  HealthStep /\ Control'
  BY <1>a, <1>b, FailsCounters DEF HealthStep, FailStep
<1>c. ASSUME NEW r, Emits(r), SameCounters(r.seen), SameCounters(Refused(r.seen)),
             r.acc \in [Channels -> Windows \cup {NoBlock}], stage = "read"
      PROVE  HealthStep /\ Control'
  <2>1. CASE seen' = r.seen /\ health' = WithData(health) /\ UNCHANGED <<delay, stage>>
    BY <1>a, <1>c, <2>1 DEF HealthStep, KeepStep, SameCounters
  <2>2. ASSUME NEW q \in {r.seen, Refused(r.seen)}, EmitRaises(r, q)
        PROVE  HealthStep /\ Control'
    <3> DEFINE f == Plus(q.lost, OpenCount(r.acc))
               s == [q EXCEPT !.lost = f]
    <3>1. f \in Counts /\ q \in Histories
      BY <1>c, <2>2, CountsOf, PlusCounts DEF Histories, SameCounters
    <3>2. Fails(WithData(health), s) /\ stage' = "crashed"
      BY <2>2 DEF EmitRaises
    <3> HIDE DEF f
    <3>3. SameCounters(s)
      <4>1. /\ s \in Histories /\ s.connects = q.connects /\ s.fails = q.fails
            /\ s.wait = q.wait
        BY <3>1, LossHistory
      <4>2. SameCounters(q)
        BY <1>c, <2>2
      <4> HIDE DEF s
      <4> QED
        BY <4>1, <4>2 DEF SameCounters
    <3> HIDE DEF s
    <3> QED
      BY <1>b, <3>2, <3>3
  <2> QED
    BY <1>c, <2>1, <2>2 DEF Emits
<1>d. ASSUME NEW line, NEW part, Handle(line, part), stage = "read"
      PROVE  HealthStep /\ Control'
  <2>1. CASE Ignored(line, part)
    BY <1>a, <1>d, <2>1 DEF Ignored, HealthStep, KeepStep
  <2>2. CASE Unsupported(line, part)
    BY <1>a, <1>d, <2>2 DEF Unsupported, HealthStep, KeepStep
  <2>3. CASE Translated(line, part)
    <3> DEFINE p == FirstMatch(line, part)
    <3>1. CASE Emits(EventResult(p))
      <4>1. EventResult(p).acc = acc /\ EventResult(p).seen = seen
        BY DEF EventResult
      <4> QED
        BY <1>c, <1>d, <1>e, <3>1, <4>1
    <3>2. CASE p.schema = "telemetry" /\ \E v \in SampleValues : Emits(TelemetryResult(p, v))
      <4>1. PICK v \in SampleValues : Emits(TelemetryResult(p, v))
        BY <3>2
      <4> DEFINE c == p.name
                 r == TelemetryResult(p, v)
      <4>2. v \in Int /\ c \in Channels
        BY <2>3, <3>2, FirstMatchIs, SerialAssumption DEF Translated
      <4>3. r.acc = Sampled(c, v).acc /\ r.seen = SampledSeen(c, v)
        BY DEF TelemetryResult, Sampled, SampledSeen
      <4>4. Emits(r)
        BY <4>1
      <4> HIDE DEF c, r
      <4> QED
        BY <1>c, <1>d, <4>2, <4>3, <4>4, SampleCounters
    <3> QED
      BY <2>3, <3>1, <3>2 DEF Translated
  <2> QED
    BY <1>d, <2>1, <2>2, <2>3 DEF Handle
<1>1. CASE SerialOpen
  <2>1. seen' = OneConnection(seen)
    BY <1>1 DEF SerialOpen, Connects, OneConnection
  <2>2. seen'.connects = seen.connects + 1 /\ seen'.fails = 0
    BY <2>1, <1>e, ConnectionHistory
  <2> QED
    BY <1>1, <1>a, <2>2 DEF SerialOpen, Connects, HealthStep, ConnectStep
<1>2. CASE SerialFails
  BY <1>2, <1>b, <1>e DEF SerialFails
<1>3. CASE ReadLine
  BY <1>3, <1>d DEF ReadLine
<1>4. CASE ReadRest
  BY <1>4, <1>d DEF ReadRest
<1>5. CASE SerialRestart
  BY <1>5, <1>a DEF SerialRestart, HealthStep, KeepStep
<1>6. CASE SerialStop
  <2>1. CASE stage' = "done" /\ FlushAll /\ UNCHANGED <<health, delay, mishaps>>
    <3>1. seen'.connects = seen.connects /\ seen'.fails = seen.fails /\ seen'.wait = seen.wait
      BY <2>1, FlushWindows
    <3> QED
      BY <1>a, <2>1, <3>1 DEF HealthStep, KeepStep
  <2>2. CASE stage' = "crashed" /\ FlushRaises
    BY <1>a, <2>2, CutFlush DEF HealthStep, FailStep
  <2> QED
    BY <1>6, <2>1, <2>2 DEF SerialStop
<1> QED
  BY <1>1, <1>2, <1>3, <1>4, <1>5, <1>6 DEF SerialNext

-----------------------------------------------------------------------------
(* The inductive invariant.                                                *)
AdapterInv == Control /\ PollerType /\ WindowsOK(acc, now, seen) /\ HealthOK

LEMMA AdapterInit == Init => AdapterInv
<1> SUFFICES ASSUME Init PROVE AdapterInv
  OBVIOUS
<1>1. Control
  BY DEF Init, PollerInit, SerialInit, Control
<1>2. PollerType
  <2>1. Len(registers) \in Nat \ {0}
    BY MappingLength DEF Init, PollerInit
  <2>2. reg \in 1 .. Len(registers)
    BY <2>1 DEF Init, PollerInit
  <2>3. tid \in 0 .. TidModulus - 1 /\ faults \in 0 .. MaxFaults
    <3>1. TidModulus \in Nat \ {0} /\ MaxFaults \in Nat
      BY PollerAssumption, Zenon
    <3> QED
      BY <3>1 DEF Init, PollerInit
  <2>4. last \in Values /\ told \in Values
    BY DEF Init, PollerInit, Values
  <2>5. closed = FALSE /\ untold = {} /\ wire = <<>> /\ onway = <<>> /\ place = "connect"
        /\ framing \in {"tcp", "rtu"} /\ registers \in Mappings
    BY DEF Init, PollerInit
  <2>6. closed \in BOOLEAN
    BY <2>5, Zenon
  <2> QED
    BY <2>2, <2>3, <2>4, <2>5, <2>6 DEF PollerType
<1>3. WindowsOK(acc, now, seen) /\ seen.connects = 0 /\ seen.fails = 0
  <2> DEFINE zero == [c \in Channels |-> 0]
  <2>1. acc = NothingOpen /\ now = 0
        /\ seen = [connects |-> 0, fails |-> 0, wait |-> 0, fed |-> zero, sent |-> zero, lost |-> zero,
                   ends |-> zero]
    BY DEF Init, BaseInit
  <2>2. zero \in Counts /\ \A c \in Channels : zero[c] = 0
    BY DEF Counts
  <2> HIDE DEF zero
  <2>3. seen \in Histories /\ seen.connects = 0 /\ seen.fails = 0
        /\ seen.fed = zero /\ seen.sent = zero /\ seen.lost = zero /\ seen.ends = zero
    BY <2>1, <2>2 DEF Histories
  <2>4. /\ acc \in [Channels -> Windows \cup {NoBlock}]
        /\ \A c \in Channels : acc[c] = NoBlock /\ OpenCount(acc)[c] = 0
    BY <2>1 DEF NothingOpen, OpenCount
  <2>5. Accounted(acc, seen)
    BY <2>2, <2>3, <2>4, AccountedOf
  <2> QED
    BY <2>1, <2>2, <2>3, <2>4, <2>5 DEF WindowsOK
<1>4. HealthOK
  <2>1. /\ health = NewHealth /\ delay = 1
    BY DEF Init, BaseInit
  <2>2. ~Linked
    BY DEF Init, PollerInit, SerialInit, Linked
  <2>3. CountersHonest
    <3>1. health.reconnects = LargerOf(seen.connects - 1, 0)
      BY <1>3, <2>1 DEF NewHealth, LargerOf
    <3> QED
      BY <1>3, <3>1 DEF CountersHonest
  <2>4. health \in Healths /\ health.state = "disconnected" /\ health.since = FALSE
    BY <2>1 DEF NewHealth, Healths
  <2>5. delay = SmallerOf(PowerOfTwo[seen.fails], MaxDelay)
    BY <1>3, <2>1, DelayDoubles
  <2> QED
    BY <1>3, <2>2, <2>3, <2>4, <2>5 DEF HealthOK
<1> QED
  BY <1>1, <1>2, <1>3, <1>4 DEF AdapterInv

LEMMA AdapterStep ==
  ASSUME AdapterInv, Next
  PROVE  AdapterInv' /\ \A i \in DOMAIN emitted' : SaneBlock(emitted'[i])
<1>a. /\ Control /\ PollerType /\ WindowsOK(acc, now, seen) /\ HealthOK
      /\ now \in Nat /\ seen \in Histories /\ delay \in Nat
  BY DelayType DEF AdapterInv, WindowsOK
<1>1. WindowStep /\ HealthStep /\ Control' /\ PollerType'
  <2>1. CASE family = "modbus" /\ PollerNext /\ UNCHANGED <<serialVars, family>>
    BY <1>a, <2>1, PollerWindows, PollerHealth, PollerTypeStep
  <2>2. CASE family = "serial" /\ SerialNext /\ UNCHANGED <<pollerVars, family>>
    <3>1. PollerType'
      BY <1>a, <2>2 DEF PollerType, pollerVars
    <3> QED
      BY <1>a, <2>2, <3>1, SerialWindows, SerialHealth
  <2> QED
    BY <2>1, <2>2 DEF Next
<1> QED
  BY <1>a, <1>1, WindowStepOK, HealthStepOK DEF AdapterInv

LEMMA AdapterStutter ==
  ASSUME AdapterInv, UNCHANGED vars
  PROVE  AdapterInv'
<1>1. /\ UNCHANGED <<health, delay, acc, now, emitted, seen>> /\ UNCHANGED pollerVars
      /\ UNCHANGED serialVars /\ UNCHANGED family
  BY DEF vars, baseVars
<1>2. Control' /\ PollerType'
  BY <1>1 DEF AdapterInv, Control, PollerType, pollerVars, serialVars
<1>3. WindowsOK(acc', now', seen')
  BY <1>1 DEF AdapterInv
<1>4. HealthOK'
  BY <1>1 DEF AdapterInv, HealthOK, CountersHonest, Stopped, Linked, pollerVars, serialVars
<1> QED
  BY <1>2, <1>3, <1>4 DEF AdapterInv

THEOREM AdapterInvariant == Spec => []AdapterInv
BY AdapterInit, AdapterStep, AdapterStutter, PTL DEF Spec

(* Every sample of a channel that was read is in exactly one block that    *)
(* emit() took, in the open window, or lost with start() or with a block   *)
(* that emit() refused: for any profile and maps, any window and any       *)
(* failures of the link and of emit().                                     *)
THEOREM SamplesCountedHolds == Spec => []SamplesCounted
<1>1. AdapterInv => SamplesCounted
  BY DEF AdapterInv, WindowsOK, Accounted, SamplesCounted
<1> QED
  BY <1>1, AdapterInvariant, PTL

(* By the monotonic clock the windows of a channel do not overlap, and an  *)
(* average lies between the extremes of its window when those are whole    *)
(* numbers, below zero too.  Of the stamps in a block nothing is claimed.  *)
THEOREM BlocksSaneHolds == Spec => BlocksSane
<1>1. AdapterInv /\ [Next]_vars => [\A i \in DOMAIN emitted' : SaneBlock(emitted'[i])]_baseVars
  BY AdapterStep DEF vars
<1> QED
  BY <1>1, AdapterInvariant, PTL DEF Spec, BlocksSane

(* health() reports what the adapter knows: the transport it holds, the    *)
(* reconnects, and the waits between the attempts.                         *)
THEOREM HealthHonestHolds == Spec => []HealthHonest
<1>1. AdapterInv => HealthHonest
  BY DEF AdapterInv, HealthOK, HealthHonest, Healths
<1> QED
  BY <1>1, AdapterInvariant, PTL

(* Every register number of a table the code knows, and every word,        *)
(* converts as the definitions say; every other number is refused, among   *)
(* them the six-digit ones beyond 9999 that the docstring promises.        *)
THEOREM ConversionsAgreeHolds == Spec => []ConversionsAgree
<1>1. DecodesAgree
  <2>1. 2^15 = 32768 /\ 2^16 = 65536
    BY SMT
  <2>2. SampleWords \subseteq Word
    BY SampleAssumption, Zenon DEF Word
  <2>3. 0 \in HighWord
    <3> DEFINE m == 2^15 - 1
    <3>1. 0 <= m /\ m \in Int
      BY <2>1, SMT
    <3> HIDE DEF m
    <3>2. 0 \in 0 .. m
      BY <3>1, SMT
    <3> QED
      BY <3>2, Zenon DEF m, HighWord
  <2>4. ASSUME NEW high \in Word, high < 2^15 PROVE high \in HighWord
    <3> DEFINE m == 2^15
               n == 2^16
    <3>1. m \in Int /\ n \in Int
      BY <2>1, SMT
    <3>2. high \in 0 .. n - 1 /\ high < m
      BY <2>4, Zenon DEF Word
    <3> HIDE DEF m, n
    <3>3. high \in 0 .. m - 1
      BY <3>1, <3>2, SMT
    <3> QED
      BY <3>3, Zenon DEF m, HighWord
  <2>5. ASSUME NEW w \in SampleWords PROVE DecodesAlone(w)
    <3>1. w \in Word
      BY <2>2
    <3> QED
      BY <2>3, <3>1, WordsDecode
  <2>6. ASSUME NEW w \in SampleWords, NEW high \in SampleWords, high < 2^15
        PROVE  DecodesPair(high, w)
    <3>1. w \in Word /\ high \in Word
      BY <2>2
    <3>2. high \in HighWord
      BY <2>4, <2>6, <3>1
    <3> QED
      BY <3>1, <3>2, WordsDecode
  <2> QED
    BY <2>5, <2>6 DEF DecodesAgree
<1>0. AdapterInv => registers \in Mappings
  <2>1. PollerType => registers \in Mappings
    BY DEF PollerType
  <2> QED
    BY <2>1 DEF AdapterInv
<1>2. AdapterInv => AddressesAgree
  <2> SUFFICES ASSUME AdapterInv PROVE AddressesAgree
    OBVIOUS
  <2>1. registers \in Mappings
    BY <1>0
  <2>2. \A i \in DOMAIN registers : registers[i].address \in Nat
    BY <2>1, PollerAssumption, Zenon
  <2>3. SampleAddresses \subseteq Nat
    BY SampleAssumption, Zenon
  <2>4. \A a \in SampleAddresses \cup {registers[i].address : i \in DOMAIN registers} : a \in Nat
    BY <2>2, <2>3
  <2> QED
    BY <2>4, AddressCases, Zenon DEF AddressesAgree
<1>3. AdapterInv => ConversionsAgree
  BY <1>1, <1>2 DEF ConversionsAgree
<1> QED
  BY <1>3, AdapterInvariant, PTL

-----------------------------------------------------------------------------
(* The events.  Registers of one name must not tell two kinds of story: a  *)
(* counter's reset is no event, and would be missing from a state's.       *)
OneStoryEach ==
  \A m \in Mappings : \A i, j \in DOMAIN m :
    m[i].name = m[j].name => m[i].mode = m[j].mode

(* StoryUnbroken with what the first value does: a baseline is taken when  *)
(* a register is first read.                                               *)
StoryInv ==
  /\ \A n \in RegNames : last[n] = NoValue <=> told[n] = NoValue
  /\ StoryUnbroken

(* What _emit_value remembers of a value, and what it tells: an event, or  *)
(* nothing, which keeps the story of a name that has no refused event.     *)
LEMMA StoryOf ==
  ASSUME PollerType, StoryInv, NEW v \in Int, Register.mode # "stats"
  PROVE  LET n == Register.name
             r == ValueResult(v)
         IN  /\ r.last = [last EXCEPT ![n] = v]
             /\ r.told \in {told, [told EXCEPT ![n] = v]}
             /\ r.told[n] \in Int
             /\ r.emitted # <<>> => told[n] \in Int /\ r.told[n] = v
             /\ r.emitted # <<>> \/ n \notin untold =>
                  /\ Register.mode = "on_change" => r.told[n] = v
                  /\ Register.mode = "on_increment" =>
                       \/ r.told[n] = v
                       \/ r.told = told /\ last[n] \in Int /\ v <= last[n]
<1> DEFINE n == Register.name
           r == ValueResult(v)
           e == Event(last[n], v)
<1>1. n \in RegNames /\ last \in Values /\ told \in Values /\ NoValue \notin Int
  BY RegisterType, PollerAssumption DEF PollerType
<1>2. /\ last[n] \in Int \cup {NoValue} /\ told[n] \in Int \cup {NoValue}
      /\ last[n] = NoValue <=> told[n] = NoValue
  BY <1>1 DEF StoryInv, Values
<1>3. PICK i \in DOMAIN registers : Register = registers[i]
  BY MappingLength DEF Register, PollerType
<1>4. last[n] # NoValue /\ n \notin untold /\ Register.mode = "on_change" => last[n] = told[n]
  BY <1>3 DEF StoryInv, StoryUnbroken
<1>5. /\ r.last = [last EXCEPT ![n] = v] /\ r.emitted = e
      /\ r.told = IF e # <<>> \/ told[n] = NoValue THEN [told EXCEPT ![n] = v] ELSE told
  BY DEF ValueResult
<1>6. e = <<>> <=> last[n] = NoValue \/ v = last[n] \/ (Register.mode = "on_increment" /\ v < last[n])
  BY DEF Event
<1>7. [told EXCEPT ![n] = v][n] = v
  BY <1>1 DEF Values
<1> HIDE DEF r, e, n
<1>8. CASE e # <<>> \/ told[n] = NoValue
  <2>1. r.told = [told EXCEPT ![n] = v]
    BY <1>5, <1>8
  <2>2. e # <<>> => told[n] \in Int
    BY <1>2, <1>6
  <2> QED
    BY <1>5, <1>7, <2>1, <2>2 DEF r, n
<1>9. CASE ~(e # <<>> \/ told[n] = NoValue)
  <2>1. r.told = told /\ told[n] \in Int /\ last[n] \in Int
    BY <1>2, <1>5, <1>9
  <2>2. v = last[n] \/ (Register.mode = "on_increment" /\ v < last[n])
    BY <1>2, <1>6, <1>9
  <2>3. v <= last[n]
    BY <2>1, <2>2
  <2>4. Register.mode = "on_change" /\ n \notin untold => told[n] = v
    BY <1>1, <1>4, <2>1, <2>2
  <2> QED
    BY <1>5, <1>9, <2>1, <2>3, <2>4 DEF r, n
<1> QED
  BY <1>8, <1>9

(* One register's part of StoryUnbroken, before a step and after it.       *)
StoryOfOne(r, l, t, u) ==
  l[r.name] # NoValue /\ r.name \notin u =>
    /\ r.mode = "on_change" => l[r.name] = t[r.name]
    /\ r.mode = "on_increment" => l[r.name] <= t[r.name]

LEMMA StoryStep ==
  ASSUME OneStoryEach, PollerType, StoryInv, PollerNext
  PROVE  StoryInv'
<1>1. ASSUME last' = last, told' = told, untold' = untold, registers' = registers PROVE StoryInv'
  BY <1>1 DEF StoryInv, StoryUnbroken
<1>a. registers \in Mappings /\ \A i \in DOMAIN registers : registers[i].name \in RegNames
  BY PollerAssumption DEF PollerType
<1>b. \A i \in DOMAIN registers : StoryOfOne(registers[i], last, told, untold)
  BY DEF StoryInv, StoryUnbroken, StoryOfOne
<1>c. ASSUME registers' = registers,
             \A m \in RegNames : last'[m] = NoValue <=> told'[m] = NoValue,
             \A i \in DOMAIN registers : StoryOfOne(registers[i], last', told', untold')
      PROVE  StoryInv'
  BY <1>c DEF StoryInv, StoryUnbroken, StoryOfOne
<1>2. CASE ~GoodReply /\ ~PollerRestart
  <2>1. UNCHANGED <<last, told, untold, registers>>
    BY <1>2 DEF PollerNext, PollerConnect, LastAtConnect, PollerConnectFails, SendRequest,
       BadAddress, Arrive, PieceLost, PeerCloses, BadReply, ShortReply, SendFails, ReceiveFails,
       PollWait, PollerStop, ReadWire, NoBodies
  <2> QED
    BY <1>1, <2>1
<1>3. CASE PollerRestart
  <2>1. registers' = registers /\ \A m \in RegNames : last'[m] = NoValue /\ told'[m] = NoValue
    BY <1>3 DEF PollerRestart
  <2> QED
    BY <1>a, <1>c, <2>1 DEF StoryOfOne
<1>4. CASE GoodReply
  <2> DEFINE v == DecodedValue
             n == Register.name
             r == EmitResult(v)
  <2>1. v \in Int
    BY <1>4, DecodedType DEF GoodReply
  <2>2. registers' = registers /\ last' = r.last
    BY <1>4 DEF GoodReply, ReadWire, DecodedValue
  <2>3. \/ /\ told' = r.told
           /\ untold' = IF r.emitted = <<>> THEN untold ELSE untold \ {n}
        \/ r.emitted # <<>> /\ told' = told /\ untold' = untold \cup {n}
    BY <1>4 DEF GoodReply, DecodedValue, Taken
  <2>4. PICK j \in DOMAIN registers : Register = registers[j]
    BY MappingLength DEF Register, PollerType
  <2>5. \A i \in DOMAIN registers : registers[i].name = n => registers[i].mode = Register.mode
    BY <1>a, <2>4 DEF OneStoryEach
  <2>6. \A m : m # n => (m \in untold' <=> m \in untold)
    BY <2>3
  <2> HIDE DEF v
  <2>7. CASE Register.mode = "stats"
    <3>1. r.last = last /\ r.told = told
      BY <2>7 DEF EmitResult, SampleResult
    <3> HIDE DEF n, r
    <3>2. last' = last /\ told' = told
      BY <2>2, <2>3, <3>1
    <3>3. ASSUME NEW i \in DOMAIN registers
          PROVE  StoryOfOne(registers[i], last', told', untold')
      BY <1>b, <2>5, <2>6, <2>7, <3>2 DEF StoryOfOne
    <3>4. \A m \in RegNames : last'[m] = NoValue <=> told'[m] = NoValue
      BY <3>2 DEF StoryInv
    <3> QED
      BY <1>c, <2>2, <3>3, <3>4
  <2>8. CASE Register.mode # "stats"
    <3>1. /\ r.last = [last EXCEPT ![n] = v]
          /\ r.told \in {told, [told EXCEPT ![n] = v]}
          /\ r.told[n] \in Int
          /\ r.emitted # <<>> => told[n] \in Int /\ r.told[n] = v
          /\ r.emitted # <<>> \/ n \notin untold =>
               /\ Register.mode = "on_change" => r.told[n] = v
               /\ Register.mode = "on_increment" =>
                    \/ r.told[n] = v
                    \/ r.told = told /\ last[n] \in Int /\ v <= last[n]
      BY <2>1, <2>8, StoryOf DEF EmitResult
    <3>2. /\ n \in RegNames /\ last \in Values /\ told \in Values /\ NoValue \notin Int
      BY RegisterType, PollerAssumption DEF PollerType
    <3> HIDE DEF n, r
    <3>3. last'[n] = v /\ \A m \in RegNames : m # n => last'[m] = last[m] /\ told'[m] = told[m]
      BY <2>2, <2>3, <3>1, <3>2 DEF Values
    <3>4. told'[n] \in Int
      BY <2>3, <3>1
    <3>5. \A m \in RegNames : last'[m] = NoValue <=> told'[m] = NoValue
      BY <2>1, <3>2, <3>3, <3>4 DEF StoryInv
    <3>6. ASSUME NEW i \in DOMAIN registers
          PROVE  StoryOfOne(registers[i], last', told', untold')
      <4> DEFINE q == registers[i]
      <4>1. q.name \in RegNames /\ StoryOfOne(q, last, told, untold)
        BY <1>a, <1>b
      <4> HIDE DEF q
      <4>2. CASE q.name # n
        BY <2>6, <3>3, <4>1, <4>2 DEF StoryOfOne, q
      <4>3. CASE q.name = n /\ n \in untold'
        BY <4>3 DEF StoryOfOne, q
      <4>4. CASE q.name = n /\ n \notin untold'
        <5>1. told' = r.told /\ (r.emitted # <<>> \/ n \notin untold)
          BY <2>3, <4>4
        <5>2. q.mode = Register.mode
          BY <2>5, <4>4 DEF q
        <5>3. CASE q.mode = "on_change"
          BY <3>1, <3>3, <4>4, <5>1, <5>2, <5>3 DEF StoryOfOne, q
        <5>4. CASE q.mode = "on_increment"
          <6>1. told'[n] = v \/ (told' = told /\ last[n] \in Int /\ v <= last[n])
            BY <3>1, <5>1, <5>2, <5>4
          <6>2. CASE told'[n] = v
            BY <2>1, <3>3, <4>4, <5>4, <6>2 DEF StoryOfOne, q
          <6>3. CASE told'[n] # v /\ told' = told /\ last[n] \in Int /\ v <= last[n]
            <7>1. n \notin untold
              <8>1. r.emitted # <<>> => told'[n] = v
                BY <3>1, <5>1
              <8> QED
                BY <5>1, <6>3, <8>1
            <7>2. last[n] <= told[n]
              BY <3>2, <4>1, <4>4, <5>4, <6>3, <7>1 DEF StoryOfOne
            <7>3. v <= told'[n]
              BY <2>1, <3>4, <6>3, <7>2
            <7> QED
              BY <3>3, <4>4, <5>4, <7>3 DEF StoryOfOne, q
          <6> QED
            BY <6>1, <6>2, <6>3
        <5>5. CASE q.mode \notin {"on_change", "on_increment"}
          BY <5>5 DEF StoryOfOne, q
        <5> QED
          BY <5>3, <5>4, <5>5
      <4> QED
        BY <4>2, <4>3, <4>4
    <3> QED
      BY <1>c, <2>2, <3>5, <3>6
  <2> QED
    BY <2>7, <2>8
<1> QED
  BY <1>2, <1>3, <1>4

(* The events of a register tell its whole story through errors, lost      *)
(* links and reconnects, except a change that emit() refused, for maps     *)
(* whose registers of one name are of one mode.                            *)
THEOREM StoryUnbrokenHolds ==
  ASSUME OneStoryEach
  PROVE  Spec => []StoryUnbroken
<1>1. Init => StoryInv
  <2> SUFFICES ASSUME Init PROVE StoryInv
    OBVIOUS
  <2>1. \A n \in RegNames : last[n] = NoValue /\ told[n] = NoValue
    BY DEF Init, PollerInit
  <2>2. registers \in Mappings
    BY DEF Init, PollerInit
  <2>3. \A i \in DOMAIN registers : registers[i].name \in RegNames
    BY <2>2, PollerAssumption
  <2> QED
    BY <2>1, <2>3 DEF StoryInv, StoryUnbroken
<1>2. AdapterInv /\ StoryInv /\ [Next]_vars => StoryInv'
  <2> SUFFICES ASSUME AdapterInv, StoryInv, [Next]_vars PROVE StoryInv'
    OBVIOUS
  <2>1. CASE family = "modbus" /\ PollerNext
    BY <2>1, StoryStep DEF AdapterInv
  <2>2. CASE UNCHANGED pollerVars
    BY <2>2 DEF StoryInv, StoryUnbroken, pollerVars
  <2> QED
    BY <2>1, <2>2 DEF Next, vars
<1>3. StoryInv => StoryUnbroken
  BY DEF StoryInv
<1> QED
  BY <1>1, <1>2, <1>3, AdapterInvariant, PTL DEF Spec

-----------------------------------------------------------------------------
(* Attribution over TCP.  Every head of a reply that the link still holds  *)
(* has an age, the requests made since its own.  Each poll reads what has  *)
(* arrived, so that a head outlives a read only by being late, which is a  *)
(* fault, and ages by two at most until the next read: the request itself  *)
(* and one register number that does not resolve.  With fewer faults than  *)
(* half the transaction ids no head is old enough to look new.             *)
FewFaults == 2 * MaxFaults < TidModulus

AgeLimit ==
  IF place = "reply" THEN 2 * faults
  ELSE IF place = "request" /\ reg > 1 THEN 2 * faults - 2 ELSE 2 * faults - 1

AgedBy(q, k) ==
  /\ k <= AgeLimit /\ (q.tid + k) % TidModulus = tid
  /\ place = "reply" /\ k = 0 => q.name = Register.name /\ q.at = now

Carried == {wire[i] : i \in 1 .. Len(wire)} \cup {onway[i] : i \in 1 .. Len(onway)}

Ages == \A p \in Carried \cap Heads : \E k \in Nat : AgedBy(p.request, k)

TcpInv ==
  framing = "tcp" =>
    /\ place \in {"request", "wait"} => wire = <<>>
    /\ place = "reply" \/ reg > 1 \/ onway # <<>> => resolve_address(registers[1].address).ok
    /\ place \in {"request", "reply", "wait"} => Ages

(* Going round once.                                                       *)
LEMMA RoundOnce ==
  ASSUME NEW c \in Nat \ {0}, NEW x \in 0 .. 2 * c - 1
  PROVE  x % c = IF x < c THEN x ELSE x - c
OBVIOUS

LEMMA OneOlder ==
  ASSUME NEW c \in Nat \ {0}, NEW a \in 0 .. c - 1, NEW k \in Nat, k + 1 < c
  PROVE  (a + (k + 1)) % c = (((a + k) % c) + 1) % c
<1> DEFINE y == (a + k) % c
<1>1. a + k \in 0 .. 2 * c - 1 /\ a + (k + 1) \in 0 .. 2 * c - 1
  OBVIOUS
<1>2. y = IF a + k < c THEN a + k ELSE (a + k) - c
  BY <1>1, RoundOnce
<1>3. (a + (k + 1)) % c = IF a + (k + 1) < c THEN a + (k + 1) ELSE (a + (k + 1)) - c
  BY <1>1, RoundOnce
<1> HIDE DEF y
<1>4. y + 1 \in 0 .. 2 * c - 1
  BY <1>2
<1>5. (y + 1) % c = IF y + 1 < c THEN y + 1 ELSE (y + 1) - c
  BY <1>4, RoundOnce
<1>6. (a + (k + 1)) % c = (y + 1) % c
  BY <1>2, <1>3, <1>5
<1> QED
  BY <1>6 DEF y

LEMMA NoAge ==
  ASSUME NEW c \in Nat \ {0}, NEW a \in 0 .. c - 1
  PROVE  a \in Nat /\ (a + 0) % c = a
<1>1. a + 0 = a /\ a \in 0 .. 2 * c - 1 /\ a < c
  OBVIOUS
<1> QED
  BY <1>1, RoundOnce

LEMMA LimitGrows ==
  ASSUME NEW f \in Nat, NEW g \in Nat, NEW m \in Nat, f <= g, g <= m,
         NEW l \in {2 * f - 2, 2 * f - 1}
  PROVE  l + 1 <= 2 * g /\ 0 <= 2 * g /\ 2 * g <= 2 * m
OBVIOUS

LEMMA TwoAppended ==
  ASSUME NEW P, NEW s \in Seq(P), NEW a, NEW b
  PROVE  \A i \in 1 .. Len(s \o <<a, b>>) :
           (s \o <<a, b>>)[i] \in {s[j] : j \in 1 .. Len(s)} \cup {a, b}
<1> DEFINE S == P \cup {a, b}
           t == <<a, b>>
           u == s \o t
<1>1. s \in Seq(S) /\ t \in Seq(S)
  <2>1. s \in Seq(S)
    BY SeqMonotonic
  <2> QED
    BY <2>1
<1>2. Len(t) = 2 /\ t[1] = a /\ t[2] = b
  OBVIOUS
<1> HIDE DEF S, t
<1>3. /\ Len(u) = Len(s) + Len(t) /\ Len(s) \in Nat
      /\ \A i \in 1 .. Len(s) + Len(t) : u[i] = IF i <= Len(s) THEN s[i] ELSE t[i - Len(s)]
  BY <1>1, ConcatProperties, LenProperties
<1> HIDE DEF u
<1>4. ASSUME NEW i \in 1 .. Len(u)
      PROVE  u[i] \in {s[j] : j \in 1 .. Len(s)} \cup {a, b}
  <2>1. i \in 1 .. Len(s) + 2
    BY <1>2, <1>3
  <2>2. CASE i <= Len(s)
    BY <1>2, <1>3, <2>1, <2>2
  <2>3. CASE i = Len(s) + 1
    <3>1. i - Len(s) = 1 /\ ~(i <= Len(s))
      BY <1>3, <2>1, <2>3
    <3> QED
      BY <1>2, <1>3, <2>1, <3>1
  <2>4. CASE i = Len(s) + 2
    <3>1. i - Len(s) = 2 /\ ~(i <= Len(s))
      BY <1>3, <2>1, <2>4
    <3> QED
      BY <1>2, <1>3, <2>1, <3>1
  <2> QED
    BY <1>3, <2>1, <2>2, <2>3, <2>4
<1> QED
  BY <1>4 DEF u, t

LEMMA OwnAge ==
  ASSUME NEW c \in Nat \ {0}, NEW a \in 0 .. c - 1, NEW k \in Nat, k < c, (a + k) % c = a
  PROVE  k = 0
<1>1. a + k \in 0 .. 2 * c - 1
  OBVIOUS
<1>2. (a + k) % c = IF a + k < c THEN a + k ELSE (a + k) - c
  BY <1>1, RoundOnce
<1> QED
  BY <1>2

(* The head of a reply that is read has the current id, so it is of the    *)
(* current request.                                                        *)
LEMMA ReadIsOwn ==
  ASSUME FewFaults, PollerType, TcpInv, framing = "tcp", place = "reply", Parsed.ok
  PROVE  wire[1].request.name = Register.name /\ wire[1].request.at = now
<1>1. wire # <<>> /\ wire[1] \in Heads /\ wire[1].request.tid = tid
  BY ParsedIs
<1>2. wire[1] \in Carried
  <2>1. wire \in Seq(Pieces)
    BY DEF PollerType
  <2> QED
    BY <1>1, <2>1 DEF Carried
<1>3. PICK k \in Nat : AgedBy(wire[1].request, k)
  BY <1>1, <1>2 DEF TcpInv, Ages
<1>4. k <= 2 * faults /\ (tid + k) % TidModulus = tid
  BY <1>1, <1>3 DEF AgedBy, AgeLimit
<1>5. TidModulus \in Nat \ {0} /\ MaxFaults \in Nat
  BY PollerAssumption, Zenon
<1>6. faults \in Nat /\ faults <= MaxFaults /\ tid \in 0 .. TidModulus - 1
  BY <1>5 DEF PollerType
<1>7. k < TidModulus
  BY <1>4, <1>5, <1>6 DEF FewFaults
<1>8. k = 0
  BY <1>4, <1>5, <1>6, <1>7, OwnAge
<1> QED
  BY <1>3, <1>8 DEF AgedBy

-----------------------------------------------------------------------------
(* Ages over the steps of the poller.                                      *)
LEMMA KeptAges ==
  ASSUME Ages, Carried' \subseteq Carried, tid' = tid, AgeLimit <= AgeLimit',
         AgeLimit \in Int, AgeLimit' \in Int,
         place' = "reply" => /\ place = "reply"
                             /\ UNCHANGED <<registers, reg, now>>
  PROVE  Ages'
<1> SUFFICES ASSUME NEW p \in Carried' \cap Heads PROVE \E k \in Nat : AgedBy(p.request, k)'
  BY DEF Ages
<1>1. PICK k \in Nat : AgedBy(p.request, k)
  BY DEF Ages
<1>2. AgedBy(p.request, k)'
  BY <1>1 DEF AgedBy, Register
<1> QED
  BY <1>2

LEMMA OlderAges ==
  ASSUME Ages, PollerType, FewFaults, NEW C, Carried' \subseteq Carried \cup C,
         tid' = (tid + 1) % TidModulus, AgeLimit' \in Int, AgeLimit \in Int,
         AgeLimit + 1 <= AgeLimit', AgeLimit' <= 2 * MaxFaults,
         \A p \in C \cap Heads : AgedBy(p.request, 0)'
  PROVE  Ages'
<1> SUFFICES ASSUME NEW p \in Carried' \cap Heads PROVE \E k \in Nat : AgedBy(p.request, k)'
  BY DEF Ages
<1>1. CASE p \in C
  BY <1>1
<1>2. CASE p \in Carried
  <2>1. PICK k \in Nat : AgedBy(p.request, k)
    BY <1>2 DEF Ages
  <2> DEFINE a == p.request.tid
  <2>2. TidModulus \in Nat \ {0} /\ MaxFaults \in Nat
    BY PollerAssumption, Zenon
  <2>3. a \in 0 .. TidModulus - 1
    BY DEF Heads, Requests
  <2> HIDE DEF a
  <2>4. k + 1 <= AgeLimit' /\ k + 1 < TidModulus
    BY <2>1, <2>2 DEF AgedBy, FewFaults
  <2>5. (a + (k + 1)) % TidModulus = tid'
    <3>1. (a + k) % TidModulus = tid
      BY <2>1 DEF AgedBy, a
    <3> QED
      BY <2>2, <2>3, <2>4, <3>1, OneOlder
  <2>6. k + 1 \in Nat /\ k + 1 # 0
    OBVIOUS
  <2>7. AgedBy(p.request, k + 1)'
    BY <2>4, <2>5, <2>6 DEF AgedBy, a
  <2> QED
    BY <2>6, <2>7
<1> QED
  BY <1>1, <1>2

LEMMA LimitsAre ==
  ASSUME PollerType, PollerType'
  PROVE  /\ AgeLimit \in Int /\ AgeLimit' \in Int /\ faults \in Nat /\ faults' \in Nat
         /\ faults' <= MaxFaults /\ MaxFaults \in Nat
<1>1. MaxFaults \in Nat
  BY PollerAssumption, Zenon
<1>2. faults \in Nat /\ faults' \in Nat /\ faults' <= MaxFaults
  BY <1>1 DEF PollerType
<1> QED
  BY <1>1, <1>2 DEF AgeLimit

LEMMA TcpStep ==
  ASSUME FewFaults, PollerType, PollerType', TcpInv, PollerNext
  PROVE  TcpInv'
<1>a. framing' = framing /\ registers' = registers
  BY DEF PollerNext, PollerConnect, PollerConnectFails, SendRequest, BadAddress, Arrive,
     PieceLost, PeerCloses, BadReply, ShortReply, GoodReply, SendFails, ReceiveFails, PollWait,
     PollerStop, PollerRestart, ReadWire
<1>b. SUFFICES ASSUME framing = "tcp" PROVE TcpInv'
  BY <1>a DEF TcpInv
<1> DEFINE Good == resolve_address(registers[1].address).ok
<1>c. /\ place \in {"request", "wait"} => wire = <<>>
      /\ place = "reply" \/ reg > 1 \/ onway # <<>> => Good
      /\ place \in {"request", "reply", "wait"} => Ages
  BY <1>b DEF TcpInv
<1>d. SUFFICES /\ place' \in {"request", "wait"} => wire' = <<>>
               /\ place' = "reply" \/ reg' > 1 \/ onway' # <<>> => Good
               /\ place' \in {"request", "reply", "wait"} => Ages'
  BY <1>a DEF TcpInv
<1>e. /\ AgeLimit \in Int /\ AgeLimit' \in Int /\ faults \in Nat /\ faults' \in Nat
      /\ faults' <= MaxFaults /\ MaxFaults \in Nat
  BY LimitsAre
<1>f. /\ wire \in Seq(Pieces) /\ onway \in Seq(Pieces) /\ reg \in Nat \ {0}
      /\ place \in {"connect", "request", "reply", "wait", "crashed", "done"}
  <2>1. reg \in 1 .. Len(registers) /\ Len(registers) \in Nat
    BY MappingLength DEF PollerType
  <2> QED
    BY <2>1 DEF PollerType
<1> HIDE DEF Good
<1>g. ASSUME Carried' = {} PROVE Ages'
  BY <1>g DEF Ages
<1>1. CASE PollerConnect
  <2>1. wire' = <<>> /\ onway' = <<>> /\ reg' = 1 /\ place' = "request"
    BY <1>1 DEF PollerConnect
  <2>2. Carried' = {}
    BY <2>1 DEF Carried
  <2> QED
    BY <2>1, <2>2, <1>g
<1>2. CASE PollerConnectFails
  <2>1. place' = "connect" /\ reg' = reg /\ onway' = onway
    BY <1>2 DEF PollerConnectFails
  <2> QED
    BY <2>1, <1>c
<1>3. CASE SendRequest
  <2>1. /\ place = "request" /\ Resolved.ok /\ place' = "reply" /\ tid' = (tid + 1) % TidModulus
        /\ wire' = wire /\ reg' = reg /\ now' = now
    BY <1>3, <1>b DEF SendRequest, NextTid
  <2>2. PICK regs : \/ onway' = onway \o Reply(Request(tid'), regs)
                    \/ onway' = onway
    BY <1>3 DEF SendRequest
  <2>h. PICK head : head = [part |-> "head", request |-> Request(tid'), regs |-> regs]
    OBVIOUS
  <2> DEFINE tail == [part |-> "tail"]
  <2>3. faults <= faults'
    BY <1>3, <1>e DEF SendRequest, Fault
  <2>4. Good
    BY <1>c, <1>f, <2>1 DEF Good, Resolved, Register
  <2>5. Carried' \subseteq Carried \cup {head, tail}
    <3>1. onway' = onway \o <<head, tail>> \/ onway' = onway
      BY <2>2, <2>h DEF Reply
    <3> HIDE DEF tail
    <3>4. \A i \in 1 .. Len(onway') : onway'[i] \in {onway[j] : j \in 1 .. Len(onway)} \cup {head, tail}
      BY <1>f, <3>1, TwoAppended
    <3> QED
      BY <2>1, <3>4 DEF Carried
  <2>6. AgeLimit + 1 <= AgeLimit' /\ AgeLimit' <= 2 * MaxFaults /\ 0 <= AgeLimit'
    <3>1. AgeLimit' = 2 * faults'
      BY <2>1 DEF AgeLimit
    <3>2. AgeLimit \in {2 * faults - 2, 2 * faults - 1}
      BY <2>1 DEF AgeLimit
    <3>3. AgeLimit + 1 <= 2 * faults' /\ 0 <= 2 * faults' /\ 2 * faults' <= 2 * MaxFaults
      BY <1>e, <2>3, <3>2, LimitGrows
    <3> QED
      BY <3>1, <3>3
  <2>7. AgedBy(head.request, 0)'
    <3>h. PICK q : q = Request(tid')
      OBVIOUS
    <3>1. q.tid = tid' /\ q.name = Register.name /\ q.at = now
      BY <3>h DEF Request
    <3>2. Register' = Register /\ now' = now
      BY <1>a, <2>1 DEF Register
    <3>3. tid' \in Nat /\ (tid' + 0) % TidModulus = tid'
      <4>1. TidModulus \in Nat \ {0} /\ tid' \in 0 .. TidModulus - 1
        <5>1. TidModulus \in Nat \ {0}
          BY PollerAssumption, Zenon
        <5> QED
          BY <5>1 DEF PollerType
      <4> QED
        BY <4>1, NoAge
    <3>4. head.request = q
      BY <2>h, <3>h
    <3>5. 0 <= AgeLimit'
      BY <2>6
    <3>6. AgedBy(q, 0)'
      BY <3>1, <3>2, <3>3, <3>5 DEF AgedBy
    <3> QED
      BY <3>4, <3>6
  <2>8. tail \notin Heads
    BY DEF Heads
  <2> DEFINE C == {head, tail}
  <2>9. \A p \in C \cap Heads : AgedBy(p.request, 0)'
    BY <2>7, <2>8
  <2> HIDE DEF C
  <2>10. Ages
    BY <1>c, <2>1
  <2>11. Ages'
    BY <1>e, <2>1, <2>5, <2>6, <2>9, <2>10, OlderAges DEF C
  <2> QED
    BY <2>1, <2>4, <2>11
<1>4. CASE BadAddress
  <2>1. /\ place = "request" /\ ~Resolved.ok /\ place' = "wait" /\ tid' = (tid + 1) % TidModulus
        /\ wire' = wire /\ onway' = onway /\ reg' = reg /\ faults' = faults
    BY <1>4 DEF BadAddress, PollSpoilt, NextTid
  <2>2. wire = <<>>
    BY <1>c, <2>1
  <2>3. CASE reg = 1
    <3>1. ~Good
      BY <2>1, <2>3 DEF Good, Resolved, Register
    <3>2. onway = <<>>
      BY <1>c, <3>1
    <3>3. Carried' = {}
      BY <2>1, <2>2, <3>2 DEF Carried
    <3> QED
      BY <1>g, <2>1, <2>2, <2>3, <3>2, <3>3
  <2>4. CASE reg # 1
    <3>1. reg > 1
      BY <1>f, <2>4
    <3>2. AgeLimit + 1 <= AgeLimit' /\ AgeLimit' <= 2 * MaxFaults
      BY <1>e, <2>1, <3>1 DEF AgeLimit
    <3>3. Carried' \subseteq Carried \cup {} /\ \A p \in {} \cap Heads : AgedBy(p.request, 0)'
      BY <2>1 DEF Carried
    <3>4. Ages
      BY <1>c, <2>1
    <3>5. Ages'
      BY <1>e, <2>1, <3>2, <3>3, <3>4, OlderAges
    <3> QED
      BY <1>c, <2>1, <2>2, <3>1, <3>5
  <2> QED
    BY <2>3, <2>4
<1>5. CASE Arrive
  <2>1. /\ place = "reply" /\ place' = "reply" /\ onway # <<>>
        /\ wire' = Append(wire, Head(onway)) /\ onway' = Tail(onway)
        /\ UNCHANGED <<reg, tid, faults, now>>
    BY <1>5 DEF Arrive
  <2>2. Carried' \subseteq Carried
    <3>1. \A i \in 1 .. Len(wire') : wire'[i] \in Carried
      BY <1>f, <2>1 DEF Carried
    <3>2. \A i \in 1 .. Len(onway') : onway'[i] \in Carried
      BY <1>f, <2>1 DEF Carried
    <3> QED
      BY <3>1, <3>2 DEF Carried
  <2>3. AgeLimit <= AgeLimit'
    BY <1>e, <2>1 DEF AgeLimit
  <2>4. Ages'
    BY <1>a, <1>c, <1>e, <2>1, <2>2, <2>3, KeptAges
  <2> QED
    BY <1>c, <2>1, <2>4
<1>6. CASE PieceLost
  BY <1>6, <1>b DEF PieceLost
<1>13. CASE PeerCloses
  <2>1. /\ faults' = faults + 1
        /\ UNCHANGED <<place, reg, tid, onway, wire, now>>
    BY <1>13 DEF PeerCloses, Fault
  <2>2. Carried' \subseteq Carried
    BY <2>1 DEF Carried
  <2>3. AgeLimit <= AgeLimit'
    BY <1>e, <2>1 DEF AgeLimit
  <2>4. place \in {"request", "reply", "wait"} => Ages'
    BY <1>a, <1>c, <1>e, <2>1, <2>2, <2>3, KeptAges
  <2> QED
    BY <1>c, <2>1, <2>4
<1>h. ASSUME ReadWire, InTime \/ Late, UNCHANGED reg \/ NextRegister,
             place' \in {"wait", "request", "connect"},
             place' # "request" \/ NextRegister
      PROVE  /\ place' \in {"request", "wait"} => wire' = <<>>
             /\ place' = "reply" \/ reg' > 1 \/ onway' # <<>> => Good
             /\ place' \in {"request", "reply", "wait"} => Ages'
  <2>1. place = "reply" /\ wire' = <<>> /\ onway' = onway /\ tid' = tid
    BY <1>h DEF ReadWire
  <2>2. Good
    BY <1>c, <2>1
  <2>3. CASE onway = <<>>
    <3>1. Carried' = {}
      BY <2>1, <2>3 DEF Carried
    <3> QED
      BY <1>g, <1>h, <2>1, <2>2, <3>1
  <2>4. CASE onway # <<>>
    <3>1. faults' = faults + 1
      BY <1>h, <2>4 DEF InTime, Late, Fault
    <3>2. place' = "request" => reg' > 1
      BY <1>h, <1>f DEF NextRegister
    <3>3. place' \in {"request", "wait"} => AgeLimit <= AgeLimit'
      BY <1>e, <2>1, <3>1, <3>2 DEF AgeLimit
    <3>4. Carried' \subseteq Carried
      BY <2>1 DEF Carried
    <3>5. place' \in {"request", "wait"} => Ages'
      BY <1>c, <1>e, <2>1, <3>3, <3>4, KeptAges
    <3> QED
      BY <1>h, <2>1, <2>2, <3>5
  <2> QED
    BY <2>3, <2>4
<1>i. ASSUME place = "reply" \/ UNCHANGED <<reg, onway>>, place' = "connect"
      PROVE  /\ place' \in {"request", "wait"} => wire' = <<>>
             /\ place' = "reply" \/ reg' > 1 \/ onway' # <<>> => Good
             /\ place' \in {"request", "reply", "wait"} => Ages'
  BY <1>c, <1>i
<1>7. CASE BadReply
  BY <1>7, <1>h DEF BadReply, PollSpoilt
<1>8. CASE ShortReply
  BY <1>8, <1>i DEF ShortReply, LinkDropped, ReadWire
<1>9. CASE GoodReply
  <2>1. ReadWire /\ place = "reply"
    BY <1>9 DEF GoodReply, ReadWire
  <2>2. \/ (InTime \/ Late) /\ NextRegister
        \/ place' = "connect"
    BY <1>9 DEF GoodReply, LinkDropped
  <2>3. CASE (InTime \/ Late) /\ NextRegister
    BY <1>h, <2>1, <2>3 DEF NextRegister
  <2> QED
    BY <1>i, <2>1, <2>2, <2>3
<1>10. CASE SendFails \/ ReceiveFails
  BY <1>10, <1>i DEF SendFails, ReceiveFails, LinkDropped
<1>11. CASE PollWait
  <2>1. /\ place = "wait" /\ place' = "request" /\ reg' = 1
        /\ UNCHANGED <<tid, onway, wire, faults>>
    BY <1>11 DEF PollWait
  <2>2. Carried' \subseteq Carried
    BY <2>1 DEF Carried
  <2>3. AgeLimit <= AgeLimit'
    BY <1>e, <2>1 DEF AgeLimit
  <2>4. Ages'
    BY <1>c, <1>e, <2>1, <2>2, <2>3, KeptAges
  <2> QED
    BY <1>c, <2>1, <2>4
<1>12. CASE PollerStop
  <2>1. place' \in {"crashed", "done"} /\ UNCHANGED <<reg, onway>>
    BY <1>12 DEF PollerStop
  <2> QED
    BY <1>c, <2>1
<1>14. CASE PollerRestart
  <2>1. place' = "connect" /\ reg' = reg /\ onway' = <<>>
    BY <1>14 DEF PollerRestart
  <2> QED
    BY <1>c, <2>1
<1> QED
  BY <1>1, <1>2, <1>3, <1>4, <1>5, <1>6, <1>7, <1>8, <1>9, <1>10, <1>11, <1>12, <1>13,
     <1>14 DEF PollerNext

(* A value is reported with the function code of the request it answers    *)
(* and, over TCP, for the register and the poll that asked for it, however *)
(* replies are split, late or left in the buffer.                          *)
THEOREM AttributionHolds ==
  ASSUME FewFaults
  PROVE  Spec => Attribution
<1>1. AdapterInv /\ Init => TcpInv
  <2> SUFFICES ASSUME Init PROVE TcpInv
    OBVIOUS
  <2> QED
    BY DEF Init, PollerInit, TcpInv
<1>2. AdapterInv /\ AdapterInv' /\ TcpInv /\ [Next]_vars => TcpInv'
  <2> SUFFICES ASSUME AdapterInv, AdapterInv', TcpInv, [Next]_vars PROVE TcpInv'
    OBVIOUS
  <2>1. CASE family = "modbus" /\ PollerNext
    BY <2>1, TcpStep DEF AdapterInv
  <2>2. CASE family = "serial" /\ UNCHANGED pollerVars
    <3>1. place = "connect"
      BY <2>2 DEF AdapterInv, Control
    <3> QED
      BY <2>2, <3>1 DEF TcpInv, pollerVars
  <2>3. CASE UNCHANGED vars
    BY <2>3 DEF TcpInv, Ages, Carried, AgedBy, AgeLimit, Register, vars, pollerVars, baseVars
  <2> QED
    BY <2>1, <2>2, <2>3 DEF Next
<1>3. AdapterInv /\ TcpInv /\ [Next]_vars =>
        [place = "reply" /\ reading' # reading =>
           /\ reading'.func = Resolved.func
           /\ framing = "tcp" =>
                reading'.name = Register.name /\ reading'.at = now]_<<baseVars, pollerVars>>
  <2> SUFFICES ASSUME AdapterInv, TcpInv, [Next]_vars, place = "reply", reading' # reading
               PROVE  /\ reading'.func = Resolved.func
                      /\ framing = "tcp" => reading'.name = Register.name /\ reading'.at = now
    OBVIOUS
  <2>1. GoodReply
    BY DEF Next, vars, pollerVars, PollerNext, PollerConnect, PollerConnectFails, SendRequest,
       BadAddress, Arrive, PieceLost, PeerCloses, BadReply, ShortReply, SendFails, ReceiveFails,
       PollWait, PollerStop, PollerRestart, NoBodies
  <2>2. /\ Parsed.ok
        /\ reading' = [name |-> wire[1].request.name, at |-> wire[1].request.at,
                       func |-> wire[1].request.func]
    BY <2>1 DEF GoodReply
  <2>3. wire[1].request.func = Resolved.func
    BY <2>2, ParsedIs DEF AdapterInv
  <2>4. framing = "tcp" => wire[1].request.name = Register.name /\ wire[1].request.at = now
    BY <2>2, ReadIsOwn DEF AdapterInv
  <2> QED
    BY <2>2, <2>3, <2>4
<1> QED
  BY <1>1, <1>2, <1>3, AdapterInvariant, PTL DEF Spec, Attribution
=============================================================================
