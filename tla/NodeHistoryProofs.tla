------------------------- MODULE NodeHistoryProofs --------------------------
(***************************************************************************)
(* Theorems about NodeHistory, for any capacity, gap, window, number of    *)
(* nodes and of heartbeats at once.                                        *)
(*                                                                         *)
(* The argument: Add appends to the sequence the ring stands for, and      *)
(* drops its oldest point once it is full; the points are in order, a gap  *)
(* apart, so Prune leaves a part at its end, and a point that is           *)
(* overwritten is Capacity gaps older than the one that takes its place.   *)
(***************************************************************************)
EXTENDS NodeHistory, SequenceTheorems, WellFoundedInduction, TLAPS

Rings == [points : [Slots -> Times], next : Slots, count : 0..Capacity]
Runtimes == [present : BOOLEAN, ring : Rings, lastHistory : Times \cup {Never}]

\* Where the i-th oldest point is.
Pos(r, i) == (Start(r) + i - 1) % Capacity

\* The points of a ring, a gap apart.
Spaced(r) ==
    \A i, j \in 1..r.count : i <= j => All(r)[j] >= All(r)[i] + (j - i) * Gap

RuntimeInv ==
    \A n \in Nodes :
        /\ ~rt[n].present => rt[n] = NoRuntime
        /\ Spaced(rt[n].ring)
        /\ rt[n].lastHistory <= now
        /\ \A i \in 1..rt[n].ring.count : All(rt[n].ring)[i] <= rt[n].lastHistory

\* Whoever has read the clock has read a time that is past.
ClockInv ==
    /\ \A h \in Handlers : clock[h] <= now /\ (phase[h] # "idle" => node[h] \in Nodes)
    /\ ticked <= now

\* The young points are in the ring; of a node that is still to be made there
\* is neither a point nor a heartbeat.
YoungInv ==
    \A n \in Nodes :
        /\ \A t \in recorded[n] :
               t > now - Window => \E i \in 1..rt[n].ring.count : All(rt[n].ring)[i] = t
        /\ status[n] = "new" => /\ recorded[n] = {} /\ rt[n] = NoRuntime
                               /\ \A h \in Handlers : node[h] # n

\* Every point of a ring is one that was recorded: none is left over from
\* before a restart, or from a slot that was given up.
RecordedInv ==
    \A n \in Nodes :
        \A i \in 1..rt[n].ring.count : All(rt[n].ring)[i] \in recorded[n]

IInv == TypeOK /\ RuntimeInv /\ ClockInv /\ YoungInv /\ RecordedInv
-----------------------------------------------------------------------------
(* Numbers. *)

LEMMA Constants ==
    /\ Capacity \in Nat \ {0} /\ Gap \in Nat \ {0} /\ Window \in Nat
    /\ Window <= Capacity * Gap /\ Capacity * Gap \in Nat
    /\ MaxTime \in Nat /\ MaxRestarts \in Nat /\ NoNode \notin Nodes
  BY HistoryConstants

\* A set of numbers has a least one.
LEMMA Least ==
    ASSUME NEW T, T \subseteq Nat, T # {}
    PROVE  \E x \in T : \A y \in T : x <= y
<1> DEFINE R == OpToRel(<, Nat)
<1>1. IsWellFoundedOn(R, Nat)
  BY NatLessThanWellFounded
<1>2. \A x, y \in Nat : x < y => <<x, y>> \in R
  BY DEF OpToRel
<1> HIDE DEF R
<1>3. PICK x \in T : \A y \in T : ~ (<<y, x>> \in R)
  BY <1>1, WFMin
<1>4. ASSUME NEW y \in T PROVE x <= y
  <2>1. x \in Nat /\ y \in Nat /\ ~(y < x)
    BY <1>2, <1>3
  <2> QED
    BY <2>1
<1> QED
  BY <1>4

\* What holds at 0, and at a number if it does at the one before, holds up to N.
LEMMA UpTo ==
    ASSUME NEW N \in Nat, NEW P, 0 \in P,
           \A i \in 1..N : i - 1 \in P => i \in P
    PROVE  \A i \in 0..N : i \in P
<1> DEFINE T == {i \in 0..N : i \notin P}
<1> SUFFICES ASSUME T # {} PROVE FALSE
  OBVIOUS
<1>1. T \subseteq Nat
  OBVIOUS
<1>2. PICK x \in T : \A y \in T : x <= y
  <2> HIDE DEF T
  <2> QED
    BY <1>1, Least
<1>3. x \in 1..N /\ x - 1 \in 0..N
  OBVIOUS
<1>4. x - 1 \in P
  BY <1>2, <1>3
<1> QED
  BY <1>3, <1>4

\* An index that has left the ring comes in again.
LEMMA Wrap ==
    ASSUME NEW x \in Nat, x < 2 * Capacity
    PROVE  x % Capacity = IF x < Capacity THEN x ELSE x - Capacity
<1>1. Capacity \in Nat \ {0}
  BY Constants
<1> QED
  BY <1>1
-----------------------------------------------------------------------------
(* The ring. *)

LEMMA RingParts ==
    ASSUME NEW r \in Rings
    PROVE  /\ r.next \in Nat /\ r.next < Capacity
           /\ r.count \in Nat /\ r.count <= Capacity
           /\ r.points \in [Slots -> Times]
           /\ r = [points |-> r.points, next |-> r.next, count |-> r.count]
           /\ Start(r) \in Nat /\ Start(r) < Capacity
           /\ Start(r) = IF r.next < r.count THEN r.next - r.count + Capacity ELSE r.next - r.count
<1>1. /\ r.next \in 0..(Capacity - 1) /\ r.count \in 0..Capacity /\ Capacity \in Nat \ {0}
      /\ r.points \in [Slots -> Times]
      /\ r = [points |-> r.points, next |-> r.next, count |-> r.count]
  BY Constants DEF Rings, Slots
<1> QED
  BY <1>1 DEF Start

LEMMA Position ==
    ASSUME NEW r \in Rings, NEW i \in 1..r.count
    PROVE  /\ Pos(r, i) = IF Start(r) + i - 1 < Capacity THEN Start(r) + i - 1
                          ELSE Start(r) + i - 1 - Capacity
           /\ Pos(r, i) \in Slots
           /\ All(r)[i] = r.points[Pos(r, i)]
<1> DEFINE x == Start(r) + i - 1
<1>1. x \in Nat /\ x < 2 * Capacity /\ Capacity \in Nat \ {0}
  BY RingParts, Constants
<1>2. Pos(r, i) = IF x < Capacity THEN x ELSE x - Capacity
  <2>1. Pos(r, i) = x % Capacity
    BY DEF Pos
  <2> HIDE DEF x
  <2> QED
    BY <2>1, <1>1, Wrap
<1>3. Pos(r, i) \in Slots
  <2> HIDE DEF x
  <2> QED
    BY <1>1, <1>2 DEF Slots
<1>4. All(r)[i] = r.points[Pos(r, i)]
  BY DEF All, Pos
<1>5. Pos(r, i) = IF Start(r) + i - 1 < Capacity THEN Start(r) + i - 1
                  ELSE Start(r) + i - 1 - Capacity
  <2>1. (x < Capacity => Pos(r, i) = x) /\ (~(x < Capacity) => Pos(r, i) = x - Capacity)
    <3> HIDE DEF x
    <3> QED
      BY <1>2
  <2>2. Start(r) \in Nat /\ i \in Int /\ Capacity \in Nat
    BY RingParts, Constants
  <2> QED
    BY <2>1, <2>2
<1> HIDE DEF x
<1> QED
  BY <1>3, <1>4, <1>5

LEMMA AllType ==
    ASSUME NEW r \in Rings
    PROVE  /\ All(r) \in Seq(Times) /\ Len(All(r)) = r.count /\ DOMAIN All(r) = 1..r.count
           /\ \A i \in 1..r.count : All(r)[i] \in Times /\ All(r)[i] \in Int
<1>1. \A i \in 1..r.count : r.points[Pos(r, i)] \in Times
  BY RingParts, Position
<1>2. All(r) = [i \in 1..r.count |-> r.points[Pos(r, i)]]
  BY DEF All, Pos
<1>3. r.count \in Nat
  BY RingParts
<1>4. All(r) \in Seq(Times) /\ Len(All(r)) = r.count /\ DOMAIN All(r) = 1..r.count
  BY <1>1, <1>2, <1>3
<1>5. Times \subseteq Int
  BY DEF Times
<1> QED
  BY <1>1, <1>2, <1>4, <1>5

LEMMA AddParts ==
    ASSUME NEW r \in Rings, NEW t \in Times
    PROVE  /\ Add(r, t) \in Rings
           /\ Add(r, t).points = [r.points EXCEPT ![r.next] = t]
           /\ Add(r, t).next = IF r.next + 1 = Capacity THEN 0 ELSE r.next + 1
           /\ Add(r, t).count = IF r.count < Capacity THEN r.count + 1 ELSE r.count
<1>1. /\ r.next \in Nat /\ r.next < Capacity /\ r.count \in Nat /\ r.count <= Capacity
      /\ r.points \in [Slots -> Times] /\ Capacity \in Nat \ {0}
  BY RingParts, Constants
<1>2. (r.next + 1) % Capacity = IF r.next + 1 = Capacity THEN 0 ELSE r.next + 1
  <2>1. r.next + 1 \in Nat /\ r.next + 1 <= Capacity /\ r.next + 1 < 2 * Capacity
    BY <1>1
  <2>2. (r.next + 1) % Capacity
          = IF r.next + 1 < Capacity THEN r.next + 1 ELSE r.next + 1 - Capacity
    <3> DEFINE x == r.next + 1
    <3> HIDE DEF x
    <3>1. x % Capacity = IF x < Capacity THEN x ELSE x - Capacity
      BY <2>1, Wrap DEF x
    <3> QED
      BY <3>1, <2>1, <1>1 DEF x
  <2> QED
    BY <1>1, <2>1, <2>2
<1>3. /\ Add(r, t).points = [r.points EXCEPT ![r.next] = t]
      /\ Add(r, t).next = (r.next + 1) % Capacity
      /\ Add(r, t).count = IF r.count < Capacity THEN r.count + 1 ELSE r.count
      /\ Add(r, t) = [points |-> Add(r, t).points, next |-> Add(r, t).next, count |-> Add(r, t).count]
  BY DEF Add
<1>4. /\ Add(r, t).points \in [Slots -> Times]
      /\ Add(r, t).next \in Slots /\ Add(r, t).count \in 0..Capacity
  BY <1>1, <1>2, <1>3 DEF Slots
<1>5. Add(r, t) \in Rings
  BY <1>3, <1>4 DEF Rings
<1> QED
  BY <1>2, <1>3, <1>5

\* Into a ring that is not full: the point comes after the others.
LEMMA AddRoom ==
    ASSUME NEW r \in Rings, NEW t \in Times, r.count < Capacity
    PROVE  /\ Add(r, t).count = r.count + 1
           /\ \A i \in 1..r.count : All(Add(r, t))[i] = All(r)[i]
           /\ All(Add(r, t))[r.count + 1] = t
<1> DEFINE a == Add(r, t)
<1>1. /\ a \in Rings /\ a.points = [r.points EXCEPT ![r.next] = t]
      /\ a.next = IF r.next + 1 = Capacity THEN 0 ELSE r.next + 1
      /\ a.count = r.count + 1
  BY AddParts
<1> HIDE DEF a
<1>2. /\ r.next \in Nat /\ r.next < Capacity /\ r.count \in Nat /\ Capacity \in Nat \ {0}
      /\ r.points \in [Slots -> Times] /\ r.next \in Slots
  BY RingParts, Constants DEF Slots
<1>3. Start(a) = Start(r) /\ Start(r) \in Nat /\ Start(r) < Capacity
      /\ Start(r) = IF r.next < r.count THEN r.next - r.count + Capacity ELSE r.next - r.count
  <2>1. Start(a) = IF a.next < a.count THEN a.next - a.count + Capacity ELSE a.next - a.count
    BY <1>1, RingParts
  <2> QED
    BY <2>1, <1>1, <1>2, RingParts
<1>4. ASSUME NEW i \in 1..r.count PROVE All(a)[i] = All(r)[i]
  <2>1. i \in 1..a.count /\ i \in Int
    BY <1>1, <1>2
  <2>2. /\ All(a)[i] = a.points[Pos(a, i)] /\ All(r)[i] = r.points[Pos(r, i)]
        /\ Pos(a, i) = Pos(r, i) /\ Pos(r, i) \in Slots
        /\ Pos(r, i) = IF Start(r) + i - 1 < Capacity THEN Start(r) + i - 1
                       ELSE Start(r) + i - 1 - Capacity
    <3>1. /\ All(a)[i] = a.points[Pos(a, i)]
          /\ Pos(a, i) = IF Start(a) + i - 1 < Capacity THEN Start(a) + i - 1
                         ELSE Start(a) + i - 1 - Capacity
      BY <1>1, <2>1, Position
    <3>2. /\ All(r)[i] = r.points[Pos(r, i)] /\ Pos(r, i) \in Slots
          /\ Pos(r, i) = IF Start(r) + i - 1 < Capacity THEN Start(r) + i - 1
                         ELSE Start(r) + i - 1 - Capacity
      BY Position
    <3> QED
      BY <3>1, <3>2, <1>3
  <2>3. Pos(r, i) # r.next
    BY <1>2, <1>3, <2>1, <2>2
  <2> QED
    BY <1>1, <1>2, <2>2, <2>3
<1>5. All(a)[r.count + 1] = t
  <2>1. r.count + 1 \in 1..a.count
    BY <1>1, <1>2
  <2>2. /\ All(a)[r.count + 1] = a.points[Pos(a, r.count + 1)]
        /\ Pos(a, r.count + 1) = IF Start(r) + r.count < Capacity THEN Start(r) + r.count
                                 ELSE Start(r) + r.count - Capacity
    <3>1. Start(a) + (r.count + 1) - 1 = Start(r) + r.count
      BY <1>2, <1>3
    <3> DEFINE k == r.count + 1
    <3>2. /\ All(a)[k] = a.points[Pos(a, k)]
          /\ Pos(a, k) = IF Start(a) + k - 1 < Capacity THEN Start(a) + k - 1
                         ELSE Start(a) + k - 1 - Capacity
      <4> HIDE DEF k
      <4>1. k \in 1..a.count
        BY <2>1 DEF k
      <4> QED
        BY <1>1, <4>1, Position
    <3>3. Pos(a, k) = IF Start(r) + r.count < Capacity THEN Start(r) + r.count
                      ELSE Start(r) + r.count - Capacity
      BY <3>1, <3>2, <1>2, <1>3
    <3> QED
      BY <3>2, <3>3, Zenon
  <2>3. Pos(a, r.count + 1) = r.next
    BY <1>2, <1>3, <2>2
  <2> QED
    BY <1>1, <1>2, <2>2, <2>3
<1> QED
  BY <1>1, <1>4, <1>5 DEF a

\* Into a full one: the oldest goes.
LEMMA AddFull ==
    ASSUME NEW r \in Rings, NEW t \in Times, r.count = Capacity
    PROVE  /\ Add(r, t).count = Capacity
           /\ \A i \in 1..(Capacity - 1) : All(Add(r, t))[i] = All(r)[i + 1]
           /\ All(Add(r, t))[Capacity] = t
<1> DEFINE a == Add(r, t)
<1>1. /\ a \in Rings /\ a.points = [r.points EXCEPT ![r.next] = t]
      /\ a.next = IF r.next + 1 = Capacity THEN 0 ELSE r.next + 1
      /\ a.count = Capacity
  BY AddParts, Constants
<1> HIDE DEF a
<1>2. /\ r.next \in Nat /\ r.next < Capacity /\ Capacity \in Nat \ {0}
      /\ r.points \in [Slots -> Times] /\ r.next \in Slots
  BY RingParts, Constants DEF Slots
<1>3. Start(a) = a.next /\ Start(r) = r.next
  <2>1. Start(a) = IF a.next < a.count THEN a.next - a.count + Capacity ELSE a.next - a.count
    BY <1>1, RingParts
  <2>2. Start(r) = IF r.next < r.count THEN r.next - r.count + Capacity ELSE r.next - r.count
    BY RingParts
  <2> QED
    BY <2>1, <2>2, <1>1, <1>2
<1>4. ASSUME NEW i \in 1..(Capacity - 1) PROVE All(a)[i] = All(r)[i + 1]
  <2>1. i \in 1..a.count /\ i + 1 \in 1..r.count /\ i \in Int /\ i < Capacity /\ i > 0
    BY <1>1, <1>2
  <2>2. /\ All(a)[i] = a.points[Pos(a, i)]
        /\ Pos(a, i) = IF Start(a) + i - 1 < Capacity THEN Start(a) + i - 1
                       ELSE Start(a) + i - 1 - Capacity
        /\ Pos(a, i) \in Slots
    BY <1>1, <2>1, Position
  <2>3. /\ All(r)[i + 1] = r.points[Pos(r, i + 1)]
        /\ Pos(r, i + 1) = IF Start(r) + (i + 1) - 1 < Capacity THEN Start(r) + (i + 1) - 1
                           ELSE Start(r) + (i + 1) - 1 - Capacity
    BY <2>1, Position
  <2>4. Pos(a, i) = Pos(r, i + 1) /\ Pos(a, i) # r.next
    BY <1>1, <1>2, <1>3, <2>1, <2>2, <2>3
  <2> QED
    BY <1>1, <1>2, <2>2, <2>3, <2>4
<1>5. All(a)[Capacity] = t
  <2>1. Capacity \in 1..a.count
    BY <1>1, <1>2
  <2>2. /\ All(a)[Capacity] = a.points[Pos(a, Capacity)]
        /\ Pos(a, Capacity) = IF Start(a) + Capacity - 1 < Capacity THEN Start(a) + Capacity - 1
                              ELSE Start(a) + Capacity - 1 - Capacity
    BY <1>1, <2>1, Position
  <2>3. Pos(a, Capacity) = r.next
    BY <1>1, <1>2, <1>3, <2>2
  <2> QED
    BY <1>1, <1>2, <2>2, <2>3
<1> QED
  BY <1>1, <1>4, <1>5 DEF a
-----------------------------------------------------------------------------
(* The two loops over the points. *)

Refill(r, cut, n, g) ==
    g = [i \in 0..n |-> IF i = 0 THEN Emptied(r)
                        ELSE IF Kept(All(r)[i], cut) THEN Add(g[i - 1], All(r)[i])
                        ELSE g[i - 1]]

Select(r, cut, n, g) ==
    g = [i \in 0..n |-> IF i = 0 THEN <<>>
                        ELSE IF All(r)[i] < cut THEN g[i - 1]
                        ELSE Append(g[i - 1], All(r)[i])]

\* Each has a result.
LEMMA RefillEnds ==
    ASSUME NEW r \in Rings, NEW cut
    PROVE  \E g : Refill(r, cut, r.count, g) /\ Prune(r, cut) = g[r.count]
<1> DEFINE step(i, p) == IF Kept(All(r)[i], cut) THEN Add(p, All(r)[i]) ELSE p
           P == {n \in 0..r.count : \E g : Refill(r, cut, n, g)}
<1>0. r.count \in Nat
  BY RingParts
<1>1. 0 \in P
  <2> DEFINE g == [i \in 0..0 |-> Emptied(r)]
  <2>1. Refill(r, cut, 0, g)
    BY DEF Refill
  <2> QED
    BY <1>0, <2>1
<1>2. ASSUME NEW n \in 1..r.count, n - 1 \in P PROVE n \in P
  <2>1. PICK f : Refill(r, cut, n - 1, f)
    BY <1>2
  <2> DEFINE g == [i \in 0..n |-> IF i < n THEN f[i] ELSE step(n, f[n - 1])]
  <2>2. \A i \in 0..(n - 1) : f[i] = IF i = 0 THEN Emptied(r) ELSE step(i, f[i - 1])
    BY <2>1 DEF Refill
  <2> HIDE DEF step
  <2>3. \A i \in 0..n : g[i] = IF i = 0 THEN Emptied(r) ELSE step(i, g[i - 1])
    <3> TAKE i \in 0..n
    <3>1. CASE i < n
      <4>1. i \in 0..(n - 1) /\ g[i] = f[i]
        BY <3>1, <1>0
      <4>2. i # 0 => i - 1 \in 0..n /\ i - 1 < n
        BY <3>1, <1>0
      <4>3. i # 0 => g[i - 1] = f[i - 1]
        BY <4>2
      <4> QED
        BY <4>1, <4>3, <2>2
    <3>2. CASE i = n
      <4>1. i # 0 /\ i - 1 \in 0..n /\ i - 1 < n
        BY <3>2, <1>0
      <4>2. g[i - 1] = f[i - 1] /\ g[i] = step(n, f[n - 1])
        BY <4>1, <3>2
      <4> QED
        BY <4>1, <4>2, <3>2
    <3> QED
      BY <3>1, <3>2, <1>0
  <2>4. g = [i \in 0..n |-> IF i = 0 THEN Emptied(r) ELSE step(i, g[i - 1])]
    BY <2>3
  <2> HIDE DEF g
  <2>5. Refill(r, cut, n, g)
    BY <2>4 DEF Refill, step
  <2> QED
    BY <2>5, <1>2
<1>3. r.count \in P
  <2> HIDE DEF P
  <2>1. \A i \in 0..r.count : i \in P
    BY <1>0, <1>1, <1>2, UpTo
  <2> QED
    BY <1>0, <2>1
<1>4. \E g : Refill(r, cut, r.count, g)
  BY <1>3
<1> DEFINE h == CHOOSE g : Refill(r, cut, r.count, g)
<1>5. Refill(r, cut, r.count, h)
  BY <1>4
<1>6. Prune(r, cut) = h[r.count]
  BY DEF Prune, Refill
<1> QED
  BY <1>5, <1>6

LEMMA SelectEnds ==
    ASSUME NEW r \in Rings, NEW cut
    PROVE  \E g : Select(r, cut, r.count, g) /\ Since(r, cut) = g[r.count]
<1> DEFINE step(i, p) == IF All(r)[i] < cut THEN p ELSE Append(p, All(r)[i])
           P == {n \in 0..r.count : \E g : Select(r, cut, n, g)}
<1>0. r.count \in Nat
  BY RingParts
<1>1. 0 \in P
  <2> DEFINE g == [i \in 0..0 |-> <<>>]
  <2>1. Select(r, cut, 0, g)
    BY DEF Select
  <2> QED
    BY <1>0, <2>1
<1>2. ASSUME NEW n \in 1..r.count, n - 1 \in P PROVE n \in P
  <2>1. PICK f : Select(r, cut, n - 1, f)
    BY <1>2
  <2> DEFINE g == [i \in 0..n |-> IF i < n THEN f[i] ELSE step(n, f[n - 1])]
  <2>2. \A i \in 0..(n - 1) : f[i] = IF i = 0 THEN <<>> ELSE step(i, f[i - 1])
    BY <2>1 DEF Select
  <2> HIDE DEF step
  <2>3. \A i \in 0..n : g[i] = IF i = 0 THEN <<>> ELSE step(i, g[i - 1])
    <3> TAKE i \in 0..n
    <3>1. CASE i < n
      <4>1. i \in 0..(n - 1) /\ g[i] = f[i]
        BY <3>1, <1>0
      <4>2. i # 0 => i - 1 \in 0..n /\ i - 1 < n
        BY <3>1, <1>0
      <4>3. i # 0 => g[i - 1] = f[i - 1]
        BY <4>2
      <4> QED
        BY <4>1, <4>3, <2>2
    <3>2. CASE i = n
      <4>1. i # 0 /\ i - 1 \in 0..n /\ i - 1 < n
        BY <3>2, <1>0
      <4>2. g[i - 1] = f[i - 1] /\ g[i] = step(n, f[n - 1])
        BY <4>1, <3>2
      <4> QED
        BY <4>1, <4>2, <3>2
    <3> QED
      BY <3>1, <3>2, <1>0
  <2>4. g = [i \in 0..n |-> IF i = 0 THEN <<>> ELSE step(i, g[i - 1])]
    BY <2>3
  <2> HIDE DEF g
  <2>5. Select(r, cut, n, g)
    BY <2>4 DEF Select, step
  <2> QED
    BY <2>5, <1>2
<1>3. r.count \in P
  <2> HIDE DEF P
  <2>1. \A i \in 0..r.count : i \in P
    BY <1>0, <1>1, <1>2, UpTo
  <2> QED
    BY <1>0, <2>1
<1>4. \E g : Select(r, cut, r.count, g)
  BY <1>3
<1> DEFINE h == CHOOSE g : Select(r, cut, r.count, g)
<1>5. Select(r, cut, r.count, h)
  BY <1>4
<1>6. Since(r, cut) = h[r.count]
  BY DEF Since, Select
<1> QED
  BY <1>5, <1>6
-----------------------------------------------------------------------------
(* Gaps. *)

LEMMA Gaps ==
    ASSUME NEW m \in Nat
    PROVE  m * Gap \in Nat /\ (m + 1) * Gap = m * Gap + Gap /\ 0 * Gap = 0
  BY Constants

\* Points that are a gap apart are in order.
LEMMA InOrder ==
    ASSUME NEW r \in Rings, Spaced(r), NEW i \in 1..r.count, NEW j \in 1..r.count, i <= j
    PROVE  All(r)[i] <= All(r)[j]
<1>1. All(r)[j] >= All(r)[i] + (j - i) * Gap
  BY DEF Spaced
<1>2. j - i \in Nat /\ All(r)[i] \in Int /\ All(r)[j] \in Int
  BY RingParts, AllType
<1>3. (j - i) * Gap \in Nat
  BY <1>2, Gaps
<1> QED
  BY <1>1, <1>2, <1>3

\* Prune leaves the points that are not older than cut, which are the last ones.
LEMMA PruneLeavesEnd ==
    ASSUME NEW r \in Rings, Spaced(r), NEW cut \in Int
    PROVE  \E k \in 0..r.count :
               /\ Prune(r, cut) \in Rings
               /\ Prune(r, cut).count = r.count - k
               /\ \A m \in 1..(r.count - k) : All(Prune(r, cut))[m] = All(r)[k + m]
               /\ \A i \in 1..r.count : All(r)[i] >= cut <=> i > k
<1> DEFINE T == {j \in 1..r.count : All(r)[j] >= cut}
<1>0. r.count \in Nat /\ r.count <= Capacity /\ Capacity \in Nat
  BY RingParts, Constants
<1>1. \E k \in 0..r.count : \A i \in 1..r.count : All(r)[i] >= cut <=> i > k
  <2>1. CASE T = {}
    <3>1. \A i \in 1..r.count : ~(All(r)[i] >= cut) /\ ~(i > r.count)
      BY <2>1, <1>0
    <3> QED
      BY <3>1, <1>0
  <2>2. CASE T # {}
    <3>1. T \subseteq Nat
      BY <1>0
    <3>2. PICK x \in T : \A y \in T : x <= y
      <4> HIDE DEF T
      <4> QED
        BY <2>2, <3>1, Least
    <3>3. x \in 1..r.count /\ All(r)[x] >= cut
      BY <3>2
    <3>4. ASSUME NEW i \in 1..r.count PROVE All(r)[i] >= cut <=> i > x - 1
      <4>1. All(r)[i] >= cut => x <= i
        BY <3>2
      <4>2. x <= i => All(r)[x] <= All(r)[i]
        BY <3>3, InOrder
      <4>3. All(r)[i] \in Int /\ All(r)[x] \in Int /\ x \in Int /\ i \in Int
        BY <3>3, <1>0, AllType
      <4> QED
        BY <3>3, <4>1, <4>2, <4>3
    <3>5. x - 1 \in 0..r.count
      BY <3>3, <1>0
    <3> QED
      BY <3>4, <3>5
  <2> QED
    BY <2>1, <2>2
<1>2. PICK k \in 0..r.count : \A i \in 1..r.count : All(r)[i] >= cut <=> i > k
  BY <1>1
<1>3. PICK g : Refill(r, cut, r.count, g) /\ Prune(r, cut) = g[r.count]
  BY RefillEnds
<1> DEFINE good(i) == /\ g[i] \in Rings
                      /\ g[i].count = IF i <= k THEN 0 ELSE i - k
                      /\ \A m \in 1..(i - k) : All(g[i])[m] = All(r)[k + m]
           P == {i \in 0..r.count : good(i)}
<1>4. \A i \in 0..r.count : g[i] = IF i = 0 THEN Emptied(r)
                                   ELSE IF Kept(All(r)[i], cut) THEN Add(g[i - 1], All(r)[i])
                                   ELSE g[i - 1]
  BY <1>3 DEF Refill
<1>5. 0 \in P
  <2>1. g[0] = Emptied(r)
    BY <1>4, <1>0
  <2>2. Emptied(r) \in Rings /\ Emptied(r).count = 0
    <3>1. 0 \in Slots /\ 0 \in 0..Capacity
      BY Constants DEF Slots
    <3> QED
      BY <3>1 DEF Emptied, Rings
  <2>3. 0 <= k /\ 1..(0 - k) = {}
    BY <1>0
  <2> QED
    BY <2>1, <2>2, <2>3, <1>0
<1>6. ASSUME NEW i \in 1..r.count, i - 1 \in P PROVE i \in P
  <2>0. i \in Nat /\ i # 0 /\ i \in 0..r.count /\ k \in Nat /\ i <= r.count
    BY <1>0
  <2>1. good(i - 1)
    BY <1>6
  <2>2. Kept(All(r)[i], cut) <=> i > k
    BY <1>2 DEF Kept
  <2>3. CASE i <= k
    <3>1. g[i] = g[i - 1]
      BY <2>0, <2>2, <2>3, <1>4
    <3>2. i - 1 <= k /\ 1..(i - k) = {}
      BY <2>0, <2>3
    <3>3. good(i)
      BY <2>1, <2>3, <3>1, <3>2
    <3> QED
      BY <2>0, <3>3
  <2>4. CASE i > k
    <3> DEFINE a == g[i - 1]
               t == All(r)[i]
    <3>1. g[i] = Add(a, t)
      BY <2>0, <2>2, <2>4, <1>4
    <3>2. a \in Rings /\ a.count = (i - 1) - k /\ t \in Times
      <4>1. a \in Rings /\ a.count = IF i - 1 <= k THEN 0 ELSE i - 1 - k
        BY <2>1
      <4>2. i - 1 <= k => i - 1 - k = 0
        BY <2>0, <2>4
      <4>3. t \in Times
        BY AllType
      <4> QED
        BY <4>1, <4>2, <4>3, <2>0
    <3>3. \A m \in 1..(i - 1 - k) : All(a)[m] = All(r)[k + m]
      BY <2>1
    <3> HIDE DEF a
    <3>4. a.count < Capacity
      BY <3>2, <2>0, <1>0
    <3>5. /\ Add(a, t).count = a.count + 1
          /\ \A m \in 1..a.count : All(Add(a, t))[m] = All(a)[m]
          /\ All(Add(a, t))[a.count + 1] = t
      <4> HIDE DEF t
      <4> QED
        BY <3>2, <3>4, AddRoom
    <3>6. g[i] \in Rings /\ g[i].count = i - k
      <4>1. Add(a, t) \in Rings
        <5> HIDE DEF t
        <5> QED
          BY <3>2, AddParts
      <4> QED
        BY <4>1, <3>1, <3>2, <3>5, <2>0
    <3>7. ASSUME NEW m \in 1..(i - k) PROVE All(g[i])[m] = All(r)[k + m]
      <4>1. CASE m = i - k
        <5>1. m = a.count + 1 /\ k + m = i
          BY <4>1, <3>2, <2>0
        <5> QED
          BY <5>1, <3>1, <3>5
      <4>2. CASE m # i - k
        <5>1. m \in 1..(i - 1 - k) /\ m \in 1..a.count
          BY <4>2, <3>2, <2>0
        <5> QED
          BY <5>1, <3>1, <3>3, <3>5
      <4> QED
        BY <4>1, <4>2
    <3>8. good(i)
      BY <3>6, <3>7, <2>4, <2>0
    <3> QED
      BY <2>0, <3>8
  <2> QED
    BY <2>0, <2>3, <2>4
<1>7. r.count \in P
  <2> HIDE DEF P
  <2>1. \A i \in 0..r.count : i \in P
    BY <1>0, <1>5, <1>6, UpTo
  <2> QED
    BY <1>0, <2>1
<1>8. good(r.count) /\ (r.count <= k => r.count - k = 0)
  BY <1>7, <1>0
<1> QED
  BY <1>2, <1>3, <1>8

\* Since has every point that is not older than cut.
LEMMA SinceHas ==
    ASSUME NEW r \in Rings, NEW cut \in Int, NEW j \in 1..r.count, All(r)[j] >= cut
    PROVE  All(r)[j] \in Range(Since(r, cut))
<1>0. r.count \in Nat
  BY RingParts
<1>1. PICK g : Select(r, cut, r.count, g) /\ Since(r, cut) = g[r.count]
  BY SelectEnds
<1> DEFINE s == All(r)
           good(i) == /\ g[i] \in Seq(Times)
                      /\ j <= i => \E m \in 1..Len(g[i]) : g[i][m] = s[j]
           P == {i \in 0..r.count : good(i)}
<1>2. \A i \in 0..r.count : g[i] = IF i = 0 THEN <<>>
                                   ELSE IF s[i] < cut THEN g[i - 1]
                                   ELSE Append(g[i - 1], s[i])
  BY <1>1 DEF Select
<1>3. \A i \in 1..r.count : s[i] \in Times /\ s[i] \in Int
  BY AllType
<1>j. s[j] >= cut
  OBVIOUS
<1> HIDE DEF s
<1>4. 0 \in P
  <2>1. g[0] = <<>> /\ ~(j <= 0)
    BY <1>0, <1>2
  <2>2. <<>> \in Seq(Times)
    OBVIOUS
  <2>3. good(0)
    BY <2>1, <2>2
  <2> QED
    BY <2>3, <1>0
<1>5. ASSUME NEW i \in 1..r.count, i - 1 \in P PROVE i \in P
  <2>0. i \in Nat /\ i # 0 /\ i \in 0..r.count /\ j \in Nat
    BY <1>0
  <2>1. good(i - 1)
    BY <1>5
  <2>2. CASE s[i] < cut
    <3>1. g[i] = g[i - 1]
      BY <2>0, <2>2, <1>2
    <3>2. j # i
      BY <2>2, <1>3, <1>j
    <3>3. j <= i => j <= i - 1
      BY <3>2, <2>0
    <3> QED
      BY <2>0, <2>1, <3>1, <3>3
  <2>3. CASE ~(s[i] < cut)
    <3> DEFINE q == g[i - 1]
    <3>1. g[i] = Append(q, s[i]) /\ q \in Seq(Times) /\ s[i] \in Times
      BY <2>0, <2>1, <2>3, <1>2, <1>3
    <3>2. j <= i - 1 => \E m \in 1..Len(q) : q[m] = s[j]
      BY <2>1
    <3> HIDE DEF q
    <3>3. /\ g[i] \in Seq(Times) /\ Len(g[i]) = Len(q) + 1 /\ g[i][Len(q) + 1] = s[i]
          /\ \A m \in 1..Len(q) : g[i][m] = q[m] /\ Len(q) \in Nat
      BY <3>1
    <3>4. ASSUME j <= i PROVE \E m \in 1..Len(g[i]) : g[i][m] = s[j]
      <4>1. CASE j = i
        <5>1. Len(q) \in Nat
          BY <3>1
        <5> QED
          BY <4>1, <3>3, <5>1
      <4>2. CASE j # i
        <5>1. PICK m \in 1..Len(q) : q[m] = s[j]
          BY <3>2, <3>4, <4>2, <2>0
        <5>2. m \in 1..Len(g[i]) /\ g[i][m] = s[j]
          BY <5>1, <3>1, <3>3
        <5> QED
          BY <5>2
      <4> QED
        BY <4>1, <4>2
    <3> QED
      BY <2>0, <3>3, <3>4
  <2> QED
    BY <2>2, <2>3
<1>6. r.count \in P
  <2> HIDE DEF P
  <2>1. \A i \in 0..r.count : i \in P
    BY <1>0, <1>4, <1>5, UpTo
  <2> QED
    BY <1>0, <2>1
<1>7. j <= r.count
  BY <1>0
<1>8. PICK m \in 1..Len(g[r.count]) : g[r.count][m] = s[j]
  BY <1>6, <1>7
<1>9. m \in DOMAIN g[r.count]
  BY <1>6, <1>8
<1> QED
  BY <1>1, <1>8, <1>9 DEF Range, s

\* Nor does Since show anything else.
LEMMA SinceOnly ==
    ASSUME NEW r \in Rings, NEW cut \in Int, NEW t \in Range(Since(r, cut))
    PROVE  t >= cut /\ \E j \in 1..r.count : All(r)[j] = t
<1>0. r.count \in Nat
  BY RingParts
<1>1. PICK g : Select(r, cut, r.count, g) /\ Since(r, cut) = g[r.count]
  BY SelectEnds
<1> DEFINE s == All(r)
           shown(x) == x >= cut /\ \E j \in 1..r.count : s[j] = x
           good(i) == /\ g[i] \in Seq(Times)
                      /\ \A m \in 1..Len(g[i]) : shown(g[i][m])
           P == {i \in 0..r.count : good(i)}
<1>2. \A i \in 0..r.count : g[i] = IF i = 0 THEN <<>>
                                   ELSE IF s[i] < cut THEN g[i - 1]
                                   ELSE Append(g[i - 1], s[i])
  BY <1>1 DEF Select
<1>3. \A i \in 1..r.count : s[i] \in Times /\ s[i] \in Int
  BY AllType
<1> HIDE DEF s
<1>4. 0 \in P
  <2>1. g[0] = <<>> /\ <<>> \in Seq(Times)
    BY <1>0, <1>2
  <2>2. Len(g[0]) = 0 /\ 1..0 = {}
    BY <2>1
  <2>3. good(0)
    BY <2>1, <2>2
  <2> QED
    BY <2>3, <1>0
<1>5. ASSUME NEW i \in 1..r.count, i - 1 \in P PROVE i \in P
  <2>0. i \in Nat /\ i # 0 /\ i \in 0..r.count
    BY <1>0
  <2>1. good(i - 1)
    BY <1>5
  <2>2. CASE s[i] < cut
    <3>1. g[i] = g[i - 1]
      BY <2>0, <2>2, <1>2
    <3> QED
      BY <2>0, <2>1, <3>1
  <2>3. CASE ~(s[i] < cut)
    <3> DEFINE q == g[i - 1]
    <3>1. g[i] = Append(q, s[i]) /\ q \in Seq(Times) /\ s[i] \in Times
      BY <2>0, <2>1, <2>3, <1>2, <1>3
    <3>2. \A m \in 1..Len(q) : shown(q[m])
      BY <2>1
    <3>3. shown(s[i])
      BY <2>3, <1>3
    <3> HIDE DEF q, shown
    <3>4. /\ g[i] \in Seq(Times) /\ Len(g[i]) = Len(q) + 1 /\ g[i][Len(q) + 1] = s[i]
          /\ \A m \in 1..Len(q) : g[i][m] = q[m]
          /\ Len(q) \in Nat
      BY <3>1
    <3>5. ASSUME NEW m \in 1..Len(g[i]) PROVE shown(g[i][m])
      <4>1. m \in 1..Len(q) \/ m = Len(q) + 1
        BY <3>4
      <4> QED
        BY <4>1, <3>2, <3>3, <3>4
    <3> QED
      BY <2>0, <3>4, <3>5
  <2> QED
    BY <2>2, <2>3
<1>6. r.count \in P
  <2> HIDE DEF P
  <2>1. \A i \in 0..r.count : i \in P
    BY <1>0, <1>4, <1>5, UpTo
  <2> QED
    BY <1>0, <2>1
<1>7. PICK m \in DOMAIN g[r.count] : g[r.count][m] = t
  BY <1>1 DEF Range
<1>8. m \in 1..Len(g[r.count])
  BY <1>6, <1>7
<1>9. shown(t)
  BY <1>6, <1>7, <1>8
<1> QED
  BY <1>9 DEF s
-----------------------------------------------------------------------------
(* What the operations leave. *)

\* A point that comes a gap after the others: they stay apart, and one that is
\* overwritten is the whole ring older.
LEMMA AddKeeps ==
    ASSUME NEW r \in Rings, NEW t \in Times, Spaced(r),
           \A i \in 1..r.count : All(r)[i] + Gap <= t
    PROVE  /\ Spaced(Add(r, t))
           /\ \A i \in 1..Add(r, t).count : All(Add(r, t))[i] <= t
           /\ \E i \in 1..Add(r, t).count : All(Add(r, t))[i] = t
           /\ \A i \in 1..r.count :
                  \/ \E j \in 1..Add(r, t).count : All(Add(r, t))[j] = All(r)[i]
                  \/ All(r)[i] <= t - Capacity * Gap
           /\ \A j \in 1..Add(r, t).count :
                  \/ All(Add(r, t))[j] = t
                  \/ \E i \in 1..r.count : All(Add(r, t))[j] = All(r)[i]
<1> DEFINE a == Add(r, t)
           s == All(r)
           b == All(a)
           c == r.count
<1>0. /\ c \in Nat /\ c <= Capacity /\ Capacity \in Nat \ {0} /\ Gap \in Nat
      /\ t \in Int /\ Capacity * Gap \in Int
      /\ \A i \in 1..c : s[i] \in Int /\ s[i] + Gap <= t
  BY RingParts, AllType, Constants DEF Times
<1>1. \A i, j \in 1..c : i <= j => s[j] >= s[i] + (j - i) * Gap
  BY DEF Spaced
<1>2. CASE c < Capacity
  <2>1. a.count = c + 1 /\ (\A i \in 1..c : b[i] = s[i]) /\ b[c + 1] = t
    BY <1>2, AddRoom
  <2> HIDE DEF a, b, s, c
  <2>2. ASSUME NEW i \in 1..(c + 1), NEW j \in 1..(c + 1), i <= j
        PROVE  b[j] >= b[i] + (j - i) * Gap
    <3>0. i \in Int /\ j \in Int
      BY <1>0
    <3>1. CASE j <= c
      <4>1. i \in 1..c /\ j \in 1..c
        BY <3>1, <2>2, <1>0
      <4> QED
        BY <4>1, <2>2, <2>1, <1>1
    <3>2. CASE j = c + 1 /\ i = j
      <4>1. (j - i) * Gap = 0
        BY <3>2, <3>0, <1>0, Gaps
      <4>2. b[i] = t /\ b[j] = t
        BY <3>2, <2>1
      <4> QED
        BY <4>1, <4>2, <1>0
    <3>3. CASE j = c + 1 /\ i < j
      <4>1. i \in 1..c /\ c \in 1..c /\ i <= c /\ c - i \in Nat /\ j - i = (c - i) + 1
        BY <3>3, <3>0, <1>0
      <4>2. s[c] >= s[i] + (c - i) * Gap /\ s[c] + Gap <= t
        BY <4>1, <1>0, <1>1
      <4>3. (j - i) * Gap = (c - i) * Gap + Gap /\ (c - i) * Gap \in Nat
        BY <4>1, Gaps
      <4>4. b[i] = s[i] /\ b[j] = t /\ s[i] \in Int /\ s[c] \in Int
        BY <4>1, <2>1, <3>3, <1>0
      <4> QED
        BY <4>2, <4>3, <4>4, <1>0
    <3> QED
      BY <3>0, <3>1, <3>2, <3>3, <2>2, <1>0
  <2>3. Spaced(a)
    BY <2>1, <2>2 DEF Spaced, b
  <2>4. \A i \in 1..a.count : b[i] <= t
    <3> TAKE i \in 1..a.count
    <3>1. i = c + 1 \/ i \in 1..c
      BY <2>1, <1>0
    <3> QED
      BY <3>1, <2>1, <1>0
  <2>5. c + 1 \in 1..a.count /\ 1..c \subseteq 1..a.count
    BY <2>1, <1>0
  <2>6. \E i \in 1..a.count : b[i] = t
    BY <2>5, <2>1
  <2>7. \A i \in 1..c : \E j \in 1..a.count : b[j] = s[i]
    BY <2>5, <2>1
  <2>8. \A j \in 1..a.count : b[j] = t \/ \E i \in 1..c : b[j] = s[i]
    <3> TAKE j \in 1..a.count
    <3>1. j = c + 1 \/ j \in 1..c
      BY <2>1, <1>0
    <3> QED
      BY <3>1, <2>1
  <2> QED
    BY <2>3, <2>4, <2>6, <2>7, <2>8 DEF a, b, s, c
<1>3. CASE c = Capacity
  <2>1. a.count = c /\ (\A i \in 1..(c - 1) : b[i] = s[i + 1]) /\ b[c] = t
    BY <1>3, AddFull
  <2> HIDE DEF a, b, s, c
  <2>2. ASSUME NEW i \in 1..c, NEW j \in 1..c, i <= j
        PROVE  b[j] >= b[i] + (j - i) * Gap
    <3>0. i \in Int /\ j \in Int /\ i >= 1 /\ j >= 1
      BY <1>0
    <3>1. CASE j < c
      <4>1. i \in 1..(c - 1) /\ j \in 1..(c - 1) /\ i + 1 \in 1..c /\ j + 1 \in 1..c
            /\ i + 1 <= j + 1 /\ (j + 1) - (i + 1) = j - i
        BY <3>0, <3>1, <2>2, <1>0
      <4>2. s[j + 1] >= s[i + 1] + ((j + 1) - (i + 1)) * Gap
        BY <4>1, <1>1
      <4>3. s[j + 1] >= s[i + 1] + (j - i) * Gap
        BY <4>1, <4>2
      <4> QED
        BY <4>1, <4>3, <2>1
    <3>2. CASE j = c /\ i = j
      <4>1. (j - i) * Gap = 0
        BY <3>2, <3>0, <1>0, Gaps
      <4>2. b[i] = t /\ b[j] = t
        BY <3>2, <2>1
      <4> QED
        BY <4>1, <4>2, <1>0
    <3>3. CASE j = c /\ i < j
      <4>1. i \in 1..(c - 1) /\ c \in 1..c /\ i + 1 \in 1..c /\ i + 1 <= c
            /\ c - (i + 1) \in Nat /\ j - i = (c - (i + 1)) + 1
        BY <3>3, <3>0, <1>0
      <4>2. s[c] >= s[i + 1] + (c - (i + 1)) * Gap /\ s[c] + Gap <= t
        BY <4>1, <1>0, <1>1
      <4>3. (j - i) * Gap = (c - (i + 1)) * Gap + Gap /\ (c - (i + 1)) * Gap \in Nat
        BY <4>1, Gaps
      <4>4. b[i] = s[i + 1] /\ b[j] = t /\ s[i + 1] \in Int /\ s[c] \in Int
        BY <4>1, <2>1, <3>3, <1>0
      <4> QED
        BY <4>2, <4>3, <4>4, <1>0
    <3> QED
      BY <3>0, <3>1, <3>2, <3>3, <2>2, <1>0
  <2>3. Spaced(a)
    BY <2>1, <2>2 DEF Spaced, b
  <2>4. \A i \in 1..a.count : b[i] <= t
    <3> TAKE i \in 1..a.count
    <3>1. i = c \/ (i \in 1..(c - 1) /\ i + 1 \in 1..c)
      BY <2>1, <1>0
    <3> QED
      BY <3>1, <2>1, <1>0
  <2>5. c \in 1..a.count
    BY <1>0, <1>3, <2>1
  <2>6. \E i \in 1..a.count : b[i] = t
    BY <2>5, <2>1
  <2>7. ASSUME NEW i \in 1..c
        PROVE  (\E j \in 1..a.count : b[j] = s[i]) \/ s[i] <= t - Capacity * Gap
    <3>1. CASE i = 1
      <4>1. 1 \in 1..c /\ c \in 1..c /\ 1 <= c /\ c - 1 \in Nat /\ (c - 1) + 1 = c
        BY <1>0, <1>3
      <4>2. s[c] >= s[1] + (c - 1) * Gap /\ s[c] + Gap <= t
        BY <4>1, <1>0, <1>1
      <4>3. c * Gap = (c - 1) * Gap + Gap /\ (c - 1) * Gap \in Nat
        <5>1. ((c - 1) + 1) * Gap = (c - 1) * Gap + Gap /\ (c - 1) * Gap \in Nat
          BY <4>1, Gaps
        <5> QED
          BY <4>1, <5>1
      <4>4. s[1] \in Int /\ s[c] \in Int /\ c * Gap = Capacity * Gap
        BY <4>1, <1>0, <1>3
      <4>5. s[1] <= t - Capacity * Gap
        BY <4>2, <4>3, <4>4, <1>0
      <4> QED
        BY <3>1, <4>5
    <3>2. CASE i # 1
      <4>1. i - 1 \in 1..(c - 1) /\ i - 1 \in 1..a.count /\ (i - 1) + 1 = i
        BY <3>2, <1>0, <2>1
      <4>2. b[i - 1] = s[i]
        BY <4>1, <2>1
      <4> QED
        BY <4>1, <4>2
    <3> QED
      BY <3>1, <3>2
  <2>8. \A j \in 1..a.count : b[j] = t \/ \E i \in 1..c : b[j] = s[i]
    <3> TAKE j \in 1..a.count
    <3>1. j = c \/ (j \in 1..(c - 1) /\ j + 1 \in 1..c)
      BY <2>1, <1>0
    <3> QED
      BY <3>1, <2>1
  <2> QED
    BY <2>3, <2>4, <2>6, <2>7, <2>8 DEF a, b, s, c
<1> HIDE DEF a, b, s, c
<1> QED
  BY <1>0, <1>2, <1>3

\* What is left are points of the ring, and those that are not older than cut.
LEMMA PruneKeeps ==
    ASSUME NEW r \in Rings, Spaced(r), NEW cut \in Int
    PROVE  /\ Prune(r, cut) \in Rings
           /\ Spaced(Prune(r, cut))
           /\ \A m \in 1..Prune(r, cut).count :
                  \E i \in 1..r.count : All(Prune(r, cut))[m] = All(r)[i]
           /\ \A i \in 1..r.count : All(r)[i] >= cut =>
                  \E m \in 1..Prune(r, cut).count : All(Prune(r, cut))[m] = All(r)[i]
<1> DEFINE p == Prune(r, cut)
           b == All(p)
           s == All(r)
           c == r.count
<1>1. PICK k \in 0..c :
          /\ p \in Rings
          /\ p.count = c - k
          /\ \A m \in 1..(c - k) : b[m] = s[k + m]
          /\ \A i \in 1..c : s[i] >= cut <=> i > k
  BY PruneLeavesEnd
<1>2. c \in Nat
  BY RingParts
<1>3. \A i, j \in 1..c : i <= j => s[j] >= s[i] + (j - i) * Gap
  BY DEF Spaced
<1> HIDE DEF p, b, s, c
<1>4. \A m \in 1..p.count : k + m \in 1..c /\ b[m] = s[k + m]
  BY <1>1, <1>2
<1>5. ASSUME NEW i \in 1..p.count, NEW j \in 1..p.count, i <= j
      PROVE  b[j] >= b[i] + (j - i) * Gap
  <2>1. k + i <= k + j /\ (k + j) - (k + i) = j - i
    BY <1>1, <1>2, <1>5
  <2>2. s[k + j] >= s[k + i] + ((k + j) - (k + i)) * Gap
    BY <2>1, <1>3, <1>4
  <2>3. s[k + j] >= s[k + i] + (j - i) * Gap
    BY <2>1, <2>2
  <2> QED
    BY <2>3, <1>4
<1>6. ASSUME NEW i \in 1..c, s[i] >= cut PROVE \E m \in 1..p.count : b[m] = s[i]
  <2>1. i > k
    BY <1>1, <1>6
  <2>2. i - k \in 1..p.count /\ k + (i - k) = i
    BY <2>1, <1>1, <1>2
  <2> QED
    BY <2>2, <1>4
<1>7. Spaced(p)
  BY <1>5 DEF Spaced, b
<1> QED
  BY <1>1, <1>4, <1>6, <1>7 DEF p, b, s, c

\* A runtime that has just been made, or is not there, has no points.
LEMMA NoPoints ==
    /\ NewRing \in Rings /\ NewRing.count = 0 /\ Spaced(NewRing)
    /\ NewRuntime \in Runtimes /\ NewRuntime.present
    /\ NewRuntime.ring = NewRing /\ NewRuntime.lastHistory = Never
    /\ NoRuntime \in Runtimes /\ ~NoRuntime.present
    /\ NoRuntime.ring = NewRing /\ NoRuntime.lastHistory = Never
<1>1. 0 \in Slots /\ 0 \in Times /\ 0 \in 0..Capacity
  BY Constants DEF Slots, Times
<1>2. [i \in Slots |-> 0] \in [Slots -> Times]
  BY <1>1
<1>3. NewRing \in Rings /\ NewRing.count = 0
  BY <1>1, <1>2 DEF NewRing, Rings
<1>4. Spaced(NewRing)
  BY <1>3 DEF Spaced
<1>5. NewRuntime \in Runtimes /\ NewRuntime.present
      /\ NewRuntime.ring = NewRing /\ NewRuntime.lastHistory = Never
  BY <1>3 DEF NewRuntime, Runtimes
<1>6. NoRuntime \in Runtimes /\ ~NoRuntime.present
      /\ NoRuntime.ring = NewRing /\ NoRuntime.lastHistory = Never
  <2> DEFINE f == NewRuntime
  <2>1. f \in Runtimes /\ f.ring = NewRing /\ f.lastHistory = Never
    BY <1>5
  <2> HIDE DEF f
  <2>2. [f EXCEPT !.present = FALSE] \in Runtimes /\ ~[f EXCEPT !.present = FALSE].present
        /\ [f EXCEPT !.present = FALSE].ring = NewRing
        /\ [f EXCEPT !.present = FALSE].lastHistory = Never
    BY <2>1 DEF Runtimes
  <2> QED
    BY <2>2 DEF NoRuntime, f
<1> QED
  BY <1>3, <1>4, <1>5, <1>6
-----------------------------------------------------------------------------
(* The invariant. *)

LEMMA RuntimeParts ==
    ASSUME IInv, NEW n \in Nodes
    PROVE  /\ rt[n] \in Runtimes /\ rt[n].ring \in Rings /\ Spaced(rt[n].ring)
           /\ rt[n].lastHistory \in Times \cup {Never} /\ rt[n].lastHistory \in Int
           /\ now \in Int /\ Window \in Int
<1>1. rt[n] \in Runtimes /\ now \in Times
  BY DEF IInv, TypeOK, Runtimes, Rings
<1>2. Times \cup {Never} \subseteq Int
  BY DEF Times, Never
<1> QED
  BY <1>1, <1>2, Constants DEF IInv, RuntimeInv, Runtimes

LEMMA InitHolds ==
    Init => IInv
<1> SUFFICES ASSUME Init PROVE IInv
  OBVIOUS
<1>1. 0 \in Times /\ 0 \in 0..MaxRestarts /\ 0 \in Int /\ Never \in Int /\ Never <= 0
  BY Constants DEF Times, Never
<1>2. \A n \in Nodes : rt[n] = NoRuntime
  BY DEF Init
<1>3. TypeOK
  BY <1>1, NoPoints DEF Init, TypeOK, Runtimes, Rings
<1>4. RuntimeInv
  BY <1>1, <1>2, NoPoints DEF Init, RuntimeInv
<1>5. ClockInv
  BY <1>1 DEF Init, ClockInv
<1>6. YoungInv
  BY <1>1, <1>2, Constants DEF Init, YoungInv
<1>7. RecordedInv
  BY <1>2, NoPoints DEF RecordedInv
<1> QED
  BY <1>3, <1>4, <1>5, <1>6, <1>7 DEF IInv

LEMMA CreateNodeKeeps ==
    ASSUME IInv, NEW n \in Nodes, CreateNode(n)
    PROVE  IInv'
<1>1. status[n] = "new" /\ status' = [status EXCEPT ![n] = "registered"]
      /\ rt' = [rt EXCEPT ![n] = NewRuntime]
      /\ UNCHANGED <<now, phase, node, clock, ticked, restarts, recorded>>
  BY DEF CreateNode, handlerVars
<1>0. TypeOK /\ RuntimeInv /\ ClockInv /\ YoungInv /\ RecordedInv
  BY DEF IInv
<1>2. /\ status'[n] = "registered" /\ rt'[n] = NewRuntime
      /\ \A k \in Nodes : k # n => rt'[k] = rt[k] /\ status'[k] = status[k]
  BY <1>0, <1>1 DEF TypeOK
<1>3. TypeOK'
  <2>1. rt' \in [Nodes -> Runtimes]
    BY <1>0, <1>1, NoPoints DEF TypeOK, Runtimes, Rings
  <2>2. status' \in [Nodes -> {"new", "registered", "deleted"}]
    BY <1>0, <1>1 DEF TypeOK
  <2>3. \A k \in Nodes : status'[k] = "registered" => rt'[k].present
    BY <1>0, <1>2, NoPoints DEF TypeOK
  <2> QED
    BY <1>0, <1>1, <2>1, <2>2, <2>3 DEF TypeOK, Runtimes, Rings
<1>4. RuntimeInv'
  <2>1. Never <= now
    BY <1>0 DEF TypeOK, Times, Never
  <2>2. \A k \in Nodes :
          /\ ~rt'[k].present => rt'[k] = NoRuntime
          /\ Spaced(rt'[k].ring)
          /\ rt'[k].lastHistory <= now
          /\ \A i \in 1..rt'[k].ring.count : All(rt'[k].ring)[i] <= rt'[k].lastHistory
    BY <1>0, <1>2, <2>1, NoPoints DEF RuntimeInv
  <2> QED
    BY <1>1, <2>2 DEF RuntimeInv
<1>5. ClockInv'
  BY <1>0, <1>1 DEF ClockInv
<1>6. YoungInv'
  <2>1. recorded[n] = {}
    BY <1>0, <1>1 DEF YoungInv
  <2> QED
    BY <1>0, <1>1, <1>2, <2>1 DEF YoungInv
<1>7. RecordedInv'
  BY <1>0, <1>1, <1>2, NoPoints DEF RecordedInv
<1> QED
  BY <1>3, <1>4, <1>5, <1>6, <1>7 DEF IInv

LEMMA DeleteNodeKeeps ==
    ASSUME IInv, NEW n \in Nodes, DeleteNode(n)
    PROVE  IInv'
<1>1. status' = [status EXCEPT ![n] = "deleted"]
      /\ rt' = [rt EXCEPT ![n] = NoRuntime]
      /\ recorded' = [recorded EXCEPT ![n] = {}]
      /\ UNCHANGED <<now, phase, node, clock, ticked, restarts>>
  BY DEF DeleteNode, handlerVars
<1>0. TypeOK /\ RuntimeInv /\ ClockInv /\ YoungInv /\ RecordedInv
  BY DEF IInv
<1>2. /\ status'[n] = "deleted" /\ rt'[n] = NoRuntime /\ recorded'[n] = {}
      /\ \A k \in Nodes : k # n => rt'[k] = rt[k] /\ status'[k] = status[k]
                                   /\ recorded'[k] = recorded[k]
  BY <1>0, <1>1 DEF TypeOK
<1>3. TypeOK'
  <2>1. rt' \in [Nodes -> Runtimes]
    BY <1>0, <1>1, NoPoints DEF TypeOK, Runtimes, Rings
  <2>2. status' \in [Nodes -> {"new", "registered", "deleted"}]
        /\ recorded' \in [Nodes -> SUBSET Times]
    BY <1>0, <1>1 DEF TypeOK
  <2>3. \A k \in Nodes : status'[k] = "registered" => rt'[k].present
    BY <1>0, <1>2 DEF TypeOK
  <2> QED
    BY <1>0, <1>1, <2>1, <2>2, <2>3 DEF TypeOK, Runtimes, Rings
<1>4. RuntimeInv'
  <2>1. Never <= now
    BY <1>0 DEF TypeOK, Times, Never
  <2>2. \A k \in Nodes :
          /\ ~rt'[k].present => rt'[k] = NoRuntime
          /\ Spaced(rt'[k].ring)
          /\ rt'[k].lastHistory <= now
          /\ \A i \in 1..rt'[k].ring.count : All(rt'[k].ring)[i] <= rt'[k].lastHistory
    BY <1>0, <1>2, <2>1, NoPoints DEF RuntimeInv
  <2> QED
    BY <1>1, <2>2 DEF RuntimeInv
<1>5. ClockInv'
  BY <1>0, <1>1 DEF ClockInv
<1>6. YoungInv'
  BY <1>0, <1>1, <1>2 DEF YoungInv
<1>7. RecordedInv'
  BY <1>0, <1>1, <1>2, NoPoints DEF RecordedInv
<1> QED
  BY <1>3, <1>4, <1>5, <1>6, <1>7 DEF IInv

LEMMA AuthenticateKeeps ==
    ASSUME IInv, NEW h \in Handlers, NEW n \in Nodes, Authenticate(h, n)
    PROVE  IInv'
<1>1. status[n] = "registered" /\ phase' = [phase EXCEPT ![h] = "authenticated"]
      /\ node' = [node EXCEPT ![h] = n]
      /\ UNCHANGED <<now, status, rt, clock, ticked, restarts, recorded>>
  BY DEF Authenticate
<1>0. TypeOK /\ RuntimeInv /\ ClockInv /\ YoungInv /\ RecordedInv
  BY DEF IInv
<1>2. \A g \in Handlers : node'[g] = (IF g = h THEN n ELSE node[g])
                          /\ (g # h => phase'[g] = phase[g])
  BY <1>0, <1>1 DEF TypeOK
<1>3. TypeOK'
  BY <1>0, <1>1 DEF TypeOK
<1>4. RuntimeInv'
  BY <1>0, <1>1 DEF RuntimeInv
<1>5. ClockInv'
  BY <1>0, <1>1, <1>2 DEF ClockInv
<1>6. YoungInv'
  BY <1>0, <1>1, <1>2 DEF YoungInv
<1>7. RecordedInv'
  BY <1>0, <1>1 DEF RecordedInv
<1> QED
  BY <1>3, <1>4, <1>5, <1>6, <1>7 DEF IInv

LEMMA ReadClockKeeps ==
    ASSUME IInv, NEW h \in Handlers, ReadClock(h)
    PROVE  IInv'
<1>1. phase[h] = "authenticated" /\ phase' = [phase EXCEPT ![h] = "timed"]
      /\ clock' = [clock EXCEPT ![h] = now]
      /\ UNCHANGED <<now, status, rt, node, ticked, restarts, recorded>>
  BY DEF ReadClock
<1>0. TypeOK /\ RuntimeInv /\ ClockInv /\ YoungInv /\ RecordedInv
  BY DEF IInv
<1>2. \A g \in Handlers : clock'[g] = (IF g = h THEN now ELSE clock[g])
                          /\ (g # h => phase'[g] = phase[g])
  BY <1>0, <1>1 DEF TypeOK
<1>3. TypeOK'
  BY <1>0, <1>1 DEF TypeOK
<1>4. RuntimeInv'
  BY <1>0, <1>1 DEF RuntimeInv
<1>5. ClockInv'
  <2>1. now <= now
    BY <1>0 DEF TypeOK, Times
  <2> QED
    BY <1>0, <1>1, <1>2, <2>1 DEF ClockInv
<1>6. YoungInv'
  BY <1>0, <1>1 DEF YoungInv
<1>7. RecordedInv'
  BY <1>0, <1>1 DEF RecordedInv
<1> QED
  BY <1>3, <1>4, <1>5, <1>6, <1>7 DEF IInv

LEMMA TickerFiresKeeps ==
    ASSUME IInv, TickerFires
    PROVE  IInv'
<1>1. ticked' = now /\ UNCHANGED <<now, status, rt, phase, node, clock, restarts, recorded>>
  BY DEF TickerFires, handlerVars
<1>0. TypeOK /\ RuntimeInv /\ ClockInv /\ YoungInv /\ RecordedInv
  BY DEF IInv
<1>3. TypeOK'
  BY <1>0, <1>1 DEF TypeOK
<1>4. RuntimeInv'
  BY <1>0, <1>1 DEF RuntimeInv
<1>5. ClockInv'
  <2>1. now <= now
    BY <1>0 DEF TypeOK, Times
  <2> QED
    BY <1>0, <1>1, <2>1 DEF ClockInv
<1>6. YoungInv'
  BY <1>0, <1>1 DEF YoungInv
<1>7. RecordedInv'
  BY <1>0, <1>1 DEF RecordedInv
<1> QED
  BY <1>3, <1>4, <1>5, <1>6, <1>7 DEF IInv

LEMMA TickKeeps ==
    ASSUME IInv, Tick
    PROVE  IInv'
<1>1. now < MaxTime /\ now' = now + 1
      /\ UNCHANGED <<status, rt, phase, node, clock, ticked, restarts, recorded>>
  BY DEF Tick, handlerVars
<1>0. TypeOK /\ RuntimeInv /\ ClockInv /\ YoungInv /\ RecordedInv
  BY DEF IInv
<1>2. now \in Int /\ now' \in Times /\ now <= now' /\ Window \in Int /\ now' \in Int
  BY <1>0, <1>1, Constants DEF TypeOK, Times
<1>3. TypeOK'
  BY <1>0, <1>1, <1>2 DEF TypeOK
<1>4. RuntimeInv'
  <2>1. \A n \in Nodes : rt[n].lastHistory <= now'
    <3> TAKE n \in Nodes
    <3>1. rt[n].lastHistory \in Int /\ rt[n].lastHistory <= now
      BY <1>0, RuntimeParts DEF RuntimeInv
    <3> QED
      BY <3>1, <1>2
  <2> QED
    BY <1>0, <1>1, <2>1 DEF RuntimeInv
<1>5. ClockInv'
  <2>1. \A h \in Handlers : clock[h] <= now'
    <3> TAKE h \in Handlers
    <3>1. clock[h] \in Int /\ clock[h] <= now
      BY <1>0 DEF TypeOK, ClockInv, Times
    <3> QED
      BY <3>1, <1>2
  <2>2. ticked <= now'
    BY <1>0, <1>2 DEF TypeOK, ClockInv, Times, Never
  <2> QED
    BY <1>0, <1>1, <2>1, <2>2 DEF ClockInv
<1>6. YoungInv'
  <2>1. \A n \in Nodes : \A t \in recorded[n] : t > now' - Window => t > now - Window
    <3>1. ASSUME NEW n \in Nodes, NEW t \in recorded[n], t > now' - Window
          PROVE  t > now - Window
      <4>1. t \in Int
        BY <1>0 DEF TypeOK, Times
      <4>2. now \in Int /\ now' \in Int /\ Window \in Int /\ now <= now'
        BY <1>2
      <4> DEFINE x == now
                 y == now'
      <4>3. x \in Int /\ y \in Int /\ x <= y /\ t > y - Window
        BY <4>2, <3>1
      <4> HIDE DEF x, y
      <4>4. t > x - Window
        BY <4>1, <4>2, <4>3
      <4> QED
        BY <4>4 DEF x
    <3> QED
      BY <3>1
  <2> QED
    BY <1>0, <1>1, <2>1 DEF YoungInv
<1>7. RecordedInv'
  BY <1>0, <1>1 DEF RecordedInv
<1> QED
  BY <1>3, <1>4, <1>5, <1>6, <1>7 DEF IInv

LEMMA RestartKeeps ==
    ASSUME IInv, Restart
    PROVE  IInv'
<1>1. restarts < MaxRestarts /\ restarts' = restarts + 1
      /\ rt' = [n \in Nodes |-> IF status[n] = "registered" THEN NewRuntime ELSE NoRuntime]
      /\ recorded' = [n \in Nodes |-> {}]
      /\ phase' = [h \in Handlers |-> "idle"]
      /\ node' = [h \in Handlers |-> NoNode]
      /\ clock' = [h \in Handlers |-> 0]
      /\ ticked' = Never
      /\ UNCHANGED <<now, status>>
  BY DEF Restart
<1>0. TypeOK /\ RuntimeInv /\ ClockInv /\ YoungInv /\ RecordedInv
  BY DEF IInv
<1>2. 0 \in Times /\ 0 <= now /\ Never <= now
  BY <1>0, Constants DEF TypeOK, Times, Never
<1>3. TypeOK'
  <2>1. rt' \in [Nodes -> Runtimes]
    BY <1>1, NoPoints
  <2>2. restarts' \in 0..MaxRestarts
    BY <1>0, <1>1, Constants DEF TypeOK
  <2>3. \A k \in Nodes : status'[k] = "registered" => rt'[k].present
    BY <1>1, NoPoints
  <2> QED
    BY <1>0, <1>1, <1>2, <2>1, <2>2, <2>3 DEF TypeOK, Runtimes, Rings
<1>4. RuntimeInv'
  <2>2. \A k \in Nodes :
          /\ ~rt'[k].present => rt'[k] = NoRuntime
          /\ Spaced(rt'[k].ring)
          /\ rt'[k].lastHistory <= now
          /\ \A i \in 1..rt'[k].ring.count : All(rt'[k].ring)[i] <= rt'[k].lastHistory
    <3> TAKE k \in Nodes
    <3>1. rt'[k] = NewRuntime \/ rt'[k] = NoRuntime
      BY <1>1
    <3> QED
      BY <3>1, <1>2, NoPoints
  <2> QED
    BY <1>1, <2>2 DEF RuntimeInv
<1>5. ClockInv'
  BY <1>1, <1>2 DEF ClockInv
<1>6. YoungInv'
  <2>1. \A k \in Nodes : status'[k] = "new" => rt'[k] = NoRuntime
    BY <1>1
  <2>2. \A k \in Nodes : recorded'[k] = {} /\ \A h \in Handlers : node'[h] # k
    BY <1>1, Constants
  <2> QED
    BY <2>1, <2>2 DEF YoungInv
<1>7. RecordedInv'
  <2>1. ASSUME NEW k \in Nodes PROVE rt'[k].ring.count = 0
    BY <1>1, NoPoints
  <2> QED
    BY <2>1 DEF RecordedInv
<1> QED
  BY <1>3, <1>4, <1>5, <1>6, <1>7 DEF IInv

\* What Record makes of the runtime of its node.
LEMMA RecordEffect ==
    ASSUME IInv, NEW h \in Handlers, Record(h)
    PROVE  LET n == node[h]
               t == clock[h]
           IN  /\ n \in Nodes /\ status[n] # "new" /\ rt'[n] \in Runtimes /\ rt'[n].present
               /\ \/ /\ rt'[n].ring = rt[n].ring /\ rt'[n].lastHistory = rt[n].lastHistory
                     /\ recorded' = recorded
                  \/ /\ rt'[n].ring = Add(rt[n].ring, t) /\ rt'[n].lastHistory = t
                     /\ recorded' = [recorded EXCEPT ![n] = @ \cup {t}]
                     /\ \A i \in 1..rt[n].ring.count : All(rt[n].ring)[i] + Gap <= t
               /\ rt' \in [Nodes -> Runtimes]
               /\ \A k \in Nodes : k # n => rt'[k] = rt[k]
               /\ t \in Times /\ t \in Int /\ t <= now
<1>0. TypeOK /\ RuntimeInv /\ ClockInv /\ YoungInv /\ RecordedInv
  BY DEF IInv
<1> DEFINE n == node[h]
           t == clock[h]
           r == Current(n)
           u == [r EXCEPT !.ring = Add(@, t), !.lastHistory = t]
<1>1. n \in Nodes /\ status[n] # "new" /\ t \in Times /\ t \in Int /\ t <= now
  <2>1. phase[h] = "timed"
    BY DEF Record
  <2>2. n \in Nodes /\ t \in Times /\ t <= now
    BY <1>0, <2>1 DEF TypeOK, ClockInv
  <2>3. t \in Int
    BY <2>2 DEF Times
  <2> QED
    BY <1>0, <2>2, <2>3 DEF YoungInv
<1>2. rt \in [Nodes -> Runtimes]
  BY <1>0 DEF TypeOK, Runtimes, Rings
<1>3. /\ r \in Runtimes /\ r.present
      /\ r.ring = rt[n].ring /\ r.lastHistory = rt[n].lastHistory
  BY <1>0, <1>1, <1>2, NoPoints DEF Current, RuntimeInv
<1>4. CASE PointDue(r, t)
  <2>1. rt' = [rt EXCEPT ![n] = u] /\ recorded' = [recorded EXCEPT ![n] = @ \cup {t}]
    BY <1>4 DEF Record
  <2>2. u \in Runtimes /\ u.present /\ u.ring = Add(rt[n].ring, t) /\ u.lastHistory = t
    <3> DEFINE a == Add(r.ring, t)
    <3>1. a \in Rings /\ a = Add(rt[n].ring, t)
      <4>1. r.ring \in Rings
        BY <1>3 DEF Runtimes
      <4> QED
        BY <4>1, <1>1, <1>3, AddParts
    <3>2. u = [r EXCEPT !.ring = a, !.lastHistory = t]
      OBVIOUS
    <3> HIDE DEF a, r, u, t
    <3>3. u \in Runtimes /\ (u.present <=> r.present) /\ u.ring = a /\ u.lastHistory = t
      BY <3>1, <3>2, <1>1, <1>3 DEF Runtimes
    <3> QED
      BY <3>1, <3>3, <1>3
  <2> HIDE DEF u
  <2>3. \A i \in 1..rt[n].ring.count : All(rt[n].ring)[i] + Gap <= t
    <3> DEFINE last == rt[n].lastHistory
               s == All(rt[n].ring)
               c == rt[n].ring.count
    <3>1. /\ last \in Int /\ Gap \in Int /\ (last = Never \/ t - last >= Gap)
          /\ \A i \in 1..c : s[i] \in Times /\ s[i] \in Int /\ s[i] <= last
      BY <1>0, <1>1, <1>3, <1>4, RuntimeParts, AllType, Constants DEF PointDue, RuntimeInv
    <3>2. \A x \in Times : ~(x <= Never)
      BY DEF Times, Never
    <3> HIDE DEF last, s, c, t
    <3>3. ASSUME NEW i \in 1..c PROVE s[i] + Gap <= t
      <4>1. last # Never
        BY <3>1, <3>2
      <4>2. t - last >= Gap /\ s[i] <= last /\ s[i] \in Int /\ last \in Int /\ Gap \in Int /\ t \in Int
        BY <3>1, <4>1, <1>1
      <4> DEFINE x == s[i]
      <4>3. t - last >= Gap /\ x <= last /\ x \in Int
        BY <4>2
      <4> HIDE DEF x
      <4>4. x + Gap <= t
        BY <4>2, <4>3
      <4> QED
        BY <4>4 DEF x
    <3> QED
      BY <3>3 DEF s, c
  <2> HIDE DEF n, t
  <2>4. rt'[n] = u /\ rt' \in [Nodes -> Runtimes] /\ \A k \in Nodes : k # n => rt'[k] = rt[k]
    BY <2>1, <2>2, <1>1, <1>2
  <2>5. /\ n \in Nodes /\ status[n] # "new" /\ rt'[n] \in Runtimes /\ rt'[n].present
        /\ rt'[n].ring = Add(rt[n].ring, t) /\ rt'[n].lastHistory = t
        /\ recorded' = [recorded EXCEPT ![n] = @ \cup {t}]
        /\ \A i \in 1..rt[n].ring.count : All(rt[n].ring)[i] + Gap <= t
        /\ t \in Times /\ t \in Int /\ t <= now
        /\ rt' \in [Nodes -> Runtimes] /\ \A k \in Nodes : k # n => rt'[k] = rt[k]
    BY <2>1, <2>2, <2>3, <2>4, <1>1
  <2> QED
    BY <2>5 DEF n, t
<1>5. CASE ~PointDue(r, t)
  <2>1. rt' = [rt EXCEPT ![n] = r] /\ recorded' = recorded
    BY <1>5 DEF Record
  <2> HIDE DEF n, t, r
  <2>2. rt'[n] = r /\ rt' \in [Nodes -> Runtimes] /\ \A k \in Nodes : k # n => rt'[k] = rt[k]
    BY <2>1, <1>1, <1>2, <1>3
  <2>3. /\ n \in Nodes /\ status[n] # "new" /\ rt'[n] \in Runtimes /\ rt'[n].present
        /\ rt'[n].ring = rt[n].ring /\ rt'[n].lastHistory = rt[n].lastHistory
        /\ recorded' = recorded
        /\ t \in Times /\ t \in Int /\ t <= now
        /\ rt' \in [Nodes -> Runtimes] /\ \A k \in Nodes : k # n => rt'[k] = rt[k]
    BY <2>1, <2>2, <1>1, <1>3
  <2> QED
    BY <2>3 DEF n, t
<1> QED
  BY <1>4, <1>5

LEMMA RecordKeeps ==
    ASSUME IInv, NEW h \in Handlers, Record(h)
    PROVE  IInv'
<1>0. TypeOK /\ RuntimeInv /\ ClockInv /\ YoungInv /\ RecordedInv
  BY DEF IInv
<1> DEFINE n == node[h]
           t == clock[h]
           r == rt[n].ring
           q == rt'[n].ring
<1>1. /\ n \in Nodes /\ status[n] # "new" /\ rt'[n] \in Runtimes /\ rt'[n].present
      /\ \/ /\ q = r /\ rt'[n].lastHistory = rt[n].lastHistory
            /\ recorded' = recorded
         \/ /\ q = Add(r, t) /\ rt'[n].lastHistory = t
            /\ recorded' = [recorded EXCEPT ![n] = @ \cup {t}]
            /\ \A i \in 1..r.count : All(r)[i] + Gap <= t
      /\ rt' \in [Nodes -> Runtimes]
      /\ \A k \in Nodes : k # n => rt'[k] = rt[k]
      /\ t \in Times /\ t \in Int /\ t <= now
  BY RecordEffect
<1>2. /\ phase' = [phase EXCEPT ![h] = "idle"]
      /\ node' = [node EXCEPT ![h] = NoNode]
      /\ clock' = [clock EXCEPT ![h] = 0]
      /\ UNCHANGED <<now, status, ticked, restarts>>
  BY DEF Record
<1>3. r \in Rings /\ Spaced(r) /\ now \in Int /\ Window \in Int
  BY <1>1, RuntimeParts
<1>4. /\ Spaced(q)
      /\ \A i \in 1..q.count : All(q)[i] <= rt'[n].lastHistory
      /\ rt'[n].lastHistory <= now
      /\ \A p \in recorded'[n] : p > now - Window => \E i \in 1..q.count : All(q)[i] = p
      /\ \A i \in 1..q.count : All(q)[i] \in recorded'[n]
      /\ \A k \in Nodes : k # n => recorded'[k] = recorded[k]
      /\ recorded' \in [Nodes -> SUBSET Times]
  <2>1. CASE q = r /\ rt'[n].lastHistory = rt[n].lastHistory /\ recorded' = recorded
    <3>1. /\ \A i \in 1..r.count : All(r)[i] <= rt[n].lastHistory
          /\ rt[n].lastHistory <= now
      BY <1>0, <1>1 DEF RuntimeInv
    <3>2. \A p \in recorded[n] : p > now - Window => \E i \in 1..r.count : All(r)[i] = p
      BY <1>0, <1>1 DEF YoungInv
    <3>3. recorded' \in [Nodes -> SUBSET Times]
      BY <1>0, <2>1 DEF TypeOK
    <3>4. \A i \in 1..r.count : All(r)[i] \in recorded[n]
      BY <1>0, <1>1 DEF RecordedInv
    <3> HIDE DEF n, t, r, q
    <3> QED
      BY <2>1, <1>3, <3>1, <3>2, <3>3, <3>4
  <2>2. CASE /\ q = Add(r, t) /\ rt'[n].lastHistory = t
             /\ recorded' = [recorded EXCEPT ![n] = @ \cup {t}]
             /\ \A i \in 1..r.count : All(r)[i] + Gap <= t
    <3>1. /\ Spaced(q)
          /\ \A i \in 1..q.count : All(q)[i] <= t
          /\ \E i \in 1..q.count : All(q)[i] = t
          /\ \A i \in 1..r.count :
                  \/ \E j \in 1..q.count : All(q)[j] = All(r)[i]
                  \/ All(r)[i] <= t - Capacity * Gap
          /\ \A j \in 1..q.count : All(q)[j] = t \/ \E i \in 1..r.count : All(q)[j] = All(r)[i]
      <4> HIDE DEF r, t, q
      <4>1. /\ Spaced(Add(r, t))
            /\ \A i \in 1..Add(r, t).count : All(Add(r, t))[i] <= t
            /\ \E i \in 1..Add(r, t).count : All(Add(r, t))[i] = t
            /\ \A i \in 1..r.count :
                   \/ \E j \in 1..Add(r, t).count : All(Add(r, t))[j] = All(r)[i]
                   \/ All(r)[i] <= t - Capacity * Gap
            /\ \A j \in 1..Add(r, t).count :
                   \/ All(Add(r, t))[j] = t
                   \/ \E i \in 1..r.count : All(Add(r, t))[j] = All(r)[i]
        BY <1>1, <1>3, <2>2, AddKeeps
      <4> QED
        BY <4>1, <2>2
    <3>2. /\ recorded'[n] = recorded[n] \cup {t}
          /\ \A k \in Nodes : k # n => recorded'[k] = recorded[k]
          /\ recorded' \in [Nodes -> SUBSET Times]
      <4> HIDE DEF n, t
      <4> QED
        BY <1>0, <1>1, <2>2 DEF TypeOK
    <3>3. ASSUME NEW p \in recorded[n], p > now - Window PROVE \E i \in 1..q.count : All(q)[i] = p
      <4>1. PICK i \in 1..r.count : All(r)[i] = p
        BY <1>0, <1>1, <3>3 DEF YoungInv
      <4>2. p \in Int
        BY <1>0, <1>1 DEF TypeOK, Times
      <4>3. Capacity * Gap \in Int /\ Window <= Capacity * Gap
        BY Constants
      <4> DEFINE w == Capacity * Gap
                 x == All(r)[i]
      <4>4. w \in Int /\ Window <= w
        BY <4>3
      <4>5. (\E j \in 1..q.count : All(q)[j] = x) \/ x <= t - w
        BY <3>1
      <4>6. x = p
        BY <4>1
      <4> HIDE DEF w, t, x, q
      <4>7. ~(p <= t - w)
        BY <4>2, <4>4, <3>3, <1>1, <1>3
      <4> QED
        BY <4>5, <4>6, <4>7
    <3>4. \A i \in 1..q.count : All(q)[i] \in recorded'[n]
      <4>1. \A i \in 1..r.count : All(r)[i] \in recorded[n]
        BY <1>0, <1>1 DEF RecordedInv
      <4> HIDE DEF n, t, r, q
      <4> QED
        BY <4>1, <3>1, <3>2
    <3> QED
      BY <2>2, <3>1, <3>2, <3>3, <3>4, <1>1
  <2> QED
    BY <1>1, <2>1, <2>2
<1> HIDE DEF n, t, r
<1>5. TypeOK'
  <2>1. \A k \in Nodes : status'[k] = "registered" => rt'[k].present
    BY <1>0, <1>1, <1>2 DEF TypeOK
  <2>2. 0 \in Times
    BY Constants DEF Times
  <2> QED
    BY <1>0, <1>1, <1>2, <1>4, <2>1, <2>2 DEF TypeOK, Runtimes, Rings
<1>6. RuntimeInv'
  <2>1. \A k \in Nodes :
          /\ ~rt'[k].present => rt'[k] = NoRuntime
          /\ Spaced(rt'[k].ring)
          /\ rt'[k].lastHistory <= now
          /\ \A i \in 1..rt'[k].ring.count : All(rt'[k].ring)[i] <= rt'[k].lastHistory
    <3> TAKE k \in Nodes
    <3>1. CASE k = n
      BY <3>1, <1>1, <1>4
    <3>2. CASE k # n
      BY <3>2, <1>0, <1>1 DEF RuntimeInv
    <3> QED
      BY <3>1, <3>2
  <2> QED
    BY <1>2, <2>1 DEF RuntimeInv
<1>7. ClockInv'
  <2>1. \A g \in Handlers : clock'[g] = (IF g = h THEN 0 ELSE clock[g])
                            /\ phase'[g] = (IF g = h THEN "idle" ELSE phase[g])
                            /\ (g # h => node'[g] = node[g])
    BY <1>0, <1>2 DEF TypeOK
  <2>2. 0 <= now
    BY <1>0 DEF TypeOK, Times
  <2> QED
    BY <1>0, <1>2, <2>1, <2>2 DEF ClockInv
<1>8. YoungInv'
  <2>1. \A g \in Handlers : node'[g] = IF g = h THEN NoNode ELSE node[g]
    BY <1>0, <1>2 DEF TypeOK
  <2>2. ASSUME NEW k \in Nodes
        PROVE  /\ \A p \in recorded'[k] :
                      p > now - Window => \E i \in 1..rt'[k].ring.count : All(rt'[k].ring)[i] = p
               /\ status[k] = "new" => /\ recorded'[k] = {} /\ rt'[k] = NoRuntime
                                       /\ \A g \in Handlers : node'[g] # k
    <3>1. CASE k = n
      BY <3>1, <1>1, <1>4
    <3>2. CASE k # n
      <4>1. rt'[k] = rt[k] /\ recorded'[k] = recorded[k]
        BY <3>2, <1>1, <1>4
      <4>2. k # NoNode
        BY Constants
      <4> QED
        BY <4>1, <4>2, <2>1, <1>0 DEF YoungInv
    <3> QED
      BY <3>1, <3>2
  <2> QED
    BY <1>2, <2>2 DEF YoungInv
<1>9. RecordedInv'
  <2>1. ASSUME NEW k \in Nodes
        PROVE  \A i \in 1..rt'[k].ring.count : All(rt'[k].ring)[i] \in recorded'[k]
    <3>1. CASE k = n
      BY <3>1, <1>4
    <3>2. CASE k # n
      <4>1. rt'[k] = rt[k] /\ recorded'[k] = recorded[k]
        BY <3>2, <1>1, <1>4
      <4> QED
        BY <4>1, <1>0 DEF RecordedInv
    <3> QED
      BY <3>1, <3>2
  <2> QED
    BY <2>1 DEF RecordedInv
<1> QED
  BY <1>5, <1>6, <1>7, <1>8, <1>9 DEF IInv

LEMMA PruneAllKeeps ==
    ASSUME IInv, PruneAll
    PROVE  IInv'
<1>0. TypeOK /\ RuntimeInv /\ ClockInv /\ YoungInv /\ RecordedInv
  BY DEF IInv
<1> DEFINE cut == ticked - Window
<1>1. /\ ticked # Never /\ ticked' = Never
      /\ rt' = [n \in Nodes |-> IF rt[n].present
                                THEN [rt[n] EXCEPT !.ring = Prune(@, cut)]
                                ELSE rt[n]]
      /\ UNCHANGED <<now, status, phase, node, clock, restarts, recorded>>
  BY DEF PruneAll, handlerVars
<1>2. ticked \in Int /\ ticked <= now /\ now \in Int /\ Window \in Int /\ cut \in Int
      /\ cut <= now - Window /\ Never <= now
  BY <1>0, Constants DEF TypeOK, ClockInv, Times, Never
<1> HIDE DEF cut
<1>3. ASSUME NEW n \in Nodes
      PROVE  /\ rt'[n] \in Runtimes /\ (rt'[n].present <=> rt[n].present)
             /\ rt'[n].lastHistory = rt[n].lastHistory
             /\ ~rt[n].present => rt'[n] = rt[n]
             /\ rt[n].present => rt'[n].ring = Prune(rt[n].ring, cut)
             /\ Spaced(rt'[n].ring)
             /\ \A m \in 1..rt'[n].ring.count :
                    \E i \in 1..rt[n].ring.count : All(rt'[n].ring)[m] = All(rt[n].ring)[i]
             /\ \A i \in 1..rt[n].ring.count : All(rt[n].ring)[i] >= cut =>
                    \E m \in 1..rt'[n].ring.count : All(rt'[n].ring)[m] = All(rt[n].ring)[i]
  <2> DEFINE p == Prune(rt[n].ring, cut)
             u == rt[n]
  <2>1. u \in Runtimes /\ u.ring \in Rings /\ Spaced(u.ring)
    BY RuntimeParts
  <2>2. /\ p \in Rings /\ Spaced(p)
        /\ \A m \in 1..p.count : \E i \in 1..u.ring.count : All(p)[m] = All(u.ring)[i]
        /\ \A i \in 1..u.ring.count : All(u.ring)[i] >= cut =>
               \E m \in 1..p.count : All(p)[m] = All(u.ring)[i]
    <3> DEFINE r == u.ring
    <3>1. r \in Rings /\ Spaced(r)
      BY <2>1
    <3> HIDE DEF r
    <3>2. /\ Prune(r, cut) \in Rings
          /\ Spaced(Prune(r, cut))
          /\ \A m \in 1..Prune(r, cut).count :
                 \E i \in 1..r.count : All(Prune(r, cut))[m] = All(r)[i]
          /\ \A i \in 1..r.count : All(r)[i] >= cut =>
                 \E m \in 1..Prune(r, cut).count : All(Prune(r, cut))[m] = All(r)[i]
      BY <3>1, <1>2, PruneKeeps
    <3> QED
      BY <3>2 DEF r
  <2>3. rt'[n] = IF u.present THEN [u EXCEPT !.ring = p] ELSE u
    BY <1>1
  <2> HIDE DEF p
  <2>4. CASE u.present
    <3>1. /\ rt'[n] \in Runtimes /\ (rt'[n].present <=> u.present)
          /\ rt'[n].lastHistory = u.lastHistory /\ rt'[n].ring = p
      <4> HIDE DEF u
      <4>1. rt'[n] = [u EXCEPT !.ring = p]
        BY <2>3, <2>4
      <4> QED
        BY <4>1, <2>1, <2>2 DEF Runtimes
    <3> QED
      BY <2>2, <2>4, <3>1 DEF p
  <2>5. CASE ~u.present
    <3>1. rt'[n] = u
      BY <2>3, <2>5
    <3> QED
      BY <2>1, <2>5, <3>1
  <2> QED
    BY <2>4, <2>5
<1>4. TypeOK'
  <2>1. rt' \in [Nodes -> Runtimes]
    <3>1. DOMAIN rt' = Nodes /\ rt' = [n \in Nodes |-> rt'[n]]
      BY <1>1
    <3> QED
      BY <3>1, <1>3
  <2> QED
    BY <2>1, <1>0, <1>1, <1>3 DEF TypeOK, Runtimes, Rings
<1>5. RuntimeInv'
  <2>1. ASSUME NEW n \in Nodes
        PROVE  /\ ~rt'[n].present => rt'[n] = NoRuntime
               /\ Spaced(rt'[n].ring)
               /\ rt'[n].lastHistory <= now
               /\ \A i \in 1..rt'[n].ring.count : All(rt'[n].ring)[i] <= rt'[n].lastHistory
    BY <1>0, <1>3 DEF RuntimeInv
  <2> QED
    BY <1>1, <2>1 DEF RuntimeInv
<1>6. ClockInv'
  BY <1>0, <1>1, <1>2 DEF ClockInv
<1>7. YoungInv'
  <2>1. ASSUME NEW n \in Nodes, NEW p \in recorded[n], p > now - Window
        PROVE  \E i \in 1..rt'[n].ring.count : All(rt'[n].ring)[i] = p
    <3>1. PICK i \in 1..rt[n].ring.count : All(rt[n].ring)[i] = p
      BY <1>0, <2>1 DEF YoungInv
    <3>2. p \in Int
      BY <1>0 DEF TypeOK, Times
    <3>3. p >= cut
      BY <3>2, <2>1, <1>2
    <3> QED
      BY <3>1, <3>3, <1>3
  <2>2. \A n \in Nodes : status[n] = "new" => rt'[n] = NoRuntime
    BY <1>0, <1>3, NoPoints DEF YoungInv
  <2> QED
    BY <1>0, <1>1, <2>1, <2>2 DEF YoungInv
<1>8. RecordedInv'
  <2>1. ASSUME NEW n \in Nodes, NEW m \in 1..rt'[n].ring.count
        PROVE  All(rt'[n].ring)[m] \in recorded[n]
    <3>1. PICK i \in 1..rt[n].ring.count : All(rt'[n].ring)[m] = All(rt[n].ring)[i]
      BY <1>3
    <3> QED
      BY <3>1, <1>0 DEF RecordedInv
  <2> QED
    BY <2>1, <1>1 DEF RecordedInv
<1> QED
  BY <1>4, <1>5, <1>6, <1>7, <1>8 DEF IInv

LEMMA StepKeeps ==
    IInv /\ [Next]_vars => IInv'
<1> SUFFICES ASSUME IInv, [Next]_vars PROVE IInv'
  OBVIOUS
<1>1. CASE UNCHANGED vars
  <2>1. UNCHANGED <<now, status, rt, phase, node, clock, ticked, restarts, recorded>>
    BY <1>1 DEF vars, handlerVars
  <2>2. TypeOK'
    BY <2>1 DEF IInv, TypeOK
  <2>3. RuntimeInv'
    BY <2>1 DEF IInv, RuntimeInv
  <2>4. ClockInv'
    BY <2>1 DEF IInv, ClockInv
  <2>5. YoungInv'
    BY <2>1 DEF IInv, YoungInv
  <2>6. RecordedInv'
    BY <2>1 DEF IInv, RecordedInv
  <2> QED
    BY <2>2, <2>3, <2>4, <2>5, <2>6 DEF IInv
<1>2. CASE Next
  BY <1>2, CreateNodeKeeps, DeleteNodeKeeps, ReadClockKeeps, RecordKeeps, AuthenticateKeeps,
     TickerFiresKeeps, PruneAllKeeps, RestartKeeps, TickKeeps DEF Next
<1> QED
  BY <1>1, <1>2

\* In every state each node's points are in order and a gap apart, not younger
\* than the time of its latest point, and the young ones are in the ring
\* (agentHeartbeat, Ring.Add and Ring.Prune).
THEOREM HistoryInvariant == Spec => []IInv
<1>1. Init => IInv
  BY InitHolds
<1>2. IInv /\ [Next]_vars => IInv'
  BY StepKeeps
<1> QED
  BY <1>1, <1>2, PTL DEF Spec

\* Every variable keeps its type; the indices of a ring stay inside it.
THEOREM TypeCorrect == Spec => []TypeOK
<1>1. IInv => TypeOK
  BY DEF IInv
<1> QED
  BY <1>1, HistoryInvariant, PTL

\* What nodeHistory shows is the last hour and nothing else, although Record
\* overwrites the oldest point of a full ring, Prune leaves old points in the
\* slots it gives up, and the maintenance loop prunes with a clock that may be
\* old.
THEOREM ChartIsExact == Spec => []HourIsExact
<1>1. ASSUME IInv, NEW n \in Nodes
      PROVE  LET shown == Range(ShownPoints(n))
             IN  /\ {t \in recorded[n] : t > now - Window} \subseteq shown
                 /\ shown \subseteq {t \in recorded[n] : t >= now - Window}
  <2> DEFINE r == rt[n].ring
             cut == now - Window
  <2>1. r \in Rings /\ cut \in Int
    BY <1>1, RuntimeParts
  <2>2. ASSUME NEW t \in recorded[n], t > cut PROVE t \in Range(ShownPoints(n))
    <3>1. PICK i \in 1..r.count : All(r)[i] = t
      BY <1>1, <2>2 DEF IInv, YoungInv
    <3>2. t \in Int
      BY <1>1 DEF IInv, TypeOK, Times
    <3> HIDE DEF cut, r
    <3>3. t >= cut
      BY <2>1, <2>2, <3>2
    <3>4. All(r)[i] \in Range(Since(r, cut))
      BY <2>1, <3>1, <3>3, SinceHas
    <3> QED
      BY <3>1, <3>4 DEF ShownPoints, r, cut
  <2>3. ASSUME NEW t \in Range(ShownPoints(n)) PROVE t \in recorded[n] /\ t >= cut
    <3>1. t \in Range(Since(r, cut))
      BY <2>3 DEF ShownPoints
    <3>2. \A i \in 1..r.count : All(r)[i] \in recorded[n]
      BY <1>1 DEF IInv, RecordedInv
    <3> HIDE DEF cut, r
    <3>3. t >= cut /\ \E j \in 1..r.count : All(r)[j] = t
      BY <2>1, <3>1, SinceOnly
    <3> QED
      BY <3>2, <3>3
  <2> QED
    BY <2>2, <2>3
<1>2. IInv => HourIsExact
  BY <1>1 DEF HourIsExact
<1> QED
  BY <1>2, HistoryInvariant, PTL
-----------------------------------------------------------------------------
(* The ring implements the sequence of the latest points. *)

LEMMA AddIsLatest ==
    ASSUME NEW r \in Rings, NEW t \in Times
    PROVE  All(Add(r, t)) = History!Latest(Append(All(r), t))
<1> DEFINE s == All(r)
           a == Add(r, t)
           b == All(a)
           c == r.count
           e == Append(s, t)
<1>1. c \in Nat /\ c <= Capacity /\ Capacity \in Nat \ {0}
  BY RingParts, Constants
<1>2. s \in Seq(Times) /\ Len(s) = c
  BY AllType
<1>3. /\ e \in Seq(Times) /\ Len(e) = c + 1 /\ e[c + 1] = t
      /\ \A i \in 1..c : e[i] = s[i]
  <2> HIDE DEF s
  <2>1. /\ e \in Seq(Times) /\ Len(e) = Len(s) + 1 /\ e[Len(s) + 1] = t
        /\ \A i \in 1..Len(s) : e[i] = s[i]
    BY <1>2, AppendProperties
  <2> QED
    BY <1>2, <2>1
<1>4. b \in Seq(Times) /\ Len(b) = a.count
  BY AddParts, AllType
<1>5. CASE c < Capacity
  <2>1. a.count = c + 1 /\ (\A i \in 1..c : b[i] = s[i]) /\ b[c + 1] = t
    BY <1>5, AddRoom
  <2> HIDE DEF a, b, s, c, e
  <2>2. ASSUME NEW i \in 1..Len(b) PROVE b[i] = e[i]
    <3>1. i = c + 1 \/ i \in 1..c
      BY <1>1, <1>4, <2>1
    <3> QED
      BY <3>1, <1>3, <2>1
  <2>3. Len(b) = Len(e)
    BY <1>3, <1>4, <2>1
  <2>4. b = e
    BY <1>3, <1>4, <2>2, <2>3, SeqEqual
  <2>5. Len(e) <= Capacity
    BY <1>1, <1>3, <1>5
  <2> QED
    BY <2>4, <2>5 DEF a, b, s, e, History!Latest
<1>6. CASE c = Capacity
  <2>1. a.count = c /\ (\A i \in 1..(c - 1) : b[i] = s[i + 1]) /\ b[c] = t
    BY <1>6, AddFull
  <2> HIDE DEF a, b, s, c, e
  <2>2. e # <<>>
    BY <1>1, <1>3
  <2>3. Tail(e) \in Seq(Times) /\ Len(Tail(e)) = c /\ \A i \in 1..c : Tail(e)[i] = e[i + 1]
    <3>1. /\ Tail(e) \in Seq(Times) /\ Len(Tail(e)) = Len(e) - 1
          /\ \A i \in 1..Len(Tail(e)) : Tail(e)[i] = e[i + 1]
      BY <1>3, <2>2, HeadTailProperties
    <3>2. Len(e) - 1 = c
      BY <1>1, <1>3
    <3> QED
      BY <3>1, <3>2
  <2>4. ASSUME NEW i \in 1..Len(b) PROVE b[i] = Tail(e)[i]
    <3>1. i \in 1..c
      BY <1>4, <2>1
    <3>2. CASE i = c
      BY <3>1, <3>2, <1>3, <2>1, <2>3
    <3>3. CASE i # c
      <4>1. i \in 1..(c - 1) /\ i + 1 \in 1..c
        BY <3>1, <3>3, <1>1
      <4> QED
        BY <4>1, <3>1, <1>3, <2>1, <2>3
    <3> QED
      BY <3>2, <3>3
  <2>5. Len(b) = Len(Tail(e))
    BY <1>4, <2>1, <2>3
  <2>6. b = Tail(e)
    BY <1>4, <2>3, <2>4, <2>5, SeqEqual
  <2>7. ~(Len(e) <= Capacity)
    BY <1>1, <1>3, <1>6
  <2> QED
    BY <2>6, <2>7 DEF a, b, s, e, History!Latest
<1> HIDE DEF c
<1> QED
  BY <1>1, <1>5, <1>6

LEMMA PruneIsSuffix ==
    ASSUME NEW r \in Rings, Spaced(r), NEW cut \in Int
    PROVE  \E k \in 0..r.count : All(Prune(r, cut)) = SubSeq(All(r), k + 1, r.count)
<1> DEFINE p == Prune(r, cut)
           b == All(p)
           s == All(r)
           c == r.count
<1>1. PICK k \in 0..c :
          p \in Rings /\ p.count = c - k /\ \A m \in 1..(c - k) : b[m] = s[k + m]
  BY PruneLeavesEnd
<1>2. c \in Nat /\ \A i \in 1..c : s[i] \in Times
  BY RingParts, AllType
<1>3. b \in Seq(Times) /\ Len(b) = c - k
  <2> HIDE DEF p
  <2> QED
    BY <1>1, AllType
<1> DEFINE e == SubSeq(s, k + 1, c)
<1> HIDE DEF p, b, s, c
<1>4. e \in Seq(Times) /\ Len(e) = c - k /\ \A m \in 1..(c - k) : e[m] = s[k + m]
  <2>1. k + 1 \in Int /\ c \in Int /\ \A i \in (k + 1)..c : s[i] \in Times
    BY <1>1, <1>2
  <2>2. /\ e \in Seq(Times)
        /\ Len(e) = IF k + 1 <= c THEN c - (k + 1) + 1 ELSE 0
        /\ \A m \in 1..(c - (k + 1) + 1) : e[m] = s[(k + 1) + m - 1]
    BY <2>1, SubSeqProperties
  <2>3. /\ c - (k + 1) + 1 = c - k /\ (~(k + 1 <= c) => c - k = 0)
        /\ \A m \in 1..(c - k) : (k + 1) + m - 1 = k + m
    BY <1>1, <1>2
  <2> HIDE DEF e
  <2> QED
    BY <2>2, <2>3
<1> HIDE DEF e
<1>5. b = e
  BY <1>1, <1>3, <1>4, SeqEqual
<1> QED
  BY <1>1, <1>5 DEF p, b, s, c, e

LEMMA AllIsSuffix ==
    ASSUME NEW r \in Rings
    PROVE  All(r) = SubSeq(All(r), 0 + 1, Len(All(r)))
  BY AllType, SubSeqFull

LEMMA NoneIsEmpty ==
    All(NewRing) = <<>>
<1>1. All(NewRing) \in Seq(Times) /\ Len(All(NewRing)) = 0
  BY NoPoints, AllType
<1> QED
  BY <1>1

\* The moves of the abstract sequence, in terms of the ring.
LEMMA Moves ==
    ASSUME IInv, NEW n \in Nodes
    PROVE  /\ rt'[n].ring = rt[n].ring => History!Expired(n)
           /\ rt'[n].ring = NewRing => History!Forgotten(n)
           /\ \A cut \in Int : rt'[n].ring = Prune(rt[n].ring, cut) => History!Expired(n)
           /\ \A t \in Times :
                  /\ rt'[n].ring = Add(rt[n].ring, t)
                  /\ \A i \in 1..rt[n].ring.count : All(rt[n].ring)[i] + Gap <= t
                  => History!Recorded(n)
<1> DEFINE r == rt[n].ring
           s == All(r)
           q == rt'[n].ring
           hist == [k \in Nodes |-> All(rt[k].ring)]
<1>1. r \in Rings /\ Spaced(r)
  BY RuntimeParts
<1>2. r.count \in Nat /\ Len(s) = r.count /\ DOMAIN s = 1..r.count
      /\ \A i \in 1..r.count : s[i] \in Int
  <2> HIDE DEF r
  <2> QED
    BY <1>1, RingParts, AllType
<1>3. hist[n] = s /\ hist'[n] = All(q)
  OBVIOUS
<1>4. ASSUME q = r PROVE History!Expired(n)
  <2>1. s = SubSeq(s, 0 + 1, Len(s)) /\ 0 \in 0..Len(s) /\ All(q) = s
    <3> HIDE DEF r, q
    <3> QED
      BY <1>1, <1>2, <1>4, AllIsSuffix
  <2>2. \E i \in 0..Len(s) : All(q) = SubSeq(s, i + 1, Len(s))
    BY <2>1
  <2> QED
    BY <2>2, <1>3 DEF History!Expired
<1>5. ASSUME q = NewRing PROVE History!Forgotten(n)
  <2>1. All(q) = <<>>
    <3> HIDE DEF q
    <3> QED
      BY <1>5, NoneIsEmpty
  <2> QED
    BY <2>1, <1>3 DEF History!Forgotten
<1>6. ASSUME NEW cut \in Int, q = Prune(r, cut) PROVE History!Expired(n)
  <2>1. \E i \in 0..Len(s) : All(q) = SubSeq(s, i + 1, Len(s))
    <3> HIDE DEF r, q
    <3>1. \E k \in 0..r.count : All(Prune(r, cut)) = SubSeq(All(r), k + 1, r.count)
      BY <1>1, PruneIsSuffix
    <3> QED
      BY <3>1, <1>2, <1>6
  <2> QED
    BY <2>1, <1>3 DEF History!Expired
<1>7. ASSUME NEW t \in Times, q = Add(r, t), \A i \in 1..r.count : s[i] + Gap <= t
      PROVE  History!Recorded(n)
  <2>1. All(q) = History!Latest(Append(s, t))
    <3> HIDE DEF r, q
    <3> QED
      BY <1>1, <1>7, AddIsLatest
  <2>2. \A i \in DOMAIN s : t >= s[i] + Gap
    <3> HIDE DEF s, r
    <3>1. t \in Int /\ Gap \in Int
      BY Constants DEF Times
    <3> QED
      BY <3>1, <1>2, <1>7
  <2> QED
    BY <2>1, <2>2, <1>3, <1>7 DEF History!Recorded
<1> QED
  BY <1>4, <1>5, <1>6, <1>7

LEMMA StepIsMove ==
    ASSUME IInv, [Next]_vars
    PROVE  History!Next
<1> SUFFICES ASSUME NEW n \in Nodes
             PROVE  History!Recorded(n) \/ History!Expired(n) \/ History!Forgotten(n)
  BY DEF History!Next
<1>0. rt \in [Nodes -> Runtimes]
  BY DEF IInv, TypeOK, Runtimes, Rings
<1>1. CASE rt' = rt
  BY <1>1, Moves
<1>2. CASE \E k \in Nodes : CreateNode(k) \/ DeleteNode(k)
  <2>1. PICK k \in Nodes : rt' = [rt EXCEPT ![k] = NewRuntime] \/ rt' = [rt EXCEPT ![k] = NoRuntime]
    BY <1>2 DEF CreateNode, DeleteNode
  <2>2. rt'[n] = rt[n] \/ rt'[n] = NewRuntime \/ rt'[n] = NoRuntime
    BY <2>1, <1>0
  <2>3. rt'[n].ring = rt[n].ring \/ rt'[n].ring = NewRing
    BY <2>2, NoPoints
  <2> QED
    BY <2>3, Moves
<1>3. ASSUME NEW h \in Handlers, Record(h)
      PROVE  History!Recorded(n) \/ History!Expired(n) \/ History!Forgotten(n)
  <2> DEFINE k == node[h]
             t == clock[h]
  <2>1. /\ t \in Times
        /\ \/ rt'[k].ring = rt[k].ring
           \/ /\ rt'[k].ring = Add(rt[k].ring, t)
              /\ \A i \in 1..rt[k].ring.count : All(rt[k].ring)[i] + Gap <= t
        /\ n # k => rt'[n] = rt[n]
    BY <1>3, RecordEffect
  <2> HIDE DEF k, t
  <2> QED
    BY <2>1, Moves
<1>4. CASE PruneAll
  <2> DEFINE cut == ticked - Window
  <2>1. cut \in Int
    <3>1. ticked \in Times \cup {Never} /\ Window \in Int
      BY Constants DEF IInv, TypeOK
    <3> QED
      BY <3>1 DEF Times, Never
  <2>2. rt'[n] = IF rt[n].present THEN [rt[n] EXCEPT !.ring = Prune(@, cut)] ELSE rt[n]
    BY <1>4 DEF PruneAll
  <2> HIDE DEF cut
  <2>3. rt'[n].ring = rt[n].ring \/ rt'[n].ring = Prune(rt[n].ring, cut)
    BY <2>2, <1>0 DEF Runtimes
  <2> QED
    BY <2>1, <2>3, Moves
<1>5. CASE Restart
  <2>1. rt'[n] = NewRuntime \/ rt'[n] = NoRuntime
    BY <1>5 DEF Restart
  <2>2. rt'[n].ring = NewRing
    BY <2>1, NoPoints
  <2> QED
    BY <2>2, Moves
<1>6. CASE TickerFires \/ Tick \/ UNCHANGED vars
           \/ \E h \in Handlers : ReadClock(h) \/ \E k \in Nodes : Authenticate(h, k)
  <2>1. rt' = rt
    BY <1>6 DEF TickerFires, Tick, vars, ReadClock, Authenticate
  <2> QED
    BY <2>1, <1>1
<1> QED
  BY <1>2, <1>3, <1>4, <1>5, <1>6 DEF Next

\* The ring with its wrapping index, its full state, the time check on a clock
\* that was read before the lock and the pruning loop behave, for each node,
\* as the sequence of its latest points, at least a gap apart and in order.
THEOREM Refinement == Spec => ImplementsRecentPoints
<1>1. Init => History!Init
  <2> SUFFICES ASSUME Init PROVE History!Init
    OBVIOUS
  <2>1. \A n \in Nodes : All(rt[n].ring) = <<>>
    <3>1. \A n \in Nodes : rt[n].ring = NewRing
      BY NoPoints DEF Init
    <3> QED
      BY <3>1, NoneIsEmpty
  <2> QED
    BY <2>1 DEF History!Init
<1>2. IInv /\ [Next]_vars => History!Next
  BY StepIsMove
<1> QED
  BY <1>1, <1>2, HistoryInvariant, PTL DEF Spec, ImplementsRecentPoints, History!Spec
=============================================================================
