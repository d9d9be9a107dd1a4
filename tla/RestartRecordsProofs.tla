------------------------ MODULE RestartRecordsProofs -------------------------
(***************************************************************************)
(* Theorems about RestartRecords, for any programs, any length of the list *)
(* and any number of stops and faults.                                     *)
(*                                                                         *)
(* The argument: a record is written before its process is touched         *)
(* (RequestInv), and from the signal on the Helper answers for the         *)
(* program, whether its process has ended or not (Charged): such a program *)
(* has a record until it is started again, or the Helper has taken the     *)
(* record back with an error (OwedInv).  As the unit is named for the      *)
(* record, a record of which nothing is left over can only start what may  *)
(* be running already (CopyInv).                                           *)
(***************************************************************************)
EXTENDS RestartRecords, SequenceTheorems, TLAPS

Listed == ToSet(list)

\* The record of the request in hand, as it was written.
Held == [id |-> helper.rec, prog |-> helper.proc.prog, canStart |-> CanRestart(helper.proc)]

\* What a request may count on at each of its steps.
RequestInv ==
    /\ helper.at \in {"saved", "signalled", "gone"} =>
          /\ helper.rec # NoRecord => Held \in Listed
          /\ CanRestart(helper.proc) => helper.rec # NoRecord
          /\ helper.op = "service_stop" => helper.proc.prog \in Services
          /\ helper.op = "restart" =>
                CanRestart(helper.proc) /\ helper.proc.prog \notin Services
    /\ helper.at = "signalled" => helper.op \in {"stop", "restart"}
    /\ helper.at = "gone" => helper.op = "restart" /\ helper.proc \notin procs
    /\ helper.at = "started" =>
          \A r \in Listed : r.id = helper.rec => r.prog = helper.proc.prog

\* The programs the Helper answers for.
Charged == owed \cup {q.prog : q \in condemned}

OwedInv ==
    /\ Charged \subseteq Direct \cup Services
    /\ \A p \in Charged \ unkept : \E r \in Listed : r.prog = p /\ r.canStart
    /\ helper.at = "started" => helper.proc.prog \notin Charged

\* What runs of a program that has a record.
Runs(r) == IF helper.at \in {"saved", "signalled"} /\ helper.rec = r.id
           THEN helper.proc ELSE Proc(r.prog, UnitOf(r.id))

CopyInv ==
    /\ \A q \in procs : q.prog \in Services => q.unit = Own
    /\ NoSecondCopy
    /\ \A r \in Listed : r.prog \notin leftover \cup Services =>
          /\ \A s \in Listed : s.prog = r.prog => s = r
          /\ Instances(r.prog) \subseteq {Runs(r)}

IInv == TypeOK /\ RequestInv /\ OwedInv /\ CopyInv

USE DEF world, file, history, vars
-----------------------------------------------------------------------------
(***************************************************************************)
(* The list.                                                               *)
(***************************************************************************)

Newer(s) == \A i, j \in DOMAIN s : i < j => s[i].id > s[j].id

LEMMA ListShape ==
    ASSUME TypeOK
    PROVE  /\ made \in Nat /\ made <= MaxStops
           /\ list \in Seq(Records) /\ Newer(list)
           /\ Len(list) \in Nat /\ DOMAIN list = 1..Len(list)
           /\ Listed = {list[k] : k \in 1..Len(list)}
           /\ Listed \subseteq Records
           /\ Ids = {r.id : r \in Listed}
<1>1. made \in Nat /\ made <= MaxStops /\ list \in Seq(Records) /\ Newer(list)
  BY RecordConstants DEF TypeOK, Newer
<1>2. Len(list) \in Nat /\ DOMAIN list = 1..Len(list)
  BY <1>1, LenProperties
<1>3. \A k \in 1..Len(list) : list[k] \in Records
  BY <1>1, ElementOfSeq
<1>4. Listed = {list[k] : k \in 1..Len(list)}
  BY <1>2 DEF Listed, ToSet
<1> QED
  BY <1>1, <1>2, <1>3, <1>4 DEF Ids

\* Records have an id each.
LEMMA OneRecordPerId ==
    ASSUME TypeOK
    PROVE  /\ \A r, s \in Listed : r.id = s.id => r = s
           /\ \A i \in Ids : RecordOf(i) \in Listed /\ RecordOf(i).id = i
           /\ \A r \in Listed : r.id \in Ids /\ RecordOf(r.id) = r
<1>1. ASSUME NEW j \in 1..Len(list), NEW k \in 1..Len(list), list[j].id = list[k].id
      PROVE  j = k
  <2>1. list[j].id \in Nat /\ j \in Nat /\ k \in Nat
    BY ListShape DEF Records
  <2>2. ~(j < k) /\ ~(k < j)
    BY <1>1, <2>1, ListShape DEF Newer
  <2> QED
    BY <2>1, <2>2
<1>2. \A r, s \in Listed : r.id = s.id => r = s
  BY <1>1, ListShape
<1>3. ASSUME NEW i \in Ids PROVE RecordOf(i) \in Listed /\ RecordOf(i).id = i
  <2>1. \E r \in Listed : r.id = i
    BY <1>3, ListShape
  <2> QED
    BY <2>1 DEF RecordOf, Listed
<1> QED
  BY <1>2, <1>3, ListShape

\* Taking out one element moves those behind it up.
LEMMA RemoveAtOne ==
    ASSUME NEW S, NEW s \in Seq(S), NEW k \in 1..Len(s)
    PROVE  /\ RemoveAt(s, k) \in Seq(S)
           /\ Len(RemoveAt(s, k)) = Len(s) - 1
           /\ \A m \in 1..(Len(s) - 1) :
                 RemoveAt(s, k)[m] = IF m < k THEN s[m] ELSE s[m + 1]
<1> DEFINE n == Len(s)
           a == SubSeq(s, 1, k - 1)
           b == SubSeq(s, k + 1, n)
<1>1. n \in Nat /\ k \in Int /\ 1 <= k /\ k <= n /\ \A m \in 1..n : s[m] \in S
  BY LenProperties, ElementOfSeq
<1> HIDE DEF n
<1>2. a \in Seq(S) /\ Len(a) = k - 1 /\ \A m \in 1..(k - 1) : a[m] = s[m]
  <2>1. k - 1 \in Int /\ 1 \in Int /\ \A m \in 1..(k - 1) : s[m] \in S
    BY <1>1
  <2>2. /\ a \in Seq(S)
        /\ Len(a) = IF 1 <= k - 1 THEN (k - 1) - 1 + 1 ELSE 0
        /\ \A m \in 1..((k - 1) - 1 + 1) : a[m] = s[1 + m - 1]
    BY <2>1, SubSeqProperties
  <2> HIDE DEF a
  <2>3. (k - 1) - 1 + 1 = k - 1 /\ \A m \in 1..(k - 1) : 1 + m - 1 = m
    BY <1>1
  <2> QED
    BY <1>1, <2>2, <2>3
<1>3. b \in Seq(S) /\ Len(b) = n - k /\ \A m \in 1..(n - k) : b[m] = s[k + m]
  <2>1. k + 1 \in Int /\ n \in Int /\ \A m \in (k + 1)..n : s[m] \in S
    BY <1>1
  <2>2. /\ b \in Seq(S)
        /\ Len(b) = IF k + 1 <= n THEN n - (k + 1) + 1 ELSE 0
        /\ \A m \in 1..(n - (k + 1) + 1) : b[m] = s[(k + 1) + m - 1]
    BY <2>1, SubSeqProperties
  <2> HIDE DEF b
  <2>3. n - (k + 1) + 1 = n - k /\ \A m \in 1..(n - k) : (k + 1) + m - 1 = k + m
    BY <1>1
  <2> QED
    BY <1>1, <2>2, <2>3
<1>4. RemoveAt(s, k) = a \o b
  BY DEF RemoveAt, n
<1> HIDE DEF a, b
<1>5. /\ a \o b \in Seq(S) /\ Len(a \o b) = (k - 1) + (n - k)
      /\ \A m \in 1..((k - 1) + (n - k)) :
            (a \o b)[m] = IF m <= k - 1 THEN a[m] ELSE b[m - (k - 1)]
  <2>1. /\ a \o b \in Seq(S) /\ Len(a \o b) = Len(a) + Len(b)
        /\ \A m \in 1..(Len(a) + Len(b)) :
              (a \o b)[m] = IF m <= Len(a) THEN a[m] ELSE b[m - Len(a)]
    BY <1>2, <1>3, ConcatProperties
  <2> QED
    BY <1>2, <1>3, <2>1
<1>6. (k - 1) + (n - k) = n - 1
  BY <1>1
<1>7. ASSUME NEW m \in 1..(n - 1)
      PROVE  (a \o b)[m] = IF m < k THEN s[m] ELSE s[m + 1]
  <2>1. CASE m < k
    <3>1. m \in 1..(k - 1) /\ m <= k - 1
      BY <1>1, <2>1
    <3> QED
      BY <1>2, <1>5, <1>6, <2>1, <3>1
  <2>2. CASE ~(m < k)
    <3>1. m - (k - 1) \in 1..(n - k) /\ ~(m <= k - 1) /\ k + (m - (k - 1)) = m + 1
      BY <1>1, <2>2
    <3> QED
      BY <1>3, <1>5, <1>6, <2>2, <3>1
  <2> QED
    BY <2>1, <2>2
<1> QED
  BY <1>4, <1>5, <1>6, <1>7 DEF n

\* Taking a record out leaves the others as they are.
LEMMA WithoutOne ==
    ASSUME TypeOK, NEW i
    PROVE  /\ Without(i) \in Seq(Records)
           /\ Len(Without(i)) <= Len(list)
           /\ Newer(Without(i))
           /\ ToSet(Without(i)) = {r \in Listed : r.id # i}
<1> USE ListShape
<1>1. CASE i \notin Ids
  BY <1>1 DEF Without, Listed
<1>2. CASE i \in Ids
  <2> DEFINE n == Len(list)
             k == CHOOSE m \in DOMAIN list : list[m].id = i
             w == Without(i)
  <2>1. k \in 1..n /\ list[k].id = i
    BY <1>2 DEF Ids
  <2> HIDE DEF k
  <2>2. w = RemoveAt(list, k)
    BY <1>2 DEF Without, k
  <2>3. \A m \in 1..n : list[m] \in Records
    BY ElementOfSeq
  <2>6. /\ w \in Seq(Records) /\ Len(w) = n - 1
        /\ \A m \in 1..(n - 1) : w[m] = IF m < k THEN list[m] ELSE list[m + 1]
    <3>1. /\ RemoveAt(list, k) \in Seq(Records) /\ Len(RemoveAt(list, k)) = n - 1
          /\ \A m \in 1..(n - 1) :
                RemoveAt(list, k)[m] = IF m < k THEN list[m] ELSE list[m + 1]
      BY <2>1, RemoveAtOne
    <3> QED
      BY <2>2, <3>1
  <2>7. DOMAIN w = 1..(n - 1)
    BY <2>6, LenProperties
  <2> HIDE DEF w
  <2>8. Newer(w)
    <3> SUFFICES ASSUME NEW j \in 1..(n - 1), NEW l \in 1..(n - 1), j < l
                 PROVE  w[j].id > w[l].id
      BY <2>7 DEF Newer
    <3> DEFINE up(m) == IF m < k THEN m ELSE m + 1
    <3>1. up(j) \in 1..n /\ up(l) \in 1..n /\ up(j) < up(l)
      BY <2>1
    <3>2. w[j] = list[up(j)] /\ w[l] = list[up(l)]
      BY <2>6
    <3> QED
      BY <3>1, <3>2 DEF Newer
  <2>9. ToSet(w) = {list[m] : m \in (1..n) \ {k}}
    <3>1. \A m \in 1..(n - 1) : \E l \in (1..n) \ {k} : w[m] = list[l]
      <4> TAKE m \in 1..(n - 1)
      <4>1. CASE m < k
        BY <2>1, <2>6, <4>1
      <4>2. CASE ~(m < k)
        <5>1. m + 1 \in (1..n) \ {k} /\ w[m] = list[m + 1]
          BY <2>1, <2>6, <4>2
        <5> QED
          BY <5>1
      <4> QED
        BY <4>1, <4>2
    <3>2. \A l \in (1..n) \ {k} : \E m \in 1..(n - 1) : w[m] = list[l]
      <4> TAKE l \in (1..n) \ {k}
      <4>1. CASE l < k
        <5>1. l \in 1..(n - 1) /\ w[l] = list[l]
          BY <2>1, <2>6, <4>1
        <5> QED
          BY <5>1
      <4>2. CASE l > k
        <5>1. l - 1 \in 1..(n - 1) /\ w[l - 1] = list[(l - 1) + 1]
          BY <2>1, <2>6, <4>2
        <5> QED
          BY <5>1
      <4> QED
        BY <2>1, <4>1, <4>2
    <3> QED
      BY <2>7, <3>1, <3>2 DEF ToSet
  <2>10. \A m \in 1..n : list[m].id = i => m = k
    <3> TAKE m \in 1..n
    <3>1. list[m].id \in Nat /\ list[k].id \in Nat /\ m \in Nat /\ k \in Nat
      BY <2>1, <2>3 DEF Records
    <3> QED
      BY <2>1, <3>1 DEF Newer
  <2>11. ToSet(w) = {r \in Listed : r.id # i}
    BY <2>1, <2>9, <2>10
  <2> QED
    BY <2>6, <2>8, <2>11 DEF w
<1> QED
  BY <1>1, <1>2

\* A new record is the first of the list, and only the oldest can be pushed out.
LEMMA SavedOne ==
    ASSUME TypeOK, NEW More, More = [id : 1..(made + 1), prog : Programs, canStart : BOOLEAN],
           NEW r \in More, r.id = made + 1
    PROVE  /\ Newest(Prepended(r)) \in Seq(More)
           /\ Len(Newest(Prepended(r))) <= MaxRecords
           /\ Newer(Newest(Prepended(r)))
           /\ ToSet(Prepended(r)) = Listed \cup {r}
           /\ r \in ToSet(Newest(Prepended(r)))
           /\ ToSet(Newest(Prepended(r))) \subseteq Listed \cup {r}
           /\ \A s \in Listed \ ToSet(Newest(Prepended(r))) :
                 Len(list) = MaxRecords /\ s = Last(list)
<1> DEFINE n == Len(list)
           all == Prepended(r)
           top == IF Len(all) < MaxRecords THEN Len(all) ELSE MaxRecords
           kept == Newest(all)
<1>1. n \in Nat /\ n <= MaxRecords /\ MaxRecords \in Nat /\ MaxRecords >= 1
  BY ListShape, RecordConstants DEF TypeOK
<1>2. list \in Seq(More) /\ <<r>> \in Seq(More) /\ Len(<<r>>) = 1 /\ <<r>>[1] = r
  <2>1. Records \subseteq More
    BY ListShape DEF Records
  <2>2. list \in Seq(Records)
    BY ListShape
  <2>3. list \in Seq(More)
    BY ONLY <2>1, <2>2, SeqMonotonic
  <2> QED
    BY <2>3
<1>3. /\ all \in Seq(More) /\ Len(all) = n + 1
      /\ \A m \in 1..(n + 1) : all[m] = IF m = 1 THEN r ELSE list[m - 1]
  <2>1. /\ all \in Seq(More) /\ Len(all) = 1 + n
        /\ \A m \in 1..(1 + n) : all[m] = IF m <= 1 THEN <<r>>[m] ELSE list[m - 1]
    BY <1>2, ConcatProperties DEF Prepended
  <2> QED
    BY <1>1, <1>2, <2>1
<1>4. \A m \in 1..n : list[m] \in Records /\ list[m].id <= made /\ list[m].id \in Nat
  BY ListShape, ElementOfSeq DEF Records
<1>5. DOMAIN all = 1..(n + 1) /\ \A m \in 1..(n + 1) : all[m] \in More
  BY <1>3, LenProperties, ElementOfSeq
<1>6. top \in 1..(n + 1) /\ top <= MaxRecords /\ (top = n + 1 \/ (top = n /\ n = MaxRecords))
  BY <1>1, <1>3
<1>7. kept = SubSeq(all, 1, top)
  BY DEF Newest
<1> HIDE DEF n, all, top, kept
<1>8. /\ kept \in Seq(More) /\ Len(kept) = top
      /\ \A m \in 1..top : kept[m] = all[m]
  <2>1. top \in Int /\ 1 \in Int /\ 1 <= top /\ \A m \in 1..top : all[m] \in More
    BY <1>1, <1>5, <1>6
  <2>2. /\ kept \in Seq(More)
        /\ Len(kept) = IF 1 <= top THEN top - 1 + 1 ELSE 0
        /\ \A m \in 1..(top - 1 + 1) : kept[m] = all[1 + m - 1]
    BY <1>7, <2>1, SubSeqProperties
  <2>3. top - 1 + 1 = top /\ \A m \in 1..top : 1 + m - 1 = m
    BY <2>1
  <2> QED
    BY <2>1, <2>2, <2>3
<1>8a. \A m \in 1..n : m + 1 \in 1..(n + 1) /\ all[m + 1] = list[m]
  <2> TAKE m \in 1..n
  <2>1. m + 1 \in 1..(n + 1) /\ m + 1 # 1 /\ (m + 1) - 1 = m
    BY <1>1
  <2> QED
    BY <1>3, <2>1
<1>9. DOMAIN kept = 1..top
  BY <1>8, LenProperties
<1>10. Newer(kept)
  <2> SUFFICES ASSUME NEW j \in 1..top, NEW k \in 1..top, j < k
               PROVE  kept[j].id > kept[k].id
    BY <1>9 DEF Newer
  <2>1. k - 1 \in 1..n /\ kept[k] = list[k - 1]
    BY <1>1, <1>3, <1>6, <1>8
  <2>2. CASE j = 1
    <3>1. kept[j] = r /\ r.id = made + 1
      <4>1. 1 \in 1..top /\ 1 \in 1..(n + 1)
        BY <1>1, <1>6
      <4>2. kept[1] = all[1] /\ all[1] = r
        BY <1>3, <1>8, <4>1
      <4> QED
        BY <2>2, <4>2
    <3>2. list[k - 1].id <= made /\ list[k - 1].id \in Nat /\ made \in Nat
      BY <1>4, <2>1, ListShape
    <3> QED
      BY <2>1, <3>1, <3>2
  <2>3. CASE j # 1
    <3>1. j \in 1..(n + 1) /\ j - 1 \in 1..n /\ j - 1 < k - 1
      BY <1>1, <1>6, <2>3
    <3>2. kept[j] = list[j - 1]
      BY <1>3, <1>8, <2>3, <3>1
    <3> QED
      BY <2>1, <3>1, <3>2, ListShape DEF Newer, n
  <2> QED
    BY <2>2, <2>3
<1>11. ToSet(all) = Listed \cup {r}
  <2>1. \A m \in 1..n : m + 1 \in 1..(n + 1) /\ all[m + 1] = list[m]
    BY <1>8a
  <2>2. \A m \in 1..(n + 1) : m = 1 \/ (m - 1 \in 1..n /\ all[m] = list[m - 1])
    BY <1>1, <1>3
  <2>3. all[1] = r /\ 1 \in 1..(n + 1)
    BY <1>1, <1>3
  <2>4. Listed = {list[m] : m \in 1..n}
    BY ListShape DEF n
  <2>5. ToSet(all) = {all[m] : m \in 1..(n + 1)}
    BY <1>5 DEF ToSet
  <2>6. ToSet(all) \subseteq Listed \cup {r}
    BY <2>2, <2>3, <2>4, <2>5
  <2>7. Listed \cup {r} \subseteq ToSet(all)
    BY <2>1, <2>3, <2>4, <2>5
  <2> QED
    BY <2>6, <2>7
<1>12. r \in ToSet(kept) /\ ToSet(kept) \subseteq Listed \cup {r}
  <2>1. kept[1] = r /\ 1 \in 1..top
    BY <1>1, <1>3, <1>6, <1>8
  <2>2. \A m \in 1..top : m \in DOMAIN all /\ kept[m] = all[m]
    BY <1>1, <1>5, <1>6, <1>8
  <2> QED
    BY <1>9, <1>11, <2>1, <2>2 DEF ToSet
<1>13. ASSUME NEW s \in Listed \ ToSet(kept)
       PROVE  n = MaxRecords /\ s = Last(list)
  <2>1. PICK m \in 1..n : s = list[m]
    BY ListShape DEF n
  <2>2. ~(m + 1 <= top)
    <3>1. SUFFICES ASSUME m + 1 <= top PROVE s \in ToSet(kept)
      BY <1>13
    <3>2. m + 1 \in 1..top /\ all[m + 1] = list[m]
      BY <1>1, <1>6, <1>8a, <3>1
    <3> QED
      BY <1>8, <1>9, <2>1, <3>2 DEF ToSet
  <2>3. m = n /\ n = MaxRecords
    BY <1>1, <1>6, <2>2
  <2> QED
    BY <2>1, <2>3 DEF Last, n
<1> QED
  BY <1>1, <1>6, <1>8, <1>10, <1>11, <1>12, <1>13 DEF n, all, kept
-----------------------------------------------------------------------------
(***************************************************************************)
(* The types.                                                              *)
(***************************************************************************)

LEMMA ProcessType ==
    /\ \A p \in Programs, u \in 0..MaxStops :
          Proc(p, u) \in Processes /\ Proc(p, u).prog = p /\ Proc(p, u).unit = u
    /\ \A q \in Processes : q.prog \in Programs /\ q.unit \in 0..MaxStops
                           /\ q = Proc(q.prog, q.unit)
    /\ Own \in 0..MaxStops
BY RecordConstants DEF Processes, Proc, Own

LEMMA IdleType ==
    /\ \A n \in Nat : Idle \in [at : Steps, op : Ops, proc : Processes, rec : 0..n]
    /\ Idle.at = "idle"
<1>1. PICK p \in Programs : TRUE
  BY RecordConstants
<1>2. \E q \in Processes : TRUE
  BY <1>1, ProcessType
<1>3. (CHOOSE q \in Processes : TRUE) \in Processes
  BY <1>2
<1> QED
  BY <1>3 DEF Idle, Steps, Ops, NoRecord

LEMMA FaultType == TypeOK /\ Fault => faults' \in 0..MaxFaults
BY RecordConstants DEF TypeOK, Fault

LEMMA InitTyped == Init => TypeOK
<1> SUFFICES ASSUME Init PROVE TypeOK
  OBVIOUS
<1>1. procs \subseteq Processes
  BY ProcessType DEF Init
<1>2. /\ list \in Seq(Records) /\ Len(list) = 0 /\ DOMAIN list = {}
      /\ 0 \in 0..MaxStops /\ 0 \in 0..MaxFaults /\ 0 <= MaxRecords
  BY RecordConstants DEF Init
<1>3. helper \in [at : Steps, op : Ops, proc : Processes, rec : 0..made]
  BY IdleType DEF Init
<1> QED
  BY <1>1, <1>2, <1>3 DEF Init, TypeOK

\* A program that is settled is no longer answered for.
LEMMA Settled ==
    ASSUME NEW ps, Settle(ps)
    PROVE  /\ owed' \subseteq owed /\ condemned' \subseteq condemned
           /\ Charged' = Charged \ ps
BY DEF Settle, Others, Charged

\* What WriteRecord leaves.
LEMMA RecordWritten ==
    ASSUME TypeOK, NEW q \in procs, WriteRecord(q)
    PROVE  /\ made' = made + 1 /\ made' \in 0..MaxStops
           /\ Record(q).id = made + 1 /\ Record(q).prog = q.prog
           /\ Record(q).canStart = CanRestart(q)
           /\ list' \in Seq(Records)' /\ Len(list') <= MaxRecords /\ Newer(list)'
           /\ Record(q) \in Listed' /\ Listed' \subseteq Listed \cup {Record(q)}
           /\ owed' \subseteq owed /\ condemned' \subseteq condemned
           /\ unkept' = unkept \ {q.prog}
           /\ \A r \in Listed \ Listed' :
                 Len(list) = MaxRecords /\ r = Last(list) /\ r.prog \notin Charged'
           /\ leftover' = leftover \cup {x.prog : x \in {y \in Listed : y.prog = q.prog}}
<1> DEFINE r == Record(q)
           More == [id : 1..(made + 1), prog : Programs, canStart : BOOLEAN]
<1>1. /\ made \in Nat /\ made' = made + 1 /\ made' \in 0..MaxStops
      /\ list' = Newest(Prepended(r))
      /\ Settle({x.prog : x \in ToSet(Prepended(r)) \ ToSet(Newest(Prepended(r)))})
      /\ unkept' = unkept \ {r.prog}
      /\ leftover' = leftover \cup
            {x.prog : x \in {y \in ToSet(Prepended(r)) : y # r /\ y.prog = r.prog}}
  BY ListShape, RecordConstants DEF WriteRecord, SaveStopped
<1>2. q.prog \in Programs
  BY ProcessType DEF TypeOK
<1>3. /\ r \in More /\ r.id = made + 1 /\ r.prog = q.prog /\ r.canStart = CanRestart(q)
  BY <1>1, <1>2 DEF Record, CanRestart
<1>4. Records' = More
  BY <1>1 DEF Records
<1> HIDE DEF r, More
<1>5. /\ Newest(Prepended(r)) \in Seq(More)
      /\ Len(Newest(Prepended(r))) <= MaxRecords
      /\ Newer(Newest(Prepended(r)))
      /\ ToSet(Prepended(r)) = Listed \cup {r}
      /\ r \in ToSet(Newest(Prepended(r)))
      /\ ToSet(Newest(Prepended(r))) \subseteq Listed \cup {r}
      /\ \A s \in Listed \ ToSet(Newest(Prepended(r))) :
            Len(list) = MaxRecords /\ s = Last(list)
  <2>1. More = [id : 1..(made + 1), prog : Programs, canStart : BOOLEAN]
    BY DEF More
  <2> QED
    BY <1>3, <2>1, SavedOne
<1>6. Listed' = ToSet(Newest(Prepended(r)))
  BY <1>1 DEF Listed
<1>7. Newer(list)'
  BY <1>1, <1>5 DEF Newer
<1>8. r \notin Listed
  BY <1>1, <1>3, ListShape DEF Records
<1>9. /\ owed' \subseteq owed /\ condemned' \subseteq condemned
      /\ \A s \in Listed \ Listed' : s.prog \notin Charged'
  <2>1. \A s \in Listed \ Listed' :
           s.prog \in {x.prog : x \in ToSet(Prepended(r)) \ ToSet(Newest(Prepended(r)))}
    BY <1>5, <1>6
  <2> QED
    BY <1>1, <2>1, Settled DEF Charged
<1> QED
  BY <1>1, <1>3, <1>4, <1>5, <1>6, <1>7, <1>8, <1>9 DEF r

\* What Withdraw leaves.
LEMMA Withdrawn ==
    ASSUME TypeOK, Withdraw
    PROVE  /\ helper' = Idle /\ UNCHANGED <<procs, units, made, owed>>
           /\ list' \in Seq(Records)' /\ Len(list') <= MaxRecords /\ Newer(list)'
           /\ Listed' \subseteq Listed
           /\ \A r \in Listed \ Listed' : r.id = helper.rec
           /\ faults' \in 0..MaxFaults
           /\ leftover \subseteq leftover' /\ leftover' \subseteq Programs
           /\ helper.rec = NoRecord \/ (\A r \in Listed' : r.id # helper.rec)
              \/ (Survived => helper.proc.prog \in leftover')
<1>1. /\ helper' = Idle /\ UNCHANGED <<procs, units, owed>>
  BY DEF Withdraw, Done
<1>2. CASE helper.rec = NoRecord /\ UNCHANGED <<file, faults, leftover>>
  BY <1>1, <1>2, ListShape DEF TypeOK, Newer, Records, Listed
<1>3. CASE helper.rec # NoRecord /\ list' = Without(helper.rec)
           /\ UNCHANGED <<made, faults, leftover>>
  <2>1. /\ Listed' = {r \in Listed : r.id # helper.rec}
        /\ list' \in Seq(Records) /\ Len(list') <= Len(list)
        /\ Newer(list)'
    BY <1>3, WithoutOne DEF Listed, Newer
  <2>2. Records' = Records /\ Len(list') \in Nat
    BY <1>3, <2>1, LenProperties DEF Records
  <2>3. Len(list') <= MaxRecords
    BY <2>1, <2>2, ListShape, RecordConstants DEF TypeOK
  <2> QED
    BY <1>1, <1>3, <2>1, <2>2, <2>3 DEF TypeOK
<1>4. CASE Fault /\ UNCHANGED file
           /\ leftover' = IF Survived THEN leftover \cup {helper.proc.prog} ELSE leftover
  <2>1. helper.proc.prog \in Programs
    BY ProcessType DEF TypeOK
  <2> QED
    BY <1>1, <1>4, <2>1, FaultType, ListShape DEF TypeOK, Newer, Records, Listed
<1> QED
  BY <1>2, <1>3, <1>4 DEF Withdraw, RemoveStopped
-----------------------------------------------------------------------------
(***************************************************************************)
(* One lemma per step of a request.                                        *)
(***************************************************************************)

\* Nothing but the list, its ids and its programs matters of a record.
LEMMA RecordFacts ==
    ASSUME TypeOK
    PROVE  \A r \in Listed : /\ r.id \in Nat /\ 1 <= r.id /\ r.id <= made
                            /\ r.id # NoRecord /\ r.prog \in Programs
BY ListShape DEF Records, NoRecord

LEMMA HeldFacts ==
    ASSUME TypeOK, RequestInv, helper.at \in {"saved", "signalled", "gone"}
    PROVE  \A r \in Listed : r.id = helper.rec =>
              /\ r.prog = helper.proc.prog
              /\ r.canStart = CanRestart(helper.proc)
<1> SUFFICES ASSUME NEW r \in Listed, r.id = helper.rec
             PROVE  r.prog = helper.proc.prog /\ r.canStart = CanRestart(helper.proc)
  OBVIOUS
<1>1. helper.rec # NoRecord
  BY RecordFacts
<1>2. Held \in Listed /\ Held.id = r.id
  BY <1>1 DEF RequestInv, Held
<1>3. r = Held
  BY <1>2, OneRecordPerId
<1> QED
  BY <1>3 DEF Held

\* A request that has its record written.
LEMMA AskedInv ==
    ASSUME IInv, NEW q \in procs, NEW op \in {"stop", "restart", "service_stop"},
           Captured(q), Ask(op, q), WriteRecord(q),
           op = "service_stop" => q.prog \in Services,
           op = "restart" => CanRestart(q) /\ q.prog \notin Services
    PROVE  IInv'
<1> DEFINE new == Record(q)
<1>1. /\ TypeOK /\ made \in Nat /\ q \in Processes /\ q.prog \in Programs
      /\ helper.at = "idle" /\ UNCHANGED <<procs, units, faults>>
  BY ProcessType, ListShape DEF IInv, TypeOK, Ask, WriteRecord
<1>2. helper' = [at |-> "saved", op |-> op, proc |-> q, rec |-> made + 1]
  BY DEF Ask
<1>3. /\ made' = made + 1 /\ made' \in 0..MaxStops
      /\ new.id = made + 1 /\ new.prog = q.prog /\ new.canStart = CanRestart(q)
      /\ list' \in Seq(Records)' /\ Len(list') <= MaxRecords /\ Newer(list)'
      /\ new \in Listed' /\ Listed' \subseteq Listed \cup {new}
      /\ owed' \subseteq owed /\ condemned' \subseteq condemned
      /\ Charged' \subseteq Charged /\ unkept' = unkept \ {q.prog}
      /\ \A r \in Listed \ Listed' :
            Len(list) = MaxRecords /\ r = Last(list) /\ r.prog \notin Charged'
      /\ leftover' = leftover \cup {x.prog : x \in {y \in Listed : y.prog = q.prog}}
  BY <1>1, RecordWritten DEF Charged
<1>4. \A r \in Listed : r.id # made + 1 /\ r.id \in Nat
  BY <1>1, RecordFacts
<1>5. TypeOK'
  <2>1. helper' \in [at : Steps, op : Ops, proc : Processes, rec : 0..made']
    BY <1>1, <1>2, <1>3 DEF Steps, Ops
  <2> QED
    BY <1>1, <1>3, <2>1 DEF TypeOK, Newer
<1>6. RequestInv'
  <2>1. Held' = new
    BY <1>2, <1>3 DEF Held, Record
  <2> QED
    BY <1>1, <1>2, <1>3, <2>1 DEF RequestInv, CanRestart, NoRecord
<1>7. OwedInv'
  <2>1. ASSUME NEW p \in Charged' \ unkept'
        PROVE  \E r \in Listed' : r.prog = p /\ r.canStart
    <3>1. CASE p = q.prog
      <4>1. CanRestart(q)
        BY <1>3, <2>1, <3>1 DEF IInv, OwedInv, CanRestart
      <4> QED
        BY <1>3, <3>1, <4>1
    <3>2. CASE p # q.prog
      <4>1. PICK r \in Listed : r.prog = p /\ r.canStart
        BY <1>3, <2>1, <3>2 DEF IInv, OwedInv
      <4> QED
        BY <1>3, <2>1, <4>1
    <3> QED
      BY <3>1, <3>2
  <2> QED
    BY <1>2, <1>3, <2>1 DEF IInv, OwedInv
<1>8. CopyInv'
  <2>1. NoSecondCopy'
    BY <1>1, <1>3 DEF IInv, CopyInv, NoSecondCopy, Instances
  <2>2. ASSUME NEW r \in Listed', r.prog \notin leftover' \cup Services
        PROVE  /\ \A s \in Listed' : s.prog = r.prog => s = r
               /\ Instances(r.prog)' \subseteq {Runs(r)'}
    <3>1. CASE r = new
      <4>1. \A s \in Listed : s.prog # q.prog
        BY <1>3, <2>2, <3>1
      <4>2. Instances(q.prog) \subseteq {q}
        BY <1>1, <1>3, <2>2, <3>1 DEF IInv, CopyInv, NoSecondCopy, Instances
      <4>3. Runs(r)' = q
        BY <1>2, <1>3, <3>1 DEF Runs
      <4> QED
        BY <1>1, <1>3, <3>1, <4>1, <4>2, <4>3 DEF Instances
    <3>2. CASE r # new
      <4>1. r \in Listed /\ r.prog # q.prog /\ r.prog \notin leftover \cup Services
        BY <1>3, <2>2, <3>2
      <4>2. Instances(r.prog) \subseteq {Runs(r)} /\ Runs(r)' = Runs(r)
        BY <1>1, <1>2, <1>4, <4>1 DEF IInv, CopyInv, Runs
      <4> QED
        BY <1>1, <1>3, <4>1, <4>2 DEF IInv, CopyInv, Instances
    <3> QED
      BY <3>1, <3>2
  <2> QED
    BY <1>1, <2>1, <2>2 DEF IInv, CopyInv
<1> QED
  BY <1>5, <1>6, <1>7, <1>8 DEF IInv

LEMMA UnrecordedInv ==
    ASSUME IInv, NEW q \in procs, StopUnrecorded(q)
    PROVE  IInv'
<1>1. /\ helper' = [at |-> "saved", op |-> "stop", proc |-> q, rec |-> NoRecord]
      /\ helper.at = "idle"
      /\ UNCHANGED <<procs, units, list, made, faults, owed, condemned, unkept, leftover>>
      /\ ~CanRestart(q) /\ TypeOK /\ q \in Processes
  BY RecordConstants DEF StopUnrecorded, Ask, CanRestart, Captured, IInv, TypeOK
<1>2. UNCHANGED <<Listed, Records>>
  BY <1>1 DEF Listed, Records
<1>3. TypeOK'
  BY <1>1, <1>2, ListShape DEF TypeOK, Steps, Ops, NoRecord
<1>4. RequestInv'
  BY <1>1 DEF RequestInv
<1>5. OwedInv'
  BY <1>1, <1>2 DEF IInv, OwedInv, Charged
<1>6. \A r \in Listed : Runs(r)' = Runs(r)
  BY <1>1, RecordFacts DEF Runs
<1>7. CopyInv'
  BY <1>1, <1>2, <1>6 DEF IInv, CopyInv, NoSecondCopy, Instances
<1> QED
  BY <1>3, <1>4, <1>5, <1>7 DEF IInv

\* A record is withdrawn when its program runs again, or with an error.
LEMMA WithdrawInv ==
    ASSUME IInv, Withdraw,
           \/ helper.at = "started" /\ UNCHANGED <<condemned, unkept>>
           \/ /\ helper.at \in {"saved", "signalled"} /\ Unkept
              /\ Condemn(helper.proc) \/ UNCHANGED condemned
    PROVE  IInv'
<1>1. /\ TypeOK
      /\ helper' = Idle /\ Idle.at = "idle" /\ UNCHANGED <<procs, units, made, owed>>
      /\ list' \in Seq(Records)' /\ Len(list') <= MaxRecords /\ Newer(list)'
      /\ Listed' \subseteq Listed
      /\ \A r \in Listed \ Listed' : r.id = helper.rec
      /\ faults' \in 0..MaxFaults
      /\ leftover \subseteq leftover' /\ leftover' \subseteq Programs
      /\ helper.rec = NoRecord \/ (\A r \in Listed' : r.id # helper.rec)
         \/ (Survived => helper.proc.prog \in leftover')
  BY Withdrawn, IdleType DEF IInv
<1>1a. /\ unkept \subseteq unkept' /\ unkept' \subseteq Programs
       /\ condemned' \subseteq Processes
       /\ Charged' \subseteq Charged \cup {helper.proc.prog}
       /\ Charged' \subseteq Direct \cup Services
       /\ helper.at # "started" => helper.proc.prog \in unkept'
       /\ helper.at = "started" => Charged' = Charged
  <2>1. helper.proc \in Processes /\ helper.proc.prog \in Programs
    BY <1>1, ProcessType DEF TypeOK
  <2>2. CASE Condemn(helper.proc)
    BY <1>1, <2>1, <2>2 DEF IInv, TypeOK, OwedInv, Charged, Condemn, CanRestart, Unkept
  <2>3. CASE UNCHANGED condemned
    BY <1>1, <2>1, <2>3 DEF IInv, TypeOK, OwedInv, Charged, Unkept
  <2> QED
    BY <2>2, <2>3
<1>2. TypeOK'
  BY <1>1, <1>1a, IdleType, ListShape DEF TypeOK, Newer
<1>3. RequestInv'
  BY <1>1 DEF RequestInv
<1>4. OwedInv'
  <2>1. ASSUME NEW p \in Charged' \ unkept'
        PROVE  \E r \in Listed' : r.prog = p /\ r.canStart
    <3>1. p \in Charged \ unkept /\ p # helper.proc.prog
      BY <1>1a, <2>1 DEF IInv, OwedInv
    <3>2. PICK r \in Listed : r.prog = p /\ r.canStart
      BY <3>1 DEF IInv, OwedInv
    <3>3. r.id # helper.rec
      BY <1>1, <3>1, <3>2, HeldFacts DEF IInv, RequestInv
    <3> QED
      BY <1>1, <3>2, <3>3
  <2> QED
    BY <1>1, <1>1a, <2>1 DEF OwedInv
<1>5. CopyInv'
  <2>1. NoSecondCopy'
    BY <1>1 DEF IInv, CopyInv, NoSecondCopy, Instances
  <2>2. ASSUME NEW r \in Listed', r.prog \notin leftover' \cup Services
        PROVE  Instances(r.prog) \subseteq {Proc(r.prog, UnitOf(r.id))}
    <3>1. r \in Listed /\ Instances(r.prog) \subseteq {Runs(r)}
      BY <1>1, <2>2 DEF IInv, CopyInv
    <3>2. CASE helper.at \in {"saved", "signalled"} /\ helper.rec = r.id
      <4>1. r.prog = helper.proc.prog /\ helper.rec # NoRecord
        BY <1>1, <3>1, <3>2, HeldFacts, RecordFacts DEF IInv
      <4>2. helper.proc \notin procs
        BY <1>1, <2>2, <3>2, <4>1 DEF Survived
      <4> QED
        BY <3>1, <3>2, <4>2 DEF Runs, Instances
    <3>3. CASE ~(helper.at \in {"saved", "signalled"} /\ helper.rec = r.id)
      BY <3>1, <3>3 DEF Runs
    <3> QED
      BY <3>2, <3>3
  <2>3. \A r \in Listed' : Runs(r)' = Proc(r.prog, UnitOf(r.id))
    BY <1>1 DEF Runs
  <2>4. \A r \in Listed' : r.prog \notin leftover' \cup Services =>
          \A s \in Listed' : s.prog = r.prog => s = r
    BY <1>1 DEF IInv, CopyInv
  <2> QED
    BY <1>1, <2>1, <2>2, <2>3, <2>4 DEF IInv, CopyInv, Instances
<1> QED
  BY <1>2, <1>3, <1>4, <1>5 DEF IInv

\* A step of a request that leaves the list and what runs alone: the signal was
\* sent, or the process is gone.
LEMMA AdvanceInv ==
    ASSUME IInv, UNCHANGED <<procs, file, faults, owed, unkept, leftover>>,
           units' \subseteq units,
           \/ Signal /\ Condemn(helper.proc)
           \/ (Stopped \/ StoppedForRestart \/ StartFails) /\ UNCHANGED condemned
    PROVE  IInv'
<1>1. /\ TypeOK /\ Idle.at = "idle"
      /\ UNCHANGED <<procs, list, made, faults, owed, unkept, leftover>>
      /\ UNCHANGED <<Listed, Records>>
  BY IdleType DEF IInv, Listed, Records
<1>2. \/ /\ helper.at = "saved" /\ helper' = [helper EXCEPT !.at = "signalled"]
         /\ helper.op \in {"stop", "restart"} /\ helper.proc \in procs
      \/ /\ helper.at = "signalled" /\ helper' = [helper EXCEPT !.at = "gone"]
         /\ helper.op = "restart" /\ helper.proc \notin procs
      \/ /\ helper.at = "signalled" /\ helper' = Idle /\ helper.proc \notin procs
      \/ /\ helper.at = "gone" /\ helper' = Idle
  BY DEF Signal, Stopped, StoppedForRestart, StartFails, Become, Done
<1>2a. /\ condemned' \subseteq Processes
       /\ \/ condemned' = condemned
          \/ /\ helper.at = "saved" /\ helper.op \in {"stop", "restart"}
             /\ Condemn(helper.proc)
  <2>1. helper.proc \in Processes
    BY <1>1 DEF TypeOK
  <2> QED
    BY <1>1, <2>1 DEF TypeOK, Condemn, Signal
<1>3. TypeOK'
  BY <1>1, <1>2, <1>2a, IdleType, ListShape DEF TypeOK, Steps
<1>4. \/ helper'.at = "idle"
      \/ /\ helper'.op = helper.op /\ helper'.proc = helper.proc
         /\ helper'.rec = helper.rec /\ Held' = Held
         /\ helper'.at = IF helper.at = "saved" THEN "signalled" ELSE "gone"
  BY <1>1, <1>2 DEF TypeOK, Held
<1>5. RequestInv'
  BY <1>1, <1>2, <1>4 DEF IInv, RequestInv, CanRestart
<1>6. OwedInv'
  <2>1. helper'.at # "started"
    BY <1>1, <1>2, <1>4
  <2>2. CASE condemned' = condemned
    BY <1>1, <2>1, <2>2 DEF IInv, OwedInv, Charged
  <2>3. CASE helper.at = "saved" /\ Condemn(helper.proc) /\ CanRestart(helper.proc)
    <3>1. Charged' = Charged \cup {helper.proc.prog}
      BY <1>1, <2>3 DEF Charged, Condemn
    <3>2. Held \in Listed /\ Held.prog = helper.proc.prog /\ Held.canStart
      BY <2>3 DEF IInv, RequestInv, Held
    <3> QED
      BY <1>1, <2>1, <2>3, <3>1, <3>2 DEF IInv, OwedInv, CanRestart
  <2>4. CASE Condemn(helper.proc) /\ ~CanRestart(helper.proc)
    BY <1>1, <2>1, <2>4 DEF IInv, OwedInv, Charged, Condemn
  <2> QED
    BY <1>2a, <2>2, <2>3, <2>4
<1>7. CopyInv'
  <2>1. ASSUME NEW r \in Listed, r.prog \notin leftover \cup Services
        PROVE  Instances(r.prog) \subseteq {Runs(r)'}
    <3>1. Instances(r.prog) \subseteq {Runs(r)}
      BY <2>1 DEF IInv, CopyInv
    <3>2. CASE helper.at = "signalled" /\ helper.proc \notin procs
      <4>1. helper'.at \in {"idle", "gone"}
        BY <1>1, <1>2, <1>4, <3>2
      <4>2. Runs(r)' = Proc(r.prog, UnitOf(r.id))
        BY <4>1 DEF Runs
      <4>3. Runs(r) = Proc(r.prog, UnitOf(r.id)) \/ Runs(r) = helper.proc
        BY DEF Runs
      <4> QED
        BY <3>1, <3>2, <4>2, <4>3 DEF Instances
    <3>3. CASE helper.at = "saved"
      <4>1. helper'.at = "signalled" /\ helper'.proc = helper.proc /\ helper'.rec = helper.rec
        BY <1>1, <1>2, <3>3 DEF TypeOK
      <4> QED
        BY <3>1, <3>3, <4>1 DEF Runs
    <3>4. CASE helper.at = "gone"
      <4>1. helper'.at = "idle"
        BY <1>1, <1>2, <3>4
      <4> QED
        BY <3>1, <3>4, <4>1 DEF Runs
    <3> QED
      BY <1>2, <3>2, <3>3, <3>4
  <2> QED
    BY <1>1, <2>1 DEF IInv, CopyInv, NoSecondCopy, Instances
<1> QED
  BY <1>3, <1>5, <1>6, <1>7 DEF IInv

LEMMA ServiceStopsInv ==
    ASSUME IInv, ServiceStops
    PROVE  IInv'
<1>1. /\ TypeOK /\ helper.at = "saved" /\ helper.op = "service_stop"
      /\ helper' = Idle /\ Idle.at = "idle"
      /\ procs' = procs \ {helper.proc} /\ owed' = owed \cup {helper.proc.prog}
      /\ UNCHANGED <<units, list, made, faults, condemned, unkept, leftover>>
      /\ UNCHANGED <<Listed, Records>>
  BY IdleType DEF ServiceStops, Done, IInv, Listed, Records
<1>2. /\ helper.proc.prog \in Programs /\ helper.proc.prog \in Services
      /\ CanRestart(helper.proc) /\ helper.rec # NoRecord /\ Held \in Listed
  BY <1>1, ProcessType DEF IInv, TypeOK, RequestInv, CanRestart
<1>3. TypeOK'
  BY <1>1, <1>2, IdleType, ListShape DEF TypeOK
<1>4. RequestInv'
  BY <1>1 DEF RequestInv
<1>5. OwedInv'
  <2>1. Held.prog = helper.proc.prog /\ Held.canStart
    BY <1>2 DEF Held
  <2>2. Charged' = Charged \cup {helper.proc.prog}
    BY <1>1 DEF Charged
  <2> QED
    BY <1>1, <1>2, <2>1, <2>2 DEF IInv, OwedInv
<1>6. CopyInv'
  <2>1. ASSUME NEW r \in Listed, r.prog \notin leftover \cup Services
        PROVE  Runs(r)' = Runs(r)
    <3>1. helper.rec # r.id
      BY <1>1, <1>2, <2>1, HeldFacts DEF IInv
    <3> QED
      BY <1>1, <3>1 DEF Runs
  <2> QED
    BY <1>1, <2>1 DEF IInv, CopyInv, NoSecondCopy, Instances
<1> QED
  BY <1>3, <1>4, <1>5, <1>6 DEF IInv

\* Whatever starts from a record is what that record says may run already.
LEMMA StartInv ==
    ASSUME IInv, NEW q \in Processes, NEW i \in 1..made, Start(q, i),
           UNCHANGED <<file, faults, unkept, leftover>>,
           helper.at \notin {"saved", "signalled"},
           q.prog \in Services => q.unit = Own,
           q.prog \notin Services => q.unit = UnitOf(i),
           NEW r \in Listed, r.id = i, r.prog = q.prog
    PROVE  IInv'
<1>1. /\ TypeOK /\ procs' = procs \cup {q} /\ Settle({q.prog})
      /\ units' = units \cup ({q.unit} \ {Own})
      /\ helper'.at = "started" /\ helper'.proc = q /\ helper'.rec = i
      /\ helper' \in [at : Steps, op : Ops, proc : Processes, rec : 0..made]
      /\ UNCHANGED <<list, made, faults, unkept, leftover>>
      /\ UNCHANGED <<Listed, Records>>
  <2>1. helper \in [at : Steps, op : Ops, proc : Processes, rec : 0..made]
        /\ made \in Nat /\ i \in 0..made /\ "started" \in Steps
    BY ListShape DEF IInv, TypeOK, Steps
  <2>2. helper' = [helper EXCEPT !.at = "started", !.proc = q, !.rec = i]
    BY DEF Start
  <2>3. /\ helper'.at = "started" /\ helper'.proc = q /\ helper'.rec = i
        /\ helper' \in [at : Steps, op : Ops, proc : Processes, rec : 0..made]
    BY <2>1, <2>2
  <2> QED
    BY <2>3 DEF Start, IInv, Listed, Records
<1>2. q.prog \in Programs /\ q = Proc(q.prog, q.unit)
  BY ProcessType
<1>2a. /\ owed' \subseteq owed /\ condemned' \subseteq condemned
       /\ Charged' = Charged \ {q.prog}
  BY <1>1, Settled
<1>3. TypeOK'
  BY <1>1, <1>2, <1>2a, ListShape DEF TypeOK, UnitOf
<1>4. RequestInv'
  BY <1>1, OneRecordPerId DEF RequestInv
<1>5. OwedInv'
  BY <1>1, <1>2a DEF IInv, OwedInv
<1>6. ASSUME NEW p \in Programs \ leftover
      PROVE  \A q1, q2 \in Instances(p)' : q1 = q2
  <2>1. CASE p # q.prog
    BY <1>1, <1>6, <2>1 DEF IInv, CopyInv, NoSecondCopy, Instances
  <2>2. CASE p = q.prog /\ p \in Services
    BY <1>1, <1>2, <2>2, ProcessType DEF IInv, TypeOK, CopyInv, Instances
  <2>3. CASE p = q.prog /\ p \notin Services
    <3>1. Instances(p) \subseteq {Proc(p, UnitOf(i))}
      BY <1>6, <2>3 DEF IInv, CopyInv, Runs
    <3> QED
      BY <1>1, <1>2, <2>3, <3>1 DEF Instances
  <2> QED
    BY <2>1, <2>2, <2>3
<1>7. ASSUME NEW s \in Listed, s.prog \notin leftover \cup Services
      PROVE  Instances(s.prog)' \subseteq {Runs(s)'}
  <2>1. Instances(s.prog) \subseteq {Proc(s.prog, UnitOf(s.id))}
    BY <1>7 DEF IInv, CopyInv, Runs
  <2>2. s.prog = q.prog => s = r
    BY <1>7 DEF IInv, CopyInv
  <2>3. Runs(s)' = Proc(s.prog, UnitOf(s.id))
    BY <1>1 DEF Runs
  <2> QED
    BY <1>1, <1>2, <1>7, <2>1, <2>2, <2>3 DEF Instances
<1>8. CopyInv'
  BY <1>1, <1>6, <1>7 DEF IInv, CopyInv, NoSecondCopy
<1> QED
  BY <1>3, <1>4, <1>5, <1>8 DEF IInv

\* A process ends, by itself, by a signal or with its unit.
LEMMA EndInv ==
    ASSUME IInv, NEW q \in procs, Exit(q) \/ RestartUnit(q)
    PROVE  IInv'
<1>1. /\ TypeOK /\ q.prog \in Programs
      /\ procs' = procs \ {q} /\ UNCHANGED <<units, list, made, helper, faults, leftover>>
      /\ UNCHANGED <<Listed, Records, Held>>
  BY ProcessType DEF Exit, RestartUnit, IInv, TypeOK, Listed, Records, Held
<1>2. /\ owed' \subseteq Programs /\ condemned' \subseteq condemned
      /\ unkept' \subseteq Programs
      /\ \/ Charged' \subseteq Charged /\ unkept' = unkept
         \/ /\ Charged' = Charged \cup {q.prog} /\ unkept' = unkept \cup {q.prog}
            /\ CanRestart(q) /\ helper.at = "idle"
  <2>1. CASE Exit(q)
    BY <1>1, <2>1 DEF Exit, Charged, TypeOK
  <2>2. CASE RestartUnit(q)
    BY <1>1, <2>2 DEF RestartUnit, Charged, TypeOK
  <2> QED
    BY <2>1, <2>2
<1>2a. TypeOK'
  BY <1>1, <1>2 DEF TypeOK
<1>3. RequestInv'
  BY <1>1 DEF IInv, RequestInv, CanRestart
<1>4. OwedInv'
  <2>1. CASE Charged' \subseteq Charged /\ unkept' = unkept
    BY <1>1, <2>1 DEF IInv, OwedInv
  <2>2. CASE /\ Charged' = Charged \cup {q.prog} /\ unkept' = unkept \cup {q.prog}
             /\ CanRestart(q) /\ helper.at = "idle"
    BY <1>1, <2>2 DEF IInv, OwedInv, CanRestart
  <2> QED
    BY <1>2, <2>1, <2>2
<1>5. CopyInv'
  BY <1>1 DEF IInv, CopyInv, NoSecondCopy, Instances, Runs
<1> QED
  BY <1>2a, <1>3, <1>4, <1>5 DEF IInv

LEMMA ServiceStartsInv ==
    ASSUME IInv, NEW p \in Services, ServiceStarts(p)
    PROVE  IInv'
<1> DEFINE q == Proc(p, Own)
<1>1. /\ TypeOK /\ helper.at = "idle" /\ Instances(p) = {}
      /\ q \in Processes /\ q.prog = p /\ q.unit = Own
      /\ procs' = procs \cup {q} /\ Settle({p})
      /\ UNCHANGED <<units, list, made, helper, faults, unkept, leftover, Listed, Records>>
  BY ProcessType DEF ServiceStarts, IInv, Listed, Records, Programs
<1> HIDE DEF q
<1>1a. /\ owed' \subseteq owed /\ condemned' \subseteq condemned
       /\ Charged' = Charged \ {p}
  BY <1>1, Settled
<1>2. TypeOK'
  BY <1>1, <1>1a DEF TypeOK
<1>3. RequestInv' /\ OwedInv'
  BY <1>1, <1>1a DEF IInv, RequestInv, OwedInv
<1>4. CopyInv'
  <2>1. NoSecondCopy'
    BY <1>1 DEF IInv, CopyInv, NoSecondCopy, Instances
  <2> QED
    BY <1>1, <2>1 DEF IInv, CopyInv, Instances, Runs
<1> QED
  BY <1>2, <1>3, <1>4 DEF IInv

LEMMA CrashInv ==
    ASSUME IInv, HelperCrash
    PROVE  IInv'
<1>1. /\ TypeOK /\ helper' = Idle /\ Idle.at = "idle" /\ faults' \in 0..MaxFaults
      /\ leftover' = IF Survived /\ helper.rec # NoRecord
                     THEN leftover \cup {helper.proc.prog} ELSE leftover
      /\ UNCHANGED <<procs, units, list, made, owed, unkept, Listed, Records>>
      /\ helper.proc.prog \in Programs
      /\ \/ condemned' = condemned
         \/ /\ helper.at = "saved" /\ helper.op = "service_stop"
            /\ Condemn(helper.proc)
  BY FaultType, IdleType, ProcessType
     DEF HelperCrash, Done, IInv, TypeOK, Listed, Records
<1>2. TypeOK'
  <2>1. condemned' \subseteq Processes
    BY <1>1 DEF TypeOK, Condemn
  <2> QED
    BY <1>1, <2>1, IdleType, ListShape DEF TypeOK
<1>3. RequestInv' /\ OwedInv'
  <2>1. RequestInv'
    BY <1>1 DEF RequestInv
  <2>2. CASE condemned' = condemned
    BY <1>1, <2>1, <2>2 DEF IInv, OwedInv, Charged
  <2>3. CASE /\ helper.at = "saved" /\ helper.op = "service_stop"
             /\ Condemn(helper.proc)
    <3>1. /\ helper.proc.prog \in Services /\ CanRestart(helper.proc)
          /\ Held \in Listed /\ Held.prog = helper.proc.prog /\ Held.canStart
      BY <1>1, <2>3, ProcessType DEF IInv, RequestInv, Held, CanRestart
    <3>2. Charged' = Charged \cup {helper.proc.prog}
      BY <1>1, <2>3, <3>1 DEF Charged, Condemn
    <3> QED
      BY <1>1, <2>1, <3>1, <3>2 DEF IInv, OwedInv
  <2> QED
    BY <1>1, <2>1, <2>2, <2>3
<1>4. CopyInv'
  <2>1. ASSUME NEW r \in Listed, r.prog \notin leftover' \cup Services
        PROVE  Instances(r.prog) \subseteq {Proc(r.prog, UnitOf(r.id))}
    <3>1. Instances(r.prog) \subseteq {Runs(r)}
      BY <1>1, <2>1 DEF IInv, CopyInv
    <3>2. CASE helper.at \in {"saved", "signalled"} /\ helper.rec = r.id
      <4>1. r.prog = helper.proc.prog /\ helper.rec # NoRecord
        BY <1>1, <3>2, HeldFacts, RecordFacts DEF IInv
      <4>2. helper.proc \notin procs
        BY <1>1, <2>1, <3>2, <4>1 DEF Survived
      <4> QED
        BY <3>1, <3>2, <4>2 DEF Runs, Instances
    <3>3. CASE ~(helper.at \in {"saved", "signalled"} /\ helper.rec = r.id)
      BY <3>1, <3>3 DEF Runs
    <3> QED
      BY <3>2, <3>3
  <2>2. \A r \in Listed : Runs(r)' = Proc(r.prog, UnitOf(r.id))
    BY <1>1 DEF Runs
  <2>3. leftover \subseteq leftover'
    BY <1>1
  <2> QED
    BY <1>1, <2>1, <2>2, <2>3 DEF IInv, CopyInv, NoSecondCopy, Instances
<1> QED
  BY <1>2, <1>3, <1>4 DEF IInv

LEMMA RebootInv ==
    ASSUME IInv, Reboot
    PROVE  IInv'
<1>1. /\ TypeOK /\ helper' = Idle /\ Idle.at = "idle" /\ faults' \in 0..MaxFaults
      /\ procs' = {Proc(p, Own) : p \in Services} /\ units' = {}
      /\ owed' \subseteq owed /\ (list' = list \/ (owed' = {} /\ list' = <<>>))
      /\ condemned' = {} /\ UNCHANGED <<made, unkept, leftover, Records>>
  BY FaultType, IdleType DEF Reboot, Done, IInv, Records
<1>2. Listed' \subseteq Listed /\ (Listed' = Listed \/ owed' = {})
  BY <1>1 DEF Listed, ToSet
<1>3. \A q \in procs' : q \in Processes /\ q.prog \in Services /\ q.unit = Own
  BY <1>1, ProcessType DEF Programs
<1>4. TypeOK'
  <2>1. list' \in Seq(Records)' /\ Len(list') <= MaxRecords /\ Newer(list')
    <3>1. CASE list' = list
      BY <1>1, <3>1, ListShape DEF TypeOK
    <3>2. CASE list' = <<>>
      <4>1. <<>> \in Seq(Records') /\ Len(<<>>) = 0 /\ DOMAIN <<>> = {}
        OBVIOUS
      <4> QED
        BY <3>2, <4>1, RecordConstants DEF Newer
    <3> QED
      BY <1>1, <3>1, <3>2
  <2>2. helper' \in [at : Steps, op : Ops, proc : Processes, rec : 0..made']
    BY <1>1, IdleType, ListShape
  <2> QED
    BY <1>1, <1>3, <2>1, <2>2 DEF TypeOK, Newer
<1>5. RequestInv' /\ OwedInv'
  <2>1. Charged' = owed' /\ Charged' \subseteq Charged
    BY <1>1 DEF Charged
  <2> QED
    BY <1>1, <1>2, <2>1 DEF IInv, RequestInv, OwedInv
<1>6. CopyInv'
  <2>1. NoSecondCopy'
    BY <1>1, <1>3, ProcessType DEF NoSecondCopy, Instances
  <2> QED
    BY <1>1, <1>2, <1>3, <2>1 DEF IInv, CopyInv, Instances
<1> QED
  BY <1>4, <1>5, <1>6 DEF IInv

LEMMA InitInv == Init => IInv
<1> SUFFICES ASSUME Init PROVE IInv
  OBVIOUS
<1>1. Listed = {}
  BY DEF Init, Listed, ToSet
<1>2. \A q \in procs : q.prog \in Programs /\ q = Proc(q.prog, Own) /\ q.unit = Own
  BY ProcessType DEF Init
<1>3. RequestInv /\ OwedInv
  BY IdleType DEF Init, RequestInv, OwedInv, Charged
<1>4. CopyInv
  BY <1>1, <1>2 DEF CopyInv, NoSecondCopy, Instances
<1> QED
  BY <1>3, <1>4, InitTyped DEF IInv

LEMMA NextInv == IInv /\ [Next]_vars => IInv'
<1> SUFFICES ASSUME IInv, [Next]_vars PROVE IInv'
  OBVIOUS
<1>1. ASSUME NEW q \in procs,
             StopRequest(q) \/ RestartRequest(q) \/ ServiceStopRequest(q)
      PROVE  IInv'
  <2>1. CASE StopRequest(q)
    BY <2>1, AskedInv DEF StopRequest
  <2>2. CASE RestartRequest(q)
    <3>1. Captured(q) /\ CanRestart(q) /\ q.prog \notin Services
      BY <2>2, RecordConstants DEF RestartRequest, Captured, CanRestart, BySystemd
    <3> QED
      BY <2>2, <3>1, AskedInv DEF RestartRequest
  <2>3. CASE ServiceStopRequest(q)
    <3>1. Captured(q)
      BY <2>3, RecordConstants DEF ServiceStopRequest, Captured
    <3> QED
      BY <2>3, <3>1, AskedInv DEF ServiceStopRequest
  <2> QED
    BY <1>1, <2>1, <2>2, <2>3
<1>2. CASE SignalFails \/ StillThere \/ ServiceStopFails \/ Started
  BY <1>2, WithdrawInv DEF SignalFails, StillThere, ServiceStopFails, Started
<1>3. CASE Signal \/ Stopped \/ StoppedForRestart \/ StartFails
  BY <1>3, AdvanceInv DEF Signal, Stopped, StoppedForRestart, StartFails
<1>4. CASE StartAgain
  <2> DEFINE q == Proc(helper.proc.prog, UnitOf(helper.rec))
  <2>1. /\ helper.at = "gone" /\ helper.rec # NoRecord /\ Held \in Listed
        /\ Held.id = helper.rec /\ Held.prog = helper.proc.prog
        /\ helper.proc.prog \notin Services /\ helper.proc.prog \in Programs
    BY <1>4, ProcessType DEF StartAgain, IInv, TypeOK, RequestInv, Held
  <2>2. helper.rec \in 1..made /\ helper.rec \in 0..MaxStops
    <3>1. /\ Held.id \in Nat /\ 1 <= Held.id /\ Held.id <= made
          /\ made \in Nat /\ made <= MaxStops
      BY <2>1, ListShape, RecordFacts DEF IInv
    <3> QED
      BY <2>1, <3>1, RecordConstants
  <2>3. q \in Processes /\ q.prog = helper.proc.prog /\ q.unit = UnitOf(helper.rec)
    BY <2>1, <2>2, ProcessType DEF UnitOf
  <2> QED
    BY <1>4, <2>1, <2>2, <2>3, StartInv DEF StartAgain
<1>5. ASSUME NEW i \in 1..made, StartSaved(i) PROVE IInv'
  <2> DEFINE p == RecordOf(i).prog
             q == Proc(p, IF p \in Services THEN Own ELSE UnitOf(i))
  <2>1. RecordOf(i) \in Listed /\ RecordOf(i).id = i /\ p \in Programs
    BY <1>5, OneRecordPerId, RecordFacts DEF StartSaved, Startable, IInv
  <2>2. i \in 0..MaxStops
    BY ListShape, RecordConstants DEF IInv
  <2>3. /\ q \in Processes /\ q.prog = p
        /\ q.unit = IF p \in Services THEN Own ELSE UnitOf(i)
    BY <2>1, <2>2, ProcessType DEF UnitOf
  <2> QED
    BY <1>5, <2>1, <2>3, StartInv DEF StartSaved
<1>6. ASSUME NEW i \in 1..made, StartSavedFails(i) PROVE IInv'
  <2>1. /\ units' \subseteq units
        /\ UNCHANGED <<procs, list, made, helper, faults, owed, condemned, unkept, leftover>>
    BY <1>6 DEF StartSavedFails
  <2> QED
    BY <2>1 DEF IInv, TypeOK, RequestInv, OwedInv, CopyInv, NoSecondCopy, Instances,
       Runs, Listed, Held, Charged, Records
<1>7. CASE UNCHANGED vars
  BY <1>7 DEF IInv, TypeOK, RequestInv, OwedInv, CopyInv, NoSecondCopy, Instances,
     Runs, Listed, Held, Charged, Records
<1> QED
  BY <1>1, <1>2, <1>3, <1>4, <1>5, <1>6, <1>7, UnrecordedInv, ServiceStopsInv, EndInv,
     ServiceStartsInv, CrashInv, RebootInv DEF Next, HelperStep, Environment

\* The inductive invariant holds in every reachable state.
THEOREM RecordInvariant == Spec => []IInv
BY InitInv, NextInv, PTL DEF Spec

\* Every reachable state has the declared types: the list is no longer than
\* MaxRecords and newest first, and ids differ.
THEOREM TypeCorrect == Spec => []TypeOK
<1>1. IInv => TypeOK
  BY DEF IInv
<1> QED
  BY <1>1, RecordInvariant, PTL

\* stopProcess, restartProcess: what ended by the Helper's doing has a record it
\* can be started from until it is, whatever write fails, wherever the Helper is
\* killed and however late the process ends, unless the stop was answered with an
\* error or a systemctl restart has left the unit down.
THEOREM StoppedIsRecoverable == Spec => []Recoverable
<1>1. IInv => Recoverable
  BY OneRecordPerId DEF IInv, OwedInv, Charged, Recoverable, Startable
<1> QED
  BY <1>1, RecordInvariant, PTL

\* startSaved and startRecord are idempotent: no order of requests, failures and
\* crashes runs two copies of a program of which no record is left over.
THEOREM StartedOnce == Spec => []NoSecondCopy
<1>1. IInv => NoSecondCopy
  BY DEF IInv, CopyInv
<1> QED
  BY <1>1, RecordInvariant, PTL

\* saveStopped, removeStopped: short of damage to the file a record goes only by
\* the request it was made or named for, or as the oldest of a full list.
THEOREM NoRecordLost == Spec => RecordsStay
<1>1. IInv /\ [Next]_vars =>
        [faults' = faults =>
           \A r \in ToSet(list) \ ToSet(list') :
               \/ helper.at # "idle" /\ helper.rec = r.id
               \/ Len(list) = MaxRecords /\ r = Last(list)]_vars
  <2> SUFFICES ASSUME IInv, Next, faults' = faults, NEW r \in Listed \ Listed'
               PROVE  \/ helper.at # "idle" /\ helper.rec = r.id
                      \/ Len(list) = MaxRecords /\ r = Last(list)
    BY DEF Listed
  <2>1. list' # list
    BY DEF Listed
  <2>2. CASE \E q \in procs : WriteRecord(q)
    BY <2>2, RecordWritten DEF IInv
  <2>3. CASE Withdraw /\ helper.at # "idle"
    BY <2>3, Withdrawn DEF IInv
  <2>4. ~Reboot
    BY RecordConstants DEF Reboot, Fault, IInv, TypeOK
  <2> QED
    BY <2>1, <2>2, <2>3, <2>4
       DEF Next, HelperStep, Environment, StopRequest, StopUnrecorded, RestartRequest,
           ServiceStopRequest, RestartUnit, Signal, SignalFails, StillThere, Stopped,
           StoppedForRestart, ServiceStops, ServiceStopFails, StartAgain, StartFails,
           Started, StartSaved, StartSavedFails, Exit, ServiceStarts, HelperCrash
<1> QED
  BY <1>1, RecordInvariant, PTL DEF Spec, RecordsStay
=============================================================================
