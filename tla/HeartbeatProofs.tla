-------------------------- MODULE HeartbeatProofs ---------------------------
(***************************************************************************)
(* Theorems about the two components that every heartbeat goes through:    *)
(* the check whether the request is a replay (AgentAuth), and what report  *)
(* and answer do to the node's configuration (NodeConfig).  They share no  *)
(* state, and are proved one after the other.                              *)
(*                                                                         *)
(* AgentAuth, for every window, table size and delay of a handler, and     *)
(* every retention of at least two windows, which is what the code has.    *)
(* The argument: an entry is written at a clock reading no earlier than    *)
(* ts - Window, so when it expires, after ts - Window + Retention, the     *)
(* window of its request has passed (ExpiryIsLate): no handler can begin   *)
(* with it any more, and one that accepts it again is late (MemoryInv).    *)
(***************************************************************************)
EXTENDS AgentAuth, NodeConfig, FiniteSetTheorems, TLAPS

AtWork(h) == phase[h] # "idle"

\* The request of a handler at work passed the clock check, and the clock has
\* only moved forward since.
HandlerInv ==
    \A h \in Handlers : AtWork(h) =>
        /\ req[h] \in sent
        /\ ts[req[h]] <= now + Window
        /\ phase[h] = "signed" => ts[req[h]] <= clock[h] + Window /\ clock[h] <= now

\* What the table says of a request, and how long it says it.
MemoryInv ==
    /\ accepted \subseteq sent
    /\ Remembered \subseteq accepted
    /\ \A r \in Remembered : ts[r] <= nonces[r] + Window
    /\ \A r \in accepted \ forgotten : r \in Remembered \/ now > ts[r] + Window
    /\ repeated \subseteq forgotten \cup late

IInv == TypeOK /\ HandlerInv /\ MemoryInv

USE DEF handlerVars, history, vars, Phases, Absent

LEMMA InitInv == Init => IInv
BY AuthConstants DEF Init, IInv, TypeOK, HandlerInv, MemoryInv, Remembered, AtWork

\* The clock check: the timestamp is at most Window ahead of the clock.
LEMMA ArriveInv ==
    ASSUME IInv, NEW h \in Handlers, NEW r \in Requests, Arrive(h, r)
    PROVE  IInv'
<1> USE AuthConstants DEF IInv, Arrive
<1>1. TypeOK'
  BY DEF TypeOK
<1>2. now - ts[r] >= -Window /\ ts[r] \in Int /\ now \in Nat
  BY DEF TypeOK, Fresh
<1>3. HandlerInv'
  BY <1>2 DEF TypeOK, HandlerInv, AtWork
<1>4. MemoryInv'
  BY DEF MemoryInv, Remembered
<1> QED
  BY <1>1, <1>3, <1>4

LEMMA SendInv ==
    ASSUME IInv, NEW r \in Requests, Send(r)
    PROVE  IInv'
<1> USE AuthConstants DEF IInv, Send
<1>1. TypeOK'
  BY DEF TypeOK
<1>2. \A q \in sent : ts'[q] = ts[q]
  BY DEF TypeOK
<1>3. HandlerInv'
  BY <1>2 DEF TypeOK, HandlerInv, AtWork
<1>4. MemoryInv'
  BY <1>2 DEF MemoryInv, Remembered
<1> QED
  BY <1>1, <1>3, <1>4

\* When a remembered nonce expires, its request's window has passed.
LEMMA ExpiryIsLate ==
    ASSUME IInv, NEW h \in Handlers, phase[h] = "signed",
           NEW r \in Remembered, r \notin Unexpired(clock[h])
    PROVE  now > ts[r] + Window
<1>1. /\ nonces[r] \in Nat /\ ts[r] \in Int /\ clock[h] \in Nat /\ now \in Nat
      /\ ts[r] <= nonces[r] + Window
      /\ clock[h] <= now
  BY DEF IInv, TypeOK, HandlerInv, MemoryInv, Remembered, AtWork
<1>2. clock[h] - nonces[r] > Retention
  BY <1>1, AuthConstants DEF Unexpired
<1> QED
  BY <1>1, <1>2, AuthConstants, WindowFits

\* So the nonce of a request in hand is found if it was accepted, unless its
\* window has passed.
LEMMA DuplicateIsFound ==
    ASSUME IInv, NEW h \in Handlers, phase[h] = "signed",
           req[h] \in accepted \ forgotten, Fresh(req[h])
    PROVE  req[h] \in Unexpired(clock[h])
<1> DEFINE r == req[h]
<1>1. ts[r] \in Int /\ now \in Nat /\ now - ts[r] <= Window
  BY AuthConstants DEF IInv, TypeOK, MemoryInv, Fresh
<1>2. ~(now > ts[r] + Window)
  BY <1>1, AuthConstants
<1>3. r \in Remembered
  BY <1>2 DEF IInv, MemoryInv
<1> QED
  BY <1>2, <1>3, ExpiryIsLate

LEMMA CommitInv ==
    ASSUME IInv, NEW h \in Handlers, Commit(h)
    PROVE  IInv'
<1> DEFINE r == req[h]
           kept == Unexpired(clock[h])
<1>1. /\ phase[h] = "signed" /\ r \in sent /\ r \in Requests
      /\ clock[h] \in Nat /\ ts[r] \in Int
      /\ ts[r] <= clock[h] + Window
      /\ UNCHANGED <<now, sent, ts>>
  BY AuthConstants DEF Commit, IInv, TypeOK, HandlerInv, AtWork
<1>2. kept \subseteq Remembered /\ kept \subseteq Requests
  BY DEF Unexpired, Remembered
<1>3. HandlerInv'
  BY <1>1 DEF Commit, Return, IInv, TypeOK, HandlerInv, AtWork
<1>4. CASE r \in kept /\ nonces' = Only(kept) /\ UNCHANGED history
  <2>1. Remembered' = kept /\ \A q \in kept : nonces'[q] = nonces[q]
    BY <1>2, <1>4 DEF Only, Remembered
  <2>2. TypeOK'
    BY <1>1, <1>2, <1>4 DEF Commit, Return, IInv, TypeOK, Only
  <2>3. MemoryInv'
    BY <1>1, <1>2, <1>4, <2>1, ExpiryIsLate DEF IInv, MemoryInv
  <2> QED
    BY <1>3, <2>2, <2>3 DEF IInv
<1>5. ASSUME r \notin kept, NEW S \in Trimmed(kept),
             nonces' = [Only(kept \ S) EXCEPT ![r] = clock[h]],
             forgotten' = forgotten \cup S,
             accepted' = accepted \cup {r},
             repeated' = repeated \cup ({r} \cap accepted),
             late' = late \cup {q \in {r} \cap accepted : ~Fresh(q)}
      PROVE  IInv'
  <2>1. S \subseteq kept
    BY <1>5 DEF Trimmed
  <2>2. /\ Remembered' = (kept \ S) \cup {r}
        /\ \A q \in kept \ S : nonces'[q] = nonces[q]
        /\ nonces'[r] = clock[h]
    BY <1>1, <1>2, <1>5 DEF Only, Remembered
  <2>3. TypeOK'
    BY <1>1, <1>2, <1>5, <2>1 DEF Commit, Return, IInv, TypeOK, Only
  <2>4. r \in accepted => r \in forgotten \cup late'
    BY <1>1, <1>5, DuplicateIsFound
  <2>5. \A q \in accepted' \ forgotten' :
          q \in Remembered' \/ now' > ts'[q] + Window
    BY <1>1, <1>5, <2>2, ExpiryIsLate DEF IInv, MemoryInv
  <2>6. MemoryInv'
    BY <1>1, <1>2, <1>5, <2>2, <2>4, <2>5 DEF IInv, MemoryInv
  <2> QED
    BY <1>3, <2>3, <2>6 DEF IInv
<1> QED
  BY <1>4, <1>5 DEF Commit

LEMMA NextInv == IInv /\ [Next]_vars => IInv'
<1> SUFFICES ASSUME IInv, [Next]_vars PROVE IInv'
  OBVIOUS
<1>1. ASSUME NEW r \in Requests, Send(r) PROVE IInv'
  BY <1>1, SendInv
<1>2. ASSUME NEW h \in Handlers, NEW r \in Requests, Arrive(h, r) PROVE IInv'
  BY <1>2, ArriveInv
<1>3. ASSUME NEW h \in Handlers, SignatureOK(h) PROVE IInv'
  BY <1>3 DEF SignatureOK, ReadClock, IInv, TypeOK, HandlerInv, MemoryInv, Remembered, AtWork
<1>4. ASSUME NEW h \in Handlers, SignatureBad(h) PROVE IInv'
  BY <1>4 DEF SignatureBad, Return, IInv, TypeOK, HandlerInv, MemoryInv,
     Remembered, AtWork
<1>5. ASSUME NEW h \in Handlers, Commit(h) PROVE IInv'
  BY <1>5, CommitInv
<1>6. CASE Restart
  <2>1. Remembered' = {}
    BY <1>6 DEF Restart, Only, Remembered
  <2>2. TypeOK'
    BY <1>6 DEF Restart, IInv, TypeOK, Only, Remembered
  <2>3. HandlerInv'
    BY <1>6 DEF Restart, HandlerInv, AtWork
  <2>4. MemoryInv'
    BY <1>6, <2>1 DEF Restart, IInv, MemoryInv
  <2> QED
    BY <2>2, <2>3, <2>4 DEF IInv
<1>7. CASE Tick
  BY <1>7, AuthConstants DEF Tick, IInv, TypeOK, HandlerInv, MemoryInv,
     Remembered, AtWork
<1>8. CASE UNCHANGED vars
  BY <1>8 DEF IInv, TypeOK, HandlerInv, MemoryInv, Remembered, AtWork
<1> QED
  BY <1>1, <1>2, <1>3, <1>4, <1>5, <1>6, <1>7, <1>8 DEF Next, HandlerStep

\* The inductive invariant holds in every reachable state.
THEOREM AuthInvariant == Spec => []IInv
BY InitInv, NextInv, PTL DEF Spec

\* Every reachable state has the declared types.
THEOREM TypeCorrect == Spec => []TypeOK
<1>1. IInv => TypeOK
  BY DEF IInv
<1> QED
  BY <1>1, AuthInvariant, PTL

\* authAgentDetailed accepts a request at most once, however often and however
\* concurrently it arrives, unless its nonce was trimmed or lost in a restart, or
\* the handler that accepts it again outlasted the request's window.
THEOREM NoDoubleAcceptance == Spec => []AcceptedOnce
<1>1. IInv => AcceptedOnce
  BY DEF IInv, MemoryInv, AcceptedOnce
<1> QED
  BY <1>1, AuthInvariant, PTL

\* Only accepted requests are remembered, and for as long as they could pass again.
THEOREM MemoryIsExact == Spec => []RemembersExactly
<1>1. IInv => RemembersExactly
  BY AuthConstants DEF IInv, TypeOK, MemoryInv, RemembersExactly, Fresh
<1> QED
  BY <1>1, AuthInvariant, PTL
-----------------------------------------------------------------------------
TableInv == IsFiniteSet(Remembered) /\ TableBounded

\* Making room in a full table and adding one entry keeps it within its cap.
LEMMA RoomForOne ==
    ASSUME NEW T, IsFiniteSet(T), Cardinality(T) <= TableCap,
           NEW S \in Trimmed(T), NEW x
    PROVE  /\ IsFiniteSet((T \ S) \cup {x})
           /\ Cardinality((T \ S) \cup {x}) <= TableCap
<1>1. Cardinality(T) \in Nat /\ S \subseteq T
  BY FS_CardinalityType DEF Trimmed
<1>2. IsFiniteSet(T \ S) /\ Cardinality(T \ S) <= Cardinality(T)
  BY FS_Subset
<1>3. Cardinality(T \ S) \in Nat
  BY <1>2, FS_CardinalityType
<1>4. Cardinality(T \ S) < TableCap
  <2>1. CASE Cardinality(T) >= TableCap
    <3>1. S # {}
      BY <2>1, FS_EmptySet, AuthConstants DEF Trimmed
    <3>2. T \ S # T
      BY <1>1, <3>1
    <3>3. Cardinality(T \ S) # Cardinality(T)
      BY <3>2, FS_Subset
    <3> QED
      BY <1>1, <1>2, <1>3, <3>3, AuthConstants
  <2>2. CASE ~(Cardinality(T) >= TableCap)
    BY <1>1, <1>2, <1>3, <2>2, AuthConstants
  <2> QED
    BY <2>1, <2>2
<1> DEFINE U == T \ S
<1>5. IsFiniteSet(U) /\ Cardinality(U) \in Nat /\ Cardinality(U) < TableCap /\ TableCap \in Nat
  BY <1>2, <1>3, <1>4, AuthConstants
<1> HIDE DEF U
<1>6. /\ IsFiniteSet(U \cup {x})
      /\ Cardinality(U \cup {x}) = IF x \in U THEN Cardinality(U) ELSE Cardinality(U) + 1
  BY <1>5, FS_AddElement
<1>7. Cardinality(U \cup {x}) <= TableCap
  BY <1>5, <1>6
<1> QED
  BY <1>6, <1>7 DEF U

\* The cache of nonces never exceeds its cap.
THEOREM TableNeverOverflows == Spec => []TableBounded
<1>1. Init => TableInv
  <2>1. Init => Remembered = {}
    BY DEF Init, Remembered
  <2> QED
    BY <2>1, FS_EmptySet, AuthConstants DEF TableInv, TableBounded
<1>2. IInv /\ TableInv /\ [Next]_vars => TableInv'
  <2> SUFFICES ASSUME IInv, TableInv, [Next]_vars
               PROVE  TableInv'
    OBVIOUS
  <2>1. CASE UNCHANGED nonces
    BY <2>1 DEF TableInv, TableBounded, Remembered
  <2>2. CASE Restart
    <3>1. Remembered' = {}
      BY <2>2 DEF Restart, Only, Remembered
    <3> QED
      BY <3>1, FS_EmptySet, AuthConstants DEF TableInv, TableBounded
  <2>3. ASSUME NEW h \in Handlers, Commit(h) PROVE TableInv'
    <3> DEFINE kept == Unexpired(clock[h])
    <3>1. /\ kept \subseteq Remembered /\ kept \subseteq Requests
          /\ req[h] \in Requests /\ clock[h] \in Nat
      BY <2>3 DEF Commit, Unexpired, Remembered, IInv, TypeOK, HandlerInv, AtWork
    <3>2. /\ IsFiniteSet(Remembered) /\ Cardinality(Remembered) \in Nat
          /\ Cardinality(Remembered) <= TableCap
      BY FS_CardinalityType DEF TableInv, TableBounded
    <3>3. /\ IsFiniteSet(kept) /\ Cardinality(kept) \in Nat
          /\ Cardinality(kept) <= TableCap
      <4>1. IsFiniteSet(kept) /\ Cardinality(kept) <= Cardinality(Remembered)
        BY <3>1, <3>2, FS_Subset
      <4>2. Cardinality(kept) \in Nat
        BY <4>1, FS_CardinalityType
      <4> QED
        BY <3>2, <4>1, <4>2, AuthConstants
    <3>4. CASE nonces' = Only(kept)
      <4>1. Remembered' = kept
        BY <3>1, <3>4 DEF Only, Remembered
      <4> QED
        BY <3>3, <4>1 DEF TableInv, TableBounded
    <3>5. ASSUME NEW S \in Trimmed(kept),
                 nonces' = [Only(kept \ S) EXCEPT ![req[h]] = clock[h]]
          PROVE  TableInv'
      <4>1. Remembered' = (kept \ S) \cup {req[h]}
        BY <3>1, <3>5 DEF Only, Remembered
      <4> QED
        BY <3>3, <4>1, RoomForOne DEF TableInv, TableBounded
    <3> QED
      BY <2>3, <3>4, <3>5 DEF Commit
  <2> QED
    BY <2>1, <2>2, <2>3 DEF Next, HandlerStep, Send, Arrive, SignatureOK, ReadClock,
       SignatureBad, Tick
<1> QED
  BY <1>1, <1>2, AuthInvariant, PTL DEF Spec, TableInv
-----------------------------------------------------------------------------
(***************************************************************************)
(* NodeConfig, for any intervals with a longest one, any addresses and     *)
(* edits, and at least two heartbeats that may be missed.  The argument:   *)
(* wherever a loop works with a copy of the configuration, the copy is a   *)
(* configuration (LoopInv); if it is the one wanted, and so is every       *)
(* interval on its way, every write is of what is there already.           *)
(***************************************************************************)

\* Where the loops use a copy, an answer or a command, there is one.
LoopInv ==
    /\ hpc \in {"post", "apply", "switch", "testing"} => hcfg \in Config
    /\ hpc \in {"apply", "switch"} => told \in Config
    /\ cpc = "set" => ccfg \in Config
    /\ cpc \in {"copy", "set", "post"} => cmd \in Edits

ConfigInv == ConfigTypeOK /\ LoopInv

USE DEF server, channel, heartbeat, command, agent, env, configVars

LEMMA MaxIsMax ==
    ASSUME NEW S \in SUBSET Nat, NEW m \in S, \A x \in S : x <= m
    PROVE  Max(S) = m
<1>1. \A x \in S : m >= x
  OBVIOUS
<1>2. \A y \in S : (\A x \in S : y >= x) => y = m
  OBVIOUS
<1> QED
  BY <1>1, <1>2 DEF Max

LEMMA MaxOfTwo ==
    ASSUME NEW a \in Nat, NEW b \in Nat
    PROVE  Max({a, b}) = IF a >= b THEN a ELSE b
<1>1. CASE a >= b
  BY <1>1, MaxIsMax
<1>2. CASE ~(a >= b)
  BY <1>2, MaxIsMax
<1> QED
  BY <1>1, <1>2

\* The longest interval, and what age and timer are bounded by.
LEMMA Bounds ==
    /\ Max(Intervals) \in Nat
    /\ \A i \in Intervals : i <= Max(Intervals)
    /\ MaxAge \in Nat
<1>1. PICK m \in Intervals : \A j \in Intervals : j <= m
  BY NodeConstants
<1>2. Max(Intervals) = m /\ m \in Nat
  BY <1>1, MaxIsMax, NodeConstants
<1> DEFINE S == {MinThreshold} \cup {Missed * i : i \in Intervals}
<1>3. \A i \in Intervals : Missed * i \in Nat /\ Missed * i <= Missed * m
  <2> SUFFICES ASSUME NEW i \in Intervals
               PROVE  Missed * i \in Nat /\ Missed * i <= Missed * m
    OBVIOUS
  <2>1. i \in Nat /\ Missed \in Nat /\ i <= m
    BY <1>1, NodeConstants
  <2> QED
    BY <1>2, <2>1
<1>4. S \in SUBSET Nat /\ MinThreshold \in S /\ Missed * m \in S
  BY <1>1, <1>3, NodeConstants
<1>5. Max(S) \in Nat
  <2>1. CASE MinThreshold <= Missed * m
    <3>1. \A x \in S : x <= Missed * m
      BY <1>3, <2>1
    <3> QED
      BY <1>4, <3>1, MaxIsMax
  <2>2. CASE ~(MinThreshold <= Missed * m)
    <3>1. \A x \in S : x <= MinThreshold
      BY <1>2, <1>3, <1>4, <2>2
    <3> QED
      BY <1>4, <3>1, MaxIsMax
  <2> QED
    BY <2>1, <2>2
<1> QED
  BY <1>1, <1>2, <1>5 DEF MaxAge

LEMMA ConstantTypes ==
    /\ \A i \in Intervals : i \in Nat /\ i > 0
    /\ NoEdit \notin Edits
    /\ Missed \in Nat /\ Missed >= 2
    /\ MinThreshold \in Nat
    /\ MaxUrlChanges \in Nat /\ MaxDisturbances \in Nat /\ MaxAgentRestarts \in Nat
BY NodeConstants DEF NoEdit

LEMMA NoConfigIsNone == NoConfig \notin Config
BY NodeConstants DEF NoConfig, Config

LEMMA InitConfig == ConfigInit => ConfigInv
<1> SUFFICES ASSUME ConfigInit PROVE ConfigInv
  OBVIOUS
<1>1. want \in Config /\ want.interval \in Intervals
  BY NodeConstants DEF ConfigInit, Config
<1>2. timer \in 0..Max(Intervals)
  BY <1>1, Bounds, ConstantTypes DEF ConfigInit
<1>3. age \in 0..MaxAge
  BY Bounds DEF ConfigInit
<1>4. /\ urlChanges \in 0..MaxUrlChanges /\ disturbances \in 0..MaxDisturbances
      /\ agentRestarts \in 0..MaxAgentRestarts
  BY ConstantTypes DEF ConfigInit
<1>5. epc \in [Edits -> {"idle", "send", "wait", "answered"}]
      /\ target \in [Edits -> Intervals] /\ queue \in Seq(Edits)
  BY <1>1 DEF ConfigInit
<1>6. ConfigTypeOK
  BY <1>1, <1>2, <1>3, <1>4, <1>5 DEF ConfigInit, ConfigTypeOK
<1> QED
  BY <1>6 DEF ConfigInit, ConfigInv, LoopInv

LEMMA DisturbTyped ==
    ASSUME ConfigTypeOK, Disturb
    PROVE  /\ disturbances' \in 0..MaxDisturbances
           /\ UNCHANGED <<urlChanges, agentRestarts>>
BY ConstantTypes DEF ConfigTypeOK, Disturb

\* editNode and the Server's settings.
LEMMA ServerTyped ==
    ASSUME ConfigInv,
           \/ \E e \in Edits : EditStep(e)
           \/ \E u \in Urls : ChangeUrl(u)
    PROVE  ConfigInv'
<1> DEFINE EditStates == {"idle", "send", "wait", "answered"}
<1>1. /\ want \in Config /\ epc \in [Edits -> EditStates]
      /\ target \in [Edits -> Intervals] /\ queue \in Seq(Edits)
      /\ urlChanges \in 0..MaxUrlChanges
  BY DEF ConfigInv, ConfigTypeOK
<1>2. ASSUME NEW e \in Edits, NEW i \in Intervals, EditSave(e, i) PROVE ConfigInv'
  <2>1. want' \in Config
    BY <1>1, <1>2 DEF EditSave, Config
  <2>2. target' \in [Edits -> Intervals] /\ epc' \in [Edits -> EditStates]
    BY <1>1, <1>2 DEF EditSave
  <2> QED
    BY <1>2, <2>1, <2>2 DEF EditSave, ConfigInv, ConfigTypeOK, LoopInv
<1>3. ASSUME NEW e \in Edits, EditSend(e) PROVE ConfigInv'
  <2>1. queue' = queue \/ queue' = Append(queue, e)
    BY <1>3 DEF EditSend
  <2>2. queue' \in Seq(Edits)
    BY <1>1, <2>1
  <2>3. epc' \in [Edits -> EditStates]
    BY <1>1, <1>3 DEF EditSend
  <2> QED
    BY <1>3, <2>2, <2>3 DEF EditSend, ConfigInv, ConfigTypeOK, LoopInv
<1>4. ASSUME NEW e \in Edits, EditDone(e) \/ EditFails(e) PROVE ConfigInv'
  <2>1. epc' \in [Edits -> EditStates]
    BY <1>1, <1>4 DEF EditDone, EditFails
  <2> QED
    BY <1>4, <2>1 DEF EditDone, EditFails, ConfigInv, ConfigTypeOK, LoopInv
<1>5. ASSUME NEW u \in Urls, ChangeUrl(u) PROVE ConfigInv'
  <2>1. want' \in Config
    BY <1>1, <1>5 DEF ChangeUrl, Config
  <2>2. urlChanges' \in 0..MaxUrlChanges
    BY <1>1, <1>5, ConstantTypes DEF ChangeUrl
  <2> QED
    BY <1>5, <2>1, <2>2 DEF ChangeUrl, ConfigInv, ConfigTypeOK, LoopInv
<1> QED
  BY <1>2, <1>3, <1>4, <1>5 DEF EditStep

\* A loop goes to sleep with a configuration.
LEMMA SleepTyped ==
    ASSUME NEW c \in Config, Sleep(c)
    PROVE  /\ timer' \in 0..Max(Intervals)
           /\ hpc' = "sleep" /\ hcfg' = NoConfig /\ told' = NoConfig
<1>1. c.interval \in Intervals /\ c.interval \in Nat
  BY NodeConstants DEF Config
<1> QED
  BY <1>1, Bounds DEF Sleep

\* heartbeatLoop.
LEMMA HeartbeatTyped ==
    ASSUME ConfigInv, HeartbeatStep \/ HbFails \/ SwitchFails
    PROVE  ConfigInv'
<1> USE DEF ConfigInv, ConfigTypeOK, LoopInv
<1>1. CASE HbWake \/ HbCopy
  BY <1>1 DEF HbWake, HbCopy
<1>2. ASSUME Heard, hcfg \in Config
      PROVE  latest' \in Intervals \cup {0} /\ age' \in 0..MaxAge
  BY <1>2, Bounds DEF Heard, Reported, Config
<1>3. CASE HbPost
  <2>1. latest' \in Intervals \cup {0} /\ age' \in 0..MaxAge
    BY <1>2, <1>3 DEF HbPost
  <2> QED
    BY <1>3, <2>1 DEF HbPost, Heard
<1>4. CASE HbFails
  <2>1. latest' \in Intervals \cup {0} /\ age' \in 0..MaxAge
    BY <1>2, <1>4 DEF HbFails
  <2>2. /\ timer' \in 0..Max(Intervals)
        /\ hpc' = "sleep" /\ hcfg' = NoConfig /\ told' = NoConfig
    BY <1>4, SleepTyped DEF HbFails
  <2> QED
    BY <1>4, <2>1, <2>2, DisturbTyped DEF HbFails, Heard
<1>5. CASE HbApply
  <2>1. Learn \in Config
    <3>1. hcfg \in Config /\ told \in Config
      BY <1>5 DEF HbApply
    <3> QED
      BY <3>1 DEF Learn, Config
  <2>2. cfg' \in Config
    BY <1>5, <2>1 DEF HbApply, SetConfig
  <2>3. CASE told.url # hcfg.url
    BY <1>5, <2>2, <2>3 DEF HbApply
  <2>4. CASE ~(told.url # hcfg.url)
    <3>1. Sleep(cfg')
      BY <1>5, <2>4 DEF HbApply
    <3>2. /\ timer' \in 0..Max(Intervals)
          /\ hpc' = "sleep" /\ hcfg' = NoConfig /\ told' = NoConfig
      BY <2>2, <3>1, SleepTyped
    <3> QED
      BY <1>5, <2>2, <3>2 DEF HbApply
  <2> QED
    BY <2>3, <2>4
<1>6. CASE SwitchCopy
  <2>1. hcfg' \in Config
    <3>1. cfg \in Config /\ told \in Config
      BY <1>6 DEF SwitchCopy
    <3> QED
      BY <1>6, <3>1 DEF SwitchCopy, Config
  <2> QED
    BY <1>6, <2>1 DEF SwitchCopy
<1>7. CASE Switch
  <2>1. /\ timer' \in 0..Max(Intervals)
        /\ hpc' = "sleep" /\ hcfg' = NoConfig /\ told' = NoConfig
    BY <1>7, SleepTyped DEF Switch
  <2> QED
    BY <1>7, <2>1 DEF Switch, SetConfig
<1>8. CASE SwitchFails
  <2>1. /\ timer' \in 0..Max(Intervals)
        /\ hpc' = "sleep" /\ hcfg' = NoConfig /\ told' = NoConfig
    BY <1>8, SleepTyped DEF SwitchFails
  <2> QED
    BY <1>8, <2>1, DisturbTyped DEF SwitchFails
<1> QED
  BY <1>1, <1>3, <1>4, <1>5, <1>6, <1>7, <1>8 DEF HeartbeatStep

\* commandLoop.
LEMMA CommandTyped ==
    ASSUME ConfigInv,
           CommandStep \/ CmdPost(FALSE) \/ CmdLost \/ Busy \/ BusyEnds
    PROVE  ConfigInv'
<1> USE DEF ConfigInv, ConfigTypeOK, LoopInv
<1>1. CASE CmdFetch \/ CmdLost
  <2>1. Tail(queue) \in Seq(Edits) /\ Head(queue) \in Edits
    BY <1>1 DEF CmdFetch, CmdLost
  <2>2. CASE CmdFetch
    BY <2>1, <2>2 DEF CmdFetch
  <2>3. CASE CmdLost
    BY <2>1, <2>3, DisturbTyped DEF CmdLost
  <2> QED
    BY <1>1, <2>2, <2>3
<1>2. CASE CmdCopy
  BY <1>2 DEF CmdCopy
<1>3. CASE CmdSet
  <2>1. target[cmd] \in Intervals
    BY <1>3 DEF CmdSet
  <2>2. cfg' \in Config
    <3>1. ccfg \in Config
      BY <1>3 DEF CmdSet
    <3> QED
      BY <1>3, <2>1, <3>1 DEF CmdSet, SetConfig, Config
  <2> QED
    BY <1>3, <2>2 DEF CmdSet
<1>4. ASSUME NEW delivered \in BOOLEAN, CmdPost(delivered) PROVE ConfigInv'
  <2>1. answer' \subseteq Edits /\ UNCHANGED <<urlChanges, agentRestarts>>
        /\ disturbances' \in 0..MaxDisturbances
    BY <1>4, DisturbTyped DEF CmdPost
  <2> QED
    BY <1>4, <2>1 DEF CmdPost
<1>5. CASE Busy
  BY <1>5, DisturbTyped DEF Busy
<1>6. CASE BusyEnds
  BY <1>6 DEF BusyEnds
<1> QED
  BY <1>1, <1>2, <1>3, <1>4, <1>5, <1>6 DEF CommandStep

LEMMA NextConfig == ConfigInv /\ [ConfigNext]_configVars => ConfigInv'
<1> SUFFICES ASSUME ConfigInv, [ConfigNext]_configVars PROVE ConfigInv'
  OBVIOUS
<1> USE DEF ConfigInv, ConfigTypeOK, LoopInv
<1>1. CASE AgentStop \/ AgentStart
  <2>1. /\ agentRestarts' \in 0..MaxAgentRestarts
        /\ UNCHANGED <<urlChanges, disturbances>>
    BY <1>1, ConstantTypes DEF AgentStop, AgentStart
  <2>2. timer' \in 0..Max(Intervals)
    BY <1>1, Bounds DEF AgentStop, AgentStart
  <2> QED
    BY <1>1, <2>1, <2>2 DEF AgentStop, AgentStart
<1>2. CASE TimePasses
  <2>1. age' \in 0..MaxAge
    BY <1>2, Bounds DEF TimePasses
  <2>2. timer' \in 0..Max(Intervals)
    BY <1>2, Bounds DEF TimePasses, Waiting
  <2> QED
    BY <1>2, <2>1, <2>2 DEF TimePasses
<1>3. CASE UNCHANGED configVars
  BY <1>3
<1> QED
  BY <1>1, <1>2, <1>3, ServerTyped, HeartbeatTyped, CommandTyped DEF ConfigNext

\* The inductive invariant holds in every reachable state.
THEOREM ConfigInvariant == ConfigSpec => []ConfigInv
BY InitConfig, NextConfig, PTL DEF ConfigSpec

\* ConfigState and RuntimeNode always hold a configuration of the declared type,
\* and no loop works with a copy, or a command, that is not there.
THEOREM ConfigTypeCorrect == ConfigSpec => []ConfigTypeOK
<1>1. ConfigInv => ConfigTypeOK
  BY DEF ConfigInv
<1> QED
  BY <1>1, ConfigInvariant, PTL

\* In agreement, a loop that works with a copy works with what is wanted.
LEMMA AgreedCopies ==
    ASSUME ConfigInv, Agreed
    PROVE  /\ want \in Config /\ cfg = want
           /\ hpc \in {"post", "apply", "switch", "testing"} => hcfg = want
           /\ hpc \in {"apply", "switch"} => told = want
           /\ cpc = "set" => ccfg = want
           /\ cpc \in {"copy", "set", "post"} => target[cmd] = want.interval
<1>1. want \in Config /\ cfg = want /\ {hcfg, told, ccfg} \subseteq {want, NoConfig}
  BY DEF ConfigInv, ConfigTypeOK, Agreed
<1>2. cpc \in {"copy", "set", "post"} => target[cmd] = want.interval
  BY DEF ConfigInv, LoopInv, Agreed, UnderWay
<1> QED
  BY <1>1, <1>2, NoConfigIsNone DEF ConfigInv, LoopInv

\* To write what is there already changes nothing.
LEMMA SameWritten ==
    ASSUME NEW c \in Config
    PROVE  /\ [c EXCEPT !.interval = c.interval] = c
           /\ [c EXCEPT !.url = c.url] = c
BY DEF Config

\* The configuration and its copies.
LEMMA AgreedConfig ==
    ASSUME ConfigInv, Agreed, [ConfigNext]_configVars, UNCHANGED want
    PROVE  cfg' = want' /\ {hcfg', told', ccfg'} \subseteq {want', NoConfig}
<1>1. /\ want \in Config /\ cfg = want /\ {hcfg, told, ccfg} \subseteq {want, NoConfig}
      /\ [want EXCEPT !.interval = want.interval] = want
      /\ [want EXCEPT !.url = want.url] = want
  BY AgreedCopies, SameWritten DEF Agreed
<1>2. CASE UNCHANGED <<cfg, hcfg, told, ccfg>>
  BY <1>1, <1>2
<1>3. CASE HbCopy
  BY <1>1, <1>3 DEF HbCopy
<1>4. CASE HbPost
  BY <1>1, <1>4 DEF HbPost
<1>5. CASE HbFails
  BY <1>1, <1>5 DEF HbFails, Sleep
<1>6. CASE HbApply
  <2>1. hcfg = want /\ told = want
    BY <1>6, AgreedCopies DEF HbApply
  <2>2. Learn = want
    BY <1>1, <2>1 DEF Learn
  <2>3. cfg' = want /\ ccfg' = ccfg
    BY <1>1, <1>6, <2>1, <2>2 DEF HbApply
  <2>4. Sleep(cfg')
    BY <1>6, <2>1 DEF HbApply
  <2> QED
    BY <1>1, <2>3, <2>4 DEF Sleep
<1>7. CASE SwitchCopy
  <2>1. hcfg' = want
    BY <1>1, <1>7, AgreedCopies DEF SwitchCopy
  <2> QED
    BY <1>1, <1>7, <2>1 DEF SwitchCopy
<1>8. CASE Switch
  <2>1. hcfg = want
    BY <1>8, AgreedCopies DEF Switch
  <2> QED
    BY <1>1, <1>8, <2>1 DEF Switch, SetConfig, Sleep
<1>9. CASE SwitchFails
  BY <1>1, <1>9 DEF SwitchFails, Sleep
<1>10. CASE CmdCopy
  BY <1>1, <1>10 DEF CmdCopy
<1>11. CASE CmdSet
  <2>1. ccfg = want /\ target[cmd] = want.interval
    BY <1>11, AgreedCopies DEF CmdSet
  <2> QED
    BY <1>1, <1>11, <2>1 DEF CmdSet, SetConfig
<1>12. CASE AgentStop
  BY <1>1, <1>12 DEF AgentStop
<1> QED
  BY <1>2, <1>3, <1>4, <1>5, <1>6, <1>7, <1>8, <1>9, <1>10, <1>11, <1>12
     DEF ConfigNext, EditStep, HeartbeatStep, CommandStep, EditSave, EditSend, EditDone,
         EditFails, ChangeUrl, HbWake, CmdFetch, CmdPost, CmdLost, Busy, BusyEnds,
         AgentStart, TimePasses

\* No command with another interval gets under way.
LEMMA AgreedTargets ==
    ASSUME ConfigInv, Agreed, [ConfigNext]_configVars, UNCHANGED want,
           NEW e \in Edits, UnderWay(e)'
    PROVE  target'[e] = want'.interval
<1>1. /\ epc \in [Edits -> {"idle", "send", "wait", "answered"}]
      /\ target \in [Edits -> Intervals] /\ queue \in Seq(Edits)
  BY DEF ConfigInv, ConfigTypeOK
<1>2. UnderWay(e) => target[e] = want.interval
  BY DEF Agreed
<1>3. CASE UNCHANGED <<target, epc, queue, cmd>>
  BY <1>2, <1>3 DEF UnderWay, Queued
<1>4. ASSUME NEW f \in Edits, NEW i \in Intervals, EditSave(f, i)
      PROVE  target'[e] = want'.interval
  <2>1. CASE f = e
    <3>1. want \in Config /\ want'.interval = i
      BY <1>4 DEF EditSave, ConfigInv, ConfigTypeOK, Config
    <3> QED
      BY <1>1, <1>4, <2>1, <3>1 DEF EditSave
  <2>2. CASE f # e
    <3>1. target'[e] = target[e] /\ epc'[e] = epc[e] /\ UNCHANGED <<queue, cmd>>
      BY <1>1, <1>4, <2>2 DEF EditSave
    <3> QED
      BY <1>2, <3>1 DEF UnderWay, Queued
  <2> QED
    BY <2>1, <2>2
<1>5. ASSUME NEW f \in Edits, EditSend(f) PROVE target'[e] = want'.interval
  <2>1. /\ UNCHANGED <<target, cmd>> /\ epc[f] = "send"
        /\ epc'[e] = "send" => epc[e] = "send"
        /\ queue' = queue \/ queue' = Append(queue, f)
    BY <1>1, <1>5 DEF EditSend
  <2>2. Queued(e)' => Queued(e) \/ e = f
    BY <1>1, <2>1 DEF Queued
  <2> QED
    BY <1>2, <2>1, <2>2 DEF UnderWay
<1>6. ASSUME NEW f \in Edits, EditDone(f) \/ EditFails(f)
      PROVE  target'[e] = want'.interval
  <2>1. /\ UNCHANGED <<target, cmd, queue>>
        /\ epc'[e] = "send" => epc[e] = "send"
    BY <1>1, <1>6 DEF EditDone, EditFails
  <2> QED
    BY <1>2, <2>1 DEF UnderWay, Queued
<1>7. CASE CmdFetch \/ CmdLost
  <2>1. /\ UNCHANGED <<target, epc>> /\ queue # <<>> /\ queue' = Tail(queue)
        /\ cmd' = cmd \/ cmd' = Head(queue)
    BY <1>7 DEF CmdFetch, CmdLost
  <2>2. Queued(e)' => Queued(e)
    BY <1>1, <2>1 DEF Queued
  <2>3. e = Head(queue) => Queued(e)
    BY <1>1, <2>1 DEF Queued
  <2> QED
    BY <1>2, <2>1, <2>2, <2>3 DEF UnderWay
<1>8. ASSUME NEW delivered \in BOOLEAN, CmdPost(delivered)
      PROVE  target'[e] = want'.interval
  <2>1. UNCHANGED <<target, epc, queue>> /\ cmd' = NoEdit
    BY <1>8 DEF CmdPost
  <2> QED
    BY <1>2, <2>1, ConstantTypes DEF UnderWay, Queued
<1>9. CASE AgentStop
  <2>1. UNCHANGED <<target, epc, queue>> /\ cmd' = NoEdit
    BY <1>9 DEF AgentStop
  <2> QED
    BY <1>2, <2>1, ConstantTypes DEF UnderWay, Queued
<1> QED
  BY <1>3, <1>4, <1>5, <1>6, <1>7, <1>8, <1>9
     DEF ConfigNext, EditStep, HeartbeatStep, CommandStep, ChangeUrl, HbWake, HbCopy,
         HbPost, HbApply, SwitchCopy, Switch, HbFails, SwitchFails, CmdCopy, CmdSet,
         Busy, BusyEnds, AgentStart, TimePasses, Heard

LEMMA AgreedKept ==
    ASSUME ConfigInv, Agreed, [ConfigNext]_configVars, UNCHANGED want
    PROVE  Agreed'
<1>1. \A e \in Edits : UnderWay(e)' => target'[e] = want'.interval
  BY AgreedTargets
<1> QED
  BY <1>1, AgreedConfig DEF Agreed

\* One interval is less than what a node may miss.
LEMMA SettledIsOnline ==
    ASSUME ConfigInv', Settled'
    PROVE  nodeIsOnline'
<1> DEFINE i == want'.interval
<1>1. i \in Nat /\ i > 0
  BY ConstantTypes DEF ConfigInv, ConfigTypeOK, Config
<1>2. age' \in Nat /\ timer' \in Nat
  BY Bounds DEF ConfigInv, ConfigTypeOK
<1>3. age' <= i
  BY <1>1, <1>2 DEF Settled, OnTime
<1>4. (IF latest' > 0 THEN latest' ELSE want'.interval) = i
  BY <1>1 DEF Settled
<1>5. i < Missed * i /\ Missed * i \in Nat
  BY <1>1, ConstantTypes
<1>6. nodeOfflineThreshold' = Max({Missed * i, MinThreshold})
  BY <1>4 DEF nodeOfflineThreshold
<1>7. nodeOfflineThreshold' \in Nat /\ nodeOfflineThreshold' >= Missed * i
  BY <1>5, <1>6, MaxOfTwo, ConstantTypes
<1> QED
  BY <1>1, <1>2, <1>3, <1>5, <1>7 DEF nodeIsOnline

\* Between two heartbeats not more than an interval passes, and a heartbeat that
\* is not lost starts it anew.
LEMMA SettledKept ==
    ASSUME ConfigInv, Settled, [ConfigNext]_configVars,
           UNCHANGED <<want, disturbances, agentRestarts>>
    PROVE  Settled'
<1>1. Agreed /\ Agreed'
  BY AgreedKept DEF Settled
<1>2. /\ want.interval \in Nat /\ age \in Nat /\ timer \in Nat
      /\ disturbances \in Nat /\ agentRestarts \in Nat
  BY Bounds, ConstantTypes DEF ConfigInv, ConfigTypeOK, Config
<1>3. ~Disturb /\ ~AgentStop
  BY <1>2 DEF Disturb, AgentStop
<1>4. up /\ latest \in {0, want.interval} /\ OnTime
  BY DEF Settled
<1> SUFFICES up' /\ latest' \in {0, want.interval} /\ OnTime'
  BY <1>1 DEF Settled
<1>5. CASE UNCHANGED <<up, latest, age, timer, hpc>>
  BY <1>4, <1>5 DEF OnTime
<1>6. CASE HbWake \/ HbCopy
  <2>1. /\ hpc \in {"sleep", "copy"} /\ hpc' \in {"copy", "post"}
        /\ UNCHANGED <<up, latest, age, want>>
    BY <1>6 DEF HbWake, HbCopy
  <2>2. age <= want.interval
    BY <1>2, <1>4, <2>1 DEF OnTime
  <2> QED
    BY <1>4, <2>1, <2>2 DEF OnTime
<1>7. CASE HbPost
  <2>1. hcfg = want
    BY <1>1, <1>7, AgreedCopies DEF HbPost
  <2> QED
    BY <1>7, <2>1 DEF HbPost, Heard, Reported, OnTime
<1>8. CASE HbApply
  <2>1. hcfg = want /\ told = want
    BY <1>1, <1>8, AgreedCopies DEF HbApply
  <2>2. Sleep(cfg') /\ cfg' = want
    BY <1>1, <1>8, <2>1 DEF HbApply, Agreed
  <2>3. age = 0
    BY <1>4, <1>8 DEF HbApply, OnTime
  <2> QED
    BY <1>2, <1>4, <1>8, <2>2, <2>3 DEF HbApply, Sleep, OnTime
<1>9. CASE SwitchCopy
  BY <1>4, <1>9 DEF SwitchCopy, OnTime
<1>10. CASE Switch
  <2>1. hcfg = want /\ age = 0
    BY <1>1, <1>4, <1>10, AgreedCopies DEF Switch, OnTime
  <2> QED
    BY <1>2, <1>4, <1>10, <2>1 DEF Switch, Sleep, OnTime
<1>11. CASE TimePasses
  <2>1. /\ hpc = "sleep" /\ timer > 0 /\ timer' = timer - 1
        /\ age' = age \/ age' = age + 1
        /\ UNCHANGED <<up, latest, want, hpc>>
    BY <1>4, <1>11 DEF TimePasses, Waiting
  <2> QED
    BY <1>2, <1>4, <2>1 DEF OnTime
<1> QED
  BY <1>3, <1>4, <1>5, <1>6, <1>7, <1>8, <1>9, <1>10, <1>11
     DEF ConfigNext, EditStep, HeartbeatStep, CommandStep, EditSave, EditSend, EditDone,
         EditFails, ChangeUrl, HbFails, SwitchFails, CmdFetch, CmdCopy, CmdSet, CmdPost,
         CmdLost, Busy, BusyEnds, AgentStart

\* editNode, agentHeartbeat and the two loops of the Agent: once they agree they
\* agree until the next edit or change of address, through lost messages and
\* restarts, and a node whose heartbeats come on time stays online.
THEOREM AgreementIsStable == ConfigSpec => AgreementStays
<1>1. ConfigInv /\ ConfigInv' /\ [ConfigNext]_configVars =>
        /\ Agreed /\ UNCHANGED want => Agreed'
        /\ Settled /\ UNCHANGED <<want, disturbances, agentRestarts>> =>
             Settled' /\ nodeIsOnline'
  BY AgreedKept, SettledKept, SettledIsOnline
<1> QED
  BY <1>1, ConfigInvariant, PTL DEF ConfigSpec, AgreementStays
=============================================================================
