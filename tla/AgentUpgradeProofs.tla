------------------------- MODULE AgentUpgradeProofs --------------------------
(***************************************************************************)
(* Theorems about AgentUpgrade, for any number of versions, of upgrades,   *)
(* of requests waiting and of faults.                                      *)
(*                                                                         *)
(* The argument: as long as no requests clash, the Helper's main loop and  *)
(* its watchdogs take turns on the two files.  An upgrade begins only when *)
(* the last good version is the one installed and no watchdog can wake for *)
(* an earlier record (MainInv), at most one watchdog is at work, and while *)
(* a record waits for its commit, the last good version is the one kept    *)
(* aside (WatchInv).  A record is there only with a watchdog to look at it *)
(* (OnTrial), until the version it is about is committed or taken back.    *)
(***************************************************************************)
EXTENDS AgentUpgrade, SequenceTheorems, TLAPS

Asleep == \E i \in Upgrades : watchdog[i] = "asleep"
AtWork(i) == watchdog[i] \in {"awake", "moved", "restored"}
Upgrading == hpc \in {"upgrade", "backup", "install", "record"}

\* The request in hand is one the main loop is at the right place for.
ServingInv ==
    /\ hpc \in {"down", "accept"} => serving = NoRequest
    /\ Upgrading => serving \in Requests /\ serving.op = "upgrade"
    /\ Committing => serving \in Requests /\ serving.op = "commit"

Typed == TypeOK /\ ServingInv

\* What the main loop may count on, wherever it is.
MainInv ==
    /\ hpc \in {"upgrade", "backup"} =>
          current = lastGood /\ serving.version # lastGood
    /\ hpc = "install" => previous = lastGood /\ serving.version # lastGood
    /\ hpc = "record" => previous = lastGood /\ current \notin {lastGood, Missing}
    /\ Upgrading => ~RollingBack /\ (pending => ~Asleep)
    /\ hpc = "clearPending" => pending /\ current = lastGood
    /\ Committing /\ pending => serving.from = current /\ ~RollingBack

\* What a watchdog may count on, wherever it is.
WatchInv ==
    /\ \A i, j \in Upgrades : AtWork(i) /\ AtWork(j) => i = j
    /\ pending /\ Asleep /\ ~RollingBack /\ hpc # "clearPending" =>
          previous = lastGood /\ current # lastGood
    /\ \A i \in Upgrades :
          /\ watchdog[i] = "awake" => pending /\ previous = lastGood
          /\ watchdog[i] = "moved" => previous = lastGood
          /\ watchdog[i] = "restored" => current = lastGood

InTurn == LastGoodKept /\ MainInv /\ WatchInv /\ Bootable

IInv == Typed /\ (clash \/ InTurn)

USE DEF files, agent, helper, world, history, vars, Upgrades, Missing
-----------------------------------------------------------------------------
(***************************************************************************)
(* The types.                                                              *)
(***************************************************************************)

LEMMA RequestShapes ==
    /\ \A r \in Requests :
          \/ r.op = "upgrade" /\ r.version \in Versions /\ r.nr \in Upgrades
          \/ r.op = "commit" /\ r.from \in Versions
    /\ NoRequest \notin Requests /\ NoRequest.op = "none"
BY DEF Requests, NoRequest

LEMMA InitTyped == Init => Typed
<1> SUFFICES ASSUME Init PROVE Typed
  OBVIOUS
<1>1. 0 \in Versions /\ 0 \in 0..MaxUpgrades /\ 0 \in 0..MaxFaults
  BY UpgradeConstants DEF Versions
<1>2. backlog \in Seq(Requests) /\ Len(backlog) = 0 /\ 0 <= MaxBacklog
  BY UpgradeConstants DEF Init
<1> QED
  BY <1>1, <1>2 DEF Init, Typed, TypeOK, ServingInv, Upgrading, Committing

LEMMA FaultTyped == TypeOK /\ Fault => faults' \in 0..MaxFaults
BY UpgradeConstants DEF TypeOK, Fault

\* A new request is one more at the Helper's socket.
LEMMA CallTyped ==
    ASSUME Typed, NEW op \in {"upgrade", "commit"}, NEW request \in Requests,
           Call(op, request)
    PROVE  /\ calls' \subseteq {"upgrade", "commit"}
           /\ backlog' \in Seq(Requests)
           /\ Len(backlog') <= MaxBacklog
<1>1. /\ calls \subseteq {"upgrade", "commit"} /\ backlog \in Seq(Requests)
      /\ Len(backlog) < MaxBacklog /\ MaxBacklog \in Nat
      /\ calls' = calls \cup {op} /\ backlog' = Append(backlog, request)
  BY UpgradeConstants DEF Typed, TypeOK, Call
<1>2. calls' \subseteq {"upgrade", "commit"}
  BY <1>1
<1>3. backlog' \in Seq(Requests) /\ Len(backlog') = Len(backlog) + 1 /\ Len(backlog) \in Nat
  <2>1. Append(backlog, request) \in Seq(Requests)
        /\ Len(Append(backlog, request)) = Len(backlog) + 1
    BY <1>1, AppendProperties
  <2>2. Len(backlog) \in Nat
    BY <1>1, LenProperties
  <2> QED
    BY <1>1, <2>1, <2>2
<1>4. Len(backlog') <= MaxBacklog
  BY <1>1, <1>3
<1> QED
  BY <1>2, <1>3, <1>4

LEMMA NextTyped == Typed /\ [Next]_vars => Typed'
<1> SUFFICES ASSUME Typed, [Next]_vars PROVE Typed'
  OBVIOUS
<1> USE UpgradeConstants DEF Typed, TypeOK, ServingInv, Upgrading, Committing
<1>1. ASSUME NEW v \in Versions, AskUpgrade(v) PROVE Typed'
  <2>1. asked' \in Upgrades
    BY <1>1 DEF AskUpgrade
  <2>2. [op |-> "upgrade", version |-> v, nr |-> asked'] \in Requests
    BY <2>1 DEF Requests
  <2> QED
    BY <1>1, <2>1, <2>2, CallTyped DEF AskUpgrade
<1>2. CASE AskCommit
  <2>1. [op |-> "commit", from |-> running] \in Requests
    BY DEF Requests
  <2> QED
    BY <1>2, <2>1, CallTyped DEF AskCommit
<1>3. ASSUME NEW op \in {"upgrade", "commit"}, CallTimesOut(op) PROVE Typed'
  BY <1>3 DEF CallTimesOut
<1>4. CASE AgentExit \/ AgentStart \/ AgentCrash
  BY <1>4, FaultTyped DEF AgentExit, AgentStart, AgentCrash, Stop, Started
<1>5. CASE Accept
  <2> DEFINE request == Head(backlog)
  <2>1. request \in Requests /\ Tail(backlog) \in Seq(Requests)
        /\ Len(Tail(backlog)) <= MaxBacklog
    BY <1>5 DEF Accept
  <2>2. request.op \in {"upgrade", "commit"}
    BY <2>1, RequestShapes
  <2>3. Clashes(request) \in BOOLEAN
    BY DEF Clashes, RollingBack
  <2> QED
    BY <1>5, <2>1, <2>2, <2>3 DEF Accept
<1>6. CASE UpgradeStep
  <2>1. CASE UpgradeRefused \/ UpgradeVerified
    BY <2>1, RequestShapes DEF UpgradeRefused, UpgradeVerified, Reply
  <2>2. CASE Backup \/ BackupFails
    BY <2>2, RequestShapes DEF Backup, BackupFails, Reply
  <2>3. CASE Install \/ InstallFails
    BY <2>3, RequestShapes DEF Install, InstallFails, Reply, PutBack
  <2>4. CASE Record
    BY <2>4, RequestShapes DEF Record, Reply
  <2>5. CASE RecordFails
    BY <2>5, RequestShapes DEF RecordFails, Reply, PutBack
  <2> QED
    BY <1>6, <2>1, <2>2, <2>3, <2>4, <2>5 DEF UpgradeStep
<1>7. CASE CommitStep
  BY <1>7, RequestShapes DEF CommitStep, NothingToCommit, DropPrevious, ClearPending, Reply
<1>8. ASSUME NEW i \in Upgrades, WatchdogStep(i) PROVE Typed'
  <2>1. CASE Wake(i)
    BY <2>1 DEF Wake, RollingBack
  <2>2. CASE MoveAside(i)
    BY <2>2 DEF MoveAside
  <2>3. CASE Restore(i)
    BY <2>3 DEF Restore, PutBack
  <2>4. CASE ForgetPending(i)
    BY <2>4 DEF ForgetPending
  <2>5. CASE RestartAgent(i)
    BY <2>5 DEF RestartAgent, Stop, Started
  <2> QED
    BY <1>8, <2>1, <2>2, <2>3, <2>4, <2>5 DEF WatchdogStep
<1>9. CASE HelperCrash
  BY <1>9, FaultTyped DEF HelperCrash
<1>10. CASE HelperIdleExit \/ ServerDown \/ ServerBack \/ UNCHANGED vars
  BY <1>10, FaultTyped DEF HelperIdleExit, ServerDown, ServerBack
<1> QED
  BY <1>1, <1>2, <1>3, <1>4, <1>5, <1>6, <1>7, <1>8, <1>9, <1>10
     DEF Next, HelperStep

\* Every reachable state has the declared types; in particular the Helper never
\* has more waiting than its socket holds.
THEOREM TypeCorrect == Spec => []TypeOK
<1>1. Spec => []Typed
  BY InitTyped, NextTyped, PTL DEF Spec
<1> QED
  BY <1>1, PTL DEF Typed
-----------------------------------------------------------------------------
(***************************************************************************)
(* The last good version.  One lemma per action that touches what InTurn   *)
(* is about; a clash, once there, stays.                                   *)
(***************************************************************************)

LEMMA AcceptInTurn ==
    ASSUME Typed, InTurn, ~clash, Accept, ~clash'
    PROVE  InTurn'
<1> DEFINE request == Head(backlog)
<1>1. request \in Requests /\ ~Clashes(request)
  <2>1. backlog \in Seq(Requests) /\ backlog # <<>>
    BY DEF Accept, Typed, TypeOK
  <2>2. clash' = (clash \/ Clashes(request))
    BY DEF Accept
  <2>3. ~Clashes(request)
    BY <2>2, Zenon
  <2> QED
    BY <2>1, <2>3
<1>2. request.op \in {"upgrade", "commit"}
  BY <1>1, RequestShapes
<1> USE DEF InTurn, LastGoodKept, MainInv, WatchInv, Bootable, Upgrading, Committing,
            RollingBack, Asleep, AtWork, OnTrial
<1>3. /\ hpc \in {"accept", "down"} /\ serving' = request
      /\ UNCHANGED <<current, previous, pending, watchdog, lastGood, crashed>>
  BY DEF Accept
<1>4. CASE request.op = "upgrade"
  <2>1. hpc' = "upgrade"
    BY <1>4 DEF Accept
  <2>2. current = lastGood /\ request.version # current /\ ~RollingBack
    BY <1>1, <1>4 DEF Clashes
  <2>3. pending => ~Asleep
    BY <1>3, <2>2
  <2> QED
    BY <1>3, <2>1, <2>2, <2>3
<1>5. CASE request.op = "commit"
  <2>1. hpc' = "dropPrevious"
    BY <1>5 DEF Accept
  <2>2. pending => request.from = current /\ ~RollingBack
    BY <1>1, <1>5 DEF Clashes
  <2> QED
    BY <1>3, <2>1, <2>2
<1> QED
  BY <1>2, <1>4, <1>5

LEMMA UpgradeInTurn ==
    ASSUME Typed, InTurn, ~clash, UpgradeStep, ~clash'
    PROVE  InTurn'
<1> USE DEF InTurn, LastGoodKept, MainInv, WatchInv, Bootable, Typed, TypeOK,
            Upgrading, Committing, RollingBack, Asleep, AtWork, OnTrial, ServingInv
<1>1. lastGood # Missing
  BY UpgradeConstants DEF Versions
<1>2. CASE UpgradeRefused \/ BackupFails
  <2>1. /\ hpc \in {"upgrade", "backup"} /\ hpc' = "accept"
        /\ UNCHANGED <<current, previous, pending, watchdog, lastGood, crashed>>
    BY <1>2 DEF UpgradeRefused, BackupFails, Reply
  <2> QED
    BY <2>1
<1>3. CASE UpgradeVerified
  BY <1>3 DEF UpgradeVerified
<1>4. CASE Backup
  BY <1>4 DEF Backup
<1>5. CASE Install
  <2>1. serving.version # Missing
    BY <1>5, RequestShapes, UpgradeConstants DEF Install, Versions
  <2> QED
    BY <1>1, <1>5, <2>1 DEF Install
<1>6. CASE InstallFails \/ RecordFails
  <2>1. /\ hpc \in {"install", "record"} /\ hpc' = "accept"
        /\ current' = previous
        /\ UNCHANGED <<pending, watchdog, lastGood, crashed>>
    BY <1>1, <1>6 DEF InstallFails, RecordFails, Reply, PutBack
  <2> QED
    BY <1>1, <2>1
<1>7. CASE Record
  <2>1. /\ hpc = "record" /\ hpc' = "accept" /\ pending'
        /\ UNCHANGED <<current, previous, lastGood, crashed>>
    BY <1>7 DEF Record, Reply
  <2>2. \A j \in Upgrades : watchdog'[j] = "asleep" \/ watchdog'[j] = watchdog[j]
    BY <1>7 DEF Record
  <2>3. serving.nr \in Upgrades /\ watchdog'[serving.nr] = "asleep"
    BY <1>7, RequestShapes DEF Record
  <2>4. LastGoodKept' /\ Bootable'
    BY <2>1, <2>3
  <2>5. MainInv' /\ WatchInv'
    BY <1>1, <2>1, <2>2
  <2> QED
    BY <2>4, <2>5
<1> QED
  BY <1>2, <1>3, <1>4, <1>5, <1>6, <1>7 DEF UpgradeStep

LEMMA CommitInTurn ==
    ASSUME Typed, InTurn, ~clash, CommitStep, ~clash'
    PROVE  InTurn'
<1> USE DEF InTurn, LastGoodKept, MainInv, WatchInv, Bootable, Typed, TypeOK,
            Upgrading, Committing, RollingBack, Asleep, AtWork, OnTrial, ServingInv
<1>1. CASE NothingToCommit
  BY <1>1 DEF NothingToCommit, Reply
<1>2. CASE DropPrevious
  BY <1>2 DEF DropPrevious
<1>3. CASE ClearPending
  BY <1>3 DEF ClearPending, Reply
<1> QED
  BY <1>1, <1>2, <1>3 DEF CommitStep

LEMMA WatchdogInTurn ==
    ASSUME Typed, InTurn, ~clash, NEW i \in Upgrades, WatchdogStep(i), ~clash'
    PROVE  InTurn'
<1> USE DEF InTurn, LastGoodKept, MainInv, WatchInv, Bootable, Typed, TypeOK,
            Upgrading, Committing, RollingBack, Asleep, AtWork, OnTrial, ServingInv
<1>1. lastGood # Missing
  BY UpgradeConstants DEF Versions
<1>2. CASE Wake(i)
  <2>1. /\ UNCHANGED <<current, previous, pending, hpc, serving, lastGood, crashed>>
        /\ pending => ~Committing /\ ~RollingBack
        /\ watchdog[i] = "asleep"
        /\ watchdog'[i] = IF pending THEN "awake" ELSE "done"
        /\ \A j \in Upgrades : j # i => watchdog'[j] = watchdog[j]
    BY <1>2 DEF Wake
  <2>2. CASE pending
    BY <2>1, <2>2
  <2>3. CASE ~pending
    BY <2>1, <2>3
  <2> QED
    BY <2>2, <2>3
<1>3. CASE MoveAside(i)
  <2>1. /\ UNCHANGED <<previous, pending, hpc, serving, lastGood, crashed>>
        /\ watchdog[i] = "awake"
        /\ watchdog'[i] = "moved" /\ current' = Missing
        /\ \A j \in Upgrades : j # i => watchdog'[j] = watchdog[j]
    BY <1>3 DEF MoveAside
  <2> QED
    BY <1>1, <2>1
<1>4. CASE Restore(i)
  <2>1. /\ UNCHANGED <<pending, hpc, serving, lastGood, crashed>>
        /\ watchdog[i] = "moved" /\ watchdog'[i] = "restored"
        /\ current' = lastGood
        /\ \A j \in Upgrades : j # i => watchdog'[j] = watchdog[j]
    BY <1>1, <1>4 DEF Restore, PutBack
  <2> QED
    BY <1>1, <2>1
<1>5. CASE ForgetPending(i)
  <2>1. /\ UNCHANGED <<current, previous, hpc, serving, lastGood, crashed>>
        /\ watchdog[i] = "restored" /\ watchdog'[i] = "restart" /\ ~pending'
        /\ \A j \in Upgrades : j # i => watchdog'[j] = watchdog[j]
    BY <1>5 DEF ForgetPending
  <2>2. hpc # "clearPending"
    BY <2>1
  <2> QED
    BY <1>1, <2>1, <2>2
<1>6. CASE RestartAgent(i)
  BY <1>6 DEF RestartAgent
<1> QED
  BY <1>2, <1>3, <1>4, <1>5, <1>6 DEF WatchdogStep

LEMMA CrashInTurn ==
    ASSUME Typed, InTurn, ~clash, HelperCrash
    PROVE  InTurn'
BY DEF HelperCrash, InTurn, LastGoodKept, MainInv, WatchInv, Bootable, Typed, TypeOK,
   Upgrading, Committing, RollingBack, Asleep, AtWork, OnTrial

LEMMA InitInv == Init => IInv
BY InitTyped, UpgradeConstants
   DEF Init, IInv, InTurn, LastGoodKept, MainInv, WatchInv, Bootable, Upgrading,
       Committing, RollingBack, Asleep, AtWork, OnTrial

LEMMA NextInv == IInv /\ [Next]_vars => IInv'
<1> SUFFICES ASSUME IInv, [Next]_vars, ~clash' PROVE InTurn'
  BY NextTyped DEF IInv
<1>1. ~clash
  BY DEF Next, HelperStep, UpgradeStep, CommitStep, WatchdogStep, AskUpgrade, AskCommit,
     CallTimesOut, AgentExit, AgentStart, AgentCrash, Accept, UpgradeRefused,
     UpgradeVerified, Backup, BackupFails, Install, InstallFails, Record, RecordFails,
     NothingToCommit, DropPrevious, ClearPending, Wake, MoveAside, Restore,
     ForgetPending, RestartAgent, HelperCrash, HelperIdleExit, ServerDown, ServerBack
<1>2. Typed /\ InTurn
  BY <1>1 DEF IInv
<1>3. CASE UNCHANGED <<files, hpc, serving, watchdog, history>>
  BY <1>1, <1>2, <1>3 DEF InTurn, LastGoodKept, MainInv, WatchInv, Bootable, Upgrading,
     Committing, RollingBack, Asleep, AtWork, OnTrial
<1>4. CASE HelperIdleExit
  BY <1>1, <1>2, <1>4 DEF HelperIdleExit, InTurn, LastGoodKept, MainInv, WatchInv,
     Bootable, Upgrading, Committing, RollingBack, Asleep, AtWork, OnTrial
<1> QED
  BY <1>1, <1>2, <1>3, <1>4, AcceptInTurn, UpgradeInTurn, CommitInTurn, WatchdogInTurn,
     CrashInTurn
     DEF Next, HelperStep, AskUpgrade, AskCommit, CallTimesOut, AgentExit, AgentStart,
         AgentCrash, ServerDown, ServerBack

\* The inductive invariant holds in every reachable state.
THEOREM UpgradeInvariant == Spec => []IInv
BY InitInv, NextInv, PTL DEF Spec

\* agentRollbackWatchdog and commitAgentUpdate: the last version that proved
\* itself is installed, or kept aside for one that is on trial, whatever fails or
\* crashes, unless requests clash.
THEOREM LastGoodIsKept == Spec => []LastGoodKept
<1>1. IInv => LastGoodKept
  BY DEF IInv, InTurn, LastGoodKept
<1> QED
  BY <1>1, UpgradeInvariant, PTL

\* Between two steps of the Helper on the files there is a binary to start the
\* Agent from, unless requests clash or the Helper was killed half-way.
THEOREM AlwaysBootable == Spec => []Bootable
<1>1. IInv => Bootable
  BY DEF IInv, InTurn, Bootable
<1> QED
  BY <1>1, UpgradeInvariant, PTL
=============================================================================
