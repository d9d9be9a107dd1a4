------------------------ MODULE CommandChannelProofs ------------------------
(***************************************************************************)
(* Theorems about CommandChannel, for every number of calls and handlers,  *)
(* every queue capacity and all bounds.                                    *)
(*                                                                         *)
(* The argument: a queued command gets a number, and numbers only grow     *)
(* along the way queue -> Agent -> Helper -> dealt with.  The queue is     *)
(* sorted, and so are the requests at the Helper; what the Agent holds is  *)
(* smaller than all of the queue, and what has been handled is smaller     *)
(* than both (OrderInv).  A result that is not a failure tells what was    *)
(* done (ResultInv).                                                       *)
(***************************************************************************)
EXTENDS CommandChannel, TLAPS

CarriesCommand == Holding \cup {"asking", "posting", "posted"}

\* The Agent has begun to deal with the command of c.
Handled(c) == effect[c] # "none" \/ told[c] # "none" \/ AtHelper(c)

\* At most one handler serves the Agent, and only while the Agent waits.
PollInv ==
    /\ \A p \in Polls : poll[p] = "agent" => apc = "polling"
    /\ \A p, q \in Polls : poll[p] = "agent" /\ poll[q] = "agent" => p = q
    /\ apc \in CarriesCommand <=> acmd \in Calls

OrderInv ==
    /\ \A c \in Calls : enq[c] <= sent
    /\ \A c \in Calls : pc[c] \in {"idle", "registered"} \cup Declined => enq[c] = 0
    /\ \A i \in 1..Len(queue) : enq[queue[i]] > 0
    /\ \A i, j \in 1..Len(queue) : i < j => enq[queue[i]] < enq[queue[j]]
    /\ apc \in CarriesCommand => /\ enq[acmd] > 0
                                 /\ \A i \in 1..Len(queue) : enq[acmd] < enq[queue[i]]
    /\ \A c \in Calls : Handled(c) =>
         /\ enq[c] > 0
         /\ \A i \in 1..Len(queue) : enq[c] < enq[queue[i]]
         /\ apc \in Holding => enq[c] < enq[acmd]
         /\ apc \in CarriesCommand /\ c # acmd => enq[c] < enq[acmd]

\* Requests at the Helper are sorted, and come after all that it has served.
HelperInv ==
    /\ \A i, j \in 1..Len(asked) : i < j => enq[asked[i]] < enq[asked[j]]
    /\ \A i \in 1..Len(asked) : effect[asked[i]] = "none"
    /\ \A i \in 1..Len(asked), c \in ViaHelper :
          effect[c] = "done" => enq[c] < enq[asked[i]]

\* Without a fault, and but for the polls that test the Server, nobody but the
\* Agent polls, and no command is lost.
LossInv ==
    faults = 0 =>
        /\ tests = 0 => strays = {} /\ \A p \in Polls : poll[p] \in {"idle", "agent"}
        /\ \A c \in Calls : enq[c] > 0 => OnTheWay(c) \/ effect[c] # "none" \/ c \in strays

ResultInv ==
    /\ \A c \in Calls : told[c] \in {"done", "refused"} => effect[c] = told[c]
    /\ apc = "asking" => told[acmd] = "none"
    /\ apc \in {"posting", "posted"} => told[acmd] # "none"
    /\ \A c \in Calls : result[c] # "none" => told[c] # "none"
    /\ \A c \in box : told[c] # "none"
    /\ \A c \in Calls : pc[c] = "answered" => told[c] # "none"

IInv == TypeOK /\ PollInv /\ OrderInv /\ HelperInv /\ LossInv /\ ResultInv

\* The groups of variables, and of program locations.
USE DEF vars, serverVars, callVars, nodeVars, bounds, history
USE DEF Open, Declined, Undecided, Holding, CarriesCommand

\* The backlog numbers its commands from 1.
LEMMA Places ==
    /\ \A c \in Calls : /\ Place(c) \in 0..Len(Backlog)
                        /\ Place(c) # 0 => Backlog[Place(c)] = c
    /\ \A i \in 1..Len(Backlog) : Place(Backlog[i]) = i
<1>1. Len(Backlog) \in Nat
  BY ChannelConstants
<1>2. ASSUME NEW c \in Calls, \E i \in 1..Len(Backlog) : Backlog[i] = c
      PROVE  Place(c) \in 1..Len(Backlog) /\ Backlog[Place(c)] = c
  BY <1>2 DEF Place
<1>3. ASSUME NEW i \in 1..Len(Backlog)
      PROVE  Place(Backlog[i]) = i
  <2>1. Backlog[i] \in Calls
    BY ChannelConstants
  <2>2. Place(Backlog[i]) \in 1..Len(Backlog) /\ Backlog[Place(Backlog[i])] = Backlog[i]
    BY <1>2, <2>1
  <2> QED
    BY <2>2, ChannelConstants
<1>4. ASSUME NEW c \in Calls, ~\E i \in 1..Len(Backlog) : Backlog[i] = c
      PROVE  Place(c) = 0
  BY <1>4 DEF Place
<1>5. ASSUME NEW c \in Calls
      PROVE  Place(c) \in 0..Len(Backlog) /\ (Place(c) # 0 => Backlog[Place(c)] = c)
  BY <1>1, <1>2, <1>4
<1> QED
  BY <1>3, <1>5

\* Types: every variable keeps its type.
LEMMA TypeInit == Init => TypeOK
<1> SUFFICES ASSUME Init PROVE TypeOK
  OBVIOUS
<1>1. /\ pc \in [Calls -> {"idle", "timedOut"}]
      /\ enq \in [Calls -> Nat] /\ sent \in Nat
      /\ queue \in Seq(Calls) /\ Len(queue) <= QueueCap
  BY ChannelConstants, Places DEF Init
<1>2. issued \in [Calls -> -CallTimeout..now]
  BY ChannelConstants DEF Init
<1>3. asked \in Seq(ViaHelper)
  BY DEF Init
<1> QED
  BY <1>1, <1>2, <1>3 DEF Init, TypeOK

LEMMA TypeStep == TypeOK /\ PollInv /\ [Next]_vars => TypeOK'
<1> SUFFICES ASSUME TypeOK, PollInv, [Next]_vars
             PROVE  TypeOK'
  OBVIOUS
<1>1. ASSUME NEW c \in Calls, SendRefused(c) PROVE TypeOK'
  BY <1>1 DEF SendRefused, TypeOK, PollInv
<1>2. ASSUME NEW c \in Calls, SendRegister(c) PROVE TypeOK'
  BY <1>2, ChannelConstants DEF SendRegister, Stamp, TypeOK, PollInv
<1>3. ASSUME NEW c \in Calls, SendEnqueue(c) PROVE TypeOK'
  <2>1. queue \in Seq(Calls) /\ Len(queue) \in Nat /\ Len(queue) < QueueCap /\ QueueCap \in Nat
    BY <1>3, ChannelConstants DEF SendEnqueue, HasRoom, TypeOK
  <2>2. queue' \in Seq(Calls) /\ Len(queue') = Len(queue) + 1
    BY <1>3, <2>1 DEF SendEnqueue
  <2>3. Len(queue') <= QueueCap
    BY <2>1, <2>2
  <2> QED
    BY <1>3, <2>2, <2>3 DEF SendEnqueue, TypeOK
<1>4. ASSUME NEW c \in Calls, SendBusy(c) PROVE TypeOK'
  BY <1>4 DEF SendBusy, HasRoom, Unregister, TypeOK, PollInv
<1>5. ASSUME NEW c \in Calls, SendReceive(c) PROVE TypeOK'
  BY <1>5 DEF SendReceive, Unregister, TypeOK, PollInv
<1>6. ASSUME NEW c \in Calls, SendTimeout(c) PROVE TypeOK'
  BY <1>6 DEF SendTimeout, Unregister, TypeOK, PollInv
<1>7. ASSUME NEW c \in Calls, ResultLookup(c) PROVE TypeOK'
  BY <1>7 DEF ResultLookup, TypeOK, PollInv
<1>8. ASSUME NEW c \in Calls, ResultSend(c) PROVE TypeOK'
  BY <1>8 DEF ResultSend, ToCaller, TypeOK, PollInv
<1>9. ASSUME NEW p \in Polls, PollStart(p) PROVE TypeOK'
  BY <1>9 DEF PollStart, TypeOK, PollInv
<1>10. ASSUME NEW p \in Polls, TestPoll(p) PROVE TypeOK'
  BY <1>10 DEF TestPoll, TypeOK, PollInv
<1>11. ASSUME NEW p \in Polls, Dequeue(p) PROVE TypeOK'
  <2>1. queue \in Seq(Calls) /\ queue # <<>> /\ Len(queue) <= QueueCap /\ QueueCap \in Nat
    BY <1>11, ChannelConstants DEF Dequeue, TypeOK
  <2>2. /\ queue' \in Seq(Calls) /\ Len(queue') = Len(queue) - 1
        /\ Head(queue) \in Calls /\ Len(queue) \in Nat
    BY <1>11, <2>1 DEF Dequeue
  <2>3. Len(queue') <= QueueCap
    BY <2>1, <2>2
  <2> QED
    BY <1>11, <2>2, <2>3 DEF Dequeue, Take, TypeOK
<1>12. ASSUME NEW p \in Polls, PollEnd(p) PROVE TypeOK'
  BY <1>12 DEF PollEnd, TypeOK, PollInv
<1>13. CASE RefuseStale
  BY <1>13 DEF RefuseStale, Concluded, TypeOK, PollInv
<1>14. CASE Accept
  BY <1>14 DEF Accept, TypeOK, PollInv
<1>15. CASE RunHere
  BY <1>15 DEF RunHere, Concluded, TypeOK, PollInv
<1>16. CASE AskHelper
  BY <1>16 DEF AskHelper, TypeOK, PollInv
<1>17. CASE HelperAnswers
  BY <1>17 DEF HelperAnswers, Concluded, TypeOK, PollInv
<1>18. CASE StopAsking
  BY <1>18 DEF StopAsking, Concluded, TypeOK, PollInv
<1>19. CASE PostResult
  BY <1>19 DEF PostResult, TypeOK, PollInv
<1>20. CASE PostReturns
  BY <1>20 DEF PostReturns, TypeOK, PollInv
<1>21. CASE HelperServes
  <2>1. Head(asked) \in Calls /\ asked' \in Seq(ViaHelper)
    BY <1>21, ChannelConstants DEF HelperServes, TypeOK
  <2> QED
    BY <1>21, <2>1 DEF HelperServes, TypeOK
<1>22. CASE LoseConnection
  BY <1>22 DEF LoseConnection, CutPolls, Fault, TypeOK, PollInv
<1>23. CASE AgentCrash
  BY <1>23 DEF AgentCrash, CutPolls, Fault, TypeOK, PollInv
<1>24. CASE ServerRestart
  BY <1>24, ChannelConstants DEF ServerRestart, Fault, TypeOK, PollInv
<1>25. CASE DeleteNode
  <2>1. alive' \in BOOLEAN
    BY <1>25 DEF DeleteNode
  <2> QED
    BY <1>25, <2>1 DEF DeleteNode, TypeOK, Fault
<1>26. CASE HelperCrash
  <2>1. asked' \in Seq(ViaHelper)
    BY <1>26 DEF HelperCrash, TypeOK
  <2> QED
    BY <1>26, <2>1 DEF HelperCrash, TypeOK, Fault
<1>27. CASE Tick
  BY <1>27, ChannelConstants DEF Tick, TypeOK, PollInv
<1>28. CASE UNCHANGED vars
  BY <1>28 DEF TypeOK
<1> QED
  BY <1>1, <1>2, <1>3, <1>4, <1>5, <1>6, <1>7, <1>8, <1>9, <1>10, <1>11,
     <1>12, <1>13, <1>14, <1>15, <1>16, <1>17, <1>18, <1>19, <1>20, <1>21,
     <1>22, <1>23, <1>24, <1>25, <1>26, <1>27, <1>28
  DEF Next, CallStep, PollStep, AgentStep, FaultStep

\* Who holds a command, and who is behind a handler.
LEMMA PollStepInv == TypeOK /\ PollInv /\ [Next]_vars => PollInv'
<1> SUFFICES ASSUME TypeOK, PollInv, [Next]_vars
             PROVE  PollInv'
  OBVIOUS
<1>1. ASSUME NEW c \in Calls, SendRefused(c) PROVE PollInv'
  BY <1>1 DEF SendRefused, TypeOK, PollInv
<1>2. ASSUME NEW c \in Calls, SendRegister(c) PROVE PollInv'
  BY <1>2 DEF SendRegister, Stamp, TypeOK, PollInv
<1>3. ASSUME NEW c \in Calls, SendEnqueue(c) PROVE PollInv'
  BY <1>3 DEF SendEnqueue, HasRoom, TypeOK, PollInv
<1>4. ASSUME NEW c \in Calls, SendBusy(c) PROVE PollInv'
  BY <1>4 DEF SendBusy, HasRoom, Unregister, TypeOK, PollInv
<1>5. ASSUME NEW c \in Calls, SendReceive(c) PROVE PollInv'
  BY <1>5 DEF SendReceive, Unregister, TypeOK, PollInv
<1>6. ASSUME NEW c \in Calls, SendTimeout(c) PROVE PollInv'
  BY <1>6 DEF SendTimeout, Unregister, TypeOK, PollInv
<1>7. ASSUME NEW c \in Calls, ResultLookup(c) PROVE PollInv'
  BY <1>7 DEF ResultLookup, TypeOK, PollInv
<1>8. ASSUME NEW c \in Calls, ResultSend(c) PROVE PollInv'
  BY <1>8 DEF ResultSend, ToCaller, TypeOK, PollInv
<1>9. ASSUME NEW p \in Polls, PollStart(p) PROVE PollInv'
  BY <1>9 DEF PollStart, TypeOK, PollInv
<1>10. ASSUME NEW p \in Polls, TestPoll(p) PROVE PollInv'
  BY <1>10 DEF TestPoll, TypeOK, PollInv
<1>11. ASSUME NEW p \in Polls, Dequeue(p) PROVE PollInv'
  BY <1>11 DEF Dequeue, Take, TypeOK, PollInv
<1>12. ASSUME NEW p \in Polls, PollEnd(p) PROVE PollInv'
  BY <1>12 DEF PollEnd, TypeOK, PollInv
<1>13. CASE RefuseStale
  BY <1>13 DEF RefuseStale, Concluded, TypeOK, PollInv
<1>14. CASE Accept
  BY <1>14 DEF Accept, TypeOK, PollInv
<1>15. CASE RunHere
  BY <1>15 DEF RunHere, Concluded, TypeOK, PollInv
<1>16. CASE AskHelper
  BY <1>16 DEF AskHelper, TypeOK, PollInv
<1>17. CASE HelperAnswers
  BY <1>17 DEF HelperAnswers, Concluded, TypeOK, PollInv
<1>18. CASE StopAsking
  BY <1>18 DEF StopAsking, Concluded, TypeOK, PollInv
<1>19. CASE PostResult
  BY <1>19 DEF PostResult, TypeOK, PollInv
<1>20. CASE PostReturns
  BY <1>20, ChannelConstants DEF PostReturns, TypeOK, PollInv
<1>21. CASE HelperServes
  BY <1>21 DEF HelperServes, TypeOK, PollInv
<1>22. CASE LoseConnection
  BY <1>22, ChannelConstants DEF LoseConnection, CutPolls, Fault, TypeOK, PollInv
<1>23. CASE AgentCrash
  BY <1>23, ChannelConstants DEF AgentCrash, CutPolls, Fault, TypeOK, PollInv
<1>24. CASE ServerRestart
  BY <1>24, ChannelConstants DEF ServerRestart, Fault, TypeOK, PollInv
<1>25. CASE DeleteNode
  BY <1>25 DEF DeleteNode, Fault, TypeOK, PollInv
<1>26. CASE HelperCrash
  BY <1>26 DEF HelperCrash, Fault, TypeOK, PollInv
<1>27. CASE Tick
  BY <1>27 DEF Tick, TypeOK, PollInv
<1>28. CASE UNCHANGED vars
  BY <1>28 DEF TypeOK, PollInv
<1> QED
  BY <1>1, <1>2, <1>3, <1>4, <1>5, <1>6, <1>7, <1>8, <1>9, <1>10, <1>11,
     <1>12, <1>13, <1>14, <1>15, <1>16, <1>17, <1>18, <1>19, <1>20, <1>21,
     <1>22, <1>23, <1>24, <1>25, <1>26, <1>27, <1>28
  DEF Next, CallStep, PollStep, AgentStep, FaultStep

LEMMA SameHandled ==
    ASSUME UNCHANGED <<effect, told, asked>>
    PROVE  \A c \in Calls : Handled(c)' = Handled(c)
BY DEF Handled, AtHelper

\* A step that moves no command.
LEMMA OrderQuiet ==
    ASSUME OrderInv, UNCHANGED <<sent, enq, queue, asked, apc, acmd, told, effect>>,
           \A c \in Calls : pc'[c] \in {"idle", "registered"} \cup Declined
                            => pc[c] \in {"idle", "registered"} \cup Declined
    PROVE  OrderInv'
BY SameHandled DEF OrderInv

\* Numbers grow from what was handled, over what the Agent holds, to what is
\* queued.
LEMMA OrderStep == TypeOK /\ PollInv /\ OrderInv /\ [Next]_vars => OrderInv'
<1> SUFFICES ASSUME TypeOK, PollInv, OrderInv, [Next]_vars
             PROVE  OrderInv'
  OBVIOUS
<1>1. ASSUME NEW c \in Calls, SendRefused(c) PROVE OrderInv'
  <2>1. UNCHANGED <<sent, enq, queue, asked, apc, acmd, told, effect>>
    BY <1>1 DEF SendRefused
  <2>2. \A d \in Calls : pc'[d] \in {"idle", "registered"} \cup Declined
                         => pc[d] \in {"idle", "registered"} \cup Declined
    BY <1>1 DEF SendRefused, TypeOK
  <2> QED
    BY <2>1, <2>2, OrderQuiet
<1>2. ASSUME NEW c \in Calls, SendRegister(c) PROVE OrderInv'
  <2>1. UNCHANGED <<sent, enq, queue, asked, apc, acmd, told, effect>>
    BY <1>2 DEF SendRegister
  <2>2. \A d \in Calls : pc'[d] \in {"idle", "registered"} \cup Declined
                         => pc[d] \in {"idle", "registered"} \cup Declined
    BY <1>2 DEF SendRegister, TypeOK
  <2> QED
    BY <2>1, <2>2, OrderQuiet
<1>3. ASSUME NEW c \in Calls, SendEnqueue(c) PROVE OrderInv'
  <2>1. /\ pc[c] = "registered" /\ enq[c] = 0 /\ ~Handled(c)
        /\ queue' = Append(queue, c) /\ queue \in Seq(Calls)
        /\ sent' = sent + 1 /\ enq' = [enq EXCEPT ![c] = sent + 1]
        /\ UNCHANGED <<apc, acmd, told, asked, effect>>
        /\ pc' = [pc EXCEPT ![c] = "waiting"]
    BY <1>3 DEF SendEnqueue, TypeOK, OrderInv
  <2>2. /\ Len(queue') = Len(queue) + 1 /\ Len(queue) \in Nat
        /\ \A i \in 1..Len(queue) : queue'[i] = queue[i] /\ queue[i] \in Calls
        /\ queue'[Len(queue) + 1] = c
    BY <2>1
  <2>3. /\ enq'[c] = sent + 1
        /\ \A d \in Calls : d # c => enq'[d] = enq[d] /\ enq[d] <= sent
        /\ sent \in Nat /\ enq \in [Calls -> Nat]
    BY <2>1 DEF TypeOK, OrderInv
  <2>4. \A i \in 1..Len(queue) : queue[i] # c /\ enq'[queue[i]] = enq[queue[i]]
    BY <2>1, <2>2, <2>3 DEF OrderInv
  <2>5. \A i \in 1..Len(queue') : enq'[queue'[i]] > 0
    BY <2>2, <2>3, <2>4 DEF OrderInv
  <2>6. \A i, j \in 1..Len(queue') : i < j => enq'[queue'[i]] < enq'[queue'[j]]
    <3> SUFFICES ASSUME NEW i \in 1..Len(queue'), NEW j \in 1..Len(queue'), i < j
                 PROVE  enq'[queue'[i]] < enq'[queue'[j]]
      OBVIOUS
    <3>1. CASE j \in 1..Len(queue)
      BY <2>2, <2>4, <3>1 DEF OrderInv
    <3>2. CASE j = Len(queue) + 1
      BY <2>2, <2>3, <2>4, <3>2
    <3> QED
      BY <2>2, <3>1, <3>2
  <2>7. \A d \in Calls : enq[d] > 0 /\ (\A i \in 1..Len(queue) : enq[d] < enq[queue[i]])
          => enq'[d] > 0 /\ \A i \in 1..Len(queue') : enq'[d] < enq'[queue'[i]]
    <3> SUFFICES ASSUME NEW d \in Calls, enq[d] > 0, NEW i \in 1..Len(queue'),
                        \A k \in 1..Len(queue) : enq[d] < enq[queue[k]]
                 PROVE  enq'[d] > 0 /\ enq'[d] < enq'[queue'[i]]
      BY <2>1, <2>3
    <3>1. d # c /\ enq'[d] = enq[d] /\ enq[d] <= sent /\ enq[d] \in Nat
      BY <2>1, <2>3
    <3>2. CASE i \in 1..Len(queue)
      BY <2>2, <2>4, <3>1, <3>2
    <3>3. CASE i = Len(queue) + 1
      BY <2>2, <2>3, <3>1, <3>3
    <3> QED
      BY <2>2, <3>2, <3>3
  <2>8. apc \in CarriesCommand => /\ acmd \in Calls /\ acmd # c /\ enq'[acmd] = enq[acmd]
                                 /\ enq'[acmd] > 0
                                 /\ \A i \in 1..Len(queue') : enq'[acmd] < enq'[queue'[i]]
    BY <2>1, <2>3, <2>7 DEF PollInv, OrderInv
  <2>9. \A d \in Calls : Handled(d)' => /\ Handled(d) /\ d # c /\ enq'[d] = enq[d]
                                         /\ enq'[d] > 0
                                         /\ \A i \in 1..Len(queue') : enq'[d] < enq'[queue'[i]]
    <3>1. \A d \in Calls : Handled(d)' => Handled(d)
      BY <2>1, SameHandled
    <3> QED
      BY <2>1, <2>3, <2>7, <3>1 DEF OrderInv
  <2>10. /\ \A d \in Calls : enq'[d] <= sent'
         /\ \A d \in Calls : pc'[d] \in {"idle", "registered"} \cup Declined
                              => enq'[d] = 0
    BY <2>1, <2>3 DEF OrderInv, TypeOK
  <2>11. \A d \in Calls : Handled(d)' =>
            /\ apc' \in Holding => enq'[d] < enq'[acmd']
            /\ apc' \in CarriesCommand /\ d # acmd' => enq'[d] < enq'[acmd']
    BY <2>1, <2>8, <2>9 DEF OrderInv
  <2> QED
    BY <2>1, <2>5, <2>6, <2>8, <2>9, <2>10, <2>11 DEF OrderInv
<1>4. ASSUME NEW c \in Calls, SendBusy(c) PROVE OrderInv'
  <2>1. UNCHANGED <<sent, enq, queue, asked, apc, acmd, told, effect>>
    BY <1>4 DEF SendBusy
  <2>2. \A d \in Calls : pc'[d] \in {"idle", "registered"} \cup Declined
                         => pc[d] \in {"idle", "registered"} \cup Declined
    BY <1>4 DEF SendBusy, TypeOK
  <2> QED
    BY <2>1, <2>2, OrderQuiet
<1>5. ASSUME NEW c \in Calls, SendReceive(c) PROVE OrderInv'
  <2>1. UNCHANGED <<sent, enq, queue, asked, apc, acmd, told, effect>>
    BY <1>5 DEF SendReceive
  <2>2. \A d \in Calls : pc'[d] \in {"idle", "registered"} \cup Declined
                         => pc[d] \in {"idle", "registered"} \cup Declined
    BY <1>5 DEF SendReceive, TypeOK
  <2> QED
    BY <2>1, <2>2, OrderQuiet
<1>6. ASSUME NEW c \in Calls, SendTimeout(c) PROVE OrderInv'
  <2>1. UNCHANGED <<sent, enq, queue, asked, apc, acmd, told, effect>>
    BY <1>6 DEF SendTimeout
  <2>2. \A d \in Calls : pc'[d] \in {"idle", "registered"} \cup Declined
                         => pc[d] \in {"idle", "registered"} \cup Declined
    BY <1>6 DEF SendTimeout, TypeOK
  <2> QED
    BY <2>1, <2>2, OrderQuiet
<1>7. ASSUME NEW c \in Calls, ResultLookup(c) PROVE OrderInv'
  <2>1. UNCHANGED <<sent, enq, queue, asked, apc, acmd, told, effect>>
    BY <1>7 DEF ResultLookup
  <2>2. \A d \in Calls : pc'[d] \in {"idle", "registered"} \cup Declined
                         => pc[d] \in {"idle", "registered"} \cup Declined
    BY <1>7 DEF ResultLookup, TypeOK
  <2> QED
    BY <2>1, <2>2, OrderQuiet
<1>8. ASSUME NEW c \in Calls, ResultSend(c) PROVE OrderInv'
  <2>1. UNCHANGED <<sent, enq, queue, asked, apc, acmd, told, effect>>
    BY <1>8 DEF ResultSend
  <2>2. \A d \in Calls : pc'[d] \in {"idle", "registered"} \cup Declined
                         => pc[d] \in {"idle", "registered"} \cup Declined
    BY <1>8 DEF ResultSend, TypeOK
  <2> QED
    BY <2>1, <2>2, OrderQuiet
<1>9. ASSUME NEW p \in Polls, PollStart(p) PROVE OrderInv'
  <2>1. UNCHANGED <<pc, sent, enq, queue, asked, told, effect>>
    BY <1>9 DEF PollStart
  <2>2. apc' \in CarriesCommand => apc \in CarriesCommand /\ acmd' = acmd
    BY <1>9 DEF PollStart
  <2>3. apc' \in Holding => apc \in Holding
    BY <1>9 DEF PollStart
  <2> QED
    BY <2>1, <2>2, <2>3, SameHandled DEF OrderInv
<1>10. ASSUME NEW p \in Polls, TestPoll(p) PROVE OrderInv'
  <2>1. UNCHANGED <<sent, enq, queue, asked, apc, acmd, told, effect>>
    BY <1>10 DEF TestPoll
  <2>2. \A d \in Calls : pc'[d] \in {"idle", "registered"} \cup Declined
                         => pc[d] \in {"idle", "registered"} \cup Declined
    BY <1>10 DEF TestPoll, TypeOK
  <2> QED
    BY <2>1, <2>2, OrderQuiet
<1>11. ASSUME NEW p \in Polls, Dequeue(p) PROVE OrderInv'
  <2>1. /\ queue # <<>> /\ queue \in Seq(Calls)
        /\ Len(queue) \in Nat \ {0}
        /\ queue' = Tail(queue)
        /\ UNCHANGED <<pc, sent, enq, asked, told, effect>>
    BY <1>11 DEF Dequeue, TypeOK
  <2>2. /\ Len(queue') = Len(queue) - 1
        /\ \A i \in 1..Len(queue') : queue'[i] = queue[i + 1] /\ i + 1 \in 1..Len(queue)
        /\ Head(queue) = queue[1] /\ 1 \in 1..Len(queue)
        /\ Head(queue) \in Calls
    BY <2>1
  <2>3. \A i, j \in 1..Len(queue') : i < j => enq[queue'[i]] < enq[queue'[j]]
    <3> SUFFICES ASSUME NEW i \in 1..Len(queue'), NEW j \in 1..Len(queue'), i < j
                 PROVE  enq[queue'[i]] < enq[queue'[j]]
      OBVIOUS
    <3>1. /\ queue'[i] = queue[i + 1] /\ queue'[j] = queue[j + 1]
          /\ i + 1 \in 1..Len(queue) /\ j + 1 \in 1..Len(queue)
      BY <2>2
    <3>2. i + 1 < j + 1
      OBVIOUS
    <3> QED
      BY <3>1, <3>2 DEF OrderInv
  <2>4. \A i \in 1..Len(queue') : enq[Head(queue)] < enq[queue'[i]]
    <3>1. \A i \in 1..Len(queue') : 1 < i + 1
      OBVIOUS
    <3>2. \A i \in 1..Len(queue') : enq[queue[1]] < enq[queue[i + 1]]
      BY <2>2, <3>1 DEF OrderInv
    <3> QED
      BY <2>2, <3>2
  <2>5. /\ \A i \in 1..Len(queue') : enq[queue'[i]] > 0
        /\ \A d \in Calls : Handled(d)' =>
             /\ Handled(d) /\ enq[d] > 0 /\ enq[d] < enq[Head(queue)]
             /\ \A i \in 1..Len(queue') : enq[d] < enq[queue'[i]]
        /\ enq[Head(queue)] > 0
    <3>1. \A d \in Calls : Handled(d)' => Handled(d)
      BY <2>1, SameHandled
    <3> QED
      BY <2>2, <3>1 DEF OrderInv
  <2>6. CASE poll[p] = "agent"
    <3>1. apc' = "reply" /\ acmd' = Head(queue)
      BY <1>11, <2>6 DEF Dequeue, Take
    <3> QED
      BY <2>1, <2>3, <2>4, <2>5, <3>1 DEF OrderInv
  <2>7. CASE poll[p] # "agent"
    <3>1. apc' = apc /\ acmd' = acmd
      BY <1>11, <2>7 DEF Dequeue, Take
    <3>2. apc \in CarriesCommand => \A i \in 1..Len(queue') : enq[acmd] < enq[queue'[i]]
      BY <2>2 DEF OrderInv
    <3> QED
      BY <2>1, <2>3, <2>5, <3>1, <3>2 DEF OrderInv
  <2> QED
    BY <2>6, <2>7
<1>12. ASSUME NEW p \in Polls, PollEnd(p) PROVE OrderInv'
  <2>1. UNCHANGED <<pc, sent, enq, queue, asked, told, effect>>
    BY <1>12 DEF PollEnd
  <2>2. apc' \in CarriesCommand => apc \in CarriesCommand /\ acmd' = acmd
    BY <1>12 DEF PollEnd
  <2>3. apc' \in Holding => apc \in Holding
    BY <1>12 DEF PollEnd
  <2> QED
    BY <2>1, <2>2, <2>3, SameHandled DEF OrderInv
<1>13. CASE RefuseStale
  <2>1. /\ UNCHANGED <<pc, sent, enq, queue, asked, acmd>> /\ apc' \notin Holding
        /\ apc \in CarriesCommand /\ apc' \in CarriesCommand
    BY <1>13 DEF RefuseStale, Concluded
  <2>2. \A d \in Calls : Handled(d)' => Handled(d) \/ d = acmd
    BY <1>13 DEF RefuseStale, Concluded, Handled, AtHelper, TypeOK
  <2>3. /\ enq[acmd] > 0
        /\ \A i \in 1..Len(queue) : enq[acmd] < enq[queue[i]]
        /\ \A d \in Calls : Handled(d) /\ d # acmd => enq[d] < enq[acmd]
    BY <2>1 DEF OrderInv
  <2> QED
    BY <2>1, <2>2, <2>3 DEF OrderInv
<1>14. CASE Accept
  <2>1. UNCHANGED <<pc, sent, enq, queue, asked, told, effect>>
    BY <1>14 DEF Accept
  <2>2. apc' \in CarriesCommand => apc \in CarriesCommand /\ acmd' = acmd
    BY <1>14 DEF Accept
  <2>3. apc' \in Holding => apc \in Holding
    BY <1>14 DEF Accept
  <2> QED
    BY <2>1, <2>2, <2>3, SameHandled DEF OrderInv
<1>15. CASE RunHere
  <2>1. /\ UNCHANGED <<pc, sent, enq, queue, asked, acmd>> /\ apc' \notin Holding
        /\ apc \in CarriesCommand /\ apc' \in CarriesCommand
    BY <1>15 DEF RunHere, Concluded
  <2>2. \A d \in Calls : Handled(d)' => Handled(d) \/ d = acmd
    BY <1>15 DEF RunHere, Concluded, Handled, AtHelper, TypeOK
  <2>3. /\ enq[acmd] > 0
        /\ \A i \in 1..Len(queue) : enq[acmd] < enq[queue[i]]
        /\ \A d \in Calls : Handled(d) /\ d # acmd => enq[d] < enq[acmd]
    BY <2>1 DEF OrderInv
  <2> QED
    BY <2>1, <2>2, <2>3 DEF OrderInv
<1>16. CASE AskHelper
  <2>1. /\ UNCHANGED <<pc, sent, enq, queue, acmd, effect, told>> /\ apc' \notin Holding
        /\ apc \in CarriesCommand /\ apc' \in CarriesCommand
        /\ asked' = Append(asked, acmd) /\ asked \in Seq(ViaHelper) /\ acmd \in ViaHelper
    BY <1>16 DEF AskHelper, TypeOK
  <2>2. \A d \in Calls : Handled(d)' => Handled(d) \/ d = acmd
    <3>1. /\ Len(asked') = Len(asked) + 1 /\ Len(asked) \in Nat
          /\ \A i \in 1..Len(asked) : asked'[i] = asked[i]
          /\ asked'[Len(asked) + 1] = acmd
      BY <2>1
    <3>2. \A i \in 1..Len(asked') : i \in 1..Len(asked) \/ i = Len(asked) + 1
      BY <3>1
    <3>3. \A d \in Calls : AtHelper(d)' => AtHelper(d) \/ d = acmd
      BY <3>1, <3>2 DEF AtHelper
    <3> QED
      BY <2>1, <3>3 DEF Handled
  <2>3. /\ enq[acmd] > 0
        /\ \A i \in 1..Len(queue) : enq[acmd] < enq[queue[i]]
        /\ \A d \in Calls : Handled(d) /\ d # acmd => enq[d] < enq[acmd]
    BY <2>1 DEF OrderInv
  <2> QED
    BY <2>1, <2>2, <2>3 DEF OrderInv
<1>17. CASE HelperAnswers
  <2>1. /\ UNCHANGED <<pc, sent, enq, queue, asked, acmd>> /\ apc' \notin Holding
        /\ apc \in CarriesCommand /\ apc' \in CarriesCommand
    BY <1>17 DEF HelperAnswers, Concluded
  <2>2. \A d \in Calls : Handled(d)' => Handled(d) \/ d = acmd
    BY <1>17 DEF HelperAnswers, Concluded, Handled, AtHelper, TypeOK
  <2>3. /\ enq[acmd] > 0
        /\ \A i \in 1..Len(queue) : enq[acmd] < enq[queue[i]]
        /\ \A d \in Calls : Handled(d) /\ d # acmd => enq[d] < enq[acmd]
    BY <2>1 DEF OrderInv
  <2> QED
    BY <2>1, <2>2, <2>3 DEF OrderInv
<1>18. CASE StopAsking
  <2>1. /\ UNCHANGED <<pc, sent, enq, queue, asked, acmd>> /\ apc' \notin Holding
        /\ apc \in CarriesCommand /\ apc' \in CarriesCommand
    BY <1>18 DEF StopAsking, Concluded
  <2>2. \A d \in Calls : Handled(d)' => Handled(d) \/ d = acmd
    BY <1>18 DEF StopAsking, Concluded, Handled, AtHelper, TypeOK
  <2>3. /\ enq[acmd] > 0
        /\ \A i \in 1..Len(queue) : enq[acmd] < enq[queue[i]]
        /\ \A d \in Calls : Handled(d) /\ d # acmd => enq[d] < enq[acmd]
    BY <2>1 DEF OrderInv
  <2> QED
    BY <2>1, <2>2, <2>3 DEF OrderInv
<1>19. CASE PostResult
  <2>1. UNCHANGED <<pc, sent, enq, queue, asked, told, effect>>
    BY <1>19 DEF PostResult
  <2>2. apc' \in CarriesCommand => apc \in CarriesCommand /\ acmd' = acmd
    BY <1>19 DEF PostResult
  <2>3. apc' \in Holding => apc \in Holding
    BY <1>19 DEF PostResult
  <2> QED
    BY <2>1, <2>2, <2>3, SameHandled DEF OrderInv
<1>20. CASE PostReturns
  <2>1. UNCHANGED <<pc, sent, enq, queue, asked, told, effect>>
    BY <1>20 DEF PostReturns
  <2>2. apc' \in CarriesCommand => apc \in CarriesCommand /\ acmd' = acmd
    BY <1>20 DEF PostReturns
  <2>3. apc' \in Holding => apc \in Holding
    BY <1>20 DEF PostReturns
  <2> QED
    BY <2>1, <2>2, <2>3, SameHandled DEF OrderInv
<1>21. CASE HelperServes
  <2>1. /\ UNCHANGED <<pc, sent, enq, queue, apc, acmd, told>>
        /\ asked' = Tail(asked) /\ asked # <<>> /\ asked \in Seq(ViaHelper)
    BY <1>21 DEF HelperServes, TypeOK
  <2>2. \A d \in Calls : Handled(d)' => Handled(d)
    <3>1. /\ Len(asked') = Len(asked) - 1 /\ Len(asked) \in Nat \ {0}
          /\ \A i \in 1..Len(asked') : asked'[i] = asked[i + 1] /\ i + 1 \in 1..Len(asked)
          /\ Head(asked) = asked[1] /\ 1 \in 1..Len(asked)
      BY <2>1
    <3>2. \A d \in Calls : AtHelper(d)' => AtHelper(d)
      BY <3>1 DEF AtHelper
    <3>3. \A d \in Calls : effect'[d] # "none" => effect[d] # "none" \/ AtHelper(d)
      BY <1>21, <3>1 DEF HelperServes, AtHelper, TypeOK
    <3> QED
      BY <2>1, <3>2, <3>3 DEF Handled
  <2> QED
    BY <2>1, <2>2 DEF OrderInv
<1>22. CASE LoseConnection
  <2>1. UNCHANGED <<pc, sent, enq, queue, asked, told, effect>>
    BY <1>22 DEF LoseConnection
  <2>2. apc' \in CarriesCommand => apc \in CarriesCommand /\ acmd' = acmd
    BY <1>22 DEF LoseConnection
  <2>3. apc' \in Holding => apc \in Holding
    BY <1>22 DEF LoseConnection
  <2> QED
    BY <2>1, <2>2, <2>3, SameHandled DEF OrderInv
<1>23. CASE AgentCrash
  <2>1. UNCHANGED <<pc, sent, enq, queue, asked, told, effect>>
    BY <1>23 DEF AgentCrash
  <2>2. apc' \in CarriesCommand => apc \in CarriesCommand /\ acmd' = acmd
    BY <1>23 DEF AgentCrash
  <2>3. apc' \in Holding => apc \in Holding
    BY <1>23 DEF AgentCrash
  <2> QED
    BY <2>1, <2>2, <2>3, SameHandled DEF OrderInv
<1>24. CASE ServerRestart
  <2>1. /\ UNCHANGED <<sent, enq, asked, told, effect>> /\ Len(queue') = 0
        /\ apc' \in CarriesCommand => apc' = apc /\ acmd' = acmd
    BY <1>24 DEF ServerRestart
  <2>2. \A d \in Calls : pc'[d] \in {"idle", "registered"} \cup Declined
                         => pc[d] \in {"idle", "registered"} \cup Declined
    BY <1>24 DEF ServerRestart, TypeOK
  <2> QED
    BY <2>1, <2>2, SameHandled DEF OrderInv
<1>25. CASE DeleteNode
  <2>1. UNCHANGED <<sent, enq, queue, asked, apc, acmd, told, effect>>
    BY <1>25 DEF DeleteNode
  <2>2. \A d \in Calls : pc'[d] \in {"idle", "registered"} \cup Declined
                         => pc[d] \in {"idle", "registered"} \cup Declined
    BY <1>25 DEF DeleteNode, TypeOK
  <2> QED
    BY <2>1, <2>2, OrderQuiet
<1>26. CASE HelperCrash
  <2>1. /\ UNCHANGED <<pc, sent, enq, queue, apc, acmd, told>>
        /\ asked' = Tail(asked) /\ asked # <<>> /\ asked \in Seq(ViaHelper)
    BY <1>26 DEF HelperCrash, TypeOK
  <2>2. \A d \in Calls : Handled(d)' => Handled(d)
    <3>1. /\ Len(asked') = Len(asked) - 1 /\ Len(asked) \in Nat \ {0}
          /\ \A i \in 1..Len(asked') : asked'[i] = asked[i + 1] /\ i + 1 \in 1..Len(asked)
          /\ Head(asked) = asked[1] /\ 1 \in 1..Len(asked)
      BY <2>1
    <3>2. \A d \in Calls : AtHelper(d)' => AtHelper(d)
      BY <3>1 DEF AtHelper
    <3>3. \A d \in Calls : effect'[d] # "none" => effect[d] # "none" \/ AtHelper(d)
      BY <1>26, <3>1 DEF HelperCrash, AtHelper, TypeOK
    <3> QED
      BY <2>1, <3>2, <3>3 DEF Handled
  <2> QED
    BY <2>1, <2>2 DEF OrderInv
<1>27. CASE Tick
  <2>1. UNCHANGED <<sent, enq, queue, asked, apc, acmd, told, effect>>
    BY <1>27 DEF Tick
  <2>2. \A d \in Calls : pc'[d] \in {"idle", "registered"} \cup Declined
                         => pc[d] \in {"idle", "registered"} \cup Declined
    BY <1>27 DEF Tick, TypeOK
  <2> QED
    BY <2>1, <2>2, OrderQuiet
<1>28. CASE UNCHANGED vars
  <2>1. UNCHANGED <<sent, enq, queue, asked, apc, acmd, told, effect, pc>>
    BY <1>28
  <2> QED
    BY <2>1, OrderQuiet
<1> QED
  BY <1>1, <1>2, <1>3, <1>4, <1>5, <1>6, <1>7, <1>8, <1>9, <1>10, <1>11,
     <1>12, <1>13, <1>14, <1>15, <1>16, <1>17, <1>18, <1>19, <1>20, <1>21,
     <1>22, <1>23, <1>24, <1>25, <1>26, <1>27, <1>28
  DEF Next, CallStep, PollStep, AgentStep, FaultStep

\* Requests at the Helper stay sorted.
LEMMA HelperQuiet ==
    ASSUME HelperInv, UNCHANGED <<enq, asked, effect>>
    PROVE  HelperInv'
BY DEF HelperInv

LEMMA NotYetHandled ==
    ASSUME TypeOK, PollInv, OrderInv, apc \in Holding
    PROVE  ~Handled(acmd)
<1>1. acmd \in Calls /\ enq[acmd] \in Nat
  BY DEF PollInv, TypeOK
<1> QED
  BY <1>1 DEF OrderInv

\* Requests at the Helper stay sorted, and behind what it has served.
LEMMA HelperStep == TypeOK /\ PollInv /\ OrderInv /\ HelperInv /\ [Next]_vars => HelperInv'
<1> SUFFICES ASSUME TypeOK, PollInv, OrderInv, HelperInv, [Next]_vars
             PROVE  HelperInv'
  OBVIOUS
<1>1. ASSUME NEW c \in Calls, SendRefused(c) PROVE HelperInv'
  <2>1. UNCHANGED <<enq, asked, effect>>
    BY <1>1 DEF SendRefused
  <2> QED
    BY <2>1, HelperQuiet
<1>2. ASSUME NEW c \in Calls, SendRegister(c) PROVE HelperInv'
  <2>1. UNCHANGED <<enq, asked, effect>>
    BY <1>2 DEF SendRegister
  <2> QED
    BY <2>1, HelperQuiet
<1>3. ASSUME NEW c \in Calls, SendEnqueue(c) PROVE HelperInv'
  <2>1. /\ enq[c] = 0 /\ UNCHANGED <<asked, effect>> /\ asked \in Seq(ViaHelper)
        /\ enq' = [enq EXCEPT ![c] = sent + 1] /\ enq \in [Calls -> Nat]
    BY <1>3 DEF SendEnqueue, OrderInv, TypeOK
  <2>2. ~Handled(c)
    BY <2>1 DEF OrderInv
  <2>3. \A i \in 1..Len(asked) : asked[i] # c /\ enq'[asked[i]] = enq[asked[i]]
    BY <2>1, <2>2, ChannelConstants DEF Handled, AtHelper
  <2>4. \A d \in ViaHelper : effect[d] = "done" => enq'[d] = enq[d]
    BY <2>1, <2>2, ChannelConstants DEF Handled
  <2> QED
    BY <2>1, <2>3, <2>4 DEF HelperInv
<1>4. ASSUME NEW c \in Calls, SendBusy(c) PROVE HelperInv'
  <2>1. UNCHANGED <<enq, asked, effect>>
    BY <1>4 DEF SendBusy
  <2> QED
    BY <2>1, HelperQuiet
<1>5. ASSUME NEW c \in Calls, SendReceive(c) PROVE HelperInv'
  <2>1. UNCHANGED <<enq, asked, effect>>
    BY <1>5 DEF SendReceive
  <2> QED
    BY <2>1, HelperQuiet
<1>6. ASSUME NEW c \in Calls, SendTimeout(c) PROVE HelperInv'
  <2>1. UNCHANGED <<enq, asked, effect>>
    BY <1>6 DEF SendTimeout
  <2> QED
    BY <2>1, HelperQuiet
<1>7. ASSUME NEW c \in Calls, ResultLookup(c) PROVE HelperInv'
  <2>1. UNCHANGED <<enq, asked, effect>>
    BY <1>7 DEF ResultLookup
  <2> QED
    BY <2>1, HelperQuiet
<1>8. ASSUME NEW c \in Calls, ResultSend(c) PROVE HelperInv'
  <2>1. UNCHANGED <<enq, asked, effect>>
    BY <1>8 DEF ResultSend
  <2> QED
    BY <2>1, HelperQuiet
<1>9. ASSUME NEW p \in Polls, PollStart(p) PROVE HelperInv'
  <2>1. UNCHANGED <<enq, asked, effect>>
    BY <1>9 DEF PollStart
  <2> QED
    BY <2>1, HelperQuiet
<1>10. ASSUME NEW p \in Polls, TestPoll(p) PROVE HelperInv'
  <2>1. UNCHANGED <<enq, asked, effect>>
    BY <1>10 DEF TestPoll
  <2> QED
    BY <2>1, HelperQuiet
<1>11. ASSUME NEW p \in Polls, Dequeue(p) PROVE HelperInv'
  <2>1. UNCHANGED <<enq, asked, effect>>
    BY <1>11 DEF Dequeue
  <2> QED
    BY <2>1, HelperQuiet
<1>12. ASSUME NEW p \in Polls, PollEnd(p) PROVE HelperInv'
  <2>1. UNCHANGED <<enq, asked, effect>>
    BY <1>12 DEF PollEnd
  <2> QED
    BY <2>1, HelperQuiet
<1>13. CASE RefuseStale
  <2>1. /\ apc \in Holding /\ UNCHANGED <<enq, asked>> /\ asked \in Seq(ViaHelper)
        /\ effect' = [effect EXCEPT ![acmd] = "refused"] /\ acmd \in Calls
    BY <1>13 DEF RefuseStale, PollInv, TypeOK
  <2>2. \A i \in 1..Len(asked) : asked[i] # acmd
    BY <2>1, NotYetHandled DEF Handled, AtHelper
  <2>3. /\ \A i \in 1..Len(asked) : effect'[asked[i]] = effect[asked[i]]
        /\ \A c \in Calls : effect'[c] = "done" => effect[c] = "done"
    BY <2>1, <2>2, ChannelConstants DEF TypeOK
  <2>4. ViaHelper \subseteq Calls /\ HelperInv
    BY ChannelConstants
  <2> QED
    BY <2>1, <2>3, <2>4 DEF HelperInv
<1>14. CASE Accept
  <2>1. UNCHANGED <<enq, asked, effect>>
    BY <1>14 DEF Accept
  <2> QED
    BY <2>1, HelperQuiet
<1>15. CASE RunHere
  <2>1. /\ apc \in Holding /\ UNCHANGED <<enq, asked>> /\ asked \in Seq(ViaHelper)
        /\ effect' = [effect EXCEPT ![acmd] = "done"] /\ acmd \in Calls /\ acmd \notin ViaHelper
    BY <1>15 DEF RunHere, PollInv, TypeOK
  <2>2. \A i \in 1..Len(asked) : asked[i] \in ViaHelper
    BY <2>1
  <2>3. \A c \in ViaHelper : effect'[c] = effect[c]
    BY <2>1, ChannelConstants DEF TypeOK
  <2>4. HelperInv
    OBVIOUS
  <2> QED
    BY <2>1, <2>2, <2>3, <2>4 DEF HelperInv
<1>16. CASE AskHelper
  <2>1. /\ apc \in Holding /\ UNCHANGED <<enq, effect>> /\ asked \in Seq(ViaHelper)
        /\ asked' = Append(asked, acmd) /\ acmd \in ViaHelper /\ acmd \in Calls
    BY <1>16, ChannelConstants DEF AskHelper, TypeOK
  <2>2. /\ Len(asked') = Len(asked) + 1 /\ Len(asked) \in Nat
        /\ \A i \in 1..Len(asked) : asked'[i] = asked[i] /\ asked[i] \in Calls
        /\ asked'[Len(asked) + 1] = acmd
        /\ \A i \in 1..Len(asked') : i \in 1..Len(asked) \/ i = Len(asked) + 1
    BY <2>1, ChannelConstants
  <2>3. \A d \in Calls : Handled(d) => enq[d] < enq[acmd]
    BY <2>1 DEF OrderInv
  <2>4. effect[acmd] = "none"
    BY <2>1, NotYetHandled DEF Handled
  <2>5. \A i \in 1..Len(asked) : enq[asked[i]] < enq[acmd]
    BY <2>2, <2>3 DEF Handled, AtHelper
  <2>6. \A d \in ViaHelper : effect[d] = "done" => enq[d] < enq[acmd]
    BY <2>3, ChannelConstants DEF Handled
  <2>7. \A i, j \in 1..Len(asked') : i < j => enq[asked'[i]] < enq[asked'[j]]
    <3> SUFFICES ASSUME NEW i \in 1..Len(asked'), NEW j \in 1..Len(asked'), i < j
                 PROVE  enq[asked'[i]] < enq[asked'[j]]
      OBVIOUS
    <3>1. CASE j \in 1..Len(asked)
      BY <2>2, <3>1 DEF HelperInv
    <3>2. CASE j = Len(asked) + 1
      BY <2>2, <2>5, <3>2
    <3> QED
      BY <2>2, <3>1, <3>2
  <2> QED
    BY <2>1, <2>2, <2>4, <2>6, <2>7 DEF HelperInv
<1>17. CASE HelperAnswers
  <2>1. UNCHANGED <<enq, asked, effect>>
    BY <1>17 DEF HelperAnswers
  <2> QED
    BY <2>1, HelperQuiet
<1>18. CASE StopAsking
  <2>1. UNCHANGED <<enq, asked, effect>>
    BY <1>18 DEF StopAsking
  <2> QED
    BY <2>1, HelperQuiet
<1>19. CASE PostResult
  <2>1. UNCHANGED <<enq, asked, effect>>
    BY <1>19 DEF PostResult
  <2> QED
    BY <2>1, HelperQuiet
<1>20. CASE PostReturns
  <2>1. UNCHANGED <<enq, asked, effect>>
    BY <1>20 DEF PostReturns
  <2> QED
    BY <2>1, HelperQuiet
<1>21. CASE HelperServes
  <2>1. /\ asked' = Tail(asked) /\ asked # <<>> /\ asked \in Seq(ViaHelper) /\ UNCHANGED enq
    BY <1>21 DEF HelperServes, TypeOK
  <2>2. /\ Len(asked') = Len(asked) - 1 /\ Len(asked) \in Nat \ {0}
        /\ \A i \in 1..Len(asked') : /\ asked'[i] = asked[i + 1] /\ i + 1 \in 1..Len(asked)
                                     /\ asked[i + 1] \in ViaHelper
        /\ Head(asked) = asked[1] /\ 1 \in 1..Len(asked) /\ asked[1] \in ViaHelper
    BY <2>1
  <2>3. \A i, j \in 1..Len(asked') : i < j => enq[asked'[i]] < enq[asked'[j]]
    <3> SUFFICES ASSUME NEW i \in 1..Len(asked'), NEW j \in 1..Len(asked'), i < j
                 PROVE  enq[asked'[i]] < enq[asked'[j]]
      OBVIOUS
    <3>1. /\ asked'[i] = asked[i + 1] /\ asked'[j] = asked[j + 1]
          /\ i + 1 \in 1..Len(asked) /\ j + 1 \in 1..Len(asked)
      BY <2>2
    <3>2. i + 1 < j + 1
      OBVIOUS
    <3> QED
      BY <3>1, <3>2 DEF HelperInv
  <2>4. \A i \in 1..Len(asked') : enq[asked[1]] < enq[asked'[i]]
    <3>1. \A i \in 1..Len(asked') : 1 < i + 1
      OBVIOUS
    <3>2. \A i \in 1..Len(asked') : enq[asked[1]] < enq[asked[i + 1]]
      BY <2>2, <3>1 DEF HelperInv
    <3> QED
      BY <2>2, <3>2
  <2>5. /\ effect' = [effect EXCEPT ![asked[1]] = "done"] /\ effect \in [Calls -> {"none", "done", "refused"}]
        /\ asked[1] \in Calls /\ enq \in [Calls -> Nat]
    BY <1>21, <2>2, ChannelConstants DEF HelperServes, TypeOK
  <2>6. \A i \in 1..Len(asked') : asked'[i] # asked[1] /\ effect'[asked'[i]] = "none"
    <3>1. \A i \in 1..Len(asked') : asked'[i] \in Calls /\ effect[asked'[i]] = "none"
      BY <2>2, ChannelConstants DEF HelperInv
    <3>2. \A i \in 1..Len(asked') : asked'[i] # asked[1]
      BY <2>4, <2>5, <3>1
    <3> QED
      BY <2>5, <3>1, <3>2
  <2>7. \A i \in 1..Len(asked'), d \in ViaHelper :
          effect'[d] = "done" => enq[d] < enq[asked'[i]]
    <3> SUFFICES ASSUME NEW i \in 1..Len(asked'), NEW d \in ViaHelper, effect'[d] = "done"
                 PROVE  enq[d] < enq[asked'[i]]
      OBVIOUS
    <3>1. CASE d = asked[1]
      BY <2>4, <3>1
    <3>2. CASE d # asked[1]
      <4>1. effect[d] = "done"
        BY <2>5, <3>2, ChannelConstants
      <4> QED
        BY <2>2, <4>1 DEF HelperInv
    <3> QED
      BY <3>1, <3>2
  <2> QED
    BY <2>1, <2>3, <2>6, <2>7 DEF HelperInv
<1>22. CASE LoseConnection
  <2>1. UNCHANGED <<enq, asked, effect>>
    BY <1>22 DEF LoseConnection
  <2> QED
    BY <2>1, HelperQuiet
<1>23. CASE AgentCrash
  <2>1. UNCHANGED <<enq, asked, effect>>
    BY <1>23 DEF AgentCrash
  <2> QED
    BY <2>1, HelperQuiet
<1>24. CASE ServerRestart
  <2>1. UNCHANGED <<enq, asked, effect>>
    BY <1>24 DEF ServerRestart
  <2> QED
    BY <2>1, HelperQuiet
<1>25. CASE DeleteNode
  <2>1. UNCHANGED <<enq, asked, effect>>
    BY <1>25 DEF DeleteNode
  <2> QED
    BY <2>1, HelperQuiet
<1>26. CASE HelperCrash
  <2>1. /\ asked' = Tail(asked) /\ asked # <<>> /\ asked \in Seq(ViaHelper) /\ UNCHANGED enq
    BY <1>26 DEF HelperCrash, TypeOK
  <2>2. /\ Len(asked') = Len(asked) - 1 /\ Len(asked) \in Nat \ {0}
        /\ \A i \in 1..Len(asked') : /\ asked'[i] = asked[i + 1] /\ i + 1 \in 1..Len(asked)
                                     /\ asked[i + 1] \in ViaHelper
        /\ Head(asked) = asked[1] /\ 1 \in 1..Len(asked) /\ asked[1] \in ViaHelper
    BY <2>1
  <2>3. \A i, j \in 1..Len(asked') : i < j => enq[asked'[i]] < enq[asked'[j]]
    <3> SUFFICES ASSUME NEW i \in 1..Len(asked'), NEW j \in 1..Len(asked'), i < j
                 PROVE  enq[asked'[i]] < enq[asked'[j]]
      OBVIOUS
    <3>1. /\ asked'[i] = asked[i + 1] /\ asked'[j] = asked[j + 1]
          /\ i + 1 \in 1..Len(asked) /\ j + 1 \in 1..Len(asked)
      BY <2>2
    <3>2. i + 1 < j + 1
      OBVIOUS
    <3> QED
      BY <3>1, <3>2 DEF HelperInv
  <2>4. UNCHANGED effect
    BY <1>26 DEF HelperCrash
  <2> QED
    BY <2>1, <2>2, <2>3, <2>4 DEF HelperInv
<1>27. CASE Tick
  <2>1. UNCHANGED <<enq, asked, effect>>
    BY <1>27 DEF Tick
  <2> QED
    BY <2>1, HelperQuiet
<1>28. CASE UNCHANGED vars
  <2>1. UNCHANGED <<enq, asked, effect>>
    BY <1>28
  <2> QED
    BY <2>1, HelperQuiet
<1> QED
  BY <1>1, <1>2, <1>3, <1>4, <1>5, <1>6, <1>7, <1>8, <1>9, <1>10, <1>11,
     <1>12, <1>13, <1>14, <1>15, <1>16, <1>17, <1>18, <1>19, <1>20, <1>21,
     <1>22, <1>23, <1>24, <1>25, <1>26, <1>27, <1>28
  DEF Next, CallStep, PollStep, AgentStep, FaultStep

\* No step but a fault, and the polls that test the Server, loses a command.
LEMMA LossStep ==
    TypeOK /\ PollInv /\ OrderInv /\ HelperInv /\ LossInv /\ [Next]_vars => LossInv'
<1> DEFINE Safe(c) == enq[c] > 0 => OnTheWay(c) \/ effect[c] # "none" \/ c \in strays
           Quiet == tests = 0 => strays = {} /\ \A p \in Polls : poll[p] \in {"idle", "agent"}
<1> SUFFICES ASSUME TypeOK, PollInv, OrderInv, HelperInv, LossInv, [Next]_vars, faults' = 0
             PROVE  Quiet' /\ \A c \in Calls : Safe(c)'
  BY DEF LossInv
<1> USE DEF OnTheWay, InQueue, InHand, AtHelper
<1>1. faults \in Nat /\ tests \in Nat
  BY DEF TypeOK
<1>2. ~Fault
  BY <1>1 DEF Fault
<1>3. faults = 0
  BY <1>2 DEF Next, CallStep, PollStep, AgentStep, FaultStep, SendRefused, SendRegister, SendEnqueue, SendBusy, SendReceive, SendTimeout,
     ResultLookup, ResultSend, PollStart, TestPoll, Dequeue, PollEnd, RefuseStale, Accept,
     RunHere, AskHelper, HelperAnswers, StopAsking, PostResult, PostReturns, HelperServes,
     LoseConnection, AgentCrash, ServerRestart, DeleteNode, HelperCrash, Tick
<1>4. Quiet /\ \A c \in Calls : Safe(c)
  BY <1>3 DEF LossInv
<1>5. Quiet'
  <2>1. UNCHANGED <<tests, poll, strays>> => Quiet'
    BY <1>4
  <2>2. ASSUME NEW p \in Polls, PollStep(p) PROVE Quiet'
    <3>1. CASE PollStart(p) \/ PollEnd(p)
      BY <1>4, <3>1 DEF PollStart, PollEnd, TypeOK
    <3>2. CASE TestPoll(p)
      BY <1>1, <3>2 DEF TestPoll
    <3>3. CASE Dequeue(p)
      <4>1. /\ UNCHANGED tests /\ poll' = [poll EXCEPT ![p] = "idle"]
            /\ poll[p] = "agent" => UNCHANGED strays
            /\ poll[p] # "idle"
        BY <3>3 DEF Dequeue, Take
      <4> QED
        BY <1>4, <4>1 DEF TypeOK
    <3> QED
      BY <2>2, <3>1, <3>2, <3>3 DEF PollStep
  <2>3. ASSUME NEW c \in Calls, CallStep(c) PROVE UNCHANGED <<tests, poll, strays>>
    BY <2>3 DEF CallStep, SendRefused, SendRegister, SendEnqueue, SendBusy, SendReceive,
       SendTimeout, ResultLookup, ResultSend
  <2>4. ASSUME AgentStep \/ HelperServes \/ Tick \/ UNCHANGED vars
        PROVE  UNCHANGED <<tests, poll, strays>>
    BY <2>4 DEF AgentStep, RefuseStale, Accept, RunHere, AskHelper, HelperAnswers, StopAsking,
       PostResult, PostReturns, HelperServes, Tick
  <2>5. ~FaultStep
    BY <1>2 DEF FaultStep, LoseConnection, AgentCrash, ServerRestart, DeleteNode, HelperCrash
  <2> QED
    BY <2>1, <2>2, <2>3, <2>4, <2>5 DEF Next
<1>6. ASSUME NEW c \in Calls, SendEnqueue(c)
      PROVE  \A d \in Calls : Safe(d)'
  <2>1. /\ queue \in Seq(Calls) /\ queue' = Append(queue, c)
        /\ enq' = [enq EXCEPT ![c] = sent + 1] /\ enq \in [Calls -> Nat]
        /\ UNCHANGED <<apc, acmd, asked, effect, strays>>
    BY <1>6 DEF SendEnqueue, TypeOK
  <2>2. /\ Len(queue') = Len(queue) + 1 /\ Len(queue) \in Nat
        /\ \A i \in 1..Len(queue) : queue'[i] = queue[i] /\ i \in 1..Len(queue')
        /\ queue'[Len(queue) + 1] = c /\ Len(queue) + 1 \in 1..Len(queue')
    BY <2>1
  <2>3. InQueue(c)' /\ \A d \in Calls : InQueue(d) => InQueue(d)'
    BY <2>2
  <2>4. \A d \in Calls : d # c => enq'[d] = enq[d]
    BY <2>1
  <2> QED
    BY <1>4, <2>1, <2>3, <2>4
<1>7. ASSUME NEW p \in Polls, Dequeue(p)
      PROVE  \A d \in Calls : Safe(d)'
  <2>1. /\ queue \in Seq(Calls) /\ queue # <<>> /\ queue' = Tail(queue)
        /\ UNCHANGED <<enq, effect, asked>>
        /\ \/ apc = "polling" /\ apc' = "reply" /\ acmd' = Head(queue) /\ UNCHANGED strays
           \/ UNCHANGED <<apc, acmd>> /\ strays' = strays \cup {Head(queue)}
    BY <1>7 DEF Dequeue, Take, TypeOK, PollInv
  <2>2. /\ Len(queue') = Len(queue) - 1 /\ Len(queue) \in Nat \ {0} /\ Head(queue) = queue[1]
        /\ \A i \in 1..Len(queue') : queue'[i] = queue[i + 1]
    BY <2>1
  <2>3. \A i \in 1..Len(queue) : \/ queue[i] = Head(queue)
                                 \/ i - 1 \in 1..Len(queue') /\ queue'[i - 1] = queue[i]
    <3> SUFFICES ASSUME NEW i \in 1..Len(queue), i # 1
                 PROVE  i - 1 \in 1..Len(queue') /\ queue'[i - 1] = queue[i]
      BY <2>2
    <3>1. i - 1 \in 1..Len(queue') /\ (i - 1) + 1 = i
      BY <2>2
    <3> QED
      BY <2>2, <3>1
  <2>4. \A d \in Calls : InQueue(d) => InQueue(d)' \/ d = Head(queue)
    BY <2>3
  <2>5. \A d \in Calls : d = Head(queue) => InHand(d)' \/ d \in strays'
    BY <2>1
  <2>6. \A d \in Calls : /\ InHand(d) => InHand(d)'
                         /\ AtHelper(d) => AtHelper(d)'
                         /\ d \in strays => d \in strays'
    BY <2>1
  <2> QED
    BY <1>4, <2>1, <2>4, <2>5, <2>6
<1>8. CASE AskHelper
  <2>1. /\ asked' = Append(asked, acmd) /\ asked \in Seq(ViaHelper) /\ acmd \in ViaHelper
        /\ UNCHANGED <<queue, enq, effect, strays, acmd>>
    BY <1>8 DEF AskHelper, TypeOK
  <2>2. /\ Len(asked') = Len(asked) + 1 /\ Len(asked) \in Nat
        /\ \A i \in 1..Len(asked) : asked'[i] = asked[i] /\ i \in 1..Len(asked')
        /\ asked'[Len(asked) + 1] = acmd /\ Len(asked) + 1 \in 1..Len(asked')
    BY <2>1
  <2>3. AtHelper(acmd)' /\ \A d \in Calls : AtHelper(d) => AtHelper(d)'
    BY <2>1, <2>2
  <2>4. \A d \in Calls : /\ InQueue(d) => InQueue(d)'
                         /\ InHand(d) => AtHelper(d)'
    BY <2>1, <2>3
  <2> HIDE DEF InQueue, InHand, AtHelper
  <2> SUFFICES ASSUME NEW d \in Calls, enq[d] > 0
               PROVE  OnTheWay(d)' \/ effect'[d] # "none" \/ d \in strays'
    BY <1>5, <2>1
  <2>9. OnTheWay(d) \/ effect[d] # "none" \/ d \in strays
    BY <1>4
  <2> QED
    BY <2>1, <2>3, <2>4, <2>9
<1>9. CASE HelperServes
  <2>1. /\ asked' = Tail(asked) /\ asked \in Seq(ViaHelper) /\ asked # <<>>
        /\ effect' = [effect EXCEPT ![Head(asked)] = "done"]
        /\ UNCHANGED <<queue, enq, strays, apc, acmd>>
    BY <1>9 DEF HelperServes, TypeOK
  <2>2. /\ Len(asked') = Len(asked) - 1 /\ Len(asked) \in Nat \ {0} /\ Head(asked) = asked[1]
        /\ \A i \in 1..Len(asked') : asked'[i] = asked[i + 1]
    BY <2>1
  <2>3. \A i \in 1..Len(asked) : \/ asked[i] = Head(asked)
                                 \/ i - 1 \in 1..Len(asked') /\ asked'[i - 1] = asked[i]
    <3> SUFFICES ASSUME NEW i \in 1..Len(asked), i # 1
                 PROVE  i - 1 \in 1..Len(asked') /\ asked'[i - 1] = asked[i]
      BY <2>2
    <3>1. i - 1 \in 1..Len(asked') /\ (i - 1) + 1 = i
      BY <2>2
    <3> QED
      BY <2>2, <3>1
  <2>4. \A d \in Calls : AtHelper(d) => AtHelper(d)' \/ d = Head(asked)
    BY <2>3
  <2>5. \A d \in Calls : /\ d = Head(asked) => effect'[d] = "done"
                         /\ effect[d] # "none" => effect'[d] # "none"
    BY <2>1 DEF TypeOK
  <2>6. \A d \in Calls : /\ InQueue(d) => InQueue(d)'
                         /\ InHand(d) => InHand(d)'
                         /\ AtHelper(d) => AtHelper(d)' \/ effect'[d] # "none"
    BY <2>1, <2>4, <2>5
  <2> HIDE DEF InQueue, InHand, AtHelper
  <2> SUFFICES ASSUME NEW d \in Calls, enq[d] > 0
               PROVE  OnTheWay(d)' \/ effect'[d] # "none" \/ d \in strays'
    BY <1>5, <2>1
  <2>9. OnTheWay(d) \/ effect[d] # "none" \/ d \in strays
    BY <1>4
  <2> QED
    BY <2>1, <2>5, <2>6, <2>9
<1>10. CASE RefuseStale \/ RunHere
  <2>1. /\ acmd \in Calls /\ effect'[acmd] # "none" /\ UNCHANGED <<queue, enq, asked, strays>>
        /\ \A d \in Calls : d # acmd => effect'[d] = effect[d]
    BY <1>10 DEF RefuseStale, RunHere, PollInv, TypeOK
  <2>2. \A d \in Calls : /\ InQueue(d) => InQueue(d)'
                         /\ AtHelper(d) => AtHelper(d)'
                         /\ InHand(d) => effect'[d] # "none"
                         /\ effect[d] # "none" => effect'[d] # "none"
    BY <2>1
  <2> HIDE DEF InQueue, InHand, AtHelper
  <2> SUFFICES ASSUME NEW d \in Calls, enq[d] > 0
               PROVE  OnTheWay(d)' \/ effect'[d] # "none" \/ d \in strays'
    BY <1>5, <2>1
  <2>9. OnTheWay(d) \/ effect[d] # "none" \/ d \in strays
    BY <1>4
  <2> QED
    BY <2>1, <2>2, <2>9
<1>11. ASSUME UNCHANGED <<queue, asked, enq, effect, strays>>,
              apc \in Holding => apc' \in Holding /\ UNCHANGED acmd
       PROVE  \A d \in Calls : Safe(d)'
  BY <1>4, <1>11
<1>12. CASE UNCHANGED vars
  <2>1. UNCHANGED <<queue, asked, enq, effect, strays, acmd, apc>>
    BY <1>12
  <2> QED
    BY <1>5, <1>11, <2>1
<1>13. ASSUME NEW c \in Calls, CallStep(c), ~SendEnqueue(c)
       PROVE  UNCHANGED <<queue, asked, enq, effect, strays, apc, acmd>>
  BY <1>13 DEF CallStep, SendRefused, SendRegister, SendBusy, SendReceive, SendTimeout,
     ResultLookup, ResultSend
<1>14. ASSUME NEW p \in Polls, PollStart(p) \/ TestPoll(p) \/ PollEnd(p)
       PROVE  /\ UNCHANGED <<queue, asked, enq, effect, strays, acmd>>
              /\ apc \in Holding => apc' \in Holding
  BY <1>14 DEF PollStart, TestPoll, PollEnd, PollInv
<1>15. ASSUME Accept \/ HelperAnswers \/ StopAsking \/ PostResult \/ PostReturns \/ Tick
       PROVE  /\ UNCHANGED <<queue, asked, enq, effect, strays>>
              /\ apc \in Holding => apc' \in Holding /\ UNCHANGED acmd
  BY <1>15 DEF Accept, HelperAnswers, StopAsking, Concluded, PostResult, PostReturns, Tick
<1>16. \/ \E c \in Calls : CallStep(c)
       \/ \E p \in Polls : PollStart(p) \/ TestPoll(p) \/ Dequeue(p) \/ PollEnd(p)
       \/ AgentStep \/ HelperServes \/ Tick \/ UNCHANGED vars
  BY <1>2 DEF Next, PollStep, FaultStep, LoseConnection, AgentCrash, ServerRestart,
     DeleteNode, HelperCrash
<1> QED
  BY <1>5, <1>6, <1>7, <1>8, <1>9, <1>10, <1>11, <1>12, <1>13, <1>14, <1>15, <1>16
  DEF AgentStep

\* Results that are no failures tell what was done.
LEMMA ResultStep == TypeOK /\ PollInv /\ OrderInv /\ HelperInv /\ ResultInv /\ [Next]_vars => ResultInv'
<1> SUFFICES ASSUME TypeOK, PollInv, OrderInv, HelperInv, ResultInv, [Next]_vars
             PROVE  ResultInv'
  OBVIOUS
<1>1. ASSUME NEW c \in Calls, SendRefused(c) PROVE ResultInv'
  BY <1>1 DEF SendRefused, TypeOK, PollInv, ResultInv
<1>2. ASSUME NEW c \in Calls, SendRegister(c) PROVE ResultInv'
  BY <1>2 DEF SendRegister, Stamp, TypeOK, PollInv, ResultInv
<1>3. ASSUME NEW c \in Calls, SendEnqueue(c) PROVE ResultInv'
  BY <1>3 DEF SendEnqueue, HasRoom, TypeOK, PollInv, ResultInv
<1>4. ASSUME NEW c \in Calls, SendBusy(c) PROVE ResultInv'
  BY <1>4 DEF SendBusy, HasRoom, Unregister, TypeOK, PollInv, ResultInv
<1>5. ASSUME NEW c \in Calls, SendReceive(c) PROVE ResultInv'
  BY <1>5 DEF SendReceive, Unregister, TypeOK, PollInv, ResultInv
<1>6. ASSUME NEW c \in Calls, SendTimeout(c) PROVE ResultInv'
  BY <1>6 DEF SendTimeout, Unregister, TypeOK, PollInv, ResultInv
<1>7. ASSUME NEW c \in Calls, ResultLookup(c) PROVE ResultInv'
  BY <1>7 DEF ResultLookup, TypeOK, PollInv, ResultInv
<1>8. ASSUME NEW c \in Calls, ResultSend(c) PROVE ResultInv'
  BY <1>8 DEF ResultSend, ToCaller, TypeOK, PollInv, ResultInv
<1>9. ASSUME NEW p \in Polls, PollStart(p) PROVE ResultInv'
  BY <1>9 DEF PollStart, TypeOK, PollInv, ResultInv
<1>10. ASSUME NEW p \in Polls, TestPoll(p) PROVE ResultInv'
  BY <1>10 DEF TestPoll, TypeOK, PollInv, ResultInv
<1>11. ASSUME NEW p \in Polls, Dequeue(p) PROVE ResultInv'
  <2>1. /\ apc' \in {"asking", "posting", "posted"} => apc' = apc /\ acmd' = acmd
        /\ UNCHANGED <<told, effect, result, box, pc>>
    BY <1>11 DEF Dequeue, Take
  <2> QED
    BY <2>1 DEF ResultInv
<1>12. ASSUME NEW p \in Polls, PollEnd(p) PROVE ResultInv'
  BY <1>12 DEF PollEnd, TypeOK, PollInv, ResultInv
<1>13. CASE RefuseStale
  <2>1. told[acmd] = "none" /\ acmd \in Calls
    BY <1>13, NotYetHandled DEF RefuseStale, Handled, PollInv, TypeOK
  <2> QED
    BY <1>13, <2>1 DEF RefuseStale, Concluded, TypeOK, ResultInv
<1>14. CASE Accept
  BY <1>14 DEF Accept, TypeOK, PollInv, ResultInv
<1>15. CASE RunHere
  <2>1. told[acmd] = "none" /\ acmd \in Calls
    BY <1>15, NotYetHandled DEF RunHere, Handled, PollInv, TypeOK
  <2> QED
    BY <1>15, <2>1 DEF RunHere, Concluded, TypeOK, ResultInv
<1>16. CASE AskHelper
  <2>1. told[acmd] = "none" /\ acmd \in Calls
    BY <1>16, NotYetHandled DEF AskHelper, Handled, PollInv, TypeOK
  <2> QED
    BY <1>16, <2>1 DEF AskHelper, TypeOK, ResultInv
<1>17. CASE HelperAnswers
  BY <1>17 DEF HelperAnswers, Concluded, TypeOK, PollInv, ResultInv
<1>18. CASE StopAsking
  BY <1>18 DEF StopAsking, Concluded, TypeOK, PollInv, ResultInv
<1>19. CASE PostResult
  BY <1>19 DEF PostResult, TypeOK, PollInv, ResultInv
<1>20. CASE PostReturns
  BY <1>20 DEF PostReturns, TypeOK, PollInv, ResultInv
<1>21. CASE HelperServes
  <2>1. Head(asked) = asked[1] /\ 1 \in 1..Len(asked) /\ asked[1] \in Calls
    BY <1>21, ChannelConstants DEF HelperServes, TypeOK
  <2>2. effect[asked[1]] = "none"
    BY <2>1 DEF HelperInv
  <2>3. /\ told[asked[1]] \notin {"done", "refused"} /\ UNCHANGED <<told, result, box, pc, apc, acmd>>
        /\ effect' = [effect EXCEPT ![asked[1]] = "done"] /\ effect \in [Calls -> {"none", "done", "refused"}]
    BY <1>21, <2>1, <2>2 DEF HelperServes, ResultInv, TypeOK
  <2> QED
    BY <2>1, <2>3 DEF ResultInv
<1>22. CASE LoseConnection
  BY <1>22 DEF LoseConnection, CutPolls, Fault, TypeOK, PollInv, ResultInv
<1>23. CASE AgentCrash
  BY <1>23 DEF AgentCrash, CutPolls, Fault, TypeOK, PollInv, ResultInv
<1>24. CASE ServerRestart
  BY <1>24 DEF ServerRestart, Fault, TypeOK, PollInv, ResultInv
<1>25. CASE DeleteNode
  BY <1>25 DEF DeleteNode, Fault, TypeOK, PollInv, ResultInv
<1>26. CASE HelperCrash
  BY <1>26 DEF HelperCrash, Fault, TypeOK, PollInv, ResultInv
<1>27. CASE Tick
  BY <1>27 DEF Tick, TypeOK, PollInv, ResultInv
<1>28. CASE UNCHANGED vars
  BY <1>28 DEF TypeOK, PollInv, ResultInv
<1> QED
  BY <1>1, <1>2, <1>3, <1>4, <1>5, <1>6, <1>7, <1>8, <1>9, <1>10, <1>11,
     <1>12, <1>13, <1>14, <1>15, <1>16, <1>17, <1>18, <1>19, <1>20, <1>21,
     <1>22, <1>23, <1>24, <1>25, <1>26, <1>27, <1>28
  DEF Next, CallStep, PollStep, AgentStep, FaultStep

\* The inductive invariant holds in every reachable state.
THEOREM ChannelInvariant == Spec => []IInv
<1>1. Init => IInv
  <2> SUFFICES ASSUME Init PROVE IInv
    OBVIOUS
  <2>1. TypeOK
    BY TypeInit
  <2>2. PollInv
    BY ChannelConstants DEF Init, PollInv
  <2>3. \A c \in Calls : ~Handled(c)
    <3>1. 1..Len(asked) = {}
      BY DEF Init
    <3> QED
      BY <3>1 DEF Init, Handled, AtHelper
  <2>4. \A i \in 1..Len(queue) : queue[i] \in Calls /\ enq[queue[i]] = i
    BY ChannelConstants, Places DEF Init
  <2>5. OrderInv
    <3>1. \A c \in Calls : enq[c] <= sent
      <4> SUFFICES ASSUME NEW c \in Calls PROVE enq[c] <= sent
        OBVIOUS
      <4>1. Place(c) \in 0..Len(Backlog) /\ Len(Backlog) \in Nat
        BY ChannelConstants, Places
      <4>2. enq[c] = Place(c) /\ sent = Len(Backlog)
        BY DEF Init
      <4> QED
        BY <4>1, <4>2
    <3>2. \A c \in Calls : pc[c] \in {"idle", "registered"} \cup Declined => enq[c] = 0
      BY ChannelConstants, Places DEF Init
    <3>3. apc \notin CarriesCommand /\ Len(queue) \in Nat
      BY ChannelConstants DEF Init
    <3>4. /\ \A i \in 1..Len(queue) : enq[queue[i]] > 0
          /\ \A i, j \in 1..Len(queue) : i < j => enq[queue[i]] < enq[queue[j]]
      BY <2>4, <3>3
    <3> QED
      BY <2>3, <3>1, <3>2, <3>3, <3>4 DEF OrderInv
  <2>6. HelperInv
    BY DEF Init, HelperInv
  <2>7. \A c \in Calls : enq[c] > 0 => InQueue(c)
    <3> SUFFICES ASSUME NEW c \in Calls, enq[c] > 0 PROVE InQueue(c)
      OBVIOUS
    <3>1. enq[c] = Place(c) /\ queue = Backlog
      BY DEF Init
    <3>2. Place(c) \in 1..Len(Backlog) /\ Backlog[Place(c)] = c
      BY <3>1, ChannelConstants, Places
    <3> QED
      BY <3>1, <3>2 DEF InQueue
  <2>8. LossInv
    BY <2>7 DEF Init, LossInv, OnTheWay
  <2>9. ResultInv
    BY DEF Init, ResultInv
  <2> QED
    BY <2>1, <2>2, <2>5, <2>6, <2>8, <2>9 DEF IInv
<1>2. IInv /\ [Next]_vars => IInv'
  BY TypeStep, PollStepInv, OrderStep, HelperStep, LossStep, ResultStep DEF IInv
<1> QED
  BY <1>1, <1>2, PTL DEF Spec

\* Every variable keeps its type.
THEOREM TypeCorrect == Spec => []TypeOK
BY ChannelInvariant, PTL DEF IInv

\* sendCommand: a call declined because the node is offline or the queue is
\* full never takes effect and its command is nowhere on the way.
THEOREM DeclinedSafe == Spec => []DeclinedNeverRuns
<1>1. IInv => DeclinedNeverRuns
  <2> SUFFICES ASSUME IInv, NEW c \in Calls, pc[c] \in Declined
               PROVE  effect[c] = "none" /\ acmd # c /\ ~OnTheWay(c)
    BY DEF DeclinedNeverRuns
  <2>1. enq[c] = 0 /\ enq[c] \in Nat
    BY DEF IInv, OrderInv, TypeOK
  <2>2. ~Handled(c) /\ ~InQueue(c)
    BY <2>1 DEF IInv, OrderInv, InQueue
  <2>3. acmd # c
    BY <2>1 DEF IInv, OrderInv, PollInv
  <2> QED
    BY <2>2, <2>3 DEF Handled, OnTheWay, InHand
<1> QED
  BY <1>1, ChannelInvariant, PTL

\* What changes an effect: the Agent, for the command in its hand, or the Helper,
\* for the request at the head.
LEMMA WhoActs ==
    ASSUME IInv, Next, NEW c \in Calls, effect[c] # effect'[c]
    PROVE  \/ RefuseStale /\ c = acmd
           \/ RunHere /\ c = acmd
           \/ HelperServes /\ c = asked[1] /\ asked # <<>>
<1>1. RefuseStale \/ RunHere \/ HelperServes
  BY DEF Next, CallStep, PollStep, AgentStep, FaultStep, SendRefused,
     SendRegister, SendEnqueue, SendBusy, SendReceive, SendTimeout,
     ResultLookup, ResultSend, PollStart, TestPoll, Dequeue, PollEnd,
     Accept, AskHelper, HelperAnswers, StopAsking, PostResult, PostReturns,
     LoseConnection, AgentCrash, ServerRestart, DeleteNode, HelperCrash, Tick
<1>2. CASE RefuseStale \/ RunHere
  BY <1>2 DEF RefuseStale, RunHere, IInv, TypeOK
<1>3. CASE HelperServes
  BY <1>3 DEF HelperServes, IInv, TypeOK
<1> QED
  BY <1>1, <1>2, <1>3

\* executeCommand, the Helper and the queue: commands take effect at most once, and
\* in the order in which they were queued; a request that the Agent no longer
\* waits for keeps its place among the requests to the Helper.
THEOREM InQueueOrder == Spec => RunsInQueueOrder
<1> DEFINE InOrder(c) ==
             /\ effect[c] = "none"
             /\ \A d \in Calls : effect[d] # "none" =>
                  \/ enq[d] < enq[c]
                  \/ /\ c \in ViaHelper /\ acmd # c
                     /\ d \notin ViaHelper \/ effect[d] = "refused"
<1>1. ASSUME IInv, Next, NEW c \in Calls, effect[c] # effect'[c]
      PROVE  InOrder(c)
  <2>1. CASE (RefuseStale \/ RunHere) /\ c = acmd
    <3>1. apc \in Holding
      BY <2>1 DEF RefuseStale, RunHere
    <3>2. ~Handled(c)
      BY <1>1, <2>1, <3>1, NotYetHandled DEF IInv
    <3>3. \A d \in Calls : Handled(d) => enq[d] < enq[c]
      BY <1>1, <2>1, <3>1 DEF IInv, OrderInv
    <3> QED
      BY <3>2, <3>3 DEF Handled
  <2>2. CASE HelperServes /\ c = asked[1] /\ asked # <<>>
    <3>1. /\ asked \in Seq(ViaHelper) /\ 1 \in 1..Len(asked) /\ c \in ViaHelper
          /\ effect[c] = "none"
      BY <1>1, <2>2 DEF IInv, TypeOK, HelperInv
    <3>2. ASSUME NEW d \in Calls, effect[d] # "none", d \in ViaHelper, effect[d] # "refused"
          PROVE  enq[d] < enq[c]
      <4>1. effect[d] = "done"
        BY <1>1, <3>2 DEF IInv, TypeOK
      <4> QED
        BY <1>1, <2>2, <3>1, <3>2, <4>1 DEF IInv, HelperInv
    <3>3. ASSUME NEW d \in Calls, effect[d] # "none", acmd = c
          PROVE  enq[d] < enq[c]
      <4>1. apc \in CarriesCommand
        BY <1>1, <3>3 DEF IInv, PollInv
      <4> QED
        BY <1>1, <3>1, <3>3, <4>1 DEF IInv, OrderInv, Handled
    <3> QED
      BY <3>1, <3>2, <3>3
  <2> QED
    BY <1>1, <2>1, <2>2, WhoActs
<1>2. IInv /\ [Next]_vars =>
        [\A c \in Calls : effect[c] # effect'[c] => InOrder(c)]_vars
  BY <1>1
<1>3. [][\A c \in Calls : effect[c] # effect'[c] => InOrder(c)]_vars => RunsInQueueOrder
  BY PTL DEF RunsInQueueOrder
<1> QED
  BY <1>2, <1>3, ChannelInvariant, PTL DEF Spec

\* RuntimeNode.Commands, the Agent and the Helper: a queued command is in one
\* place, and in none only after a fault or by a poll that tests the Server.
THEOREM EveryCommandOnce == Spec => []OneCopy
<1>1. IInv => OneCopy
  <2> SUFFICES ASSUME IInv PROVE OneCopy
    OBVIOUS
  <2>1. /\ TypeOK /\ PollInv /\ OrderInv /\ HelperInv /\ LossInv
        /\ queue \in Seq(Calls) /\ enq \in [Calls -> Nat] /\ Len(queue) \in Nat
        /\ asked \in Seq(ViaHelper) /\ Len(asked) \in Nat
    BY DEF IInv, TypeOK
  <2>2. /\ \A i \in 1..Len(queue) : enq[queue[i]] \in Nat /\ queue[i] \in Calls
        /\ \A i \in 1..Len(asked) : enq[asked[i]] \in Nat /\ asked[i] \in Calls
    BY <2>1, ChannelConstants
  <2>3. \A i, j \in 1..Len(queue) : queue[i] = queue[j] => i = j
    <3> SUFFICES ASSUME NEW i \in 1..Len(queue), NEW j \in 1..Len(queue), i < j
                 PROVE  queue[i] # queue[j]
      BY <2>1
    <3>1. enq[queue[i]] < enq[queue[j]]
      BY <2>1 DEF OrderInv
    <3> QED
      BY <2>2, <3>1
  <2>4. \A i, j \in 1..Len(asked) : asked[i] = asked[j] => i = j
    <3> SUFFICES ASSUME NEW i \in 1..Len(asked), NEW j \in 1..Len(asked), i < j
                 PROVE  asked[i] # asked[j]
      BY <2>1
    <3>1. enq[asked[i]] < enq[asked[j]]
      BY <2>1 DEF HelperInv
    <3> QED
      BY <2>2, <3>1
  <2>5. \A c \in Calls : InQueue(c) => ~InHand(c) /\ ~Handled(c)
    BY <2>1, <2>2 DEF OrderInv, InQueue, InHand
  <2>6. \A c \in Calls : InHand(c) => ~Handled(c)
    BY <2>1, NotYetHandled DEF InHand
  <2>7. \A c \in Calls : AtHelper(c) => effect[c] = "none"
    BY <2>1 DEF HelperInv, AtHelper
  <2>8. \A c \in Calls : ~Handled(c) => ~AtHelper(c) /\ effect[c] = "none"
    BY DEF Handled
  <2> QED
    BY <2>1, <2>3, <2>4, <2>5, <2>6, <2>7, <2>8 DEF OneCopy, LossInv, OnTheWay
<1> QED
  BY <1>1, ChannelInvariant, PTL

\* RuntimeNode.Pending holds exactly the calls that have not returned.
THEOREM PendingExact == Spec => []PendingIsOpenCalls
<1>1. Init => PendingIsOpenCalls
  BY Places DEF Init, PendingIsOpenCalls
<1>2. IInv /\ PendingIsOpenCalls /\ [Next]_vars => PendingIsOpenCalls'
  <2> SUFFICES ASSUME IInv, PendingIsOpenCalls, [Next]_vars
               PROVE  PendingIsOpenCalls'
    OBVIOUS
  <2>1. ASSUME NEW c \in Calls, CallStep(c) PROVE PendingIsOpenCalls'
    <3>1. pc \in [Calls -> {"idle", "answered"} \cup Open \cup Declined \cup Undecided]
        /\ pending = {d \in Calls : pc[d] \in Open}
      BY DEF IInv, TypeOK, PendingIsOpenCalls
    <3>2. CASE SendRefused(c)
      BY <3>1, <3>2 DEF SendRefused, PendingIsOpenCalls
    <3>3. CASE SendRegister(c)
      BY <3>1, <3>3 DEF SendRegister, PendingIsOpenCalls
    <3>4. CASE SendEnqueue(c)
      BY <3>1, <3>4 DEF SendEnqueue, PendingIsOpenCalls
    <3>5. CASE SendBusy(c)
      BY <3>1, <3>5 DEF SendBusy, Unregister, PendingIsOpenCalls
    <3>6. CASE SendReceive(c)
      BY <3>1, <3>6 DEF SendReceive, Unregister, PendingIsOpenCalls
    <3>7. CASE SendTimeout(c)
      BY <3>1, <3>7 DEF SendTimeout, Unregister, PendingIsOpenCalls
    <3>8. CASE ResultLookup(c) \/ ResultSend(c)
      BY <3>1, <3>8 DEF ResultLookup, ResultSend, PendingIsOpenCalls
    <3> QED
      BY <2>1, <3>2, <3>3, <3>4, <3>5, <3>6, <3>7, <3>8 DEF CallStep
  <2>2. CASE ServerRestart
    BY <2>2 DEF ServerRestart, IInv, TypeOK, PendingIsOpenCalls
  <2>3. CASE UNCHANGED <<pc, pending>>
    BY <2>3 DEF PendingIsOpenCalls
  <2> QED
    BY <2>1, <2>2, <2>3 DEF Next, PollStep, AgentStep, FaultStep,
       PollStart, TestPoll, Dequeue, PollEnd, RefuseStale, Accept, RunHere, AskHelper,
       HelperAnswers, StopAsking, PostResult, PostReturns, HelperServes,
       LoseConnection, AgentCrash, DeleteNode, HelperCrash, Tick
<1> QED
  BY <1>1, <1>2, ChannelInvariant, PTL DEF Spec

-----------------------------------------------------------------------------
(* The refinement: each step of the channel is a step of RemoteCall on what  *)
(* callers have learnt and the Agent has done, or leaves both alone.         *)

LEMMA SameCall ==
    ASSUME UNCHANGED <<pc, effect>>,
           \A c \in Calls : pc[c] = "answered" => told'[c] = told[c]
    PROVE  UNCHANGED Remote!rvars
<1>1. \A c \in Calls : ReplyOf(c)' = ReplyOf(c)
  BY DEF ReplyOf
<1> QED
  BY <1>1 DEF Remote!rvars

\* What callers have learnt changes in one place when one call moves.
LEMMA OneReply ==
    ASSUME NEW c \in Calls, NEW v, ReplyOf(c)' = v,
           \A d \in Calls \ {c} : ReplyOf(d)' = ReplyOf(d)
    PROVE  [d \in Calls |-> ReplyOf(d)]'
             = [[d \in Calls |-> ReplyOf(d)] EXCEPT ![c] = v]
OBVIOUS

\* A call that changes only its own pc.
LEMMA CallMoves ==
    ASSUME IInv, NEW c \in Calls, CallStep(c), IInv'
    PROVE  [Remote!RemoteNext]_(Remote!rvars)
<1> USE DEF IInv, TypeOK, Remote!RemoteNext, Remote!rvars
<1>1. CASE SendRefused(c)
  <2>1. /\ ReplyOf(c) = "unasked" /\ ReplyOf(c)' = "notSent"
        /\ \A d \in Calls \ {c} : ReplyOf(d)' = ReplyOf(d)
        /\ effect[c] = "none"
        /\ UNCHANGED effect
    BY <1>1 DEF SendRefused, OrderInv, Handled, ReplyOf
  <2>2. Remote!Decline(c)
    BY <2>1, OneReply DEF Remote!Decline
  <2> QED
    BY <2>2
<1>2. CASE SendRegister(c)
  <2>1. /\ ReplyOf(c) = "unasked" /\ ReplyOf(c)' = "open"
        /\ \A d \in Calls \ {c} : ReplyOf(d)' = ReplyOf(d)
        /\ UNCHANGED effect
    BY <1>2 DEF SendRegister, Stamp, ReplyOf
  <2>2. Remote!Ask(c)
    BY <2>1, OneReply DEF Remote!Ask
  <2> QED
    BY <2>2
<1>3. CASE SendEnqueue(c)
  BY <1>3 DEF SendEnqueue, HasRoom, ReplyOf
<1>4. CASE SendBusy(c)
  <2>1. /\ ReplyOf(c) = "open" /\ ReplyOf(c)' = "notSent"
        /\ \A d \in Calls \ {c} : ReplyOf(d)' = ReplyOf(d)
        /\ effect[c] = "none"
        /\ UNCHANGED effect
    BY <1>4 DEF SendBusy, HasRoom, Unregister, OrderInv, Handled, ReplyOf
  <2>2. Remote!Decline(c)
    BY <2>1, OneReply DEF Remote!Decline
  <2> QED
    BY <2>2
<1>5. CASE SendReceive(c)
  <2>1. /\ ReplyOf(c) = "open"
        /\ ReplyOf(c)' = IF told[c] = "failed" THEN "unknown" ELSE told[c]
        /\ \A d \in Calls \ {c} : ReplyOf(d)' = ReplyOf(d)
        /\ UNCHANGED effect
    BY <1>5 DEF SendReceive, Unregister, ReplyOf
  <2>2. told[c] = "failed" \/ (told[c] \in {"done", "refused"} /\ effect[c] = told[c])
    BY <1>5 DEF SendReceive, ResultInv
  <2>3. CASE told[c] = "failed"
    <3>1. Remote!GiveUp({c})
      BY <1>5, <2>3 DEF SendReceive, Unregister, ReplyOf, Remote!GiveUp
    <3> QED
      BY <3>1
  <2>4. CASE told[c] # "failed"
    <3>1. Remote!Answer(c)
      BY <2>1, <2>2, <2>4, OneReply DEF Remote!Answer
    <3> QED
      BY <3>1
  <2> QED
    BY <2>3, <2>4
<1>6. CASE SendTimeout(c)
  <2>1. Remote!GiveUp({c})
    BY <1>6 DEF SendTimeout, Unregister, ReplyOf, Remote!GiveUp
  <2> QED
    BY <2>1
<1>7. CASE ResultLookup(c) \/ ResultSend(c)
  BY <1>7, SameCall DEF ResultLookup, ResultSend
<1> QED
  BY <1>1, <1>2, <1>3, <1>4, <1>5, <1>6, <1>7 DEF CallStep

\* The caller of a command that is on the way was not answered, or told that it
\* had failed.
LEMMA Undetermined ==
    ASSUME IInv, NEW c \in Calls, enq[c] > 0, effect[c] = "none"
    PROVE  ReplyOf(c) \in {"open", "unknown"}
<1>1. pc[c] \in {"idle", "answered"} \cup Open \cup Declined \cup Undecided
  BY DEF IInv, TypeOK
<1>2. pc[c] \notin {"idle"} \cup Declined
  BY DEF IInv, OrderInv
<1>3. told[c] \in {"none", "failed"}
  BY DEF IInv, ResultInv, TypeOK
<1>4. pc[c] = "answered" => told[c] = "failed"
  BY <1>3 DEF IInv, ResultInv
<1> QED
  BY <1>1, <1>2, <1>4 DEF ReplyOf

\* What the Agent or the Helper does is performing.
LEMMA ActingMoves ==
    ASSUME IInv, RefuseStale \/ RunHere \/ HelperServes
    PROVE  [Remote!RemoteNext]_(Remote!rvars)
<1>1. CASE RefuseStale \/ RunHere
  <2>1. /\ acmd \in Calls /\ enq[acmd] > 0 /\ effect[acmd] = "none" /\ told[acmd] = "none"
        /\ UNCHANGED pc /\ \E v \in {"done", "refused"} :
              effect' = [effect EXCEPT ![acmd] = v] /\ told' = [told EXCEPT ![acmd] = v]
    <3>1. apc \in Holding /\ acmd \in Calls
      BY <1>1 DEF RefuseStale, RunHere, IInv, PollInv, TypeOK
    <3>2. ~Handled(acmd)
      BY <3>1, NotYetHandled DEF IInv
    <3> QED
      BY <1>1, <3>1, <3>2 DEF RefuseStale, RunHere, Concluded, Handled, IInv, OrderInv
  <2>2. \A c \in Calls : ReplyOf(c)' = ReplyOf(c)
    BY <2>1 DEF ReplyOf, IInv, ResultInv, TypeOK
  <2>3. \E v \in {"done", "refused"} : Remote!Perform(acmd, v)
    BY <2>1, <2>2, Undetermined DEF Remote!Perform
  <2> QED
    BY <2>1, <2>3 DEF Remote!RemoteNext
<1>2. CASE HelperServes
  <2>1. asked[1] \in Calls /\ Head(asked) = asked[1] /\ 1 \in 1..Len(asked)
    BY <1>2, ChannelConstants DEF HelperServes, IInv, TypeOK
  <2>2. enq[asked[1]] > 0 /\ effect[asked[1]] = "none"
    BY <2>1 DEF IInv, OrderInv, HelperInv, Handled, AtHelper
  <2>3. \A c \in Calls : ReplyOf(c)' = ReplyOf(c)
    BY <1>2 DEF HelperServes, ReplyOf
  <2>4. Remote!Perform(asked[1], "done")
    BY <1>2, <2>1, <2>2, <2>3, Undetermined DEF HelperServes, Remote!Perform
  <2> QED
    BY <2>1, <2>4 DEF Remote!RemoteNext
<1> QED
  BY <1>1, <1>2

\* A restart gives up all the calls that are running.
LEMMA RestartMoves ==
    ASSUME IInv, ServerRestart
    PROVE  [Remote!RemoteNext]_(Remote!rvars)
<1> DEFINE S == {c \in Calls : pc[c] \in Open}
<1>1. CASE S = {}
  <2>1. UNCHANGED <<pc, effect, told>>
    BY <1>1 DEF ServerRestart, IInv, TypeOK
  <2> QED
    BY <2>1, SameCall
<1>2. CASE S # {}
  <2>1. Remote!GiveUp(S)
    BY <1>2 DEF ServerRestart, IInv, TypeOK, ReplyOf, Remote!GiveUp
  <2> QED
    BY <2>1 DEF Remote!RemoteNext
<1> QED
  BY <1>1, <1>2

\* The command channel implements RemoteCall: at most one effect per call,
\* none for a declined call, and answers that report the call's own effect.
THEOREM Refinement == Spec => ImplementsRemoteCall
<1>1. Init => Remote!RemoteInit
  BY DEF Init, Remote!RemoteInit, ReplyOf
<1>2. IInv /\ IInv' /\ [Next]_vars => [Remote!RemoteNext]_(Remote!rvars)
  <2> SUFFICES ASSUME IInv, IInv', [Next]_vars
               PROVE  [Remote!RemoteNext]_(Remote!rvars)
    OBVIOUS
  <2>1. ASSUME NEW c \in Calls, CallStep(c)
        PROVE  [Remote!RemoteNext]_(Remote!rvars)
    BY <2>1, CallMoves
  <2>2. CASE RefuseStale \/ RunHere \/ HelperServes
    BY <2>2, ActingMoves
  <2>3. CASE ServerRestart
    BY <2>3, RestartMoves
  <2>4. CASE HelperAnswers \/ StopAsking
    <3>1. told[acmd] = "none" /\ UNCHANGED <<pc, effect>>
      BY <2>4 DEF HelperAnswers, StopAsking, IInv, ResultInv
    <3>2. \A c \in Calls : pc[c] = "answered" => told'[c] = told[c]
      BY <2>4, <3>1 DEF HelperAnswers, StopAsking, Concluded, IInv, ResultInv, TypeOK
    <3> QED
      BY <3>1, <3>2, SameCall
  <2>5. CASE UNCHANGED <<pc, effect, told>>
    BY <2>5, SameCall
  <2> QED
    BY <2>1, <2>2, <2>3, <2>4, <2>5 DEF Next, PollStep, AgentStep, FaultStep,
       PollStart, TestPoll, Dequeue, PollEnd, Accept, AskHelper, PostResult,
       PostReturns, LoseConnection, AgentCrash, DeleteNode, HelperCrash, Tick
<1> QED
  BY <1>1, <1>2, ChannelInvariant, PTL
     DEF Spec, ImplementsRemoteCall, Remote!RemoteSpec
-----------------------------------------------------------------------------
(* What RemoteCall promises, and so what the channel does.                   *)

RemoteInv == Remote!RemoteTypeOK /\ Remote!Honest

LEMMA RemoteKept ==
    ASSUME RemoteInv, [Remote!RemoteNext]_(Remote!rvars)
    PROVE  RemoteInv' /\ Remote!Stands
<1> DEFINE r == [c \in Calls |-> ReplyOf(c)]
           Typed(s, e) == s \in [Calls -> Remote!Replies] /\ e \in [Calls -> Remote!Effects]
           True(s, e) == \A c \in Calls :
                           /\ s[c] \in {"done", "refused"} => e[c] = s[c]
                           /\ s[c] \in {"unasked", "notSent"} => e[c] = "none"
           Kept == \A c \in Calls :
                     /\ effect[c] # "none" => effect'[c] = effect[c]
                     /\ r[c] \notin {"unasked", "open"} => r'[c] = r[c]
<1>1. Typed(r, effect) /\ True(r, effect)
  BY DEF RemoteInv, Remote!RemoteTypeOK, Remote!Honest
<1>2. ASSUME NEW c \in Calls, Remote!Ask(c) \/ Remote!Decline(c) \/ Remote!Answer(c)
      PROVE  /\ r[c] \in {"unasked", "open"} /\ UNCHANGED effect
             /\ \/ r' = [r EXCEPT ![c] = "open"]
                \/ r' = [r EXCEPT ![c] = "notSent"] /\ effect[c] = "none"
                \/ r' = [r EXCEPT ![c] = effect[c]] /\ effect[c] # "none"
  BY <1>2 DEF Remote!Ask, Remote!Decline, Remote!Answer
<1>3. ASSUME NEW c \in Calls, NEW e \in {"done", "refused"}, Remote!Perform(c, e)
      PROVE  /\ r[c] \in {"open", "unknown"} /\ effect[c] = "none"
             /\ UNCHANGED r /\ effect' = [effect EXCEPT ![c] = e]
  BY <1>3 DEF Remote!Perform
<1>4. ASSUME NEW S \in SUBSET Calls, Remote!GiveUp(S)
      PROVE  /\ \A c \in S : r[c] = "open"
             /\ UNCHANGED effect
             /\ r' = [c \in Calls |-> IF c \in S THEN "unknown" ELSE r[c]]
  BY <1>4 DEF Remote!GiveUp
<1>5. UNCHANGED Remote!rvars => UNCHANGED <<r, effect>>
  BY DEF Remote!rvars
<1>6. Typed(r', effect') /\ True(r', effect') /\ Kept => RemoteInv' /\ Remote!Stands
  BY DEF RemoteInv, Remote!RemoteTypeOK, Remote!Honest, Remote!Stands
<1> HIDE DEF r
<1>7. Typed(r', effect') /\ True(r', effect') /\ Kept
  <2> USE DEF Remote!Replies, Remote!Effects
  <2>1. CASE UNCHANGED <<r, effect>>
    BY <1>1, <2>1
  <2>2. ASSUME NEW c \in Calls, Remote!Ask(c) \/ Remote!Decline(c) \/ Remote!Answer(c)
        PROVE  Typed(r', effect') /\ True(r', effect') /\ Kept
    <3>1. /\ r[c] \in {"unasked", "open"} /\ UNCHANGED effect
          /\ \/ r' = [r EXCEPT ![c] = "open"]
             \/ r' = [r EXCEPT ![c] = "notSent"] /\ effect[c] = "none"
             \/ r' = [r EXCEPT ![c] = effect[c]] /\ effect[c] # "none"
      BY <1>2, <2>2
    <3> QED
      BY <1>1, <3>1
  <2>3. ASSUME NEW c \in Calls, NEW e \in {"done", "refused"}, Remote!Perform(c, e)
        PROVE  Typed(r', effect') /\ True(r', effect') /\ Kept
    <3>1. /\ r[c] \in {"open", "unknown"} /\ effect[c] = "none"
          /\ UNCHANGED r /\ effect' = [effect EXCEPT ![c] = e]
      BY <1>3, <2>3
    <3> QED
      BY <1>1, <3>1
  <2>4. ASSUME NEW S \in SUBSET Calls, Remote!GiveUp(S)
        PROVE  Typed(r', effect') /\ True(r', effect') /\ Kept
    <3>1. /\ \A c \in S : r[c] = "open"
          /\ UNCHANGED effect
          /\ r' = [c \in Calls |-> IF c \in S THEN "unknown" ELSE r[c]]
      BY <1>4, <2>4
    <3> QED
      BY <1>1, <3>1
  <2> QED
    BY <1>5, <2>1, <2>2, <2>3, <2>4 DEF Remote!RemoteNext
<1> QED
  BY <1>6, <1>7

\* sendCommand and executeCommand, seen from outside: an answer that is not a
\* failure is the effect of the very call, a declined call has none and never will, an effect happens
\* once, and what a caller was told stands.
THEOREM PromisesKept == Spec => []Remote!Honest /\ Remote!Final
<1>1. Remote!RemoteInit => RemoteInv
  BY DEF Remote!RemoteInit, RemoteInv, Remote!RemoteTypeOK, Remote!Honest,
     Remote!Replies, Remote!Effects
<1>2. RemoteInv /\ [Remote!RemoteNext]_(Remote!rvars) =>
        RemoteInv' /\ [Remote!Stands]_(Remote!rvars)
  BY RemoteKept
<1>3. RemoteInv => Remote!Honest
  BY DEF RemoteInv
<1> QED
  BY <1>1, <1>2, <1>3, Refinement, PTL
     DEF ImplementsRemoteCall, Remote!RemoteSpec, Remote!Final
=============================================================================
