--------------------------- MODULE CommandChannel ---------------------------
(***************************************************************************)
(* The command channel between the Server and the Agent of one node.       *)
(*                                                                         *)
(* The Server cannot reach an Agent.  sendCommand leaves a command in the  *)
(* queue of the node's RuntimeNode and waits on a channel of its own; the  *)
(* Agent fetches commands by long polling (agentCommands), runs one at a   *)
(* time (commandLoop) and posts each result (agentResults), which is       *)
(* routed to the waiting channel by the command's random ID.  What needs   *)
(* root the Agent passes on to the Helper, which serves one request after  *)
(* the other and does not notice that the Agent has stopped waiting.       *)
(*                                                                         *)
(* A call and the command it sends share an identity, the ID.  Queues of   *)
(* different nodes have nothing in common, so there is one node.           *)
(***************************************************************************)
EXTENDS Integers, Sequences

CONSTANTS
    Calls,          \* invocations of sendCommand
    Polls,          \* goroutines that may serve GET /api/agent/commands
    NoCall,         \* the Agent holds no command
    ViaHelper,      \* the calls whose action the Helper performs
    Backlog,        \* the commands queued while the Agent was away, whose
                    \* callers have given up
    QueueCap,       \* capacity of RuntimeNode.Commands, 16 in the code
    CallTimeout,    \* the caller's patience, 8 s to 135 s in the code
    StaleAfter,     \* age after which the Agent refuses a command, 120 s
    Skew,           \* Agent clock minus Server clock
    MaxTime,        \* bound on the clock
    MaxTests,       \* bound on the polls that only test the Server
    MaxFaults       \* bound on restarts, losses and deletion

ASSUME ChannelConstants ==
    /\ NoCall \notin Calls
    /\ ViaHelper \subseteq Calls
    /\ QueueCap \in Nat \ {0}
    /\ Backlog \in Seq(Calls) /\ Len(Backlog) <= QueueCap
    /\ \A i, j \in 1..Len(Backlog) : Backlog[i] = Backlog[j] => i = j
    /\ CallTimeout \in Nat
    /\ StaleAfter \in Nat
    /\ Skew \in Int
    /\ MaxTime \in Nat
    /\ MaxTests \in Nat
    /\ MaxFaults \in Nat

VARIABLES
    \* the Server
    pc,         \* pc[c]: where the invocation c of sendCommand is
    issued,     \* issued[c]: AgentCommand.Timestamp
    queue,      \* RuntimeNode.Commands
    pending,    \* the keys of RuntimeNode.Pending
    box,        \* the calls whose channel of capacity 1 holds a result
    result,     \* result[c]: the agentResults handler for the result of c
    poll,       \* poll[p]: the agentCommands handler p and who is behind it
    alive,      \* the node exists: its credential is accepted
    \* the Agent
    apc,        \* where commandLoop is
    acmd,       \* the command it was given
    told,       \* told[c]: what the AgentResult of c says
    \* the Helper
    asked,      \* the connections to its socket that it has yet to serve
    \* the environment
    now,
    tests,
    faults,
    \* history
    effect,     \* effect[c]: what became of c at the node
    sent,       \* number of commands queued so far
    enq,        \* enq[c]: c was the enq[c]-th command to be queued, 0 if none
    strays      \* the commands that a poll took for nobody

callVars == <<pc, issued, pending, box>>
serverVars == <<pc, issued, queue, pending, box, result, poll, alive>>
nodeVars == <<apc, acmd, told, asked>>
bounds == <<now, tests, faults>>
history == <<effect, sent, enq, strays>>
vars == <<serverVars, nodeVars, bounds, history>>

Open == {"registered", "waiting"}                  \* sendCommand is running
Declined == {"offline", "busy"}                    \* it returned without sending
Undecided == {"timedOut", "broken"}                \* it ended without a result
Holding == {"reply", "running"}             \* the Agent has yet to deal with acmd

TypeOK ==
    /\ pc \in [Calls -> {"idle", "answered"} \cup Open \cup Declined \cup Undecided]
    /\ issued \in [Calls -> -CallTimeout..now]
    /\ queue \in Seq(Calls) /\ Len(queue) <= QueueCap
    /\ pending \subseteq Calls
    /\ box \subseteq Calls
    /\ result \in [Calls -> {"none", "arrived", "found", "done"}]
    /\ poll \in [Polls -> {"idle", "agent", "test", "cut"}]
    /\ alive \in BOOLEAN
    /\ apc \in {"idle", "polling", "asking", "posting", "posted"} \cup Holding
    /\ acmd \in Calls \cup {NoCall}
    /\ told \in [Calls -> {"none", "done", "refused", "failed"}]
    /\ asked \in Seq(ViaHelper)
    /\ now \in Nat
    /\ tests \in Nat
    /\ faults \in Nat
    /\ effect \in [Calls -> {"none", "done", "refused"}]
    /\ sent \in Nat
    /\ enq \in [Calls -> Nat]
    /\ strays \subseteq Calls

\* Where the command of c is in the backlog, 0 if it is not.
Place(c) ==
    IF \E i \in 1..Len(Backlog) : Backlog[i] = c
      THEN CHOOSE i \in 1..Len(Backlog) : Backlog[i] = c
      ELSE 0

Init ==
    /\ pc = [c \in Calls |-> IF Place(c) = 0 THEN "idle" ELSE "timedOut"]
    /\ issued = [c \in Calls |-> IF Place(c) = 0 THEN 0 ELSE -CallTimeout]
    /\ queue = Backlog
    /\ pending = {}
    /\ box = {}
    /\ result = [c \in Calls |-> "none"]
    /\ poll = [p \in Polls |-> "idle"]
    /\ alive = TRUE
    /\ apc = "idle"
    /\ acmd = NoCall
    /\ told = [c \in Calls |-> "none"]
    /\ asked = <<>>
    /\ now = 0
    /\ tests = 0
    /\ faults = 0
    /\ effect = [c \in Calls |-> "none"]
    /\ sent = Len(Backlog)
    /\ enq = [c \in Calls |-> Place(c)]
    /\ strays = {}

Fault ==
    /\ faults < MaxFaults
    /\ faults' = faults + 1

(***************************************************************************)
(* sendCommand, in the goroutine of the administrator's request.           *)
(***************************************************************************)

\* The node is unknown, or its last heartbeat is too old.
SendRefused(c) ==
    /\ pc[c] = "idle"
    /\ pc' = [pc EXCEPT ![c] = "offline"]
    /\ UNCHANGED <<issued, queue, pending, box, result, poll, alive,
                   nodeVars, bounds, history>>

Stamp(c) == issued' = [issued EXCEPT ![c] = now]

\* The node was online a moment ago; the runtime node is captured, so the
\* call goes on even if the node is deleted meanwhile.
SendRegister(c) ==
    /\ pc[c] = "idle"
    /\ alive
    /\ now + CallTimeout <= MaxTime
    /\ pc' = [pc EXCEPT ![c] = "registered"]
    /\ Stamp(c)
    /\ pending' = pending \cup {c}
    /\ UNCHANGED <<queue, box, result, poll, alive,
                   nodeVars, bounds, history>>

HasRoomForOneMore == Len(queue) <= QueueCap         \* mutant: off by one
HasRoom == Len(queue) < QueueCap

SendEnqueue(c) ==
    /\ pc[c] = "registered"
    /\ HasRoom
    /\ pc' = [pc EXCEPT ![c] = "waiting"]
    /\ queue' = Append(queue, c)
    /\ sent' = sent + 1
    /\ enq' = [enq EXCEPT ![c] = sent + 1]
    /\ UNCHANGED <<issued, pending, box, result, poll, alive,
                   nodeVars, bounds, effect, strays>>

\* The deferred function of sendCommand.
ForgetToUnregister(c) == UNCHANGED pending          \* mutant: no cleanup
Unregister(c) == pending' = pending \ {c}

\* Mutant: a full queue gives up its oldest command for the new one, and the
\* caller is told that the queue is full all the same.
SendBusyDisplacing(c) ==
    /\ pc[c] = "registered"
    /\ ~HasRoom
    /\ pc' = [pc EXCEPT ![c] = "busy"]
    /\ queue' = Append(Tail(queue), c)
    /\ Unregister(c)
    /\ UNCHANGED <<issued, box, result, poll, alive,
                   nodeVars, bounds, history>>

\* The select falls to its default branch.
SendBusy(c) ==
    /\ pc[c] = "registered"
    /\ ~HasRoom
    /\ pc' = [pc EXCEPT ![c] = "busy"]
    /\ Unregister(c)
    /\ UNCHANGED <<issued, queue, box, result, poll, alive,
                   nodeVars, bounds, history>>

SendReceive(c) ==
    /\ pc[c] = "waiting"
    /\ c \in box
    /\ pc' = [pc EXCEPT ![c] = "answered"]
    /\ box' = box \ {c}
    /\ Unregister(c)
    /\ UNCHANGED <<issued, queue, result, poll, alive,
                   nodeVars, bounds, history>>

TimeIsUpWhileAlive(c) == alive /\ now >= issued[c] + CallTimeout   \* mutant
TimeIsUp(c) == now >= issued[c] + CallTimeout

\* When a result is there as well, select picks either branch.  The command
\* is not withdrawn from the queue.
SendTimeout(c) ==
    /\ pc[c] = "waiting"
    /\ TimeIsUp(c)
    /\ pc' = [pc EXCEPT ![c] = "timedOut"]
    /\ Unregister(c)
    /\ UNCHANGED <<issued, queue, box, result, poll, alive,
                   nodeVars, bounds, history>>

(***************************************************************************)
(* agentCommands, one goroutine per long poll.  A handler whose connection *)
(* is gone ("cut") has not noticed yet and still competes for the queue.   *)
(***************************************************************************)

PollStart(p) ==
    /\ apc = "idle"
    /\ alive
    /\ poll[p] = "idle"
    /\ poll' = [poll EXCEPT ![p] = "agent"]
    /\ apc' = "polling"
    /\ UNCHANGED <<callVars, queue, result, alive, acmd, told, asked, bounds, history>>

\* testAuthenticatedServer: a poll by the heartbeat loop, which was given a
\* new address of the Server, or by the CLI.  It looks at the status only, and
\* commandLoop may be anywhere meanwhile.
TestPoll(p) ==
    /\ alive
    /\ poll[p] = "idle"
    /\ tests < MaxTests
    /\ tests' = tests + 1
    /\ poll' = [poll EXCEPT ![p] = "test"]
    /\ UNCHANGED <<callVars, queue, result, alive, nodeVars, now, faults, history>>

Take(p, c) ==
    IF poll[p] = "agent"
      THEN apc' = "reply" /\ acmd' = c /\ UNCHANGED strays
      ELSE strays' = strays \cup {c} /\ UNCHANGED <<apc, acmd>>

\* Mutant: a command whose caller is gone is taken off the queue and dropped.
DequeueWanted(p) ==
    /\ poll[p] # "idle"
    /\ queue # <<>>
    /\ queue' = Tail(queue)
    /\ IF Head(queue) \notin pending
         THEN UNCHANGED <<poll, apc, acmd, strays>>
         ELSE Take(p, Head(queue)) /\ poll' = [poll EXCEPT ![p] = "idle"]
    /\ UNCHANGED <<callVars, result, alive, told, asked, bounds, effect, sent, enq>>

\* Mutant: the newest command is served first.
DequeueNewest(p) ==
    /\ poll[p] # "idle"
    /\ queue # <<>>
    /\ queue' = SubSeq(queue, 1, Len(queue) - 1)
    /\ poll' = [poll EXCEPT ![p] = "idle"]
    /\ Take(p, queue[Len(queue)])
    /\ UNCHANGED <<callVars, result, alive, told, asked, bounds, effect, sent, enq>>

\* The command leaves the queue before it is known to reach anybody.
Dequeue(p) ==
    /\ poll[p] # "idle"
    /\ queue # <<>>
    /\ queue' = Tail(queue)
    /\ poll' = [poll EXCEPT ![p] = "idle"]
    /\ Take(p, Head(queue))
    /\ UNCHANGED <<callVars, result, alive, told, asked, bounds, effect, sent, enq>>

\* 204 after the wait, or the context of a dead connection is done.
PollEnd(p) ==
    /\ poll[p] # "idle"
    /\ poll' = [poll EXCEPT ![p] = "idle"]
    /\ apc' = IF poll[p] = "agent" THEN "idle" ELSE apc
    /\ UNCHANGED <<callVars, queue, result, alive, acmd, told, asked, bounds, history>>

(***************************************************************************)
(* agentResults: the channel is looked up under pendingMu and written to   *)
(* after the lock is released.                                             *)
(***************************************************************************)

ResultLookup(c) ==
    /\ result[c] = "arrived"
    /\ result' = [result EXCEPT ![c] = IF alive /\ c \in pending
                                         THEN "found" ELSE "done"]
    /\ UNCHANGED <<callVars, queue, poll, alive, nodeVars, bounds, history>>

ToEveryCaller(c) == box' = box \cup pending         \* mutant: no routing by ID
ToCaller(c) == box' = box \cup {c}

ResultSend(c) ==
    /\ result[c] = "found"
    /\ ToCaller(c)
    /\ result' = [result EXCEPT ![c] = "done"]
    /\ UNCHANGED <<pc, issued, pending, queue, poll, alive,
                   nodeVars, bounds, history>>

(***************************************************************************)
(* commandLoop and executeCommand.  The age of a command is looked at      *)
(* once, on its arrival; between that and the effect the Agent may die,    *)
(* and the Helper may be busy with an earlier request.                     *)
(***************************************************************************)

Stale(c) == now + Skew - issued[c] > StaleAfter

Concluded(c, verdict) ==
    /\ apc' = "posting"
    /\ told' = [told EXCEPT ![c] = verdict]

RefuseStale ==
    /\ apc = "reply"
    /\ Stale(acmd)
    /\ effect' = [effect EXCEPT ![acmd] = "refused"]
    /\ Concluded(acmd, "refused")
    /\ UNCHANGED <<serverVars, acmd, asked, bounds, sent, enq, strays>>

Accept ==
    /\ apc = "reply"
    /\ ~Stale(acmd)
    /\ apc' = "running"
    /\ UNCHANGED <<serverVars, acmd, told, asked, bounds, history>>

\* The actions the Agent performs itself: the interval, and all that only
\* looks at the machine.
RunHere ==
    /\ apc = "running"
    /\ acmd \notin ViaHelper
    /\ effect' = [effect EXCEPT ![acmd] = "done"]
    /\ Concluded(acmd, "done")
    /\ UNCHANGED <<serverVars, acmd, asked, bounds, sent, enq, strays>>

\* helperCall writes its request into a connection of the Helper's socket.
AskHelper ==
    /\ apc = "running"
    /\ acmd \in ViaHelper
    /\ apc' = "asking"
    /\ asked' = Append(asked, acmd)
    /\ UNCHANGED <<serverVars, acmd, told, bounds, history>>

HelperAnswers ==
    /\ apc = "asking"
    /\ effect[acmd] = "done"
    /\ Concluded(acmd, "done")
    /\ UNCHANGED <<serverVars, acmd, asked, bounds, history>>

\* The deadline of 10 to 120 s has passed, or the connection is broken.  The
\* request is not withdrawn; the result says that the command has failed.
StopAsking ==
    /\ apc = "asking"
    /\ Concluded(acmd, "failed")
    /\ UNCHANGED <<serverVars, acmd, asked, bounds, history>>

\* The handler authenticates the Agent before it reads the result; a deleted
\* node is turned away, and nobody sends the result again.
PostResult ==
    /\ apc = "posting"
    /\ apc' = "posted"
    /\ result' = [result EXCEPT ![acmd] = IF alive THEN "arrived" ELSE @]
    /\ UNCHANGED <<callVars, queue, poll, alive, acmd, told, asked, bounds, history>>

\* The handler has returned, or turned the Agent away.
PostReturns ==
    /\ apc = "posted"
    /\ result[acmd] \notin {"arrived", "found"}
    /\ apc' = "idle"
    /\ acmd' = NoCall
    /\ UNCHANGED <<serverVars, told, asked, bounds, history>>

(***************************************************************************)
(* The Helper: one connection at a time, in the order of their arrival,    *)
(* whether or not somebody still waits at the other end.                   *)
(***************************************************************************)

HelperServes ==
    /\ asked # <<>>
    /\ asked' = Tail(asked)
    /\ effect' = [effect EXCEPT ![Head(asked)] = "done"]
    /\ UNCHANGED <<serverVars, apc, acmd, told, bounds, sent, enq, strays>>

(***************************************************************************)
(* What happens to connections, processes and the node.                    *)
(***************************************************************************)

CutPolls == [p \in Polls |-> IF poll[p] = "agent" THEN "cut" ELSE poll[p]]

\* Mutant: a command of which no result was received is queued again.
LoseConnectionRequeue ==
    /\ apc \in {"polling", "reply", "posting", "posted"}
    /\ Fault
    /\ apc' = "idle"
    /\ acmd' = NoCall
    /\ poll' = CutPolls
    /\ queue' = IF acmd # NoCall /\ HasRoom THEN Append(queue, acmd) ELSE queue
    /\ UNCHANGED <<callVars, result, alive, told, asked, now, tests, history>>

\* The Agent's request fails or exceeds its 35 s: commandLoop starts again,
\* and what the Server wrote, if anything, is lost.
LoseConnection ==
    /\ apc \in {"polling", "reply", "posting", "posted"}
    /\ Fault
    /\ apc' = "idle"
    /\ acmd' = NoCall
    /\ poll' = CutPolls
    /\ UNCHANGED <<callVars, queue, result, alive, told, asked, now, tests, history>>

\* The Agent process dies or exits (also after agent_restart); the service
\* manager starts it again.
AgentCrash ==
    /\ apc # "idle"
    /\ Fault
    /\ apc' = "idle"
    /\ acmd' = NoCall
    /\ poll' = CutPolls
    /\ UNCHANGED <<callVars, queue, result, alive, told, asked, now, tests, history>>

\* Queue, pending table and handlers live in memory only.
ServerRestart ==
    /\ Fault
    /\ pc' = [c \in Calls |-> IF pc[c] \in Open THEN "broken" ELSE pc[c]]
    /\ queue' = <<>>
    /\ pending' = {}
    /\ box' = {}
    /\ result' = [c \in Calls |-> IF result[c] = "none" THEN "none" ELSE "done"]
    /\ poll' = [p \in Polls |-> "idle"]
    /\ IF apc \in {"polling", "reply"}
         THEN apc' = "idle" /\ acmd' = NoCall
         ELSE UNCHANGED <<apc, acmd>>
    /\ UNCHANGED <<issued, alive, told, asked, now, tests, history>>

DeleteNode ==
    /\ alive
    /\ Fault
    /\ alive' = FALSE
    /\ UNCHANGED <<callVars, queue, result, poll, nodeVars, now, tests, history>>

\* The Helper dies over a request, or is stopped, and its socket starts it again
\* for the next one.  With StopAsking: the connection was refused.
HelperCrash ==
    /\ asked # <<>>
    /\ Fault
    /\ asked' = Tail(asked)
    /\ UNCHANGED <<serverVars, apc, acmd, told, now, tests, history>>

Tick ==
    /\ now < MaxTime
    /\ now' = now + 1
    /\ UNCHANGED <<serverVars, nodeVars, tests, faults, history>>

CallStep(c) ==
    \/ SendRefused(c) \/ SendRegister(c)
    \/ SendEnqueue(c) \/ SendBusy(c)
    \/ SendReceive(c) \/ SendTimeout(c)
    \/ ResultLookup(c) \/ ResultSend(c)

PollStep(p) == PollStart(p) \/ TestPoll(p) \/ Dequeue(p) \/ PollEnd(p)

AgentStep ==
    \/ RefuseStale \/ Accept
    \/ RunHere \/ AskHelper \/ HelperAnswers \/ StopAsking
    \/ PostResult \/ PostReturns

FaultStep ==
    LoseConnection \/ AgentCrash \/ ServerRestart \/ DeleteNode \/ HelperCrash

Next ==
    \/ \E c \in Calls : CallStep(c)
    \/ \E p \in Polls : PollStep(p)
    \/ AgentStep
    \/ HelperServes
    \/ FaultStep
    \/ Tick

Spec == Init /\ [][Next]_vars

\* Goroutines and the Agent's loop keep running.  A poll whose select starts
\* with a command in the queue takes it, since the timer of 25 s is not due
\* yet: it can lose to the timer only in the instant both become ready, and
\* not for ever, hence the strong fairness of Dequeue.
Fairness ==
    /\ WF_vars(Tick)
    /\ WF_vars(AgentStep)
    /\ WF_vars(HelperServes)
    /\ \A c \in Calls : /\ WF_vars(SendEnqueue(c) \/ SendBusy(c))
                        /\ WF_vars(SendReceive(c) \/ SendTimeout(c))
                        /\ WF_vars(ResultLookup(c) \/ ResultSend(c))
    /\ WF_vars(\E p \in Polls : PollStart(p))
    /\ \A p \in Polls : SF_vars(Dequeue(p)) /\ WF_vars(PollEnd(p))

FairSpec == Spec /\ Fairness
-----------------------------------------------------------------------------
InQueue(c) == \E i \in 1..Len(queue) : queue[i] = c
InHand(c) == apc \in Holding /\ acmd = c
AtHelper(c) == \E i \in 1..Len(asked) : asked[i] = c
OnTheWay(c) == InQueue(c) \/ InHand(c) \/ AtHelper(c)

\* A command that was queued is in one place at a time: in the queue, once; with
\* the Agent; at the Helper, once; or dealt with.  It is in none of them only when
\* something went wrong (a connection broke, a process ended) or when a poll by
\* which the Agent tests the Server took it: no order of polls, results and
\* timeouts loses or doubles one.
OneCopy ==
    /\ \A i, j \in 1..Len(queue) : queue[i] = queue[j] => i = j
    /\ \A i, j \in 1..Len(asked) : asked[i] = asked[j] => i = j
    /\ \A c \in Calls : /\ InQueue(c) => ~InHand(c) /\ ~AtHelper(c)
                        /\ InHand(c) => ~AtHelper(c)
                        /\ OnTheWay(c) => effect[c] = "none"
    /\ faults = 0 => \A c \in Calls :
          enq[c] > 0 => OnTheWay(c) \/ effect[c] # "none" \/ c \in strays
    /\ faults = 0 /\ tests = 0 => strays = {}

\* Whatever way sendCommand ends, its entry in RuntimeNode.Pending ends with
\* it: the table holds exactly the calls still running, so it does not grow
\* over the life of the Server.
PendingIsOpenCalls == pending = {c \in Calls : pc[c] \in Open}

\* A call that sendCommand declined (node offline, queue full) is never run by
\* the Agent, not even later: its command is nowhere on the way.
DeclinedNeverRuns ==
    \A c \in Calls : pc[c] \in Declined =>
        effect[c] = "none" /\ acmd # c /\ ~OnTheWay(c)

\* Commands take effect in the order in which the Server queued them, and each
\* at most once, across orphaned polls, lost answers, crashes and restarts.  One
\* thing can come late: a request to the Helper that the Agent no longer waits
\* for, which what the Agent itself does about later commands overtakes, but no
\* later request to the Helper.
RunsInQueueOrder ==
    [][\A c \in Calls : effect[c] # effect'[c] =>
         /\ effect[c] = "none"
         /\ \A d \in Calls : effect[d] # "none" =>
              \/ enq[d] < enq[c]
              \/ /\ c \in ViaHelper /\ acmd # c
                 /\ d \notin ViaHelper \/ effect[d] = "refused"]_vars

\* Every invocation of sendCommand returns: it never waits for a dead Agent,
\* a deleted node or a lost command for ever.
CallsEnd == <>[](\A c \in Calls : pc[c] \notin Open)

\* Unless something goes wrong, or a poll that tests the Server takes it, every
\* command that was queued is dealt with, run or refused as stale, whether or not
\* its caller still waits, or the Agent for the Helper.
QueuedIsHandled ==
    <>[](\A c \in Calls : enq[c] > 0 =>
            effect[c] # "none" \/ c \in strays \/ faults > 0)
-----------------------------------------------------------------------------
\* What the caller of c has learnt, in the terms of RemoteCall.  That the Helper
\* did not answer in time says nothing of what it did or will do.
ReplyOf(c) ==
    CASE pc[c] = "idle" -> "unasked"
      [] pc[c] \in Open -> "open"
      [] pc[c] \in Declined -> "notSent"
      [] pc[c] \in Undecided -> "unknown"
      [] pc[c] = "answered" -> IF told[c] = "failed" THEN "unknown" ELSE told[c]

Remote == INSTANCE RemoteCall WITH reply <- [c \in Calls |-> ReplyOf(c)]

\* The channel implements remote calls with at-most-once effects, whose
\* answers report the effect of the call they answer, or that it is not known.
ImplementsRemoteCall == Remote!RemoteSpec
=============================================================================
