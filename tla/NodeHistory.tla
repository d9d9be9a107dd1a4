---------------------------- MODULE NodeHistory -----------------------------
(***************************************************************************)
(* The metric history of the nodes: a ring of points per node, written by  *)
(* heartbeats, pruned by the maintenance loop and read by the Web UI.      *)
(*                                                                         *)
(* A heartbeat is authenticated, reads its body, reads the clock and then  *)
(* waits for the lock: several of one node can overtake each other, and    *)
(* the node can be deleted meanwhile.  The same holds for the maintenance  *)
(* loop, whose clock is that of its ticker.                                *)
(*                                                                         *)
(* A point stands for its time, in seconds.  Intervals are measured in     *)
(* finer units and times are cut off to seconds: two points that are at    *)
(* least Gap apart stay so.                                                *)
(***************************************************************************)
EXTENDS Integers, Sequences, SequencesExt

CONSTANTS
    Nodes,
    Handlers,   \* goroutines in agentHeartbeat
    NoNode,     \* an idle handler has none
    Capacity,   \* historyCapacity, 720
    Gap,        \* 5 s
    Window,     \* 3600 s
    MaxTime,    \* bound on the clock
    MaxRestarts \* bound on restarts of the Server

\* The ring is as long as the window, but for the point at its very beginning.
ASSUME HistoryConstants ==
    /\ NoNode \notin Nodes
    /\ Capacity \in Nat \ {0} /\ Gap \in Nat \ {0} /\ Window \in Nat
    /\ Window <= Capacity * Gap
    /\ MaxTime \in Nat /\ MaxRestarts \in Nat

VARIABLES
    now,
    status,     \* status[n]: "new", "registered" or "deleted"
    rt,         \* rt[n]: App.runtime[n]
    phase,      \* phase[h]: how far handler h is
    node,       \* node[h]: whose heartbeat it handles
    clock,      \* clock[h]: the time it has read
    ticked,     \* the time at which the maintenance ticker fired, or Never
    restarts,
    recorded    \* history: recorded[n], all points since rt[n] was made

handlerVars == <<phase, node, clock>>
vars == <<now, status, rt, handlerVars, ticked, restarts, recorded>>

Never == -1
Times == 0..MaxTime
Slots == 0..(Capacity - 1)

\* Ring and RuntimeNode.
NewRing == [points |-> [i \in Slots |-> 0], next |-> 0, count |-> 0]
NewRuntime == [present |-> TRUE, ring |-> NewRing, lastHistory |-> Never]
NoRuntime == [NewRuntime EXCEPT !.present = FALSE]

TypeOK ==
    /\ now \in Times
    /\ status \in [Nodes -> {"new", "registered", "deleted"}]
    /\ rt \in [Nodes -> [present : BOOLEAN,
                         ring : [points : [Slots -> Times], next : Slots, count : 0..Capacity],
                         lastHistory : Times \cup {Never}]]
    /\ \A n \in Nodes : status[n] = "registered" => rt[n].present
    /\ phase \in [Handlers -> {"idle", "authenticated", "timed"}]
    /\ node \in [Handlers -> Nodes \cup {NoNode}]
    /\ clock \in [Handlers -> Times]
    /\ ticked \in Times \cup {Never}
    /\ restarts \in 0..MaxRestarts
    /\ recorded \in [Nodes -> SUBSET Times]

Init ==
    /\ now = 0
    /\ status = [n \in Nodes |-> "new"]
    /\ rt = [n \in Nodes |-> NoRuntime]
    /\ phase = [h \in Handlers |-> "idle"]
    /\ node = [h \in Handlers |-> NoNode]
    /\ clock = [h \in Handlers |-> 0]
    /\ ticked = Never
    /\ restarts = 0
    /\ recorded = [n \in Nodes |-> {}]

-----------------------------------------------------------------------------
(* Ring *)

AddUnwrapped(r, t) == [points |-> [r.points EXCEPT ![r.next] = t],       \* mutant
                       next |-> r.next + 1,
                       count |-> IF r.count < Capacity THEN r.count + 1 ELSE r.count]
Add(r, t) == [points |-> [r.points EXCEPT ![r.next] = t],
              next |-> (r.next + 1) % Capacity,
              count |-> IF r.count < Capacity THEN r.count + 1 ELSE r.count]

\* all, oldest first.
StartUnwrapped(r) == IF r.next < r.count THEN 0 ELSE r.next - r.count    \* mutant
Start(r) == IF r.next < r.count THEN r.next - r.count + Capacity ELSE r.next - r.count
All(r) == [i \in 1..r.count |-> r.points[(Start(r) + i - 1) % Capacity]]

Since(r, cut) ==
    LET s == All(r)
        out[i \in 0..r.count] == IF i = 0 THEN <<>>
                                ELSE IF s[i] < cut THEN out[i - 1]
                                ELSE Append(out[i - 1], s[i])
    IN  out[r.count]

\* nodeHistory, asked for the longest period it knows.
ShownPoints(n) == Since(rt[n].ring, now - Window)

\* The ring is refilled with what is not older than cut.
EmptiedHalf(r) == [r EXCEPT !.next = 0]              \* mutant: a count not reset
Emptied(r) == [r EXCEPT !.next = 0, !.count = 0]
Kept(t, cut) == t >= cut
Prune(r, cut) ==
    LET old == All(r)
        refilled[i \in 0..r.count] == IF i = 0 THEN Emptied(r)
                                     ELSE IF Kept(old[i], cut) THEN Add(refilled[i - 1], old[i])
                                     ELSE refilled[i - 1]
    IN  refilled[r.count]

-----------------------------------------------------------------------------
(* Nodes *)

\* createNode, and agentRegister with a common token.
CreateNode(n) ==
    /\ status[n] = "new"
    /\ status' = [status EXCEPT ![n] = "registered"]
    /\ rt' = [rt EXCEPT ![n] = NewRuntime]
    /\ UNCHANGED <<now, handlerVars, ticked, restarts, recorded>>

DeleteNode(n) ==
    /\ status[n] = "registered"
    /\ status' = [status EXCEPT ![n] = "deleted"]
    /\ rt' = [rt EXCEPT ![n] = NoRuntime]
    /\ recorded' = [recorded EXCEPT ![n] = {}]
    /\ UNCHANGED <<now, handlerVars, ticked, restarts>>

-----------------------------------------------------------------------------
(* agentHeartbeat *)

Authenticate(h, n) ==
    /\ phase[h] = "idle"
    /\ status[n] = "registered"
    /\ phase' = [phase EXCEPT ![h] = "authenticated"]
    /\ node' = [node EXCEPT ![h] = n]
    /\ UNCHANGED <<now, status, rt, clock, ticked, restarts, recorded>>

\* The body has been read.
ReadClock(h) ==
    /\ phase[h] = "authenticated"
    /\ phase' = [phase EXCEPT ![h] = "timed"]
    /\ clock' = [clock EXCEPT ![h] = now]
    /\ UNCHANGED <<now, status, rt, node, ticked, restarts, recorded>>

\* A runtime that is not there is made again, although its node is gone.
Current(n) == IF rt[n].present THEN rt[n] ELSE NewRuntime

PointDueByClock(r, t) == r.lastHistory # t      \* mutant: another second will do
PointDue(r, t) == r.lastHistory = Never \/ t - r.lastHistory >= Gap

Record(h) ==
    /\ phase[h] = "timed"
    /\ LET n == node[h]
           t == clock[h]
           r == Current(n)
       IN  IF PointDue(r, t)
           THEN /\ rt' = [rt EXCEPT ![n] = [r EXCEPT !.ring = Add(@, t), !.lastHistory = t]]
                /\ recorded' = [recorded EXCEPT ![n] = @ \cup {t}]
           ELSE /\ rt' = [rt EXCEPT ![n] = r]
                /\ UNCHANGED recorded
    /\ phase' = [phase EXCEPT ![h] = "idle"]
    /\ node' = [node EXCEPT ![h] = NoNode]
    /\ clock' = [clock EXCEPT ![h] = 0]
    /\ UNCHANGED <<now, status, ticked, restarts>>

-----------------------------------------------------------------------------
(* maintenance, restart, time *)

TickerFires ==
    /\ ticked = Never
    /\ ticked' = now
    /\ UNCHANGED <<now, status, rt, handlerVars, restarts, recorded>>

PruneAll ==
    /\ ticked # Never
    /\ rt' = [n \in Nodes |-> IF rt[n].present
                              THEN [rt[n] EXCEPT !.ring = Prune(@, ticked - Window)]
                              ELSE rt[n]]
    /\ ticked' = Never
    /\ UNCHANGED <<now, status, handlerVars, restarts, recorded>>

\* load makes a runtime for every node of the state file.
Restart ==
    /\ restarts < MaxRestarts
    /\ restarts' = restarts + 1
    /\ rt' = [n \in Nodes |-> IF status[n] = "registered" THEN NewRuntime ELSE NoRuntime]
    /\ recorded' = [n \in Nodes |-> {}]
    /\ phase' = [h \in Handlers |-> "idle"]
    /\ node' = [h \in Handlers |-> NoNode]
    /\ clock' = [h \in Handlers |-> 0]
    /\ ticked' = Never
    /\ UNCHANGED <<now, status>>

Tick ==
    /\ now < MaxTime
    /\ now' = now + 1
    /\ UNCHANGED <<status, rt, handlerVars, ticked, restarts, recorded>>

Next ==
    \/ \E n \in Nodes : CreateNode(n) \/ DeleteNode(n)
    \/ \E h \in Handlers : ReadClock(h) \/ Record(h) \/ \E n \in Nodes : Authenticate(h, n)
    \/ TickerFires \/ PruneAll
    \/ Restart
    \/ Tick

Spec == Init /\ [][Next]_vars

-----------------------------------------------------------------------------
(* Properties *)

\* The chart of the last hour has no hole and no ghost: every point younger than
\* Window is in it, and nothing that was not recorded since the node's runtime
\* was made, or is older than Window, though the slots that Prune leaves behind
\* keep their points.  (The point that is exactly Window old may have been
\* overwritten: Window / Gap + 1 points do not fit.)
HourIsExact ==
    \A n \in Nodes :
        LET shown == Range(ShownPoints(n))
        IN  /\ {t \in recorded[n] : t > now - Window} \subseteq shown
            /\ shown \subseteq {t \in recorded[n] : t >= now - Window}

\* The ring with its wrapping indices implements the sequence of the latest
\* points, at least Gap apart and in order, although the clock is read before
\* the lock is taken.
History == INSTANCE RecentPoints WITH hist <- [n \in Nodes |-> All(rt[n].ring)]
ImplementsRecentPoints == History!Spec
=============================================================================
