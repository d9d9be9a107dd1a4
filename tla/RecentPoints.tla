---------------------------- MODULE RecentPoints ----------------------------
(***************************************************************************)
(* What the metric history of the nodes promises: for each node the times  *)
(* of its latest points, oldest first, at least Gap apart, at most         *)
(* Capacity of them.  Points go when newer ones need their place, when     *)
(* they are too old, and all at once when the Server restarts or the node  *)
(* is deleted.                                                             *)
(***************************************************************************)
EXTENDS Integers, Sequences

CONSTANTS
    Nodes,
    Times,      \* what the clock can show
    Capacity,   \* 720
    Gap         \* seconds between two points, 5

VARIABLE hist

Init == hist = [n \in Nodes |-> <<>>]

Latest(s) == IF Len(s) <= Capacity THEN s ELSE Tail(s)

Recorded(n) ==
    \E t \in Times :
        /\ \A i \in DOMAIN hist[n] : t >= hist[n][i] + Gap
        /\ hist'[n] = Latest(Append(hist[n], t))

\* Only the oldest go, or none.
Expired(n) ==
    \E i \in 0..Len(hist[n]) : hist'[n] = SubSeq(hist[n], i + 1, Len(hist[n]))

Forgotten(n) == hist'[n] = <<>>

\* One step may concern several nodes.
Next == \A n \in Nodes : Recorded(n) \/ Expired(n) \/ Forgotten(n)

Spec == Init /\ [][Next]_hist
=============================================================================
