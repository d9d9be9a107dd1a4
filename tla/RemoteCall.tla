----------------------------- MODULE RemoteCall -----------------------------
(***************************************************************************)
(* What an administrator who asks the Server to run a command on a node    *)
(* may rely on, whatever happens to queues, connections and processes.     *)
(*                                                                         *)
(* A call that was refused before it was sent never takes effect.  A call  *)
(* that was sent takes effect at most once, and an answer reports the      *)
(* effect of that very call.  A call that ends without an answer is        *)
(* undecided: it may have taken effect, and may still do so.               *)
(***************************************************************************)
CONSTANT Calls

VARIABLES
    reply,      \* reply[c]: what the caller of c has been told
    effect      \* effect[c]: what the node did about c

rvars == <<reply, effect>>

Effects == {"none", "done", "refused"}
Replies == {"unasked", "open", "notSent", "done", "refused", "unknown"}

RemoteTypeOK ==
    /\ reply \in [Calls -> Replies]
    /\ effect \in [Calls -> Effects]

RemoteInit ==
    /\ reply \in [Calls -> {"unasked", "unknown"}]
    /\ effect = [c \in Calls |-> "none"]

Ask(c) ==
    /\ reply[c] = "unasked"
    /\ reply' = [reply EXCEPT ![c] = "open"]
    /\ UNCHANGED effect

\* The refusal is final: it requires, and freezes, the absence of an effect.
Decline(c) ==
    /\ reply[c] \in {"unasked", "open"}
    /\ effect[c] = "none"
    /\ reply' = [reply EXCEPT ![c] = "notSent"]
    /\ UNCHANGED effect

Perform(c, e) ==
    /\ reply[c] \in {"open", "unknown"}
    /\ effect[c] = "none"
    /\ effect' = [effect EXCEPT ![c] = e]
    /\ UNCHANGED reply

Answer(c) ==
    /\ reply[c] = "open"
    /\ effect[c] # "none"
    /\ reply' = [reply EXCEPT ![c] = effect[c]]
    /\ UNCHANGED effect

\* Several calls may be given up at once: the Server that held them restarts.
GiveUp(S) ==
    /\ S # {}
    /\ \A c \in S : reply[c] = "open"
    /\ reply' = [c \in Calls |-> IF c \in S THEN "unknown" ELSE reply[c]]
    /\ UNCHANGED effect

RemoteNext ==
    \/ \E c \in Calls : Ask(c) \/ Decline(c) \/ Answer(c)
    \/ \E c \in Calls, e \in {"done", "refused"} : Perform(c, e)
    \/ \E S \in SUBSET Calls : GiveUp(S)

RemoteSpec == RemoteInit /\ [][RemoteNext]_rvars
-----------------------------------------------------------------------------
\* What callers get out of it.  An answer is the effect of the call, and a call
\* that was never asked for or was refused has none.
Honest ==
    \A c \in Calls :
        /\ reply[c] \in {"done", "refused"} => effect[c] = reply[c]
        /\ reply[c] \in {"unasked", "notSent"} => effect[c] = "none"

\* A call takes effect once, and nobody is told something else later.
Stands ==
    \A c \in Calls :
        /\ effect[c] # "none" => effect'[c] = effect[c]
        /\ reply[c] \notin {"unasked", "open"} => reply'[c] = reply[c]

Final == [][Stands]_rvars
=============================================================================
