----------------------------- MODULE AgentAuth ------------------------------
(***************************************************************************)
(* How the Server recognises a request of an Agent that reaches it twice   *)
(* (authAgentDetailed).                                                    *)
(*                                                                         *)
(* A signed request carries the Agent's clock and a fresh nonce.  The      *)
(* Server turns away a request whose clock is more than Window off, and    *)
(* one whose nonce it remembers; it remembers nonces for Retention seconds *)
(* in a table of bounded size.  Many requests are handled at once, and any *)
(* time may pass between the two checks of one (its body is read, locks    *)
(* are waited for).                                                        *)
(*                                                                         *)
(* A request stands for its key (node, nonce).  Whether its signature is   *)
(* valid is a matter of module Enrollment: here it is or is not.           *)
(***************************************************************************)
EXTENDS Integers, FiniteSets

CONSTANTS
    Requests,
    NoRequest,      \* an idle handler has none
    Handlers,       \* goroutines in authAgentDetailed
    Window,         \* tolerated clock difference, 60 s
    Retention,      \* age at which a nonce is dropped, 120 s
    TableCap,       \* size at which the table is trimmed, 4096
    Trim,           \* how many entries are trimmed, 2048
    Offsets,        \* differences between the Agents' clocks and the Server's
    MaxTime,        \* bound on the clock
    MaxRestarts     \* bound on Server restarts

ASSUME AuthConstants ==
    /\ NoRequest \notin Requests
    /\ Window \in Nat
    /\ Retention \in Nat
    /\ TableCap \in Nat \ {0}
    /\ Trim \in 1..TableCap
    /\ Offsets \subseteq Int
    /\ MaxTime \in Nat
    /\ MaxRestarts \in Nat

\* A request passes the clock check for 2 * Window seconds, from Window before
\* its timestamp to Window after it.  The code's 60 and 120 leave no margin.
ASSUME WindowFits == 2 * Window <= Retention

VARIABLES
    now,        \* the Server's clock, in seconds
    sent,       \* the requests Agents have made; each may arrive many times
    ts,         \* ts[r]: X-Timestamp
    phase,      \* phase[h]: how far handler h is
    req,        \* req[h]: the request it handles
    clock,      \* clock[h]: the second clock reading, used for the table
    nonces,     \* nonces[r]: App.nonces at r, Absent if there is no entry
    restarts,
    accepted,   \* history: accepted at least once
    repeated,   \* history: accepted more than once
    late,       \* history: accepted again, but when its window had passed
    forgotten   \* history: trimmed from the table, or lost in a restart

handlerVars == <<phase, req, clock>>
history == <<accepted, repeated, late, forgotten>>
vars == <<now, sent, ts, handlerVars, nonces, restarts, history>>

Phases == {"idle", "reading", "signed"}

Absent == -1

Remembered == {r \in Requests : nonces[r] # Absent}

TypeOK ==
    /\ now \in Nat
    /\ sent \subseteq Requests
    /\ ts \in [Requests -> Int]
    /\ phase \in [Handlers -> Phases]
    /\ req \in [Handlers -> Requests \cup {NoRequest}]
    /\ clock \in [Handlers -> 0..now]
    /\ nonces \in [Requests -> 0..now \cup {Absent}]
    /\ restarts \in Nat
    /\ accepted \subseteq Requests
    /\ repeated \subseteq Requests
    /\ late \subseteq Requests
    /\ forgotten \subseteq Requests

Init ==
    /\ now = 0
    /\ sent = {}
    /\ ts = [r \in Requests |-> 0]
    /\ phase = [h \in Handlers |-> "idle"]
    /\ req = [h \in Handlers |-> NoRequest]
    /\ clock = [h \in Handlers |-> 0]
    /\ nonces = [r \in Requests |-> Absent]
    /\ restarts = 0
    /\ accepted = {}
    /\ repeated = {}
    /\ late = {}
    /\ forgotten = {}

\* signRequest: an Agent makes a request, with its own clock.
Send(r) ==
    /\ r \notin sent
    /\ sent' = sent \cup {r}
    /\ \E d \in Offsets : ts' = [ts EXCEPT ![r] = now + d]
    /\ UNCHANGED <<now, handlerVars, nonces, restarts, history>>

\* The clock check: the request's time is at most Window off.
Fresh(r) == now - ts[r] \in -Window..Window

\* r arrives, for the first time or again, passes the clock check and belongs
\* to a registered node.  (Otherwise it is turned away and nothing changes.)
Arrive(h, r) ==
    /\ phase[h] = "idle"
    /\ r \in sent
    /\ Fresh(r)
    /\ phase' = [phase EXCEPT ![h] = "reading"]
    /\ req' = [req EXCEPT ![h] = r]
    /\ UNCHANGED <<now, sent, ts, clock, nonces, restarts, history>>

AgentClock(h) == clock' = [clock EXCEPT ![h] = ts[req[h]]]  \* mutant: whose clock
ReadClock(h) == clock' = [clock EXCEPT ![h] = now]

\* The body has been read and the signature is right; the clock is read again,
\* before the lock of the table is asked for.
SignatureOK(h) ==
    /\ phase[h] = "reading"
    /\ phase' = [phase EXCEPT ![h] = "signed"]
    /\ ReadClock(h)
    /\ UNCHANGED <<now, sent, ts, req, nonces, restarts, history>>

\* authAgentDetailed returns; its local variables are gone.
Return(h) ==
    /\ phase' = [phase EXCEPT ![h] = "idle"]
    /\ req' = [req EXCEPT ![h] = NoRequest]
    /\ clock' = [clock EXCEPT ![h] = 0]

\* Mutant: the nonce is recorded although the signature is wrong.
SignatureBadRecorded(h) ==
    /\ phase[h] = "reading"
    /\ Return(h)
    /\ nonces' = [nonces EXCEPT ![req[h]] = now]
    /\ UNCHANGED <<now, sent, ts, restarts, history>>

SignatureBad(h) ==
    /\ phase[h] = "reading"
    /\ Return(h)
    /\ UNCHANGED <<now, sent, ts, nonces, restarts, history>>

\* The entries that survive the expiry loop at clock reading t.
UnexpiredShort(t) == {r \in Remembered : t - nonces[r] < Retention}   \* mutant
Unexpired(t) == {r \in Remembered : t - nonces[r] <= Retention}

\* Mutant: trim only a table that is over its cap.
TrimmedLate(table) ==
    IF Cardinality(table) > TableCap
      THEN {S \in SUBSET table : Cardinality(S) = Trim}
      ELSE {{}}

\* The entries a full table may lose: any Trim of them, in map order.
Trimmed(table) ==
    IF Cardinality(table) >= TableCap
      THEN {S \in SUBSET table : Cardinality(S) = Trim}
      ELSE {{}}

Only(table) == [r \in Requests |-> IF r \in table THEN nonces[r] ELSE Absent]

\* Under the lock: expire, look up, make room, remember.
Commit(h) ==
    LET r == req[h]
        kept == Unexpired(clock[h])
    IN
    /\ phase[h] = "signed"
    /\ Return(h)
    /\ \/ /\ r \in kept
          /\ nonces' = Only(kept)
          /\ UNCHANGED history
       \/ /\ r \notin kept
          /\ \E S \in Trimmed(kept) :
               /\ nonces' = [Only(kept \ S) EXCEPT ![r] = clock[h]]
               /\ forgotten' = forgotten \cup S
          /\ accepted' = accepted \cup {r}
          /\ repeated' = repeated \cup ({r} \cap accepted)
          /\ late' = late \cup {q \in {r} \cap accepted : ~Fresh(q)}
    /\ UNCHANGED <<now, sent, ts, restarts>>

\* App.nonces is not saved; requests in progress fail.
Restart ==
    /\ restarts < MaxRestarts
    /\ restarts' = restarts + 1
    /\ nonces' = Only({})
    /\ forgotten' = forgotten \cup Remembered
    /\ phase' = [h \in Handlers |-> "idle"]
    /\ req' = [h \in Handlers |-> NoRequest]
    /\ clock' = [h \in Handlers |-> 0]
    /\ UNCHANGED <<now, sent, ts, accepted, repeated, late>>

\* Time passes, also for the handlers at work.
Tick ==
    /\ now < MaxTime
    /\ now' = now + 1
    /\ UNCHANGED <<sent, ts, handlerVars, nonces, restarts, history>>

HandlerStep(h) ==
    \/ \E r \in Requests : Arrive(h, r)
    \/ SignatureOK(h) \/ SignatureBad(h) \/ Commit(h)

Next ==
    \/ \E r \in Requests : Send(r)
    \/ \E h \in Handlers : HandlerStep(h)
    \/ Restart
    \/ Tick

Spec == Init /\ [][Next]_vars
-----------------------------------------------------------------------------
\* A request that reaches the Server several times, at once or one after the
\* other, is accepted at most once (REPLAY_DETECTED otherwise), unless its nonce
\* was trimmed from a full table or lost in a restart, or the handler that
\* accepts it again let its window pass first: it checked the clock in time, but
\* a slow body or a lock kept it until the timestamp was more than Window ago.
\* (Then the nonce may have expired meanwhile: nothing checks the clock again.)
AcceptedOnce == repeated \subseteq forgotten \cup late

\* The cache is bounded: App.nonces never exceeds its cap.
TableBounded == Cardinality(Remembered) <= TableCap

\* The table holds what it is for.  REPLAY_DETECTED is never wrong: only the
\* nonce of a request that was accepted is remembered, so a request that was
\* turned away for its signature does not spoil its own retry.  And expiry never
\* comes early: as long as an accepted request would pass the clock check if it
\* came again, its nonce is remembered.  (Longer than that it need not be, and a
\* handler that is past its clock check by then does not find it: AcceptedOnce.)
RemembersExactly ==
    /\ Remembered \subseteq accepted
    /\ \A r \in accepted \ forgotten : Fresh(r) => r \in Remembered
=============================================================================
