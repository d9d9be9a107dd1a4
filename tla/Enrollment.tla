----------------------------- MODULE Enrollment -----------------------------
(***************************************************************************)
(* How machines get, keep and replace the identity (node and secret) under *)
(* which they talk to the Server.                                          *)
(*                                                                         *)
(* An administrator hands out tokens: one-time tokens for one node, or one *)
(* common token that makes a new node of every machine that uses it.  A    *)
(* machine registers with a token (agentRegister) until it gets an answer. *)
(* The Server changes its state in memory and then saves all of it; the    *)
(* save may fail, and a crash brings back what was saved last.  A receipt  *)
(* answers the retry of a registration whose answer was lost.              *)
(***************************************************************************)
EXTENDS Integers, FiniteSets

CONSTANTS
    Machines,
    EnrollmentIds,
    EnrollmentID,       \* enrollmentID(cfg) of each machine
    NodeIds,            \* random, handed out once
    OneTimeTokens,      \* random, handed out once
    CommonTokens,
    NoNode, NoToken,
    TokenTTL,           \* life of a one-time token, 30 min
    CommonTTLs,         \* lives of a common token an administrator chooses, 0: for ever
    ReceiptTTL,         \* life of a receipt, 10 min
    GraceTTL,           \* life of a replaced secret, 5 min
    MaxTime,            \* bound on the clock
    MaxSecrets,         \* bound on the identities made
    MaxSaveFailures,    \* bound on failed saves
    MaxSecretsAtFailure \* bound on the identities made before a save fails

ASSUME EnrollmentConstants ==
    /\ EnrollmentID \in [Machines -> EnrollmentIds]
    /\ NoNode \notin NodeIds
    /\ NoToken \notin OneTimeTokens \cup CommonTokens
    /\ OneTimeTokens \cap CommonTokens = {}
    /\ CommonTTLs \subseteq Nat
    /\ {TokenTTL, ReceiptTTL, GraceTTL} \subseteq Nat \ {0}
    /\ {MaxTime, MaxSecrets, MaxSaveFailures, MaxSecretsAtFailure} \subseteq Nat

VARIABLES
    mem,        \* App.state: what the Server works with
    disk,       \* the data file: what it comes back with
    lastSecret, \* secrets are numbered in the order they are made
    spent,      \* the node IDs and tokens made so far
    shown,      \* the tokens an administrator has got to see
    asked,      \* registrations under way: <<m, t>> may arrive any number of times
    config,     \* config[m]: the identity m has saved, and the token it tries
    hand,       \* hand[m]: the identity m was answered and has not saved
    now,
    saveFailures,
    acked,      \* history: the last identity answered with 200 to <<m, t>>
    deleted,    \* history: nodes an administrator deleted
    filed,      \* history: lastSecret when the file was written last
    undone      \* history: secrets made after that and lost in a crash

serverVars == <<mem, disk, lastSecret, spent>>
agentVars == <<asked, config, hand>>
files == <<filed, undone>>
history == <<acked, deleted>>
vars == <<serverVars, shown, agentVars, now, saveFailures, history, files>>

-----------------------------------------------------------------------------
(* The Server's state.  Secret 0 stands for "none".                        *)

Tokens == OneTimeTokens \cup CommonTokens
Secrets == 0..lastSecret
NoIdentity == [node |-> NoNode, secret |-> 0]
Identities == [node : NodeIds \cup {NoNode}, secret : Secrets]

\* PersistNode; a node that was registered has a secret.
Unknown == [known |-> FALSE, secret |-> 0, previous |-> 0, previousUntil |-> 0]
Created == [Unknown EXCEPT !.known = TRUE]

\* Enrollment; until = 0 means for ever.
NoEnrollment == [kind |-> "none", node |-> NoNode, until |-> 0]
OneTime(n) == [kind |-> "oneTime", node |-> n, until |-> now + TokenTTL]
Reusable(ttl) == [kind |-> "reusable", node |-> NoNode,
                  until |-> IF ttl = 0 THEN 0 ELSE now + ttl]

\* EnrollmentReceipt, under the key token|enrollment ID.
NoReceipt == [node |-> NoNode, secret |-> 0, until |-> 0]

Nodes == [known : BOOLEAN, secret : Secrets, previous : Secrets, previousUntil : Nat]
Enrollments == [kind : {"none", "oneTime", "reusable"},
                node : NodeIds \cup {NoNode}, until : Nat]
Receipts == [node : NodeIds \cup {NoNode}, secret : Secrets, until : Nat]
States == [nodes : [NodeIds -> Nodes],
           tokens : [Tokens -> Enrollments],
           receipts : [Tokens \X EnrollmentIds -> Receipts]]

TypeOK ==
    /\ mem \in States /\ disk \in States
    /\ lastSecret \in Nat
    /\ spent \subseteq NodeIds \cup Tokens
    /\ shown \subseteq Tokens
    /\ asked \subseteq Machines \X Tokens
    /\ config \in [Machines -> [id : Identities, token : Tokens \cup {NoToken}]]
    /\ hand \in [Machines -> Identities]
    /\ now \in 0..MaxTime
    /\ saveFailures \in 0..MaxSaveFailures
    /\ acked \in [Machines \X Tokens -> Receipts]
    /\ deleted \subseteq NodeIds
    /\ filed \in 0..lastSecret
    /\ undone \subseteq 1..lastSecret

Init ==
    /\ mem = [nodes |-> [n \in NodeIds |-> Unknown],
              tokens |-> [t \in Tokens |-> NoEnrollment],
              receipts |-> [k \in Tokens \X EnrollmentIds |-> NoReceipt]]
    /\ disk = mem
    /\ lastSecret = 0
    /\ spent = {}
    /\ shown = {}
    /\ asked = {}
    /\ config = [m \in Machines |-> [id |-> NoIdentity, token |-> NoToken]]
    /\ hand = [m \in Machines |-> NoIdentity]
    /\ now = 0
    /\ saveFailures = 0
    /\ acked = [k \in Machines \X Tokens |-> NoReceipt]
    /\ deleted = {}
    /\ filed = 0
    /\ undone = {}

\* Mutant: the save is left to the next audited action.
SaveLater(saved) == UNCHANGED <<disk, saveFailures, files>>

\* saveLocked: the file is replaced as a whole or stays as it was.
Save(saved) ==
    /\ IF saved
         THEN disk' = mem' /\ filed' = lastSecret' /\ UNCHANGED saveFailures
         ELSE /\ saveFailures < MaxSaveFailures /\ lastSecret <= MaxSecretsAtFailure
              /\ saveFailures' = saveFailures + 1
              /\ UNCHANGED <<disk, filed>>
    /\ UNCHANGED undone

\* authAgentDetailed: the credentials the Server takes.
Valid(id) ==
    LET n == mem.nodes[id.node] IN
    /\ id.node \in NodeIds
    /\ n.known
    /\ id.secret > 0
    /\ \/ id.secret = n.secret
       \/ id.secret = n.previous /\ now <= n.previousUntil

(***************************************************************************)
(* The administrator.  A token is shown only when the save succeeded.      *)
(***************************************************************************)

Show(t, saved) == shown' = IF saved THEN shown \cup {t} ELSE shown

TokensFor(n) == {t \in Tokens : mem.tokens[t].node = n}
ReusableTokens == {t \in Tokens : mem.tokens[t].kind = "reusable"}

\* The tokens left when those of gone are deleted.
Without(tokens, gone) ==
    [t \in Tokens |-> IF t \in gone THEN NoEnrollment ELSE tokens[t]]

createNode(n, t, saved) ==
    /\ {n, t} \cap spent = {}
    /\ spent' = spent \cup {n, t}
    /\ mem' = [mem EXCEPT !.nodes[n] = Created, !.tokens[t] = OneTime(n)]
    /\ UNCHANGED <<lastSecret, agentVars, now, history>>
    /\ Save(saved)
    /\ Show(t, saved)

\* Mutant: the working credential is revoked with the new token's creation.
reenrollNodeRevoking(n, t, saved) ==
    /\ mem.nodes[n].known
    /\ t \notin spent
    /\ spent' = spent \cup {t}
    /\ mem' = [mem EXCEPT !.nodes[n] = Created,
                          !.tokens = [Without(@, TokensFor(n)) EXCEPT ![t] = OneTime(n)]]
    /\ UNCHANGED <<lastSecret, agentVars, now, history>>
    /\ Save(saved)
    /\ Show(t, saved)

reenrollNode(n, t, saved) ==
    /\ mem.nodes[n].known
    /\ t \notin spent
    /\ spent' = spent \cup {t}
    /\ mem' = [mem EXCEPT !.tokens = [Without(@, TokensFor(n)) EXCEPT ![t] = OneTime(n)]]
    /\ UNCHANGED <<lastSecret, agentVars, now, history>>
    /\ Save(saved)
    /\ Show(t, saved)

deleteNode(n, saved) ==
    /\ mem.nodes[n].known
    /\ mem' = [mem EXCEPT !.nodes[n] = Unknown, !.tokens = Without(@, TokensFor(n))]
    /\ deleted' = deleted \cup {n}
    /\ UNCHANGED <<lastSecret, spent, shown, agentVars, now, acked>>
    /\ Save(saved)

setCommonEnrollment(t, ttl, saved) ==
    /\ t \notin spent
    /\ spent' = spent \cup {t}
    /\ mem' = [mem EXCEPT !.tokens =
                 [Without(@, ReusableTokens) EXCEPT ![t] = Reusable(ttl)]]
    /\ UNCHANGED <<lastSecret, agentVars, now, history>>
    /\ Save(saved)
    /\ Show(t, saved)

revokeCommonEnrollment(saved) ==
    /\ ReusableTokens # {}
    /\ mem' = [mem EXCEPT !.tokens = Without(@, ReusableTokens)]
    /\ UNCHANGED <<lastSecret, spent, shown, agentVars, now, history>>
    /\ Save(saved)

(***************************************************************************)
(* agentRegister, for a registration of machine m with token t.  The       *)
(* answer reaches m, if m still waits for it, or is lost.                  *)
(***************************************************************************)

KeyOfToken(m, t) == <<t, CHOOSE e \in EnrollmentIds : TRUE>>   \* mutant
Key(m, t) == <<t, EnrollmentID[m]>>

Answer(m, t, node, secret, until) ==
    /\ acked' = [acked EXCEPT ![<<m, t>>] =
                   [node |-> node, secret |-> secret, until |-> until]]
    /\ \/ UNCHANGED hand
       \/ /\ config[m].token = t
          /\ hand' = [hand EXCEPT ![m] = [node |-> node, secret |-> secret]]

HasNoReceipt(m, t) == FALSE                         \* mutant: no idempotency

\* The retry of a registration that succeeded.
HasReceipt(m, t) ==
    LET rec == mem.receipts[Key(m, t)] IN
    /\ rec.node # NoNode
    /\ rec.until > now
    /\ mem.nodes[rec.node].known

\* Mutant: the retry is told the node's present secret.
RegisterAgainCurrent(m, t) ==
    LET rec == mem.receipts[Key(m, t)] IN
    /\ <<m, t>> \in asked
    /\ HasReceipt(m, t)
    /\ Answer(m, t, rec.node, mem.nodes[rec.node].secret, rec.until)
    /\ UNCHANGED <<serverVars, shown, asked, config, now, saveFailures, deleted, files>>

RegisterAgain(m, t) ==
    LET rec == mem.receipts[Key(m, t)] IN
    /\ <<m, t>> \in asked
    /\ HasReceipt(m, t)
    /\ Answer(m, t, rec.node, rec.secret, rec.until)
    /\ UNCHANGED <<serverVars, shown, asked, config, now, saveFailures, deleted, files>>

Usable(e) == e.kind # "none" /\ (e.until > 0 => now <= e.until)

\* The secret of a node is replaced; the old one stays good for GraceTTL.
Rotate(n, secret) ==
    [n EXCEPT !.known = TRUE,
              !.secret = secret,
              !.previous = IF n.secret > 0 THEN n.secret ELSE @,
              !.previousUntil = IF n.secret > 0 THEN now + GraceTTL ELSE @]

ReusedSecret == UNCHANGED lastSecret                \* mutant: not random
FreshSecret == lastSecret' = lastSecret + 1

\* A new identity for m on node n; enrollment is what becomes of the token.
Enroll(m, t, n, enrollment, saved) ==
    LET secret == lastSecret + 1
        until == now + ReceiptTTL
        receipt == [node |-> n, secret |-> secret, until |-> until]
    IN
    /\ lastSecret < MaxSecrets
    /\ FreshSecret
    /\ mem' = [mem EXCEPT !.nodes[n] = Rotate(@, secret),
                          !.tokens[t] = enrollment,
                          !.receipts[Key(m, t)] = receipt]
    /\ Save(saved)
    /\ IF saved THEN Answer(m, t, n, secret, until)
                ELSE UNCHANGED <<acked, hand>>
    /\ UNCHANGED <<shown, asked, config, now, deleted>>

\* Mutant: a one-time token is not used up.
RegisterOneTimeKeeping(m, t, saved) ==
    LET e == mem.tokens[t] IN
    /\ <<m, t>> \in asked
    /\ ~HasReceipt(m, t)
    /\ e.kind = "oneTime" /\ Usable(e)
    /\ mem.nodes[e.node].known
    /\ Enroll(m, t, e.node, e, saved)
    /\ UNCHANGED spent

\* (The code also drops a token whose node is gone; deleteNode leaves none.)
RegisterOneTime(m, t, saved) ==
    LET e == mem.tokens[t] IN
    /\ <<m, t>> \in asked
    /\ ~HasReceipt(m, t)
    /\ e.kind = "oneTime" /\ Usable(e)
    /\ mem.nodes[e.node].known
    /\ Enroll(m, t, e.node, NoEnrollment, saved)
    /\ UNCHANGED spent

RegisterCommon(m, t, n, saved) ==
    LET e == mem.tokens[t] IN
    /\ <<m, t>> \in asked
    /\ ~HasReceipt(m, t)
    /\ e.kind = "reusable" /\ Usable(e)
    /\ n \notin spent
    /\ spent' = spent \cup {n}
    /\ Enroll(m, t, n, e, saved)

(***************************************************************************)
(* The machine: nodelume-agent bind, or a service start with a token.      *)
(***************************************************************************)

Bind(m, t) ==
    /\ t \in shown
    /\ config[m].token # t
    /\ config' = [config EXCEPT ![m].token = t]
    /\ asked' = asked \cup {<<m, t>>}
    /\ hand' = [hand EXCEPT ![m] = NoIdentity]
    /\ UNCHANGED <<serverVars, shown, now, saveFailures, history, files>>

\* testAuthenticatedServer with the new identity, then saveConfig.
Adopt(m) ==
    /\ hand[m] # NoIdentity
    /\ Valid(hand[m])
    /\ config' = [config EXCEPT ![m] = [id |-> hand[m], token |-> NoToken]]
    /\ hand' = [hand EXCEPT ![m] = NoIdentity]
    /\ UNCHANGED <<serverVars, shown, asked, now, saveFailures, history, files>>

\* The new identity is refused: the machine keeps the one it had.
Reject(m) ==
    /\ hand[m] # NoIdentity
    /\ ~Valid(hand[m])
    /\ config' = [config EXCEPT ![m].token = NoToken]
    /\ hand' = [hand EXCEPT ![m] = NoIdentity]
    /\ UNCHANGED <<serverVars, shown, asked, now, saveFailures, history, files>>

\* The process ends with the answer in its memory, or cannot save it; the
\* token is still in its configuration or at its operator's hands.
AgentCrash(m) ==
    /\ hand[m] # NoIdentity
    /\ hand' = [hand EXCEPT ![m] = NoIdentity]
    /\ UNCHANGED <<serverVars, shown, asked, config, now, saveFailures, history, files>>

(***************************************************************************)
(* The Server by itself.                                                   *)
(***************************************************************************)

\* maintenance: what has expired goes, and if anything did, all is saved.
Expired ==
    [nodes |-> [n \in NodeIds |->
        IF mem.nodes[n].previous > 0 /\ now > mem.nodes[n].previousUntil
          THEN [mem.nodes[n] EXCEPT !.previous = 0, !.previousUntil = 0]
          ELSE mem.nodes[n]],
     tokens |-> [t \in Tokens |->
        IF Usable(mem.tokens[t]) THEN mem.tokens[t] ELSE NoEnrollment],
     receipts |-> [k \in DOMAIN mem.receipts |->
        IF now > mem.receipts[k].until THEN NoReceipt ELSE mem.receipts[k]]]

maintenance(saved) ==
    /\ mem # Expired
    /\ mem' = Expired
    /\ UNCHANGED <<lastSecret, spent, shown, agentVars, now, history>>
    /\ Save(saved)

\* Every audited action (a login, a command, a setting) saves the whole state.
audit ==
    /\ disk # mem
    /\ disk' = mem
    /\ filed' = lastSecret
    /\ UNCHANGED <<mem, lastSecret, spent, shown, agentVars, now,
                   saveFailures, history, undone>>

\* Memory is lost.  (When the file has all of it, nothing changes.)
ServerCrash ==
    /\ disk # mem
    /\ mem' = disk
    /\ undone' = undone \cup (filed + 1)..lastSecret
    /\ UNCHANGED <<disk, lastSecret, spent, shown, agentVars, now, saveFailures,
                   history, filed>>

Tick ==
    /\ now < MaxTime
    /\ now' = now + 1
    /\ UNCHANGED <<serverVars, shown, agentVars, saveFailures, history, files>>

AdminStep(saved) ==
    \/ \E n \in NodeIds, t \in OneTimeTokens :
         createNode(n, t, saved) \/ reenrollNode(n, t, saved)
    \/ \E n \in NodeIds : deleteNode(n, saved)
    \/ \E t \in CommonTokens, ttl \in CommonTTLs :
         setCommonEnrollment(t, ttl, saved)
    \/ revokeCommonEnrollment(saved)

RegisterStep(m, t, saved) ==
    \/ RegisterOneTime(m, t, saved)
    \/ \E n \in NodeIds : RegisterCommon(m, t, n, saved)

MachineStep(m) ==
    \/ \E t \in Tokens : Bind(m, t) \/ RegisterAgain(m, t)
    \/ Adopt(m) \/ Reject(m) \/ AgentCrash(m)

Next ==
    \/ \E saved \in BOOLEAN :
         \/ AdminStep(saved)
         \/ \E m \in Machines, t \in Tokens : RegisterStep(m, t, saved)
         \/ maintenance(saved)
    \/ \E m \in Machines : MachineStep(m)
    \/ audit \/ ServerCrash \/ Tick

Spec == Init /\ [][Next]_vars
-----------------------------------------------------------------------------
Holds(m) == {id \in {config[m].id, hand[m]} : id # NoIdentity}

\* An identity the Server has answered with 200 survives its crashes: the file
\* on disk has the node, with that secret or a later one, unless the node was
\* deleted.  (When a save has failed, the retry is answered from the receipt in
\* memory, and only the next save makes it last.)
AnsweredIsDurable ==
    saveFailures = 0 => \A m \in Machines : \A id \in Holds(m) :
        \/ disk.nodes[id.node].known /\ disk.nodes[id.node].secret >= id.secret
        \/ id.node \in deleted

\* Every registration makes a secret of its own: machines that carry the same
\* secret have it under one node and one enrollment ID.  (Two machines have one
\* ID only if they have one name and one host name.)
OwnIdentity ==
    \A m1, m2 \in Machines : \A id1 \in Holds(m1), id2 \in Holds(m2) :
        id1.secret = id2.secret =>
           EnrollmentID[m1] = EnrollmentID[m2] /\ id1.node = id2.node

\* The retry of an answered registration is answered with the same identity as
\* long as its receipt lasts and the node exists, across crashes of the Server,
\* unless a crash has undone that identity.  (After a failed save the retry is
\* answered with success from the receipt in memory, and the file knows nothing
\* of it before the next save.)
RetryGetsSame ==
    [][\A m \in Machines, t \in Tokens :
        LET a == acked[<<m, t>>] IN
        a.node # NoNode /\ a.until > now /\ mem.nodes[a.node].known
        /\ a.secret \notin undone => acked'[<<m, t>>] = a]_vars

\* A one-time token is good for one identity: whoever else presents it, and
\* whenever, is turned away or, under the same enrollment ID, gets that one.
\* The exception is an identity that a crash has undone: the file still has the
\* token, and another machine may be answered with another identity.  So two may
\* have been told of success, but the Server takes no longer what it has undone.
OneTimeOnce ==
    /\ \A m1, m2 \in Machines, t \in OneTimeTokens :
          LET a1 == acked[<<m1, t>>]
              a2 == acked[<<m2, t>>]
          IN  a1.node # NoNode /\ a2.node # NoNode /\ {a1.secret, a2.secret} \cap undone = {}
              => EnrollmentID[m1] = EnrollmentID[m2] /\ a1 = a2
    /\ \A n \in NodeIds, s \in undone : ~Valid([node |-> n, secret |-> s])

\* "Keep the current Agent credential valid until the new one successfully
\* enrolls" (reenrollNode): it is refused only if another registration for its
\* node has been answered with success, or a crash has undone it.
CredentialKept ==
    \A m \in Machines :
        LET id == config[m].id IN
        id # NoIdentity /\ id.secret \notin undone
        /\ mem.nodes[id.node].known /\ ~Valid(id)
        => \E k \in Machines \X Tokens :
             acked[k].node = id.node /\ acked[k].secret > id.secret

\* As long as every save succeeds, that is so.
KeptUntilReplaced == saveFailures = 0 => CredentialKept
=============================================================================
