-------------------------- MODULE EnrollmentProofs ---------------------------
(***************************************************************************)
(* Theorems about Enrollment, for any machines, nodes, tokens and times.   *)
(*                                                                         *)
(* The argument: whoever carries an identity (a machine, the answer it has *)
(* in hand, a receipt) carries one the Server still knows, with a secret   *)
(* no newer than the node's (CarrierInv), a node's secret is replaced only *)
(* by a one-time token whose use was answered (CurrentInv), and a receipt  *)
(* that lasts is what was answered (ReplyInv).  A crash after a failed     *)
(* save undoes identities that were answered; the other answers stand      *)
(* (Standing), since the file has all that was made before it was written  *)
(* (FiledInv), and what was undone is nowhere to be found (UndoneInv).     *)
(***************************************************************************)
EXTENDS Enrollment, TLAPS

Node(n) == mem.nodes[n]
Token(t) == mem.tokens[t]
Receipt(k) == mem.receipts[k]
Keys == Tokens \X EnrollmentIds

\* The answers that no crash has undone.
Standing == [k \in Machines \X Tokens |->
                IF acked[k].secret \in undone THEN NoReceipt ELSE acked[k]]

\* Until a save has failed, the file is what is in memory.
DiskInv == saveFailures = 0 => disk = mem

NodeInv ==
    \A n \in NodeIds :
        /\ Node(n).known => n \in spent
        /\ n \in deleted => n \in spent

\* A token is of its kind, is new until it is made, and a one-time token that can
\* still be used has not been.
TokenInv ==
    \A t \in Tokens :
        /\ Token(t).kind = "oneTime" => t \in OneTimeTokens /\ Token(t).node \in NodeIds
        /\ Token(t).kind = "reusable" => t \in CommonTokens
        /\ Token(t).kind # "none" => t \in spent
        /\ t \notin spent \/ Token(t).kind = "oneTime" =>
              /\ \A e \in EnrollmentIds : Receipt(<<t, e>>).node = NoNode
              /\ \A m \in Machines : Standing[<<m, t>>].node = NoNode

\* An identity that was made: what is random is not made again, even when a
\* crash has undone it.
Issued(n, s) == n \in NodeIds /\ n \in spent /\ s \in 1..lastSecret

\* One of a node the Server knows with that secret or a newer one, or of a
\* deleted node.
Made(n, s) ==
    /\ Issued(n, s)
    /\ IF Node(n).known THEN s <= Node(n).secret ELSE n \in deleted

\* (A crash after a failed save may have undone what a machine carries.)
CarrierInv ==
    /\ \A k \in Keys : Receipt(k).node # NoNode => Made(Receipt(k).node, Receipt(k).secret)
    /\ \A m \in Machines : \A id \in Holds(m) :
          /\ Issued(id.node, id.secret)
          /\ saveFailures = 0 => Made(id.node, id.secret)

\* Everybody who carries an identity of node n has its present secret.
NeverReplaced(n) ==
    /\ \A k \in Keys : Receipt(k).node = n => Receipt(k).secret = Node(n).secret
    /\ \A m \in Machines : \A id \in Holds(m) : id.node = n => id.secret = Node(n).secret

CurrentInv ==
    saveFailures = 0 => \A n \in NodeIds : Node(n).known =>
        \/ NeverReplaced(n)
        \/ \E k \in Machines \X OneTimeTokens :
              Standing[k].node = n /\ Standing[k].secret = Node(n).secret

\* What was answered is what the receipt says, for as long as it says it; that of
\* a one-time token never says anything else.
ReplyInv ==
    \A m \in Machines, t \in Tokens : Standing[<<m, t>>].node # NoNode =>
        /\ Standing[<<m, t>>].node \in spent
        /\ Standing[<<m, t>>].until > now /\ Node(Standing[<<m, t>>].node).known =>
              Receipt(Key(m, t)) = Standing[<<m, t>>]
        /\ t \in OneTimeTokens /\ Receipt(Key(m, t)).node # NoNode =>
              Receipt(Key(m, t)) = Standing[<<m, t>>]

\* The uses of a one-time token are one machine's, as far as the Server can tell,
\* and have one answer.
OnceInv ==
    \A t \in OneTimeTokens :
        /\ \A e1, e2 \in EnrollmentIds :
              Receipt(<<t, e1>>).node # NoNode /\ Receipt(<<t, e2>>).node # NoNode => e1 = e2
        /\ \A m \in Machines, e \in EnrollmentIds :
              Standing[<<m, t>>].node # NoNode /\ Receipt(<<t, e>>).node # NoNode =>
                 e = EnrollmentID[m]
        /\ \A m1, m2 \in Machines :
              Standing[<<m1, t>>].node # NoNode /\ Standing[<<m2, t>>].node # NoNode =>
                 EnrollmentID[m1] = EnrollmentID[m2] /\ Standing[<<m1, t>>] = Standing[<<m2, t>>]

\* So are those who carry a secret.
OwnInv ==
    /\ \A k1, k2 \in Keys :
          Receipt(k1).node # NoNode /\ Receipt(k2).node # NoNode
          /\ Receipt(k1).secret = Receipt(k2).secret =>
             k1[2] = k2[2] /\ Receipt(k1).node = Receipt(k2).node
    /\ \A m \in Machines, k \in Keys : \A id \in Holds(m) :
          Receipt(k).node # NoNode /\ Receipt(k).secret = id.secret =>
             k[2] = EnrollmentID[m] /\ Receipt(k).node = id.node
    /\ \A m1, m2 \in Machines : \A id1 \in Holds(m1), id2 \in Holds(m2) :
          id1.secret = id2.secret =>
             EnrollmentID[m1] = EnrollmentID[m2] /\ id1.node = id2.node

\* What is in the file is consistent by itself: the Server can start from it.
FileInv ==
    /\ \A n \in NodeIds : disk.nodes[n].known => n \in spent
    /\ \A t \in Tokens :
          /\ disk.tokens[t].kind = "oneTime" =>
                t \in OneTimeTokens /\ disk.tokens[t].node \in NodeIds
          /\ disk.tokens[t].kind = "reusable" => t \in CommonTokens
          /\ disk.tokens[t].kind # "none" => t \in spent
          /\ t \notin spent \/ disk.tokens[t].kind = "oneTime" =>
                \A e \in EnrollmentIds : disk.receipts[<<t, e>>].node = NoNode
    /\ \A t \in OneTimeTokens, e1, e2 \in EnrollmentIds :
          disk.receipts[<<t, e1>>].node # NoNode /\ disk.receipts[<<t, e2>>].node # NoNode
          => e1 = e2
    /\ \A k \in Keys : disk.receipts[k].node # NoNode =>
          /\ Issued(disk.receipts[k].node, disk.receipts[k].secret)
          /\ IF disk.nodes[disk.receipts[k].node].known
               THEN disk.receipts[k].secret <= disk.nodes[disk.receipts[k].node].secret
               ELSE disk.receipts[k].node \in deleted

\* A secret in the file is that of the same machine and node as everywhere else.
FileOwnInv ==
    \A k \in Keys : disk.receipts[k].node # NoNode =>
        /\ \A k2 \in Keys :
              disk.receipts[k2].node # NoNode /\ disk.receipts[k2].secret = disk.receipts[k].secret
              => k2[2] = k[2] /\ disk.receipts[k2].node = disk.receipts[k].node
        /\ \A k2 \in Keys :
              Receipt(k2).node # NoNode /\ Receipt(k2).secret = disk.receipts[k].secret
              => k2[2] = k[2] /\ Receipt(k2).node = disk.receipts[k].node
        /\ \A m \in Machines : \A id \in Holds(m) : id.secret = disk.receipts[k].secret
              => EnrollmentID[m] = k[2] /\ id.node = disk.receipts[k].node

\* What a crash has undone is nowhere to be found again, and the file holds
\* nothing that was made after it was written.
SecretsIn(st) ==
    {st.nodes[n].secret : n \in NodeIds} \cup {st.nodes[n].previous : n \in NodeIds}
    \cup {st.receipts[k].secret : k \in Keys}

UndoneInv ==
    /\ SecretsIn(mem) \cap undone = {}
    /\ SecretsIn(disk) \cap undone = {}
    /\ \A x \in SecretsIn(disk) : x <= filed

\* Of what was made before the file was written, the file knows what memory knows;
\* what was answered of it is what the file's receipt says, and the file no longer
\* has the one-time token.
FiledInv ==
    /\ \A k \in Keys : Receipt(k).node # NoNode /\ Receipt(k).secret <= filed =>
          disk.receipts[k] = Receipt(k)
    /\ \A m \in Machines, t \in Tokens :
          Standing[<<m, t>>].node # NoNode /\ Standing[<<m, t>>].secret <= filed =>
             /\ disk.tokens[t].kind # "oneTime"
             /\ Standing[<<m, t>>].until > now /\ disk.nodes[Standing[<<m, t>>].node].known =>
                   disk.receipts[Key(m, t)] = Standing[<<m, t>>]
             /\ t \in OneTimeTokens => \A e \in EnrollmentIds :
                   disk.receipts[<<t, e>>].node # NoNode =>
                      e = EnrollmentID[m] /\ disk.receipts[<<t, e>>] = Standing[<<m, t>>]

CoreInv ==
    /\ TypeOK /\ DiskInv /\ NodeInv /\ TokenInv /\ CarrierInv
    /\ CurrentInv /\ ReplyInv /\ OnceInv /\ OwnInv /\ FileInv /\ FileOwnInv

IInv == CoreInv /\ UndoneInv /\ FiledInv
-----------------------------------------------------------------------------
(* Types. *)

\* The sets of values only grow with the secrets made.
LEMMA TypesGrow ==
    ASSUME lastSecret \in Nat, lastSecret' \in Nat, lastSecret <= lastSecret'
    PROVE  /\ Secrets \subseteq Secrets' /\ lastSecret' \in Secrets'
           /\ Nodes \subseteq Nodes' /\ Receipts \subseteq Receipts'
           /\ Identities \subseteq Identities' /\ States \subseteq States'
<1>1. Secrets \subseteq Secrets' /\ lastSecret' \in Secrets'
  BY DEF Secrets
<1>2. Nodes \subseteq Nodes' /\ Receipts \subseteq Receipts' /\ Identities \subseteq Identities'
  BY <1>1 DEF Nodes, Receipts, Identities
<1>3. Enrollments' = Enrollments
  BY DEF Enrollments
<1>4. States \subseteq States'
  BY <1>2, <1>3 DEF States
<1> QED
  BY <1>1, <1>2, <1>4

\* Save keeps the type of the file and of the number of failures.
LEMMA SaveType ==
    ASSUME TypeOK, NEW saved \in BOOLEAN, Save(saved), mem' \in States', disk \in States',
           lastSecret' \in Nat, lastSecret <= lastSecret'
    PROVE  /\ disk' \in States' /\ saveFailures' \in 0..MaxSaveFailures
           /\ filed' \in 0..lastSecret' /\ undone' \subseteq 1..lastSecret'
<1>1. /\ saveFailures \in 0..MaxSaveFailures /\ MaxSaveFailures \in Nat
      /\ lastSecret \in Nat /\ filed \in 0..lastSecret /\ undone \subseteq 1..lastSecret
  BY EnrollmentConstants DEF TypeOK
<1> QED
  BY <1>1 DEF Save

LEMMA InitType == Init => TypeOK
<1> SUFFICES ASSUME Init PROVE TypeOK
  OBVIOUS
<1>1. Secrets = {0}
  BY DEF Init, Secrets
<1>2. Unknown \in Nodes /\ NoEnrollment \in Enrollments /\ NoReceipt \in Receipts
      /\ NoIdentity \in Identities
  BY <1>1 DEF Unknown, Nodes, NoEnrollment, Enrollments, NoReceipt, Receipts,
              NoIdentity, Identities
<1>3. mem \in States
  BY <1>2 DEF Init, States
<1> QED
  BY <1>2, <1>3, EnrollmentConstants DEF Init, TypeOK

\* Values the Server writes into its state.
LEMMA ValueTypes ==
    ASSUME TypeOK
    PROVE  /\ Unknown \in Nodes /\ Created \in Nodes /\ NoEnrollment \in Enrollments
           /\ NoReceipt \in Receipts /\ NoIdentity \in Identities
           /\ \A n \in NodeIds : OneTime(n) \in Enrollments
           /\ \A ttl \in CommonTTLs : Reusable(ttl) \in Enrollments
<1>1. lastSecret \in Nat /\ now \in Nat /\ TokenTTL \in Nat
  BY EnrollmentConstants DEF TypeOK
<1>2. 0 \in Secrets
  BY <1>1 DEF Secrets
<1>3. Unknown \in Nodes /\ Created \in Nodes
  BY <1>2 DEF Unknown, Created, Nodes
<1>4. NoReceipt \in Receipts /\ NoIdentity \in Identities /\ NoEnrollment \in Enrollments
  BY <1>2 DEF NoReceipt, Receipts, NoIdentity, Identities, NoEnrollment, Enrollments
<1>5. \A n \in NodeIds : OneTime(n) \in Enrollments
  BY <1>1 DEF OneTime, Enrollments
<1>6. \A ttl \in CommonTTLs : Reusable(ttl) \in Enrollments
  <2> SUFFICES ASSUME NEW ttl \in CommonTTLs PROVE Reusable(ttl) \in Enrollments
    OBVIOUS
  <2>1. ttl \in Nat
    BY EnrollmentConstants
  <2>2. (IF ttl = 0 THEN 0 ELSE now + ttl) \in Nat
    BY <1>1, <2>1
  <2> QED
    BY <2>2 DEF Reusable, Enrollments
<1> QED
  BY <1>3, <1>4, <1>5, <1>6

\* The parts of the Server's state.
LEMMA Parts ==
    ASSUME NEW s \in States
    PROVE  /\ s.nodes \in [NodeIds -> Nodes]
           /\ s.tokens \in [Tokens -> Enrollments]
           /\ s.receipts \in [Keys -> Receipts]
           /\ \A f \in [NodeIds -> Nodes], g \in [Tokens -> Enrollments] :
                 /\ [s EXCEPT !.nodes = f] \in States
                 /\ [s EXCEPT !.tokens = g] \in States
                 /\ [s EXCEPT !.nodes = f, !.tokens = g] \in States
  BY DEF States, Keys

\* What the administrator and the maintenance make of the Server's state.
LEMMA WithoutType ==
    ASSUME TypeOK, NEW gone
    PROVE  Without(mem.tokens, gone) \in [Tokens -> Enrollments]
  BY ValueTypes, Parts DEF Without, TypeOK

LEMMA CreateType ==
    ASSUME TypeOK, NEW n \in NodeIds, NEW t \in OneTimeTokens, NEW saved \in BOOLEAN,
           createNode(n, t, saved)
    PROVE  /\ mem' \in States
           /\ mem'.nodes = [mem.nodes EXCEPT ![n] = Created]
           /\ mem'.tokens = [mem.tokens EXCEPT ![t] = OneTime(n)]
           /\ mem'.receipts = mem.receipts
<1>1. mem \in States /\ t \in Tokens
  BY DEF TypeOK, Tokens
<1>2. mem' = [mem EXCEPT !.nodes = [mem.nodes EXCEPT ![n] = Created],
                         !.tokens = [mem.tokens EXCEPT ![t] = OneTime(n)]]
  BY DEF createNode
<1>3. [mem.nodes EXCEPT ![n] = Created] \in [NodeIds -> Nodes]
      /\ [mem.tokens EXCEPT ![t] = OneTime(n)] \in [Tokens -> Enrollments]
  BY <1>1, Parts, ValueTypes
<1>4. mem' \in States
  BY <1>1, <1>2, <1>3, Parts
<1> QED
  BY <1>1, <1>2, <1>4 DEF States

LEMMA ReenrollType ==
    ASSUME TypeOK, NEW n \in NodeIds, NEW t \in OneTimeTokens, NEW saved \in BOOLEAN,
           reenrollNode(n, t, saved)
    PROVE  /\ mem' \in States
           /\ mem'.nodes = mem.nodes
           /\ mem'.tokens = [Without(mem.tokens, TokensFor(n)) EXCEPT ![t] = OneTime(n)]
           /\ mem'.receipts = mem.receipts
<1>1. mem \in States /\ t \in Tokens
  BY DEF TypeOK, Tokens
<1>2. mem' = [mem EXCEPT !.tokens =
                 [Without(mem.tokens, TokensFor(n)) EXCEPT ![t] = OneTime(n)]]
  BY DEF reenrollNode
<1>3. [Without(mem.tokens, TokensFor(n)) EXCEPT ![t] = OneTime(n)]
         \in [Tokens -> Enrollments]
  BY <1>1, WithoutType, ValueTypes
<1> QED
  BY <1>1, <1>2, <1>3, Parts DEF States

LEMMA DeleteType ==
    ASSUME TypeOK, NEW n \in NodeIds, NEW saved \in BOOLEAN, deleteNode(n, saved)
    PROVE  /\ mem' \in States
           /\ mem'.nodes = [mem.nodes EXCEPT ![n] = Unknown]
           /\ mem'.tokens = Without(mem.tokens, TokensFor(n))
           /\ mem'.receipts = mem.receipts
<1>1. mem \in States
  BY DEF TypeOK
<1>2. mem' = [mem EXCEPT !.nodes = [mem.nodes EXCEPT ![n] = Unknown],
                         !.tokens = Without(mem.tokens, TokensFor(n))]
  BY DEF deleteNode
<1>3. [mem.nodes EXCEPT ![n] = Unknown] \in [NodeIds -> Nodes]
  BY <1>1, Parts, ValueTypes
<1> QED
  BY <1>1, <1>2, <1>3, WithoutType, Parts DEF States

LEMMA SetCommonType ==
    ASSUME TypeOK, NEW t \in CommonTokens, NEW ttl \in CommonTTLs, NEW saved \in BOOLEAN,
           setCommonEnrollment(t, ttl, saved)
    PROVE  /\ mem' \in States
           /\ mem'.nodes = mem.nodes
           /\ mem'.tokens = [Without(mem.tokens, ReusableTokens) EXCEPT ![t] = Reusable(ttl)]
           /\ mem'.receipts = mem.receipts
<1>1. mem \in States /\ t \in Tokens
  BY DEF TypeOK, Tokens
<1>2. mem' = [mem EXCEPT !.tokens =
                 [Without(mem.tokens, ReusableTokens) EXCEPT ![t] = Reusable(ttl)]]
  BY DEF setCommonEnrollment
<1>3. [Without(mem.tokens, ReusableTokens) EXCEPT ![t] = Reusable(ttl)]
         \in [Tokens -> Enrollments]
  BY <1>1, WithoutType, ValueTypes
<1> QED
  BY <1>1, <1>2, <1>3, Parts DEF States

LEMMA RevokeCommonType ==
    ASSUME TypeOK, NEW saved \in BOOLEAN, revokeCommonEnrollment(saved)
    PROVE  /\ mem' \in States
           /\ mem'.nodes = mem.nodes
           /\ mem'.tokens = Without(mem.tokens, ReusableTokens)
           /\ mem'.receipts = mem.receipts
<1>1. mem \in States
  BY DEF TypeOK
<1>2. mem' = [mem EXCEPT !.tokens = Without(mem.tokens, ReusableTokens)]
  BY DEF revokeCommonEnrollment
<1> QED
  BY <1>1, <1>2, WithoutType, Parts DEF States

LEMMA ExpiredType ==
    ASSUME TypeOK
    PROVE  /\ Expired \in States
           /\ \A n \in NodeIds : /\ Expired.nodes[n].known = mem.nodes[n].known
                                 /\ Expired.nodes[n].secret = mem.nodes[n].secret
                                 /\ Expired.nodes[n].previous \in {mem.nodes[n].previous, 0}
           /\ \A t \in Tokens : \/ Expired.tokens[t] = mem.tokens[t]
                                \/ Expired.tokens[t] = NoEnrollment
           /\ \A k \in Keys : \/ Expired.receipts[k] = mem.receipts[k]
                              \/ /\ Expired.receipts[k] = NoReceipt
                                 /\ now > mem.receipts[k].until
<1>1. mem \in States /\ 0 \in Secrets
  BY DEF TypeOK, Secrets
<1>2. mem.nodes \in [NodeIds -> Nodes] /\ mem.tokens \in [Tokens -> Enrollments]
      /\ mem.receipts \in [Keys -> Receipts] /\ DOMAIN mem.receipts = Keys
  BY <1>1, Parts
<1>3. Expired.nodes \in [NodeIds -> Nodes]
      /\ \A n \in NodeIds : /\ Expired.nodes[n].known = mem.nodes[n].known
                            /\ Expired.nodes[n].secret = mem.nodes[n].secret
                            /\ Expired.nodes[n].previous \in {mem.nodes[n].previous, 0}
  BY <1>1, <1>2 DEF Expired, Nodes
<1>4. Expired.tokens \in [Tokens -> Enrollments]
      /\ \A t \in Tokens : \/ Expired.tokens[t] = mem.tokens[t]
                           \/ Expired.tokens[t] = NoEnrollment
  BY <1>2, ValueTypes DEF Expired
<1>5. Expired.receipts \in [Keys -> Receipts]
      /\ \A k \in Keys : \/ Expired.receipts[k] = mem.receipts[k]
                         \/ /\ Expired.receipts[k] = NoReceipt
                            /\ now > mem.receipts[k].until
  BY <1>2, ValueTypes DEF Expired
<1>6. Expired = [nodes |-> Expired.nodes, tokens |-> Expired.tokens,
                 receipts |-> Expired.receipts]
  BY DEF Expired
<1> QED
  BY <1>3, <1>4, <1>5, <1>6 DEF States, Keys

\* What a registration makes of it: all of these facts are about memory, whether
\* the save succeeds or not.
LEMMA EnrollType ==
    ASSUME TypeOK, NEW m \in Machines, NEW t \in Tokens, NEW n \in NodeIds,
           NEW e \in Enrollments, NEW saved \in BOOLEAN, Enroll(m, t, n, e, saved)
    PROVE  /\ lastSecret' = lastSecret + 1
           /\ mem' \in States'
           /\ \A o \in NodeIds \ {n} : mem'.nodes[o] = mem.nodes[o]
           /\ mem'.nodes[n].known /\ mem'.nodes[n].secret = lastSecret + 1
           /\ mem'.nodes[n].previous \in {mem.nodes[n].previous, mem.nodes[n].secret}
           /\ mem'.tokens = [mem.tokens EXCEPT ![t] = e]
           /\ Key(m, t) \in Keys
           /\ \A k \in Keys \ {Key(m, t)} : mem'.receipts[k] = mem.receipts[k]
           /\ mem'.receipts[Key(m, t)] =
                 [node |-> n, secret |-> lastSecret + 1, until |-> now + ReceiptTTL]
           /\ mem'.receipts[Key(m, t)] \in Receipts'
<1> DEFINE L == lastSecret + 1
           rec == [node |-> n, secret |-> L, until |-> now + ReceiptTTL]
<1>1. mem \in States /\ lastSecret \in Nat /\ now \in Nat /\ ReceiptTTL \in Nat /\ GraceTTL \in Nat
  BY EnrollmentConstants DEF TypeOK
<1>2. lastSecret' = L
  BY DEF Enroll, FreshSecret
<1>3. /\ States \subseteq States' /\ Nodes \subseteq Nodes' /\ Receipts \subseteq Receipts'
      /\ L \in Secrets'
  BY <1>1, <1>2, TypesGrow
<1>4. /\ mem.nodes \in [NodeIds -> Nodes'] /\ mem.tokens \in [Tokens -> Enrollments]
      /\ mem.receipts \in [Keys -> Receipts'] /\ mem.nodes[n] \in Nodes
  BY <1>1, <1>3, Parts
<1>5. Key(m, t) \in Keys
  BY EnrollmentConstants DEF Key, Keys
<1>6. rec \in Receipts'
  BY <1>1, <1>3 DEF Receipts
<1>7. Rotate(mem.nodes[n], L) \in Nodes'
      /\ Rotate(mem.nodes[n], L).known /\ Rotate(mem.nodes[n], L).secret = L
      /\ Rotate(mem.nodes[n], L).previous \in {mem.nodes[n].previous, mem.nodes[n].secret}
  <2>1. mem.nodes[n].secret \in Secrets' /\ mem.nodes[n].previous \in Secrets'
        /\ mem.nodes[n].previousUntil \in Nat /\ now + GraceTTL \in Nat
    BY <1>1, <1>3, <1>4 DEF Nodes
  <2> QED
    BY <1>3, <1>4, <2>1 DEF Rotate, Nodes
<1>8. mem' = [mem EXCEPT !.nodes = [mem.nodes EXCEPT ![n] = Rotate(mem.nodes[n], L)],
                         !.tokens = [mem.tokens EXCEPT ![t] = e],
                         !.receipts = [mem.receipts EXCEPT ![Key(m, t)] = rec]]
  BY DEF Enroll
<1>9. /\ mem'.nodes = [mem.nodes EXCEPT ![n] = Rotate(mem.nodes[n], L)]
      /\ mem'.tokens = [mem.tokens EXCEPT ![t] = e]
      /\ mem'.receipts = [mem.receipts EXCEPT ![Key(m, t)] = rec]
      /\ mem' = [nodes |-> mem'.nodes, tokens |-> mem'.tokens, receipts |-> mem'.receipts]
  BY <1>1, <1>8 DEF States
<1>10. /\ mem'.nodes \in [NodeIds -> Nodes'] /\ mem'.tokens \in [Tokens -> Enrollments]
       /\ mem'.receipts \in [Keys -> Receipts']
  BY <1>4, <1>5, <1>6, <1>7, <1>9
<1>11. Enrollments' = Enrollments /\ Keys = Tokens \X EnrollmentIds
  BY DEF Enrollments, Keys
<1>12. mem' \in States'
  BY <1>9, <1>10, <1>11 DEF States
<1> QED
  BY <1>2, <1>4, <1>5, <1>6, <1>7, <1>9, <1>12

\* An answer.
LEMMA AnswerType ==
    ASSUME TypeOK, NEW m \in Machines, NEW t \in Tokens, NEW n \in NodeIds,
           NEW x \in Secrets', NEW u \in Nat, Answer(m, t, n, x, u),
           lastSecret' \in Nat, lastSecret <= lastSecret'
    PROVE  /\ acked' = [acked EXCEPT ![<<m, t>>] = [node |-> n, secret |-> x, until |-> u]]
           /\ acked' \in [Machines \X Tokens -> Receipts']
           /\ hand' \in [Machines -> Identities']
           /\ \/ hand' = hand
              \/ hand' = [hand EXCEPT ![m] = [node |-> n, secret |-> x]]
<1>1. /\ Receipts \subseteq Receipts' /\ Identities \subseteq Identities'
  BY TypesGrow DEF TypeOK
<1>2. acked \in [Machines \X Tokens -> Receipts'] /\ hand \in [Machines -> Identities']
  BY <1>1 DEF TypeOK
<1>3. [node |-> n, secret |-> x, until |-> u] \in Receipts'
      /\ [node |-> n, secret |-> x] \in Identities'
  BY DEF Receipts, Identities
<1> QED
  BY <1>2, <1>3 DEF Answer

\* The variables that are not the Server's.
LEMMA SameTypes ==
    ASSUME TypeOK, UNCHANGED lastSecret
    PROVE  States' = States /\ Receipts' = Receipts /\ Identities' = Identities
  BY DEF States, Receipts, Identities, Nodes, Secrets, Enrollments

\* A change by the administrator or the maintenance: memory changes and is saved.
LEMMA ServerTypes ==
    ASSUME TypeOK, NEW saved \in BOOLEAN, Save(saved), mem' \in States,
           UNCHANGED <<lastSecret, agentVars, now, acked>>,
           spent' \subseteq NodeIds \cup Tokens, shown' \subseteq Tokens,
           deleted' \subseteq NodeIds
    PROVE  TypeOK'
<1>1. lastSecret' = lastSecret /\ UNCHANGED <<asked, config, hand, now, acked>>
  BY DEF agentVars
<1>2. States' = States /\ Receipts' = Receipts /\ Identities' = Identities
  BY <1>1, SameTypes
<1>3. /\ disk' \in States' /\ saveFailures' \in 0..MaxSaveFailures
      /\ filed' \in 0..lastSecret' /\ undone' \subseteq 1..lastSecret'
  BY <1>1, <1>2, SaveType DEF TypeOK
<1> QED
  BY <1>1, <1>2, <1>3 DEF TypeOK

\* A registration that makes an identity.
LEMMA EnrollTypes ==
    ASSUME TypeOK, NEW m \in Machines, NEW t \in Tokens, NEW n \in NodeIds,
           NEW e \in Enrollments, NEW saved \in BOOLEAN, Enroll(m, t, n, e, saved),
           spent' \subseteq NodeIds \cup Tokens
    PROVE  TypeOK'
<1>0. lastSecret \in Nat
  BY DEF TypeOK
<1>1. lastSecret' = lastSecret + 1 /\ mem' \in States' /\ lastSecret \in Nat
      /\ lastSecret' \in Nat /\ lastSecret <= lastSecret'
  <2>1. lastSecret' = lastSecret + 1 /\ mem' \in States'
    BY EnrollType
  <2> QED
    BY <1>0, <2>1
<1>2. /\ States \subseteq States' /\ Receipts \subseteq Receipts'
      /\ Identities \subseteq Identities' /\ lastSecret + 1 \in Secrets'
  BY <1>1, TypesGrow
<1>3. UNCHANGED <<shown, asked, config, now, deleted>> /\ Save(saved)
  BY DEF Enroll
<1>4. /\ disk' \in States' /\ saveFailures' \in 0..MaxSaveFailures
      /\ filed' \in 0..lastSecret' /\ undone' \subseteq 1..lastSecret'
  BY <1>1, <1>2, <1>3, SaveType DEF TypeOK
<1>5. acked' \in [Machines \X Tokens -> Receipts'] /\ hand' \in [Machines -> Identities']
  <2>1. CASE saved
    <3> DEFINE x == lastSecret + 1
               u == now + ReceiptTTL
    <3>1. Answer(m, t, n, x, u) /\ u \in Nat /\ x \in Secrets'
      BY <1>2, <2>1, EnrollmentConstants DEF Enroll, TypeOK
    <3> HIDE DEF x, u
    <3> QED
      BY <1>1, <3>1, AnswerType
  <2>2. CASE ~saved
    BY <1>2, <2>2 DEF Enroll, TypeOK
  <2> QED
    BY <2>1, <2>2
<1>6. config' \in [Machines -> [id : Identities', token : Tokens \cup {NoToken}]]
  BY <1>2, <1>3 DEF TypeOK
<1>7. lastSecret' \in Nat
  BY <1>1
<1> QED
  BY <1>1, <1>3, <1>4, <1>5, <1>6, <1>7 DEF TypeOK

\* A step of a machine.
LEMMA MachineTypes ==
    ASSUME TypeOK, UNCHANGED <<serverVars, shown, now, saveFailures, deleted, files>>,
           asked' \subseteq Machines \X Tokens,
           acked' \in [Machines \X Tokens -> Receipts],
           config' \in [Machines -> [id : Identities, token : Tokens \cup {NoToken}]],
           hand' \in [Machines -> Identities]
    PROVE  TypeOK'
<1>1. UNCHANGED <<mem, disk, lastSecret, spent, filed, undone>>
  BY DEF serverVars, files
<1>2. States' = States /\ Receipts' = Receipts /\ Identities' = Identities
  BY <1>1, SameTypes
<1> QED
  BY <1>1, <1>2 DEF TypeOK

\* The enrollments a token turns into have their type, and a token that is one has
\* its node.
LEMMA TokenType ==
    ASSUME TypeOK, NEW t \in Tokens
    PROVE  mem.tokens[t] \in Enrollments /\ mem.tokens[t].node \in NodeIds \cup {NoNode}
  BY Parts DEF TypeOK, Enrollments

LEMMA ReceiptType ==
    ASSUME TypeOK, NEW k \in Keys
    PROVE  mem.receipts[k] \in Receipts
  BY Parts DEF TypeOK

LEMMA KeyType ==
    ASSUME NEW m \in Machines, NEW t \in Tokens
    PROVE  Key(m, t) \in Keys
  BY EnrollmentConstants DEF Key, Keys

\* The type invariant needs TokenInv: a one-time token has a node.
LEMMA TypeStep == TypeOK /\ TokenInv /\ [Next]_vars => TypeOK'
<1> SUFFICES ASSUME TypeOK, TokenInv, [Next]_vars PROVE TypeOK'
  OBVIOUS
<1>1. ASSUME NEW n \in NodeIds, NEW t \in OneTimeTokens,
              NEW saved \in BOOLEAN, createNode(n, t, saved) PROVE TypeOK'
  <2>1. mem' \in States
    BY <1>1, CreateType
  <2>2. /\ UNCHANGED <<lastSecret, agentVars, now, acked>> /\ Save(saved)
        /\ spent' \subseteq NodeIds \cup Tokens /\ shown' \subseteq Tokens
        /\ deleted' \subseteq NodeIds
    BY <1>1 DEF createNode, Show, history, TypeOK, Tokens
  <2> QED
    BY <2>1, <2>2, ServerTypes
<1>2. ASSUME NEW n \in NodeIds, NEW t \in OneTimeTokens,
              NEW saved \in BOOLEAN, reenrollNode(n, t, saved) PROVE TypeOK'
  <2>1. mem' \in States
    BY <1>2, ReenrollType
  <2>2. /\ UNCHANGED <<lastSecret, agentVars, now, acked>> /\ Save(saved)
        /\ spent' \subseteq NodeIds \cup Tokens /\ shown' \subseteq Tokens
        /\ deleted' \subseteq NodeIds
    BY <1>2 DEF reenrollNode, Show, history, TypeOK, Tokens
  <2> QED
    BY <2>1, <2>2, ServerTypes
<1>3. ASSUME NEW n \in NodeIds, NEW saved \in BOOLEAN, deleteNode(n, saved) PROVE TypeOK'
  <2>1. mem' \in States
    BY <1>3, DeleteType
  <2>2. /\ UNCHANGED <<lastSecret, agentVars, now, acked>> /\ Save(saved)
        /\ spent' \subseteq NodeIds \cup Tokens /\ shown' \subseteq Tokens
        /\ deleted' \subseteq NodeIds
    BY <1>3 DEF deleteNode, Show, history, TypeOK, Tokens
  <2> QED
    BY <2>1, <2>2, ServerTypes
<1>4. ASSUME NEW t \in CommonTokens, NEW ttl \in CommonTTLs,
              NEW saved \in BOOLEAN, setCommonEnrollment(t, ttl, saved) PROVE TypeOK'
  <2>1. mem' \in States
    BY <1>4, SetCommonType
  <2>2. /\ UNCHANGED <<lastSecret, agentVars, now, acked>> /\ Save(saved)
        /\ spent' \subseteq NodeIds \cup Tokens /\ shown' \subseteq Tokens
        /\ deleted' \subseteq NodeIds
    BY <1>4 DEF setCommonEnrollment, Show, history, TypeOK, Tokens
  <2> QED
    BY <2>1, <2>2, ServerTypes
<1>5. ASSUME NEW saved \in BOOLEAN, revokeCommonEnrollment(saved) PROVE TypeOK'
  <2>1. mem' \in States
    BY <1>5, RevokeCommonType
  <2>2. /\ UNCHANGED <<lastSecret, agentVars, now, acked>> /\ Save(saved)
        /\ spent' \subseteq NodeIds \cup Tokens /\ shown' \subseteq Tokens
        /\ deleted' \subseteq NodeIds
    BY <1>5 DEF revokeCommonEnrollment, Show, history, TypeOK, Tokens
  <2> QED
    BY <2>1, <2>2, ServerTypes
<1>6. ASSUME NEW saved \in BOOLEAN, maintenance(saved) PROVE TypeOK'
  <2>1. /\ mem' \in States /\ UNCHANGED <<lastSecret, agentVars, now, acked>> /\ Save(saved)
        /\ spent' \subseteq NodeIds \cup Tokens /\ shown' \subseteq Tokens
        /\ deleted' \subseteq NodeIds
    BY <1>6, ExpiredType DEF maintenance, history, TypeOK
  <2> QED
    BY <2>1, ServerTypes
<1>7. ASSUME NEW m \in Machines, NEW t \in Tokens, NEW saved \in BOOLEAN,
             RegisterOneTime(m, t, saved) PROVE TypeOK'
  <2>1. /\ mem.tokens[t].node \in NodeIds /\ NoEnrollment \in Enrollments
        /\ Enroll(m, t, mem.tokens[t].node, NoEnrollment, saved)
        /\ spent' \subseteq NodeIds \cup Tokens
    BY <1>7, ValueTypes DEF RegisterOneTime, TokenInv, Token, TypeOK
  <2> QED
    BY <2>1, EnrollTypes
<1>8. ASSUME NEW m \in Machines, NEW t \in Tokens, NEW n \in NodeIds, NEW saved \in BOOLEAN,
             RegisterCommon(m, t, n, saved) PROVE TypeOK'
  <2>1. /\ mem.tokens[t] \in Enrollments /\ Enroll(m, t, n, mem.tokens[t], saved)
        /\ spent' \subseteq NodeIds \cup Tokens
    BY <1>8, TokenType DEF RegisterCommon, TypeOK
  <2> QED
    BY <2>1, EnrollTypes
<1>9. ASSUME NEW m \in Machines, NEW t \in Tokens, RegisterAgain(m, t) PROVE TypeOK'
  <2> DEFINE rec == mem.receipts[Key(m, t)]
  <2>1. rec \in Receipts /\ rec.node # NoNode
    BY <1>9, KeyType, ReceiptType DEF RegisterAgain, HasReceipt
  <2>2. rec.node \in NodeIds /\ rec.secret \in Secrets /\ rec.until \in Nat
    BY <2>1 DEF Receipts
  <2>3. /\ UNCHANGED <<serverVars, shown, asked, config, now, saveFailures, deleted, files>>
        /\ Answer(m, t, rec.node, rec.secret, rec.until)
    BY <1>9 DEF RegisterAgain
  <2>4. UNCHANGED lastSecret /\ lastSecret \in Nat
    BY <2>3 DEF serverVars, TypeOK
  <2>5. Secrets' = Secrets /\ Receipts' = Receipts /\ Identities' = Identities
    BY <2>4, SameTypes DEF Secrets
  <2>6. acked' \in [Machines \X Tokens -> Receipts] /\ hand' \in [Machines -> Identities]
    <3> DEFINE n == rec.node
               x == rec.secret
               u == rec.until
    <3>1. /\ Answer(m, t, n, x, u) /\ n \in NodeIds /\ x \in Secrets' /\ u \in Nat
          /\ lastSecret' \in Nat /\ lastSecret <= lastSecret'
      BY <2>2, <2>3, <2>4, <2>5
    <3> HIDE DEF n, x, u
    <3> QED
      BY <2>5, <3>1, AnswerType
  <2> QED
    BY <2>3, <2>6, MachineTypes DEF TypeOK
<1>10. ASSUME NEW m \in Machines, NEW t \in Tokens, Bind(m, t) PROVE TypeOK'
  BY <1>10, ValueTypes, MachineTypes DEF Bind, history, TypeOK
<1>11. ASSUME NEW m \in Machines, Adopt(m) \/ Reject(m) \/ AgentCrash(m) PROVE TypeOK'
  <2>1. /\ UNCHANGED <<serverVars, shown, asked, now, saveFailures, history, files>>
        /\ hand' = [hand EXCEPT ![m] = NoIdentity]
        /\ \/ config' = config
           \/ config' = [config EXCEPT ![m] = [id |-> hand[m], token |-> NoToken]]
           \/ config' = [config EXCEPT ![m].token = NoToken]
    BY <1>11 DEF Adopt, Reject, AgentCrash
  <2>2. /\ config \in [Machines -> [id : Identities, token : Tokens \cup {NoToken}]]
        /\ hand[m] \in Identities
    BY DEF TypeOK
  <2>3. config' \in [Machines -> [id : Identities, token : Tokens \cup {NoToken}]]
    BY <2>1, <2>2
  <2> QED
    BY <2>1, <2>3, ValueTypes, MachineTypes DEF history, TypeOK
<1>12. ASSUME audit PROVE TypeOK'
  <2>1. UNCHANGED lastSecret /\ filed' \in 0..lastSecret
    BY <1>12 DEF audit, TypeOK
  <2> QED
    BY <1>12, <2>1, SameTypes DEF audit, agentVars, history, TypeOK
<1>13. ASSUME ServerCrash PROVE TypeOK'
  <2>1. UNCHANGED <<disk, lastSecret, spent, shown, asked, config, hand, now, saveFailures,
                    acked, deleted, filed>>
        /\ mem' = disk
    BY <1>13 DEF ServerCrash, agentVars, history
  <2>2. undone' \subseteq 1..lastSecret
    BY <1>13 DEF ServerCrash, TypeOK
  <2>3. States' = States /\ Receipts' = Receipts /\ Identities' = Identities
    BY <2>1, SameTypes
  <2> QED
    BY <2>1, <2>2, <2>3 DEF TypeOK
<1>14. ASSUME Tick PROVE TypeOK'
  <2>1. UNCHANGED lastSecret /\ now' \in 0..MaxTime
    BY <1>14, EnrollmentConstants DEF Tick, serverVars, TypeOK
  <2> QED
    BY <1>14, <2>1, SameTypes DEF Tick, serverVars, agentVars, history, files, TypeOK
<1>15. CASE UNCHANGED vars
  <2>1. UNCHANGED lastSecret
    BY <1>15 DEF vars, serverVars
  <2> QED
    BY <1>15, <2>1, SameTypes DEF vars, serverVars, agentVars, history, files, TypeOK
<1> QED
  BY <1>1, <1>2, <1>3, <1>4, <1>5, <1>6, <1>7, <1>8, <1>9, <1>10, <1>11, <1>12, <1>13,
     <1>14, <1>15 DEF Next, AdminStep, RegisterStep, MachineStep
-----------------------------------------------------------------------------
(* The answers that stand. *)

LEMMA StandingType ==
    ASSUME TypeOK
    PROVE  Standing \in [Machines \X Tokens -> Receipts]
  BY ValueTypes DEF Standing, TypeOK

LEMMA StandingSame ==
    ASSUME UNCHANGED <<acked, undone>>
    PROVE  Standing' = Standing
  BY DEF Standing

LEMMA StandingAnswered ==
    ASSUME TypeOK, NEW k \in Machines \X Tokens, NEW rec, acked' = [acked EXCEPT ![k] = rec],
           UNCHANGED undone, rec.secret \notin undone
    PROVE  Standing' = [Standing EXCEPT ![k] = rec]
  BY DEF Standing, TypeOK

\* One that has a node is the last answer.
LEMMA StandingIsAnswer ==
    ASSUME NEW k \in Machines \X Tokens
    PROVE  /\ Standing[k].node # NoNode => Standing[k] = acked[k] /\ acked[k].secret \notin undone
           /\ acked[k].secret \notin undone => Standing[k] = acked[k]
  BY DEF Standing, NoReceipt
-----------------------------------------------------------------------------
(* The invariant, for the steps that make no identity and answer nobody: the *)
(* administrator's, the maintenance, an audit, the clock.                    *)

\* What a save that succeeds, fails or is not tried does to the file.
Saving ==
    /\ saveFailures' = 0 => disk' = mem' /\ saveFailures = 0
    /\ \/ disk' = disk /\ filed' = filed
       \/ disk' = mem' /\ filed' = lastSecret'
    /\ undone' = undone

ServerChange ==
    /\ UNCHANGED <<lastSecret, config, hand, acked, Standing>>
    /\ now <= now'
    /\ spent \subseteq spent' /\ deleted \subseteq deleted'
    /\ Saving
    /\ \A n \in NodeIds :
          \/ /\ mem'.nodes[n].known = mem.nodes[n].known
             /\ mem'.nodes[n].secret = mem.nodes[n].secret
             /\ n \in deleted' <=> n \in deleted
          \/ /\ mem'.nodes[n].known /\ mem'.nodes[n].secret = 0
             /\ n \notin spent /\ n \in spent'
             /\ n \notin deleted'
          \/ ~mem'.nodes[n].known /\ n \in spent' /\ n \in deleted'
    /\ \A n \in NodeIds : /\ mem'.nodes[n].secret \in {mem.nodes[n].secret, 0}
                          /\ mem'.nodes[n].previous \in {mem.nodes[n].previous, 0}
    /\ \A t \in Tokens :
          \/ mem'.tokens[t] = mem.tokens[t]
          \/ mem'.tokens[t].kind = "none"
          \/ /\ t \notin spent /\ t \in spent'
             /\ \/ /\ mem'.tokens[t].kind = "oneTime" /\ mem'.tokens[t].node \in NodeIds
                   /\ t \in OneTimeTokens
                \/ mem'.tokens[t].kind = "reusable" /\ t \in CommonTokens
    /\ \A k \in Keys :
          \/ mem'.receipts[k] = mem.receipts[k]
          \/ mem'.receipts[k] = NoReceipt /\ now > mem.receipts[k].until

\* The file stays consistent while it stays as it is.
LEMMA FileKept ==
    ASSUME FileInv, UNCHANGED disk, spent \subseteq spent', deleted \subseteq deleted',
           lastSecret \in Nat, lastSecret' \in Nat, lastSecret <= lastSecret'
    PROVE  FileInv'
<1>1. \A n, x : Issued(n, x) => Issued(n, x)'
  BY DEF Issued
<1>2. /\ \A n \in NodeIds : disk'.nodes[n].known => n \in spent'
      /\ \A t \in OneTimeTokens, e1, e2 \in EnrollmentIds :
            disk'.receipts[<<t, e1>>].node # NoNode /\ disk'.receipts[<<t, e2>>].node # NoNode
            => e1 = e2
  BY DEF FileInv
<1>3. \A t \in Tokens :
         /\ disk'.tokens[t].kind = "oneTime" =>
               t \in OneTimeTokens /\ disk'.tokens[t].node \in NodeIds
         /\ disk'.tokens[t].kind = "reusable" => t \in CommonTokens
         /\ disk'.tokens[t].kind # "none" => t \in spent'
         /\ t \notin spent' \/ disk'.tokens[t].kind = "oneTime" =>
               \A e \in EnrollmentIds : disk'.receipts[<<t, e>>].node = NoNode
  BY DEF FileInv
<1>4. \A k \in Keys : disk'.receipts[k].node # NoNode =>
         /\ Issued(disk.receipts[k].node, disk.receipts[k].secret)'
         /\ IF disk'.nodes[disk'.receipts[k].node].known
              THEN disk'.receipts[k].secret <= disk'.nodes[disk'.receipts[k].node].secret
              ELSE disk'.receipts[k].node \in deleted'
  BY <1>1 DEF FileInv
<1> QED
  BY <1>2, <1>3, <1>4 DEF FileInv

\* A file that was just written is as consistent as memory.
LEMMA FileSaved ==
    ASSUME disk' = mem', NodeInv', TokenInv', CarrierInv', OnceInv', OwnInv'
    PROVE  FileInv' /\ FileOwnInv'
<1> USE DEF Node, Token, Receipt
<1>1. /\ \A n \in NodeIds : disk'.nodes[n].known => n \in spent'
      /\ \A t \in OneTimeTokens, e1, e2 \in EnrollmentIds :
            disk'.receipts[<<t, e1>>].node # NoNode /\ disk'.receipts[<<t, e2>>].node # NoNode
            => e1 = e2
  BY DEF NodeInv, OnceInv
<1>2. \A t \in Tokens :
         /\ disk'.tokens[t].kind = "oneTime" =>
               t \in OneTimeTokens /\ disk'.tokens[t].node \in NodeIds
         /\ disk'.tokens[t].kind = "reusable" => t \in CommonTokens
         /\ disk'.tokens[t].kind # "none" => t \in spent'
         /\ t \notin spent' \/ disk'.tokens[t].kind = "oneTime" =>
               \A e \in EnrollmentIds : disk'.receipts[<<t, e>>].node = NoNode
  BY DEF TokenInv
<1>3. \A k \in Keys : disk'.receipts[k].node # NoNode =>
         /\ Issued(disk.receipts[k].node, disk.receipts[k].secret)'
         /\ IF disk'.nodes[disk'.receipts[k].node].known
              THEN disk'.receipts[k].secret <= disk'.nodes[disk'.receipts[k].node].secret
              ELSE disk'.receipts[k].node \in deleted'
  BY DEF CarrierInv, Made, NodeInv, Issued
<1>4. FileInv'
  BY <1>1, <1>2, <1>3 DEF FileInv
<1>5. FileOwnInv'
  BY DEF OwnInv, FileOwnInv
<1> QED
  BY <1>4, <1>5

LEMMA ServerChangeKeeps == IInv /\ TypeOK' /\ ServerChange => CoreInv'
<1> SUFFICES ASSUME IInv, TypeOK', ServerChange PROVE CoreInv'
  OBVIOUS
<1> USE DEF Node, Token, Receipt
<1>1. /\ TypeOK /\ DiskInv /\ NodeInv /\ TokenInv /\ CarrierInv
      /\ CurrentInv /\ ReplyInv /\ OnceInv /\ OwnInv /\ FileInv /\ FileOwnInv
  BY DEF IInv, CoreInv
<1>2. \A m \in Machines : Holds(m)' = Holds(m)
  BY DEF ServerChange, Holds
<1>3. \A k \in Keys : mem'.receipts[k].node # NoNode => mem'.receipts[k] = mem.receipts[k]
  BY DEF ServerChange, NoReceipt
<1>4. UNCHANGED <<lastSecret, Standing>>
  BY DEF ServerChange
<1>5. DiskInv'
  BY DEF ServerChange, Saving, DiskInv
<1>6. NodeInv'
  BY <1>1 DEF ServerChange, NodeInv
<1>7. TokenInv'
  <2> SUFFICES ASSUME NEW t \in Tokens
               PROVE  /\ mem'.tokens[t].kind = "oneTime" =>
                            t \in OneTimeTokens /\ mem'.tokens[t].node \in NodeIds
                      /\ mem'.tokens[t].kind = "reusable" => t \in CommonTokens
                      /\ mem'.tokens[t].kind # "none" => t \in spent'
                      /\ t \notin spent' \/ mem'.tokens[t].kind = "oneTime" =>
                            /\ \A e \in EnrollmentIds : mem'.receipts[<<t, e>>].node = NoNode
                            /\ \A m \in Machines : Standing'[<<m, t>>].node = NoNode
    BY DEF TokenInv
  <2>1. /\ mem'.tokens[t].kind = "oneTime" =>
              t \in OneTimeTokens /\ mem'.tokens[t].node \in NodeIds
        /\ mem'.tokens[t].kind = "reusable" => t \in CommonTokens
        /\ mem'.tokens[t].kind # "none" => t \in spent'
    BY <1>1 DEF ServerChange, TokenInv
  <2>2. t \notin spent' \/ mem'.tokens[t].kind = "oneTime" =>
           t \notin spent \/ mem.tokens[t].kind = "oneTime"
    BY <1>1 DEF ServerChange
  <2>3. \A e \in EnrollmentIds : <<t, e>> \in Keys
    BY DEF Keys
  <2> QED
    BY <1>1, <1>3, <1>4, <2>1, <2>2, <2>3 DEF TokenInv
<1>8. /\ \A n, x : Issued(n, x) => Issued(n, x)'
      /\ \A n, x : Made(n, x) => Made(n, x)'
  BY <1>1 DEF ServerChange, Made, Issued, NodeInv
<1>9. CarrierInv'
  <2>1. \A k \in Keys : mem'.receipts[k].node # NoNode =>
           Made(mem'.receipts[k].node, mem'.receipts[k].secret)
    BY <1>1, <1>3 DEF CarrierInv
  <2>2. \A m \in Machines : \A id \in Holds(m)' :
           /\ Issued(id.node, id.secret)
           /\ saveFailures' = 0 => Made(id.node, id.secret)
    BY <1>1, <1>2 DEF CarrierInv, ServerChange, Saving
  <2> QED
    BY <1>8, <2>1, <2>2 DEF CarrierInv
<1>10. CurrentInv'
  <2> SUFFICES ASSUME saveFailures' = 0, NEW n \in NodeIds, mem'.nodes[n].known
               PROVE  \/ NeverReplaced(n)'
                      \/ \E k \in Machines \X OneTimeTokens :
                            Standing'[k].node = n /\ Standing'[k].secret = mem'.nodes[n].secret
    BY DEF CurrentInv
  <2>1. CASE mem.nodes[n].known /\ mem'.nodes[n].secret = mem.nodes[n].secret
    <3>1. NeverReplaced(n) => NeverReplaced(n)'
      <4> SUFFICES ASSUME NeverReplaced(n)
                   PROVE  /\ \A k \in Keys : mem'.receipts[k].node = n =>
                                mem'.receipts[k].secret = mem'.nodes[n].secret
                          /\ \A m \in Machines : \A id \in Holds(m)' : id.node = n =>
                                id.secret = mem'.nodes[n].secret
        BY DEF NeverReplaced
      <4>1. n # NoNode
        BY EnrollmentConstants
      <4> QED
        BY <1>2, <1>3, <2>1, <4>1 DEF NeverReplaced
    <3> QED
      BY <1>1, <1>4, <2>1, <3>1 DEF CurrentInv, ServerChange, Saving
  <2>2. CASE n \notin spent
    <3>1. \A k \in Keys : mem'.receipts[k].node # n
      BY <1>1, <1>3, <2>2, EnrollmentConstants DEF CarrierInv, Made, Issued
    <3>2. \A m \in Machines : \A id \in Holds(m)' : id.node # n
      BY <1>1, <1>2, <2>2 DEF CarrierInv, Issued
    <3> QED
      BY <3>1, <3>2 DEF NeverReplaced
  <2> QED
    BY <2>1, <2>2 DEF ServerChange
<1>11. ReplyInv'
  <2> SUFFICES ASSUME NEW m \in Machines, NEW t \in Tokens, Standing[<<m, t>>].node # NoNode
               PROVE  LET a == Standing[<<m, t>>] IN
                      /\ a.node \in spent'
                      /\ a.until > now' /\ mem'.nodes[a.node].known =>
                            mem'.receipts[Key(m, t)] = a
                      /\ t \in OneTimeTokens /\ mem'.receipts[Key(m, t)].node # NoNode =>
                            mem'.receipts[Key(m, t)] = a
    BY <1>4 DEF ReplyInv, Key
  <2> DEFINE a == Standing[<<m, t>>]
             r == mem.receipts[Key(m, t)]
  <2>1. /\ a.node \in spent
        /\ a.until > now /\ mem.nodes[a.node].known => r = a
        /\ t \in OneTimeTokens /\ r.node # NoNode => r = a
    BY <1>1 DEF ReplyInv
  <2>2. a \in Receipts /\ now \in Nat /\ now' \in Nat
    BY <1>1, StandingType, EnrollmentConstants DEF TypeOK
  <2>3. a.node \in NodeIds /\ a.until \in Nat
    BY <2>2 DEF Receipts
  <2>4. Key(m, t) \in Keys
    BY KeyType
  <2>5. \/ mem'.receipts[Key(m, t)] = r
        \/ mem'.receipts[Key(m, t)] = NoReceipt /\ now > r.until
    BY <2>4 DEF ServerChange
  <2>6. now <= now' /\ spent \subseteq spent'
    BY DEF ServerChange
  <2>7. mem'.nodes[a.node].known => mem.nodes[a.node].known
    BY <2>1, <2>3 DEF ServerChange
  <2>8. a.until > now' => a.until > now /\ ~(now > a.until)
    BY <2>2, <2>3, <2>6
  <2> HIDE DEF a, r
  <2>9. a.until > now' /\ mem'.nodes[a.node].known => mem'.receipts[Key(m, t)] = a
    BY <2>1, <2>5, <2>7, <2>8
  <2>10. mem'.receipts[Key(m, t)].node # NoNode => mem'.receipts[Key(m, t)] = r
    BY <2>5 DEF NoReceipt
  <2> QED
    BY <2>1, <2>6, <2>9, <2>10 DEF a
<1>12. OnceInv'
  <2>1. \A t \in OneTimeTokens, e \in EnrollmentIds : <<t, e>> \in Keys
    BY DEF Keys, Tokens
  <2> QED
    BY <1>1, <1>3, <1>4, <2>1 DEF OnceInv
<1>13. OwnInv'
  BY <1>1, <1>2, <1>3 DEF OwnInv
<1>14. FileInv' /\ FileOwnInv'
  <2>1. CASE disk' = mem'
    BY <1>6, <1>7, <1>9, <1>12, <1>13, <2>1, FileSaved
  <2>2. CASE disk' = disk
    <3>1. lastSecret \in Nat /\ lastSecret' = lastSecret
          /\ spent \subseteq spent' /\ deleted \subseteq deleted'
      BY <1>1 DEF ServerChange, TypeOK
    <3>2. FileInv'
      BY <1>1, <2>2, <3>1, FileKept
    <3>3. FileOwnInv'
      BY <1>1, <1>2, <1>3, <2>2 DEF FileOwnInv
    <3> QED
      BY <3>2, <3>3
  <2> QED
    BY <2>1, <2>2 DEF ServerChange, Saving
<1> QED
  BY <1>5, <1>6, <1>7, <1>9, <1>10, <1>11, <1>12, <1>13, <1>14 DEF CoreInv

\* A save that succeeds, or fails and is counted.
LEMMA SaveEffect ==
    ASSUME TypeOK, NEW saved \in BOOLEAN, Save(saved)
    PROVE  Saving /\ (saveFailures' = 0 => saved) /\ undone' = undone
<1>1. saveFailures \in Nat
  BY DEF TypeOK
<1> QED
  BY <1>1 DEF Save, Saving

\* The tokens that are deleted are none afterwards.
LEMMA WithoutEffect ==
    ASSUME NEW gone, NEW t \in Tokens
    PROVE  Without(mem.tokens, gone)[t] = mem.tokens[t]
           \/ Without(mem.tokens, gone)[t].kind = "none"
  BY DEF Without, NoEnrollment

LEMMA ServerSteps ==
    ASSUME IInv,
           \/ \E saved \in BOOLEAN : AdminStep(saved) \/ maintenance(saved)
           \/ audit \/ Tick \/ UNCHANGED vars
    PROVE  ServerChange
<1>1. TypeOK /\ DiskInv /\ NodeInv
  BY DEF IInv, CoreInv
<1>2. now \in Nat /\ saveFailures \in Nat
  BY <1>1 DEF TypeOK
<1>3. mem.nodes \in [NodeIds -> Nodes] /\ mem.tokens \in [Tokens -> Enrollments]
      /\ OneTimeTokens \subseteq Tokens /\ CommonTokens \subseteq Tokens
  BY <1>1, Parts DEF TypeOK, Tokens
<1>4. ASSUME NEW n \in NodeIds, NEW t \in OneTimeTokens, NEW saved \in BOOLEAN,
             createNode(n, t, saved) PROVE ServerChange
  <2>1. /\ mem'.nodes = [mem.nodes EXCEPT ![n] = Created]
        /\ mem'.tokens = [mem.tokens EXCEPT ![t] = OneTime(n)]
        /\ mem'.receipts = mem.receipts
    BY <1>1, <1>4, CreateType
  <2>2. /\ UNCHANGED <<lastSecret, config, hand, acked, now, deleted>> /\ Save(saved)
        /\ spent' = spent \cup {n, t} /\ n \notin spent /\ t \notin spent
    BY <1>4 DEF createNode, agentVars, history
  <2>3. n \notin deleted
    BY <1>1, <2>2 DEF NodeInv
  <2>4. Saving /\ Standing' = Standing
    BY <1>1, <2>2, SaveEffect, StandingSame
  <2>5. /\ mem'.nodes[n].known /\ mem'.nodes[n].secret = 0 /\ mem'.nodes[n].previous = 0
        /\ \A o \in NodeIds \ {n} : mem'.nodes[o] = mem.nodes[o]
    BY <1>3, <2>1 DEF Created, Unknown
  <2>6. /\ mem'.tokens[t].kind = "oneTime" /\ mem'.tokens[t].node = n
        /\ \A o \in Tokens \ {t} : mem'.tokens[o] = mem.tokens[o]
    BY <1>3, <2>1 DEF OneTime
  <2> QED
    BY <1>2, <2>1, <2>2, <2>3, <2>4, <2>5, <2>6 DEF ServerChange
<1>5. ASSUME NEW n \in NodeIds, NEW t \in OneTimeTokens, NEW saved \in BOOLEAN,
             reenrollNode(n, t, saved) PROVE ServerChange
  <2>1. /\ mem'.nodes = mem.nodes
        /\ mem'.tokens = [Without(mem.tokens, TokensFor(n)) EXCEPT ![t] = OneTime(n)]
        /\ mem'.receipts = mem.receipts
    BY <1>1, <1>5, ReenrollType
  <2>2. /\ UNCHANGED <<lastSecret, config, hand, acked, now, deleted>> /\ Save(saved)
        /\ spent' = spent \cup {t} /\ t \notin spent
    BY <1>5 DEF reenrollNode, agentVars, history
  <2>3. Without(mem.tokens, TokensFor(n)) \in [Tokens -> Enrollments]
    BY <1>1, WithoutType
  <2>4. \A o \in Tokens \ {t} :
           mem'.tokens[o] = mem.tokens[o] \/ mem'.tokens[o].kind = "none"
    BY <1>3, <2>1, <2>3, WithoutEffect
  <2>5. mem'.tokens[t].kind = "oneTime" /\ mem'.tokens[t].node \in NodeIds
    BY <1>3, <2>1, <2>3 DEF OneTime
  <2>6. Saving /\ Standing' = Standing
    BY <1>1, <2>2, SaveEffect, StandingSame
  <2> QED
    BY <1>2, <2>1, <2>2, <2>4, <2>5, <2>6 DEF ServerChange
<1>6. ASSUME NEW n \in NodeIds, NEW saved \in BOOLEAN, deleteNode(n, saved) PROVE ServerChange
  <2>1. /\ mem'.nodes = [mem.nodes EXCEPT ![n] = Unknown]
        /\ mem'.tokens = Without(mem.tokens, TokensFor(n))
        /\ mem'.receipts = mem.receipts
    BY <1>1, <1>6, DeleteType
  <2>2. /\ UNCHANGED <<lastSecret, config, hand, acked, now, spent>> /\ Save(saved)
        /\ mem.nodes[n].known /\ deleted' = deleted \cup {n}
    BY <1>6 DEF deleteNode, agentVars
  <2>3. n \in spent
    BY <1>1, <2>2 DEF NodeInv, Node
  <2>4. Saving /\ Standing' = Standing
    BY <1>1, <2>2, SaveEffect, StandingSame
  <2>5. /\ ~mem'.nodes[n].known /\ mem'.nodes[n].secret = 0 /\ mem'.nodes[n].previous = 0
        /\ \A o \in NodeIds \ {n} : mem'.nodes[o] = mem.nodes[o]
    BY <1>3, <2>1 DEF Unknown
  <2>6. \A o \in NodeIds \ {n} : o \in deleted' <=> o \in deleted
    BY <2>2
  <2> QED
    BY <1>2, <2>1, <2>2, <2>3, <2>4, <2>5, <2>6, WithoutEffect DEF ServerChange
<1>7. ASSUME NEW t \in CommonTokens, NEW ttl \in CommonTTLs, NEW saved \in BOOLEAN,
             setCommonEnrollment(t, ttl, saved) PROVE ServerChange
  <2>1. /\ mem'.nodes = mem.nodes
        /\ mem'.tokens = [Without(mem.tokens, ReusableTokens) EXCEPT ![t] = Reusable(ttl)]
        /\ mem'.receipts = mem.receipts
    BY <1>1, <1>7, SetCommonType
  <2>2. /\ UNCHANGED <<lastSecret, config, hand, acked, now, deleted>> /\ Save(saved)
        /\ spent' = spent \cup {t} /\ t \notin spent
    BY <1>7 DEF setCommonEnrollment, agentVars, history
  <2>3. Without(mem.tokens, ReusableTokens) \in [Tokens -> Enrollments]
    BY <1>1, WithoutType
  <2>4. \A o \in Tokens \ {t} :
           mem'.tokens[o] = mem.tokens[o] \/ mem'.tokens[o].kind = "none"
    BY <1>3, <2>1, <2>3, WithoutEffect
  <2>5. mem'.tokens[t].kind = "reusable"
    BY <1>3, <2>1, <2>3 DEF Reusable
  <2>6. Saving /\ Standing' = Standing
    BY <1>1, <2>2, SaveEffect, StandingSame
  <2> QED
    BY <1>2, <2>1, <2>2, <2>4, <2>5, <2>6 DEF ServerChange
<1>8. ASSUME NEW saved \in BOOLEAN, revokeCommonEnrollment(saved) PROVE ServerChange
  <2>1. /\ mem'.nodes = mem.nodes /\ mem'.receipts = mem.receipts
        /\ mem'.tokens = Without(mem.tokens, ReusableTokens)
    BY <1>1, <1>8, RevokeCommonType
  <2>2. UNCHANGED <<lastSecret, config, hand, acked, now, spent, deleted>> /\ Save(saved)
    BY <1>8 DEF revokeCommonEnrollment, agentVars, history
  <2>3. Saving /\ Standing' = Standing
    BY <1>1, <2>2, SaveEffect, StandingSame
  <2> QED
    BY <1>2, <2>1, <2>2, <2>3, WithoutEffect DEF ServerChange
<1>9. ASSUME NEW saved \in BOOLEAN, maintenance(saved) PROVE ServerChange
  <2>1. UNCHANGED <<lastSecret, config, hand, acked, now, spent, deleted>> /\ Save(saved)
        /\ mem' = Expired
    BY <1>9 DEF maintenance, agentVars, history
  <2>2. Saving /\ Standing' = Standing
    BY <1>1, <2>1, SaveEffect, StandingSame
  <2> QED
    BY <1>1, <1>2, <2>1, <2>2, ExpiredType DEF ServerChange, NoEnrollment
<1>10. ASSUME audit \/ Tick \/ UNCHANGED vars PROVE ServerChange
  <2>1. /\ UNCHANGED <<mem, lastSecret, config, hand, acked, spent, deleted, saveFailures, undone>>
        /\ now <= now'
        /\ \/ disk' = disk /\ filed' = filed
           \/ disk' = mem /\ filed' = lastSecret
    BY <1>1, <1>2, <1>10
    DEF audit, Tick, vars, serverVars, agentVars, history, files, DiskInv
  <2>2. Saving /\ Standing' = Standing
    BY <1>1, <2>1, StandingSame DEF Saving, DiskInv
  <2> QED
    BY <2>1, <2>2 DEF ServerChange
<1> QED
  BY <1>4, <1>5, <1>6, <1>7, <1>8, <1>9, <1>10 DEF AdminStep
-----------------------------------------------------------------------------
(* For the steps of a machine by itself. *)

MachineChange ==
    /\ UNCHANGED <<mem, disk, lastSecret, spent, now, saveFailures, Standing, acked, deleted,
                   filed, undone>>
    /\ \A a \in Machines : Holds(a)' \subseteq Holds(a)

LEMMA MachineChangeKeeps == IInv /\ TypeOK' /\ MachineChange => CoreInv'
<1> SUFFICES ASSUME IInv, TypeOK', MachineChange PROVE CoreInv'
  OBVIOUS
<1> USE DEF Node, Token, Receipt
<1>1. /\ TypeOK /\ DiskInv /\ NodeInv /\ TokenInv /\ CarrierInv
      /\ CurrentInv /\ ReplyInv /\ OnceInv /\ OwnInv /\ FileInv /\ FileOwnInv
  BY DEF IInv, CoreInv
<1>2. UNCHANGED <<mem, disk, lastSecret, spent, now, saveFailures, Standing, deleted>>
      /\ \A a \in Machines : \A id \in Holds(a)' : id \in Holds(a)
  BY DEF MachineChange
<1>3. DiskInv' /\ NodeInv' /\ TokenInv'
  BY <1>1, <1>2 DEF DiskInv, NodeInv, TokenInv
<1>4. CarrierInv'
  BY <1>1, <1>2 DEF CarrierInv, Made, Issued
<1>5. CurrentInv'
  <2>1. \A n \in NodeIds : NeverReplaced(n) => NeverReplaced(n)'
    BY <1>2 DEF NeverReplaced
  <2> QED
    BY <1>1, <1>2, <2>1 DEF CurrentInv
<1>6. ReplyInv' /\ OnceInv'
  BY <1>1, <1>2 DEF ReplyInv, OnceInv, Key
<1>7. OwnInv'
  BY <1>1, <1>2 DEF OwnInv
<1>8. FileInv'
  BY <1>1, <1>2, FileKept DEF TypeOK
<1>9. FileOwnInv'
  BY <1>1, <1>2 DEF FileOwnInv
<1> QED
  BY <1>3, <1>4, <1>5, <1>6, <1>7, <1>8, <1>9 DEF CoreInv

LEMMA MachineSteps ==
    ASSUME TypeOK, NEW m \in Machines,
           \/ \E t \in Tokens : Bind(m, t)
           \/ Adopt(m) \/ Reject(m) \/ AgentCrash(m)
    PROVE  MachineChange
<1>1. UNCHANGED <<mem, disk, lastSecret, spent, now, saveFailures, acked, deleted,
                  filed, undone>>
  BY DEF Bind, Adopt, Reject, AgentCrash, serverVars, history, files
<1>2. hand' = [hand EXCEPT ![m] = NoIdentity]
  BY DEF Bind, Adopt, Reject, AgentCrash
<1>3. /\ \A a \in Machines \ {m} : config'[a] = config[a]
      /\ config'[m].id = config[m].id \/ config'[m].id = hand[m]
  BY DEF Bind, Adopt, Reject, AgentCrash, TypeOK
<1>4. \A a \in Machines : Holds(a)' \subseteq Holds(a)
  BY <1>2, <1>3 DEF Holds, TypeOK
<1> QED
  BY <1>1, <1>4, StandingSame DEF MachineChange

-----------------------------------------------------------------------------
(* For the retry of a registration that was answered. *)

AgainChange(m, t) ==
    LET rec == mem.receipts[Key(m, t)] IN
    /\ UNCHANGED <<mem, disk, lastSecret, spent, now, saveFailures, deleted, filed, undone>>
    /\ rec.node # NoNode
    /\ acked' = [acked EXCEPT ![<<m, t>>] = rec]
    /\ Standing' = [Standing EXCEPT ![<<m, t>>] = rec]
    /\ \A a \in Machines \ {m} : Holds(a)' = Holds(a)
    /\ \A id \in Holds(m)' : \/ id \in Holds(m)
                             \/ id.node = rec.node /\ id.secret = rec.secret

LEMMA AgainChangeKeeps ==
    ASSUME IInv, TypeOK', NEW m \in Machines, NEW t \in Tokens, AgainChange(m, t)
    PROVE  CoreInv'
<1> USE DEF Node, Token, Receipt
<1> DEFINE key == Key(m, t)
           rec == mem.receipts[key]
<1>1. /\ TypeOK /\ DiskInv /\ NodeInv /\ TokenInv /\ CarrierInv
      /\ CurrentInv /\ ReplyInv /\ OnceInv /\ OwnInv /\ FileInv /\ FileOwnInv
  BY DEF IInv, CoreInv
<1>2. UNCHANGED <<mem, disk, lastSecret, spent, now, saveFailures, deleted>>
      /\ rec.node # NoNode
  BY DEF AgainChange
<1>3. key \in Keys /\ key[1] = t /\ key[2] = EnrollmentID[m] /\ key = <<t, EnrollmentID[m]>>
      /\ EnrollmentID[m] \in EnrollmentIds
  BY KeyType, EnrollmentConstants DEF Key
<1>4. /\ Standing'[<<m, t>>] = rec
      /\ \A a \in Machines, o \in Tokens : <<a, o>> # <<m, t>> =>
            Standing'[<<a, o>>] = Standing[<<a, o>>]
  BY <1>1, StandingType DEF AgainChange
<1>5. \A a \in Machines : \A id \in Holds(a)' :
         \/ id \in Holds(a)
         \/ a = m /\ id.node = rec.node /\ id.secret = rec.secret
  BY DEF AgainChange
<1> HIDE DEF rec, key
<1>6. Made(rec.node, rec.secret)
  BY <1>1, <1>2, <1>3 DEF CarrierInv, rec
<1>7. DiskInv' /\ NodeInv'
  BY <1>1, <1>2 DEF DiskInv, NodeInv
<1>8. TokenInv'
  <2>1. t \in spent /\ Token(t).kind # "oneTime"
    BY <1>1, <1>2, <1>3 DEF TokenInv, rec
  <2>2. \A o \in Tokens : o \notin spent \/ Token(o).kind = "oneTime" =>
           \A a \in Machines : Standing'[<<a, o>>] = Standing[<<a, o>>]
    BY <1>4, <2>1
  <2> QED
    BY <1>1, <1>2, <2>2 DEF TokenInv
<1>9. CarrierInv'
  <2>1. \A n, x : (Issued(n, x) => Issued(n, x)') /\ (Made(n, x) => Made(n, x)')
    BY <1>2 DEF Made, Issued
  <2>2. \A a \in Machines : \A id \in Holds(a)' :
           /\ Issued(id.node, id.secret)
           /\ saveFailures = 0 => Made(id.node, id.secret)
    BY <1>1, <1>5, <1>6 DEF CarrierInv, Made
  <2> QED
    BY <1>1, <1>2, <2>1, <2>2 DEF CarrierInv
<1>10. CurrentInv'
  <2>1. \A n \in NodeIds : NeverReplaced(n) => NeverReplaced(n)'
    BY <1>2, <1>3, <1>5 DEF NeverReplaced, rec
  <2>2. \A k \in Machines \X OneTimeTokens : Standing[k].node # NoNode => Standing'[k] = Standing[k]
    <3> SUFFICES ASSUME NEW a \in Machines, NEW o \in OneTimeTokens, Standing[<<a, o>>].node # NoNode
                 PROVE  Standing'[<<a, o>>] = Standing[<<a, o>>]
      OBVIOUS
    <3>1. CASE <<a, o>> = <<m, t>>
      BY <1>1, <1>2, <1>3, <1>4, <3>1 DEF ReplyInv, rec, key
    <3>2. CASE <<a, o>> # <<m, t>>
      BY <1>4, <3>2 DEF Tokens
    <3> QED
      BY <3>1, <3>2
  <2> QED
    BY <1>1, <1>2, <2>1, <2>2, EnrollmentConstants DEF CurrentInv
<1>11. ReplyInv'
  <2> SUFFICES ASSUME NEW a \in Machines, NEW o \in Tokens, Standing'[<<a, o>>].node # NoNode
               PROVE  LET r == Standing'[<<a, o>>] IN
                      /\ r.node \in spent
                      /\ r.until > now /\ mem.nodes[r.node].known =>
                            mem.receipts[Key(a, o)] = r
                      /\ o \in OneTimeTokens /\ mem.receipts[Key(a, o)].node # NoNode =>
                            mem.receipts[Key(a, o)] = r
    BY <1>2 DEF ReplyInv, Key
  <2>1. CASE <<a, o>> = <<m, t>>
    BY <1>4, <1>6, <2>1 DEF Made, Issued, rec, key
  <2>2. CASE <<a, o>> # <<m, t>>
    BY <1>1, <1>4, <2>2 DEF ReplyInv
  <2> QED
    BY <2>1, <2>2
<1>12. OnceInv'
  <2> SUFFICES ASSUME NEW o \in OneTimeTokens
               PROVE  /\ \A e1, e2 \in EnrollmentIds :
                            mem.receipts[<<o, e1>>].node # NoNode
                            /\ mem.receipts[<<o, e2>>].node # NoNode => e1 = e2
                      /\ \A a \in Machines, e \in EnrollmentIds :
                            Standing'[<<a, o>>].node # NoNode
                            /\ mem.receipts[<<o, e>>].node # NoNode => e = EnrollmentID[a]
                      /\ \A a, b \in Machines :
                            Standing'[<<a, o>>].node # NoNode /\ Standing'[<<b, o>>].node # NoNode =>
                               /\ EnrollmentID[a] = EnrollmentID[b]
                               /\ Standing'[<<a, o>>] = Standing'[<<b, o>>]
    BY <1>2 DEF OnceInv
  <2>1. /\ \A e1, e2 \in EnrollmentIds :
              mem.receipts[<<o, e1>>].node # NoNode
              /\ mem.receipts[<<o, e2>>].node # NoNode => e1 = e2
        /\ \A a \in Machines, e \in EnrollmentIds :
              Standing[<<a, o>>].node # NoNode
              /\ mem.receipts[<<o, e>>].node # NoNode => e = EnrollmentID[a]
        /\ \A a, b \in Machines :
              Standing[<<a, o>>].node # NoNode /\ Standing[<<b, o>>].node # NoNode =>
                 EnrollmentID[a] = EnrollmentID[b] /\ Standing[<<a, o>>] = Standing[<<b, o>>]
    BY <1>1 DEF OnceInv
  <2>2. CASE o # t
    <3>1. \A a \in Machines : Standing'[<<a, o>>] = Standing[<<a, o>>]
      BY <1>4, <2>2 DEF Tokens
    <3> QED
      BY <2>1, <3>1
  <2>3. CASE o = t
    <3>1. mem.receipts[<<o, EnrollmentID[m]>>].node # NoNode
      BY <1>2, <1>3, <2>3 DEF rec
    \* Everybody's answer is the receipt.
    <3>2. \A a \in Machines : Standing'[<<a, o>>].node # NoNode =>
             EnrollmentID[a] = EnrollmentID[m] /\ Standing'[<<a, o>>] = rec
      <4> SUFFICES ASSUME NEW a \in Machines, Standing'[<<a, o>>].node # NoNode
                   PROVE  EnrollmentID[a] = EnrollmentID[m] /\ Standing'[<<a, o>>] = rec
        OBVIOUS
      <4>1. CASE a = m
        BY <1>4, <2>3, <4>1
      <4>2. CASE a # m
        <5>1. Standing'[<<a, o>>] = Standing[<<a, o>>]
          BY <1>4, <4>2 DEF Tokens
        <5>2. EnrollmentID[a] = EnrollmentID[m]
          BY <1>3, <2>1, <3>1, <4>2, <5>1
        <5>3. mem.receipts[Key(a, o)] = Standing[<<a, o>>]
          BY <1>1, <3>1, <5>1, <5>2 DEF ReplyInv, Key, Tokens
        <5>4. Key(a, o) = key
          BY <1>3, <2>3, <5>2 DEF Key
        <5> QED
          BY <5>1, <5>2, <5>3, <5>4 DEF rec
      <4> QED
        BY <4>1, <4>2
    <3> QED
      BY <1>3, <2>1, <3>1, <3>2
  <2> QED
    BY <2>2, <2>3
<1>13. OwnInv'
  <2>1. \A k \in Keys : mem.receipts[k].node # NoNode /\ mem.receipts[k].secret = rec.secret =>
           k[2] = EnrollmentID[m] /\ mem.receipts[k].node = rec.node
    BY <1>1, <1>2, <1>3 DEF OwnInv, rec
  <2>2. \A a \in Machines : \A id \in Holds(a) : id.secret = rec.secret =>
           EnrollmentID[a] = EnrollmentID[m] /\ id.node = rec.node
    BY <1>1, <1>2, <1>3 DEF OwnInv, rec
  <2>3. \A k1, k2 \in Keys :
           mem'.receipts[k1].node # NoNode /\ mem'.receipts[k2].node # NoNode
           /\ mem'.receipts[k1].secret = mem'.receipts[k2].secret =>
              k1[2] = k2[2] /\ mem'.receipts[k1].node = mem'.receipts[k2].node
    BY <1>1, <1>2 DEF OwnInv
  <2>4. \A a \in Machines, k \in Keys : \A id \in Holds(a)' :
           mem'.receipts[k].node # NoNode /\ mem'.receipts[k].secret = id.secret =>
              k[2] = EnrollmentID[a] /\ mem'.receipts[k].node = id.node
    BY <1>1, <1>2, <1>5, <2>1 DEF OwnInv
  <2>5. \A a, b \in Machines : \A id1 \in Holds(a)', id2 \in Holds(b)' :
           id1.secret = id2.secret =>
              EnrollmentID[a] = EnrollmentID[b] /\ id1.node = id2.node
    BY <1>1, <1>5, <2>2 DEF OwnInv
  <2> QED
    BY <2>3, <2>4, <2>5 DEF OwnInv
<1>14. FileInv'
  BY <1>1, <1>2, FileKept DEF TypeOK
<1>15. FileOwnInv'
  <2>1. \A k \in Keys : disk.receipts[k].node # NoNode /\ disk.receipts[k].secret = rec.secret
           => k[2] = EnrollmentID[m] /\ disk.receipts[k].node = rec.node
    BY <1>1, <1>2, <1>3 DEF FileOwnInv, rec
  <2>2. \A k \in Keys, a \in Machines : \A id \in Holds(a)' :
           disk.receipts[k].node # NoNode /\ id.secret = disk.receipts[k].secret
           => EnrollmentID[a] = k[2] /\ id.node = disk.receipts[k].node
    BY <1>1, <1>5, <2>1 DEF FileOwnInv
  <2> QED
    BY <1>1, <1>2, <2>2 DEF FileOwnInv
<1> QED
  BY <1>7, <1>8, <1>9, <1>10, <1>11, <1>12, <1>13, <1>14, <1>15 DEF CoreInv

LEMMA AgainSteps ==
    ASSUME IInv, NEW m \in Machines, NEW t \in Tokens, RegisterAgain(m, t)
    PROVE  AgainChange(m, t)
<1> DEFINE rec == mem.receipts[Key(m, t)]
<1>1. TypeOK /\ UndoneInv
  BY DEF IInv, CoreInv
<1>2. /\ UNCHANGED <<mem, disk, lastSecret, spent, now, saveFailures, deleted, config,
                     filed, undone>>
      /\ rec.node # NoNode /\ Answer(m, t, rec.node, rec.secret, rec.until)
  BY DEF RegisterAgain, HasReceipt, serverVars, files
<1>3. rec \in Receipts
  BY <1>1, KeyType, ReceiptType
<1>4. rec = [node |-> rec.node, secret |-> rec.secret, until |-> rec.until]
  BY <1>3 DEF Receipts
<1>5. acked' = [acked EXCEPT ![<<m, t>>] = rec]
  BY <1>2, <1>4 DEF Answer
<1>6. \/ hand' = hand
      \/ hand' = [hand EXCEPT ![m] = [node |-> rec.node, secret |-> rec.secret]]
  BY <1>2 DEF Answer
<1>7. hand \in [Machines -> Identities]
  BY <1>1 DEF TypeOK
<1>8. rec.secret \notin undone
  BY <1>1, KeyType DEF UndoneInv, SecretsIn
<1> HIDE DEF rec
<1>9. Standing' = [Standing EXCEPT ![<<m, t>>] = rec]
  BY <1>1, <1>2, <1>5, <1>8, StandingAnswered
<1>10. \A a \in Machines \ {m} : Holds(a)' = Holds(a)
  BY <1>2, <1>6, <1>7 DEF Holds
<1>11. \A id \in Holds(m)' : \/ id \in Holds(m)
                             \/ id.node = rec.node /\ id.secret = rec.secret
  BY <1>2, <1>6, <1>7 DEF Holds
<1> QED
  BY <1>2, <1>5, <1>9, <1>10, <1>11 DEF AgainChange, rec

-----------------------------------------------------------------------------
(* For a registration that makes an identity. *)

\* The token is used up and its node was there, or it is kept and the node is new.
UsesToken(t, n) ==
    \/ /\ mem.tokens[t].kind = "oneTime" /\ mem'.tokens[t].kind = "none"
       /\ mem.nodes[n].known /\ spent' = spent
    \/ /\ mem.tokens[t].kind = "reusable" /\ mem'.tokens[t] = mem.tokens[t]
       /\ n \notin spent /\ spent' = spent \cup {n}

EnrollChange(m, t, n) ==
    LET x == lastSecret + 1
        rec == [node |-> n, secret |-> x, until |-> now + ReceiptTTL]
    IN
    /\ ~HasReceipt(m, t)
    /\ UsesToken(t, n)
    /\ lastSecret' = x
    /\ UNCHANGED <<now, deleted>>
    /\ \A o \in NodeIds \ {n} : mem'.nodes[o] = mem.nodes[o]
    /\ mem'.nodes[n].known /\ mem'.nodes[n].secret = x
    /\ mem'.nodes[n].previous \in {mem.nodes[n].previous, mem.nodes[n].secret}
    /\ \A o \in Tokens \ {t} : mem'.tokens[o] = mem.tokens[o]
    /\ \A k \in Keys \ {Key(m, t)} : mem'.receipts[k] = mem.receipts[k]
    /\ mem'.receipts[Key(m, t)] = rec
    /\ \/ UNCHANGED <<acked, Standing>> /\ saveFailures' # 0
       \/ /\ acked' = [acked EXCEPT ![<<m, t>>] = rec]
          /\ Standing' = [Standing EXCEPT ![<<m, t>>] = rec]
    /\ Saving
    /\ \A a \in Machines \ {m} : Holds(a)' = Holds(a)
    /\ \A id \in Holds(m)' : id \in Holds(m) \/ (id.node = n /\ id.secret = x)

LEMMA EnrollSteps ==
    ASSUME IInv, NEW m \in Machines, NEW t \in Tokens, NEW n \in NodeIds,
           NEW e \in Enrollments, NEW saved \in BOOLEAN, Enroll(m, t, n, e, saved),
           ~HasReceipt(m, t),
           \/ /\ mem.tokens[t].kind = "oneTime" /\ e = NoEnrollment
              /\ mem.nodes[n].known /\ spent' = spent
           \/ /\ mem.tokens[t].kind = "reusable" /\ e = mem.tokens[t]
              /\ n \notin spent /\ spent' = spent \cup {n}
    PROVE  EnrollChange(m, t, n)
<1> DEFINE x == lastSecret + 1
           rec == [node |-> n, secret |-> x, until |-> now + ReceiptTTL]
<1>1. TypeOK
  BY DEF IInv, CoreInv
<1>2. /\ lastSecret' = x
      /\ \A o \in NodeIds \ {n} : mem'.nodes[o] = mem.nodes[o]
      /\ mem'.nodes[n].known /\ mem'.nodes[n].secret = x
      /\ mem'.nodes[n].previous \in {mem.nodes[n].previous, mem.nodes[n].secret}
      /\ mem'.tokens = [mem.tokens EXCEPT ![t] = e]
      /\ \A k \in Keys \ {Key(m, t)} : mem'.receipts[k] = mem.receipts[k]
      /\ mem'.receipts[Key(m, t)] = rec
  BY <1>1, EnrollType
<1>3. mem.tokens \in [Tokens -> Enrollments]
  BY <1>1, Parts DEF TypeOK
<1>4. \A o \in Tokens \ {t} : mem'.tokens[o] = mem.tokens[o]
  BY <1>2, <1>3
<1>5. mem'.tokens[t] = e
  BY <1>2, <1>3
<1>6. UsesToken(t, n)
  BY <1>5 DEF UsesToken, NoEnrollment
<1>7. UNCHANGED <<now, deleted, config>> /\ Save(saved)
  BY DEF Enroll
<1>8. Saving /\ (saveFailures' = 0 => saved) /\ undone' = undone
  BY <1>1, <1>7, SaveEffect
<1>9. \/ ~saved /\ acked' = acked
      \/ acked' = [acked EXCEPT ![<<m, t>>] = rec]
  BY DEF Enroll, Answer
<1>15. rec.secret \notin undone
  BY <1>1 DEF TypeOK
<1>10. hand' = hand \/ hand' = [hand EXCEPT ![m] = [node |-> n, secret |-> x]]
  BY DEF Enroll, Answer
<1>11. hand \in [Machines -> Identities]
  BY <1>1 DEF TypeOK
<1> HIDE DEF x
<1>12. \A a \in Machines \ {m} : Holds(a)' = Holds(a)
  BY <1>7, <1>10, <1>11 DEF Holds
<1>13. \A id \in Holds(m)' : id \in Holds(m) \/ (id.node = n /\ id.secret = x)
  <2> DEFINE new == [node |-> n, secret |-> x]
  <2>1. hand'[m] = hand[m] \/ hand'[m] = new
    BY <1>10, <1>11
  <2>2. new.node = n /\ new.secret = x
    OBVIOUS
  <2> HIDE DEF new
  <2> QED
    BY <1>7, <2>1, <2>2 DEF Holds
<1> HIDE DEF rec
<1>14. \/ UNCHANGED <<acked, Standing>> /\ saveFailures' # 0
       \/ /\ acked' = [acked EXCEPT ![<<m, t>>] = rec]
          /\ Standing' = [Standing EXCEPT ![<<m, t>>] = rec]
  BY <1>1, <1>8, <1>9, <1>15, StandingSame, StandingAnswered
<1> QED
  BY <1>2, <1>4, <1>6, <1>7, <1>8, <1>12, <1>13, <1>14 DEF EnrollChange, x, rec

LEMMA RegisterSteps ==
    ASSUME IInv, NEW m \in Machines, NEW t \in Tokens, NEW saved \in BOOLEAN,
           RegisterStep(m, t, saved)
    PROVE  \E n \in NodeIds : EnrollChange(m, t, n)
<1>1. TypeOK /\ TokenInv
  BY DEF IInv, CoreInv
<1>2. CASE RegisterOneTime(m, t, saved)
  <2> DEFINE n == mem.tokens[t].node
  <2>1. /\ n \in NodeIds /\ mem.tokens[t].kind = "oneTime" /\ mem.nodes[n].known
        /\ spent' = spent /\ ~HasReceipt(m, t)
        /\ Enroll(m, t, n, NoEnrollment, saved) /\ NoEnrollment \in Enrollments
    BY <1>1, <1>2, ValueTypes DEF RegisterOneTime, TokenInv, Token
  <2> HIDE DEF n
  <2>2. EnrollChange(m, t, n)
    BY <2>1, EnrollSteps
  <2> QED
    BY <2>1, <2>2
<1>3. ASSUME NEW n \in NodeIds, RegisterCommon(m, t, n, saved)
      PROVE  EnrollChange(m, t, n)
  <2> DEFINE e == mem.tokens[t]
  <2>1. /\ e \in Enrollments /\ e.kind = "reusable" /\ n \notin spent
        /\ spent' = spent \cup {n} /\ ~HasReceipt(m, t)
        /\ Enroll(m, t, n, e, saved)
    BY <1>1, <1>3, TokenType DEF RegisterCommon
  <2> QED
    BY <2>1, EnrollSteps
<1> QED
  BY <1>2, <1>3 DEF RegisterStep

LEMMA EnrollChangeKeeps ==
    ASSUME IInv, TypeOK', NEW m \in Machines, NEW t \in Tokens, NEW n \in NodeIds,
           EnrollChange(m, t, n)
    PROVE  CoreInv'
<1> USE DEF Node, Token, Receipt
<1> DEFINE key == Key(m, t)
           x == lastSecret + 1
           rec == [node |-> n, secret |-> x, until |-> now + ReceiptTTL]
<1>1. /\ TypeOK /\ DiskInv /\ NodeInv /\ TokenInv /\ CarrierInv
      /\ CurrentInv /\ ReplyInv /\ OnceInv /\ OwnInv /\ FileInv /\ FileOwnInv
  BY DEF IInv, CoreInv
<1>2. /\ lastSecret' = x /\ now' = now /\ deleted' = deleted
      /\ \A o \in NodeIds \ {n} : mem'.nodes[o] = mem.nodes[o]
      /\ mem'.nodes[n].known /\ mem'.nodes[n].secret = x
      /\ \A o \in Tokens \ {t} : mem'.tokens[o] = mem.tokens[o]
      /\ \A k \in Keys \ {key} : mem'.receipts[k] = mem.receipts[k]
      /\ mem'.receipts[key] = rec
  BY DEF EnrollChange
<1>3. rec.node = n /\ rec.secret = x /\ n # NoNode
  BY EnrollmentConstants
<1>4. lastSecret \in Nat /\ x \in Nat /\ x > lastSecret
  BY <1>1 DEF TypeOK
<1>5. key \in Keys /\ key[1] = t /\ key[2] = EnrollmentID[m] /\ key = <<t, EnrollmentID[m]>>
      /\ EnrollmentID[m] \in EnrollmentIds
  BY KeyType, EnrollmentConstants DEF Key
<1>6. /\ Standing'[<<m, t>>] = Standing[<<m, t>>] \/ Standing'[<<m, t>>] = rec
      /\ saveFailures' = 0 => Standing'[<<m, t>>] = rec
      /\ \A a \in Machines, o \in Tokens : <<a, o>> # <<m, t>> =>
            Standing'[<<a, o>>] = Standing[<<a, o>>]
  BY <1>1, StandingType DEF EnrollChange
<1>7. /\ saveFailures' = 0 => disk' = mem' /\ saveFailures = 0
      /\ disk' = disk \/ disk' = mem'
  BY DEF EnrollChange, Saving
<1>8. \A a \in Machines : \A id \in Holds(a)' :
         \/ id \in Holds(a)
         \/ a = m /\ id.node = n /\ id.secret = x
  BY DEF EnrollChange
<1>9. \/ /\ mem.tokens[t].kind = "oneTime" /\ mem'.tokens[t].kind = "none"
         /\ mem.nodes[n].known /\ spent' = spent
      \/ /\ mem.tokens[t].kind = "reusable" /\ mem'.tokens[t] = mem.tokens[t]
         /\ n \notin spent /\ spent' = spent \cup {n}
  BY DEF EnrollChange, UsesToken
<1>10. ~HasReceipt(m, t)
  BY DEF EnrollChange
<1>11. n \in spent' /\ spent \subseteq spent'
  BY <1>1, <1>9 DEF NodeInv
\* The identities there are have older secrets.
<1>12. /\ \A k \in Keys : mem.receipts[k].node # NoNode => mem.receipts[k].secret < x
       /\ \A a \in Machines : \A id \in Holds(a) : id.secret < x
  BY <1>1, <1>4 DEF CarrierInv, Made, Issued
\* A token that is used for a first time.
<1>13. mem.tokens[t].kind = "oneTime" =>
          /\ t \in OneTimeTokens
          /\ \A e \in EnrollmentIds : mem.receipts[<<t, e>>].node = NoNode
          /\ \A a \in Machines : Standing[<<a, t>>].node = NoNode
  BY <1>1 DEF TokenInv
<1>14. mem.tokens[t].kind = "reusable" => t \in CommonTokens /\ t \notin OneTimeTokens
  BY <1>1, EnrollmentConstants DEF TokenInv
<1>15. t \in spent
  BY <1>1, <1>9 DEF TokenInv
<1> HIDE DEF key, x, rec
<1>16. DiskInv'
  BY <1>7 DEF DiskInv
<1>17. NodeInv'
  BY <1>1, <1>2, <1>11 DEF NodeInv
<1>18. TokenInv'
  <2> SUFFICES ASSUME NEW o \in Tokens
               PROVE  /\ mem'.tokens[o].kind = "oneTime" =>
                            o \in OneTimeTokens /\ mem'.tokens[o].node \in NodeIds
                      /\ mem'.tokens[o].kind = "reusable" => o \in CommonTokens
                      /\ mem'.tokens[o].kind # "none" => o \in spent'
                      /\ o \notin spent' \/ mem'.tokens[o].kind = "oneTime" =>
                            /\ \A e \in EnrollmentIds : mem'.receipts[<<o, e>>].node = NoNode
                            /\ \A a \in Machines : Standing'[<<a, o>>].node = NoNode
    BY DEF TokenInv
  <2>1. CASE o = t
    BY <1>9, <1>11, <1>14, <1>15, <2>1
  <2>2. CASE o # t
    <3>1. /\ mem'.tokens[o] = mem.tokens[o]
          /\ \A a \in Machines : Standing'[<<a, o>>] = Standing[<<a, o>>]
      BY <1>2, <1>6, <2>2
    <3>2. \A e \in EnrollmentIds : mem'.receipts[<<o, e>>] = mem.receipts[<<o, e>>]
      BY <1>2, <1>5, <2>2 DEF Keys
    <3> QED
      BY <1>1, <1>11, <3>1, <3>2 DEF TokenInv
  <2> QED
    BY <2>1, <2>2
<1>19. CarrierInv'
  <2> DEFINE IssuedNow(o, y) == o \in NodeIds /\ o \in spent' /\ y \in 1..lastSecret'
             MadeNow(o, y) ==
                /\ IssuedNow(o, y)
                /\ IF mem'.nodes[o].known THEN y <= mem'.nodes[o].secret ELSE o \in deleted'
  <2>1. \A o, y : Issued(o, y) => IssuedNow(o, y)
    BY <1>2, <1>4, <1>11 DEF Issued
  <2>2. \A o, y : Made(o, y) => MadeNow(o, y)
    <3> SUFFICES ASSUME NEW o, NEW y, Made(o, y) PROVE MadeNow(o, y)
      OBVIOUS
    <3>1. IssuedNow(o, y)
      BY <2>1 DEF Made
    <3>2. IF mem'.nodes[o].known THEN y <= mem'.nodes[o].secret ELSE o \in deleted'
      BY <1>2, <1>4 DEF Made, Issued
    <3> QED
      BY <3>1, <3>2
  <2>3. IssuedNow(n, x) /\ MadeNow(n, x)
    BY <1>2, <1>4, <1>11
  <2>4. CarrierInv' <=>
           /\ \A k \in Keys : mem'.receipts[k].node # NoNode =>
                 MadeNow(mem'.receipts[k].node, mem'.receipts[k].secret)
           /\ \A a \in Machines : \A id \in Holds(a)' :
                 /\ IssuedNow(id.node, id.secret)
                 /\ saveFailures' = 0 => MadeNow(id.node, id.secret)
    BY DEF CarrierInv, Made, Issued
  <2> HIDE DEF MadeNow, IssuedNow
  <2>5. \A a \in Machines : \A id \in Holds(a)' : IssuedNow(id.node, id.secret)
    BY <1>1, <1>8, <2>1, <2>3 DEF CarrierInv
  <2>6. saveFailures' = 0 =>
           \A a \in Machines : \A id \in Holds(a)' : MadeNow(id.node, id.secret)
    BY <1>1, <1>7, <1>8, <2>2, <2>3 DEF CarrierInv
  <2>7. \A k \in Keys : mem'.receipts[k].node # NoNode =>
           MadeNow(mem'.receipts[k].node, mem'.receipts[k].secret)
    BY <1>1, <1>2, <1>3, <2>2, <2>3 DEF CarrierInv
  <2> QED
    BY <2>4, <2>5, <2>6, <2>7
<1>20. CurrentInv'
  <2> SUFFICES ASSUME saveFailures' = 0, NEW o \in NodeIds, mem'.nodes[o].known
               PROVE  \/ NeverReplaced(o)'
                      \/ \E k \in Machines \X OneTimeTokens :
                            Standing'[k].node = o /\ Standing'[k].secret = mem'.nodes[o].secret
    BY DEF CurrentInv
  <2>1. saveFailures = 0 /\ Standing'[<<m, t>>] = rec
    BY <1>6, <1>7
  <2>2. CASE o # n
    <3>1. mem'.nodes[o] = mem.nodes[o]
      BY <1>2, <2>2
    <3>2. ASSUME NeverReplaced(o) PROVE NeverReplaced(o)'
      <4>1. \A k \in Keys : mem'.receipts[k].node = o => mem'.receipts[k].secret = mem.nodes[o].secret
        BY <1>2, <1>3, <2>2, <3>2 DEF NeverReplaced
      <4>2. \A a \in Machines : \A id \in Holds(a)' : id.node = o => id.secret = mem.nodes[o].secret
        BY <1>8, <2>2, <3>2 DEF NeverReplaced
      <4> QED
        BY <3>1, <4>1, <4>2 DEF NeverReplaced
    <3>3. ASSUME NEW k \in Machines \X OneTimeTokens,
                 Standing[k].node = o, Standing[k].secret = mem.nodes[o].secret
          PROVE  Standing'[k] = Standing[k]
      <4>1. PICK a \in Machines, u \in OneTimeTokens : k = <<a, u>>
        OBVIOUS
      <4>2. k # <<m, t>>
        BY <1>9, <1>13, <1>14, <3>3, <4>1, EnrollmentConstants
      <4> QED
        BY <1>6, <4>1, <4>2 DEF Tokens
    <3> QED
      BY <1>1, <2>1, <3>1, <3>2, <3>3 DEF CurrentInv
  <2>3. CASE o = n /\ mem.tokens[t].kind = "oneTime"
    BY <1>2, <1>3, <1>13, <2>1, <2>3
  <2>4. CASE o = n /\ n \notin spent
    <3>1. \A k \in Keys : mem'.receipts[k].node = o => mem'.receipts[k].secret = mem'.nodes[o].secret
      BY <1>1, <1>2, <1>3, <2>4 DEF CarrierInv, Made, Issued
    <3>2. \A a \in Machines : \A id \in Holds(a)' : id.node = o => id.secret = mem'.nodes[o].secret
      BY <1>1, <1>2, <1>8, <2>4 DEF CarrierInv, Issued
    <3> QED
      BY <3>1, <3>2 DEF NeverReplaced
  <2> QED
    BY <1>9, <2>2, <2>3, <2>4
<1>21. ReplyInv'
  <2> SUFFICES ASSUME NEW a \in Machines, NEW o \in Tokens, Standing'[<<a, o>>].node # NoNode
               PROVE  LET r == Standing'[<<a, o>>] IN
                      /\ r.node \in spent'
                      /\ r.until > now /\ mem'.nodes[r.node].known =>
                            mem'.receipts[Key(a, o)] = r
                      /\ o \in OneTimeTokens /\ mem'.receipts[Key(a, o)].node # NoNode =>
                            mem'.receipts[Key(a, o)] = r
    BY <1>2 DEF ReplyInv, Key
  <2>1. CASE <<a, o>> = <<m, t>> /\ Standing'[<<m, t>>] = rec
    BY <1>2, <1>3, <1>11, <2>1 DEF key
  <2>2. CASE Standing'[<<a, o>>] = Standing[<<a, o>>]
    <3> DEFINE r == Standing[<<a, o>>]
    <3>1. /\ r.node \in spent
          /\ r.until > now /\ mem.nodes[r.node].known => mem.receipts[Key(a, o)] = r
          /\ o \in OneTimeTokens /\ mem.receipts[Key(a, o)].node # NoNode =>
                mem.receipts[Key(a, o)] = r
      BY <1>1, <2>2 DEF ReplyInv
    <3>2. r \in Receipts /\ r.node \in NodeIds
      <4>1. r \in Receipts
        BY <1>1, StandingType
      <4> QED
        BY <2>2, <4>1 DEF Receipts
    <3>3. CASE Key(a, o) # key
      <4>1. mem'.receipts[Key(a, o)] = mem.receipts[Key(a, o)]
        BY <1>2, <3>3, KeyType
      <4>2. r.node = n => mem.nodes[n].known
        BY <1>9, <3>1
      <4>3. mem'.nodes[r.node].known => mem.nodes[r.node].known
        BY <1>2, <3>2, <4>2
      <4> QED
        BY <1>11, <2>2, <3>1, <4>1, <4>3
    <3>4. CASE Key(a, o) = key
      <4>1. o = t
        BY <3>4 DEF Key, key
      <4>2. mem.tokens[t].kind = "reusable" /\ o \notin OneTimeTokens
        BY <1>9, <1>13, <1>14, <2>2, <4>1
      <4>3. n \notin spent /\ mem'.nodes[r.node] = mem.nodes[r.node]
        BY <1>2, <1>9, <3>1, <3>2, <4>2
      <4>4. ~(r.until > now /\ mem.nodes[r.node].known)
        BY <1>10, <2>2, <3>1, <3>4 DEF HasReceipt, key
      <4> QED
        BY <1>11, <2>2, <3>1, <4>2, <4>3, <4>4
    <3> QED
      BY <3>3, <3>4
  <2> QED
    BY <1>6, <2>1, <2>2
<1>22. OnceInv'
  <2> SUFFICES ASSUME NEW o \in OneTimeTokens
               PROVE  /\ \A e1, e2 \in EnrollmentIds :
                            mem'.receipts[<<o, e1>>].node # NoNode
                            /\ mem'.receipts[<<o, e2>>].node # NoNode => e1 = e2
                      /\ \A a \in Machines, e \in EnrollmentIds :
                            Standing'[<<a, o>>].node # NoNode
                            /\ mem'.receipts[<<o, e>>].node # NoNode => e = EnrollmentID[a]
                      /\ \A a, b \in Machines :
                            Standing'[<<a, o>>].node # NoNode /\ Standing'[<<b, o>>].node # NoNode =>
                               /\ EnrollmentID[a] = EnrollmentID[b]
                               /\ Standing'[<<a, o>>] = Standing'[<<b, o>>]
    BY DEF OnceInv
  <2>1. o \in Tokens /\ \A e \in EnrollmentIds : <<o, e>> \in Keys
    BY DEF Keys, Tokens
  <2>2. CASE o # t
    <3>1. \A a \in Machines : Standing'[<<a, o>>] = Standing[<<a, o>>]
      BY <1>6, <2>1, <2>2
    <3>2. \A e \in EnrollmentIds : mem'.receipts[<<o, e>>] = mem.receipts[<<o, e>>]
      BY <1>2, <1>5, <2>1, <2>2
    <3> QED
      BY <1>1, <3>1, <3>2 DEF OnceInv
  <2>3. CASE o = t
    <3>1. /\ \A e \in EnrollmentIds : mem.receipts[<<o, e>>].node = NoNode
          /\ \A a \in Machines : Standing[<<a, o>>].node = NoNode
      BY <1>9, <1>13, <1>14, <2>3
    <3>2. \A e \in EnrollmentIds : mem'.receipts[<<o, e>>].node # NoNode => e = EnrollmentID[m]
      BY <1>2, <1>5, <2>1, <2>3, <3>1
    <3>3. \A a \in Machines : Standing'[<<a, o>>].node # NoNode => a = m
      BY <1>6, <2>1, <2>3, <3>1
    <3> QED
      BY <3>2, <3>3
  <2> QED
    BY <2>2, <2>3
<1>23. OwnInv'
  <2>1. \A k \in Keys : mem'.receipts[k].node # NoNode =>
           \/ k = key /\ mem'.receipts[k].secret = x /\ mem'.receipts[k].node = n
           \/ /\ mem'.receipts[k] = mem.receipts[k] /\ mem.receipts[k].node # NoNode
              /\ mem.receipts[k].secret # x
    BY <1>2, <1>3, <1>4, <1>12
  <2>2. \A a \in Machines : \A id \in Holds(a)' :
           \/ a = m /\ id.secret = x /\ id.node = n
           \/ id \in Holds(a) /\ id.secret # x
    BY <1>4, <1>8, <1>12
  <2>3. \A k1, k2 \in Keys :
           mem'.receipts[k1].node # NoNode /\ mem'.receipts[k2].node # NoNode
           /\ mem'.receipts[k1].secret = mem'.receipts[k2].secret =>
              k1[2] = k2[2] /\ mem'.receipts[k1].node = mem'.receipts[k2].node
    BY <1>1, <2>1 DEF OwnInv
  <2>4. \A a \in Machines, k \in Keys : \A id \in Holds(a)' :
           mem'.receipts[k].node # NoNode /\ mem'.receipts[k].secret = id.secret =>
              k[2] = EnrollmentID[a] /\ mem'.receipts[k].node = id.node
    BY <1>1, <1>5, <2>1, <2>2 DEF OwnInv
  <2>5. \A a, b \in Machines : \A id1 \in Holds(a)', id2 \in Holds(b)' :
           id1.secret = id2.secret =>
              EnrollmentID[a] = EnrollmentID[b] /\ id1.node = id2.node
    BY <1>1, <2>2 DEF OwnInv
  <2> QED
    BY <2>3, <2>4, <2>5 DEF OwnInv
<1>24. FileInv' /\ FileOwnInv'
  <2>1. CASE disk' = mem'
    BY <1>17, <1>18, <1>19, <1>22, <1>23, <2>1, FileSaved
  <2>2. CASE disk' = disk
    <3>1. FileInv'
      <4>1. lastSecret' \in Nat /\ lastSecret <= lastSecret' /\ deleted \subseteq deleted'
        BY <1>2, <1>4
      <4> QED
        BY <1>1, <1>4, <1>11, <2>2, <4>1, FileKept
    \* A new secret is not in the file.
    <3>2. \A k \in Keys : disk.receipts[k].node # NoNode => disk.receipts[k].secret # x
      BY <1>1, <1>4 DEF FileInv, Issued
    <3>3. \A k, k2 \in Keys :
             disk.receipts[k].node # NoNode /\ mem'.receipts[k2].node # NoNode
             /\ mem'.receipts[k2].secret = disk.receipts[k].secret
             => k2[2] = k[2] /\ mem'.receipts[k2].node = disk.receipts[k].node
      BY <1>1, <1>2, <1>3, <3>2 DEF FileOwnInv
    <3>4. \A k \in Keys, a \in Machines : \A id \in Holds(a)' :
             disk.receipts[k].node # NoNode /\ id.secret = disk.receipts[k].secret
             => EnrollmentID[a] = k[2] /\ id.node = disk.receipts[k].node
      BY <1>1, <1>8, <3>2 DEF FileOwnInv
    <3>5. FileOwnInv'
      BY <1>1, <2>2, <3>3, <3>4 DEF FileOwnInv
    <3> QED
      BY <3>1, <3>5
  <2> QED
    BY <1>7, <2>1, <2>2
<1> QED
  BY <1>16, <1>17, <1>18, <1>19, <1>20, <1>21, <1>22, <1>23, <1>24 DEF CoreInv

-----------------------------------------------------------------------------
(* For a crash of the Server: what is in the file is consistent by itself, and *)
(* consistent with what the machines carry.                                  *)

\* An answer that a crash leaves standing was made before the file was written.
LEMMA CrashStanding ==
    ASSUME TypeOK, ServerCrash, NEW m \in Machines, NEW t \in Tokens,
           Standing'[<<m, t>>].node # NoNode
    PROVE  Standing'[<<m, t>>] = Standing[<<m, t>>] /\ Standing[<<m, t>>].secret <= filed
<1> DEFINE a == acked[<<m, t>>]
<1>1. acked' = acked /\ undone' = undone \cup (filed + 1)..lastSecret
  BY DEF ServerCrash, history
<1>2. a \in Receipts /\ lastSecret \in Nat /\ filed \in Nat
  BY DEF TypeOK
<1>3. a.secret \in 0..lastSecret
  BY <1>2 DEF Receipts, Secrets
<1>4. a.secret \notin undone' /\ Standing'[<<m, t>>] = a
  BY <1>1 DEF Standing, NoReceipt
<1>5. a.secret \notin undone /\ ~(a.secret \in (filed + 1)..lastSecret)
  BY <1>1, <1>4
<1>6. Standing[<<m, t>>] = a
  BY <1>5, StandingIsAnswer
<1> QED
  BY <1>2, <1>3, <1>4, <1>5, <1>6

\* What the file says of an answer that stands and was made before it was written.
LEMMA FiledAnswer ==
    ASSUME FiledInv, NEW m \in Machines, NEW t \in Tokens,
           Standing[<<m, t>>].node # NoNode, Standing[<<m, t>>].secret <= filed
    PROVE  /\ disk.tokens[t].kind # "oneTime"
           /\ Standing[<<m, t>>].until > now /\ disk.nodes[Standing[<<m, t>>].node].known =>
                 disk.receipts[Key(m, t)] = Standing[<<m, t>>]
           /\ t \in OneTimeTokens => \A e \in EnrollmentIds :
                 disk.receipts[<<t, e>>].node # NoNode =>
                    e = EnrollmentID[m] /\ disk.receipts[<<t, e>>] = Standing[<<m, t>>]
  BY DEF FiledInv

LEMMA CrashKeeps == IInv /\ TypeOK' /\ ServerCrash => CoreInv'
<1> SUFFICES ASSUME IInv, TypeOK', ServerCrash PROVE CoreInv'
  OBVIOUS
<1> USE DEF Node, Token, Receipt
<1>1. /\ TypeOK /\ DiskInv /\ FileInv /\ FileOwnInv /\ OwnInv /\ NodeInv /\ CarrierInv
      /\ TokenInv /\ ReplyInv /\ OnceInv /\ FiledInv
  BY DEF IInv, CoreInv
<1>2. /\ mem' = disk /\ disk' = disk /\ lastSecret' = lastSecret /\ spent' = spent
      /\ now' = now /\ saveFailures' = saveFailures /\ deleted' = deleted
  BY DEF ServerCrash, history
<1>3. \A m \in Machines : Holds(m)' = Holds(m)
  BY DEF ServerCrash, agentVars, Holds
\* A save has failed.
<1>4. saveFailures' # 0
  BY <1>1, <1>2 DEF ServerCrash, DiskInv
\* The answers that still stand were made before the file was written.
<1>5. \A m \in Machines, t \in Tokens : Standing'[<<m, t>>].node # NoNode =>
         Standing'[<<m, t>>] = Standing[<<m, t>>] /\ Standing[<<m, t>>].secret <= filed
  BY <1>1, CrashStanding
<1>6. \A m \in Machines, t \in Tokens : /\ Key(m, t) \in Keys
                                        /\ Key(m, t) = <<t, EnrollmentID[m]>>
                                        /\ EnrollmentID[m] \in EnrollmentIds
  BY KeyType, EnrollmentConstants DEF Key
<1>7. DiskInv'
  BY <1>2 DEF DiskInv
<1>8. NodeInv'
  BY <1>1, <1>2 DEF NodeInv, FileInv
<1>9. TokenInv'
  <2> SUFFICES ASSUME NEW t \in Tokens
               PROVE  /\ disk.tokens[t].kind = "oneTime" =>
                            t \in OneTimeTokens /\ disk.tokens[t].node \in NodeIds
                      /\ disk.tokens[t].kind = "reusable" => t \in CommonTokens
                      /\ disk.tokens[t].kind # "none" => t \in spent
                      /\ t \notin spent \/ disk.tokens[t].kind = "oneTime" =>
                            /\ \A e \in EnrollmentIds : disk.receipts[<<t, e>>].node = NoNode
                            /\ \A m \in Machines : Standing'[<<m, t>>].node = NoNode
    BY <1>2 DEF TokenInv
  <2>1. /\ disk.tokens[t].kind = "oneTime" =>
              t \in OneTimeTokens /\ disk.tokens[t].node \in NodeIds
        /\ disk.tokens[t].kind = "reusable" => t \in CommonTokens
        /\ disk.tokens[t].kind # "none" => t \in spent
        /\ t \notin spent \/ disk.tokens[t].kind = "oneTime" =>
              \A e \in EnrollmentIds : disk.receipts[<<t, e>>].node = NoNode
    BY <1>1 DEF FileInv
  <2>2. t \notin spent \/ disk.tokens[t].kind = "oneTime" =>
           \A m \in Machines : Standing'[<<m, t>>].node = NoNode
    <3>1. t \notin spent => \A m \in Machines : Standing[<<m, t>>].node = NoNode
      BY <1>1 DEF TokenInv
    <3> QED
      BY <1>1, <1>5, <3>1, FiledAnswer
  <2> QED
    BY <2>1, <2>2
<1>10. CarrierInv'
  <2>1. \A n, x : Issued(n, x) => Issued(n, x)'
    BY <1>2 DEF Issued
  <2>2. \A k \in Keys : disk.receipts[k].node # NoNode =>
           /\ Issued(disk.receipts[k].node, disk.receipts[k].secret)
           /\ IF disk.nodes[disk.receipts[k].node].known
                THEN disk.receipts[k].secret <= disk.nodes[disk.receipts[k].node].secret
                ELSE disk.receipts[k].node \in deleted'
    BY <1>1, <1>2 DEF FileInv
  <2>3. \A k \in Keys : mem'.receipts[k].node # NoNode =>
           Made(mem.receipts[k].node, mem.receipts[k].secret)'
    BY <1>2, <2>1, <2>2 DEF Made, Issued
  <2>4. \A m \in Machines : \A id \in Holds(m)' : Issued(id.node, id.secret)'
    BY <1>1, <1>3, <2>1 DEF CarrierInv, Issued
  <2> QED
    BY <1>4, <2>3, <2>4 DEF CarrierInv
<1>11. CurrentInv'
  BY <1>4 DEF CurrentInv
<1>12. ReplyInv'
  <2> SUFFICES ASSUME NEW m \in Machines, NEW t \in Tokens, Standing'[<<m, t>>].node # NoNode
               PROVE  LET a == Standing'[<<m, t>>] IN
                      /\ a.node \in spent
                      /\ a.until > now /\ disk.nodes[a.node].known =>
                            disk.receipts[Key(m, t)] = a
                      /\ t \in OneTimeTokens /\ disk.receipts[Key(m, t)].node # NoNode =>
                            disk.receipts[Key(m, t)] = a
    BY <1>2 DEF ReplyInv, Key
  <2>1. /\ Standing'[<<m, t>>] = Standing[<<m, t>>] /\ Standing[<<m, t>>].secret <= filed
        /\ Standing[<<m, t>>].node # NoNode
    BY <1>5
  <2>2. Standing[<<m, t>>].node \in spent
    BY <1>1, <2>1 DEF ReplyInv
  <2>3. FiledInv
    BY <1>1
  <2>4. /\ Standing[<<m, t>>].until > now /\ disk.nodes[Standing[<<m, t>>].node].known =>
              disk.receipts[Key(m, t)] = Standing[<<m, t>>]
        /\ t \in OneTimeTokens => \A e \in EnrollmentIds :
              disk.receipts[<<t, e>>].node # NoNode =>
                 e = EnrollmentID[m] /\ disk.receipts[<<t, e>>] = Standing[<<m, t>>]
    <3> HIDE DEF Standing, Key
    <3> QED
      BY <2>1, <2>3, FiledAnswer
  <2>5. Standing[<<m, t>>].until > now /\ disk.nodes[Standing[<<m, t>>].node].known =>
           disk.receipts[Key(m, t)] = Standing[<<m, t>>]
    BY <2>4
  <2>6. t \in OneTimeTokens => \A e \in EnrollmentIds :
           disk.receipts[<<t, e>>].node # NoNode => disk.receipts[<<t, e>>] = Standing[<<m, t>>]
    BY <2>4
  <2>7. Key(m, t) = <<t, EnrollmentID[m]>> /\ EnrollmentID[m] \in EnrollmentIds
    BY <1>6
  <2>8. t \in OneTimeTokens /\ disk.receipts[Key(m, t)].node # NoNode =>
           disk.receipts[Key(m, t)] = Standing[<<m, t>>]
    BY <2>6, <2>7
  <2> HIDE DEF Key
  <2> QED
    BY <2>1, <2>2, <2>5, <2>8
<1>13. OnceInv'
  <2>1. \A t \in OneTimeTokens, e1, e2 \in EnrollmentIds :
           disk.receipts[<<t, e1>>].node # NoNode /\ disk.receipts[<<t, e2>>].node # NoNode
           => e1 = e2
    BY <1>1 DEF FileInv
  <2>2. \A t \in OneTimeTokens, m \in Machines, e \in EnrollmentIds :
           Standing'[<<m, t>>].node # NoNode /\ disk.receipts[<<t, e>>].node # NoNode =>
              e = EnrollmentID[m]
    <3> SUFFICES ASSUME NEW t \in OneTimeTokens, NEW m \in Machines, NEW e \in EnrollmentIds,
                        Standing'[<<m, t>>].node # NoNode, disk.receipts[<<t, e>>].node # NoNode
                 PROVE  e = EnrollmentID[m]
      OBVIOUS
    <3>1. /\ t \in Tokens /\ Standing[<<m, t>>].node # NoNode
          /\ Standing[<<m, t>>].secret <= filed
      BY <1>5 DEF Tokens
    <3> QED
      BY <1>1, <3>1, FiledAnswer
  <2>3. \A t \in OneTimeTokens, a, b \in Machines :
           Standing'[<<a, t>>].node # NoNode /\ Standing'[<<b, t>>].node # NoNode =>
              EnrollmentID[a] = EnrollmentID[b] /\ Standing'[<<a, t>>] = Standing'[<<b, t>>]
    BY <1>1, <1>5 DEF OnceInv, Tokens
  <2> QED
    BY <1>2, <2>1, <2>2, <2>3 DEF OnceInv
<1>14. OwnInv'
  <2>1. \A k1, k2 \in Keys :
           mem'.receipts[k1].node # NoNode /\ mem'.receipts[k2].node # NoNode
           /\ mem'.receipts[k1].secret = mem'.receipts[k2].secret =>
              k1[2] = k2[2] /\ mem'.receipts[k1].node = mem'.receipts[k2].node
    BY <1>1, <1>2 DEF FileOwnInv
  <2>2. \A a \in Machines, k \in Keys : \A id \in Holds(a)' :
           mem'.receipts[k].node # NoNode /\ mem'.receipts[k].secret = id.secret =>
              k[2] = EnrollmentID[a] /\ mem'.receipts[k].node = id.node
    BY <1>1, <1>2, <1>3 DEF FileOwnInv
  <2>3. \A a, b \in Machines : \A id1 \in Holds(a)', id2 \in Holds(b)' :
           id1.secret = id2.secret =>
              EnrollmentID[a] = EnrollmentID[b] /\ id1.node = id2.node
    BY <1>1, <1>3 DEF OwnInv
  <2> QED
    BY <2>1, <2>2, <2>3 DEF OwnInv
<1>15. FileInv'
  <2>1. \A k \in Keys : disk.receipts[k].node # NoNode =>
           /\ Issued(disk.receipts[k].node, disk.receipts[k].secret)'
           /\ IF disk.nodes[disk.receipts[k].node].known
                THEN disk.receipts[k].secret <= disk.nodes[disk.receipts[k].node].secret
                ELSE disk.receipts[k].node \in deleted'
    BY <1>1, <1>2 DEF FileInv, Issued
  <2> QED
    BY <1>1, <1>2, <2>1 DEF FileInv
<1>16. FileOwnInv'
  BY <1>1, <1>2, <1>3 DEF FileOwnInv
<1> QED
  BY <1>7, <1>8, <1>9, <1>10, <1>11, <1>12, <1>13, <1>14, <1>15, <1>16 DEF CoreInv

-----------------------------------------------------------------------------
(* What is undone stays out of memory and file, and the file is true of what *)
(* was made before it was written.                                           *)

LEMMA SecretsMade ==
    ASSUME TypeOK
    PROVE  /\ \A x \in SecretsIn(mem) : x \in 0..lastSecret
           /\ lastSecret \in Nat /\ filed \in 0..lastSecret /\ undone \subseteq 1..lastSecret
<1>1. mem \in States /\ lastSecret \in Nat /\ filed \in 0..lastSecret /\ undone \subseteq 1..lastSecret
  BY DEF TypeOK
<1>2. /\ \A n \in NodeIds : mem.nodes[n] \in Nodes
      /\ \A k \in Keys : mem.receipts[k] \in Receipts
  BY <1>1, Parts
<1>3. /\ \A n \in NodeIds : mem.nodes[n].secret \in 0..lastSecret
                            /\ mem.nodes[n].previous \in 0..lastSecret
      /\ \A k \in Keys : mem.receipts[k].secret \in 0..lastSecret
  BY <1>2 DEF Nodes, Receipts, Secrets
<1> QED
  BY <1>1, <1>3 DEF SecretsIn

LEMMA SecretsMadeNext ==
    (TypeOK => lastSecret \in Nat /\ \A x \in SecretsIn(mem) : x \in 0..lastSecret)'
<1>1. TypeOK => lastSecret \in Nat /\ \A x \in SecretsIn(mem) : x \in 0..lastSecret
  BY SecretsMade
<1> QED
  BY <1>1, PTL

\* A step that saves, or does not, and makes at most one new secret.
LEMMA UndoneKept ==
    ASSUME TypeOK, TypeOK', UndoneInv, Saving, NEW x, x \notin undone,
           \A y \in SecretsIn(mem)' : y \in SecretsIn(mem) \/ y = x \/ y = 0
    PROVE  UndoneInv'
<1>1. lastSecret' \in Nat /\ \A y \in SecretsIn(mem)' : y \in 0..lastSecret'
  BY SecretsMadeNext
<1>2. undone' = undone /\ 0 \notin undone
  BY SecretsMade DEF Saving
<1>3. SecretsIn(mem)' \cap undone' = {}
  BY <1>2 DEF UndoneInv
<1>4. SecretsIn(disk)' \cap undone' = {} /\ \A y \in SecretsIn(disk)' : y <= filed'
  <2>1. CASE disk' = disk /\ filed' = filed
    <3>1. SecretsIn(disk)' = SecretsIn(disk)
      BY <2>1 DEF SecretsIn
    <3> QED
      BY <1>2, <2>1, <3>1 DEF UndoneInv
  <2>2. CASE disk' = mem' /\ filed' = lastSecret'
    <3>1. SecretsIn(disk)' = SecretsIn(mem)'
      BY <2>2 DEF SecretsIn
    <3> QED
      BY <1>1, <1>3, <2>2, <3>1
  <2> QED
    BY <2>1, <2>2 DEF Saving
<1> QED
  BY <1>3, <1>4 DEF UndoneInv

LEMMA ServerUndone == IInv /\ TypeOK' /\ ServerChange => UndoneInv'
<1> SUFFICES ASSUME IInv, TypeOK', ServerChange PROVE UndoneInv'
  OBVIOUS
<1>1. TypeOK /\ UndoneInv
  BY DEF IInv, CoreInv
<1>2. /\ \A n \in NodeIds : /\ mem'.nodes[n].secret \in {mem.nodes[n].secret, 0}
                            /\ mem'.nodes[n].previous \in {mem.nodes[n].previous, 0}
      /\ \A k \in Keys : mem'.receipts[k].secret \in {mem.receipts[k].secret, 0}
  BY DEF ServerChange, NoReceipt
<1>3. \A y \in SecretsIn(mem)' : y \in SecretsIn(mem) \/ y = 0
  BY <1>2 DEF SecretsIn
<1>4. 0 \notin undone /\ Saving
  BY <1>1, SecretsMade DEF ServerChange
<1> QED
  BY <1>1, <1>3, <1>4, UndoneKept

LEMMA EnrollUndone ==
    ASSUME IInv, TypeOK', NEW m \in Machines, NEW t \in Tokens, NEW n \in NodeIds,
           EnrollChange(m, t, n)
    PROVE  UndoneInv'
<1> DEFINE x == lastSecret + 1
<1>1. TypeOK /\ UndoneInv
  BY DEF IInv, CoreInv
<1>2. /\ \A o \in NodeIds \ {n} : mem'.nodes[o] = mem.nodes[o]
      /\ mem'.nodes[n].secret = x
      /\ mem'.nodes[n].previous \in {mem.nodes[n].previous, mem.nodes[n].secret}
      /\ \A k \in Keys \ {Key(m, t)} : mem'.receipts[k] = mem.receipts[k]
      /\ mem'.receipts[Key(m, t)].secret = x
      /\ Saving
  BY DEF EnrollChange
<1>3. x \notin undone
  BY <1>1, SecretsMade
<1> HIDE DEF x
<1>4. \A y \in SecretsIn(mem)' : y \in SecretsIn(mem) \/ y = x
  <2> SUFFICES ASSUME NEW y \in SecretsIn(mem)', y # x PROVE y \in SecretsIn(mem)
    OBVIOUS
  <2>1. CASE \E o \in NodeIds : y = mem'.nodes[o].secret \/ y = mem'.nodes[o].previous
    BY <1>2, <2>1 DEF SecretsIn
  <2>2. CASE \E k \in Keys : y = mem'.receipts[k].secret
    BY <1>2, <2>2 DEF SecretsIn
  <2> QED
    BY <2>1, <2>2 DEF SecretsIn
<1> QED
  BY <1>1, <1>2, <1>3, <1>4, UndoneKept

LEMMA CrashUndone == IInv /\ ServerCrash => UndoneInv'
<1> SUFFICES ASSUME IInv, ServerCrash PROVE UndoneInv'
  OBVIOUS
<1>1. TypeOK /\ UndoneInv
  BY DEF IInv, CoreInv
<1>2. /\ mem' = disk /\ disk' = disk /\ filed' = filed
      /\ undone' = undone \cup (filed + 1)..lastSecret
  BY DEF ServerCrash
<1>3. filed \in Nat /\ SecretsIn(mem)' = SecretsIn(disk) /\ SecretsIn(disk)' = SecretsIn(disk)
  BY <1>1, <1>2, SecretsMade DEF SecretsIn
<1>4. \A y \in SecretsIn(disk) : y \notin undone /\ ~(y \in (filed + 1)..lastSecret)
  BY <1>1, <1>3 DEF UndoneInv
<1> QED
  BY <1>1, <1>2, <1>3, <1>4 DEF UndoneInv

LEMMA MachineUndone ==
    ASSUME IInv, UNCHANGED <<mem, disk, filed, undone>>
    PROVE  UndoneInv'
  BY DEF IInv, UndoneInv, SecretsIn

\* A file that was just written.
LEMMA FiledSaved ==
    ASSUME disk' = mem', TokenInv', ReplyInv', OnceInv'
    PROVE  FiledInv'
<1> USE DEF Node, Token, Receipt
<1>1. \A m \in Machines, t \in Tokens : Standing'[<<m, t>>].node # NoNode =>
         /\ disk'.tokens[t].kind # "oneTime"
         /\ Standing'[<<m, t>>].until > now' /\ disk'.nodes[Standing'[<<m, t>>].node].known =>
               disk'.receipts[Key(m, t)] = Standing'[<<m, t>>]
         /\ t \in OneTimeTokens => \A e \in EnrollmentIds :
               disk'.receipts[<<t, e>>].node # NoNode =>
                  e = EnrollmentID[m] /\ disk'.receipts[<<t, e>>] = Standing'[<<m, t>>]
  <2> SUFFICES ASSUME NEW m \in Machines, NEW t \in Tokens, Standing'[<<m, t>>].node # NoNode
               PROVE  /\ disk'.tokens[t].kind # "oneTime"
                      /\ Standing'[<<m, t>>].until > now'
                         /\ disk'.nodes[Standing'[<<m, t>>].node].known =>
                            disk'.receipts[Key(m, t)] = Standing'[<<m, t>>]
                      /\ t \in OneTimeTokens => \A e \in EnrollmentIds :
                            disk'.receipts[<<t, e>>].node # NoNode =>
                               /\ e = EnrollmentID[m]
                               /\ disk'.receipts[<<t, e>>] = Standing'[<<m, t>>]
    OBVIOUS
  <2>1. disk'.tokens[t].kind # "oneTime"
    BY DEF TokenInv
  <2>2. Standing'[<<m, t>>].until > now' /\ disk'.nodes[Standing'[<<m, t>>].node].known =>
           disk'.receipts[Key(m, t)] = Standing'[<<m, t>>]
    BY DEF ReplyInv, Key
  <2>3. ASSUME t \in OneTimeTokens, NEW e \in EnrollmentIds, disk'.receipts[<<t, e>>].node # NoNode
        PROVE  e = EnrollmentID[m] /\ disk'.receipts[<<t, e>>] = Standing'[<<m, t>>]
    <3>1. e = EnrollmentID[m]
      BY <2>3 DEF OnceInv
    <3> QED
      BY <2>3, <3>1 DEF ReplyInv, Key
  <2> QED
    BY <2>1, <2>2, <2>3
<1> QED
  BY <1>1 DEF FiledInv, Key

\* One that stays as it is, while the answers of what it knows stay as they are or
\* are given again.
LEMMA FiledKept ==
    ASSUME IInv, UNCHANGED <<disk, filed>>, now \in Nat, now' \in Nat, now <= now',
           \A k \in Machines \X Tokens : acked[k].until \in Int,
           \A k \in Keys : Receipt(k)'.node # NoNode /\ Receipt(k)'.secret <= filed =>
              Receipt(k)' = Receipt(k) \/ Receipt(k)' = disk.receipts[k],
           \A m \in Machines, t \in Tokens :
              Standing'[<<m, t>>].node # NoNode /\ Standing'[<<m, t>>].secret <= filed =>
                 \/ Standing'[<<m, t>>] = Standing[<<m, t>>]
                 \/ Standing'[<<m, t>>] = disk.receipts[Key(m, t)]
    PROVE  FiledInv'
<1> USE DEF Node, Token, Receipt
<1>1. FileInv /\ FiledInv
  BY DEF IInv, CoreInv
<1>2. \A k \in Keys : mem'.receipts[k].node # NoNode /\ mem'.receipts[k].secret <= filed =>
         disk.receipts[k] = mem'.receipts[k]
  BY <1>1 DEF FiledInv
<1>3. ASSUME NEW m \in Machines, NEW t \in Tokens,
             Standing'[<<m, t>>].node # NoNode, Standing'[<<m, t>>].secret <= filed
      PROVE  /\ disk.tokens[t].kind # "oneTime"
             /\ Standing'[<<m, t>>].until > now' /\ disk.nodes[Standing'[<<m, t>>].node].known =>
                   disk.receipts[Key(m, t)] = Standing'[<<m, t>>]
             /\ t \in OneTimeTokens => \A e \in EnrollmentIds :
                   disk.receipts[<<t, e>>].node # NoNode =>
                      e = EnrollmentID[m] /\ disk.receipts[<<t, e>>] = Standing'[<<m, t>>]
  <2>1. CASE Standing'[<<m, t>>] = Standing[<<m, t>>]
    <3> DEFINE a == Standing[<<m, t>>]
    <3>1. /\ disk.tokens[t].kind # "oneTime"
          /\ a.until > now /\ disk.nodes[a.node].known => disk.receipts[Key(m, t)] = a
          /\ t \in OneTimeTokens => \A e \in EnrollmentIds :
                disk.receipts[<<t, e>>].node # NoNode =>
                   e = EnrollmentID[m] /\ disk.receipts[<<t, e>>] = a
      <4>1. FiledInv /\ a.node # NoNode /\ a.secret <= filed
        BY <1>1, <1>3, <2>1
      <4> HIDE DEF a, Node, Token, Receipt
      <4> QED
        BY <4>1, FiledAnswer DEF a
    <3>2. a = acked[<<m, t>>] /\ a.until \in Int
      BY <1>3, <2>1, StandingIsAnswer
    <3>3. a.until > now' => a.until > now
      BY <3>2
    <3> QED
      BY <2>1, <3>1, <3>3
  <2>2. CASE Standing'[<<m, t>>] = disk.receipts[Key(m, t)]
    <3>1. Key(m, t) = <<t, EnrollmentID[m]>> /\ EnrollmentID[m] \in EnrollmentIds
      BY EnrollmentConstants DEF Key
    <3>2. disk.receipts[<<t, EnrollmentID[m]>>].node # NoNode
      BY <1>3, <2>2, <3>1
    <3>3. disk.tokens[t].kind # "oneTime"
      BY <1>1, <3>1, <3>2 DEF FileInv
    <3>4. t \in OneTimeTokens => \A e \in EnrollmentIds :
             disk.receipts[<<t, e>>].node # NoNode => e = EnrollmentID[m]
      BY <1>1, <3>1, <3>2 DEF FileInv
    <3> QED
      BY <2>2, <3>1, <3>3, <3>4
  <2> QED
    BY <1>3, <2>1, <2>2
<1>4. disk' = disk /\ filed' = filed
  OBVIOUS
<1>5. \A k \in Keys : mem'.receipts[k].node # NoNode /\ mem'.receipts[k].secret <= filed' =>
         disk'.receipts[k] = mem'.receipts[k]
  BY <1>2, <1>4
<1>6. ASSUME NEW m \in Machines, NEW t \in Tokens,
             Standing'[<<m, t>>].node # NoNode, Standing'[<<m, t>>].secret <= filed'
      PROVE  /\ disk'.tokens[t].kind # "oneTime"
             /\ Standing'[<<m, t>>].until > now' /\ disk'.nodes[Standing'[<<m, t>>].node].known =>
                   disk'.receipts[Key(m, t)] = Standing'[<<m, t>>]
             /\ t \in OneTimeTokens => \A e \in EnrollmentIds :
                   disk'.receipts[<<t, e>>].node # NoNode =>
                      e = EnrollmentID[m] /\ disk'.receipts[<<t, e>>] = Standing'[<<m, t>>]
  <2>1. Standing'[<<m, t>>].node # NoNode /\ Standing'[<<m, t>>].secret <= filed
    BY <1>4, <1>6
  <2>2. /\ disk.tokens[t].kind # "oneTime"
        /\ Standing'[<<m, t>>].until > now' /\ disk.nodes[Standing'[<<m, t>>].node].known =>
              disk.receipts[Key(m, t)] = Standing'[<<m, t>>]
        /\ t \in OneTimeTokens => \A e \in EnrollmentIds :
              disk.receipts[<<t, e>>].node # NoNode =>
                 e = EnrollmentID[m] /\ disk.receipts[<<t, e>>] = Standing'[<<m, t>>]
    BY <1>3, <2>1
  <2> QED
    BY <1>4, <2>2
<1> QED
  BY <1>5, <1>6 DEF FiledInv, Key

LEMMA AckedTimes ==
    ASSUME TypeOK
    PROVE  /\ now \in Nat /\ \A k \in Machines \X Tokens : acked[k].until \in Int
           /\ \A k \in Machines \X Tokens : acked[k] \in Receipts
  BY EnrollmentConstants DEF TypeOK, Receipts

LEMMA ServerFiled == IInv /\ TypeOK' /\ CoreInv' /\ ServerChange => FiledInv'
<1> SUFFICES ASSUME IInv, TypeOK', CoreInv', ServerChange PROVE FiledInv'
  OBVIOUS
<1>1. TypeOK
  BY DEF IInv, CoreInv
<1>2. CASE disk' = mem'
  BY <1>2, FiledSaved DEF CoreInv
<1>3. CASE disk' = disk /\ filed' = filed
  <2>1. /\ now \in Nat /\ now' \in Nat /\ now <= now'
        /\ \A k \in Machines \X Tokens : acked[k].until \in Int
    BY <1>1, AckedTimes, EnrollmentConstants DEF ServerChange, TypeOK
  <2>2. Standing' = Standing
        /\ \A k \in Keys : Receipt(k)'.node # NoNode => Receipt(k)' = Receipt(k)
    BY DEF ServerChange, NoReceipt, Receipt
  <2> QED
    BY <1>3, <2>1, <2>2, FiledKept
<1> QED
  BY <1>2, <1>3 DEF ServerChange, Saving

LEMMA MachineFiled == IInv /\ MachineChange => FiledInv'
<1> SUFFICES ASSUME IInv, MachineChange PROVE FiledInv'
  OBVIOUS
<1>1. TypeOK
  BY DEF IInv, CoreInv
<1>2. /\ UNCHANGED <<disk, filed, mem, now, Standing>>
      /\ now \in Nat /\ \A k \in Machines \X Tokens : acked[k].until \in Int
  BY <1>1, AckedTimes DEF MachineChange
<1>3. now' \in Nat /\ now <= now' /\ \A k \in Keys : Receipt(k)' = Receipt(k)
  BY <1>2 DEF Receipt
<1> QED
  BY <1>2, <1>3, FiledKept

LEMMA AgainFiled ==
    ASSUME IInv, NEW m \in Machines, NEW t \in Tokens, AgainChange(m, t)
    PROVE  FiledInv'
<1> DEFINE rec == mem.receipts[Key(m, t)]
<1>1. TypeOK /\ FiledInv
  BY DEF IInv, CoreInv
<1>2. /\ UNCHANGED <<disk, filed, mem, now>> /\ rec.node # NoNode
      /\ Standing' = [Standing EXCEPT ![<<m, t>>] = rec]
      /\ now \in Nat /\ \A k \in Machines \X Tokens : acked[k].until \in Int
  BY <1>1, AckedTimes DEF AgainChange
<1>3. now' \in Nat /\ now <= now' /\ \A k \in Keys : Receipt(k)' = Receipt(k)
  BY <1>2 DEF Receipt
<1>4. rec.secret <= filed => rec = disk.receipts[Key(m, t)]
  BY <1>1, <1>2, KeyType DEF FiledInv, Receipt
<1> HIDE DEF rec
<1>5. \A a \in Machines, o \in Tokens :
         Standing'[<<a, o>>].node # NoNode /\ Standing'[<<a, o>>].secret <= filed =>
            \/ Standing'[<<a, o>>] = Standing[<<a, o>>]
            \/ Standing'[<<a, o>>] = disk.receipts[Key(a, o)]
  BY <1>1, <1>2, <1>4, StandingType
<1> QED
  BY <1>2, <1>3, <1>5, FiledKept

LEMMA EnrollFiled ==
    ASSUME IInv, CoreInv', NEW m \in Machines, NEW t \in Tokens, NEW n \in NodeIds,
           EnrollChange(m, t, n)
    PROVE  FiledInv'
<1> DEFINE x == lastSecret + 1
           rec == [node |-> n, secret |-> x, until |-> now + ReceiptTTL]
<1>1. TypeOK
  BY DEF IInv, CoreInv
<1>2. CASE disk' = mem'
  BY <1>2, FiledSaved DEF CoreInv
<1>3. CASE disk' = disk /\ filed' = filed
  <2>1. /\ now \in Nat /\ now' = now
        /\ \A k \in Machines \X Tokens : acked[k].until \in Int
        /\ \A k \in Keys : mem'.receipts[k] = mem.receipts[k] \/ mem'.receipts[k] = rec
        /\ Standing' = Standing \/ Standing' = [Standing EXCEPT ![<<m, t>>] = rec]
    BY <1>1, AckedTimes DEF EnrollChange
  <2>2. ~(rec.secret <= filed)
    BY <1>1, SecretsMade
  <2> HIDE DEF rec
  <2>3. \A k \in Keys : Receipt(k)'.secret <= filed => Receipt(k)' = Receipt(k)
    BY <2>1, <2>2 DEF Receipt
  <2>4. \A a \in Machines, o \in Tokens : Standing'[<<a, o>>].secret <= filed =>
           Standing'[<<a, o>>] = Standing[<<a, o>>]
    BY <1>1, <2>1, <2>2, StandingType
  <2>5. now' \in Nat /\ now <= now'
    BY <2>1
  <2> QED
    BY <1>3, <2>1, <2>3, <2>4, <2>5, FiledKept
<1> QED
  BY <1>2, <1>3 DEF EnrollChange, Saving

LEMMA CrashFiled == IInv /\ ServerCrash => FiledInv'
<1> SUFFICES ASSUME IInv, ServerCrash PROVE FiledInv'
  OBVIOUS
<1>1. TypeOK
  BY DEF IInv, CoreInv
<1>2. /\ UNCHANGED <<disk, filed, now>> /\ mem' = disk
      /\ now \in Nat /\ \A k \in Machines \X Tokens : acked[k].until \in Int
  BY <1>1, AckedTimes DEF ServerCrash
<1>3. now' \in Nat /\ now <= now' /\ \A k \in Keys : Receipt(k)' = disk.receipts[k]
  BY <1>2 DEF Receipt
<1>4. \A m \in Machines, t \in Tokens :
         Standing'[<<m, t>>].node # NoNode => Standing'[<<m, t>>] = Standing[<<m, t>>]
  BY <1>1, CrashStanding
<1> QED
  BY <1>2, <1>3, <1>4, FiledKept
-----------------------------------------------------------------------------

LEMMA InvInit == Init => IInv
<1> SUFFICES ASSUME Init PROVE IInv
  OBVIOUS
<1> USE DEF Node, Token, Receipt
<1>1. TypeOK
  BY InitType
<1>2. /\ \A n \in NodeIds : ~mem.nodes[n].known
      /\ \A t \in Tokens : mem.tokens[t].kind = "none"
      /\ \A k \in Keys : mem.receipts[k].node = NoNode
      /\ \A k \in Machines \X Tokens : acked[k].node = NoNode
      /\ deleted = {} /\ spent = {} /\ disk = mem /\ undone = {} /\ filed = 0
  BY DEF Init, Unknown, NoEnrollment, NoReceipt, Keys
<1>7. \A k \in Machines \X Tokens : Standing[k].node = NoNode
  BY <1>2, StandingIsAnswer
<1>3. \A m \in Machines : Holds(m) = {}
  BY DEF Init, Holds
<1>4. DiskInv /\ NodeInv /\ CarrierInv /\ OwnInv /\ FileOwnInv
  BY <1>2, <1>3 DEF DiskInv, NodeInv, CarrierInv, OwnInv, FileOwnInv
<1>5. TokenInv /\ ReplyInv /\ OnceInv /\ FileInv
  BY <1>2, <1>7 DEF TokenInv, ReplyInv, OnceInv, FileInv, Keys, Tokens
<1>6. CurrentInv
  BY <1>2 DEF CurrentInv
<1>8. \A x \in SecretsIn(mem) : x = 0
  BY DEF Init, SecretsIn, Unknown, NoReceipt, Keys
<1>9. UndoneInv /\ FiledInv
  <2>1. SecretsIn(disk) = SecretsIn(mem)
    BY <1>2
  <2>2. UndoneInv
    BY <1>2, <1>8, <2>1 DEF UndoneInv
  <2>3. \A m \in Machines, t \in Tokens : Standing[<<m, t>>].node = NoNode
    BY <1>7
  <2>4. FiledInv
    BY <1>2, <2>3 DEF FiledInv
  <2> QED
    BY <2>2, <2>4
<1> QED
  BY <1>1, <1>4, <1>5, <1>6, <1>9 DEF IInv, CoreInv

LEMMA InvStep == IInv /\ [Next]_vars => IInv'
<1> SUFFICES ASSUME IInv, [Next]_vars PROVE IInv'
  OBVIOUS
<1>1. TypeOK'
  BY TypeStep DEF IInv, CoreInv
<1>2. CASE \/ \E saved \in BOOLEAN : AdminStep(saved) \/ maintenance(saved)
           \/ audit \/ Tick \/ UNCHANGED vars
  <2>1. ServerChange
    BY <1>2, ServerSteps
  <2> QED
    BY <1>1, <2>1, ServerChangeKeeps, ServerUndone, ServerFiled DEF IInv
<1>3. ASSUME NEW saved \in BOOLEAN, NEW m \in Machines, NEW t \in Tokens,
             RegisterStep(m, t, saved)
      PROVE  IInv'
  <2>1. PICK n \in NodeIds : EnrollChange(m, t, n)
    BY <1>3, RegisterSteps
  <2>2. CoreInv'
    BY <1>1, <2>1, EnrollChangeKeeps
  <2> QED
    BY <1>1, <2>1, <2>2, EnrollUndone, EnrollFiled DEF IInv
<1>4. ASSUME NEW m \in Machines, NEW t \in Tokens, RegisterAgain(m, t)
      PROVE  IInv'
  <2>1. AgainChange(m, t)
    BY <1>4, AgainSteps
  <2>2. UNCHANGED <<mem, disk, filed, undone>>
    BY <2>1 DEF AgainChange
  <2> QED
    BY <1>1, <2>1, <2>2, AgainChangeKeeps, MachineUndone, AgainFiled DEF IInv
<1>5. ASSUME NEW m \in Machines,
             \/ \E t \in Tokens : Bind(m, t)
             \/ Adopt(m) \/ Reject(m) \/ AgentCrash(m)
      PROVE  IInv'
  <2>1. MachineChange
    BY <1>5, MachineSteps DEF IInv, CoreInv
  <2>2. UNCHANGED <<mem, disk, filed, undone>>
    BY <2>1 DEF MachineChange
  <2> QED
    BY <1>1, <2>1, <2>2, MachineChangeKeeps, MachineUndone, MachineFiled DEF IInv
<1>6. CASE ServerCrash
  BY <1>1, <1>6, CrashKeeps, CrashUndone, CrashFiled DEF IInv
<1> QED
  BY <1>2, <1>3, <1>4, <1>5, <1>6 DEF Next, MachineStep

\* The inductive invariant holds in every reachable state, for any numbers of
\* machines, nodes and tokens, any times to live, any failed saves and any crashes.
THEOREM EnrollmentInvariant == Spec => []IInv
  BY InvInit, InvStep, PTL DEF Spec

\* The variables keep their types.
THEOREM TypeCorrect == Spec => []TypeOK
<1>1. IInv => TypeOK
  BY DEF IInv, CoreInv
<1> QED
  BY <1>1, EnrollmentInvariant, PTL

\* An identity a machine got or saved is in the Server's file, with its secret or
\* a newer one, unless its node was deleted or a save has failed: a crash of the
\* Server forgets nobody it has answered.
THEOREM AnswersAreDurable == Spec => []AnsweredIsDurable
<1>1. IInv => AnsweredIsDurable
  <2> SUFFICES ASSUME IInv, saveFailures = 0, NEW m \in Machines, NEW id \in Holds(m)
               PROVE  \/ disk.nodes[id.node].known /\ disk.nodes[id.node].secret >= id.secret
                      \/ id.node \in deleted
    BY DEF AnsweredIsDurable
  <2>1. Made(id.node, id.secret) /\ disk = mem /\ mem \in States
    BY DEF IInv, CoreInv, CarrierInv, DiskInv, TypeOK
  <2>2. lastSecret \in Nat /\ id.node \in NodeIds /\ id.secret \in 1..lastSecret
    BY <2>1 DEF Made, Issued, IInv, CoreInv, TypeOK
  <2>3. mem.nodes[id.node] \in Nodes
    BY <2>1, <2>2, Parts
  <2>4. mem.nodes[id.node].secret \in Int /\ id.secret \in Int
    BY <2>2, <2>3 DEF Nodes, Secrets
  <2> QED
    BY <2>1, <2>4 DEF Made, Node
<1> QED
  BY <1>1, EnrollmentInvariant, PTL

\* A saved identity is refused only when another registration for its node was
\* answered, as long as no save fails: making a new token for a node, letting it
\* expire or using it half way leaves the credential in place.
THEOREM CredentialIsKept == Spec => []KeptUntilReplaced
<1>1. IInv => KeptUntilReplaced
  <2> SUFFICES ASSUME IInv, saveFailures = 0, NEW m \in Machines,
                      config[m].id # NoIdentity,
                      mem.nodes[config[m].id.node].known, ~Valid(config[m].id)
               PROVE  \E k \in Machines \X Tokens :
                         /\ acked[k].node = config[m].id.node
                         /\ acked[k].secret > config[m].id.secret
    BY DEF KeptUntilReplaced, CredentialKept
  <2> DEFINE id == config[m].id
  <2>1. id \in Holds(m)
    BY DEF Holds
  <2>2. id.node \in NodeIds /\ id.secret \in 1..lastSecret
        /\ id.secret <= mem.nodes[id.node].secret
    BY <2>1 DEF IInv, CoreInv, CarrierInv, Made, Issued, Node
  <2>3. /\ id.secret # mem.nodes[id.node].secret
        /\ mem.nodes[id.node].secret \in Nat /\ lastSecret \in Nat
    <3>1. mem \in States /\ lastSecret \in Nat
      BY DEF IInv, CoreInv, TypeOK
    <3>2. mem.nodes[id.node] \in Nodes
      BY <2>2, <3>1, Parts
    <3>3. id.secret # mem.nodes[id.node].secret
      BY <2>2, <3>1 DEF Valid
    <3> QED
      BY <3>1, <3>2, <3>3 DEF Nodes, Secrets
  <2>4. ~NeverReplaced(id.node)
    BY <2>1, <2>3 DEF NeverReplaced, Node
  <2>5. PICK k \in Machines \X OneTimeTokens :
           Standing[k].node = id.node /\ Standing[k].secret = mem.nodes[id.node].secret
    BY <2>2, <2>4 DEF IInv, CoreInv, CurrentInv, Node
  <2>6. k \in Machines \X Tokens /\ Standing[k].node # NoNode
    BY <2>2, <2>5, EnrollmentConstants DEF Tokens
  <2>7. Standing[k] = acked[k]
    BY <2>6, StandingIsAnswer
  <2> QED
    BY <2>2, <2>3, <2>5, <2>6, <2>7
<1> QED
  BY <1>1, EnrollmentInvariant, PTL

\* A retry that comes while the receipt lasts is answered with the identity of the
\* first answer, whatever happened to the Server in between, unless a crash has
\* undone that identity.
THEOREM RetriesGetTheSame == Spec => RetryGetsSame
<1>1. IInv /\ [Next]_vars =>
         [\A m \in Machines, t \in Tokens :
            LET a == acked[<<m, t>>] IN
            a.node # NoNode /\ a.until > now /\ mem.nodes[a.node].known
            /\ a.secret \notin undone => acked'[<<m, t>>] = a]_vars
  <2> SUFFICES ASSUME IInv, [Next]_vars, NEW m \in Machines, NEW t \in Tokens,
                      acked[<<m, t>>].node # NoNode, acked[<<m, t>>].until > now,
                      mem.nodes[acked[<<m, t>>].node].known,
                      acked[<<m, t>>].secret \notin undone
               PROVE  acked'[<<m, t>>] = acked[<<m, t>>]
    OBVIOUS
  <2>0. Standing[<<m, t>>] = acked[<<m, t>>]
    BY StandingIsAnswer
  <2>1. TypeOK /\ mem.receipts[Key(m, t)] = acked[<<m, t>>]
    BY <2>0 DEF IInv, CoreInv, ReplyInv, Node, Receipt
  <2>2. CASE UNCHANGED acked
    BY <2>2
  <2>3. ASSUME NEW a \in Machines, NEW o \in Tokens, RegisterAgain(a, o)
        PROVE  acked'[<<m, t>>] = acked[<<m, t>>]
    <3>1. acked' = [acked EXCEPT ![<<a, o>>] = mem.receipts[Key(a, o)]]
      BY <2>3, AgainSteps DEF AgainChange
    <3> QED
      BY <2>1, <3>1 DEF TypeOK
  <2>4. ASSUME NEW saved \in BOOLEAN, NEW a \in Machines, NEW o \in Tokens,
               RegisterStep(a, o, saved)
        PROVE  acked'[<<m, t>>] = acked[<<m, t>>]
    <3>1. PICK n \in NodeIds : EnrollChange(a, o, n)
      BY <2>4, RegisterSteps
    <3>2. <<a, o>> # <<m, t>>
      BY <2>1, <3>1 DEF EnrollChange, HasReceipt
    <3>3. \/ acked' = acked
          \/ acked' = [acked EXCEPT ![<<a, o>>] =
                [node |-> n, secret |-> lastSecret + 1, until |-> now + ReceiptTTL]]
      BY <3>1 DEF EnrollChange
    <3> QED
      BY <2>1, <3>2, <3>3 DEF TypeOK
  <2>5. CASE \/ \E saved \in BOOLEAN : AdminStep(saved) \/ maintenance(saved)
             \/ audit \/ Tick \/ UNCHANGED vars
    BY <2>2, <2>5, ServerSteps DEF ServerChange
  <2>6. ASSUME NEW a \in Machines,
               \/ \E o \in Tokens : Bind(a, o)
               \/ Adopt(a) \/ Reject(a) \/ AgentCrash(a)
        PROVE  acked'[<<m, t>>] = acked[<<m, t>>]
    BY <2>1, <2>6, MachineSteps DEF MachineChange
  <2>7. CASE ServerCrash
    BY <2>7 DEF ServerCrash, history
  <2> QED
    BY <2>3, <2>4, <2>5, <2>6, <2>7 DEF Next, MachineStep
<1> QED
  BY <1>1, EnrollmentInvariant, PTL DEF Spec, RetryGetsSame

\* Machines that carry the same secret have one enrollment ID, and carry it under
\* one node: every registration makes a secret of its own, and a crash that undoes
\* one does not give its secret to the next.
THEOREM IdentitiesAreOwn == Spec => []OwnIdentity
<1>1. IInv => OwnIdentity
  BY DEF IInv, CoreInv, OwnInv, OwnIdentity
<1> QED
  BY <1>1, EnrollmentInvariant, PTL

\* All who were answered for a one-time token have one enrollment ID and got one
\* identity, however often the token is presented, across failed saves and crashes,
\* except for identities a crash has undone, which the Server does not take.
THEOREM TokensWorkOnce == Spec => []OneTimeOnce
<1>1. IInv => OneTimeOnce
  <2> SUFFICES ASSUME IInv PROVE OneTimeOnce
    OBVIOUS
  <2>1. ASSUME NEW m1 \in Machines, NEW m2 \in Machines, NEW t \in OneTimeTokens,
               acked[<<m1, t>>].node # NoNode, acked[<<m2, t>>].node # NoNode,
               {acked[<<m1, t>>].secret, acked[<<m2, t>>].secret} \cap undone = {}
        PROVE  EnrollmentID[m1] = EnrollmentID[m2] /\ acked[<<m1, t>>] = acked[<<m2, t>>]
    <3>1. /\ Standing[<<m1, t>>] = acked[<<m1, t>>]
          /\ Standing[<<m2, t>>] = acked[<<m2, t>>]
      BY <2>1, StandingIsAnswer DEF Tokens
    <3> QED
      BY <2>1, <3>1 DEF IInv, CoreInv, OnceInv
  <2>2. ASSUME NEW n \in NodeIds, NEW s \in undone PROVE ~Valid([node |-> n, secret |-> s])
    <3>1. s # mem.nodes[n].secret /\ s # mem.nodes[n].previous
      BY <2>2 DEF IInv, UndoneInv, SecretsIn
    <3> QED
      BY <3>1 DEF Valid
  <2> QED
    BY <2>1, <2>2 DEF OneTimeOnce
<1> QED
  BY <1>1, EnrollmentInvariant, PTL
=============================================================================
