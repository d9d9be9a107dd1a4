---------------------------- MODULE AgentUpgrade ----------------------------
(***************************************************************************)
(* How an Agent replaces its own binary, and gets the old one back when    *)
(* the new one does not work.                                              *)
(*                                                                         *)
(* The privileged Helper serves one request at a time from its socket.  An *)
(* upgrade moves the binary aside, installs the new one, leaves a pending  *)
(* record and starts a watchdog; the Agent then exits and is started again *)
(* from the installed binary.  The first heartbeat a new process gets      *)
(* through makes the Helper commit: the binary kept aside and the record   *)
(* go.  The watchdog, in the same process as the Helper's main loop, rolls *)
(* back if the record is still there after 38 s.                           *)
(*                                                                         *)
(* The upgrades are those an administrator asks for in the Web UI; those   *)
(* of the command line (nlm agent update) are not modelled.                *)
(***************************************************************************)
EXTENDS Integers, Sequences

CONSTANTS
    MaxVersion,     \* versions are 0..MaxVersion, 0 is installed
    Healthy,        \* the versions that can talk to the Server
    MaxBacklog,     \* bound on requests waiting at the Helper's socket
    MaxUpgrades,    \* bound on upgrades asked for
    MaxFaults       \* bound on crashes and Server outages

Versions == 0..MaxVersion
Missing == -1
NoRequest == [op |-> "none"]
Upgrades == 1..MaxUpgrades

ASSUME UpgradeConstants ==
    /\ MaxVersion \in Nat
    /\ Healthy \subseteq Versions
    /\ 0 \in Healthy
    /\ {MaxBacklog, MaxUpgrades} \subseteq Nat \ {0}
    /\ MaxFaults \in Nat

VARIABLES
    \* files
    current,    \* the version at .../nodelume-agent
    previous,   \* the version at .../nodelume-agent.previous
    pending,    \* pending.json is there
    \* the Agent process
    up,
    running,    \* its version
    settled,    \* ~firstCommit: its commit was answered
    leaving,    \* it exits as soon as its result is posted
    calls,      \* what it waits for at the Helper: "upgrade", "commit"
    \* the Helper process
    backlog,    \* requests at its socket, not accepted yet
    hpc,        \* where its main loop is
    serving,    \* the request it handles
    watchdog,   \* watchdog[i]: the goroutine the i-th upgrade has started
    \* the environment
    serverUp,
    asked,      \* upgrades asked for so far
    faults,
    \* history, read by no action
    lastGood,   \* the last version whose update was committed
    crashed,    \* the Helper was killed at some time
    clash       \* two requests got in each other's way: see Clashes

files == <<current, previous, pending>>
agent == <<up, running, settled, leaving, calls>>
helper == <<backlog, hpc, serving, watchdog>>
world == <<serverUp, asked, faults>>
history == <<lastGood, crashed, clash>>
vars == <<files, agent, helper, world, history>>

\* nr, in the model only, names the upgrade and with it its watchdog.
Requests == [op : {"upgrade"}, version : Versions, nr : Upgrades]
            \cup [op : {"commit"}, from : Versions]

TypeOK ==
    /\ {current, previous} \subseteq Versions \cup {Missing}
    /\ {pending, up, settled, leaving, serverUp, crashed, clash} \subseteq BOOLEAN
    /\ {running, lastGood} \subseteq Versions
    /\ calls \subseteq {"upgrade", "commit"}
    /\ backlog \in Seq(Requests)
    /\ Len(backlog) <= MaxBacklog
    /\ hpc \in {"down", "accept", "upgrade", "backup", "install", "record",
                "dropPrevious", "clearPending"}
    /\ serving \in Requests \cup {NoRequest}
    /\ watchdog \in [Upgrades -> {"none", "asleep", "awake", "moved",
                                  "restored", "restart", "done"}]
    /\ asked \in 0..MaxUpgrades
    /\ faults \in 0..MaxFaults

\* Version 0 runs, and its own update, if it was one, is long committed; its
\* process may have been started a moment ago.
Init ==
    /\ current = 0
    /\ previous = Missing
    /\ pending = FALSE
    /\ up = TRUE
    /\ running = 0
    /\ settled \in BOOLEAN
    /\ leaving = FALSE
    /\ calls = {}
    /\ backlog = <<>>
    /\ hpc = "accept"
    /\ serving = NoRequest
    /\ watchdog = [i \in Upgrades |-> "none"]
    /\ serverUp = TRUE
    /\ asked = 0
    /\ faults = 0
    /\ lastGood = 0
    /\ crashed = FALSE
    /\ clash = FALSE

Fault ==
    /\ faults < MaxFaults
    /\ faults' = faults + 1

RollingBack == \E i \in Upgrades : watchdog[i] \in {"awake", "moved", "restored"}
Committing == hpc \in {"dropPrevious", "clearPending"}

(***************************************************************************)
(* The Agent.                                                              *)
(***************************************************************************)

Online == up /\ running \in Healthy /\ serverUp

Call(op, request) ==
    /\ op \notin calls
    /\ Len(backlog) < MaxBacklog
    /\ calls' = calls \cup {op}
    /\ backlog' = Append(backlog, request)

\* executeCommand, for a version newer than the one running.
AskUpgrade(v) ==
    /\ Online
    /\ ~leaving
    /\ v > running
    /\ asked < MaxUpgrades
    /\ asked' = asked + 1
    /\ Call("upgrade", [op |-> "upgrade", version |-> v, nr |-> asked'])
    /\ UNCHANGED <<files, up, running, settled, leaving, hpc, serving,
                   watchdog, serverUp, faults, history>>

\* heartbeatLoop, after a heartbeat that was answered.
AskCommit ==
    /\ Online
    /\ ~settled
    /\ Call("commit", [op |-> "commit", from |-> running])
    /\ UNCHANGED <<files, up, running, settled, leaving, hpc, serving,
                   watchdog, world, history>>

\* helperCall gives up; what it has written stays at the Helper's socket.
CallTimesOut(op) ==
    /\ op \in calls
    /\ hpc # "accept"
    /\ calls' = calls \ {op}
    /\ UNCHANGED <<files, up, running, settled, leaving, helper, world, history>>

Stop ==
    /\ up' = FALSE
    /\ leaving' = FALSE
    /\ calls' = {}
    /\ UNCHANGED <<running, settled>>

\* os.Exit after the result of the upgrade was posted.
AgentExit ==
    /\ up
    /\ leaving
    /\ Stop
    /\ UNCHANGED <<files, helper, world, history>>

AgentCrash ==
    /\ up
    /\ Fault
    /\ Stop
    /\ UNCHANGED <<files, helper, serverUp, asked, history>>

Started ==
    /\ up' = TRUE
    /\ running' = current
    /\ settled' = FALSE
    /\ leaving' = FALSE
    /\ calls' = {}

\* systemd: Restart=always.
AgentStart ==
    /\ ~up
    /\ current # Missing
    /\ Started
    /\ UNCHANGED <<files, helper, world, history>>

(***************************************************************************)
(* The Helper's main loop.                                                 *)
(***************************************************************************)

\* The answer reaches the call that waits for it, or comes too late for the
\* connection's deadline of 45 s, and the call fails.
Reply(op, ok) ==
    /\ hpc' = "accept"
    /\ serving' = NoRequest
    /\ calls' = calls \ {op}
    /\ \E inTime \in BOOLEAN :
         LET heard == ok /\ inTime /\ op \in calls IN
         /\ leaving' = (leaving \/ (op = "upgrade" /\ heard))
         /\ settled' = (settled \/ (op = "commit" /\ heard))
    /\ UNCHANGED <<up, running, backlog>>

\* What the code does not keep apart: an upgrade on top of one that was never
\* committed, an upgrade to what is installed already, a commit from a process
\* that is not the installed version, and either in the middle of a rollback.
Clashes(request) ==
    \/ /\ request.op = "upgrade"
       /\ current # lastGood \/ request.version = current \/ RollingBack
    \/ /\ request.op = "commit"
       /\ pending
       /\ request.from # current \/ RollingBack

\* A Helper that is not running is started, from the installed binary, by the
\* connection.
Accept ==
    LET request == Head(backlog) IN
    /\ hpc = "accept" \/ (hpc = "down" /\ current # Missing)
    /\ backlog # <<>>
    /\ backlog' = Tail(backlog)
    /\ serving' = request
    /\ hpc' = IF request.op = "upgrade" THEN "upgrade" ELSE "dropPrevious"
    /\ clash' = (clash \/ Clashes(request))
    /\ UNCHANGED <<files, agent, watchdog, world, lastGood, crashed>>

\* Download, signature, self-check or version do not agree: nothing is touched.
UpgradeRefused ==
    /\ hpc = "upgrade"
    /\ Reply("upgrade", FALSE)
    /\ UNCHANGED <<files, watchdog, world, history>>

\* The binary kept aside by an earlier upgrade is removed.
UpgradeVerified ==
    /\ hpc = "upgrade"
    /\ hpc' = "backup"
    /\ previous' = Missing
    /\ UNCHANGED <<current, pending, agent, backlog, serving, watchdog, world, history>>

\* Mutant: the binary kept aside is removed after the rename, not before.
BackupThenRemove ==
    /\ hpc = "backup"
    /\ current # Missing
    /\ hpc' = "install"
    /\ previous' = Missing
    /\ current' = Missing
    /\ UNCHANGED <<pending, agent, backlog, serving, watchdog, world, history>>

Backup ==
    /\ hpc = "backup"
    /\ current # Missing
    /\ hpc' = "install"
    /\ previous' = current
    /\ current' = Missing
    /\ UNCHANGED <<pending, agent, backlog, serving, watchdog, world, history>>

BackupFails ==
    /\ hpc = "backup"
    /\ Reply("upgrade", FALSE)
    /\ UNCHANGED <<files, watchdog, world, history>>

Install ==
    /\ hpc = "install"
    /\ hpc' = "record"
    /\ current' = serving.version
    /\ UNCHANGED <<previous, pending, agent, backlog, serving, watchdog, world, history>>

\* Mutant: the old binary is left aside.
PutBackNothing == UNCHANGED <<current, previous>>

\* The rename of the kept binary, which fails without a word if it is gone.
PutBack ==
    IF previous = Missing
      THEN UNCHANGED <<current, previous>>
      ELSE current' = previous /\ previous' = Missing

InstallFails ==
    /\ hpc = "install"
    /\ PutBack
    /\ Reply("upgrade", FALSE)
    /\ UNCHANGED <<pending, watchdog, world, history>>

\* Mutant: nobody watches the new binary.
RecordUnwatched ==
    /\ hpc = "record"
    /\ pending' = TRUE
    /\ Reply("upgrade", TRUE)
    /\ UNCHANGED <<current, previous, watchdog, world, history>>

Record ==
    /\ hpc = "record"
    /\ pending' = TRUE
    /\ watchdog' = [watchdog EXCEPT ![serving.nr] = "asleep"]
    /\ Reply("upgrade", TRUE)
    /\ UNCHANGED <<current, previous, world, history>>

RecordFails ==
    /\ hpc = "record"
    /\ IF previous = Missing
         THEN current' = Missing /\ UNCHANGED previous
         ELSE PutBack
    /\ Reply("upgrade", FALSE)
    /\ UNCHANGED <<pending, watchdog, world, history>>

NothingToCommit ==
    /\ hpc = "dropPrevious"
    /\ ~pending
    /\ Reply("commit", TRUE)
    /\ UNCHANGED <<files, watchdog, world, history>>

DropPrevious ==
    /\ hpc = "dropPrevious"
    /\ pending
    /\ hpc' = "clearPending"
    /\ previous' = Missing
    /\ lastGood' = serving.from
    /\ UNCHANGED <<current, pending, agent, backlog, serving, watchdog, world,
                   crashed, clash>>

ClearPending ==
    /\ hpc = "clearPending"
    /\ pending' = FALSE
    /\ Reply("commit", pending)
    /\ UNCHANGED <<current, previous, watchdog, world, history>>

\* runHelper returns when nobody has called for 55 s; systemd keeps the socket.
\* A watchdog is done long before, with its default delay.
HelperIdleExit ==
    /\ hpc = "accept"
    /\ backlog = <<>>
    /\ \A i \in Upgrades : watchdog[i] \in {"none", "done"}
    /\ hpc' = "down"
    /\ UNCHANGED <<files, agent, backlog, serving, watchdog, world, history>>

(***************************************************************************)
(* agentRollbackWatchdog.                                                  *)
(***************************************************************************)

\* 38 s are enough for the Helper to answer, for the Agent to be started again
\* and, if it works and the Server is there, for its first heartbeat.
Quiet ==
    /\ hpc \in {"down", "accept"}
    /\ backlog = <<>>
    /\ up \/ current = Missing
    /\ ~leaving
    /\ Online => settled

Latest(i) == \A j \in Upgrades : watchdog[j] # "none" => j <= i

Wake(i) ==
    /\ watchdog[i] = "asleep"
    /\ Latest(i) => Quiet
    /\ watchdog' = [watchdog EXCEPT ![i] = IF pending THEN "awake" ELSE "done"]
    /\ clash' = (clash \/ (pending /\ (Committing \/ RollingBack)))
    /\ UNCHANGED <<files, agent, backlog, hpc, serving, world, lastGood, crashed>>

MoveAside(i) ==
    /\ watchdog[i] = "awake"
    /\ watchdog' = [watchdog EXCEPT ![i] = IF pending THEN "moved" ELSE "restart"]
    /\ current' = IF pending THEN Missing ELSE current
    /\ UNCHANGED <<previous, pending, agent, backlog, hpc, serving, world, history>>

Restore(i) ==
    /\ watchdog[i] = "moved"
    /\ watchdog' = [watchdog EXCEPT ![i] =
                      IF previous = Missing THEN "restart" ELSE "restored"]
    /\ PutBack
    /\ UNCHANGED <<pending, agent, backlog, hpc, serving, world, history>>

ForgetPending(i) ==
    /\ watchdog[i] = "restored"
    /\ watchdog' = [watchdog EXCEPT ![i] = "restart"]
    /\ pending' = FALSE
    /\ UNCHANGED <<current, previous, agent, backlog, hpc, serving, world, history>>

\* Mutant: the restart takes for granted that there is a binary.
RestartAgentBlindly(i) ==
    /\ watchdog[i] = "restart"
    /\ watchdog' = [watchdog EXCEPT ![i] = "done"]
    /\ Started
    /\ UNCHANGED <<files, backlog, hpc, serving, world, history>>

\* systemctl restart, whatever became of the rollback.
RestartAgent(i) ==
    /\ watchdog[i] = "restart"
    /\ watchdog' = [watchdog EXCEPT ![i] = "done"]
    /\ IF current = Missing THEN Stop ELSE Started
    /\ UNCHANGED <<files, backlog, hpc, serving, world, history>>

\* The Helper is killed: its request and its watchdogs are gone, what waits at
\* the socket, which systemd holds, is not.
HelperCrash ==
    /\ Fault
    /\ hpc' = "down"
    /\ serving' = NoRequest
    /\ watchdog' = [i \in Upgrades |-> IF watchdog[i] = "none" THEN "none" ELSE "done"]
    /\ calls' = IF serving = NoRequest THEN calls ELSE calls \ {serving.op}
    /\ crashed' = TRUE
    /\ UNCHANGED <<files, up, running, settled, leaving, backlog, serverUp, asked,
                   lastGood, clash>>

ServerDown ==
    /\ serverUp
    /\ Fault
    /\ serverUp' = FALSE
    /\ UNCHANGED <<files, agent, helper, asked, history>>

ServerBack ==
    /\ ~serverUp
    /\ serverUp' = TRUE
    /\ UNCHANGED <<files, agent, helper, asked, faults, history>>

UpgradeStep ==
    \/ UpgradeRefused \/ UpgradeVerified \/ Backup \/ BackupFails
    \/ Install \/ InstallFails \/ Record \/ RecordFails

CommitStep == NothingToCommit \/ DropPrevious \/ ClearPending

HelperStep == Accept \/ UpgradeStep \/ CommitStep

WatchdogStep(i) ==
    Wake(i) \/ MoveAside(i) \/ Restore(i) \/ ForgetPending(i) \/ RestartAgent(i)

Next ==
    \/ \E v \in Versions : AskUpgrade(v)
    \/ AskCommit
    \/ \E op \in {"upgrade", "commit"} : CallTimesOut(op)
    \/ AgentExit \/ AgentStart \/ AgentCrash
    \/ HelperStep
    \/ \E i \in Upgrades : WatchdogStep(i)
    \/ HelperCrash \/ HelperIdleExit
    \/ ServerDown \/ ServerBack

Spec == Init /\ [][Next]_vars

\* Processes keep running, systemd keeps starting the Agent, and a process whose
\* first commit was not answered tries again with every heartbeat.
Fairness ==
    /\ WF_vars(HelperStep)
    /\ WF_vars(AgentExit)
    /\ WF_vars(AgentStart)
    /\ WF_vars(AskCommit)
    /\ \A i \in Upgrades : WF_vars(WatchdogStep(i))

FairSpec == Spec /\ Fairness
-----------------------------------------------------------------------------
\* Whatever else is installed is there on trial: the main loop is about to record
\* it or a watchdog will look at its record, unless the Helper was killed.
OnTrial ==
    \/ hpc \in {"install", "record"}
    \/ RollingBack
    \/ pending /\ \E i \in Upgrades : watchdog[i] = "asleep"

\* The last version that proved itself is never lost: it is installed, or kept
\* aside for a version that is on trial, through upgrades that fail half-way,
\* crashes and rollbacks, unless requests clash.
LastGoodKept ==
    \/ clash
    \/ current = lastGood
    \/ previous = lastGood /\ (OnTrial \/ crashed)

\* When nobody is at work on it, there is a binary to start the Agent from,
\* unless requests clash or the Helper was killed half-way.
Bootable ==
    current # Missing \/ clash \/ crashed \/ RollingBack
    \/ hpc \in {"install", "record"}

\* A version that does not work does not stay installed: a binary that works is
\* put back, unless requests clash or the watchdog was killed.
BadVersionGoes ==
    current \notin Healthy ~> current \in Healthy \/ clash \/ crashed

\* "installed; awaiting reconnect/health commit" (server/release.go): what is
\* committed is the version that reports.
CommitByInstalled == Committing /\ pending => serving.from = current
=============================================================================
