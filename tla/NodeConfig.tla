----------------------------- MODULE NodeConfig -----------------------------
(***************************************************************************)
(* How the report interval an administrator chooses, and the Server's      *)
(* address, reach the Agent of one node, and what the Web UI says of it.   *)
(*                                                                         *)
(* editNode saves the wanted interval and sends it to the Agent as a       *)
(* command; every heartbeat's answer carries it as well, and the address.  *)
(* Inside the Agent, heartbeatLoop and commandLoop both read the whole     *)
(* configuration, change a field and write all of it back.  A node is      *)
(* online while its last heartbeat is younger than some intervals.         *)
(*                                                                         *)
(* The command channel is used as CommandChannel shows it to be: commands  *)
(* are run in order, at most once, and may be lost.  The node exists and   *)
(* is registered, and the Server answers at both addresses.  Time is       *)
(* counted in units; a step that waits for nobody takes none.              *)
(***************************************************************************)
EXTENDS Integers, Sequences, FiniteSetsExt

CONSTANTS
    Intervals,      \* 2, 5, 10, 30, 60 s in the code
    Missed,         \* heartbeats a node may miss, 3 in the code
    MinThreshold,   \* 30 s in the code
    Urls,           \* addresses of the Server
    FirstUrl,       \* the one it has to begin with
    Edits,          \* invocations of editNode, numbered in the order they save
    MaxUrlChanges,  \* bound on changes of the Server's address
    MaxDisturbances,\* bound on lost messages and long commands
    MaxAgentRestarts\* bound on restarts of the Agent

ASSUME NodeConstants ==
    /\ Intervals \subseteq Nat \ {0}
    /\ \E i \in Intervals : \A j \in Intervals : j <= i
    /\ Edits \subseteq Nat \ {0}
    /\ FirstUrl \in Urls
    /\ Missed \in Nat \ {0, 1}
    /\ {MinThreshold, MaxUrlChanges, MaxDisturbances, MaxAgentRestarts} \subseteq Nat

VARIABLES
    \* the Server
    want,       \* PersistNode.ReportIntervalSec and the desired address
    latest,     \* RuntimeNode.Latest.ReportIntervalSec, 0: not reported
    age,        \* time since RuntimeNode.LastSeen
    epc,        \* epc[e]: where the invocation e of editNode is
    target,     \* target[e]: the interval asked for
    \* the channel
    queue,      \* commands on their way
    answer,     \* edits whose command was answered with OK
    \* the Agent
    up,
    cfg,        \* ConfigState, in memory and on disk
    hpc,        \* where heartbeatLoop is
    hcfg,       \* its copy of the configuration
    told,       \* what the answer to the heartbeat said
    extended,   \* heartbeatExtensions
    timer,      \* time to the next heartbeat
    wake,       \* intervalWake
    cpc,        \* where commandLoop is
    ccfg,       \* its copy of the configuration
    cmd,        \* the edit it works for
    \* the environment
    urlChanges,
    disturbances,
    agentRestarts

server == <<want, latest, age, epc, target>>
channel == <<queue, answer>>
heartbeat == <<hpc, hcfg, told, extended, timer>>
command == <<cpc, ccfg, cmd>>
agent == <<up, cfg, heartbeat, wake, command>>
env == <<urlChanges, disturbances, agentRestarts>>
configVars == <<server, channel, agent, env>>

Config == [interval : Intervals, url : Urls]
NoConfig == [interval |-> 0, url |-> "none"]         \* the copy is not in use
NoEdit == 0
MaxAge == Max({MinThreshold} \cup {Missed * i : i \in Intervals})

ConfigTypeOK ==
    /\ {want, cfg} \subseteq Config
    /\ {hcfg, told, ccfg} \subseteq Config \cup {NoConfig}
    /\ latest \in Intervals \cup {0}
    /\ age \in 0..MaxAge
    /\ epc \in [Edits -> {"idle", "send", "wait", "answered"}]
    /\ target \in [Edits -> Intervals]
    /\ queue \in Seq(Edits)
    /\ answer \subseteq Edits
    /\ {up, extended, wake} \subseteq BOOLEAN
    /\ hpc \in {"copy", "post", "apply", "switch", "testing", "sleep"}
    /\ timer \in 0..Max(Intervals)
    /\ cpc \in {"poll", "copy", "set", "post", "busy"}
    /\ cmd \in Edits \cup {NoEdit}
    /\ urlChanges \in 0..MaxUrlChanges
    /\ disturbances \in 0..MaxDisturbances
    /\ agentRestarts \in 0..MaxAgentRestarts

\* The node has just reported; Server and Agent agree.
ConfigInit ==
    /\ want \in [interval : Intervals, url : {FirstUrl}]
    /\ cfg = want
    /\ latest = want.interval
    /\ age = 0
    /\ epc = [e \in Edits |-> "idle"]
    /\ target = [e \in Edits |-> want.interval]
    /\ queue = <<>>
    /\ answer = {}
    /\ up = TRUE
    /\ hpc = "sleep"
    /\ hcfg = NoConfig
    /\ told = NoConfig
    /\ extended = TRUE
    /\ timer = want.interval
    /\ wake = FALSE
    /\ cpc = "poll"
    /\ ccfg = NoConfig
    /\ cmd = NoEdit
    /\ urlChanges = 0
    /\ disturbances = 0
    /\ agentRestarts = 0

Disturb ==
    /\ disturbances < MaxDisturbances
    /\ disturbances' = disturbances + 1
    /\ UNCHANGED <<urlChanges, agentRestarts>>

(***************************************************************************)
(* The Server.                                                             *)
(***************************************************************************)

\* Mutant: a single interval.
OneInterval ==
    Max({IF latest > 0 THEN latest ELSE want.interval, MinThreshold})

nodeOfflineThreshold ==
    Max({Missed * (IF latest > 0 THEN latest ELSE want.interval), MinThreshold})

nodeIsOnline == age < nodeOfflineThreshold

\* editNode up to the end of its critical section; a command is sent to a node
\* that is online, if the interval changes or differs from the last report.
EditSave(e, i) ==
    LET sends == nodeIsOnline /\ (want.interval # i \/ latest # i) IN
    /\ epc[e] = "idle"
    /\ \A f \in Edits : f < e => epc[f] # "idle"
    /\ want' = [want EXCEPT !.interval = i]
    /\ target' = [target EXCEPT ![e] = i]
    /\ epc' = [epc EXCEPT ![e] = IF sends THEN "send" ELSE "answered"]
    /\ UNCHANGED <<latest, age, channel, agent, env>>

\* sendCommand looks at the node again, with the new interval wanted.
EditSend(e) ==
    /\ epc[e] = "send"
    /\ IF nodeIsOnline
         THEN queue' = Append(queue, e) /\ epc' = [epc EXCEPT ![e] = "wait"]
         ELSE epc' = [epc EXCEPT ![e] = "answered"] /\ UNCHANGED queue
    /\ UNCHANGED <<want, latest, age, target, answer, agent, env>>

EditDone(e) ==
    /\ epc[e] = "wait"
    /\ e \in answer
    /\ epc' = [epc EXCEPT ![e] = "answered"]
    /\ answer' = answer \ {e}
    /\ UNCHANGED <<want, latest, age, target, queue, agent, env>>

Queued(e) == \E k \in 1..Len(queue) : queue[k] = e
Lost(e) == e \notin answer /\ cmd # e /\ ~Queued(e)

\* The wait of 10 s ends, and the command, if it still waits for commandLoop,
\* stays in the queue.
EditFails(e) ==
    /\ epc[e] = "wait"
    /\ Lost(e) \/ (Queued(e) /\ (cpc = "busy" \/ ~up))
    /\ epc' = [epc EXCEPT ![e] = "answered"]
    /\ UNCHANGED <<want, latest, age, target, channel, agent, env>>

\* The domain or HTTPS settings change desiredAgentURLLocked.
ChangeUrl(u) ==
    /\ u # want.url
    /\ urlChanges < MaxUrlChanges
    /\ urlChanges' = urlChanges + 1
    /\ want' = [want EXCEPT !.url = u]
    /\ UNCHANGED <<latest, age, epc, target, channel, agent,
                   disturbances, agentRestarts>>

(***************************************************************************)
(* heartbeatLoop.                                                          *)
(***************************************************************************)

\* ConfigState.set.
SetConfig(c) == cfg' = c

HbWake ==
    /\ up
    /\ hpc = "sleep"
    /\ timer = 0 \/ wake
    /\ wake' = IF timer = 0 THEN wake ELSE FALSE
    /\ hpc' = "copy"
    /\ UNCHANGED <<server, channel, up, cfg, hcfg, told, extended, timer, command,
                   env>>

HbCopy ==
    /\ up
    /\ hpc = "copy"
    /\ hpc' = "post"
    /\ hcfg' = cfg
    /\ UNCHANGED <<server, channel, up, cfg, told, extended, timer, wake, command,
                   env>>

\* heartbeatForServer: a process does not report its interval before the Server
\* has said that it understands it.
Reported == IF extended THEN hcfg.interval ELSE 0

\* agentHeartbeat.
Heard ==
    /\ latest' = Reported
    /\ age' = 0
    /\ UNCHANGED <<want, epc, target>>

HbPost ==
    /\ up
    /\ hpc = "post"
    /\ Heard
    /\ told' = want
    /\ extended' = TRUE
    /\ hpc' = "apply"
    /\ UNCHANGED <<channel, up, cfg, hcfg, timer, wake, command, env>>

Sleep(c) ==
    /\ hpc' = "sleep"
    /\ timer' = c.interval
    /\ hcfg' = NoConfig
    /\ told' = NoConfig

\* The request or the answer is lost.
HbFails ==
    /\ up
    /\ hpc = "post"
    /\ Disturb
    /\ Heard \/ UNCHANGED server
    /\ Sleep(cfg)
    /\ UNCHANGED <<channel, up, cfg, extended, wake, command>>

LearnNothing == hcfg                                 \* mutant: left to commands
Learn == [hcfg EXCEPT !.interval = told.interval]

\* What was learnt is written over whatever the configuration is by now.
HbApply ==
    /\ up
    /\ hpc = "apply"
    /\ IF Learn # hcfg THEN SetConfig(Learn) ELSE UNCHANGED <<cfg>>
    /\ IF told.url # hcfg.url
         THEN hpc' = "switch" /\ UNCHANGED <<timer, hcfg, told>>
         ELSE Sleep(cfg')
    /\ UNCHANGED <<server, channel, up, extended, wake, command, env>>

\* Mutant: the new configuration is made from scratch.
SwitchBlank ==
    /\ up
    /\ hpc = "switch"
    /\ hpc' = "testing"
    /\ hcfg' = [NoConfig EXCEPT !.url = told.url]
    /\ UNCHANGED <<server, channel, up, cfg, told, extended, timer, wake, command,
                   env>>

SwitchCopy ==
    /\ up
    /\ hpc = "switch"
    /\ hpc' = "testing"
    /\ hcfg' = [cfg EXCEPT !.url = told.url]
    /\ UNCHANGED <<server, channel, up, cfg, told, extended, timer, wake, command,
                   env>>

\* testAuthenticatedServer succeeded.
Switch ==
    /\ up
    /\ hpc = "testing"
    /\ SetConfig(hcfg)
    /\ Sleep(hcfg)
    /\ UNCHANGED <<server, channel, up, extended, wake, command, env>>

SwitchFails ==
    /\ up
    /\ hpc = "testing"
    /\ Disturb
    /\ Sleep(cfg)
    /\ UNCHANGED <<server, channel, up, cfg, extended, wake, command>>

(***************************************************************************)
(* commandLoop, for set_report_interval.                                   *)
(***************************************************************************)

CmdFetch ==
    /\ up
    /\ cpc = "poll"
    /\ queue # <<>>
    /\ queue' = Tail(queue)
    /\ cmd' = Head(queue)
    /\ cpc' = "copy"
    /\ UNCHANGED <<server, answer, up, cfg, heartbeat, wake, ccfg, env>>

CmdLost ==
    /\ queue # <<>>
    /\ Disturb
    /\ queue' = Tail(queue)
    /\ UNCHANGED <<server, answer, agent>>

CmdCopy ==
    /\ up
    /\ cpc = "copy"
    /\ cpc' = "set"
    /\ ccfg' = cfg
    /\ UNCHANGED <<server, channel, up, cfg, heartbeat, wake, cmd, env>>

CmdSet ==
    /\ up
    /\ cpc = "set"
    /\ cpc' = "post"
    /\ SetConfig([ccfg EXCEPT !.interval = target[cmd]])
    /\ ccfg' = NoConfig
    /\ UNCHANGED <<server, channel, up, heartbeat, wake, cmd, env>>

\* The heartbeat is woken after the result was delivered, or was not.
CmdPost(delivered) ==
    /\ up
    /\ cpc = "post"
    /\ IF delivered
         THEN /\ answer' = IF epc[cmd] = "wait" THEN answer \cup {cmd} ELSE answer
              /\ UNCHANGED env
         ELSE Disturb /\ UNCHANGED answer
    /\ wake' = TRUE
    /\ cpc' = "poll"
    /\ cmd' = NoEdit
    /\ UNCHANGED <<server, queue, up, cfg, heartbeat, ccfg>>

\* Another command (an upgrade, a process that does not stop) takes its time.
Busy ==
    /\ up
    /\ cpc = "poll"
    /\ Disturb
    /\ cpc' = "busy"
    /\ UNCHANGED <<server, channel, up, cfg, heartbeat, wake, ccfg, cmd>>

BusyEnds ==
    /\ up
    /\ cpc = "busy"
    /\ cpc' = "poll"
    /\ UNCHANGED <<server, channel, up, cfg, heartbeat, wake, ccfg, cmd, env>>

(***************************************************************************)
(* The Agent's process, and time.                                          *)
(***************************************************************************)

AgentStop ==
    /\ up
    /\ agentRestarts < MaxAgentRestarts
    /\ agentRestarts' = agentRestarts + 1
    /\ up' = FALSE
    /\ hpc' = "copy"
    /\ hcfg' = NoConfig /\ told' = NoConfig /\ ccfg' = NoConfig
    /\ timer' = 0
    /\ extended' = FALSE
    /\ wake' = FALSE
    /\ cpc' = "poll"
    /\ cmd' = NoEdit
    /\ UNCHANGED <<server, channel, cfg, urlChanges, disturbances>>

\* Mutant: the interval is not in the file.
AgentStartUnsaved ==
    /\ ~up
    /\ up' = TRUE
    /\ \E i \in Intervals : SetConfig([cfg EXCEPT !.interval = i])
    /\ UNCHANGED <<server, channel, heartbeat, wake, command, env>>

AgentStart ==
    /\ ~up
    /\ up' = TRUE
    /\ UNCHANGED <<server, channel, cfg, heartbeat, wake, command, env>>

\* Nobody has anything to do but wait.
Waiting ==
    /\ \A e \in Edits : epc[e] \in {"idle", "wait", "answered"}
    /\ answer = {}
    /\ up => /\ hpc = "sleep" /\ timer > 0 /\ ~wake
             /\ cpc = "busy" \/ (cpc = "poll" /\ queue = <<>>)

TimePasses ==
    /\ Waiting
    /\ age' = IF age < MaxAge THEN age + 1 ELSE age
    /\ timer' = IF up THEN timer - 1 ELSE timer
    /\ UNCHANGED <<want, latest, epc, target, channel, up, cfg, hpc, hcfg,
                   told, extended, wake, command, env>>

EditStep(e) ==
    \/ \E i \in Intervals : EditSave(e, i)
    \/ EditSend(e) \/ EditDone(e) \/ EditFails(e)

HeartbeatStep == HbWake \/ HbCopy \/ HbPost \/ HbApply \/ SwitchCopy \/ Switch

CommandStep == CmdFetch \/ CmdCopy \/ CmdSet \/ CmdPost(TRUE)

ConfigNext ==
    \/ \E e \in Edits : EditStep(e)
    \/ \E u \in Urls : ChangeUrl(u)
    \/ HeartbeatStep \/ HbFails \/ SwitchFails
    \/ CommandStep \/ CmdPost(FALSE) \/ CmdLost \/ Busy \/ BusyEnds
    \/ AgentStop \/ AgentStart
    \/ TimePasses

ConfigSpec == ConfigInit /\ [][ConfigNext]_configVars

\* Both loops run, a long command ends, systemd starts the Agent, time passes.
ConfigFairness ==
    /\ WF_configVars(HeartbeatStep)
    /\ WF_configVars(CommandStep)
    /\ WF_configVars(BusyEnds)
    /\ WF_configVars(AgentStart)
    /\ \A e \in Edits : WF_configVars(EditSend(e) \/ EditDone(e) \/ EditFails(e))
    /\ WF_configVars(TimePasses)

FairConfigSpec == ConfigSpec /\ ConfigFairness
-----------------------------------------------------------------------------
\* A failed command, a lost heartbeat or a restart does not lose the requested
\* configuration: once the administrator leaves it alone, the Agent comes to
\* the interval and the address wanted last, and stays there, although its two
\* loops overwrite each other's changes and commands arrive late.
Converges == <>[](cfg = want)

\* The command of an edit is about to be sent, is queued, or is in commandLoop's
\* hand.
UnderWay(e) == epc[e] = "send" \/ Queued(e) \/ cmd = e

\* The Agent has what is wanted, and nobody is about to write anything else: no
\* copy of an older configuration, no answer, no command with another interval.
Agreed ==
    /\ cfg = want
    /\ {hcfg, told, ccfg} \subseteq {want, NoConfig}
    /\ \A e \in Edits : UnderWay(e) => target[e] = want.interval

\* The next heartbeat comes within an interval of the last.
OnTime ==
    CASE hpc = "sleep" -> age + timer <= want.interval
      [] hpc \in {"copy", "post"} -> age <= want.interval
      [] OTHER -> age = 0

Settled == Agreed /\ up /\ latest \in {0, want.interval} /\ OnTime

\* What an administrator sees does not change by itself.  Once Server and Agent
\* agree they agree until the next edit or change of address, whatever is lost
\* and whenever the Agent is restarted; and a node whose heartbeats come on time
\* is shown online until one of them is lost or the Agent stops.
AgreementStays ==
    [][/\ Agreed /\ UNCHANGED want => Agreed'
       /\ Settled /\ UNCHANGED <<want, disturbances, agentRestarts>> =>
            Settled' /\ nodeIsOnline']_configVars

\* Once the administrator leaves it alone, a node is shown online for good.
SettlesOnline == <>[]nodeIsOnline
=============================================================================
