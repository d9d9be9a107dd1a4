# A TLA+ model of NodeLume

NodeLume is a small monitoring system: one **Server** with a Web UI, and an
**Agent** on every machine that only ever connects outwards. This directory
holds TLA+ modules that model its protocols, TLC configurations that check them
on small instances, and proofs, checked by TLAPS, that the safety properties of
all but one of the modules hold on instances of every size.

References such as `server/main.go:1062` are to the files under `src/`.

## 1. The system

### Components, their state and operations

| component | state | operations | what is hard about it |
|---|---|---|---|
| Command channel (`server/main.go` 972-1094, 1274-1329; `agent/main.go` 431-638; `agent/helper.go` 85-104) | per node: queue of 16 commands, table of pending calls; in the Agent: the command under way; at the Helper: the requests it has yet to serve | `sendCommand`, `agentCommands` (long poll), `agentResults`, `commandLoop`, `executeCommand`, `helperCall` | three kinds of goroutines and two remote processes; orphaned polls, polls that only test the Server, lost answers, timeouts that withdraw nothing on either side, restarts |
| Authentication (`server/auth_v101.go`) | table of nonces of the last 120 s, at most 4096 | `authAgentDetailed` | concurrent deliveries of one request, two clocks, expiry, trimming |
| Enrollment and identity (`server/main.go` 852-942, 1096-1213, 1766-1818; `agent/final_v101.go` 338-407) | nodes, tokens, receipts: in memory and in one file | create, re-enrol, delete, register, common token, maintenance | idempotent retries, two valid secrets at a time, saves that fail, crashes |
| Node configuration and heartbeats (`server/main.go` 1214-1273, 1683-1748; `server/final.go` 16-34; `agent/main.go` 344-420, 501-514) | wanted and reported interval, time of the last heartbeat; the Agent's configuration | `editNode`, `agentHeartbeat`, `heartbeatLoop`, `set_report_interval` | two loops that copy and write back one record; answers about a state that is only reported |
| Agent upgrade (`agent/release.go`, `agent/helper.go` 56-104, 190-216) | binary, binary kept aside, pending record; Helper's socket, watchdogs | upgrade, commit, rollback | three processes and files, each step of which may fail or be the last |
| Metric history (`server/main.go` 209-260, 281-293, 1214-1257, 1344-1353) | per node a ring of 720 points and the time of the last | add, prune, since | boundary of the hour; heartbeats that overtake each other, and a deletion between authentication and recording |
| Restart records (`agent/helper.go` 133-206, 579-942) | up to 100 saved processes and services | stop, restart, start again | a record is saved before the act it belongs to; every step may be the last, every write may fail, every request may come again |
| Log files (`server/logwriter.go`) | active file, rotated files, limits, subscribers | write, rotate, clean up, configure, clear, tail | limits of size and age enforced now and then, names by the second, errors after each step |
| Certificates and HTTPS (`server/acme.go`, `server/main.go` 405-411) | certificate and key files, settings in memory and on disk, the pair in use | order, renew, import, install, undo | two files replaced one after the other, an import beside an order, settings that are saved after the files, a pair that is read at start only |
| Settings, listen address, restart (`server/final.go` 108-151) | wanted and active address | save, restart | memory and file differ when a save fails |
| Server update (`server/release.go`, `scripts/nlm`) | request and status files | request, run, roll back | a second process reads what the Server writes |
| Sessions and login (`server/main.go` 589-794) | sessions, failure counters | setup, log in, log out, expire | persistence, limits |
| Sampler, command line, Web UI, installers, release tools | | | sequential, or I/O only |

### How they interact

Agents reach the Server over HTTP only, and every request passes
authentication. The Server reaches an Agent through the command channel
(a queue the Agent polls) and through the answers to heartbeats. The Agent asks
its privileged Helper over a Unix socket for what needs root; the Helper serves
one connection at a time, and its watchdogs are goroutines of the same process.
All of the Server's persistent state is one JSON file that is replaced as a
whole by each save; queues, pending calls, nonces, heartbeats and history live
in memory only. Administrators act through the Web UI, concurrently.

## 2. What is modelled

| module | models | state and actions |
|---|---|---|
| `RemoteCall` | what an administrator may rely on: a call refused before it was sent never takes effect, a call takes effect at most once, an answer reports the effect of its own call, a call without an answer is undecided | `reply`, `effect`; `Ask`, `Decline`, `Perform`, `Answer`, `GiveUp` |
| `CommandChannel` | the channel of one node, in detail | `pc`, `issued`, `queue`, `pending`, `box`, `result`, `poll` on the Server; `apc`, `acmd`, `told` in the Agent; `asked`, the connections at the Helper's socket. One action per step of `sendCommand` between two synchronisations, of a poll handler, of a result handler (look-up and send are two steps, as the lock is released in between) and of `commandLoop`. The age of a command is looked at once, on arrival (`RefuseStale`, `Accept`); its effect is a later step, of the Agent itself (`RunHere`) or of the Helper (`AskHelper`, then `HelperServes`, whether or not the Agent still waits: `StopAsking`). `TestPoll` is the poll by which the program tests a new address of the Server (`agent/main.go:384`): a step of its own, not a fault. Losses, crashes of Server, Agent and Helper, and deletion |
| `CommandChannelProofs` | theorems about it | |
| `AgentAuth` | replay protection for any number of requests and handlers | `nonces`, per handler its phase and the second reading of the clock; `Arrive` (clock check), `SignatureOK`/`SignatureBad` (the body is read, the clock is read again), `Commit` (everything under the lock), `Restart`. Time passes between any two of them |
| `Enrollment` | identities of machines | `mem` and `disk` (the state and its file), tokens shown, registrations under way, each machine's configuration; the handlers by their names in the code, each with its save, which may fail |
| `EnrollmentProofs` | theorems about it | |
| `NodeConfig` | report interval, Server address and online status of one node | Server: `want`, `latest`, `age`, edits under way; Agent: `cfg`, the two loops with their copies `hcfg` and `ccfg` |
| `HeartbeatProofs` | theorems about `AgentAuth` and `NodeConfig`, the two components every heartbeat goes through; `NodeConfig` names its parts `Config...` so that both can be extended | |
| `AgentUpgrade` | the upgrade of one Agent | the three files, the Agent process, the Helper's backlog and main loop, its watchdogs |
| `AgentUpgradeProofs` | theorems about it | |
| `RecentPoints` | what the history of a node promises: the latest points, in order, a gap apart, of which only the oldest go | `hist`; `Recorded`, `Expired`, `Forgotten` |
| `NodeHistory` | the ring with its indices, and everything that touches it | `rt` (ring and time of the last point), per heartbeat handler its phase and the time it read, the maintenance ticker; `Authenticate`, `ReadClock`, `Record` are the three parts of `agentHeartbeat` between which others run |
| `NodeHistoryProofs` | theorems about it | |
| `RestartRecords` | stopping and starting through the Helper | `procs`, transient `units`, the `list` in `stopped.json`, the request in hand and how far it is; one action per system call that changes anything, with its failure; `Exit`, also of what was signalled and answered for long ago; `HelperCrash`, `Reboot` |
| `RestartRecordsProofs` | theorems about it | |
| `Certificates` | certificate, key and the settings that select them | `cert` and `key` (which pair each file is from), `mem` and `disk`, `served`, an order and an import with their phases; one action per rename or save, with its failure |
| `CertificatesProofs` | theorems about it | |
| `LogFiles` | the Server's log | the files with the lines they hold, the writer's handle, size, day and limit, the step of the operation that holds the lock and the files it has yet to remove (`todo`); `RemoveFile` removes one, in the order of the code, or fails and goes on |
| `LogFilesProofs` | theorems about it | |

`MCCommandChannel`, `MCAgentAuth` and `MCEnrollment` add what TLC needs: symmetry
sets and values of constants that a .cfg cannot write. Operators marked *mutant* in the
modules are broken variants of a definition (a forgotten clean-up, an
off-by-one, a swapped order). No behaviour uses them; each shows that some
property would notice the mistake, by replacing the definition that follows it.

Modules are composed by their interfaces: `CommandChannel` implements
`RemoteCall`, and `NodeConfig` relies on what is shown there (commands run in
order, at most once, or are lost). `AgentAuth` treats "the signature is right"
as a choice that `Enrollment`'s `Valid` decides. `NodeHistory` implements
`RecentPoints`; its `Authenticate` stands for what `AgentAuth` and `Enrollment`
model in detail. `RestartRecords` takes requests in any order and any number,
which is what `CommandChannel` and administrators can produce.

### Abstractions

* Commands, requests, tokens and nodes are model values. A command is one of two kinds: the Agent performs it, or asks the Helper to. Secrets are numbered in
  the order they are made; random values never repeat.
* Queues of different nodes share nothing, so `CommandChannel`, `NodeConfig` and
  `AgentUpgrade` model one node.
* Time: `CommandChannel`, `AgentAuth` and `Enrollment` have a clock that may stop
  at any reading; comparisons with deadlines keep the code's `>`, `>=`, `<=`.
  `NodeConfig` counts time as ages and a timer; its `TimePasses` waits for those steps
  that take no time compared with a heartbeat interval. In `AgentUpgrade`
  the 38 s of the latest watchdog are "long enough": it wakes when everyone
  else is waiting (`Quiet`); an earlier watchdog may wake at any time.
* A crash between two steps of a handler is possible wherever something outlives
  it; a save replaces the file as a whole or not at all (`atomicWrite`).
* A program in `RestartRecords` is of one of five kinds, by what `readProcessDetail`
  says of it (restarted by hand or by systemd, with arguments that are not kept,
  not restartable, protected). A process is its program and the unit it runs in.
* A pair in `Certificates` is the number of its key and the life it has left; numbers
  that nothing holds any more are used again. A line in `LogFiles` is its number.
* A point in `NodeHistory` is its time.
* History variables (named as such) are read by no action.

## 3. The runs

| run | instance | shows |
|---|---|---|
| `CommandChannel` | 3 calls, one of them queued while the Agent was away and given up; 2 of the 3 for the Helper; queue of 2, 2 poll handlers, 1 poll that tests the Server, 1 fault, fairness | types with the bound of the queue, the pending table, `OneCopy`: a command is in one place, and in none only after a fault or a test poll; declined calls never run; `RunsInQueueOrder`: effects once and in queue order, but for a request the Agent left at the Helper; `ImplementsRemoteCall`: every behaviour is one of `RemoteCall`; `CallsEnd`, `QueuedIsHandled` |
| `AgentAuth` | 3 requests, 2 handlers of any duration, window 1, retention 2, clock to 4, table of 2, one restart | accepted once unless the handler outlasts the window, bounded, `RemembersExactly`: no false alarm, and memory lasts as long as a request can arrive |
| `Enrollment` | 2 machines, 2 nodes, a one-time and a common token, clock to 2, 3 identities, one failed save and crashes after it | answered identities are durable as long as saves succeed; a one-time token gives one identity, a secret has one owner and retries get the same answer after crashes too, but for what a crash has undone; a working credential is kept until it is replaced |
| `NodeConfig` | 2 intervals, 2 addresses, 2 edits, 1 change of address, 2 disturbances, 1 restart, fairness | the Agent comes to the configuration wanted last, and the node is shown online; `AgreementStays`: neither changes by itself once it is so |
| `AgentUpgrade` | 3 versions (1 does not work), 2 upgrades, 2 waiting requests, 2 faults, fairness | the last good binary is kept, there is a binary to start from, a bad version goes |
| `NodeHistory` | 1 node, 2 heartbeat handlers, ring of 3, gap 2, window 6, clock to 9, one restart | `HourIsExact`: the chart has each point of the last hour and nothing else; `ImplementsRecentPoints`: the ring implements the sequence of the latest points |
| `RestartRecords` | one program of each kind, list of 2, 3 records made, 2 faults | `Recoverable`: what ended by the Helper's doing, at once or late, runs or can be started; `NoSecondCopy`: asking again is harmless; `RecordsStay` |
| `Certificates` | life 2, renewal at 1, 2 faults, fairness | `HttpsBacked`: there is a pair to serve whenever HTTPS is on; `HealsItself`: a managed certificate becomes usable again whatever happened to the files |
| `LogFiles` | files of 2 lines, limits 2 and 3, days of 2 s, 6 lines, 4 seconds, 2 errors or crashes, between any two removals too | `KeepsNewest`: what is kept is the newest part without a hole, and older lines only in files whose removal failed or was cut off; `LogsBounded`, but for these |

Three runs end with a counterexample on purpose: they show where the code does
something else than a comment or the Web UI says.

| run | says | the code |
|---|---|---|
| `EnrollmentFailedSave` | "Keep the current Agent credential valid until the new one successfully enrolls." (`server/main.go:901`) | a registration that is answered with `IDENTITY_SAVE_FAILED` has rotated the secret in memory; five minutes later the old one is refused |
| `AgentUpgradeEarlyCommit` | "installed; awaiting reconnect/health commit" (`server/release.go:306`) | a commit of the old process that waits behind the upgrade commits the new version before it runs |
| `CertificatesRenewal` | automatic renewal (`server/web/index.html:1209`) | renewal replaces the files; the Server goes on serving the pair it read when it started, until somebody restarts it |

Some properties are weaker than one may wish, because the code does not have more:

* No property bounds how late a command takes effect. The Agent refuses one older than 120 s
  when it arrives (`agent/main.go:496`); the Helper may carry it out minutes later.
* `RunsInQueueOrder` excepts a request to the Helper that the Agent has given up (`helperCall`, after 10 s to
  120 s): what the Agent itself does of later commands may overtake it, later requests to the Helper may not.
* `OneCopy` and `QueuedIsHandled` except commands taken by a poll that tests the Server (`strays`). It is
  the program's own doing: when an address of the Server changes, `testAuthenticatedServer` looks at the status of a long poll
  and drops the command it may carry. The caller times out.
* `AcceptedOnce` excepts a handler that outlasts the window of its request (`late`): the clock is checked before the body is
  read and locks are waited for, and a nonce is kept for exactly twice the window, so a request whose clock was
  ahead and which is held up for a second can be accepted again (`server/auth_v101.go:34`, `71`).
* `OwnIdentity` and `OneTimeOnce` speak of enrollment IDs, not of machines: two clones with
  one name that use one token within ten minutes get one identity, as the
  key of a receipt is made from names (`agent/main.go:654`).
* `RetryGetsSame` and `OneTimeOnce` except an identity that was not in the file when the Server crashed (`undone`):
  after a save that failed, the retry is answered with success from the receipt in memory, and a crash
  then forgets the identity and makes the one-time token work again. So two machines may have been told of
  success for one token, with two secrets; the Server no longer takes the undone one, which `OneTimeOnce` states too.
* `SettlesOnline` says "in the end". In the first period after a start of the Agent
  no interval is reported, and a node whose interval is being shortened is shown
  offline, which `server/final.go:18` means to avoid.
* `AgreementStays` promises "online" as long as no heartbeat is lost; how many losses in a
  row a node survives (`Missed - 1`) is not stated.
* The answer of `editNode` ("applied", `server/main.go:1738`) is not part of
  `NodeConfig`: it is first taken from a report that may be older than another
  edit, and then says "applied" of a value the Agent does not have.
* `AnsweredIsDurable` and `KeptUntilReplaced` hold as long as no save has failed.
  `LastGoodKept`, `Bootable` and `BadVersionGoes` hold as long as no two requests clash (below);
  what happens to the files when they do is not stated.
* `NoSecondCopy` excepts programs of which a record outlived its purpose:
  of a stop that did not stop, or of an earlier stop of what was started again by itself.
  `Recoverable` excepts what a full list pushed out, and programs whose last stop kept no record (`unkept`): a stop that is
  answered with an error takes its record back, though the process may end of the signal a moment later
  (`agent/helper.go:609`, `647`), and `systemctl restart` has none for a unit that stays down (`631`).
* `KeepsNewest` and `LogsBounded` except lines in files whose removal failed or was cut off by a crash (`spared`):
  the errors of `os.Remove` are ignored (`server/logwriter.go:100`, `111`, `166`, `227`) and the size is subtracted all the same.
  As `Clear` goes by name, what stays behind has holes, and the youngest of the cleared lines may go first.
  `LogsBounded` also excepts the time until the next rotation after a restart or an open that failed.
* `HttpsBacked` excepts a crash between the two renames, an undo that fails
  and overlapping jobs; a managed certificate then heals, an imported one does not, also where an import overlaps an order and wins.
* A runtime entry of a deleted node can come back (`server/main.go:1244`) and stays
  until a restart; it is no longer in the list of nodes.

### Bounds, and why they are enough

In `CommandChannel` three calls give two commands in the queue at once, a full queue, and a command under way beside a
queued one; two of them are for the Helper and one for the Agent, so that each order of the kinds occurs. The third call begins
given up, as the Server leaves it when a caller has timed out: this saves states, not behaviours. Two poll handlers are
one live and one orphaned. With `CallTimeout` and `StaleAfter` 0 and a clock to 1 every call may time out and every
command be stale, or not. What larger instances could add to safety is proved (section 4). In `AgentAuth`
two handlers race for one request while the third request makes a table of two
overflow; window 1 and retention 2 have
the ratio of the code's 60 s and 120 s, with no margin, and a clock to 4 lets a handler outlast both. In `Enrollment` lives of 1 unit and a clock up to 2
let one-time tokens, receipts and replaced secrets expire before, while and after they
are used; a node made by the common token can be re-enrolled with the one-time token. Three
identities are that of a first enrolment, the one that replaces it and the one after a crash has undone
either; the failure may come at any save up to the second identity (`MaxSecretsAtFailure`), at any
reading of the clock. (Smaller instances with two failures, with machines of one name and with two
one-time tokens have been checked too, with the inductive invariant; what is proved has no bounds.) `NodeConfig` keeps
the relations of the code's numbers that matter: the long interval is longer than
the smallest threshold (60 s and 30 s in the code, 3 and 2 here), the short one
is not, and a node may miss more than one heartbeat. Its edits are numbered in
the order in which they are saved, which loses no behaviour; the one change of address
and the two disturbances may come in any order and at any point of an edit. `AgentUpgrade` has an
upgrade to a bad version followed by one to a good version and the reverse. In `NodeHistory` the ring is as
long as the window (`Window = Capacity * Gap`, as 3600 s and 720 points of 5 s), and the clock runs long
enough for the ring to wrap and for its oldest point to expire. In `RestartRecords`
three records overflow a list of two. In `Certificates` two faults allow a crash in the middle of a
change and a failure of what should repair it; seven numbers are as many as files and jobs can hold.
In `LogFiles` six lines fill three files, so that both limits and a change of day take some; with two faults
one removal fails and another, or the operation it belongs to, is cut off.
Every bound is a named constant that a guard mentions. `CHECK_DEADLOCK FALSE` is set throughout: the bounds stop the
clock and the faults, and an administrator may do nothing for ever.

### Fairness

* `CommandChannel`: the goroutines of the Server and the Agent's loop run (weak
  fairness), and so does the Helper's, which its socket starts when needed. `Dequeue` is strongly fair: a poll that starts with a command in
  the queue takes it, since its timer of 25 s is not due; the select can lose to
  the timer only in the instant both become ready, and not every time. Nothing
  is assumed of administrators, faults, test polls, or `SendRegister`.
* `NodeConfig`: both loops of the Agent run, long commands end, the service
  manager starts the Agent (`Restart=always`), time passes. Disturbances and
  restarts are bounded, so the property is about what happens after the last.
* `Certificates`: an order or import that has begun goes on, and the maintenance loop
  looks at the certificate every twelve hours. Months pass (`Tick`) only while no job
  is under way, as jobs take minutes. Nobody has to apply, import or restart.
* `AgentUpgrade`: the Helper's loop and the watchdogs run while their process
  lives, the Agent is started, exits when it has decided to, and asks for the commit
  after each heartbeat until it was answered. The Server's return is not assumed.

## 4. What is proved

TLAPS checks these for all values of the constants that satisfy the named
assumptions of the modules.

**`CommandChannelProofs`** (assuming `ChannelConstants`: positive capacity, `NoCall`
is not a call, numbers are numbers).
`ChannelInvariant` establishes the inductive invariant `IInv`, of six parts:
`TypeOK`; `PollInv`, the Agent that polls has exactly one live handler and the others
are cut, tests or idle; `OrderInv`, along the way from the queue over the Agent to what it has dealt with, or left
at the Helper, commands have decreasing numbers; `HelperInv`, the requests at the Helper
are sorted, have no effect yet, and come after all it has served; `LossInv`, without a fault every queued command is on the way,
dealt with, or taken by a test of the Server; `ResultInv`, what a result says other than failure is what
was done. None of the properties is inductive alone: that
a command runs once needs to know that no second copy is on the way, which needs
the order, which needs that only one handler feeds the Agent and that the Helper serves one request after the other. From `IInv` follow
`TypeCorrect`, `EveryCommandOnce`, `DeclinedSafe`, `InQueueOrder`,
`PendingExact`, and `Refinement`: the initial state maps to the initial state of
`RemoteCall` and each step to a step or a stutter. `PromisesKept` draws the conclusion: from
`RemoteCall` alone an answer other than a failure is the effect of its call and a declined call has none (`Honest`), and
neither effects nor what callers were told ever change (`Final`); hence this is so of the channel.

**`HeartbeatProofs`**, first part: `AgentAuth` (assuming `AuthConstants` and `WindowFits`:
`2 * Window <= Retention`, which the code's 60 s and 120 s meet exactly). Nothing is assumed of how long a handler takes.
The invariant of `AuthInvariant` says that a handler at work began when the clock was no more than the window behind the timestamp, that
an entry was written no earlier either, and that an accepted request that was not trimmed or
lost is in the table until its window has passed. `ExpiryIsLate` and
`DuplicateIsFound` are the two lemmas that carry the argument from there to
`NoDoubleAcceptance`, with the exception of late handlers, and `MemoryIsExact`.
`TableNeverOverflows` is proved separately with the theorems about finite sets.
With a smaller `Retention` TLC finds a request accepted twice by handlers that are in time.
`TypeCorrect` adds the types.

**`HeartbeatProofs`**, second part: `NodeConfig` (assuming `NodeConstants`: there is a longest interval,
intervals are positive, and at least two heartbeats may be missed). `ConfigInvariant`: wherever a loop
works with a copy of the configuration, an answer or a command, there is one (`LoopInv`);
`ConfigTypeCorrect` follows. `AgreementIsStable` is about single steps: if the Agent's
configuration is the wanted one, every copy is too and every command under way sets the wanted interval
(`Agreed`), then each write is of what is there already (`AgreedCopies`, `AgreedConfig`), and no
command with another interval gets under way (`AgreedTargets`). If moreover
the time since the last heartbeat and the time to the next add up to one interval at most (`OnTime`), they keep doing so, and one
interval is less than what a node may miss (`SettledIsOnline`). These are the safe halves
of `Converges` and `SettlesOnline`: that agreement, once reached, stays. That it is reached is liveness.

**`EnrollmentProofs`** (assuming `EnrollmentConstants`: the placeholders are not
nodes or tokens, a token is of one kind, times are numbers). `EnrollmentInvariant`:
as long as no save has failed the file is what is in memory (`DiskInv`); whoever
carries an identity, be it a machine, the answer it has in hand or a receipt, carries
one that was issued and, as long as no save has failed, one of a node the Server knows, with a secret
no newer than the node's (`CarrierInv`), and with the present one, unless a one-time token was used to
replace it and that use was answered (`CurrentInv`); what was answered is what the
receipt says, as long as it lasts (`ReplyInv`); and the receipts, answers and secrets that stem
from one token or one registration are one enrollment ID's (`OnceInv`, `OwnInv`).
A crash brings back the file, so the same has to hold of the file alone (`FileInv`) and of the file
together with memory and with what the machines carry (`FileOwnInv`): a secret that a crash has undone
is still some machine's, and is not made again. What was answered and has not been undone (`Standing`) is in
the file or was made after it was written last (`FiledInv`), and what was undone is accepted nowhere (`UndoneInv`);
the history of answers is never erased. `FileKept`, `FileSaved` and `CrashKeeps` are the
lemmas for a file that stays, is replaced, and becomes memory.
From it follow `TypeCorrect`, `AnswersAreDurable`, `CredentialIsKept`, `RetriesGetTheSame`,
`IdentitiesAreOwn` and `TokensWorkOnce`, with any failed saves and any crashes, and the exceptions above.

**`AgentUpgradeProofs`** (assuming `UpgradeConstants`: the version that is installed
first works, the bounds are numbers). As long as no requests clash, main loop and
watchdogs take turns on the two files: an upgrade begins only when the last good
version is the one installed and no watchdog can wake for an earlier record
(`MainInv`), one watchdog at most is at work, and while a record waits for its commit
the last good version is the one kept aside (`WatchInv`). `LastGoodIsKept` and
`AlwaysBootable` follow; the first also says that any other binary is on trial (`OnTrial`): recorded with a
watchdog that has yet to look, or about to be. It is the safe half of `BadVersionGoes`,
which TLC checks. A clash (`Clashes`) is a request that reaches the Helper while
an earlier one is not settled: an upgrade during a rollback or before the commit of
the one before, a commit for another binary than the installed one, and
also an upgrade to the version that is installed, which overwrites the binary that is kept
aside with the one it belongs to. The last kind came out of the proof: the invariant
was not inductive without it, and a counterexample needs four upgrades and three
waiting requests, more than the run has.

**`RestartRecordsProofs`** (assuming `RecordConstants`: there are programs, and no program that
is restarted is a protected one). A record is written before its process is touched (`RequestInv`). The Helper
answers for what has ended by its doing and for what it has signalled and still runs (`Charged`): each of these has a record
it can be started from, unless its last stop took it back, and only a record whose program
runs again is removed as used (`OwedInv`). As
the unit is named for the record, a record of which nothing is left over can only start what may be
running already (`CopyInv`). From these follow `TypeCorrect`, `StoppedIsRecoverable`,
`StartedOnce` and, of every step, `NoRecordLost`.

**`CertificatesProofs`** (assuming `CertificateConstants`: renewal is due before the end
of a certificate's life). Short of a torn change (a crash between the renames, an undo
that failed, jobs that overlapped), only one job has begun to replace the files
(`OneAtATime`); between the two renames the key file still belongs to the pair it will
put back (`CanGoBack`), and an import that will remove both files if it fails found HTTPS off and no
order behind the files (`NothingToLose`). `TypeCorrect` and `HttpsIsBacked` follow.
New keys are modelled by the least number not in use, whose existence is the lemma `Least`.

**`LogFilesProofs`** (assuming `LogConstants`: a file holds a line at least, a limit
can be chosen). The files hold consecutive parts of what was written; a file with
newer lines was modified no earlier, and `server.log` is the newest of all (`OrderInv`).
A clean-up, which goes by age and then by size, hence chooses a file only with all that hold older
lines, so it does not matter in which order they go and which of them stay behind (`NewestIsKept`); a clear chooses all,
and keeps what it moved aside until there is a new file (`AsideInv`). Each
failure can make the active file one line longer (`SizeInv`), and between operations the others fit
their limit, but for files whose removal failed or was cut off (`FitInv`): `LogsStayBounded`.

**`NodeHistoryProofs`** (assuming `HistoryConstants`: capacity and gap are positive and
`Window <= Capacity * Gap`; in the code 3600 s and 720 points of 5 s). `AddRoom` and
`AddFull` say what `Add` does to the sequence the ring stands for: it appends, and
drops the oldest point once the ring is full, wherever its index has wrapped. `PruneLeavesEnd` and `SinceHas`
say the same of the two loops. The invariant of `HistoryInvariant` has the
points of each node a gap apart and none younger than the time of the latest
(`RuntimeInv`), no reading of the clock in the future (`ClockInv`), and every point
that is younger than the window in the ring (`YoungInv`), and nothing in the ring that was not
recorded and kept since the node was deleted last (`RecordedInv`; `SinceOnly` says that the loop
which draws the chart takes nothing else). A point that is overwritten is
`Capacity * Gap` older than the new one, which is why the hour is complete
(`ChartIsExact`). `Refinement`: each step is, for each node, a step of
`RecentPoints`. A window longer than the ring violates `HourIsExact`, so the assumption cannot go either.

Loops over data (`Prune`, `Since`, the clean-up of the log) are recursive functions in the
modules, and what they compute is proved by induction in first-order form: a set of
numbers has a least element (`Least`, from the library's theorem that `<` is
well-founded), hence what holds at 0 and is handed on holds up to any bound (`UpTo`).

**Only model-checked**: all liveness (`CallsEnd`, `QueuedIsHandled`, `Converges`,
`SettlesOnline`, `BadVersionGoes`, `HealsItself`), which the prover does not handle.
Every other property of the runs that pass is stated by a theorem.

## 5. What is not modelled

Listed with reasons in `PROJECT.json`. In short: the Bearer authentication of
Agents of version 1.0.0; the rate limit of registrations; the upgrade by the
command line; command-line edits of the configuration of a running Agent; torn
reads of a node's secrets (they are read after the lock is released);
readers of the log (tail, subscribers);
a change of the domain and the proxy mode in `Certificates`; everything under "planned" below.
`AgentUpgrade` does not say which failures happen: where `/tmp` and
`/usr/local/bin` are different mounts, for one, `Install` always fails.

## 6. Plan

In this order:

1. *Done*: `RemoteCall`, `CommandChannel`, `AgentAuth`, `Enrollment`,
   `AgentUpgrade`, `NodeConfig`, with the proofs named above.
   Then `NodeHistory` with `RecentPoints`, `RestartRecords`, `Certificates` and `LogFiles`.
2. *Done*: proofs of the types, the safety invariants, the action properties and both refinements
   of all of these. Left: how many lost heartbeats in a row a node survives.
3. The listen address and the restart that makes the wanted one active; the
   upgrade of the Server with its request file; sessions and login limits;
   `compareVersion` as an order over bounded versions; the upgrade by the Agent's command
   line in `AgentUpgrade`, and its edits of a running Agent's configuration in `NodeConfig`.
