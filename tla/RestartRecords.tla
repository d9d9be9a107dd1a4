--------------------------- MODULE RestartRecords ---------------------------
(***************************************************************************)
(* Stopping and starting processes through the Helper, and the restart     *)
(* records by which a stopped one can be started again (stopped.json).     *)
(*                                                                         *)
(* The Helper serves one connection at a time.  It is started by its       *)
(* socket and exits when idle, and keeps nothing in memory between two     *)
(* requests; it can be killed between any two system calls, and each write *)
(* of the list can fail.  An Agent that gives up waiting, or an            *)
(* administrator who tries again, is a request like any other.             *)
(*                                                                         *)
(* A process is [prog, unit]: the program it runs and the unit that holds  *)
(* it, Own for its service or whatever started it, and otherwise the       *)
(* number of the record from which startRecord made a transient unit.      *)
(***************************************************************************)
EXTENDS Integers, Sequences, SequencesExt

CONSTANTS
    Direct,         \* programs that were started by hand
    Services,       \* systemd services
    Sensitive,      \* started by hand, with arguments that are not to be kept
    Unstartable,    \* can be stopped but not restarted: cron, containers
    Protected,      \* not to be touched
    MaxRecords,     \* 100
    MaxStops,       \* bound on the number of records made
    MaxFaults       \* bound on failed writes, crashes and reboots

Programs == Direct \cup Services \cup Sensitive \cup Unstartable \cup Protected

\* The arguments of a program decide once and for all whether they are kept.
ASSUME RecordConstants ==
    /\ Programs # {}
    /\ (Direct \cup Services) \cap Sensitive = {}
    /\ MaxRecords \in Nat \ {0}
    /\ MaxStops \in Nat
    /\ MaxFaults \in Nat

VARIABLES
    procs,      \* the processes that run
    units,      \* the transient units in /run/systemd/system
    list,       \* stopped.json, newest record first
    made,       \* the number of records made so far
    helper,     \* the request in hand: [at, op, proc, rec]
    faults,
    owed,       \* history: programs that ended by the Helper's doing
    condemned,  \* history: processes it has signalled, which may yet end
    unkept,     \* history: programs whose last stop or restart kept no record
    leftover    \* history: programs of which a record outlived its purpose

world == <<procs, units>>
file == <<list, made>>
history == <<owed, condemned, unkept, leftover>>
vars == <<world, file, helper, faults, history>>

Own == 0
Proc(p, u) == [prog |-> p, unit |-> u]
Processes == {Proc(p, u) : p \in Programs, u \in 0..MaxStops}

\* Steps of a request, named for what has been done.
Steps == {"idle", "saved", "signalled", "gone", "started"}
Ops == {"stop", "restart", "service_stop", "start_saved"}
NoRecord == 0
Idle == [at |-> "idle", op |-> "stop", proc |-> CHOOSE q \in Processes : TRUE, rec |-> NoRecord]

Ids == {list[i].id : i \in DOMAIN list}
RecordOf(i) == CHOOSE r \in ToSet(list) : r.id = i
Instances(p) == {q \in procs : q.prog = p}

\* What readProcessDetail allows.
Managed(q) == q.unit # Own
CanTerminate(q) == q.prog \notin Protected
CanRestart(q) == q.prog \in Direct \cup Services
BySystemd(q) == q.prog \in Services \/ Managed(q)

\* captureRestart: no record for a program whose arguments are secret.
Captured(q) == q.prog \notin Sensitive
Record(q) == [id |-> made + 1, prog |-> q.prog, canStart |-> CanRestart(q)]
Records == [id : 1..made, prog : Programs, canStart : BOOLEAN]

TypeOK ==
    /\ procs \subseteq Processes
    /\ units \subseteq 1..made
    /\ list \in Seq(Records)
    /\ Len(list) <= MaxRecords
    /\ \A i, j \in DOMAIN list : i < j => list[i].id > list[j].id
    /\ made \in 0..MaxStops
    /\ helper \in [at : Steps, op : Ops, proc : Processes, rec : 0..made]
    /\ faults \in 0..MaxFaults
    /\ owed \subseteq Programs
    /\ condemned \subseteq Processes
    /\ unkept \subseteq Programs
    /\ leftover \subseteq Programs

Init ==
    /\ procs = {Proc(p, Own) : p \in Programs}
    /\ units = {}
    /\ list = <<>>
    /\ made = 0
    /\ helper = Idle
    /\ faults = 0
    /\ owed = {}
    /\ condemned = {}
    /\ unkept = {}
    /\ leftover = {}

Fault == faults < MaxFaults /\ faults' = faults + 1

Done == helper' = Idle
Become(step) == helper' = [helper EXCEPT !.at = step]

\* The Helper answers for what it signals, and for every end that comes of it.
Condemn(q) == condemned' = condemned \cup {x \in {q} : CanRestart(x)}
Others(ps) == {q \in condemned : q.prog \notin ps}
Settle(ps) == owed' = owed \ ps /\ condemned' = Others(ps)

-----------------------------------------------------------------------------
(* The list on disk. *)

\* saveStopped.
Prepended(r) == <<r>> \o list
KeepAll(s) == s                                    \* mutant: no bound
Newest(s) == SubSeq(s, 1, IF Len(s) < MaxRecords THEN Len(s) ELSE MaxRecords)

\* A program whose oldest record is pushed out by MaxRecords later stops is
\* given up; one that has a record already did not lose it when it started.
SaveStopped(r) ==
    LET all == Prepended(r)
        old == ToSet(all) \ ToSet(Newest(all))
    IN  /\ list' = Newest(all)
        /\ made' = made + 1
        /\ Settle({x.prog : x \in old})
        /\ unkept' = unkept \ {r.prog}
        /\ leftover' = leftover \cup
               {x.prog : x \in {y \in ToSet(all) : y # r /\ y.prog = r.prog}}

Survived == helper.at \in {"saved", "signalled"} /\ helper.proc \in procs

WithoutProgram(i) ==                               \* mutant: removed by name
    SelectSeq(list, LAMBDA r : \A x \in ToSet(list) : x.id = i => x.prog # r.prog)
Without(i) ==                                      \* ids differ: see TypeOK
    IF i \in Ids
    THEN RemoveAt(list, CHOOSE k \in DOMAIN list : list[k].id = i)
    ELSE list

\* removeStopped, writeStopped: the record is taken out, or the list cannot be
\* written and the error is ignored.  A record that is withdrawn because its
\* process survived is then left over.
RemoveStopped(i) ==
    \/ /\ list' = Without(i)
       /\ UNCHANGED <<made, faults, leftover>>
    \/ /\ Fault
       /\ leftover' = IF Survived THEN leftover \cup {helper.proc.prog} ELSE leftover
       /\ UNCHANGED file

-----------------------------------------------------------------------------
(* process_terminate, process_kill, service_stop, process_restart *)

Ask(op, q) ==
    /\ helper.at = "idle"
    /\ q \in procs
    /\ helper' = [at |-> "saved", op |-> op, proc |-> q,
                  rec |-> IF Captured(q) THEN made + 1 ELSE NoRecord]

\* The record is written before anything is done.  If that fails the request is
\* refused, and nothing has changed.
WriteRecord(q) ==
    /\ made < MaxStops
    /\ SaveStopped(Record(q))
    /\ UNCHANGED <<world, faults>>

StopRequest(q) ==
    /\ CanTerminate(q)
    /\ Captured(q)
    /\ Ask("stop", q)
    /\ WriteRecord(q)

\* A program whose arguments are not kept is stopped without a record.
StopUnrecorded(q) ==
    /\ CanTerminate(q)
    /\ ~Captured(q)
    /\ Ask("stop", q)
    /\ UNCHANGED <<world, file, faults, history>>

RestartRequest(q) ==
    /\ CanTerminate(q)
    /\ CanRestart(q)
    /\ ~BySystemd(q)
    /\ Ask("restart", q)
    /\ WriteRecord(q)

\* service_stop; for a transient unit it is process_terminate.
ServiceStopRequest(q) ==
    /\ q.prog \in Services
    /\ Ask("service_stop", q)
    /\ WriteRecord(q)

\* process_restart and service_restart of a unit: systemctl restart, without a
\* record.  The unit does not come up again; if it does, nothing has changed.
RestartUnit(q) ==
    /\ helper.at = "idle"
    /\ q \in procs
    /\ CanRestart(q)
    /\ BySystemd(q)
    /\ procs' = procs \ {q}
    /\ owed' = owed \cup {q.prog}
    /\ unkept' = unkept \cup {q.prog}
    /\ UNCHANGED <<units, file, helper, faults, condemned, leftover>>

\* The signal is sent.
Signal ==
    /\ helper.at = "saved"
    /\ helper.op \in {"stop", "restart"}
    /\ helper.proc \in procs
    /\ Become("signalled")
    /\ Condemn(helper.proc)
    /\ UNCHANGED <<world, file, faults, owed, unkept, leftover>>

Withdraw ==
    /\ IF helper.rec = NoRecord
       THEN UNCHANGED <<file, faults, leftover>>
       ELSE RemoveStopped(helper.rec)
    /\ Done
    /\ UNCHANGED <<world, owed>>

\* A stop that is answered with an error takes its record back.
Unkept == unkept' = unkept \cup {helper.proc.prog}

\* The process has gone before it could be signalled.
SignalFails ==
    /\ helper.at = "saved"
    /\ helper.op \in {"stop", "restart"}
    /\ helper.proc \notin procs
    /\ Withdraw
    /\ Unkept
    /\ UNCHANGED condemned

\* waitGone: five seconds for SIGTERM, two for SIGKILL.  The process may end
\* right after.
StillThere ==
    /\ helper.at = "signalled"
    /\ helper.proc \in procs
    /\ Withdraw
    /\ Unkept
    /\ UNCHANGED condemned

Stopped ==
    /\ helper.at = "signalled"
    /\ helper.op = "stop"
    /\ helper.proc \notin procs
    /\ units' = units \ {helper.proc.unit}
    /\ Done
    /\ UNCHANGED <<procs, file, faults, history>>

StoppedForRestart ==
    /\ helper.at = "signalled"
    /\ helper.op = "restart"
    /\ helper.proc \notin procs
    /\ Become("gone")
    /\ UNCHANGED <<world, file, faults, history>>

ServiceStops ==
    /\ helper.at = "saved"
    /\ helper.op = "service_stop"
    /\ procs' = procs \ {helper.proc}
    /\ owed' = owed \cup {helper.proc.prog}
    /\ Done
    /\ UNCHANGED <<units, file, faults, condemned, unkept, leftover>>

\* systemctl reports an error; the service may stop nevertheless, later.
ServiceStopFails ==
    /\ helper.at = "saved"
    /\ helper.op = "service_stop"
    /\ helper.proc \in procs
    /\ Withdraw
    /\ Unkept
    /\ Condemn(helper.proc)
-----------------------------------------------------------------------------
(* startRecord, process_start_saved *)

\* The unit is named for the record, so that starting it again starts nothing.
FreshUnit(i) == CHOOSE u \in 1..(2 * MaxStops) : u \notin units    \* mutant
UnitOf(i) == i

\* serviceAction or startRecord, which reports success when it sees the process.
Start(q, i) ==
    /\ procs' = procs \cup {q}
    /\ units' = units \cup ({q.unit} \ {Own})
    /\ Settle({q.prog})
    /\ helper' = [helper EXCEPT !.at = "started", !.proc = q, !.rec = i]

StartFailsForgetting ==                            \* mutant
    /\ helper.at = "gone"
    /\ list' = Without(helper.rec)
    /\ Done
    /\ UNCHANGED <<world, made, faults, history>>

\* The unit could not be made, or its process did not stay: unit and script are
\* removed, the record is kept.
StartFails ==
    /\ helper.at = "gone"
    /\ units' = units \ {UnitOf(helper.rec)}
    /\ Done
    /\ UNCHANGED <<procs, file, faults, history>>

StartAgain ==
    /\ helper.at = "gone"
    /\ Start(Proc(helper.proc.prog, UnitOf(helper.rec)), helper.rec)
    /\ UNCHANGED <<file, faults, unkept, leftover>>

\* A record that is not there or cannot be started is refused.
Startable(i) == i \in Ids /\ RecordOf(i).canStart

StartSaved(i) ==
    /\ helper.at = "idle"
    /\ Startable(i)
    /\ LET p == RecordOf(i).prog
       IN  Start(Proc(p, IF p \in Services THEN Own ELSE UnitOf(i)), i)
    /\ UNCHANGED <<file, faults, unkept, leftover>>

StartSavedFails(i) ==
    /\ helper.at = "idle"
    /\ Startable(i)
    /\ RecordOf(i).prog \notin Services
    /\ Proc(RecordOf(i).prog, UnitOf(i)) \notin procs
    /\ units' = units \ {UnitOf(i)}
    /\ UNCHANGED <<procs, file, helper, faults, history>>

\* The record has served.
Started ==
    /\ helper.at = "started"
    /\ Withdraw
    /\ UNCHANGED <<condemned, unkept>>

-----------------------------------------------------------------------------
(* What happens around the Helper *)

\* A process ends, by itself or of the signal, however late: after the Helper has
\* answered "still running", after it was killed, while it serves another request.
Exit(q) ==
    /\ q \in procs
    /\ procs' = procs \ {q}
    /\ owed' = owed \cup {x.prog : x \in condemned \cap {q}}
    /\ condemned' = condemned \ {q}
    /\ UNCHANGED <<units, file, helper, faults, unkept, leftover>>

\* systemd restarts a service, or somebody starts it.
ServiceStarts(p) ==
    /\ p \in Services
    /\ helper.at = "idle"
    /\ Instances(p) = {}
    /\ procs' = procs \cup {Proc(p, Own)}
    /\ Settle({p})
    /\ UNCHANGED <<units, file, helper, faults, unkept, leftover>>

\* Units of their own survive the Helper, and so does what systemctl has begun.
HelperCrash ==
    /\ Fault
    /\ helper.at # "idle"
    /\ leftover' = IF Survived /\ helper.rec # NoRecord
                   THEN leftover \cup {helper.proc.prog} ELSE leftover
    /\ IF helper.at = "saved" /\ helper.op = "service_stop"
       THEN Condemn(helper.proc) ELSE UNCHANGED condemned
    /\ Done
    /\ UNCHANGED <<world, file, owed, unkept>>

\* /run is emptied, and services start again.  The list was renamed into place
\* without being synced: after a power loss it may be unreadable, which nothing
\* tells from empty but for the error message, and the next stop replaces it.
Reboot ==
    /\ Fault
    /\ procs' = {Proc(p, Own) : p \in Services}
    /\ units' = {}
    /\ \/ /\ owed' = owed \ Services
          /\ UNCHANGED list
       \/ /\ owed' = {}
          /\ list' = <<>>
    /\ condemned' = {}
    /\ Done
    /\ UNCHANGED <<made, unkept, leftover>>

-----------------------------------------------------------------------------
HelperStep ==
    \/ \E q \in procs :
          \/ StopRequest(q) \/ StopUnrecorded(q) \/ RestartRequest(q)
          \/ ServiceStopRequest(q) \/ RestartUnit(q)
    \/ Signal \/ SignalFails \/ StillThere \/ Stopped \/ StoppedForRestart
    \/ ServiceStops \/ ServiceStopFails
    \/ StartAgain \/ StartFails \/ Started
    \/ \E i \in 1..made : StartSaved(i) \/ StartSavedFails(i)

Environment ==
    \/ \E q \in procs : Exit(q)
    \/ \E p \in Services : ServiceStarts(p)
    \/ HelperCrash
    \/ Reboot

Next == HelperStep \/ Environment

Spec == Init /\ [][Next]_vars

-----------------------------------------------------------------------------
(* Properties *)

\* What ended by the Helper's doing can be started again: until it is, there is a
\* record it can be started from, whatever write fails, wherever the Helper is
\* killed and however late the process ends.  The comments in stopProcess and
\* restartProcess promise it.  The code keeps no record, and the promise is not
\* kept, in two cases, those of unkept: a stop answered with an error takes its
\* record back, though the process may end of it a moment later; and a systemctl
\* restart that leaves the unit down never had one.  (Given up: programs pushed
\* out of a full list, those on a list that a power loss has damaged, and those
\* never announced as startable.)
Recoverable ==
    \A p \in owed \ unkept : \E i \in Ids : Startable(i) /\ RecordOf(i).prog = p

\* Starting is idempotent: asking again after a lost answer, a crash between the
\* start and the removal of the record, or a removal that failed, never makes a
\* second copy of a program.  Only a record left over from a stop that did not
\* stop its process, or from before the program was stopped again, can.
NoSecondCopy ==
    \A p \in Programs \ leftover : \A q1, q2 \in Instances(p) : q1 = q2

\* Records do not get lost: short of damage to the file, one goes only by the
\* request it was made or named for, or as the oldest of a full list.
RecordsStay ==
    [][faults' = faults =>
         \A r \in ToSet(list) \ ToSet(list') :
             \/ helper.at # "idle" /\ helper.rec = r.id
             \/ Len(list) = MaxRecords /\ r = Last(list)]_vars
=============================================================================
