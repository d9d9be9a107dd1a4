------------------------------ MODULE LogFiles ------------------------------
(***************************************************************************)
(* The Server's own log: server.log, the files it is rotated to, their     *)
(* limits in size and age, and clearing.                                   *)
(*                                                                         *)
(* Every operation holds the lock of the logWriter from beginning to end,  *)
(* so only a crash, an error of the file system or the clock comes between *)
(* its steps.  The limits are settings as well, under another lock.  Files *)
(* are removed one by one; an error of a removal is ignored.               *)
(*                                                                         *)
(* Lines are numbered as they are written and have one size.  A file holds *)
(* the lines from+1..to.                                                   *)
(***************************************************************************)
EXTENDS Integers, FiniteSets

CONSTANTS
    ActiveMax,      \* size at which server.log is rotated, 10 MiB
    Caps,           \* the limits that can be chosen for the total
    Retention,      \* days a file is kept
    DayLength,      \* seconds of a day
    Admins,         \* who change the limit
    MaxLines,       \* bound on the lines written
    MaxTime,        \* bound on the clock, in seconds
    MaxFaults       \* bound on crashes and errors

ASSUME LogConstants ==
    /\ ActiveMax \in Nat \ {0}
    /\ Caps \subseteq Nat /\ Caps # {}
    /\ Retention \in Nat /\ DayLength \in Nat \ {0}
    /\ MaxLines \in Nat /\ MaxTime \in Nat /\ MaxFaults \in Nat

VARIABLES
    now,
    written,    \* the number of lines written
    active,     \* server.log, or NoFile
    old,        \* the other files of the directory
    handle,     \* logWriter.f: "open", "closed" or "nil"
    size, day,  \* logWriter.size, logWriter.day
    max,        \* logWriter.maxTotal
    at,         \* how far the operation in progress is
    todo,       \* the files it has listed, or chosen, and still has to remove
    cap,        \* Settings.LogMaxMiB
    saved,      \* saved[a]: the limit a has saved and not yet configured
    faults,
    cleared,    \* history: the last line that was cleared
    replaced,   \* history: lines in files that a rotation replaced
    spared,     \* history: lines in files whose removal failed or was cut off
    unclean     \* history: a rotation was cut off before its cleanup

disk == <<active, old>>
writer == <<handle, size, day, max>>
limits == <<cap, saved>>
operation == <<at, todo>>
history == <<cleared, replaced, spared, unclean>>
vars == <<now, written, disk, writer, operation, limits, faults, history>>

File(name, from, to, mtime) == [name |-> name, from |-> from, to |-> to, mtime |-> mtime]
ActiveName == <<>>
RotatedName == <<day, now>>         \* the writer's day and the second
ClearName == <<-1, faults>>         \* the nanosecond: used by one Clear only
NoFile == File(ActiveName, 0, 0, -1)
Moved(f, name) == [f EXCEPT !.name = name]
Files == [name : {ActiveName} \cup (Int \X Int), from : Nat, to : Nat, mtime : Int]

Lines(f) == (f.from + 1)..f.to
Size(f) == f.to - f.from
LinesOf(files) == UNION {Lines(f) : f \in files}
Total(files) == Cardinality(LinesOf(files))
OnDisk == LinesOf(old \cup {active})

Today == now \div DayLength
Unset == 0      \* no limit waits to be configured
Steps == {"idle", "moved", "opened", "limited", "swapped", "fresh"}
Removing == {"opened", "limited", "fresh"}

TypeOK ==
    /\ now \in 0..MaxTime
    /\ written \in 0..MaxLines
    /\ active \in Files /\ old \subseteq Files
    /\ active # NoFile => active.name = ActiveName /\ active.from <= active.to /\ active.to = written
    /\ \A f \in old : f.name # ActiveName /\ f.from <= f.to /\ f.to <= written
    /\ \A f, g \in old : f.name = g.name => f = g
    /\ handle \in {"open", "closed", "nil"}
    /\ handle = "open" => active # NoFile /\ size = Size(active)
    /\ size \in 0..MaxLines
    /\ day \in 0..Today
    /\ max \in Caps
    /\ at \in Steps
    /\ todo \subseteq old /\ (at \in Removing \/ todo = {})
    /\ cap \in Caps
    /\ saved \in [Admins -> Caps \cup {Unset}]
    /\ faults \in 0..MaxFaults
    /\ cleared \in 0..written
    /\ replaced \subseteq 1..written
    /\ spared \subseteq 1..written
    /\ unclean \in BOOLEAN

Init ==
    /\ now = 0
    /\ written = 0
    /\ active = File(ActiveName, 0, 0, 0)
    /\ old = {}
    /\ handle = "open" /\ size = 0 /\ day = 0
    /\ cap \in Caps /\ max = cap
    /\ saved = [a \in Admins |-> Unset]
    /\ at = "idle" /\ todo = {}
    /\ faults = 0
    /\ cleared = 0 /\ replaced = {} /\ spared = {} /\ unclean = FALSE

Fault == faults < MaxFaults /\ faults' = faults + 1

OpenedEmpty(f) == 0                                 \* mutant: assumed to be new
FileSize(f) == Size(f)

\* open: server.log is appended to, or made.
Open(f) ==
    LET g == IF f = NoFile THEN File(ActiveName, written, written, now) ELSE f
    IN  /\ active' = g
        /\ handle' = "open"
        /\ size' = FileSize(g)
        /\ day' = Today

-----------------------------------------------------------------------------
(* Write *)

Append ==
    /\ written < MaxLines
    /\ written' = written + 1
    /\ active' = [active EXCEPT !.to = written + 1, !.mtime = now]
    /\ size' = size + 1

RotationDue == Today # day \/ size >= ActiveMax

\* A write to a handle that is closed or nil fails and changes nothing.
Write ==
    /\ at = "idle"
    /\ ~RotationDue
    /\ handle = "open"
    /\ Append
    /\ UNCHANGED <<now, old, handle, day, max, operation, limits, faults, history>>

\* rotate: the name holds the second, so a second rotation in it replaces the
\* file of the first.  An error of the rename is ignored.
RotateMove ==
    /\ at = "idle"
    /\ RotationDue
    /\ written < MaxLines
    /\ at' = "moved"
    /\ handle' = IF handle = "nil" THEN "nil" ELSE "closed"
    /\ \/ /\ handle # "nil" /\ active # NoFile
          /\ LET same == {f \in old : f.name = RotatedName}
             IN  /\ old' = (old \ same) \cup {Moved(active, RotatedName)}
                 /\ replaced' = replaced \cup UNION {Lines(f) : f \in same}
          /\ active' = NoFile
          /\ UNCHANGED faults
       \/ /\ handle = "nil" \/ active = NoFile
          /\ UNCHANGED <<disk, faults, replaced>>
       \/ /\ Fault
          /\ UNCHANGED <<disk, replaced>>
    /\ UNCHANGED <<now, written, size, day, max, todo, limits, cleared, spared, unclean>>

\* cleanup and cleanupLocked: files that are too old, then the oldest until
\* what is left, and `other`, fit into the limit.
Young == {f \in old : f.mtime >= now - Retention * DayLength}
NotOlder(f) == {g \in Young : g.to >= f.to}
NotNewer(f) == {g \in Young : g.to <= f.to}
KeptOldest(limit, other) ==                         \* mutant: sorted the other way
    {f \in Young : Total(NotNewer(f)) + other <= limit}
KeptByAge(limit, other) == Young                    \* mutant: age alone
Kept(limit, other) == {f \in Young : Total(NotOlder(f)) + other <= limit}

RotateOpen ==
    /\ at = "moved"
    /\ Open(active)
    /\ at' = "opened"
    /\ todo' = old \ Kept(max, 0)
    /\ UNCHANGED <<now, written, old, max, limits, faults, history>>

\* The line is lost, and nothing is cleaned up.
RotateOpenFails ==
    /\ Fault
    /\ at = "moved"
    /\ at' = "idle"
    /\ unclean' = TRUE
    /\ UNCHANGED <<now, written, disk, writer, todo, limits, cleared, replaced, spared>>

\* Clear removes the files as the directory lists them, by name; cleanup does so
\* with the ones that are too old, and goes on with the oldest.
NameBefore(f, g) ==
    f.name[1] < g.name[1] \/ (f.name[1] = g.name[1] /\ f.name[2] < g.name[2])
AsListed == IF at = "fresh" THEN todo ELSE todo \ Young
Foremost(f) == IF AsListed # {}
               THEN f \in AsListed /\ \A g \in AsListed : ~NameBefore(g, f)
               ELSE \A g \in todo : g.to >= f.to

\* An error is ignored, and the size of the file subtracted all the same.
RemoveFile(f) ==
    /\ f \in todo
    /\ Foremost(f)
    /\ todo' = todo \ {f}
    /\ \/ old' = old \ {f} /\ UNCHANGED <<faults, spared>>
       \/ Fault /\ spared' = spared \cup Lines(f) /\ UNCHANGED old
    /\ UNCHANGED <<now, written, active, writer, at, limits, cleared, replaced, unclean>>

WriteRotated ==
    /\ at = "opened"
    /\ todo = {}
    /\ unclean' = FALSE
    /\ Append
    /\ at' = "idle"
    /\ UNCHANGED <<now, old, handle, day, max, todo, limits, faults, cleared, replaced, spared>>

-----------------------------------------------------------------------------
(* saveLogSettings, Configure *)

\* The settings are saved under their own lock; the writer is told afterwards.
SaveLimit(a, c) ==
    /\ saved[a] = Unset
    /\ cap' = c
    /\ saved' = [saved EXCEPT ![a] = c]
    /\ UNCHANGED <<now, written, disk, writer, operation, faults, history>>

\* The active file counts, and is not removed.
Configure(a) ==
    /\ at = "idle"
    /\ saved[a] # Unset
    /\ max' = saved[a]
    /\ saved' = [saved EXCEPT ![a] = Unset]
    /\ at' = "limited"
    /\ todo' = old \ Kept(saved[a], IF active = NoFile THEN 0 ELSE Size(active))
    /\ UNCHANGED <<now, written, disk, handle, size, day, cap, faults, history>>

Configured ==
    /\ at = "limited"
    /\ todo = {}
    /\ unclean' = FALSE
    /\ at' = "idle"
    /\ UNCHANGED <<now, written, disk, writer, todo, limits, faults, cleared, replaced, spared>>

-----------------------------------------------------------------------------
(* Clear *)

\* A handle that is closed but not forgotten makes Clear return an error.
ClearMove ==
    /\ at = "idle"
    /\ handle # "closed"
    /\ handle' = "nil"
    /\ at' = "swapped"
    /\ old' = IF active = NoFile THEN old ELSE old \cup {Moved(active, ClearName)}
    /\ active' = NoFile
    /\ UNCHANGED <<now, written, size, day, max, todo, limits, faults, history>>

ClearCloseFails ==
    /\ Fault
    /\ at = "idle"
    /\ handle = "open"
    /\ handle' = "closed"
    /\ UNCHANGED <<now, written, disk, size, day, max, operation, limits, history>>

ClearMoveFails ==
    /\ Fault
    /\ at = "idle"
    /\ handle # "closed" /\ active # NoFile
    /\ \/ Open(active)
       \/ handle' = "nil" /\ UNCHANGED <<active, size, day>>
    /\ UNCHANGED <<now, written, old, max, operation, limits, history>>

\* "A fresh active handle is live before deleting closed history files."
ClearOpen ==
    /\ at = "swapped"
    /\ Open(NoFile)
    /\ at' = "fresh"
    /\ todo' = old
    /\ cleared' = written
    /\ UNCHANGED <<now, written, old, max, limits, faults, replaced, spared, unclean>>

\* The file is put back, and opened if that works now.
ClearOpenFails ==
    /\ Fault
    /\ at = "swapped"
    /\ LET mine == {f \in old : f.name = ClearName}
       IN  \/ /\ mine = {}
              /\ UNCHANGED <<disk, handle, size, day>>
           \/ \E f \in mine :
                /\ old' = old \ {f}
                /\ \/ Open(Moved(f, ActiveName))
                   \/ active' = Moved(f, ActiveName) /\ UNCHANGED <<handle, size, day>>
    /\ at' = "idle"
    /\ UNCHANGED <<now, written, max, todo, limits, history>>

Cleared ==
    /\ at = "fresh"
    /\ todo = {}
    /\ unclean' = FALSE
    /\ at' = "idle"
    /\ UNCHANGED <<now, written, disk, writer, todo, limits, faults, cleared, replaced, spared>>

-----------------------------------------------------------------------------
\* newLogWriter after a crash or a restart; nothing is cleaned up, and what was
\* being removed stays.
Restart ==
    /\ Fault
    /\ Open(active)
    /\ max' = cap
    /\ saved' = [a \in Admins |-> Unset]
    /\ at' = "idle" /\ todo' = {}
    /\ spared' = spared \cup LinesOf(todo)
    /\ unclean' = (unclean \/ at # "idle" \/ cap # max)
    /\ UNCHANGED <<now, written, old, cap, cleared, replaced>>

Tick ==
    /\ at = "idle"
    /\ now < MaxTime
    /\ now' = now + 1
    /\ UNCHANGED <<written, disk, writer, operation, limits, faults, history>>

Next ==
    \/ Write \/ RotateMove \/ RotateOpen \/ RotateOpenFails \/ WriteRotated
    \/ \E f \in todo : RemoveFile(f)
    \/ \E a \in Admins : Configure(a) \/ \E c \in Caps : SaveLimit(a, c)
    \/ Configured
    \/ ClearMove \/ ClearCloseFails \/ ClearMoveFails
    \/ ClearOpen \/ ClearOpenFails \/ Cleared
    \/ Restart
    \/ Tick

Spec == Init /\ [][Next]_vars

-----------------------------------------------------------------------------
(* Properties *)

\* What the log holds is the newest part of what was written since it was last
\* cleared, without a hole, at every step of rotation, cleanup and clearing:
\* limits take the oldest lines first, and cleared lines do not come back.  Older
\* lines, with holes between them, are left only in files whose removal failed or
\* was cut off by a crash, and whatever is being removed is older than all that
\* stays.  (A line counts as written when Write reports it; the file that a second
\* rotation in the same second replaces is gone.)
KeepsNewest ==
    \E k \in cleared..written :
        /\ ((k + 1)..written) \ replaced \subseteq OnDisk
        /\ OnDisk \cap (1..k) \subseteq spared \cup replaced \cup LinesOf(todo)
        /\ LinesOf(todo) \subseteq 1..k

\* The log stays bounded: between operations the rotated files fit into the limit,
\* but for those whose removal failed or was cut off, and the active file into its
\* own, but for a line after each rename that failed.  (Not before the next
\* rotation after a restart or an open that failed: those leave the cleanup out.)
LogsBounded ==
    at = "idle" /\ handle = "open" /\ ~unclean =>
        /\ Cardinality(LinesOf(old) \ spared) <= max
        /\ Size(active) <= ActiveMax + faults
=============================================================================
