------------------------- MODULE CertificatesProofs --------------------------
(***************************************************************************)
(* Theorems about Certificates, for any life of a certificate, number of   *)
(* failures and number of keys.                                            *)
(*                                                                         *)
(* The argument: short of a torn change, only one job at a time has begun  *)
(* to replace the files; while it is between the two renames, what it will *)
(* put back is the pair the other file still belongs to, and an import     *)
(* that will remove both files found HTTPS off.                            *)
(***************************************************************************)
EXTENDS Certificates, WellFoundedInduction, TLAPS

Busy(j) == job[j].at \in {"half", "installed"}
HalfDone == \E j \in Jobs : At(j, "half")

\* HTTPS is on, or a save may switch it on.
SwitchedOn == mem.mode = "builtin" \/ disk.mode = "builtin"

\* The pair a job installs is one, and what it does next fits its kind.
JobInv ==
    \A j \in Jobs :
        /\ job[j].at \in {"install", "half", "installed"} => job[j].new \in Pairs
        /\ At(j, "installed") => job[j].what \in {"apply", "import"}
        /\ j = "import" /\ ~At(j, "idle") => job[j].what \in {"import", "restore"}

\* One job at a time has begun to replace the files.
OneAtATime == \A j \in Jobs : Busy(j) => ~Busy(Other(j))

Backed == SwitchedOn /\ ~HalfDone => Loads

\* Between the renames: the key file still belongs to the pair of before.
CanGoBack ==
    \A j \in Jobs : At(j, "half") =>
        /\ cert = job[j].new
        /\ SwitchedOn => job[j].prev = key /\ key # None

InstalledLoads == \A j \in Jobs : At(j, "installed") => Loads

\* An import that found no files found HTTPS off.
NothingToLose ==
    job["import"].at \in {"install", "half", "installed"}
    /\ job["import"].what = "import" /\ job["import"].saved = None
    => ~SwitchedOn /\ ~At("order", "installed")

IInv ==
    /\ TypeOK /\ JobInv
    /\ ~torn => OneAtATime /\ Backed /\ CanGoBack /\ InstalledLoads /\ NothingToLose
-----------------------------------------------------------------------------
(* Types. *)

LEMMA Constants ==
    /\ Lifetime \in Nat /\ MaxFaults \in Nat /\ MaxNumber \in Nat
    /\ None \in PairOrNone /\ NoJob \in JobRecords
    /\ None \notin Pairs /\ Mixed \notin Pairs
  BY CertificateConstants DEF PairOrNone, NoJob, JobRecords, Phases, None, Mixed, Pairs

\* A set of numbers has a least one.
LEMMA Least ==
    ASSUME NEW T, T \subseteq Nat, T # {}
    PROVE  \E x \in T : \A y \in T : x <= y
<1> DEFINE R == OpToRel(<, Nat)
<1>1. IsWellFoundedOn(R, Nat)
  BY NatLessThanWellFounded
<1>2. \A x, y \in Nat : x < y => <<x, y>> \in R
  BY DEF OpToRel
<1> HIDE DEF R
<1>3. PICK x \in T : \A y \in T : ~ (<<y, x>> \in R)
  BY <1>1, WFMin
<1>4. ASSUME NEW y \in T PROVE x <= y
  <2>1. x \in Nat /\ y \in Nat /\ ~(y < x)
    BY <1>2, <1>3
  <2> QED
    BY <2>1
<1> QED
  BY <1>4

\* A key that nothing holds is found if there is one.
LEMMA NewPairType == Unused # {} => NewPair \in Pairs
<1> SUFFICES ASSUME Unused # {} PROVE NewPair \in Pairs
  OBVIOUS
<1>1. \E n \in Unused : \A k \in Unused : n <= k
  <2>1. Unused \subseteq Nat
    BY Constants DEF Unused
  <2> HIDE DEF Unused
  <2> QED
    BY <2>1, Least
<1>2. NewPair.n \in Unused /\ NewPair.left = Lifetime
      /\ NewPair = [n |-> NewPair.n, left |-> NewPair.left]
  BY <1>1 DEF NewPair
<1>3. NewPair.n \in 1..MaxNumber /\ NewPair.left \in Life
  BY <1>2, Constants DEF Unused, Life
<1> QED
  BY <1>2, <1>3 DEF Pairs

\* One job moves.
LEMMA SetEffect ==
    ASSUME TypeOK, NEW j \in Jobs, NEW r \in JobRecords, Set(j, r)
    PROVE  /\ job' \in [Jobs -> JobRecords]
           /\ job'[j] = r
           /\ job'[Other(j)] = job[Other(j)] /\ Other(j) # j /\ Other(j) \in Jobs
           /\ Jobs = {j, Other(j)}
  BY DEF TypeOK, Set, Other, Jobs

LEMMA GoEffect ==
    ASSUME TypeOK, NEW j \in Jobs, NEW phase \in Phases
    PROVE  /\ job[j] \in JobRecords
           /\ [job[j] EXCEPT !.at = phase] \in JobRecords
  BY DEF TypeOK, JobRecords

LEMMA FaultType ==
    ASSUME TypeOK, Fault \/ NoFault
    PROVE  faults' \in 0..MaxFaults
<1>1. faults \in 0..MaxFaults /\ MaxFaults \in Nat
  BY Constants DEF TypeOK
<1> QED
  BY <1>1 DEF Fault, NoFault

LEMMA AgedType ==
    ASSUME NEW p \in PairOrNone
    PROVE  /\ Aged(p) \in PairOrNone
           /\ p = None <=> Aged(p) = None
<1>1. CASE p = None
  BY <1>1, Constants DEF Aged, None
<1>2. CASE p \in Pairs
  <2>1. p.n \in 1..MaxNumber /\ p.left \in 0..Lifetime /\ p.n > 0
    BY <1>2, Constants DEF Pairs, Life
  <2>2. Less(p.left) \in 0..Lifetime
    BY <2>1, Constants DEF Less
  <2>3. Aged(p) = [p EXCEPT !.left = Less(p.left)]
    BY <2>1 DEF Aged
  <2>4. Aged(p) \in Pairs
    BY <1>2, <2>2, <2>3 DEF Pairs, Life
  <2> QED
    BY <1>2, <2>4, Constants DEF PairOrNone
<1> QED
  BY <1>1, <1>2 DEF PairOrNone

LEMMA TypeStep == TypeOK /\ [Next]_vars => TypeOK'
<1> SUFFICES ASSUME TypeOK, [Next]_vars PROVE TypeOK'
  OBVIOUS
<1> USE DEF files, settings
<1>0. /\ cert \in PairOrNone /\ key \in PairOrNone
      /\ mem \in Settings /\ disk \in Settings
      /\ served \in Life \cup {PlainHTTP}
      /\ job \in [Jobs -> JobRecords]
      /\ faults \in 0..MaxFaults /\ torn \in BOOLEAN
      /\ "order" \in Jobs /\ "import" \in Jobs
  BY DEF TypeOK, Jobs
<1>a. \A j \in Jobs : job[j] \in JobRecords
  BY <1>0
<1>b. Off \in Settings /\ Builtin("acme") \in Settings /\ Builtin("manual") \in Settings
  BY DEF Settings
<1>1. CASE Renew
  <2>1. [NoJob EXCEPT !.at = "ordering", !.what = "renew"] \in JobRecords
    BY Constants DEF JobRecords, Phases
  <2> QED
    BY <1>0, <1>1, <2>1, SetEffect DEF TypeOK, Renew
<1>2. CASE Apply
  <2>1. [NoJob EXCEPT !.at = "ordering", !.what = "apply"] \in JobRecords
    BY Constants DEF JobRecords, Phases
  <2> QED
    BY <1>0, <1>2, <2>1, SetEffect DEF TypeOK, Apply
<1>3. CASE Issued
  <2>1. [job["order"] EXCEPT !.at = "install", !.new = NewPair] \in JobRecords
    BY <1>0, <1>3, <1>a, NewPairType DEF Issued, JobRecords, Phases, PairOrNone
  <2> QED
    BY <1>0, <1>3, <2>1, SetEffect DEF TypeOK, Issued
<1>4. CASE OrderFails
  BY <1>0, <1>4, Constants, SetEffect, FaultType DEF TypeOK, OrderFails, Finish
<1>5. ASSUME NEW j \in Jobs, InstallFails(j) PROVE TypeOK'
  BY <1>0, <1>5, Constants, SetEffect, FaultType DEF TypeOK, InstallFails, Finish
<1>6. ASSUME NEW j \in Jobs, RenameCert(j) PROVE TypeOK'
  <2>1. [job[j] EXCEPT !.at = "half", !.prev = cert] \in JobRecords /\ job[j].new \in PairOrNone
    BY <1>0, <1>a DEF JobRecords, Phases
  <2>2. torn' \in BOOLEAN
    BY <1>6 DEF RenameCert, Overlap
  <2> QED
    BY <1>0, <1>6, <2>1, <2>2, SetEffect DEF TypeOK, RenameCert
<1>7. ASSUME NEW j \in Jobs, RenameKey(j) PROVE TypeOK'
  <2>1. [job[j] EXCEPT !.at = "installed"] \in JobRecords /\ job[j].new \in PairOrNone
    BY <1>0, <1>a DEF JobRecords, Phases
  <2>2. job' \in [Jobs -> JobRecords]
    BY <1>7, <2>1, Constants, SetEffect DEF RenameKey, Finish, Go
  <2>3. torn' \in BOOLEAN
    BY <1>7 DEF RenameKey, Overlap
  <2> QED
    BY <1>0, <1>7, <2>1, <2>2, <2>3 DEF TypeOK, RenameKey
<1>8. ASSUME NEW j \in Jobs, RenameKeyFails(j) PROVE TypeOK'
  <2>1. job[j].prev \in PairOrNone
    BY <1>a DEF JobRecords
  <2>2. job' \in [Jobs -> JobRecords] /\ faults' \in 0..MaxFaults
    BY <1>8, Constants, SetEffect, FaultType DEF RenameKeyFails, Finish
  <2>3. torn' \in BOOLEAN
    BY <1>8 DEF RenameKeyFails, Overlap
  <2> QED
    BY <1>0, <1>8, <2>1, <2>2, <2>3 DEF TypeOK, RenameKeyFails
<1>9. CASE SaveApply
  <2>1. job' \in [Jobs -> JobRecords] /\ faults' \in 0..MaxFaults
    BY <1>0, <1>9, Constants, SetEffect, FaultType DEF SaveApply, Finish
  <2> QED
    BY <1>0, <1>9, <1>b, <2>1 DEF TypeOK, SaveApply
<1>10. CASE TurnOff
  <2>1. faults' \in 0..MaxFaults
    BY <1>10, FaultType DEF TurnOff
  <2> QED
    BY <1>0, <1>10, <1>b, <2>1 DEF TypeOK, TurnOff, TurnOffSettings
<1>11. CASE SaveState
  BY <1>0, <1>11 DEF TypeOK, SaveState
<1>12. CASE Import
  <2>1. [at |-> "install", what |-> "import", new |-> NewPair,
         prev |-> None, saved |-> OnDisk] \in JobRecords
    BY <1>0, <1>12, NewPairType, Constants
    DEF Import, OnDisk, Loads, JobRecords, Phases, PairOrNone
  <2> QED
    BY <1>0, <1>12, <2>1, SetEffect DEF TypeOK, Import
<1>13. CASE SaveImport
  BY <1>0, <1>13, <1>b, Constants, SetEffect DEF TypeOK, SaveImport, Finish
<1>14. CASE SaveImportFails
  <2> DEFINE old == job["import"].saved
  <2>1. old \in PairOrNone \cup {Mixed} /\ faults' \in 0..MaxFaults
    BY <1>0, <1>14, <1>a, FaultType DEF JobRecords, SaveImportFails
  <2>2. old \notin {None, Mixed} =>
           [NoJob EXCEPT !.at = "install", !.what = "restore", !.new = old] \in JobRecords
    BY <2>1, Constants DEF JobRecords, Phases
  <2>3. job' \in [Jobs -> JobRecords]
    BY <1>0, <1>14, <2>2, Constants, SetEffect DEF SaveImportFails, Finish
  <2>4. cert' \in PairOrNone /\ key' \in PairOrNone /\ torn' \in BOOLEAN
        /\ UNCHANGED <<mem, disk, served>>
    BY <1>0, <1>14, Constants DEF SaveImportFails, Overlap
  <2> QED
    BY <1>0, <2>1, <2>3, <2>4 DEF TypeOK
<1>15. CASE Restart
  <2>1. faults' \in 0..MaxFaults
    BY <1>15, FaultType DEF Restart
  <2>2. served' \in Life \cup {PlainHTTP}
    BY <1>0, <1>15 DEF Restart, Loads, PairOrNone, Pairs
  <2>3. torn' \in BOOLEAN /\ job' \in [Jobs -> JobRecords]
    BY <1>15, Constants DEF Restart
  <2> QED
    BY <1>0, <1>15, <2>1, <2>2, <2>3 DEF TypeOK, Restart
<1>16. CASE Tick
  <2>1. served' \in Life \cup {PlainHTTP}
    BY <1>0, <1>16, Constants DEF Tick, Less, Life, PlainHTTP
  <2> QED
    BY <1>0, <1>16, <2>1, AgedType DEF TypeOK, Tick
<1>17. CASE UNCHANGED vars
  BY <1>0, <1>17 DEF TypeOK, vars
<1> QED
  BY <1>1, <1>2, <1>3, <1>4, <1>5, <1>6, <1>7, <1>8, <1>9, <1>10, <1>11, <1>12, <1>13,
     <1>14, <1>15, <1>16, <1>17 DEF Next, Installing
-----------------------------------------------------------------------------
(* The invariant. *)

\* What the invariant says of a step needs only these facts of the state after it.
Intact == OneAtATime /\ Backed /\ CanGoBack /\ InstalledLoads /\ NothingToLose

LEMMA InvInit == Init => IInv
<1> SUFFICES ASSUME Init PROVE IInv
  OBVIOUS
<1>1. TypeOK
  <2>1. Off \in Settings /\ 0 \in 0..MaxFaults
    BY Constants DEF Settings
  <2>2. job \in [Jobs -> JobRecords]
    BY Constants DEF Init
  <2> QED
    BY <2>1, <2>2, Constants DEF Init, TypeOK
<1>2. \A j \in Jobs : job[j].at = "idle"
  BY DEF Init, NoJob
<1>3. "import" \in Jobs /\ mem.mode = "off" /\ disk.mode = "off"
  BY DEF Jobs, Init, Off
<1> QED
  BY <1>1, <1>2, <1>3 DEF IInv, JobInv, OneAtATime, Busy, Backed, SwitchedOn, CanGoBack,
     InstalledLoads, NothingToLose, At

\* A job is its phase and the rest of its record.
LEMMA SameJob ==
    ASSUME NEW j \in Jobs
    PROVE  Other(j) \in Jobs /\ Other(j) # j /\ Jobs = {j, Other(j)} /\ Other(Other(j)) = j
  BY DEF Jobs, Other

\* The files and the settings are untouched, and no job enters or leaves the part
\* in which it replaces the files.
LEMMA Quiet ==
    ASSUME IInv, UNCHANGED <<cert, key, mem, disk, torn>>,
           \A j \in Jobs : \/ job'[j] = job[j]
                           \/ /\ job'[j].at \in {"idle", "ordering", "install"}
                              /\ job'[j].at = "install" => job'[j].new \in Pairs
                              /\ ~At(j, "half"),
           \A j \in Jobs : j = "import" /\ job'[j].at # "idle" => job'[j] = job[j]
    PROVE  JobInv' /\ (~torn' => Intact')
<1>1. JobInv /\ (~torn => Intact) /\ "import" \in Jobs /\ "order" \in Jobs
  BY DEF IInv, Intact, Jobs
<1>2. JobInv'
  BY <1>1 DEF JobInv, At
<1>3. ASSUME ~torn' PROVE Intact'
  <2>1. Intact
    BY <1>1, <1>3
  <2>2. OneAtATime'
    BY <2>1, SameJob DEF Intact, OneAtATime, Busy
  <2>3. Backed'
    BY <2>1 DEF Intact, Backed, SwitchedOn, HalfDone, At, Loads
  <2>4. CanGoBack'
    BY <2>1 DEF Intact, CanGoBack, SwitchedOn, At
  <2>5. InstalledLoads'
    BY <2>1 DEF Intact, InstalledLoads, At, Loads
  <2>6. NothingToLose'
    BY <1>1, <2>1 DEF Intact, NothingToLose, SwitchedOn, At
  <2> QED
    BY <2>2, <2>3, <2>4, <2>5, <2>6 DEF Intact
<1> QED
  BY <1>2, <1>3

\* A job begins to replace the files: another one that is at it makes a torn change.
LEMMA RenameCertKeeps ==
    ASSUME IInv, NEW j \in Jobs, RenameCert(j)
    PROVE  JobInv' /\ (~torn' => Intact')
<1> DEFINE o == Other(j)
<1>1. TypeOK /\ JobInv /\ (~torn => Intact)
  BY DEF IInv, Intact
<1>2. o \in Jobs /\ o # j /\ Jobs = {j, o} /\ Other(o) = j /\ Other(j) = o
      /\ Jobs = {"order", "import"}
  BY SameJob DEF Jobs
<1>3. job[j] \in JobRecords /\ [job[j] EXCEPT !.at = "half", !.prev = cert] \in JobRecords
  BY <1>1 DEF TypeOK, JobRecords, Phases
<1>4. /\ job'[j].at = "half" /\ job'[j].prev = cert /\ job'[j].new = job[j].new
      /\ job'[j].what = job[j].what /\ job'[j].saved = job[j].saved
      /\ job'[o] = job[o]
  <2>1. job'[j] = [job[j] EXCEPT !.at = "half", !.prev = cert] /\ job'[o] = job[o]
    BY <1>1, <1>3, SetEffect DEF RenameCert
  <2> QED
    BY <1>3, <2>1 DEF JobRecords
<1>5. /\ cert' = job[j].new /\ UNCHANGED <<key, mem, disk>> /\ At(j, "install")
      /\ torn' = (torn \/ Overlap(j))
  BY DEF RenameCert, settings
<1> HIDE DEF o
<1>6. JobInv'
  BY <1>1, <1>2, <1>4, <1>5 DEF JobInv, At
<1>7. ASSUME ~torn' PROVE Intact'
  <2>1. Intact /\ job[o].at \notin {"install", "half", "installed"}
    BY <1>1, <1>5, <1>7 DEF Overlap, o
  <2>2. OneAtATime'
    BY <1>2, <1>4, <2>1 DEF OneAtATime, Busy
  <2>3. HalfDone'
    BY <1>4 DEF HalfDone, At
  <2>4. ~HalfDone
    BY <1>2, <1>5, <2>1 DEF HalfDone, At
  <2>5. SwitchedOn' => cert = key /\ key # None
    BY <1>5, <2>1, <2>4 DEF Intact, Backed, SwitchedOn, Loads
  <2>6. CanGoBack'
    BY <1>2, <1>4, <1>5, <2>1, <2>5 DEF CanGoBack, At
  <2>7. InstalledLoads'
    BY <1>2, <1>4, <2>1 DEF InstalledLoads, At
  <2>8. NothingToLose'
    BY <1>2, <1>4, <1>5, <2>1 DEF Intact, NothingToLose, SwitchedOn, At
  <2> QED
    BY <2>2, <2>3, <2>6, <2>7, <2>8 DEF Intact, Backed
<1> QED
  BY <1>6, <1>7

\* A job ends or goes on with files that load.
LEMMA FilesSettled ==
    ASSUME IInv, NEW j \in Jobs, NEW o \in Jobs, o # j, Jobs = {j, o}, Other(j) = o, Other(o) = j,
           job'[o] = job[o], job[o].at \notin {"install", "half", "installed"},
           job'[j].at \in {"idle", "installed"},
           job'[j].at = "installed" => /\ At(j, "half") \/ At(j, "installed")
                                       /\ job'[j].what = job[j].what
                                       /\ job'[j].saved = job[j].saved
                                       /\ job'[j].new = job[j].new
                                       /\ job[j].what \in {"apply", "import"}
                                       /\ Loads',
           UNCHANGED <<mem, disk>>, SwitchedOn => Loads', ~torn
    PROVE  JobInv' /\ Intact'
<1>1. JobInv /\ Intact /\ Jobs = {"order", "import"}
  BY DEF IInv, Intact, Jobs
<1>2. JobInv'
  BY <1>1 DEF JobInv, At
<1>3. OneAtATime' /\ CanGoBack' /\ InstalledLoads'
  BY DEF OneAtATime, Busy, CanGoBack, At, InstalledLoads
<1>4. Backed'
  BY DEF Backed, SwitchedOn
<1>5. NothingToLose'
  BY <1>1 DEF Intact, NothingToLose, SwitchedOn, At
<1> QED
  BY <1>2, <1>3, <1>4, <1>5 DEF Intact

LEMMA RenameKeyKeeps ==
    ASSUME IInv, NEW j \in Jobs, RenameKey(j)
    PROVE  JobInv' /\ (~torn' => Intact')
<1> DEFINE o == Other(j)
<1>1. TypeOK /\ JobInv /\ (~torn => Intact)
  BY DEF IInv, Intact
<1>2. o \in Jobs /\ o # j /\ Jobs = {j, o} /\ Other(o) = j /\ Other(j) = o
  BY SameJob
<1>3. job[j] \in JobRecords /\ [job[j] EXCEPT !.at = "installed"] \in JobRecords
  BY <1>1 DEF TypeOK, JobRecords, Phases
<1>4. /\ job'[o] = job[o]
      /\ \/ job'[j].at = "idle"
         \/ /\ job'[j].at = "installed" /\ job'[j].new = job[j].new
            /\ job'[j].what = job[j].what /\ job'[j].saved = job[j].saved
            /\ job[j].what \in {"apply", "import"}
  <2>1. CASE job[j].what \in {"renew", "restore"}
    BY <1>1, <2>1, SetEffect, Constants DEF RenameKey, Finish, NoJob
  <2>2. CASE job[j].what \notin {"renew", "restore"}
    <3>1. job'[j] = [job[j] EXCEPT !.at = "installed"] /\ job'[o] = job[o]
      BY <1>1, <1>3, <2>2, SetEffect DEF RenameKey, Go
    <3> QED
      BY <1>3, <2>2, <3>1 DEF JobRecords
  <2> QED
    BY <2>1, <2>2
<1>5. /\ key' = job[j].new /\ UNCHANGED <<cert, mem, disk>> /\ At(j, "half")
      /\ torn' = (torn \/ Overlap(j))
  BY DEF RenameKey, settings
<1>6. job[j].new \in Pairs
  BY <1>1, <1>5 DEF JobInv, At
<1> HIDE DEF o
<1>7. JobInv'
  BY <1>1, <1>2, <1>4, <1>5, <1>6 DEF JobInv, At
<1>8. ASSUME ~torn' PROVE Intact'
  <2>1. Intact /\ job[o].at \notin {"install", "half", "installed"} /\ ~torn
    BY <1>1, <1>5, <1>8 DEF Overlap, o
  <2>2. Loads'
    BY <1>5, <1>6, <2>1, Constants DEF Intact, CanGoBack, Loads
  <2> QED
    BY <1>2, <1>4, <1>5, <2>1, <2>2, FilesSettled
<1> QED
  BY <1>7, <1>8

LEMMA RenameKeyFailsKeeps ==
    ASSUME IInv, NEW j \in Jobs, RenameKeyFails(j)
    PROVE  JobInv' /\ (~torn' => Intact')
<1> DEFINE o == Other(j)
<1>1. TypeOK /\ JobInv /\ (~torn => Intact)
  BY DEF IInv, Intact
<1>2. o \in Jobs /\ o # j /\ Jobs = {j, o} /\ Other(o) = j /\ Other(j) = o
  BY SameJob
<1>3. job'[o] = job[o] /\ job'[j].at = "idle"
  BY <1>1, SetEffect, Constants DEF RenameKeyFails, Finish, NoJob
<1>4. UNCHANGED <<key, mem, disk>> /\ At(j, "half")
  BY DEF RenameKeyFails, settings
<1>5. ~torn' => ~torn /\ ~Overlap(j) /\ cert' = job[j].prev
  BY <1>1 DEF RenameKeyFails, TypeOK
<1> HIDE DEF o
<1>6. JobInv'
  BY <1>1, <1>2, <1>3 DEF JobInv, At
<1>7. ASSUME ~torn' PROVE Intact'
  <2>1. Intact /\ job[o].at \notin {"install", "half", "installed"} /\ ~torn
    BY <1>1, <1>5, <1>7 DEF Overlap, o
  <2>2. SwitchedOn => Loads'
    BY <1>4, <1>5, <1>7, <2>1 DEF Intact, CanGoBack, Loads
  <2> QED
    BY <1>2, <1>3, <1>4, <2>1, <2>2, FilesSettled
<1> QED
  BY <1>6, <1>7

\* The settings are saved, or switched off.
LEMMA SettingsKeep ==
    ASSUME IInv, TurnOff \/ SaveState
    PROVE  JobInv' /\ (~torn' => Intact')
<1>1. JobInv /\ (~torn => Intact)
  BY DEF IInv, Intact
<1>2. UNCHANGED <<cert, key, job, torn>> /\ (SwitchedOn' => SwitchedOn)
  BY DEF TurnOff, TurnOffSettings, Off, SaveState, SwitchedOn, files
<1>3. JobInv'
  BY <1>1, <1>2 DEF JobInv, At
<1>4. Intact => Intact'
  BY <1>2 DEF Intact, OneAtATime, Busy, Backed, HalfDone, At, Loads, CanGoBack,
     InstalledLoads, NothingToLose
<1> QED
  BY <1>1, <1>2, <1>3, <1>4

\* A job whose pair is in place switches HTTPS on.
LEMMA SwitchOnKeeps ==
    ASSUME IInv, NEW j \in Jobs, At(j, "installed"), Finish(j), UNCHANGED <<cert, key, torn>>
    PROVE  JobInv' /\ (~torn' => Intact')
<1> DEFINE o == Other(j)
<1>1. TypeOK /\ JobInv /\ (~torn => Intact)
  BY DEF IInv, Intact
<1>2. o \in Jobs /\ o # j /\ Jobs = {j, o} /\ Other(o) = j /\ Other(j) = o
      /\ Jobs = {"order", "import"}
  BY SameJob DEF Jobs
<1>3. job'[o] = job[o] /\ job'[j].at = "idle"
  BY <1>1, SetEffect, Constants DEF Finish, NoJob
<1> HIDE DEF o
<1>4. JobInv'
  BY <1>1, <1>2, <1>3 DEF JobInv, At
<1>5. ASSUME ~torn' PROVE Intact'
  <2>1. Intact /\ Loads /\ Loads' /\ job[o].at \notin {"half", "installed"}
    BY <1>1, <1>2, <1>5 DEF Intact, InstalledLoads, OneAtATime, Busy, At, Loads
  <2>2. OneAtATime' /\ CanGoBack' /\ InstalledLoads' /\ Backed'
    BY <1>2, <1>3, <2>1 DEF OneAtATime, Busy, CanGoBack, At, InstalledLoads, Backed
  <2>3. NothingToLose'
    <3>1. CASE j = "import"
      BY <1>3, <3>1 DEF NothingToLose
    <3>2. CASE j = "order"
      BY <1>2, <1>3, <2>1, <3>2 DEF Intact, NothingToLose, At
    <3> QED
      BY <1>2, <3>1, <3>2
  <2> QED
    BY <2>2, <2>3 DEF Intact
<1> QED
  BY <1>4, <1>5

LEMMA ImportKeeps == IInv /\ Import => JobInv' /\ (~torn' => Intact')
<1> SUFFICES ASSUME IInv, Import PROVE JobInv' /\ (~torn' => Intact')
  OBVIOUS
<1> DEFINE new == [at |-> "install", what |-> "import", new |-> NewPair,
                   prev |-> None, saved |-> OnDisk]
<1>1. TypeOK /\ JobInv /\ (~torn => Intact)
  BY DEF IInv, Intact
<1>2. UNCHANGED <<cert, key, mem, disk, torn>> /\ At("import", "idle") /\ NewPair \in Pairs
  BY NewPairType DEF Import, files, settings
<1>3. new \in JobRecords
  BY <1>1, <1>2, Constants DEF OnDisk, Loads, JobRecords, Phases, PairOrNone, TypeOK
<1>4. job' = [job EXCEPT !["import"] = new]
  BY DEF Import, Set
<1>5. /\ job'["order"] = job["order"] /\ job'["import"].at = "install"
      /\ job'["import"].what = "import" /\ job'["import"].saved = OnDisk
      /\ job'["import"].new \in Pairs
      /\ Jobs = {"order", "import"} /\ Other("order") = "import" /\ Other("import") = "order"
  BY <1>1, <1>2, <1>4 DEF TypeOK, Jobs, Other
<1>6. JobInv'
  BY <1>1, <1>5 DEF JobInv, At
<1>7. ASSUME ~torn' PROVE Intact'
  <2>1. Intact
    BY <1>1, <1>2, <1>7
  <2>2. OneAtATime'
    BY <1>5 DEF OneAtATime, Busy
  <2>3. Backed' /\ CanGoBack' /\ InstalledLoads'
    BY <1>2, <1>5, <2>1
    DEF Intact, Backed, SwitchedOn, HalfDone, At, Loads, CanGoBack, InstalledLoads
  <2>4. ASSUME OnDisk = None PROVE ~SwitchedOn /\ ~At("order", "installed")
    <3>1. ~Loads
      BY <2>4 DEF OnDisk, Loads
    <3>2. ~At("order", "installed")
      BY <1>5, <2>1, <3>1 DEF Intact, InstalledLoads
    <3>3. CASE ~HalfDone
      BY <2>1, <3>1, <3>2, <3>3 DEF Intact, Backed
    <3>4. CASE HalfDone
      <4>1. At("order", "half")
        BY <1>2, <1>5, <3>4 DEF HalfDone, At
      <4>2. cert \in Pairs /\ (SwitchedOn => key # None)
        BY <1>1, <1>5, <2>1, <4>1 DEF Intact, CanGoBack, JobInv, At
      <4>3. SwitchedOn => OnDisk # None
        BY <4>2, <3>1, Constants DEF OnDisk, Mixed, None
      <4> QED
        BY <2>4, <3>2, <4>3
    <3> QED
      BY <3>3, <3>4
  <2>5. NothingToLose'
    BY <1>2, <1>5, <2>4 DEF NothingToLose, SwitchedOn, At
  <2> QED
    BY <2>2, <2>3, <2>5 DEF Intact
<1> QED
  BY <1>6, <1>7

LEMMA SaveImportFailsKeeps == IInv /\ SaveImportFails => JobInv' /\ (~torn' => Intact')
<1> SUFFICES ASSUME IInv, SaveImportFails PROVE JobInv' /\ (~torn' => Intact')
  OBVIOUS
<1> DEFINE old == job["import"].saved
           again == [NoJob EXCEPT !.at = "install", !.what = "restore", !.new = old]
<1>1. TypeOK /\ JobInv /\ (~torn => Intact)
  BY DEF IInv, Intact
<1>2. /\ Jobs = {"order", "import"} /\ Other("order") = "import" /\ Other("import") = "order"
      /\ job["import"] \in JobRecords
  BY <1>1 DEF TypeOK, Jobs, Other
<1>3. At("import", "installed") /\ UNCHANGED <<mem, disk>> /\ job["import"].what = "import"
  BY <1>1, <1>2 DEF SaveImportFails, settings, JobInv, At
<1>4. old \in PairOrNone \cup {Mixed}
  BY <1>2 DEF JobRecords
<1>5. CASE old \notin {None, Mixed} /\ Set("import", again) /\ UNCHANGED <<files, torn>>
  <2>1. old \in Pairs /\ again \in JobRecords
    BY <1>4, <1>5, Constants DEF PairOrNone, JobRecords, Phases
  <2>2. job' = [job EXCEPT !["import"] = again]
    BY <1>5 DEF Set
  <2>3. /\ job'["order"] = job["order"] /\ job'["import"].at = "install"
        /\ job'["import"].what = "restore" /\ job'["import"].new \in Pairs
    BY <1>1, <1>2, <2>1, <2>2, Constants DEF TypeOK, JobRecords
  <2>4. JobInv'
    BY <1>1, <1>2, <2>3 DEF JobInv, At
  <2>5. ASSUME ~torn' PROVE Intact'
    <3>1. Intact /\ Loads /\ UNCHANGED <<cert, key>>
      BY <1>1, <1>2, <1>3, <1>5, <2>5 DEF Intact, InstalledLoads, files
    <3>2. OneAtATime' /\ CanGoBack' /\ InstalledLoads' /\ Backed'
      BY <1>2, <1>3, <2>3, <3>1
      DEF Intact, OneAtATime, Busy, CanGoBack, At, InstalledLoads, Backed, Loads
    <3>3. NothingToLose'
      BY <2>3 DEF NothingToLose
    <3> QED
      BY <3>2, <3>3 DEF Intact
  <2> QED
    BY <2>4, <2>5
<1>6. CASE old = Mixed /\ Finish("import") /\ UNCHANGED <<files, torn>>
  BY <1>2, <1>3, <1>6, SwitchOnKeeps DEF files
<1>7. CASE /\ old = None
           /\ cert' = None /\ key' = None
           /\ torn' = (torn \/ Overlap("import"))
           /\ Finish("import")
  <2>1. job'["order"] = job["order"] /\ job'["import"].at = "idle"
    BY <1>1, <1>2, <1>7, SetEffect, Constants DEF Finish, NoJob
  <2>2. JobInv'
    BY <1>1, <1>2, <2>1 DEF JobInv, At
  <2>3. ASSUME ~torn' PROVE Intact'
    <3>1. Intact /\ job["order"].at \notin {"install", "half", "installed"} /\ ~torn
      BY <1>1, <1>2, <1>7, <2>3 DEF Overlap
    <3>2. ~SwitchedOn
      BY <1>3, <1>7, <3>1 DEF Intact, NothingToLose, At
    <3>3. "import" \in Jobs /\ "order" \in Jobs /\ "order" # "import"
      BY <1>2
    <3> QED
      BY <1>2, <1>3, <2>1, <3>1, <3>2, <3>3, FilesSettled
  <2> QED
    BY <2>2, <2>3
<1> QED
  BY <1>5, <1>6, <1>7 DEF SaveImportFails

\* A restart takes up the settings of the state file and forgets the jobs.
LEMMA RestartKeeps == IInv /\ Restart => JobInv' /\ (~torn' => Intact')
<1> SUFFICES ASSUME IInv, Restart PROVE JobInv' /\ (~torn' => Intact')
  OBVIOUS
<1>1. TypeOK /\ (~torn => Intact)
  BY DEF IInv, Intact
<1>2. UNCHANGED <<cert, key, disk>> /\ mem' = disk /\ \A j \in Jobs : job'[j] = NoJob
  BY DEF Restart, files
<1>3. torn' = (torn \/ HalfDone)
  BY DEF Restart, HalfDone
<1>4. \A j \in Jobs : job'[j].at = "idle"
  BY <1>2 DEF NoJob
<1>5. "import" \in Jobs
  BY DEF Jobs
<1>6. JobInv'
  BY <1>4 DEF JobInv, At
<1>7. ASSUME ~torn' PROVE Intact'
  <2>1. Intact /\ ~HalfDone
    BY <1>1, <1>3, <1>7
  <2>2. Backed'
    BY <1>2, <2>1 DEF Intact, Backed, SwitchedOn, Loads
  <2> QED
    BY <1>4, <1>5, <2>2
    DEF Intact, OneAtATime, Busy, CanGoBack, InstalledLoads, NothingToLose, At
<1> QED
  BY <1>6, <1>7

LEMMA TickKeeps == IInv /\ Tick => JobInv' /\ (~torn' => Intact')
<1> SUFFICES ASSUME IInv, Tick PROVE JobInv' /\ (~torn' => Intact')
  OBVIOUS
<1>1. TypeOK /\ JobInv /\ (~torn => Intact)
  BY DEF IInv, Intact
<1>2. /\ UNCHANGED <<mem, disk, job, torn>> /\ \A j \in Jobs : job[j].at = "idle"
      /\ cert' = Aged(cert) /\ key' = Aged(key)
  BY DEF Tick, settings, At
<1>3. Loads => Loads'
  BY <1>1, <1>2, AgedType DEF Loads, TypeOK
<1>4. JobInv'
  BY <1>1, <1>2 DEF JobInv, At
<1>5. "import" \in Jobs
  BY DEF Jobs
<1>6. Intact => Intact'
  BY <1>2, <1>3, <1>5 DEF Intact, OneAtATime, Busy, Backed, SwitchedOn, HalfDone, CanGoBack,
     InstalledLoads, NothingToLose, At
<1> QED
  BY <1>1, <1>2, <1>4, <1>6

\* Renew, Apply, Issued and the failures before the first rename.
LEMMA QuietSteps ==
    ASSUME IInv, Renew \/ Apply \/ Issued \/ OrderFails \/ \E j \in Jobs : InstallFails(j)
    PROVE  JobInv' /\ (~torn' => Intact')
<1>1. TypeOK
  BY DEF IInv
<1>2. UNCHANGED <<cert, key, mem, disk, torn>>
  BY DEF Renew, Apply, Issued, OrderFails, InstallFails, files, settings
<1>3. Jobs = {"order", "import"} /\ NoJob \in JobRecords /\ NoJob.at = "idle"
  BY Constants DEF Jobs, NoJob
<1>4. CASE Renew \/ Apply
  <2>1. PICK w \in {"renew", "apply"} :
           /\ job' = [job EXCEPT !["order"] = [NoJob EXCEPT !.at = "ordering", !.what = w]]
           /\ At("order", "idle")
    BY <1>4 DEF Renew, Apply, Set
  <2>2. job'["order"].at = "ordering" /\ job'["import"] = job["import"]
    BY <1>1, <1>3, <2>1 DEF TypeOK, NoJob
  <2> QED
    BY <1>2, <1>3, <2>1, <2>2, Quiet DEF At
<1>5. CASE Issued
  <2>1. /\ job' = [job EXCEPT !["order"] = [job["order"] EXCEPT !.at = "install", !.new = NewPair]]
        /\ At("order", "ordering") /\ NewPair \in Pairs
    BY <1>5, NewPairType DEF Issued, Set
  <2>2. /\ job'["order"].at = "install" /\ job'["order"].new \in Pairs
        /\ job'["import"] = job["import"]
    BY <1>1, <1>3, <2>1 DEF TypeOK, JobRecords
  <2> QED
    BY <1>2, <1>3, <2>1, <2>2, Quiet DEF At
<1>6. ASSUME NEW j \in Jobs, (OrderFails /\ j = "order") \/ InstallFails(j)
      PROVE  JobInv' /\ (~torn' => Intact')
  <2>1. job' = [job EXCEPT ![j] = NoJob] /\ ~At(j, "half")
    BY <1>6 DEF OrderFails, InstallFails, Finish, Set, At
  <2>2. job'[j].at = "idle" /\ \A o \in Jobs \ {j} : job'[o] = job[o]
    BY <1>1, <1>3, <2>1 DEF TypeOK
  <2> QED
    BY <1>2, <1>3, <2>1, <2>2, Quiet
<1> QED
  BY <1>3, <1>4, <1>5, <1>6

LEMMA InvStep == IInv /\ [Next]_vars => IInv'
<1> SUFFICES ASSUME IInv, [Next]_vars PROVE IInv'
  OBVIOUS
<1>1. TypeOK'
  BY TypeStep DEF IInv
<1>2. JobInv' /\ (~torn' => Intact')
  <2>1. CASE Renew \/ Apply \/ Issued \/ OrderFails \/ \E j \in Jobs : InstallFails(j)
    BY <2>1, QuietSteps
  <2>2. ASSUME NEW j \in Jobs, RenameCert(j) \/ RenameKey(j) \/ RenameKeyFails(j)
        PROVE  JobInv' /\ (~torn' => Intact')
    BY <2>2, RenameCertKeeps, RenameKeyKeeps, RenameKeyFailsKeeps
  <2>3. CASE SaveApply
    BY <2>3, SwitchOnKeeps DEF SaveApply, files, Jobs
  <2>4. CASE SaveImport
    BY <2>4, SwitchOnKeeps DEF SaveImport, files, Jobs
  <2>5. CASE TurnOff \/ SaveState
    BY <2>5, SettingsKeep
  <2>6. CASE Import \/ SaveImportFails \/ Restart \/ Tick
    BY <2>6, ImportKeeps, SaveImportFailsKeeps, RestartKeeps, TickKeeps
  <2>7. CASE UNCHANGED vars
    <3>1. UNCHANGED <<cert, key, mem, disk, torn, job>>
      BY <2>7 DEF vars, files, settings
    <3> QED
      BY <3>1, Quiet
  <2> QED
    BY <2>1, <2>2, <2>3, <2>4, <2>5, <2>6, <2>7 DEF Next, Installing
<1> QED
  BY <1>1, <1>2 DEF IInv, Intact

\* The inductive invariant holds in every reachable state, for any number of
\* failures, crashes and restarts.
THEOREM CertificateInvariant == Spec => []IInv
  BY InvInit, InvStep, PTL DEF Spec

\* The variables keep their types.
THEOREM TypeCorrect == Spec => []TypeOK
<1>1. IInv => TypeOK
  BY DEF IInv
<1> QED
  BY <1>1, CertificateInvariant, PTL

\* When HTTPS is switched on in the state file there is a pair to serve it with,
\* unless a change of the files was cut off half way, could not be undone or
\* overlapped another.
THEOREM HttpsIsBacked == Spec => []HttpsBacked
<1>1. IInv => HttpsBacked
  BY DEF IInv, Backed, SwitchedOn, HalfDone, HttpsBacked
<1> QED
  BY <1>1, CertificateInvariant, PTL
=============================================================================
