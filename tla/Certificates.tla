---------------------------- MODULE Certificates ----------------------------
(***************************************************************************)
(* The certificate of the Web UI: ordering (ACME), renewal, import, the    *)
(* files it is kept in and the settings that select it.                    *)
(*                                                                         *)
(* Certificate and key are two files, replaced by two renames.  Orders     *)
(* exclude each other by listening on port 80; an import and an order do   *)
(* not, and neither holds a lock while it changes the files.  The Server   *)
(* reads the pair when it starts and at no other time.                     *)
(*                                                                         *)
(* There is one domain.  A pair is the number of its key and the life it   *)
(* has left; numbers are reused when nothing holds them any more.  The     *)
(* unit of time is a part of a certificate's life.                         *)
(***************************************************************************)
EXTENDS Integers, FiniteSets

CONSTANTS
    Lifetime,       \* of a certificate, 90 days
    RenewBefore,    \* remaining life at which it is renewed, 30 days
    MaxFaults,      \* bound on failures, crashes and restarts
    MaxNumber       \* as many numbers as can be held at once

ASSUME CertificateConstants ==
    /\ Lifetime \in Nat /\ RenewBefore \in Nat
    /\ RenewBefore < Lifetime
    /\ MaxFaults \in Nat
    /\ MaxNumber \in Nat \ {0}

VARIABLES
    cert, key,  \* the pair each file comes from
    mem, disk,  \* Settings in memory and in the state file: [mode, source]
    served,     \* the life left of the certificate in use, or PlainHTTP
    job,        \* the order and the import in progress
    faults,
    torn        \* history: a change of the files was cut off between the
                \* renames, could not be undone, or overlapped another

files == <<cert, key>>
settings == <<mem, disk>>
vars == <<files, settings, served, job, faults, torn>>

Life == 0..Lifetime
Pairs == [n : 1..MaxNumber, left : Life]
None == [n |-> 0, left |-> 0]
Mixed == [n |-> 0, left |-> 1]      \* two files that do not match
PairOrNone == Pairs \cup {None}
PlainHTTP == -1

Off == [mode |-> "off", source |-> "none"]
Builtin(source) == [mode |-> "builtin", source |-> source]
Settings == {Off} \cup {Builtin(s) : s \in {"acme", "manual"}}

Jobs == {"order", "import"}
Phases == {"idle", "ordering", "install", "half", "installed"}
JobRecords == [at : Phases, what : {"apply", "renew", "import", "restore"},
               new : PairOrNone, prev : PairOrNone, saved : PairOrNone \cup {Mixed}]
NoJob == [at |-> "idle", what |-> "renew", new |-> None, prev |-> None, saved |-> None]

TypeOK ==
    /\ cert \in PairOrNone
    /\ key \in PairOrNone
    /\ mem \in Settings
    /\ disk \in Settings
    /\ served \in Life \cup {PlainHTTP}
    /\ job \in [Jobs -> JobRecords]
    /\ faults \in 0..MaxFaults
    /\ torn \in BOOLEAN

Init ==
    /\ cert = None /\ key = None
    /\ mem = Off /\ disk = Off
    /\ served = PlainHTTP
    /\ job = [j \in Jobs |-> NoJob]
    /\ faults = 0
    /\ torn = FALSE

Fault == faults < MaxFaults /\ faults' = faults + 1
NoFault == UNCHANGED faults

At(j, phase) == job[j].at = phase
Set(j, r) == job' = [job EXCEPT ![j] = r]
Go(j, phase) == Set(j, [job[j] EXCEPT !.at = phase])
Finish(j) == Set(j, NoJob)
Other(j) == IF j = "order" THEN "import" ELSE "order"

\* loadTLSCertificate: both files are there and match.
Loads == cert # None /\ cert = key

OnDisk == CASE cert = None \/ key = None -> None
            [] Loads -> cert
            [] OTHER -> Mixed

InUse == {cert.n, key.n} \cup UNION {{job[j].new.n, job[j].prev.n, job[j].saved.n} : j \in Jobs}
Unused == (1..MaxNumber) \ InUse
NewPair == [n |-> CHOOSE n \in Unused : \A k \in Unused : n <= k, left |-> Lifetime]

-----------------------------------------------------------------------------
(* ensureManagedCertificate *)

Managed == mem = Builtin("acme")

DueIfLoads == Loads /\ cert.left <= RenewBefore        \* mutant: as if a pair that
                                                        \* does not load were fine
Due == ~Loads \/ cert.left <= RenewBefore

\* autoRenewCertificate and checkCertificate.  A second order does not get
\* port 80.
Renew ==
    /\ At("order", "idle")
    /\ Managed
    /\ Due
    /\ Set("order", [NoJob EXCEPT !.at = "ordering", !.what = "renew"])
    /\ UNCHANGED <<files, settings, served, faults, torn>>

\* applyHTTPSSettings orders whatever is there.
Apply ==
    /\ At("order", "idle")
    /\ Set("order", [NoJob EXCEPT !.at = "ordering", !.what = "apply"])
    /\ UNCHANGED <<files, settings, served, faults, torn>>

\* obtainACMECertificate, up to two minutes of requests and polling.
Issued ==
    /\ At("order", "ordering")
    /\ Unused # {}
    /\ Set("order", [job["order"] EXCEPT !.at = "install", !.new = NewPair])
    /\ UNCHANGED <<files, settings, served, faults, torn>>

OrderFails ==
    /\ Fault
    /\ At("order", "ordering")
    /\ Finish("order")
    /\ UNCHANGED <<files, settings, served, torn>>

-----------------------------------------------------------------------------
(* installCertificatePair *)

\* Another job is between reading the old files and being done with them.
Overlap(j) == job[Other(j)].at \in {"install", "half", "installed"}

\* The temporary files cannot be written: nothing has changed.
InstallFails(j) ==
    /\ Fault
    /\ At(j, "install")
    /\ Finish(j)
    /\ UNCHANGED <<files, settings, served, torn>>

RenameCert(j) ==
    /\ At(j, "install")
    /\ cert' = job[j].new
    /\ Set(j, [job[j] EXCEPT !.at = "half", !.prev = cert])
    /\ torn' = (torn \/ Overlap(j))
    /\ UNCHANGED <<key, settings, served, faults>>

\* An order that renews and an import that was undone are done now.
RenameKey(j) ==
    /\ At(j, "half")
    /\ key' = job[j].new
    /\ torn' = (torn \/ Overlap(j))
    /\ IF job[j].what \in {"renew", "restore"} THEN Finish(j) ELSE Go(j, "installed")
    /\ UNCHANGED <<cert, settings, served, faults>>

RenameKeyFailsKeeping(j) ==                             \* mutant: no way back
    /\ Fault
    /\ At(j, "half")
    /\ Finish(j)
    /\ UNCHANGED <<files, settings, served, torn>>

\* The certificate of before is written back, or removed if there was none;
\* that can fail too.
RenameKeyFails(j) ==
    /\ Fault
    /\ At(j, "half")
    /\ \/ /\ cert' = job[j].prev
          /\ torn' = (torn \/ Overlap(j))
       \/ /\ torn' = TRUE
          /\ UNCHANGED cert
    /\ Finish(j)
    /\ UNCHANGED <<key, settings, served>>

-----------------------------------------------------------------------------
(* Settings *)

\* applyHTTPSSettings, after the files; if the save fails, the settings stay
\* changed in memory.
SaveApply ==
    /\ At("order", "installed")
    /\ mem' = Builtin("acme")
    /\ \/ disk' = mem' /\ NoFault
       \/ Fault /\ UNCHANGED disk
    /\ Finish("order")
    /\ UNCHANGED <<files, served, torn>>

TurnOffKeepingSource == mem' = [Off EXCEPT !.source = mem.source]   \* mutant
TurnOffSettings == mem' = Off

TurnOff ==
    /\ mem # Off
    /\ TurnOffSettings
    /\ \/ disk' = mem' /\ NoFault
       \/ Fault /\ UNCHANGED disk
    /\ UNCHANGED <<files, served, job, torn>>

\* Every other handler saves the whole state.
SaveState ==
    /\ disk # mem
    /\ disk' = mem
    /\ UNCHANGED <<files, mem, served, job, faults, torn>>

-----------------------------------------------------------------------------
(* importCertificate *)

\* A pair that matches and has not expired; what the files hold is read first.
Import ==
    /\ At("import", "idle")
    /\ Unused # {}
    /\ Set("import", [at |-> "install", what |-> "import", new |-> NewPair,
                      prev |-> None, saved |-> OnDisk])
    /\ UNCHANGED <<files, settings, served, faults, torn>>

SaveImport ==
    /\ At("import", "installed")
    /\ mem' = Builtin("manual")
    /\ disk' = mem'
    /\ Finish("import")
    /\ UNCHANGED <<files, served, faults, torn>>

\* The settings are as before, and restorePair installs the old pair.  If there
\* was none, both files are removed; one that did not match is not put back.
SaveImportFails ==
    /\ Fault
    /\ At("import", "installed")
    /\ LET old == job["import"].saved
       IN  \/ /\ old \notin {None, Mixed}
              /\ Set("import", [NoJob EXCEPT !.at = "install", !.what = "restore", !.new = old])
              /\ UNCHANGED <<files, torn>>
           \/ /\ old = Mixed
              /\ Finish("import")
              /\ UNCHANGED <<files, torn>>
           \/ /\ old = None
              /\ cert' = None /\ key' = None
              /\ torn' = (torn \/ Overlap("import"))
              /\ Finish("import")
    /\ UNCHANGED <<settings, served>>

-----------------------------------------------------------------------------
(* Restart and time *)

\* restartServer, or a crash.  A pair that does not load leaves plain HTTP.
Restart ==
    /\ Fault
    /\ mem' = disk
    /\ served' = IF disk.mode = "builtin" /\ Loads THEN cert.left ELSE PlainHTTP
    /\ job' = [j \in Jobs |-> NoJob]
    /\ torn' = (torn \/ \E j \in Jobs : At(j, "half"))
    /\ UNCHANGED <<files, disk>>

Less(n) == IF n > 0 THEN n - 1 ELSE n
Aged(pair) == IF pair.n > 0 THEN [pair EXCEPT !.left = Less(pair.left)] ELSE pair

\* A month passes.  Jobs take minutes.
Tick ==
    /\ \A j \in Jobs : At(j, "idle")
    /\ cert' = Aged(cert) /\ key' = Aged(key)
    /\ served' = Less(served)
    /\ UNCHANGED <<settings, job, faults, torn>>

Installing ==
    \E j \in Jobs : InstallFails(j) \/ RenameCert(j) \/ RenameKey(j) \/ RenameKeyFails(j)

Next ==
    \/ Renew \/ Apply \/ Issued \/ OrderFails
    \/ Installing
    \/ SaveApply \/ TurnOff \/ SaveState
    \/ Import \/ SaveImport \/ SaveImportFails
    \/ Restart
    \/ Tick

Spec == Init /\ [][Next]_vars

\* What has begun goes on, and the maintenance loop looks at the certificate
\* every twelve hours.  Nobody has to apply, import or restart anything.
Fairness ==
    /\ WF_vars(Renew)
    /\ WF_vars(Issued)
    /\ \A j \in Jobs : WF_vars(RenameCert(j)) /\ WF_vars(RenameKey(j))
    /\ WF_vars(SaveApply)
    /\ WF_vars(SaveImport)

FairSpec == Spec /\ Fairness

-----------------------------------------------------------------------------
(* Properties *)

\* When HTTPS is switched on in the state file there is a pair to serve it
\* with: a failed rename, a failed save that is answered with "the original
\* certificate was restored", and a crash before or after the renames leave the
\* old pair or the new one.  (Not: a crash between the two renames, a failure
\* to undo, an order and an import that overlap: see HealsItself.)
HttpsBacked ==
    /\ disk.mode = "builtin"
    /\ ~torn
    /\ \A j \in Jobs : ~At(j, "half")
    => Loads

\* Whatever happened to the files, a certificate that the Server manages is
\* usable in the end: files that do not match or have expired are replaced by
\* the next renewal check, unless somebody changes the settings first.
Usable == Loads /\ cert.left > 0
HealsItself == Managed ~> (Usable \/ ~Managed)

\* The Web UI shows "renewal: automatic" and the state of the files.  While it
\* says so and shows a valid certificate, visitors do not get an expired one.
RenewedIsServed ==
    /\ Managed
    /\ Usable
    /\ \A j \in Jobs : At(j, "idle")
    => served # 0
=============================================================================
