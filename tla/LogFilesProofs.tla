--------------------------- MODULE LogFilesProofs ----------------------------
(***************************************************************************)
(* Theorems about LogFiles, for any limits, sizes, times and failures.     *)
(*                                                                         *)
(* The argument: the files hold consecutive parts of what was written, a   *)
(* file with newer lines was modified later, and server.log is the newest  *)
(* of all.  So a cleanup, which goes by age and then by size, chooses a    *)
(* file only together with all that hold older lines, and it does not      *)
(* matter in which order they go, nor which of them stay behind.           *)
(***************************************************************************)
EXTENDS LogFiles, FiniteSetTheorems, WellFoundedInduction, TLAPS

HandleInv ==
    /\ at \in {"opened", "fresh"} => handle = "open"
    /\ at = "swapped" => handle = "nil" /\ active = NoFile
    /\ at = "moved" => handle # "open"
    /\ at = "fresh" => active.from = written

\* The name of a cleared file is new: failures number them.
NameInv ==
    \A f \in old : f.name[1] = -1 =>
        \/ f.name[2] < faults
        \/ f.name[2] = faults /\ (at = "swapped" \/ (at = "fresh" /\ f \in todo))

\* g holds newer lines than f.
Before(f, g) == f.to <= g.from /\ f.mtime <= g.mtime

OrderInv ==
    /\ \A f \in old : f.mtime <= now
    /\ \A f, g \in old : f = g \/ f.to <= g.from \/ g.to <= f.from
    /\ \A f, g \in old : f.to < g.to => f.mtime <= g.mtime
    /\ active # NoFile => active.mtime \in 0..now /\ \A f \in old : Before(f, active)

\* What Clear put aside, and puts back if it cannot go on, was server.log.
Aside == {f \in old : f.name = ClearName}
AsideInv ==
    at = "swapped" =>
        \A c \in Aside : /\ c.to = written /\ Size(c) <= ActiveMax + faults
                         /\ c.mtime \in 0..now
                         /\ \A f \in old \ Aside : Before(f, c)

\* server.log is at its limit but for the line each failure may add; with a rename
\* that failed behind, or without a handle, one of these is still to be written.
SizeInv ==
    /\ Size(active) <= ActiveMax + faults
    /\ at \in {"moved", "opened"} \/ handle = "nil" => Size(active) + 1 <= ActiveMax + faults

\* What is left but for files that were not to stay.
Left(files) == Cardinality(LinesOf(files) \ spared)
FitInv ==
    /\ ~unclean => /\ at = "idle" => Left(old) <= max
                   /\ at = "swapped" => Left(old \ Aside) <= max
    /\ at \in {"opened", "limited"} => Left(old \ todo) <= max
    /\ at = "fresh" => LinesOf(old \ todo) \subseteq spared

IInv ==
    /\ TypeOK /\ HandleInv /\ NameInv /\ OrderInv /\ AsideInv
    /\ KeepsNewest /\ SizeInv /\ FitInv
-----------------------------------------------------------------------------
(* Types. *)

LEMMA Constants ==
    /\ ActiveMax \in Nat \ {0} /\ Caps \subseteq Nat /\ Caps # {}
    /\ Retention \in Nat /\ DayLength \in Nat \ {0}
    /\ MaxLines \in Nat /\ MaxTime \in Nat /\ MaxFaults \in Nat
  BY LogConstants

LEMMA NamesDiffer ==
    /\ \A a, b \in Int : <<a, b>> # ActiveName
    /\ NoFile \in Files /\ NoFile.name = ActiveName
    /\ NoFile.from = 0 /\ NoFile.to = 0 /\ NoFile.mtime = -1
  BY DEF ActiveName, NoFile, File, Files

\* What a rename leaves alone.
LEMMA MovedFile ==
    ASSUME NEW f \in Files, NEW n \in {ActiveName} \cup (Int \X Int)
    PROVE  /\ Moved(f, n) \in Files /\ Moved(f, n).name = n
           /\ Moved(f, n).from = f.from /\ Moved(f, n).to = f.to
           /\ Moved(f, n).mtime = f.mtime
           /\ Lines(Moved(f, n)) = Lines(f)
  BY DEF Files, Moved, Lines

\* A day does not end before the day before.
LEMMA DaysGoOn ==
    ASSUME NEW a \in Nat, NEW d \in Nat \ {0}
    PROVE  /\ a \div d \in Nat
           /\ a \div d <= (a + 1) \div d
  OBVIOUS

ActiveType ==
    /\ active \in Files
    /\ active # NoFile => active.name = ActiveName /\ active.from <= active.to /\ active.to = written
OldType ==
    /\ old \subseteq Files
    /\ \A f \in old : f.name # ActiveName /\ f.from <= f.to /\ f.to <= written
    /\ \A f, g \in old : f.name = g.name => f = g
HandleType ==
    /\ handle \in {"open", "closed", "nil"}
    /\ handle = "open" => active # NoFile /\ size = Size(active)
    /\ size \in 0..MaxLines
RestType ==
    /\ now \in 0..MaxTime
    /\ written \in 0..MaxLines
    /\ day \in 0..Today
    /\ max \in Caps
    /\ at \in Steps
    /\ todo \subseteq old /\ (at \in Removing \/ todo = {})
    /\ cap \in Caps
    /\ saved \in [Admins -> Caps \cup {Unset}]
    /\ faults \in 0..MaxFaults
    /\ cleared \in 0..written
    /\ replaced \subseteq 1..written
    /\ spared \subseteq 1..written
    /\ unclean \in BOOLEAN

LEMMA TypeParts == TypeOK <=> ActiveType /\ OldType /\ HandleType /\ RestType
  BY DEF TypeOK, ActiveType, OldType, HandleType, RestType

LEMMA Numbers ==
    ASSUME TypeOK
    PROVE  /\ now \in Nat /\ written \in Nat /\ faults \in Nat /\ size \in Nat
           /\ cleared \in Nat /\ Today \in Nat /\ day \in Nat /\ max \in Nat
<1>1. now \in Nat /\ written \in Nat /\ faults \in Nat /\ size \in Nat /\ cleared \in Nat
  BY Constants DEF TypeOK
<1>2. Today \in Nat
  BY <1>1, DaysGoOn, Constants DEF Today
<1> QED
  BY <1>1, <1>2, Constants DEF TypeOK

\* What open leaves.
LEMMA OpenFile ==
    ASSUME TypeOK, NEW f \in Files, Open(f),
           f # NoFile => f.name = ActiveName /\ f.from <= f.to /\ f.to = written
    PROVE  /\ active' \in Files /\ active' # NoFile /\ active'.name = ActiveName
           /\ active'.from <= active'.to /\ active'.to = written
           /\ f = NoFile => active'.from = written /\ active'.mtime = now
           /\ f # NoFile => active' = f
           /\ handle' = "open" /\ size' = Size(active') /\ size' \in 0..MaxLines
           /\ day' = Today
<1> DEFINE g == IF f = NoFile THEN File(ActiveName, written, written, now) ELSE f
<1>1. active' = g /\ handle' = "open" /\ size' = Size(g) /\ day' = Today
  BY DEF Open, FileSize
<1>2. now \in Nat /\ written \in Nat /\ written <= MaxLines /\ MaxLines \in Nat
  BY Numbers, Constants DEF TypeOK
<1>3. CASE f = NoFile
  <2>1. g = File(ActiveName, written, written, now)
    BY <1>3
  <2>2. g \in Files /\ g.name = ActiveName /\ g.from = written /\ g.to = written /\ g.mtime = now
    BY <2>1, <1>2 DEF File, Files
  <2>3. g # NoFile
    BY <2>2, <1>2, NamesDiffer
  <2> QED
    BY <2>2, <2>3, <1>1, <1>2, <1>3 DEF Size
<1>4. CASE f # NoFile
  <2>1. g = f /\ f.from \in Nat /\ f.to \in Nat
    BY <1>4 DEF Files
  <2> QED
    BY <2>1, <1>1, <1>2, <1>4 DEF Size
<1> QED
  BY <1>3, <1>4

\* What a line written leaves.
LEMMA AppendLine ==
    ASSUME TypeOK, handle = "open", Append
    PROVE  /\ active # NoFile /\ active' \in Files /\ active' # NoFile
           /\ active'.name = ActiveName
           /\ active'.from = active.from /\ active'.to = written + 1 /\ active'.mtime = now
           /\ active.from <= active.to /\ active.to = written /\ active.from \in Nat
           /\ size' = Size(active') /\ size' \in 0..MaxLines
           /\ Size(active') = Size(active) + 1 /\ size = Size(active)
           /\ written' = written + 1 /\ written' \in 0..MaxLines
<1>1. /\ active \in Files /\ active # NoFile /\ active.name = ActiveName
      /\ active.from <= active.to /\ active.to = written /\ size = Size(active)
  BY DEF TypeOK
<1>2. now \in Nat /\ written \in Nat /\ MaxLines \in Nat /\ written < MaxLines
  BY Numbers, Constants DEF Append
<1>3. /\ active' = [active EXCEPT !.to = written + 1, !.mtime = now]
      /\ size' = size + 1 /\ written' = written + 1
  BY DEF Append
<1>4. /\ active' \in Files /\ active'.name = active.name /\ active'.from = active.from
      /\ active'.to = written + 1 /\ active'.mtime = now /\ active.from \in Nat
  <2>1. /\ active.name \in {ActiveName} \cup (Int \X Int) /\ active.from \in Nat
        /\ active = [name |-> active.name, from |-> active.from, to |-> active.to, mtime |-> active.mtime]
    BY <1>1 DEF Files
  <2>2. active' = [name |-> active.name, from |-> active.from, to |-> written + 1, mtime |-> now]
    BY <2>1, <1>3
  <2> QED
    BY <2>1, <2>2, <1>2 DEF Files
<1>5. active' # NoFile
  BY <1>4, <1>2, NamesDiffer
<1> QED
  BY <1>1, <1>2, <1>3, <1>4, <1>5 DEF Size
-----------------------------------------------------------------------------
(* The types are kept. *)

LEMMA OldShrinks ==
    ASSUME TypeOK, old' \subseteq old, written' \in {written, written + 1}
    PROVE  OldType'
<1>1. old \subseteq Files /\ written \in Nat
  BY Numbers DEF TypeOK
<1>2. \A f \in old : f.name # ActiveName /\ f.from <= f.to /\ f.to <= written /\ f.to \in Nat
  BY <1>1 DEF TypeOK, Files
<1>3. \A f \in old' : f.name # ActiveName /\ f.from <= f.to /\ f.to <= written'
  BY <1>1, <1>2
<1>4. \A f, g \in old' : f.name = g.name => f = g
  BY DEF TypeOK
<1> QED
  BY <1>1, <1>3, <1>4 DEF OldType

\* server.log gets a name that is free.
LEMMA OldGrows ==
    ASSUME TypeOK, active # NoFile, NEW n \in Int \X Int,
           old' \subseteq old \cup {Moved(active, n)},
           \A f \in old \cap old' : f.name # n,
           written' = written
    PROVE  OldType'
<1> DEFINE m == Moved(active, n)
<1>1. m \in Files /\ m.name = n /\ m.from = active.from /\ m.to = active.to
  BY MovedFile DEF TypeOK
<1>2. n # ActiveName
  BY NamesDiffer
<1>3. active.from <= active.to /\ active.to = written /\ written \in Nat /\ old \subseteq Files
  BY Numbers DEF TypeOK
<1> HIDE DEF m
<1>4. old' \subseteq old \cup {m}
  BY DEF m
<1>5. \A f \in old' : f \in Files /\ f.name # ActiveName /\ f.from <= f.to /\ f.to <= written'
  <2> TAKE f \in old'
  <2>1. CASE f \in old
    BY <2>1, <1>3 DEF TypeOK
  <2>2. CASE f = m
    BY <2>2, <1>1, <1>2, <1>3
  <2> QED
    BY <2>1, <2>2, <1>4
<1>6. \A f, g \in old' : f.name = g.name => f = g
  <2> TAKE f, g \in old'
  <2>1. CASE f \in old /\ g \in old
    BY <2>1 DEF TypeOK
  <2>2. CASE f \in old /\ g = m
    BY <2>2, <1>1
  <2>3. CASE f = m /\ g \in old
    BY <2>3, <1>1
  <2>4. CASE f = m /\ g = m
    BY <2>4
  <2> QED
    BY <2>1, <2>2, <2>3, <2>4, <1>4
<1> QED
  BY <1>5, <1>6 DEF OldType

LEMMA ActiveStays ==
    ASSUME TypeOK, active' = active, written' = written
    PROVE  ActiveType'
  BY DEF TypeOK, ActiveType

LEMMA ActiveGone ==
    ASSUME active' = NoFile
    PROVE  ActiveType'
  BY NamesDiffer DEF ActiveType

\* The file that Clear moved aside, put back.
LEMMA PutBack ==
    ASSUME TypeOK, AsideInv, at = "swapped", NEW f \in old, f.name = ClearName
    PROVE  /\ Moved(f, ActiveName) \in Files /\ Moved(f, ActiveName) # NoFile
           /\ Moved(f, ActiveName).name = ActiveName
           /\ Moved(f, ActiveName).from = f.from /\ Moved(f, ActiveName).to = f.to
           /\ Moved(f, ActiveName).mtime = f.mtime
           /\ f.from <= f.to /\ f.to = written
           /\ Lines(Moved(f, ActiveName)) = Lines(f)
           /\ Aside = {f}
<1>1. f \in Files /\ f \in Aside /\ f.from <= f.to
  BY DEF TypeOK, Aside
<1>2. f.to = written /\ f.mtime \in 0..now /\ now \in Nat
  BY <1>1, Numbers DEF AsideInv
<1>3. /\ Moved(f, ActiveName) \in Files /\ Moved(f, ActiveName).name = ActiveName
      /\ Moved(f, ActiveName).from = f.from /\ Moved(f, ActiveName).to = f.to
      /\ Moved(f, ActiveName).mtime = f.mtime
      /\ Lines(Moved(f, ActiveName)) = Lines(f)
  BY <1>1, MovedFile
<1>4. Moved(f, ActiveName) # NoFile
  BY <1>2, <1>3, NamesDiffer
<1>5. Aside = {f}
  BY DEF Aside, TypeOK
<1> QED
  BY <1>1, <1>2, <1>3, <1>4, <1>5

LEMMA KeptIsOld == \A limit, other : Kept(limit, other) \subseteq old
  BY DEF Kept, Young

LEMMA OpenTypes ==
    ASSUME TypeOK, NEW f \in Files, Open(f), written' = written,
           f # NoFile => f.name = ActiveName /\ f.from <= f.to /\ f.to = written
    PROVE  ActiveType' /\ HandleType'
<1>1. /\ active' \in Files /\ active' # NoFile /\ active'.name = ActiveName
      /\ active'.from <= active'.to /\ active'.to = written
      /\ handle' = "open" /\ size' = Size(active') /\ size' \in 0..MaxLines
  BY OpenFile
<1>2. ActiveType'
  BY <1>1 DEF ActiveType
<1>3. HandleType'
  BY <1>1 DEF HandleType, Size
<1> QED
  BY <1>2, <1>3

LEMMA ActiveFile ==
    ASSUME TypeOK
    PROVE  /\ active \in Files /\ old \subseteq Files /\ NoFile \in Files
           /\ active # NoFile => active.name = ActiveName /\ active.from <= active.to /\ active.to = written
  BY NamesDiffer DEF TypeOK

LEMMA FilesStep ==
    ASSUME IInv, Next
    PROVE  ActiveType' /\ OldType' /\ HandleType'
<1> USE DEF IInv
<1>0. TypeOK /\ HandleInv /\ NameInv /\ AsideInv /\ active \in Files /\ NoFile \in Files
  BY ActiveFile
<1>1. CASE Write
  <2>1. handle = "open" /\ Append /\ old' = old /\ handle' = handle
    BY <1>1 DEF Write
  <2>2. ActiveType'
    BY <2>1, <1>0, AppendLine, Numbers DEF ActiveType
  <2>3. HandleType'
    BY <2>1, <1>0, AppendLine DEF HandleType, Size
  <2>4. written' = written + 1
    BY <2>1, <1>0, AppendLine
  <2> QED
    BY <2>1, <2>2, <2>3, <2>4, <1>0, OldShrinks
<1>2. CASE RotateMove
  <2>1. handle' \in {"nil", "closed"} /\ size' = size /\ written' = written
    BY <1>2 DEF RotateMove
  <2>2. HandleType'
    BY <2>1, <1>0 DEF HandleType, TypeOK
  <2>3. CASE UNCHANGED disk
    <3>1. active' = active /\ old' = old
      BY <2>3 DEF disk
    <3> QED
      BY <3>1, <2>1, <2>2, <1>0, ActiveStays, OldShrinks
  <2>4. CASE /\ active # NoFile /\ active' = NoFile
             /\ old' = (old \ {f \in old : f.name = RotatedName}) \cup {Moved(active, RotatedName)}
    <3>1. RotatedName \in Int \X Int
      BY Numbers, <1>0 DEF RotatedName
    <3>2. \A f \in old \cap old' : f.name = RotatedName => f = Moved(active, RotatedName)
      BY <2>4
    <3>3. CASE Moved(active, RotatedName) \notin old
      <4>1. \A f \in old \cap old' : f.name # RotatedName
        BY <3>2, <3>3
      <4>2. old' \subseteq old \cup {Moved(active, RotatedName)}
        BY <2>4
      <4>3. OldType'
        BY <4>1, <4>2, <3>1, <2>1, <2>4, <1>0, OldGrows
      <4> QED
        BY <4>3, <2>2, <2>4, ActiveGone
    <3>4. CASE Moved(active, RotatedName) \in old
      <4>1. old' \subseteq old
        BY <2>4, <3>4
      <4> QED
        BY <4>1, <2>1, <2>2, <2>4, <1>0, ActiveGone, OldShrinks
    <3> QED
      BY <3>3, <3>4
  <2> QED
    BY <2>3, <2>4, <1>2 DEF RotateMove
<1>3. CASE RotateOpen
  <2>1. Open(active) /\ old' = old /\ written' = written
    BY <1>3 DEF RotateOpen
  <2> QED
    BY <2>1, <1>0, ActiveFile, OpenTypes, OldShrinks
<1>4. CASE RotateOpenFails \/ (\E a \in Admins, c \in Caps : SaveLimit(a, c)) \/ Tick
  <2>1. active' = active /\ old' = old /\ handle' = handle /\ size' = size /\ written' = written
    BY <1>4 DEF RotateOpenFails, SaveLimit, Tick, disk, writer
  <2>2. HandleType'
    BY <2>1, <1>0 DEF HandleType, TypeOK
  <2> QED
    BY <2>1, <2>2, <1>0, ActiveStays, OldShrinks
<1>5. CASE WriteRotated
  <2>1. handle = "open" /\ Append /\ old' = old /\ handle' = handle
    BY <1>5, <1>0 DEF WriteRotated, HandleInv
  <2>2. ActiveType'
    BY <2>1, <1>0, AppendLine, Numbers DEF ActiveType
  <2>3. HandleType'
    BY <2>1, <1>0, AppendLine DEF HandleType, Size
  <2>4. written' = written + 1
    BY <2>1, <1>0, AppendLine
  <2> QED
    BY <2>1, <2>2, <2>3, <2>4, <1>0, OldShrinks
<1>6. CASE (\E a \in Admins : Configure(a)) \/ (\E f \in todo : RemoveFile(f))
  <2>1. active' = active /\ old' \subseteq old /\ handle' = handle /\ size' = size /\ written' = written
    BY <1>6 DEF Configure, RemoveFile, disk, writer
  <2>2. HandleType'
    BY <2>1, <1>0 DEF HandleType, TypeOK
  <2> QED
    BY <2>1, <2>2, <1>0, ActiveStays, OldShrinks
<1>7. CASE ClearMove
  <2>1. handle' = "nil" /\ size' = size /\ written' = written /\ active' = NoFile
    BY <1>7 DEF ClearMove
  <2>2. HandleType'
    BY <2>1, <1>0 DEF HandleType, TypeOK
  <2>3. CASE active = NoFile
    <3>1. old' = old
      BY <1>7, <2>3 DEF ClearMove
    <3> QED
      BY <3>1, <2>1, <2>2, <1>0, ActiveGone, OldShrinks
  <2>4. CASE active # NoFile
    <3>1. old' = old \cup {Moved(active, ClearName)}
      BY <1>7, <2>4 DEF ClearMove
    <3>2. ClearName \in Int \X Int /\ ClearName[1] = -1 /\ ClearName[2] = faults /\ faults \in Nat
      BY Numbers, <1>0 DEF ClearName
    <3>3. at = "idle"
      BY <1>7 DEF ClearMove
    <3>4. \A f \in old : f.name # ClearName
      BY <3>2, <3>3, <1>0 DEF NameInv
    <3>5. OldType'
      BY <3>1, <3>2, <3>4, <2>1, <2>4, <1>0, OldGrows
    <3> QED
      BY <3>5, <2>1, <2>2, ActiveGone
  <2> QED
    BY <2>3, <2>4
<1>8. CASE ClearCloseFails
  <2>1. active' = active /\ old' = old /\ handle' = "closed" /\ size' = size /\ written' = written
    BY <1>8 DEF ClearCloseFails, disk
  <2>2. HandleType'
    BY <2>1, <1>0 DEF HandleType, TypeOK
  <2> QED
    BY <2>1, <2>2, <1>0, ActiveStays, OldShrinks
<1>9. CASE ClearMoveFails
  <2>1. old' = old /\ written' = written
    BY <1>9 DEF ClearMoveFails
  <2>2. CASE Open(active)
    BY <2>1, <2>2, <1>0, ActiveFile, OpenTypes, OldShrinks
  <2>3. CASE handle' = "nil" /\ UNCHANGED <<active, size, day>>
    <3>1. HandleType'
      BY <2>3, <1>0 DEF HandleType, TypeOK
    <3> QED
      BY <2>1, <2>3, <3>1, <1>0, ActiveStays, OldShrinks
  <2> QED
    BY <2>2, <2>3, <1>9 DEF ClearMoveFails
<1>10. CASE ClearOpen
  <2>1. Open(NoFile) /\ old' = old /\ written' = written
    BY <1>10 DEF ClearOpen
  <2> QED
    BY <2>1, <1>0, OpenTypes, OldShrinks
<1>11. CASE ClearOpenFails
  <2>1. at = "swapped" /\ written' = written
    BY <1>11 DEF ClearOpenFails
  <2>2. CASE UNCHANGED <<disk, handle, size, day>>
    <3>1. active' = active /\ old' = old /\ handle' = handle /\ size' = size
      BY <2>2 DEF disk
    <3>2. HandleType'
      BY <3>1, <1>0 DEF HandleType, TypeOK
    <3> QED
      BY <3>1, <3>2, <2>1, <1>0, ActiveStays, OldShrinks
  <2>3. ASSUME NEW f \in old, f.name = ClearName, old' = old \ {f},
               \/ Open(Moved(f, ActiveName))
               \/ active' = Moved(f, ActiveName) /\ UNCHANGED <<handle, size, day>>
        PROVE  ActiveType' /\ OldType' /\ HandleType'
    <3>1. /\ Moved(f, ActiveName) \in Files
          /\ Moved(f, ActiveName).name = ActiveName
          /\ Moved(f, ActiveName).from <= Moved(f, ActiveName).to
          /\ Moved(f, ActiveName).to = written
      BY <2>1, <2>3, <1>0, PutBack
    <3>2. OldType'
      BY <2>1, <2>3, <1>0, OldShrinks
    <3>3. CASE Open(Moved(f, ActiveName))
      BY <3>1, <3>2, <3>3, <2>1, <1>0, OpenTypes
    <3>4. CASE active' = Moved(f, ActiveName) /\ UNCHANGED <<handle, size, day>>
      <4>1. handle = "nil"
        BY <2>1, <1>0 DEF HandleInv
      <4>2. HandleType'
        BY <4>1, <3>4, <1>0 DEF HandleType, TypeOK
      <4>3. ActiveType'
        BY <3>1, <3>4, <2>1 DEF ActiveType
      <4> QED
        BY <3>2, <4>2, <4>3
    <3> QED
      BY <2>3, <3>3, <3>4
  <2> QED
    BY <2>2, <2>3, <1>11 DEF ClearOpenFails
<1>12. CASE Configured \/ Cleared
  <2>1. active' = active /\ old' = old /\ handle' = handle /\ size' = size /\ written' = written
    BY <1>12 DEF Configured, Cleared, disk, writer
  <2>2. HandleType'
    BY <2>1, <1>0 DEF HandleType, TypeOK
  <2> QED
    BY <2>1, <2>2, <1>0, ActiveStays, OldShrinks
<1>13. CASE Restart
  <2>1. Open(active) /\ old' = old /\ written' = written
    BY <1>13 DEF Restart
  <2> QED
    BY <2>1, <1>0, ActiveFile, OpenTypes, OldShrinks
<1> QED
  BY <1>1, <1>2, <1>3, <1>4, <1>5, <1>6, <1>7, <1>8, <1>9, <1>10, <1>11, <1>12, <1>13 DEF Next

LEMMA OldLines ==
    ASSUME TypeOK
    PROVE  \A f \in old : Lines(f) \subseteq 1..written
<1> TAKE f \in old
<1>1. f.from \in Nat /\ f.to \in Nat /\ f.to <= written
  BY DEF TypeOK, Files
<1> QED
  BY <1>1, Numbers DEF Lines

\* Files wait to be removed only while an operation removes files.
LEMMA TodoStep ==
    ASSUME TypeOK, Next
    PROVE  todo' \subseteq old' /\ (at' \in Removing \/ todo' = {})
<1>1. todo \subseteq old /\ (at \in Removing \/ todo = {})
  BY DEF TypeOK
<1>2. CASE todo' = {}
  BY <1>2
<1>3. CASE Write \/ WriteRotated \/ RotateMove \/ RotateOpenFails \/ Configured \/ Cleared \/ Tick
           \/ ClearMove \/ ClearCloseFails \/ ClearMoveFails \/ ClearOpenFails \/ Restart
  <2>1. todo' = {}
    BY <1>1, <1>3
       DEF Write, WriteRotated, RotateMove, RotateOpenFails, Configured, Cleared, Tick, operation,
           ClearMove, ClearCloseFails, ClearMoveFails, ClearOpenFails, Restart, Removing
  <2> QED
    BY <2>1
<1>4. CASE RotateOpen \/ (\E a \in Admins : Configure(a)) \/ ClearOpen
  <2>1. old' = old /\ todo' \subseteq old /\ at' \in Removing
    BY <1>4 DEF RotateOpen, Configure, ClearOpen, disk, Removing
  <2> QED
    BY <2>1
<1>5. CASE \E f \in todo : RemoveFile(f)
  <2>1. PICK f \in todo : RemoveFile(f)
    BY <1>5
  <2>2. todo' = todo \ {f} /\ (old' = old \ {f} \/ old' = old) /\ at' = at
    BY <2>1 DEF RemoveFile
  <2> QED
    BY <2>2, <1>1
<1>6. CASE \E a \in Admins, c \in Caps : SaveLimit(a, c)
  BY <1>1, <1>6 DEF SaveLimit, operation, disk
<1> QED
  BY <1>3, <1>4, <1>5, <1>6 DEF Next

LEMMA RestStep ==
    ASSUME IInv, Next
    PROVE  RestType'
<1> USE DEF IInv
<1>0. TypeOK /\ HandleInv
  OBVIOUS
<1>1. /\ now \in Nat /\ written \in Nat /\ faults \in Nat /\ Today \in Nat /\ day \in 0..Today
      /\ now \in 0..MaxTime /\ written \in 0..MaxLines /\ faults \in 0..MaxFaults
      /\ cleared \in 0..written /\ replaced \subseteq 1..written /\ unclean \in BOOLEAN
      /\ spared \subseteq 1..written
      /\ max \in Caps /\ cap \in Caps /\ at \in Steps
      /\ saved \in [Admins -> Caps \cup {Unset}]
  BY <1>0, Numbers DEF TypeOK
<1>2. MaxFaults \in Nat /\ MaxLines \in Nat /\ MaxTime \in Nat
  BY Constants
<1>3. Fault => faults' \in 0..MaxFaults
  BY <1>1, <1>2 DEF Fault
<1>4. ASSUME Next PROVE faults' \in 0..MaxFaults
  <2>1. CASE \E f \in todo : RemoveFile(f)
    BY <2>1, <1>1, <1>3 DEF RemoveFile
  <2>2. CASE \E a \in Admins : Configure(a) \/ \E c \in Caps : SaveLimit(a, c)
    BY <2>2, <1>1 DEF Configure, SaveLimit
  <2>3. CASE Write \/ RotateMove \/ RotateOpen \/ RotateOpenFails \/ WriteRotated
    BY <2>3, <1>1, <1>3 DEF Write, RotateMove, RotateOpen, RotateOpenFails, WriteRotated
  <2>4. CASE ClearMove \/ ClearCloseFails \/ ClearMoveFails \/ ClearOpen \/ ClearOpenFails
    BY <2>4, <1>1, <1>3 DEF ClearMove, ClearCloseFails, ClearMoveFails, ClearOpen, ClearOpenFails
  <2>5. CASE Configured \/ Cleared \/ Restart \/ Tick
    BY <2>5, <1>1, <1>3 DEF Configured, Cleared, Restart, Tick
  <2> QED
    BY <1>4, <2>1, <2>2, <2>3, <2>4, <2>5 DEF Next
<1>5. ASSUME Next PROVE at' \in Steps
  <2>1. CASE \E f \in todo : RemoveFile(f)
    BY <2>1, <1>1 DEF RemoveFile
  <2>2. CASE \E a \in Admins : Configure(a) \/ \E c \in Caps : SaveLimit(a, c)
    BY <2>2, <1>1 DEF Configure, SaveLimit, Steps, operation
  <2>3. CASE Write \/ RotateMove \/ RotateOpen \/ RotateOpenFails \/ WriteRotated
    BY <2>3, <1>1 DEF Write, RotateMove, RotateOpen, RotateOpenFails, WriteRotated, Steps, operation
  <2>4. CASE ClearMove \/ ClearCloseFails \/ ClearMoveFails \/ ClearOpen \/ ClearOpenFails
    BY <2>4, <1>1
       DEF ClearMove, ClearCloseFails, ClearMoveFails, ClearOpen, ClearOpenFails, Steps, operation
  <2>5. CASE Configured \/ Cleared \/ Restart \/ Tick
    BY <2>5, <1>1 DEF Configured, Cleared, Restart, Tick, Steps, operation
  <2> QED
    BY <1>5, <2>1, <2>2, <2>3, <2>4, <2>5 DEF Next
<1>6. ASSUME Next PROVE /\ max' \in Caps /\ cap' \in Caps /\ saved' \in [Admins -> Caps \cup {Unset}]
  <2>1. CASE \E a \in Admins : Configure(a)
    <3>1. PICK a \in Admins : Configure(a)
      BY <2>1
    <3> QED
      BY <3>1, <1>1 DEF Configure
  <2>2. CASE \E a \in Admins, c \in Caps : SaveLimit(a, c)
    <3>1. PICK a \in Admins, c \in Caps : SaveLimit(a, c)
      BY <2>2
    <3> QED
      BY <3>1, <1>1 DEF SaveLimit, writer
  <2>3. CASE Restart
    BY <2>3, <1>1 DEF Restart
  <2>4. CASE UNCHANGED <<max, limits>>
    BY <2>4, <1>1 DEF limits
  <2> QED
    BY <1>6, <2>1, <2>2, <2>3, <2>4
       DEF Next, Write, RotateMove, RotateOpen, RotateOpenFails, WriteRotated, RemoveFile, Configured,
           ClearMove, ClearCloseFails, ClearMoveFails, ClearOpen, ClearOpenFails, Cleared, Tick, writer
<1>7. ASSUME Next PROVE now' \in 0..MaxTime /\ day' \in 0..Today'
  <2>1. CASE Tick
    <3>1. now' = now + 1 /\ now < MaxTime /\ day' = day
      BY <2>1 DEF Tick, writer
    <3>2. Today' = (now + 1) \div DayLength
      BY <3>1 DEF Today
    <3>3. Today' \in Nat /\ Today <= Today'
      <4>1. now + 1 \in Nat /\ DayLength \in Nat \ {0}
        BY <1>1, Constants
      <4>2. (now + 1) \div DayLength \in Nat
        BY <4>1, DaysGoOn
      <4>3. now \div DayLength <= (now + 1) \div DayLength
        BY <4>1, <1>1, DaysGoOn
      <4> QED
        BY <4>2, <4>3, <3>2 DEF Today
    <3> QED
      BY <3>1, <3>3, <1>1, <1>2
  <2>2. CASE now' = now /\ day' \in {day, Today}
    <3>1. Today' = Today
      BY <2>2 DEF Today
    <3> QED
      BY <3>1, <2>2, <1>1
  <2>3. CASE Restart \/ RotateOpen \/ ClearMoveFails \/ ClearOpen \/ ClearOpenFails
    BY <2>2, <2>3 DEF Restart, RotateOpen, ClearMoveFails, ClearOpen, ClearOpenFails, Open
  <2> QED
    BY <1>7, <2>1, <2>2, <2>3
       DEF Next, Write, RotateMove, RotateOpenFails, WriteRotated, RemoveFile, Configure, Configured,
           SaveLimit, ClearMove, ClearCloseFails, Cleared, writer
<1>8. \A f \in old : Lines(f) \subseteq 1..written
  BY <1>0, OldLines
<1>9. ASSUME Next PROVE /\ written' \in 0..MaxLines /\ cleared' \in 0..written'
                        /\ replaced' \subseteq 1..written' /\ unclean' \in BOOLEAN
                        /\ spared' \subseteq 1..written'
  <2>1. CASE Write \/ WriteRotated
    <3>1. /\ written < MaxLines /\ written' = written + 1 /\ cleared' = cleared /\ replaced' = replaced
          /\ unclean' \in {unclean, FALSE} /\ spared' = spared
      BY <2>1 DEF Write, WriteRotated, Append, history
    <3>2. unclean' \in BOOLEAN
      BY <3>1, <1>1
    <3>3. written' \in 0..MaxLines /\ 0..written \subseteq 0..written' /\ 1..written \subseteq 1..written'
      BY <3>1, <1>1, <1>2
    <3> QED
      BY <3>1, <3>2, <3>3, <1>1
  <2>2. CASE RotateMove
    <3>1. written' = written /\ cleared' = cleared /\ unclean' = unclean /\ spared' = spared
      BY <2>2 DEF RotateMove
    <3>2. replaced' \subseteq replaced \cup UNION {Lines(f) : f \in old}
      BY <2>2 DEF RotateMove
    <3> QED
      BY <3>1, <3>2, <1>1, <1>8
  <2>3. CASE ClearOpen
    <3>1. /\ written' = written /\ cleared' = written /\ replaced' = replaced /\ unclean' = unclean
          /\ spared' = spared
      BY <2>3 DEF ClearOpen
    <3>2. written \in 0..written
      BY <1>1
    <3> QED
      BY <3>1, <3>2, <1>1
  <2>4. CASE (\E f \in todo : RemoveFile(f)) \/ Restart
    <3>1. /\ written' = written /\ cleared' = cleared /\ replaced' = replaced
          /\ spared' \subseteq spared \cup LinesOf(todo)
      BY <2>4 DEF RemoveFile, Restart, LinesOf
    <3>2. unclean' \in BOOLEAN
      BY <2>4, <1>1 DEF RemoveFile, Restart
    <3>3. LinesOf(todo) \subseteq 1..written
      BY <1>0, <1>8 DEF LinesOf, TypeOK
    <3> QED
      BY <3>1, <3>2, <3>3, <1>1
  <2>5. CASE /\ written' = written /\ cleared' = cleared /\ replaced' = replaced /\ spared' = spared
             /\ unclean' \in BOOLEAN
    BY <2>5, <1>1
  <2> QED
    BY <1>9, <1>1, <2>1, <2>2, <2>3, <2>4, <2>5
       DEF Next, RotateOpen, RotateOpenFails, Configure, Configured, SaveLimit, ClearMove,
           ClearCloseFails, ClearMoveFails, ClearOpenFails, Cleared, Tick, history
<1>10. ASSUME Next PROVE todo' \subseteq old' /\ (at' \in Removing \/ todo' = {})
  BY <1>0, <1>10, TodoStep
<1> QED
  BY <1>4, <1>5, <1>6, <1>7, <1>9, <1>10 DEF RestType

LEMMA TypeStep ==
    ASSUME IInv, Next
    PROVE  TypeOK'
<1>1. ActiveType' /\ OldType' /\ HandleType' /\ RestType'
  BY FilesStep, RestStep
<1> QED
  BY <1>1 DEF TypeOK, ActiveType, OldType, HandleType, RestType
-----------------------------------------------------------------------------
(* Handle, names, order and sizes are kept. *)

LEMMA HandleStep ==
    ASSUME IInv, Next
    PROVE  HandleInv'
<1> USE DEF IInv
<1>0. TypeOK /\ HandleInv
  OBVIOUS
<1>1. CASE RotateMove
  BY <1>0, <1>1 DEF RotateMove, HandleInv, TypeOK
<1>2. CASE RotateOpen
  BY <1>2 DEF RotateOpen, HandleInv, Open
<1>3. CASE \E a \in Admins, c \in Caps : SaveLimit(a, c)
  BY <1>0, <1>3 DEF SaveLimit, HandleInv, disk, writer, operation
<1>4. CASE ClearMove
  BY <1>4 DEF ClearMove, HandleInv
<1>5. CASE ClearOpen
  <2>1. Open(NoFile) /\ at' = "fresh" /\ written' = written
    BY <1>5 DEF ClearOpen
  <2>2. handle' = "open" /\ active'.from = written
    BY <2>1, <1>0, OpenFile, ActiveFile
  <2> QED
    BY <2>1, <2>2 DEF HandleInv
<1>6. CASE at' \in {"idle", "limited"}
  BY <1>6 DEF HandleInv
<1>7. CASE \E f \in todo : RemoveFile(f)
  BY <1>0, <1>7 DEF RemoveFile, HandleInv, TypeOK, Removing, writer
<1> QED
  BY <1>1, <1>2, <1>3, <1>4, <1>5, <1>6, <1>7
     DEF Next, Write, RotateOpenFails, WriteRotated, Configure, Configured, ClearCloseFails,
         ClearMoveFails, ClearOpenFails, Cleared, Restart, Tick, operation

LEMMA OldNames ==
    ASSUME TypeOK
    PROVE  \A f \in old : f.name \in Int \X Int /\ f.name[1] \in Int /\ f.name[2] \in Int
<1> TAKE f \in old
<1>1. f.name \in Int \X Int
  BY DEF TypeOK, Files
<1> QED
  BY <1>1

LEMMA NameStep ==
    ASSUME IInv, Next
    PROVE  NameInv'
<1> USE DEF IInv
<1>0. TypeOK /\ NameInv /\ faults \in Nat /\ day \in Nat
  BY Numbers
<1>1. CASE RotateMove
  <2>1. at = "idle" /\ faults' \in {faults, faults + 1}
    BY <1>1 DEF RotateMove, Fault
  <2>2. \A f \in old' : f \in old \/ f = Moved(active, RotatedName)
    BY <1>1 DEF RotateMove, disk
  <2>3. RotatedName \in Int \X Int /\ RotatedName[1] = day
    BY <1>0, Numbers DEF RotatedName
  <2>4. Moved(active, RotatedName).name[1] = day
    BY <2>3, <1>0, ActiveFile, MovedFile
  <2>5. \A f \in old : f.name[1] = -1 => f.name[2] < faults
    BY <2>1, <1>0 DEF NameInv
  <2>6. \A f \in old' : f.name[1] = -1 => f \in old
    BY <2>2, <2>4, <1>0
  <2> QED
    BY <2>1, <2>5, <2>6, <1>0, OldNames DEF NameInv
<1>2. CASE ClearMove
  <2>1. at = "idle" /\ at' = "swapped" /\ faults' = faults
    BY <1>2 DEF ClearMove
  <2>2. \A f \in old' : f \in old \/ f = Moved(active, ClearName)
    BY <1>2 DEF ClearMove
  <2>3. ClearName \in Int \X Int /\ ClearName[2] = faults
    BY <1>0 DEF ClearName
  <2>4. Moved(active, ClearName).name[2] = faults
    BY <2>3, <1>0, ActiveFile, MovedFile
  <2>5. \A f \in old : f.name[1] = -1 => f.name[2] < faults
    BY <2>1, <1>0 DEF NameInv
  <2> QED
    BY <2>1, <2>2, <2>4, <2>5 DEF NameInv
<1>3. CASE old' \subseteq old /\ faults' = faults /\ at \notin {"swapped", "fresh"}
  BY <1>3, <1>0 DEF NameInv
<1>4. CASE old' \subseteq old /\ faults' = faults + 1
  BY <1>4, <1>0, OldNames DEF NameInv
<1>5. CASE Cleared
  BY <1>0, <1>5 DEF Cleared, NameInv, disk
<1>6. CASE Write \/ RotateOpen \/ WriteRotated \/ (\E a \in Admins : Configure(a)) \/ Configured \/ Tick
  BY <1>3, <1>6 DEF Write, RotateOpen, WriteRotated, Configure, Configured, Tick, disk
<1>7. CASE \E a \in Admins, c \in Caps : SaveLimit(a, c)
  BY <1>0, <1>7 DEF SaveLimit, disk, operation, NameInv
<1>8. CASE RotateOpenFails \/ ClearCloseFails \/ ClearMoveFails \/ ClearOpenFails \/ Restart
  BY <1>4, <1>8 DEF RotateOpenFails, ClearCloseFails, ClearMoveFails, ClearOpenFails, Restart, Fault, disk
<1>9. CASE ClearOpen
  <2>1. at' = "fresh" /\ old' = old /\ todo' = old /\ faults' = faults
    BY <1>9 DEF ClearOpen
  <2> QED
    BY <2>1, <1>0 DEF NameInv
<1>10. CASE \E f \in todo : RemoveFile(f)
  <2>1. PICK f \in todo : RemoveFile(f)
    BY <1>10
  <2>2. CASE old' = old /\ Fault
    BY <2>2, <1>4 DEF Fault
  <2>3. CASE old' = old \ {f} /\ faults' = faults
    <3>1. at' = at /\ todo' = todo \ {f} /\ f \in old
      BY <2>1, <1>0 DEF RemoveFile, TypeOK
    <3> QED
      BY <2>3, <3>1, <1>0 DEF NameInv
  <2> QED
    BY <2>1, <2>2, <2>3 DEF RemoveFile
<1> QED
  BY <1>1, <1>2, <1>5, <1>6, <1>7, <1>8, <1>9, <1>10 DEF Next

\* Fewer old files, and server.log as it was, or gone, or newer than they are.
LEMMA OrderShrinks ==
    ASSUME TypeOK, OrderInv, old' \subseteq old, now' \in {now, now + 1},
           active' # NoFile => active'.mtime \in 0..now' /\ \A f \in old' : Before(f, active')
    PROVE  OrderInv'
<1>1. now \in Nat /\ \A f \in old : f.mtime \in Int /\ f.mtime <= now
  BY Numbers DEF TypeOK, OrderInv, Files
<1>2. \A f \in old' : f.mtime <= now'
  BY <1>1
<1>3. \A f, g \in old' : f = g \/ f.to <= g.from \/ g.to <= f.from
  BY DEF OrderInv
<1>4. \A f, g \in old' : f.to < g.to => f.mtime <= g.mtime
  BY DEF OrderInv
<1> QED
  BY <1>2, <1>3, <1>4 DEF OrderInv, Before

\* server.log becomes one of them.
LEMMA OrderGrows ==
    ASSUME TypeOK, OrderInv, active # NoFile, NEW n \in Int \X Int,
           old' \subseteq old \cup {Moved(active, n)}, now' = now, active' = NoFile
    PROVE  OrderInv'
<1> DEFINE m == Moved(active, n)
<1>1. /\ m.from = active.from /\ m.to = active.to /\ m.mtime = active.mtime
      /\ active \in Files /\ active.from <= active.to /\ active.to = written
  BY MovedFile, ActiveFile
<1>2. /\ now \in Nat /\ active.mtime \in 0..now /\ active.from \in Nat /\ written \in Nat
  BY <1>1, Numbers DEF OrderInv, Files
<1> HIDE DEF m
<1>3. old' \subseteq old \cup {m}
  BY DEF m
<1>4. \A f \in old : f.to <= m.from /\ f.mtime <= m.mtime /\ f.to <= m.to /\ f.mtime <= now
  BY <1>1 DEF OrderInv, Before, TypeOK
<1>5. \A f \in old' : f.mtime <= now'
  BY <1>1, <1>2, <1>3, <1>4
<1>6. \A f, g \in old' : f = g \/ f.to <= g.from \/ g.to <= f.from
  BY <1>3, <1>4 DEF OrderInv
<1>7. \A f, g \in old' : f.to < g.to => f.mtime <= g.mtime
  <2> SUFFICES ASSUME NEW f \in old', NEW g \in old', f.to < g.to PROVE f.mtime <= g.mtime
    OBVIOUS
  <2>1. CASE f \in old /\ g \in old
    BY <2>1 DEF OrderInv
  <2>2. CASE f \in old /\ g = m
    BY <2>2, <1>4
  <2>3. CASE f = m /\ g \in old
    <3>1. g.to <= m.to /\ g.to \in Nat /\ m.to \in Nat
      BY <2>3, <1>1, <1>2, <1>4, ActiveFile DEF Files
    <3> QED
      BY <3>1, <2>3
  <2>4. CASE f = m /\ g = m
    BY <2>4, <1>1, <1>2
  <2> QED
    BY <2>1, <2>2, <2>3, <2>4, <1>3
<1> QED
  BY <1>5, <1>6, <1>7 DEF OrderInv

\* Opened, server.log is still newer than the other files.
LEMMA OrderOpens ==
    ASSUME TypeOK, OrderInv, NEW f \in Files, Open(f), old' \subseteq old, now' = now,
           f # NoFile => /\ f.name = ActiveName /\ f.from <= f.to /\ f.to = written
                         /\ f.mtime \in 0..now
                         /\ \A g \in old' : Before(g, f)
    PROVE  OrderInv'
<1>1. /\ f = NoFile => active'.from = written /\ active'.mtime = now
      /\ f # NoFile => active' = f
  BY OpenFile
<1>2. now \in Nat /\ written \in Nat /\ \A g \in old : g.to <= written /\ g.mtime <= now
  BY Numbers DEF TypeOK, OrderInv
<1>3. active'.mtime \in 0..now /\ \A g \in old' : Before(g, active')
  BY <1>1, <1>2 DEF Before
<1> QED
  BY <1>3, OrderShrinks

LEMMA OrderStep ==
    ASSUME IInv, Next
    PROVE  OrderInv'
<1> USE DEF IInv
<1>0. TypeOK /\ HandleInv /\ OrderInv /\ AsideInv /\ now \in Nat
  BY Numbers
<1>1. active # NoFile => active.mtime \in 0..now /\ \A f \in old : Before(f, active)
  BY <1>0 DEF OrderInv
<1>2. CASE old' \subseteq old /\ now' \in {now, now + 1} /\ active' \in {active, NoFile}
  BY <1>0, <1>1, <1>2, OrderShrinks
<1>3. CASE Write \/ WriteRotated
  <2>1. handle = "open" /\ Append /\ old' \subseteq old /\ now' = now
    BY <1>0, <1>3 DEF Write, WriteRotated, HandleInv
  <2>2. active # NoFile /\ active'.from = active.from /\ active'.mtime = now
    BY <1>0, <2>1, AppendLine
  <2>3. \A f \in old : f.mtime <= now
    BY <1>0 DEF OrderInv
  <2>4. \A f \in old' : Before(f, active')
    BY <1>1, <2>1, <2>2, <2>3 DEF Before
  <2> QED
    BY <1>0, <2>1, <2>2, <2>4, OrderShrinks
<1>4. CASE RotateMove
  <2>1. now' = now
    BY <1>4 DEF RotateMove
  <2>2. CASE UNCHANGED disk
    BY <2>1, <2>2, <1>2 DEF disk
  <2>3. CASE /\ active # NoFile /\ active' = NoFile
             /\ old' \subseteq old \cup {Moved(active, RotatedName)}
    <3>1. RotatedName \in Int \X Int
      BY Numbers, <1>0 DEF RotatedName
    <3> QED
      BY <3>1, <2>1, <2>3, <1>0, OrderGrows
  <2> QED
    BY <2>2, <2>3, <1>4 DEF RotateMove
<1>5. CASE RotateOpen \/ Restart
  <2>1. Open(active) /\ old' = old /\ now' = now
    BY <1>5 DEF RotateOpen, Restart
  <2> QED
    BY <2>1, <1>0, <1>1, ActiveFile, OrderOpens
<1>6. CASE ClearMove
  <2>1. now' = now /\ active' = NoFile /\ old' \subseteq old \cup {Moved(active, ClearName)}
    BY <1>6 DEF ClearMove
  <2>2. CASE active = NoFile
    BY <2>1, <2>2, <1>2, <1>6 DEF ClearMove
  <2>3. CASE active # NoFile
    <3>1. ClearName \in Int \X Int
      BY Numbers, <1>0 DEF ClearName
    <3> QED
      BY <3>1, <2>1, <2>3, <1>0, OrderGrows
  <2> QED
    BY <2>2, <2>3
<1>7. CASE ClearMoveFails
  <2>1. old' = old /\ now' = now
    BY <1>7 DEF ClearMoveFails
  <2>2. CASE Open(active)
    BY <2>1, <2>2, <1>0, <1>1, ActiveFile, OrderOpens
  <2>3. CASE active' = active
    BY <2>1, <2>3, <1>2
  <2> QED
    BY <2>2, <2>3, <1>7 DEF ClearMoveFails
<1>8. CASE ClearOpen
  <2>1. Open(NoFile) /\ old' = old /\ now' = now
    BY <1>8 DEF ClearOpen
  <2> QED
    BY <2>1, <1>0, ActiveFile, OrderOpens
<1>9. CASE ClearOpenFails
  <2>1. at = "swapped" /\ now' = now
    BY <1>9 DEF ClearOpenFails
  <2>2. CASE UNCHANGED disk
    BY <2>1, <2>2, <1>2 DEF disk
  <2>3. ASSUME NEW f \in old, f.name = ClearName, old' = old \ {f},
               \/ Open(Moved(f, ActiveName))
               \/ active' = Moved(f, ActiveName)
        PROVE  OrderInv'
    <3> DEFINE m == Moved(f, ActiveName)
    <3>1. /\ m \in Files /\ m # NoFile /\ m.name = ActiveName /\ m.from <= m.to /\ m.to = written
          /\ m.from = f.from /\ m.mtime = f.mtime /\ Aside = {f}
      BY <2>1, <2>3, <1>0, PutBack
    <3>2. m.mtime \in 0..now /\ \A g \in old' : Before(g, m)
      BY <3>1, <2>1, <2>3, <1>0 DEF AsideInv, Before
    <3>3. CASE Open(m)
      BY <3>1, <3>2, <3>3, <2>1, <2>3, <1>0, OrderOpens
    <3>4. CASE active' = m
      <4>1. active'.mtime \in 0..now' /\ \A g \in old' : Before(g, active')
        BY <3>2, <3>4, <2>1
      <4> QED
        BY <4>1, <2>1, <2>3, <1>0, OrderShrinks
    <3> QED
      BY <2>3, <3>3, <3>4
  <2> QED
    BY <2>2, <2>3, <1>9 DEF ClearOpenFails, disk
<1>10. CASE \E a \in Admins, c \in Caps : SaveLimit(a, c)
  BY <1>2, <1>10 DEF SaveLimit, disk
<1>11. CASE \/ RotateOpenFails \/ (\E a \in Admins : Configure(a)) \/ Configured \/ ClearCloseFails
            \/ Cleared \/ Tick \/ (\E f \in todo : RemoveFile(f))
  BY <1>2, <1>11
     DEF RotateOpenFails, Configure, Configured, ClearCloseFails, Cleared, Tick, RemoveFile, disk
<1> QED
  BY <1>3, <1>4, <1>5, <1>6, <1>7, <1>8, <1>9, <1>10, <1>11 DEF Next

\* What Clear leaves aside.
LEMMA MovedAside ==
    ASSUME IInv, ClearMove
    PROVE  /\ active = NoFile => Aside' = {} /\ old' = old
           /\ active # NoFile => /\ Aside' = {Moved(active, ClearName)}
                                 /\ old' = old \cup {Moved(active, ClearName)}
           /\ old' \ Aside' = old
<1> USE DEF IInv
<1>1. at = "idle" /\ ClearName' = ClearName /\ faults \in Nat /\ TypeOK
  BY Numbers DEF ClearMove, ClearName
<1>2. ClearName \in Int \X Int /\ ClearName[1] = -1 /\ ClearName[2] = faults
  BY <1>1 DEF ClearName
<1>3. \A f \in old : f.name # ClearName
  BY <1>1, <1>2 DEF NameInv
<1>4. Aside' = {f \in old' : f.name = ClearName}
  BY <1>1 DEF Aside
<1>5. CASE active = NoFile
  <2>1. old' = old
    BY <1>5 DEF ClearMove
  <2> QED
    BY <2>1, <1>3, <1>4, <1>5
<1>6. CASE active # NoFile
  <2>1. old' = old \cup {Moved(active, ClearName)}
    BY <1>6 DEF ClearMove
  <2>2. Moved(active, ClearName).name = ClearName
    BY <1>1, <1>2, ActiveFile, MovedFile
  <2> QED
    BY <2>1, <2>2, <1>3, <1>4, <1>6
<1> QED
  BY <1>5, <1>6

LEMMA AsideStep ==
    ASSUME IInv, Next
    PROVE  AsideInv'
<1> USE DEF IInv
<1>1. CASE ClearMove
  <2>1. /\ active = NoFile => Aside' = {}
        /\ active # NoFile => Aside' = {Moved(active, ClearName)}
        /\ old' \ Aside' = old
    BY <1>1, MovedAside
  <2>2. written' = written /\ faults' = faults /\ now' = now
    BY <1>1 DEF ClearMove
  <2>3. CASE active = NoFile
    BY <2>1, <2>3 DEF AsideInv
  <2>4. CASE active # NoFile
    <3> DEFINE m == Moved(active, ClearName)
    <3>1. /\ m.from = active.from /\ m.to = active.to /\ m.mtime = active.mtime
          /\ active.to = written
      <4>1. ClearName \in Int \X Int
        BY Numbers DEF ClearName
      <4> QED
        BY <4>1, <2>4, ActiveFile, MovedFile
    <3>2. Size(m) <= ActiveMax + faults
      BY <3>1 DEF Size, SizeInv
    <3>3. m.mtime \in 0..now /\ \A f \in old : Before(f, m)
      BY <3>1, <2>4 DEF OrderInv, Before
    <3> HIDE DEF m
    <3>4. Aside' = {m}
      BY <2>1, <2>4 DEF m
    <3>5. m.to = written' /\ Size(m) <= ActiveMax + faults' /\ m.mtime \in 0..now'
      BY <3>1, <3>2, <3>3, <2>2
    <3>6. \A f \in old' \ Aside' : Before(f, m)
      BY <3>3, <2>1
    <3> QED
      BY <3>4, <3>5, <3>6 DEF AsideInv, Size
  <2> QED
    BY <2>3, <2>4
<1>2. CASE \E a \in Admins, c \in Caps : SaveLimit(a, c)
  <2>1. /\ written' = written /\ faults' = faults /\ now' = now /\ at' = at /\ old' = old
    BY <1>2 DEF SaveLimit, disk, operation
  <2>2. Aside' = Aside
    BY <2>1 DEF Aside, ClearName
  <2> QED
    BY <2>1, <2>2 DEF AsideInv, Size, Before
<1>3. CASE at' # "swapped"
  BY <1>3 DEF AsideInv
<1>4. CASE \E f \in todo : RemoveFile(f)
  <2>1. at' # "swapped"
    BY <1>4 DEF RemoveFile, TypeOK, Removing
  <2> QED
    BY <2>1, <1>3
<1> QED
  BY <1>1, <1>2, <1>3, <1>4
     DEF Next, Write, RotateMove, RotateOpen, RotateOpenFails, WriteRotated, Configure, Configured,
         ClearCloseFails, ClearMoveFails, ClearOpen, ClearOpenFails, Cleared, Restart, Tick, operation

LEMMA SizeOpens ==
    ASSUME TypeOK, SizeInv, Open(active)
    PROVE  Size(active') <= Size(active) \/ Size(active') = 0
<1>1. /\ active \in Files
      /\ active = NoFile => active'.from = written /\ active'.to = written
      /\ active # NoFile => active' = active
  BY ActiveFile, OpenFile
<1> QED
  BY <1>1, Numbers DEF Size, Files

LEMMA SizeStep ==
    ASSUME IInv, Next
    PROVE  SizeInv'
<1> USE DEF IInv
<1>0. /\ TypeOK /\ HandleInv /\ SizeInv /\ ActiveMax \in Nat \ {0} /\ faults \in Nat
      /\ Size(active) \in Int /\ Size(NoFile) = 0
  <2>1. Size(active) \in Int
    BY ActiveFile DEF Size, Files
  <2>2. Size(NoFile) = 0
    BY NamesDiffer DEF Size
  <2> QED
    BY <2>1, <2>2, Numbers, Constants
<1>1. CASE active' = active /\ faults' = faults + 1
  <2>1. Size(active') = Size(active)
    BY <1>1
  <2> QED
    BY <2>1, <1>0, <1>1 DEF SizeInv, Size
<1>2. CASE active' = NoFile /\ faults' \in {faults, faults + 1}
  <2>1. Size(active') = 0
    BY <1>0, <1>2
  <2> QED
    BY <2>1, <1>0, <1>2 DEF SizeInv, Size
<1>3. CASE /\ active' = active /\ faults' = faults
           /\ at' \in {"moved", "opened"} \/ handle' = "nil" => at \in {"moved", "opened"} \/ handle = "nil"
  BY <1>0, <1>3 DEF SizeInv, Size
<1>4. CASE Write
  <2>1. handle = "open" /\ Append /\ ~RotationDue /\ at' = "idle" /\ handle' = handle /\ faults' = faults
    BY <1>4 DEF Write, operation
  <2>2. Size(active') = Size(active) + 1 /\ size = Size(active)
    BY <2>1, <1>0, AppendLine
  <2>3. Size(active) < ActiveMax
    BY <2>1, <2>2, <1>0 DEF RotationDue
  <2>4. /\ Size(active') <= ActiveMax + faults'
        /\ ~(at' \in {"moved", "opened"} \/ handle' = "nil")
    BY <2>1, <2>2, <2>3, <1>0
  <2> QED
    BY <2>4 DEF SizeInv, Size
<1>5. CASE WriteRotated
  <2>1. at = "opened" /\ handle = "open" /\ Append /\ at' = "idle" /\ handle' = handle /\ faults' = faults
    BY <1>0, <1>5 DEF WriteRotated, HandleInv
  <2>2. Size(active') = Size(active) + 1
    BY <2>1, <1>0, AppendLine
  <2>3. /\ Size(active') <= ActiveMax + faults'
        /\ ~(at' \in {"moved", "opened"} \/ handle' = "nil")
    BY <2>1, <2>2, <1>0 DEF SizeInv
  <2> QED
    BY <2>3 DEF SizeInv, Size
<1>6. CASE RotateMove
  <2>1. CASE active' = NoFile
    BY <1>2, <1>6, <2>1 DEF RotateMove, Fault
  <2>2. CASE active' = active /\ Fault
    BY <1>1, <2>2 DEF Fault
  <2>3. CASE active' = active /\ active # NoFile /\ handle = "nil" /\ faults' = faults
    BY <1>3, <2>3
  <2> QED
    BY <1>6, <2>1, <2>2, <2>3 DEF RotateMove, disk
<1>7. CASE RotateOpen \/ Restart
  <2>1. Open(active) /\ handle' = "open"
    BY <1>7 DEF RotateOpen, Restart, Open
  <2>2. Size(active') <= Size(active) \/ Size(active') = 0
    BY <2>1, <1>0, SizeOpens
  <2>3. Size(active') \in Int
    <3>1. active' \in Files
      BY <2>1, <1>0, OpenFile, ActiveFile
    <3> QED
      BY <3>1 DEF Size, Files
  <2>4. CASE RotateOpen
    <3>1. at = "moved" /\ faults' = faults
      BY <2>4 DEF RotateOpen
    <3>2. Size(active) + 1 <= ActiveMax + faults
      BY <3>1, <1>0 DEF SizeInv
    <3>3. Size(active') + 1 <= ActiveMax + faults'
      BY <3>1, <3>2, <2>2, <2>3, <1>0
    <3> QED
      BY <3>3, <2>3, <1>0, <3>1 DEF SizeInv, Size
  <2>5. CASE Restart
    <3>1. faults' = faults + 1 /\ at' = "idle"
      BY <2>5 DEF Restart, Fault
    <3>2. Size(active') <= ActiveMax + faults'
      BY <3>1, <2>2, <2>3, <1>0 DEF SizeInv
    <3> QED
      BY <3>1, <3>2, <2>1 DEF SizeInv, Size
  <2> QED
    BY <1>7, <2>4, <2>5
<1>8. CASE ClearMove
  BY <1>2, <1>8 DEF ClearMove
<1>9. CASE ClearMoveFails
  <2>1. active # NoFile /\ faults' = faults + 1
    BY <1>9 DEF ClearMoveFails, Fault
  <2>2. CASE Open(active)
    <3>1. active' = active
      BY <2>1, <2>2, <1>0, OpenFile, ActiveFile
    <3> QED
      BY <3>1, <2>1, <1>1
  <2>3. CASE active' = active
    BY <2>1, <2>3, <1>1
  <2> QED
    BY <1>9, <2>2, <2>3 DEF ClearMoveFails
<1>10. CASE ClearOpen
  <2>1. Open(NoFile) /\ faults' = faults
    BY <1>10 DEF ClearOpen
  <2>2. active'.from = written /\ active'.to = written
    BY <2>1, <1>0, OpenFile, ActiveFile
  <2>3. Size(active') = 0
    BY <2>2, Numbers, <1>0 DEF Size
  <2> QED
    BY <2>1, <2>3, <1>0 DEF SizeInv, Size
<1>11. CASE ClearOpenFails
  <2>1. at = "swapped" /\ faults' = faults + 1
    BY <1>11 DEF ClearOpenFails, Fault
  <2>2. CASE UNCHANGED disk
    BY <2>1, <2>2, <1>1 DEF disk
  <2>3. ASSUME NEW f \in old, f.name = ClearName,
               \/ Open(Moved(f, ActiveName))
               \/ active' = Moved(f, ActiveName)
        PROVE  SizeInv'
    <3> DEFINE m == Moved(f, ActiveName)
    <3>1. /\ m \in Files /\ m # NoFile /\ m.name = ActiveName /\ m.from <= m.to /\ m.to = written
          /\ m.from = f.from /\ m.to = f.to /\ Aside = {f}
      BY <2>1, <2>3, <1>0, PutBack
    <3>2. active' = m
      BY <3>1, <2>3, <1>0, OpenFile
    <3>3. Size(f) <= ActiveMax + faults
      BY <3>1, <2>1 DEF AsideInv
    <3>4. Size(active') <= ActiveMax + faults /\ Size(active') \in Int
      BY <3>1, <3>2, <3>3 DEF Size, Files
    <3> QED
      BY <3>4, <2>1, <1>0 DEF SizeInv, Size
  <2> QED
    BY <2>2, <2>3, <1>11 DEF ClearOpenFails
<1>12. CASE RotateOpenFails
  <2>1. active' = active /\ faults' = faults + 1
    BY <1>12 DEF RotateOpenFails, disk, Fault
  <2> QED
    BY <2>1, <1>1
<1>13. CASE ClearCloseFails
  <2>1. active' = active /\ faults' = faults + 1
    BY <1>13 DEF ClearCloseFails, disk, Fault
  <2> QED
    BY <2>1, <1>1
<1>14. CASE \E a \in Admins, c \in Caps : SaveLimit(a, c)
  BY <1>3, <1>14 DEF SaveLimit, disk, writer, operation
<1>15. CASE (\E a \in Admins : Configure(a)) \/ Configured \/ Cleared \/ Tick
  BY <1>3, <1>15 DEF Configure, Configured, Cleared, Tick, disk, writer, operation
<1>16. CASE \E f \in todo : RemoveFile(f)
  <2>1. /\ active' = active /\ at' = at /\ handle' = handle
        /\ faults' \in {faults, faults + 1}
    BY <1>16 DEF RemoveFile, writer, Fault
  <2> QED
    BY <2>1, <1>1, <1>3
<1> QED
  BY <1>4, <1>5, <1>6, <1>7, <1>8, <1>9, <1>10, <1>11, <1>12, <1>13, <1>14, <1>15, <1>16 DEF Next
-----------------------------------------------------------------------------
(* What a cleanup keeps. *)

\* A set of numbers has a least one.
LEMMA Least ==
    ASSUME NEW T, T \subseteq Nat, T # {}
    PROVE  \E x \in T : \A y \in T : x <= y
<1> DEFINE R == OpToRel(<, Nat)
<1>1. IsWellFoundedOn(R, Nat)
  BY NatLessThanWellFounded
<1>2. \A x, y \in Nat : x < y => <<x, y>> \in R
  BY DEF OpToRel
<1> HIDE DEF R
<1>3. PICK x \in T : \A y \in T : ~ (<<y, x>> \in R)
  BY <1>1, WFMin
<1>4. ASSUME NEW y \in T PROVE x <= y
  <2>1. x \in Nat /\ y \in Nat /\ ~(y < x)
    BY <1>2, <1>3
  <2> QED
    BY <2>1
<1> QED
  BY <1>4

\* Of some files, one ends first and one ends last.
LEMMA FirstFile ==
    ASSUME TypeOK, NEW F, F \subseteq old, F # {}
    PROVE  \E g \in F : \A f \in F : g.to <= f.to
<1> DEFINE T == {f.to : f \in F}
<1>1. T \subseteq Nat /\ T # {}
  BY DEF TypeOK, Files
<1>2. PICK x \in T : \A y \in T : x <= y
  <2> HIDE DEF T
  <2> QED
    BY <1>1, Least
<1> QED
  BY <1>2

LEMMA LastFile ==
    ASSUME TypeOK, NEW F, F \subseteq old, F # {}
    PROVE  \E g \in F : \A f \in F : f.to <= g.to
<1> DEFINE T == {written - f.to : f \in F}
<1>1. \A f \in F : f.to \in Nat /\ written - f.to \in Nat
  BY Numbers DEF TypeOK, Files
<1>2. T \subseteq Nat /\ T # {}
  BY <1>1
<1>3. PICK x \in T : \A y \in T : x <= y
  <2> HIDE DEF T
  <2> QED
    BY <1>2, Least
<1>4. PICK g \in F : x = written - g.to
  BY <1>3
<1>5. \A f \in F : written - g.to <= written - f.to
  BY <1>3, <1>4
<1>6. \A f \in F : f.to <= g.to
  BY <1>1, <1>5, Numbers
<1> QED
  BY <1>6

\* Fewer lines are not more.
LEMMA FewerLines ==
    ASSUME TypeOK, NEW A, NEW B, A \subseteq B, B \subseteq 1..written
    PROVE  Cardinality(A) \in Nat /\ Cardinality(B) \in Nat /\ Cardinality(A) <= Cardinality(B)
<1>1. IsFiniteSet(1..written)
  BY Numbers, FS_Interval
<1>2. IsFiniteSet(B)
  BY <1>1, FS_Subset
<1>3. IsFiniteSet(A) /\ Cardinality(A) <= Cardinality(B)
  BY <1>2, FS_Subset
<1> QED
  BY <1>2, <1>3, FS_CardinalityType

LEMMA LinesOfFiles ==
    ASSUME TypeOK, NEW F, NEW G, F \subseteq G, G \subseteq old
    PROVE  LinesOf(F) \subseteq LinesOf(G) /\ LinesOf(G) \subseteq 1..written
BY OldLines DEF LinesOf

LEMMA TotalGrows ==
    ASSUME TypeOK, NEW F, NEW G, F \subseteq G, G \subseteq old
    PROVE  Total(F) \in Nat /\ Total(G) \in Nat /\ Total(F) <= Total(G)
BY LinesOfFiles, FewerLines DEF Total

LEMMA TotalOfNone == Total({}) = 0
<1>1. LinesOf({}) = {}
  BY DEF LinesOf
<1> QED
  BY <1>1, FS_EmptySet DEF Total

\* A cleanup removes no file that is newer than one it keeps.
LEMMA KeptAreNewest ==
    ASSUME TypeOK, OrderInv, NEW limit \in Nat, NEW other \in Nat,
           NEW g \in Kept(limit, other), NEW f \in old \ Kept(limit, other)
    PROVE  f.to <= g.to
<1>1. /\ f \in old /\ g \in old /\ f.to \in Int /\ g.to \in Int /\ f.mtime \in Int /\ g.mtime \in Int
      /\ now \in Nat /\ Retention * DayLength \in Int
  BY KeptIsOld, Numbers, Constants DEF TypeOK, Files
<1> SUFFICES ASSUME g.to < f.to PROVE FALSE
  BY <1>1
<1>2. g.mtime <= f.mtime
  BY <1>1 DEF OrderInv
<1>3. g \in Young /\ Total(NotOlder(g)) + other <= limit
  BY DEF Kept
<1>4. f \in Young
  BY <1>1, <1>2, <1>3 DEF Young
<1>5. \A h \in NotOlder(f) : h \in NotOlder(g)
  <2> TAKE h \in NotOlder(f)
  <2>1. h \in Young /\ h.to >= f.to /\ h.to \in Int
    BY DEF NotOlder, Young, TypeOK, Files
  <2> QED
    BY <2>1, <1>1 DEF NotOlder
<1>6. NotOlder(f) \subseteq NotOlder(g) /\ NotOlder(g) \subseteq old
  BY <1>5 DEF NotOlder, Young
<1>7. /\ Total(NotOlder(f)) \in Nat /\ Total(NotOlder(g)) \in Nat
      /\ Total(NotOlder(f)) <= Total(NotOlder(g))
  BY <1>6, TotalGrows
<1>8. Total(NotOlder(f)) + other <= limit
  BY <1>3, <1>7
<1> QED
  BY <1>4, <1>8 DEF Kept

\* What a cleanup keeps fits into the limit.
LEMMA KeptFits ==
    ASSUME TypeOK, NEW limit \in Nat, NEW other \in Nat
    PROVE  Total(Kept(limit, other)) <= limit
<1> DEFINE K == Kept(limit, other)
<1>1. CASE K = {}
  BY <1>1, TotalOfNone
<1>2. CASE K # {}
  <2>1. PICK g \in K : \A f \in K : g.to <= f.to
    <3>1. K \subseteq old
      BY KeptIsOld
    <3> HIDE DEF K
    <3> QED
      BY <1>2, <3>1, FirstFile
  <2>2. Total(NotOlder(g)) + other <= limit
    BY DEF Kept
  <2>3. \A f \in K : f \in Young /\ f \in old /\ f.to \in Int /\ g.to \in Int
    BY KeptIsOld DEF Kept, TypeOK, Files
  <2>4. K \subseteq NotOlder(g) /\ NotOlder(g) \subseteq old
    BY <2>1, <2>3 DEF NotOlder, Young
  <2>5. Total(K) \in Nat /\ Total(NotOlder(g)) \in Nat /\ Total(K) <= Total(NotOlder(g))
    BY <2>4, TotalGrows
  <2> QED
    BY <2>2, <2>5
<1> QED
  BY <1>1, <1>2
-----------------------------------------------------------------------------
(* The log is the newest part of what was written. *)

LEMMA DiskLines ==
    /\ OnDisk = LinesOf(old) \cup Lines(active)
    /\ Lines(NoFile) = {}
<1>1. OnDisk = LinesOf(old) \cup Lines(active)
  BY DEF OnDisk, LinesOf
<1>2. Lines(NoFile) = {}
  BY NamesDiffer DEF Lines
<1> QED
  BY <1>1, <1>2

\* A cleanup chooses the oldest lines.
LEMMA ChosenIsOldest ==
    ASSUME TypeOK, OrderInv, KeepsNewest, todo = {}, NEW limit \in Nat, NEW other \in Nat,
           NEW gone, gone = old \ Kept(limit, other)
    PROVE  \E n \in cleared..written :
              /\ ((n + 1)..written) \ replaced \subseteq OnDisk
              /\ OnDisk \cap (1..n) \subseteq spared \cup replaced \cup LinesOf(gone)
              /\ LinesOf(gone) \subseteq 1..n
<1> DEFINE K == Kept(limit, other)
           R == {f \in gone : f.from < f.to}
<1>1. PICK k \in cleared..written :
         /\ ((k + 1)..written) \ replaced \subseteq OnDisk
         /\ OnDisk \cap (1..k) \subseteq spared \cup replaced
  BY DEF KeepsNewest, LinesOf
<1>2. /\ K \subseteq old /\ written \in Nat /\ cleared \in Nat /\ k \in Nat /\ k <= written /\ cleared <= k
      /\ \A f \in old : f.from \in Nat /\ f.to \in Nat /\ f.from <= f.to /\ f.to <= written
      /\ gone = old \ K
  BY Numbers, KeptIsOld DEF TypeOK, Files
<1>3. \A g \in K : \A f \in gone : f.to <= g.to
  BY KeptAreNewest
<1> HIDE DEF K
<1>4. OnDisk = LinesOf(old) \cup Lines(active)
  BY DiskLines
<1>5. \A x \in LinesOf(gone) : \E f \in R : x \in Lines(f)
  <2> SUFFICES ASSUME NEW f \in gone, NEW x \in Lines(f) PROVE f \in R
    BY DEF LinesOf
  <2>1. f.from < f.to
    BY <1>2 DEF Lines
  <2> QED
    BY <2>1
<1>6. CASE R = {}
  <2>1. LinesOf(gone) = {}
    BY <1>5, <1>6
  <2> QED
    BY <1>1, <2>1
<1>7. CASE R # {}
  <2>1. PICK r \in R : \A f \in R : f.to <= r.to
    <3>1. R \subseteq old
      BY <1>2
    <3> HIDE DEF R
    <3> QED
      BY <1>7, <3>1, LastFile
  <2>2. /\ r \in old /\ r \notin K /\ r \in gone /\ r.from < r.to
        /\ r.to \in Nat /\ r.from \in Nat /\ r.to <= written
    BY <1>2
  <2> DEFINE n == IF k < r.to THEN r.to ELSE k
  <2>3. n \in cleared..written /\ n \in Nat /\ k <= n /\ r.to <= n /\ (n = k \/ n = r.to)
    BY <1>2, <2>2
  <2> HIDE DEF n
  <2>4. ((n + 1)..written) \ replaced \subseteq OnDisk
    BY <1>1, <1>2, <2>3
  <2>5. LinesOf(gone) \subseteq 1..n
    <3> SUFFICES ASSUME NEW x \in LinesOf(gone) PROVE x \in 1..n
      OBVIOUS
    <3>1. PICK f \in R : x \in Lines(f)
      BY <1>5
    <3>2. f.to <= r.to /\ f.from \in Nat /\ f.to \in Nat
      BY <1>2, <2>1
    <3> QED
      BY <2>2, <2>3, <3>1, <3>2 DEF Lines
  <2>6. ASSUME NEW x \in OnDisk, x \in 1..n, x \notin LinesOf(gone)
        PROVE  x \in spared \cup replaced
    <3>1. x > r.to
      <4>1. ASSUME NEW g \in K, x \in Lines(g) PROVE x > r.to
        <5>1. /\ g \in old /\ r.to <= g.to /\ g # r /\ g.from \in Nat /\ g.to \in Nat
          BY <1>2, <1>3, <2>2
        <5>2. g.to <= r.from \/ r.to <= g.from
          BY <5>1, <2>2 DEF OrderInv
        <5>3. r.to <= g.from
          BY <5>1, <5>2, <2>2
        <5> QED
          BY <4>1, <5>1, <5>3, <2>2 DEF Lines
      <4>2. ASSUME x \in Lines(active) PROVE x > r.to
        <5>1. active # NoFile
          BY <4>2, DiskLines
        <5>2. r.to <= active.from /\ active.from \in Nat /\ active.to \in Nat
          BY <5>1, <2>2, ActiveFile DEF OrderInv, Before, Files
        <5> QED
          BY <4>2, <5>2, <2>2 DEF Lines
      <4>3. x \in Lines(active) \/ \E g \in K : x \in Lines(g)
        BY <1>2, <1>4, <2>6 DEF LinesOf
      <4> QED
        BY <4>1, <4>2, <4>3
    <3>2. x \in 1..k
      BY <2>2, <2>3, <2>6, <3>1, <1>2
    <3> QED
      BY <1>1, <3>2
  <2> QED
    BY <2>3, <2>4, <2>5, <2>6
<1> QED
  BY <1>6, <1>7

\* Nothing of it changes.
LEMMA SameLines ==
    ASSUME KeepsNewest, OnDisk' = OnDisk, written' = written, cleared' = cleared, todo' = todo,
           replaced' = replaced, spared' = spared
    PROVE  KeepsNewest'
  BY DEF KeepsNewest, LinesOf, Lines

\* A line is added.
LEMMA LineAdded ==
    ASSUME TypeOK, KeepsNewest, handle = "open", Append, old' = old, todo' = todo,
           cleared' = cleared, replaced' = replaced, spared' = spared
    PROVE  KeepsNewest'
<1>1. PICK k \in cleared..written :
         /\ ((k + 1)..written) \ replaced \subseteq OnDisk
         /\ OnDisk \cap (1..k) \subseteq spared \cup replaced \cup LinesOf(todo)
         /\ LinesOf(todo) \subseteq 1..k
  BY DEF KeepsNewest
<1>2. written \in Nat /\ cleared \in Nat /\ k \in Nat /\ k <= written /\ written' = written + 1
  BY Numbers, AppendLine DEF TypeOK
<1>3. Lines(active') = Lines(active) \cup {written + 1}
  <2>1. /\ active.from \in Nat /\ active.from <= active.to /\ active.to = written
        /\ active'.from = active.from /\ active'.to = written + 1
    BY AppendLine
  <2> QED
    BY <2>1, <1>2 DEF Lines
<1>4. OnDisk' = OnDisk \cup {written + 1}
  <2>1. OnDisk' = LinesOf(old) \cup Lines(active')
    BY DEF OnDisk, LinesOf, Lines
  <2> QED
    BY <2>1, <1>3, DiskLines
<1>5. ((k + 1)..written') \ replaced' \subseteq OnDisk'
  BY <1>1, <1>2, <1>4
<1>6. OnDisk' \cap (1..k) \subseteq spared' \cup replaced' \cup LinesOf(todo)
  BY <1>1, <1>2, <1>4
<1>7. k \in cleared'..written' /\ LinesOf(todo)' = LinesOf(todo)
  BY <1>2 DEF LinesOf, Lines
<1> QED
  BY <1>1, <1>5, <1>6, <1>7 DEF KeepsNewest

\* An open neither adds nor takes lines.
LEMMA OpenLines ==
    ASSUME TypeOK, NEW f \in Files, Open(f),
           f # NoFile => f.name = ActiveName /\ f.from <= f.to /\ f.to = written
    PROVE  Lines(active') = Lines(f)
<1>1. CASE f = NoFile
  <2>1. active'.from = written /\ active'.to = written
    BY <1>1, OpenFile
  <2>2. Lines(active') = {}
    BY <2>1, Numbers DEF Lines
  <2> QED
    BY <2>2, <1>1, DiskLines
<1>2. CASE f # NoFile
  BY <1>2, OpenFile
<1> QED
  BY <1>1, <1>2

LEMMA DiskLinesAfter == OnDisk' = LinesOf(old') \cup Lines(active')
  BY DEF OnDisk, LinesOf, Lines

LEMMA KeepsStep ==
    ASSUME IInv, Next
    PROVE  KeepsNewest'
<1> USE DEF IInv
<1>0. TypeOK /\ HandleInv /\ OrderInv /\ AsideInv /\ KeepsNewest
  OBVIOUS
<1>1. CASE Write \/ WriteRotated
  <2>1. /\ handle = "open" /\ Append /\ old' = old /\ todo' = todo
        /\ cleared' = cleared /\ replaced' = replaced /\ spared' = spared
    BY <1>0, <1>1 DEF Write, WriteRotated, HandleInv, operation, history
  <2> QED
    BY <2>1, <1>0, LineAdded
<1>2. ASSUME NEW limit \in Nat, NEW other \in Nat, todo = {}, todo' = old \ Kept(limit, other),
             OnDisk' = OnDisk, written' = written, UNCHANGED history
      PROVE  KeepsNewest'
  <2> DEFINE gone == old \ Kept(limit, other)
  <2>1. PICK n \in cleared..written :
              /\ ((n + 1)..written) \ replaced \subseteq OnDisk
              /\ OnDisk \cap (1..n) \subseteq spared \cup replaced \cup LinesOf(gone)
              /\ LinesOf(gone) \subseteq 1..n
    BY <1>0, <1>2, ChosenIsOldest
  <2> HIDE DEF gone
  <2>2. todo' = gone
    BY <1>2 DEF gone
  <2>3. LinesOf(todo)' = LinesOf(gone)
    BY <2>2 DEF LinesOf, Lines
  <2> QED
    BY <1>2, <2>1, <2>3 DEF KeepsNewest, history
<1>3. CASE \E a \in Admins : Configure(a)
  <2>1. PICK a \in Admins : Configure(a)
    BY <1>3
  <2> DEFINE other == IF active = NoFile THEN 0 ELSE Size(active)
  <2>2. /\ todo' = old \ Kept(saved[a], other) /\ active' = active /\ old' = old
        /\ written' = written /\ UNCHANGED history /\ at = "idle"
    BY <2>1 DEF Configure, disk
  <2>3. saved[a] \in Nat /\ todo = {}
    BY <2>1, <2>2, <1>0, Constants DEF Configure, TypeOK, Removing
  <2>4. other \in Nat
    BY <1>0, ActiveFile DEF Size, Files
  <2> HIDE DEF other
  <2>5. OnDisk' = OnDisk
    BY <2>2, DiskLines, DiskLinesAfter
  <2> QED
    BY <2>2, <2>3, <2>4, <2>5, <1>2
<1>4. CASE RotateMove
  <2>1. /\ written' = written /\ cleared' = cleared /\ spared' = spared
        /\ todo' = todo /\ todo = {} /\ LinesOf(todo) = {}
    BY <1>0, <1>4 DEF RotateMove, TypeOK, Removing, LinesOf
  <2>2. CASE UNCHANGED disk /\ replaced' = replaced
    <3>1. old' = old /\ active' = active
      BY <2>2 DEF disk
    <3>2. OnDisk' = OnDisk
      BY <3>1, DiskLines, DiskLinesAfter
    <3> QED
      BY <3>2, <2>1, <2>2, <1>0, SameLines
  <2>3. CASE /\ active # NoFile /\ active' = NoFile
             /\ LET same == {f \in old : f.name = RotatedName}
                IN  /\ old' = (old \ same) \cup {Moved(active, RotatedName)}
                    /\ replaced' = replaced \cup UNION {Lines(f) : f \in same}
    <3> DEFINE same == {f \in old : f.name = RotatedName}
               m == Moved(active, RotatedName)
    <3>1. Lines(m) = Lines(active)
      <4>1. RotatedName \in Int \X Int
        BY <1>0, Numbers DEF RotatedName
      <4> QED
        BY <4>1, <1>0, ActiveFile, MovedFile
    <3>2. /\ old' = (old \ same) \cup {m}
          /\ replaced' = replaced \cup LinesOf(same)
          /\ Lines(active') = {}
      BY <2>3, DiskLines DEF LinesOf
    <3>3. same \subseteq old
      OBVIOUS
    <3> HIDE DEF same, m
    <3>4. LinesOf(old') = LinesOf(old \ same) \cup Lines(m)
      BY <3>2 DEF LinesOf
    <3>5. LinesOf(old) = LinesOf(old \ same) \cup LinesOf(same)
      BY <3>3 DEF LinesOf
    <3>6. OnDisk' = LinesOf(old \ same) \cup Lines(active)
      BY <3>1, <3>2, <3>4, DiskLinesAfter
    <3>7. OnDisk = LinesOf(old \ same) \cup LinesOf(same) \cup Lines(active)
      BY <3>5, DiskLines
    <3>8. PICK k \in cleared..written :
             /\ ((k + 1)..written) \ replaced \subseteq OnDisk
             /\ OnDisk \cap (1..k) \subseteq spared \cup replaced
      BY <1>0, <2>1 DEF KeepsNewest
    <3>9. /\ ((k + 1)..written) \ replaced' \subseteq OnDisk'
          /\ OnDisk' \cap (1..k) \subseteq spared \cup replaced'
      BY <3>2, <3>6, <3>7, <3>8
    <3>10. LinesOf(todo)' = {}
      BY <2>1 DEF LinesOf
    <3> QED
      BY <3>8, <3>9, <3>10, <2>1 DEF KeepsNewest
  <2> QED
    BY <1>4, <2>2, <2>3 DEF RotateMove
<1>5. CASE RotateOpen \/ Restart
  <2>1. Open(active) /\ old' = old /\ written' = written
    BY <1>5 DEF RotateOpen, Restart
  <2>2. Lines(active') = Lines(active)
    BY <2>1, <1>0, ActiveFile, OpenLines
  <2>3. OnDisk' = OnDisk
    BY <2>1, <2>2, DiskLines, DiskLinesAfter
  <2>4. CASE RotateOpen
    <3>1. todo = {} /\ todo' = old \ Kept(max, 0) /\ UNCHANGED history /\ max \in Nat /\ 0 \in Nat
      BY <1>0, <2>4, Numbers DEF RotateOpen, TypeOK, Removing
    <3> QED
      BY <2>1, <2>3, <3>1, <1>2
  <2>5. CASE Restart
    <3>1. /\ cleared' = cleared /\ replaced' = replaced /\ spared' = spared \cup LinesOf(todo)
          /\ LinesOf(todo)' = {}
      BY <2>5 DEF Restart, LinesOf
    <3> QED
      BY <1>0, <2>1, <2>3, <3>1 DEF KeepsNewest
  <2> QED
    BY <1>5, <2>4, <2>5
<1>6. CASE ClearMove
  <2>1. /\ active' = NoFile /\ written' = written /\ cleared' = cleared /\ replaced' = replaced
        /\ todo' = todo /\ spared' = spared
    BY <1>6 DEF ClearMove, history
  <2>2. CASE active = NoFile
    <3>1. old' = old
      BY <1>6, <2>2 DEF ClearMove
    <3>2. OnDisk' = OnDisk
      BY <3>1, <2>1, <2>2, DiskLines, DiskLinesAfter
    <3> QED
      BY <3>2, <2>1, <1>0, SameLines
  <2>3. CASE active # NoFile
    <3> DEFINE m == Moved(active, ClearName)
    <3>1. old' = old \cup {m}
      BY <1>6, <2>3 DEF ClearMove
    <3>2. Lines(m) = Lines(active)
      <4>1. ClearName \in Int \X Int
        BY <1>0, Numbers DEF ClearName
      <4> QED
        BY <4>1, <1>0, ActiveFile, MovedFile
    <3> HIDE DEF m
    <3>3. LinesOf(old') = LinesOf(old) \cup Lines(active)
      BY <3>1, <3>2 DEF LinesOf
    <3>4. OnDisk' = OnDisk
      BY <3>3, <2>1, DiskLines, DiskLinesAfter
    <3> QED
      BY <3>4, <2>1, <1>0, SameLines
  <2> QED
    BY <2>2, <2>3
<1>7. CASE ClearMoveFails
  <2>1. /\ old' = old /\ written' = written /\ cleared' = cleared /\ replaced' = replaced
        /\ todo' = todo /\ spared' = spared
    BY <1>7 DEF ClearMoveFails, history, operation
  <2>2. Lines(active') = Lines(active)
    <3>1. CASE Open(active)
      BY <3>1, <1>0, ActiveFile, OpenLines
    <3>2. CASE active' = active
      BY <3>2
    <3> QED
      BY <3>1, <3>2, <1>7 DEF ClearMoveFails
  <2>3. OnDisk' = OnDisk
    BY <2>1, <2>2, DiskLines, DiskLinesAfter
  <2> QED
    BY <2>1, <2>3, <1>0, SameLines
<1>8. CASE ClearOpen
  <2>1. /\ Open(NoFile) /\ old' = old /\ written' = written /\ active = NoFile
        /\ cleared' = written /\ todo' = old
    BY <1>0, <1>8 DEF ClearOpen, HandleInv
  <2>2. Lines(active') = {}
    BY <2>1, <1>0, ActiveFile, OpenLines, DiskLines
  <2>3. LinesOf(todo)' = LinesOf(old)
    BY <2>1 DEF LinesOf, Lines
  <2>4. OnDisk' = LinesOf(old)
    BY <2>1, <2>2, DiskLinesAfter
  <2>5. LinesOf(old) \subseteq 1..written
    BY <1>0, LinesOfFiles
  <2>6. written \in cleared'..written' /\ (written + 1)..written' = {}
    BY <2>1, <1>0, Numbers
  <2> QED
    BY <2>3, <2>4, <2>5, <2>6 DEF KeepsNewest
<1>9. CASE ClearOpenFails
  <2>1. /\ at = "swapped" /\ written' = written /\ cleared' = cleared /\ replaced' = replaced
        /\ active = NoFile /\ todo' = todo /\ spared' = spared
    BY <1>0, <1>9 DEF ClearOpenFails, history, HandleInv
  <2>2. CASE UNCHANGED disk
    <3>1. old' = old /\ active' = active
      BY <2>2 DEF disk
    <3>2. OnDisk' = OnDisk
      BY <3>1, DiskLines, DiskLinesAfter
    <3> QED
      BY <3>2, <2>1, <1>0, SameLines
  <2>3. ASSUME NEW f \in old, f.name = ClearName, old' = old \ {f},
               \/ Open(Moved(f, ActiveName))
               \/ active' = Moved(f, ActiveName)
        PROVE  KeepsNewest'
    <3> DEFINE m == Moved(f, ActiveName)
    <3>1. /\ m \in Files /\ m # NoFile /\ m.name = ActiveName /\ m.from <= m.to /\ m.to = written
          /\ Lines(m) = Lines(f)
      BY <2>1, <2>3, <1>0, PutBack
    <3>2. active' = m
      BY <3>1, <2>3, <1>0, OpenFile
    <3>3. LinesOf(old) = LinesOf(old') \cup Lines(f)
      BY <2>3 DEF LinesOf
    <3> HIDE DEF m
    <3>4. OnDisk' = OnDisk
      BY <3>1, <3>2, <3>3, <2>1, DiskLines, DiskLinesAfter
    <3> QED
      BY <3>4, <2>1, <1>0, SameLines
  <2> QED
    BY <2>2, <2>3, <1>9 DEF ClearOpenFails
<1>10. CASE \E f \in todo : RemoveFile(f)
  <2>1. PICK f \in todo : RemoveFile(f)
    BY <1>10
  <2>2. /\ todo' = todo \ {f} /\ f \in old /\ todo \subseteq old
        /\ written' = written /\ cleared' = cleared /\ replaced' = replaced
        /\ active' = active
    BY <2>1, <1>0 DEF RemoveFile, TypeOK
  <2>3. LinesOf(todo)' = LinesOf(todo \ {f}) /\ LinesOf(todo) = LinesOf(todo \ {f}) \cup Lines(f)
    BY <2>2 DEF LinesOf, Lines
  <2>4. PICK k \in cleared..written :
           /\ ((k + 1)..written) \ replaced \subseteq OnDisk
           /\ OnDisk \cap (1..k) \subseteq spared \cup replaced \cup LinesOf(todo)
           /\ LinesOf(todo) \subseteq 1..k
    BY <1>0 DEF KeepsNewest
  <2>5. CASE old' = old \ {f} /\ spared' = spared
    <3>1. OnDisk' = LinesOf(old \ {f}) \cup Lines(active) /\ OnDisk = OnDisk' \cup Lines(f)
      BY <2>2, <2>5, DiskLines, DiskLinesAfter DEF LinesOf
    <3>2. OnDisk' \cap Lines(f) = {}
      <4>1. ASSUME NEW g \in old \ {f}, NEW x \in Lines(g), x \in Lines(f) PROVE FALSE
        <5>1. f.to <= g.from \/ g.to <= f.from
          BY <1>0, <2>2, <4>1 DEF OrderInv
        <5>2. /\ f.to \in Nat /\ f.from \in Nat /\ g.to \in Nat /\ g.from \in Nat
          BY <1>0, <2>2, <4>1 DEF TypeOK, Files
        <5> QED
          BY <4>1, <5>1, <5>2 DEF Lines
      <4>2. ASSUME NEW x \in Lines(active), x \in Lines(f) PROVE FALSE
        <5>1. active # NoFile
          BY <4>2, DiskLines
        <5>2. /\ f.to <= active.from /\ f.to \in Nat /\ f.from \in Nat
              /\ active.from \in Nat /\ active.to \in Nat
          BY <1>0, <2>2, <5>1 DEF OrderInv, Before, TypeOK, Files
        <5> QED
          BY <4>2, <5>2 DEF Lines
      <4> QED
        BY <3>1, <4>1, <4>2 DEF LinesOf
    <3>3. ((k + 1)..written) \ replaced \subseteq OnDisk'
      <4>1. \A x \in Lines(f) : x \in 1..k
        BY <2>3, <2>4
      <4>2. \A x \in (k + 1)..written : x \notin 1..k
        BY <1>0, Numbers
      <4> QED
        BY <2>4, <3>1, <4>1, <4>2
    <3>4. OnDisk' \cap (1..k) \subseteq spared \cup replaced \cup LinesOf(todo \ {f})
      BY <2>3, <2>4, <3>1, <3>2
    <3> QED
      BY <2>2, <2>3, <2>4, <2>5, <3>3, <3>4 DEF KeepsNewest
  <2>6. CASE old' = old /\ spared' = spared \cup Lines(f)
    <3>1. OnDisk' = OnDisk
      BY <2>2, <2>6, DiskLines, DiskLinesAfter
    <3> QED
      BY <2>2, <2>3, <2>4, <2>6, <3>1 DEF KeepsNewest
  <2> QED
    BY <2>1, <2>5, <2>6 DEF RemoveFile
<1>11. CASE \/ RotateOpenFails \/ (\E a \in Admins, c \in Caps : SaveLimit(a, c)) \/ ClearCloseFails
            \/ Tick \/ Configured \/ Cleared
  <2>1. /\ old' = old /\ active' = active /\ written' = written /\ todo' = todo
        /\ cleared' = cleared /\ replaced' = replaced /\ spared' = spared
    BY <1>11 DEF RotateOpenFails, SaveLimit, ClearCloseFails, Tick, Configured, Cleared, disk,
                 operation, history
  <2>2. OnDisk' = OnDisk
    BY <2>1, DiskLines, DiskLinesAfter
  <2> QED
    BY <2>1, <2>2, <1>0, SameLines
<1> QED
  BY <1>1, <1>3, <1>4, <1>5, <1>6, <1>7, <1>8, <1>9, <1>10, <1>11 DEF Next

-----------------------------------------------------------------------------
(* The old files fit into the limit. *)

\* Files that fit whole fit without their spared lines.
LEMMA LeftOfFitting ==
    ASSUME TypeOK, NEW F, F \subseteq old
    PROVE  Left(F) <= Total(F)
<1>1. LinesOf(F) \subseteq 1..written /\ LinesOf(F) \ spared \subseteq LinesOf(F)
  BY LinesOfFiles
<1> HIDE DEF LinesOf
<1>2. /\ Cardinality(LinesOf(F) \ spared) <= Cardinality(LinesOf(F))
  BY <1>1, FewerLines
<1> QED
  BY <1>2 DEF Left, Total

\* Once chosen, the files that are kept fit.
LEMMA ChosenFits ==
    ASSUME TypeOK, NEW limit \in Nat, NEW other \in Nat, old' = old, spared' = spared,
           todo' = old \ Kept(limit, other)
    PROVE  Left(old \ todo)' <= limit
<1> DEFINE K == Kept(limit, other)
<1>1. K \subseteq old /\ old' \ todo' = K
  BY KeptIsOld
<1>2. Total(K) <= limit /\ Total(K) \in Nat
  BY <1>1, KeptFits, TotalGrows
<1>3. Left(K) <= Total(K) /\ Left(K) \in Nat
  <2>1. LinesOf(K) \subseteq 1..written
    BY <1>1, LinesOfFiles
  <2>2. LinesOf(K) \ spared \subseteq LinesOf(K)
    OBVIOUS
  <2>3. Cardinality(LinesOf(K) \ spared) \in Nat
    BY <2>1, <2>2, FewerLines
  <2> QED
    BY <1>1, <2>3, LeftOfFitting DEF Left
<1> HIDE DEF K
<1>4. Left(old \ todo)' = Left(K)
  BY <1>1 DEF Left, LinesOf, Lines
<1> QED
  BY <1>2, <1>3, <1>4

LEMMA FitStep ==
    ASSUME IInv, Next
    PROVE  FitInv'
<1> USE DEF IInv
<1>0. TypeOK /\ FitInv /\ AsideInv /\ max \in Nat
  BY Numbers
<1>1. CASE at' = "moved" \/ (at' = "idle" /\ unclean' = TRUE)
  BY <1>1 DEF FitInv
<1>2. ASSUME at' = "idle", ~unclean' => Left(old)' <= max'
      PROVE  FitInv'
  BY <1>2 DEF FitInv
<1>3. CASE /\ at' = "idle" /\ at = "idle" /\ old' = old /\ max' = max
           /\ unclean' = unclean /\ spared' = spared
  <2>1. Left(old)' = Left(old)
    BY <1>3 DEF Left, LinesOf, Lines
  <2> QED
    BY <1>0, <1>2, <1>3, <2>1 DEF FitInv
<1>4. CASE WriteRotated \/ Configured
  <2>1. /\ at' = "idle" /\ at \in {"opened", "limited"} /\ todo = {} /\ old' = old /\ max' = max
        /\ spared' = spared
    BY <1>4 DEF WriteRotated, Configured, disk, writer
  <2>2. old \ todo = old /\ Left(old)' = Left(old)
    BY <2>1 DEF Left, LinesOf, Lines
  <2>3. Left(old) <= max
    BY <1>0, <2>1, <2>2 DEF FitInv
  <2> QED
    BY <1>2, <2>1, <2>2, <2>3
<1>5. CASE ClearMove
  <2>1. /\ at = "idle" /\ at' = "swapped" /\ max' = max /\ unclean' = unclean /\ old' \ Aside' = old
        /\ spared' = spared
    BY <1>5, MovedAside DEF ClearMove, writer, history
  <2>2. Left(old \ Aside)' = Left(old)
    BY <2>1 DEF Left, LinesOf, Lines
  <2>3. ~unclean' => Left(old \ Aside)' <= max'
    BY <2>1, <2>2, <1>0 DEF FitInv
  <2> QED
    BY <2>1, <2>3 DEF FitInv
<1>6. CASE ClearOpenFails
  <2>1. at = "swapped" /\ at' = "idle" /\ max' = max /\ unclean' = unclean /\ spared' = spared
    BY <1>6 DEF ClearOpenFails, history
  <2>2. old' = old \ Aside
    <3>1. CASE {f \in old : f.name = ClearName} = {} /\ old' = old
      BY <3>1 DEF Aside
    <3>2. ASSUME NEW f \in old, f.name = ClearName, old' = old \ {f} PROVE old' = old \ Aside
      BY <2>1, <3>2, <1>0, PutBack
    <3> QED
      BY <3>1, <3>2, <1>6 DEF ClearOpenFails, disk
  <2>3. Left(old)' = Left(old \ Aside)
    BY <2>1, <2>2 DEF Left, LinesOf, Lines
  <2>4. ~unclean' => Left(old)' <= max'
    BY <2>1, <2>3, <1>0 DEF FitInv
  <2> QED
    BY <1>2, <2>1, <2>4
<1>7. CASE Cleared
  <2>1. at' = "idle" /\ at = "fresh" /\ todo = {} /\ old' = old /\ max' = max /\ spared' = spared
    BY <1>7 DEF Cleared, disk, writer
  <2>2. LinesOf(old) \subseteq spared
    <3>1. old \ todo = old
      BY <2>1
    <3> QED
      BY <1>0, <2>1, <3>1 DEF FitInv
  <2>3. Left(old)' = Cardinality({})
    <3>1. LinesOf(old)' \ spared' = {}
      BY <2>1, <2>2 DEF LinesOf, Lines
    <3> QED
      BY <3>1 DEF Left
  <2> QED
    BY <1>0, <1>2, <2>1, <2>3, FS_EmptySet
<1>8. CASE \E a \in Admins, c \in Caps : SaveLimit(a, c)
  <2>1. /\ at' = at /\ old' = old /\ max' = max /\ unclean' = unclean /\ faults' = faults
        /\ todo' = todo /\ spared' = spared
    BY <1>8 DEF SaveLimit, disk, writer, operation, history
  <2>2. /\ Left(old)' = Left(old) /\ Left(old \ Aside)' = Left(old \ Aside)
        /\ Left(old \ todo)' = Left(old \ todo) /\ LinesOf(old \ todo)' = LinesOf(old \ todo)
    BY <2>1 DEF Left, LinesOf, Lines, Aside, ClearName
  <2> QED
    BY <2>1, <2>2, <1>0 DEF FitInv
<1>9. CASE Restart
  <2>1. /\ at' = "idle" /\ old' = old /\ max' = cap
        /\ unclean' = (unclean \/ at # "idle" \/ cap # max)
        /\ spared' = spared \cup LinesOf(todo)
    BY <1>9 DEF Restart
  <2>2. ASSUME ~unclean' PROVE Left(old)' <= max'
    <3>1. at = "idle" /\ ~unclean /\ max' = max /\ todo = {}
      BY <1>0, <2>1, <2>2 DEF TypeOK, Removing
    <3>2. spared' = spared
      BY <2>1, <3>1 DEF LinesOf
    <3>3. Left(old)' = Left(old)
      BY <2>1, <3>2 DEF Left, LinesOf, Lines
    <3> QED
      BY <1>0, <3>1, <3>3 DEF FitInv
  <2> QED
    BY <1>2, <2>1, <2>2
<1>10. CASE RotateMove \/ RotateOpenFails
  BY <1>1, <1>10 DEF RotateMove, RotateOpenFails
<1>11. CASE Write \/ ClearCloseFails \/ ClearMoveFails \/ Tick
  <2>1. /\ at = "idle" /\ at' = "idle" /\ old' = old /\ max' = max /\ unclean' = unclean
        /\ spared' = spared
    BY <1>11 DEF Write, ClearCloseFails, ClearMoveFails, Tick, disk, writer, operation, history
  <2> QED
    BY <2>1, <1>3
<1>12. CASE RotateOpen
  <2>1. /\ at' = "opened" /\ todo' = old \ Kept(max, 0) /\ old' = old /\ max' = max
        /\ spared' = spared /\ 0 \in Nat
    BY <1>12 DEF RotateOpen, history
  <2>2. Left(old \ todo)' <= max
    BY <1>0, <2>1, ChosenFits
  <2> QED
    BY <2>1, <2>2 DEF FitInv
<1>13. CASE \E a \in Admins : Configure(a)
  <2>1. PICK a \in Admins : Configure(a)
    BY <1>13
  <2> DEFINE other == IF active = NoFile THEN 0 ELSE Size(active)
  <2>2. /\ at' = "limited" /\ todo' = old \ Kept(saved[a], other) /\ max' = saved[a]
        /\ old' = old /\ spared' = spared
    BY <2>1 DEF Configure, disk, history
  <2>3. saved[a] \in Nat
    BY <2>1, <1>0, Constants DEF Configure, TypeOK
  <2>4. other \in Nat
    BY <1>0, ActiveFile DEF Size, Files
  <2> HIDE DEF other
  <2>5. Left(old \ todo)' <= max'
    BY <1>0, <2>2, <2>3, <2>4, ChosenFits
  <2> QED
    BY <2>2, <2>5 DEF FitInv
<1>14. CASE ClearOpen
  <2>1. at' = "fresh" /\ todo' = old' /\ spared' = spared
    BY <1>14 DEF ClearOpen
  <2>2. LinesOf(old \ todo)' = {}
    BY <2>1 DEF LinesOf
  <2> QED
    BY <2>1, <2>2 DEF FitInv
<1>15. CASE \E f \in todo : RemoveFile(f)
  <2>1. PICK f \in todo : RemoveFile(f)
    BY <1>15
  <2>2. /\ todo' = todo \ {f} /\ f \in old /\ todo \subseteq old /\ at' = at /\ max' = max
        /\ at \in Removing /\ at # "idle" /\ at # "swapped"
        /\ old' \in {old, old \ {f}} /\ spared' \in {spared, spared \cup Lines(f)}
        /\ old' = old => spared' = spared \cup Lines(f)
    BY <2>1, <1>0 DEF RemoveFile, TypeOK, Removing, writer
  <2>3. LinesOf(old \ todo)' \subseteq LinesOf(old \ todo) \cup Lines(f)
        /\ (old' # old => LinesOf(old \ todo)' = LinesOf(old \ todo))
    BY <2>2 DEF LinesOf, Lines
  <2>4. LinesOf(old \ todo)' \ spared' \subseteq LinesOf(old \ todo) \ spared
    BY <2>2, <2>3
  <2>5. CASE at = "fresh"
    BY <1>0, <2>2, <2>4, <2>5 DEF FitInv
  <2>6. CASE at \in {"opened", "limited"}
    <3> DEFINE A == LinesOf(old \ todo)' \ spared'
               B == LinesOf(old \ todo) \ spared
    <3>1. Left(old \ todo)' = Cardinality(A) /\ Left(old \ todo) = Cardinality(B)
      BY DEF Left
    <3>2. A \subseteq B /\ B \subseteq 1..written
      <4>1. LinesOf(old \ todo) \subseteq 1..written
        BY <1>0, LinesOfFiles
      <4> QED
        BY <2>4, <4>1
    <3> HIDE DEF A, B
    <3>3. Cardinality(A) \in Nat /\ Cardinality(B) \in Nat /\ Cardinality(A) <= Cardinality(B)
      BY <1>0, <3>2, FewerLines
    <3>4. Left(old \ todo) <= max
      BY <1>0, <2>6 DEF FitInv
    <3>5. Left(old \ todo)' <= max'
      BY <1>0, <2>2, <3>1, <3>3, <3>4
    <3> QED
      BY <2>2, <2>6, <3>5 DEF FitInv
  <2> QED
    BY <2>2, <2>5, <2>6 DEF Removing
<1> QED
  BY <1>4, <1>5, <1>6, <1>7, <1>8, <1>9, <1>10, <1>11, <1>12, <1>13, <1>14, <1>15 DEF Next
-----------------------------------------------------------------------------
(* Theorems. *)

LEMMA StartsRight == Init => IInv
<1> SUFFICES ASSUME Init PROVE IInv
  OBVIOUS
<1>1. /\ now = 0 /\ written = 0 /\ active = File(ActiveName, 0, 0, 0) /\ old = {}
      /\ handle = "open" /\ size = 0 /\ day = 0 /\ cap \in Caps /\ max = cap
      /\ saved = [a \in Admins |-> Unset] /\ at = "idle" /\ faults = 0
      /\ cleared = 0 /\ replaced = {} /\ spared = {} /\ todo = {} /\ unclean = FALSE
  BY DEF Init
<1>2. /\ active \in Files /\ active # NoFile /\ active.name = ActiveName
      /\ active.from = 0 /\ active.to = 0 /\ active.mtime = 0
  BY <1>1, NamesDiffer DEF File, Files
<1>3. TypeOK
  <2>1. ActiveType
    BY <1>1, <1>2 DEF ActiveType
  <2>2. OldType
    BY <1>1 DEF OldType
  <2>3. HandleType
    BY <1>1, <1>2, Constants DEF HandleType, Size
  <2>4. RestType
    <3>1. Today \in Nat
      BY <1>1, DaysGoOn, Constants DEF Today
    <3>2. now \in 0..MaxTime /\ written \in 0..MaxLines /\ day \in 0..Today /\ faults \in 0..MaxFaults
      BY <1>1, <3>1, Constants
    <3>3. /\ at \in Steps /\ cleared \in 0..written /\ replaced \subseteq 1..written
          /\ spared \subseteq 1..written /\ todo \subseteq old /\ todo = {}
      BY <1>1 DEF Steps
    <3>4. unclean \in BOOLEAN
      BY <1>1
    <3>5. saved \in [Admins -> Caps \cup {Unset}]
      BY <1>1
    <3> QED
      BY <1>1, <3>2, <3>3, <3>4, <3>5 DEF RestType
  <2> QED
    BY <2>1, <2>2, <2>3, <2>4, TypeParts
<1>4. HandleInv /\ NameInv /\ OrderInv /\ AsideInv
  BY <1>1, <1>2 DEF HandleInv, NameInv, OrderInv, AsideInv
<1>5. KeepsNewest
  <2>1. OnDisk = {}
    BY <1>1, <1>2, DiskLines DEF LinesOf, Lines
  <2>2. 0 \in cleared..written /\ (0 + 1)..written = {} /\ LinesOf(todo) = {}
    BY <1>1 DEF LinesOf
  <2> QED
    BY <2>1, <2>2 DEF KeepsNewest
<1>6. SizeInv
  BY <1>1, <1>2, Constants DEF SizeInv, Size
<1>7. FitInv
  <2>1. Left(old) = 0
    <3>1. LinesOf(old) \ spared = {}
      BY <1>1 DEF LinesOf
    <3> QED
      BY <3>1, FS_EmptySet DEF Left
  <2> QED
    BY <1>1, <2>1, Constants DEF FitInv
<1> QED
  BY <1>3, <1>4, <1>5, <1>6, <1>7 DEF IInv

LEMMA StepIsKept ==
    ASSUME IInv, [Next]_vars
    PROVE  IInv'
<1>1. CASE Next
  BY <1>1, TypeStep, HandleStep, NameStep, OrderStep, AsideStep, KeepsStep, SizeStep, FitStep DEF IInv
<1>2. CASE UNCHANGED vars
  BY <1>2 DEF vars, disk, writer, operation, limits, history, IInv, TypeOK, Today, HandleInv, NameInv,
              OrderInv, Before, AsideInv, Aside, ClearName, KeepsNewest, OnDisk, LinesOf, SizeInv, FitInv, Left
<1> QED
  BY <1>1, <1>2

\* The files of the log stay in order, whatever fails and whenever the Server
\* stops: the invariant behind the other theorems.
THEOREM LogInvariant == Spec => []IInv
<1>1. Init => IInv
  BY StartsRight
<1>2. IInv /\ [Next]_vars => IInv'
  BY StepIsKept
<1> QED
  BY <1>1, <1>2, PTL DEF Spec

\* Every variable keeps its type; server.log always ends with the last line.
THEOREM TypeCorrect == Spec => []TypeOK
<1>1. IInv => TypeOK
  BY DEF IInv
<1> QED
  BY <1>1, LogInvariant, PTL

\* The log is always the newest part of what was written since the last clear,
\* without a hole, but for older lines in files whose removal failed or was cut
\* off, for any sizes, limits, errors and crashes.
THEOREM NewestIsKept == Spec => []KeepsNewest
<1>1. IInv => KeepsNewest
  BY DEF IInv
<1> QED
  BY <1>1, LogInvariant, PTL

\* Between operations the old files fit into the limit, but for those whose
\* removal failed or was cut off, and server.log exceeds its own by no more lines
\* than there were failures.
THEOREM LogsStayBounded == Spec => []LogsBounded
<1>1. IInv => LogsBounded
  BY DEF IInv, LogsBounded, FitInv, Left, SizeInv
<1> QED
  BY <1>1, LogInvariant, PTL
=============================================================================
