---------------------------- MODULE BackupProofs ----------------------------
(***************************************************************************)
(* What holds of Backup for every window, length of day and number of      *)
(* faults and stops, proved with TLAPS.                                    *)
(***************************************************************************)
EXTENDS Backup, TLAPS

\* What is renamed is whole, and younger than every file it may replace; the
\* files are the only thing prune_old looks at.
RenamesWhole ==
  at = "rename" => /\ temp # None /\ temp.whole
                   /\ \A f \in files : temp.age <= f.age

IInv == TypeOK /\ DatedAreWhole /\ TempsHaveReason /\ RenamesWhole

-----------------------------------------------------------------------------
(* A tick, on one file.                                                    *)

LEMMA WindowType == Window \in Nat /\ MaxAge \in Nat /\ Window < MaxAge /\ MaxDay \in Nat
  BY BackupConstants DEF Window, MaxAge, MaxDay

LEMMA LeastType ==
  ASSUME NEW max \in Nat, NEW n \in 0 .. max
  PROVE  /\ Least(n + 1, max) \in 0 .. max
         /\ n <= Least(n + 1, max)
  BY DEF Least

LEMMA LeastMonotone ==
  ASSUME NEW max \in Nat, NEW m \in 0 .. max, NEW n \in 0 .. max, m <= n
  PROVE  Least(m + 1, max) <= Least(n + 1, max)
  BY DEF Least

LEMMA LaterType ==
  ASSUME NEW f \in Snapshots
  PROVE  /\ Later(f) \in Snapshots
         /\ Later(f).age = Least(f.age + 1, MaxAge)
         /\ Later(f).whole = f.whole
  <1>1. Least(f.age + 1, MaxAge) \in 0 .. MaxAge /\ Least(f.day + 1, MaxDay) \in 0 .. MaxDay
    BY WindowType, LeastType DEF Snapshots
  <1> QED BY <1>1 DEF Later, Aged, Snapshots

LEMMA AgedType ==
  ASSUME NEW t \in Copies
  PROVE  /\ Aged(t) \in Copies
         /\ Aged(t).age = Least(t.age + 1, MaxAge)
         /\ Aged(t).whole = t.whole
  <1>1. Least(t.age + 1, MaxAge) \in 0 .. MaxAge
    BY WindowType, LeastType DEF Copies
  <1> QED BY <1>1 DEF Aged, Copies

-----------------------------------------------------------------------------
(* The inductive invariant.                                                *)

LEMMA InitInv ==
  ASSUME Init
  PROVE  IInv
  <1>1. slept \in 0 .. DayTicks /\ date \in 0 .. MaxDay
    BY BackupConstants, WindowType DEF Init
  <1>2. /\ faults \in 0 .. MaxFaults /\ stops \in 0 .. MaxStops
        /\ temps \in Nat /\ stuck \in 0 .. faults /\ temps <= stops + stuck
    BY BackupConstants DEF Init
  <1>3. TypeOK
    BY <1>1, <1>2 DEF Init, TypeOK, Stages
  <1>4. DatedAreWhole /\ RenamesWhole
    BY DEF Init, DatedAreWhole, RenamesWhole
  <1> QED BY <1>2, <1>3, <1>4 DEF IInv, TempsHaveReason

LEMMA TickInv ==
  ASSUME IInv, Tick
  PROVE  IInv'
  <1>1. TypeOK'
    <2>1. files' \subseteq Snapshots /\ scan' \subseteq Snapshots
      BY LaterType DEF IInv, TypeOK, Tick
    <2>2. temp' \in Copies \cup {None}
      BY AgedType DEF IInv, TypeOK, Tick
    <2>3. date' \in 0 .. MaxDay
      BY LeastType, WindowType DEF IInv, TypeOK, Tick
    <2>4. clock' \in 0 .. DayTicks - 1
      BY BackupConstants DEF IInv, TypeOK, Tick
    <2>5. slept' \in 0 .. DayTicks
      BY BackupConstants DEF IInv, TypeOK, Tick
    <2>6. passed' \in BOOLEAN
      BY DEF IInv, TypeOK, Tick
    <2> QED BY <2>1, <2>2, <2>3, <2>4, <2>5, <2>6 DEF IInv, TypeOK, Tick
  <1>2. DatedAreWhole'
    BY LaterType DEF IInv, TypeOK, Tick, DatedAreWhole
  <1>3. TempsHaveReason'
    BY DEF IInv, Tick, TempsHaveReason
  <1>4. RenamesWhole'
    <2> SUFFICES ASSUME at = "rename"
                 PROVE  /\ temp' # None /\ temp'.whole
                        /\ \A f \in files' : temp'.age <= f.age
      BY DEF RenamesWhole, Tick
    <2>1. temp \in Copies /\ temp' = Aged(temp) /\ temp.whole
      BY DEF IInv, RenamesWhole, TypeOK, Tick
    <2>2. temp' # None /\ temp'.whole
      BY <2>1, AgedType, NoneAssumption
    <2>3. ASSUME NEW f \in files PROVE temp'.age <= Later(f).age
      <3>1. temp.age <= f.age /\ f \in Snapshots
        BY <2>3 DEF IInv, RenamesWhole, TypeOK
      <3>2. temp.age \in 0 .. MaxAge /\ f.age \in 0 .. MaxAge
        BY <2>1, <3>1 DEF Copies, Snapshots
      <3> QED BY <2>1, <3>1, <3>2, AgedType, LaterType, LeastMonotone, WindowType
    <2> QED BY <2>2, <2>3 DEF Tick
  <1> QED BY <1>1, <1>2, <1>3, <1>4 DEF IInv

LEMMA RenameInv ==
  ASSUME IInv, rename
  PROVE  IInv'
  <1>1. temp \in Copies /\ temp.whole
    BY DEF IInv, TypeOK, RenamesWhole, rename
  <1> DEFINE new == [day |-> date, age |-> temp.age, whole |-> temp.whole]
  <1>2. files' \subseteq Snapshots /\ \A f \in files' : f.whole
    <2>1. new \in Snapshots /\ new.whole
      BY <1>1 DEF IInv, TypeOK, Snapshots, Copies
    <2>2. files' \subseteq files \cup {new}
      BY DEF rename
    <2> QED BY <2>1, <2>2 DEF IInv, TypeOK, DatedAreWhole
  <1>3. TypeOK'
    BY <1>2 DEF IInv, TypeOK, rename, Stages
  <1> QED BY <1>2, <1>3 DEF IInv, DatedAreWhole, TempsHaveReason, RenamesWhole, rename

LEMMA StepInv ==
  ASSUME IInv, [Next]_vars
  PROVE  IInv'
  <1> USE DEF IInv, TypeOK, Stages, DatedAreWhole, TempsHaveReason, RenamesWhole
  <1>1. CASE StartVacuum
    <2>1. temp' \in Copies /\ date' \in 0 .. MaxDay
      BY <1>1, WindowType DEF StartVacuum, Copies
    <2> QED BY <1>1, <2>1 DEF StartVacuum
  <1>2. CASE EndVacuum
    <2>1. temp' \in Copies /\ temp'.whole /\ temp'.age = 0
      BY <1>2, WindowType DEF EndVacuum, Copies
    <2>2. \A f \in files : temp'.age <= f.age
      BY <2>1, WindowType DEF Snapshots
    <2> QED BY <1>2, <2>1, <2>2, NoneAssumption DEF EndVacuum
  <1>3. CASE rename
    BY <1>3, RenameInv
  <1>4. CASE SnapshotFails
    <2>1. /\ temps' \in Nat /\ faults' \in 0 .. MaxFaults /\ stuck' \in 0 .. faults'
          /\ temps' <= stops' + stuck'
      BY <1>4, BackupConstants DEF SnapshotFails, UnlinkFails
    <2> QED BY <1>4, <2>1 DEF SnapshotFails
  <1>5. CASE PruneFile
    <2>1. /\ files' \subseteq files /\ scan' \subseteq scan
          /\ faults' \in 0 .. MaxFaults /\ stuck' \in 0 .. faults'
      BY <1>5, BackupConstants DEF PruneFile
    <2> QED BY <1>5, <2>1 DEF PruneFile
  <1>6. CASE PruneBreaksOff
    <2>1. faults' \in 0 .. MaxFaults /\ stuck' \in 0 .. faults'
      BY <1>6, BackupConstants DEF PruneBreaksOff
    <2> QED BY <1>6, <2>1 DEF PruneBreaksOff
  <1>7. CASE PruneEnds \/ WakeUp \/ Start
    <2>1. slept' \in 0 .. DayTicks
      BY <1>7, BackupConstants DEF PruneEnds, WakeUp, Start
    <2> QED BY <1>7, <2>1 DEF PruneEnds, WakeUp, Start
  <1>8. CASE Tick
    BY <1>8, TickInv
  <1>9. CASE Stop
    <2>1. stops' \in 0 .. MaxStops /\ temps' \in Nat /\ temps' <= stops' + stuck'
      BY <1>9, BackupConstants DEF Stop
    <2> QED BY <1>9, <2>1 DEF Stop
  <1>10. CASE UNCHANGED vars
    BY <1>10 DEF vars, roundVars
  <1> QED BY <1>1, <1>2, <1>3, <1>4, <1>5, <1>6, <1>7, <1>8, <1>9, <1>10 DEF Next, Loop

\* The variables keep their types.
THEOREM BackupTypeCorrect == Spec => []TypeOK
  BY InitInv, StepInv, PTL DEF Spec, IInv

\* Whatever has a date is the whole of a database, wherever the process died.
THEOREM NoHalfBackup == Spec => []DatedAreWhole
  BY InitInv, StepInv, PTL DEF Spec, IInv

\* Only a stop of the process, or an unlink that fails, leaves a staging file
\* behind: at most one for each, for any number of failing snapshots.
THEOREM NoTempLeak == Spec => []TempsHaveReason
  BY InitInv, StepInv, PTL DEF Spec, IInv

-----------------------------------------------------------------------------
(* Nothing leaves before its window is over.                               *)

\* f is still there, a tick older perhaps, or a newer whole file of its date is.
Kept(f) ==
  \E g \in files' : \/ g \in {f, Later(f)}
                    \/ g.day = f.day /\ g.age <= f.age /\ g.whole

LEMMA KeptStep ==
  ASSUME IInv, [Next]_vars, NEW f \in files, f.age <= Window
  PROVE  Kept(f)
  <1>1. CASE rename
    <2> DEFINE new == [day |-> date, age |-> temp.age, whole |-> temp.whole]
    <2>1. files' = {g \in files : g.day # date} \cup {new}
      BY <1>1 DEF rename
    <2>2. CASE f.day = date
      <3>1. new.age <= f.age /\ new.whole
        BY <1>1 DEF IInv, RenamesWhole, rename
      <3> QED BY <2>1, <2>2, <3>1 DEF Kept
    <2> QED BY <2>1, <2>2 DEF Kept
  <1>2. CASE PruneFile
    <2>1. f \in Snapshots
      BY DEF IInv, TypeOK
    <2>2. ~Stale(f)
      BY <2>1, WindowType DEF Stale, Snapshots
    <2> QED BY <1>2, <2>2 DEF PruneFile, Kept
  <1>3. CASE Tick
    BY <1>3 DEF Tick, Kept
  <1>4. CASE UNCHANGED files
    BY <1>4 DEF Kept
  <1>5. CASE StartVacuum \/ EndVacuum \/ SnapshotFails \/ PruneBreaksOff \/ PruneEnds \/ WakeUp
             \/ Start \/ Stop \/ UNCHANGED vars
    BY <1>5, <1>4 DEF StartVacuum, EndVacuum, SnapshotFails, PruneBreaksOff, PruneEnds, WakeUp,
                      Start, Stop, vars
  <1> QED BY <1>1, <1>2, <1>3, <1>5 DEF Next, Loop

\* A snapshot stays until its window is over, or a newer one takes its date.
THEOREM KeptThroughWindow == Spec => KeptForWindow
  <1>1. IInv /\ [Next]_vars => [\A f \in files : f.age <= Window =>
                                  \E g \in files' : \/ g \in {f, Later(f)}
                                                    \/ g.day = f.day /\ g.age <= f.age /\ g.whole]_vars
    BY KeptStep DEF Kept
  <1> QED BY <1>1, InitInv, StepInv, PTL DEF Spec, KeptForWindow
=============================================================================
