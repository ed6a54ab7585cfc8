------------------------------- MODULE Backup -------------------------------
(***************************************************************************)
(* The daily snapshot of the database (src/src/backup.rs): staged with     *)
(* VACUUM INTO a temp file, renamed to the date, then the old ones pruned, *)
(* beside a clock that runs on, full disks, crashes and restarts.          *)
(***************************************************************************)
EXTENDS Naturals

CONSTANTS KeepDays,  \* backup_keep_days
          DayTicks,  \* ticks of the clock in a day
          MaxFaults, \* bound on files that fail to be removed, and passes prune breaks off
          MaxStops,  \* bound on crashes and shutdowns
          None

ASSUME BackupConstants ==
  /\ KeepDays \in Nat /\ MaxFaults \in Nat /\ MaxStops \in Nat
  /\ DayTicks \in Nat \ {0}

Window == KeepDays * DayTicks
\* Ages and dates beyond these are alike: old.
MaxAge == Window + 2
MaxDay == KeepDays + 2

\* A dated file: days since its date, ticks since it was modified, and whether
\* it is the whole of a database.
Snapshots == [day : 0 .. MaxDay, age : 0 .. MaxAge, whole : BOOLEAN]
Copies == [age : 0 .. MaxAge, whole : BOOLEAN]
ASSUME NoneAssumption == None \notin Copies

VARIABLES clock,  \* ticks of today gone
          at,     \* where the loop of `spawn` is
          slept,  \* ticks of its sleep gone
          passed, \* a tick has passed in this round
          date,   \* of this round: days since
          temp,   \* its staging file, or None
          files,  \* data/backups/jobs-*.db
          scan,   \* what prune_old has still to look at
          temps,  \* staging files left behind
          stuck,  \* unlinks of a staging file that have failed
          faults, stops

roundVars == <<at, slept, passed, date, temp, scan>>
vars == <<clock, roundVars, files, temps, stuck, faults, stops>>

Stages == {"begin", "vacuum", "rename", "prune", "sleep", "down"}

TypeOK ==
  /\ clock \in 0 .. DayTicks - 1
  /\ at \in Stages
  /\ slept \in 0 .. DayTicks
  /\ passed \in BOOLEAN
  /\ date \in 0 .. MaxDay
  /\ temp \in Copies \cup {None}
  /\ files \subseteq Snapshots
  /\ scan \subseteq Snapshots
  /\ temps \in Nat /\ stuck \in 0 .. faults
  /\ faults \in 0 .. MaxFaults
  /\ stops \in 0 .. MaxStops

Init ==
  /\ clock \in 0 .. DayTicks - 1
  /\ at = "begin" /\ slept = 0 /\ passed = FALSE /\ date = 0
  /\ temp = None /\ files = {} /\ scan = {}
  /\ temps = 0 /\ stuck = 0 /\ faults = 0 /\ stops = 0

-----------------------------------------------------------------------------
(* snapshot_once.                                                          *)

\* The date is read before the copy is made, which may end on the next day.
StagesInPlace ==
  /\ at = "begin" /\ at' = "vacuum"
  /\ date' = 0
  /\ temp' = [age |-> 0, whole |-> FALSE]
  /\ files' = {f \in files : f.day # 0} \cup {[day |-> 0, age |-> 0, whole |-> FALSE]}
  /\ UNCHANGED <<clock, slept, passed, scan, temps, stuck, faults, stops>>

StartVacuum ==
  /\ at = "begin" /\ at' = "vacuum"
  /\ date' = 0
  /\ temp' = [age |-> 0, whole |-> FALSE]
  /\ UNCHANGED <<clock, slept, passed, files, scan, temps, stuck, faults, stops>>

EndVacuum ==
  /\ at = "vacuum" /\ at' = "rename"
  /\ temp' = [age |-> 0, whole |-> TRUE]
  /\ UNCHANGED <<clock, slept, passed, date, files, scan, temps, stuck, faults, stops>>

\* prune_old starts with the directory as it is.
rename ==
  /\ at = "rename" /\ at' = "prune"
  /\ temp # None /\ temp' = None
  /\ files' = {f \in files : f.day # date}
                \cup {[day |-> date, age |-> temp.age, whole |-> temp.whole]}
  /\ scan' = files'
  /\ UNCHANGED <<clock, slept, passed, date, temps, stuck, faults, stops>>

SnapshotFailsLeaving ==
  /\ at \in {"begin", "vacuum", "rename"} /\ at' = "prune"
  /\ temp' = None
  /\ temps' = IF temp = None THEN temps ELSE temps + 1
  /\ scan' = files
  /\ UNCHANGED <<clock, slept, passed, date, files, stuck, faults, stops>>

SnapshotFailsNoPrune ==
  /\ at \in {"begin", "vacuum", "rename"} /\ at' = "sleep"
  /\ temp' = None
  /\ UNCHANGED <<clock, slept, passed, date, files, scan, temps, stuck, faults, stops>>

UnlinkFails ==
  /\ temp # None
  /\ faults < MaxFaults /\ faults' = faults + 1
  /\ temps' = temps + 1 /\ stuck' = stuck + 1

\* Any step of it, any number of times: the Drop of Staged removes the temp file,
\* or ignores that it cannot, and prune_old runs all the same.
SnapshotFails ==
  /\ at \in {"begin", "vacuum", "rename"} /\ at' = "prune"
  /\ temp' = None
  /\ UnlinkFails \/ UNCHANGED <<temps, stuck, faults>>
  /\ scan' = files
  /\ UNCHANGED <<clock, slept, passed, date, files, stops>>

-----------------------------------------------------------------------------
(* prune_old.                                                              *)

StaleByHours(f) == f.age > KeepDays
Stale(f) == f.age > Window

PruneFile ==
  /\ at = "prune"
  /\ \E f \in scan :
       /\ scan' = scan \ {f}
       /\ IF Stale(f)
          THEN \/ files' = files \ {f} /\ UNCHANGED faults
               \/ faults < MaxFaults /\ faults' = faults + 1 /\ UNCHANGED files
          ELSE UNCHANGED <<files, faults>>
  /\ UNCHANGED <<clock, at, slept, passed, date, temp, temps, stuck, stops>>

\* read_dir, or the next entry, fails.
PruneBreaksOff ==
  /\ at = "prune" /\ scan # {} /\ scan' = {}
  /\ faults < MaxFaults /\ faults' = faults + 1
  /\ UNCHANGED <<clock, at, slept, passed, date, temp, files, temps, stuck, stops>>

PruneEnds ==
  /\ at = "prune" /\ scan = {}
  /\ at' = "sleep" /\ slept' = 0 /\ passed' = FALSE
  /\ UNCHANGED <<clock, date, temp, files, scan, temps, stuck, faults, stops>>

WakeUp ==
  /\ at = "sleep" /\ slept = DayTicks
  /\ at' = "begin" /\ slept' = 0
  /\ UNCHANGED <<clock, passed, date, temp, files, scan, temps, stuck, faults, stops>>

-----------------------------------------------------------------------------
(* The clock, and the process.                                             *)

Least(n, max) == IF n > max THEN max ELSE n
Aged(f) == [f EXCEPT !.age = Least(@ + 1, MaxAge)]
Later(f) == [Aged(f) EXCEPT !.day = IF clock = DayTicks - 1 THEN Least(@ + 1, MaxDay) ELSE @]

\* A round takes less than two ticks; the sleep starts after it, so that rounds
\* drift through the day and may skip a date.
Tick ==
  /\ \/ at = "sleep" /\ slept < DayTicks /\ slept' = slept + 1 /\ UNCHANGED passed
     \/ at = "down" /\ UNCHANGED <<slept, passed>>
     \/ at \notin {"sleep", "down"} /\ ~passed /\ passed' = TRUE /\ UNCHANGED slept
  /\ clock' = (clock + 1) % DayTicks
  /\ date' = IF clock = DayTicks - 1 THEN Least(date + 1, MaxDay) ELSE date
  /\ temp' = IF temp = None THEN None ELSE Aged(temp)
  /\ files' = {Later(f) : f \in files}
  /\ scan' = {Later(f) : f \in scan}
  /\ UNCHANGED <<at, temps, stuck, faults, stops>>

\* A crash leaves the staging file; so may a shutdown that drops the round while
\* SQLite's thread has the statement, and the file, still to come.
Stop ==
  /\ at # "down" /\ at' = "down"
  /\ stops < MaxStops /\ stops' = stops + 1
  /\ temp' = None
  /\ temps' \in {temps, temps + (IF temp = None THEN 0 ELSE 1)}
  /\ scan' = {}
  /\ UNCHANGED <<clock, slept, passed, date, files, stuck, faults>>

\* A round at once, whenever the last one was.
Start ==
  /\ at = "down" /\ at' = "begin"
  /\ slept' = 0 /\ passed' = FALSE
  /\ UNCHANGED <<clock, date, temp, files, scan, temps, stuck, faults, stops>>

Loop ==
  \/ StartVacuum \/ EndVacuum \/ rename \/ SnapshotFails
  \/ PruneFile \/ PruneBreaksOff \/ PruneEnds \/ WakeUp \/ Start

Next == Loop \/ Tick \/ Stop

Spec == Init /\ [][Next]_vars

\* The task is scheduled, systemd restarts the process, time goes on.
FairSpec == Spec /\ WF_vars(Loop) /\ WF_vars(Tick)

-----------------------------------------------------------------------------
(* Properties.                                                             *)

\* A file with a date is the whole of a database, wherever the process died:
\* what is restored from it is what VACUUM INTO finished.
DatedAreWhole == \A f \in files : f.whole

\* A staging file outlives its round (nothing ever collects one) only if the
\* process stopped in that round, or its unlink failed: a disk too full for the
\* snapshot is not made fuller every day.
TempsHaveReason == temps <= stops + stuck

\* A snapshot leaves before its window is over only for a newer one of its date:
\* failing rounds, restarts and the prunes beside them never eat into the window.
KeptForWindow ==
  [][\A f \in files : f.age <= Window =>
       \E g \in files' : \/ g \in {f, Later(f)}
                         \/ g.day = f.day /\ g.age <= f.age /\ g.whole]_vars

\* What is older than the window goes, though every snapshot should fail.
OldOnesGo == []<>(\A f \in files : f.age <= Window)
=============================================================================
