-------------------------- MODULE InputCacheProofs --------------------------
(***************************************************************************)
(* What holds of InputCache for every set of images and of requests and    *)
(* every number of crashes and faults, proved with TLAPS: a job loses its  *)
(* input only to an overlap, a row loses its file only to a pass at work,  *)
(* an upload is refused only by a race, and a file without a row has its   *)
(* reason.                                                                 *)
(***************************************************************************)
EXTENDS InputCache, TLAPS

-----------------------------------------------------------------------------
(* The inductive invariants: Kept of what nobody disturbed, Calmly of a    *)
(* cache without crashes and faults.                                       *)

\* The pass is idle, takes a row of its SELECT, or has one row in hand; it has
\* one row per sha.
PassInv ==
  /\ purge = "idle" => stale = {}
  /\ purge # "nullify" => current = {}
  /\ stale \cap current = {}
  /\ \A row \in current, other \in current : row = other
  /\ \A row \in stale \cup current, other \in stale \cup current :
       row[1] = other[1] => row = other

\* What ends a pass between the two steps of a row.
Cut == Crash \/ NullifyFails

InHand(s) == \E row \in current : row[1] = s
InSelect(s) == \E row \in stale : row[1] = s

\* A request that writes has bytes to write.
BytesInv == \A r \in Requests : at[r] \in {"write", "record"} => bytes[r] \in Exts

\* The job was inserted and never deleted, so that it always kept its input.
Guarding(r) == job[r] # "none" /\ r \notin hidden \cup restored

\* A path nobody disturbed has its file, until the pass removes it.
FileInv ==
  \A s \in Shas \ disturbed : path[s] \in Exts /\ ~InHand(s) => <<s, path[s]>> \in disk

\* What the pass took undisturbed, nobody is at.
TakenInv ==
  \A s \in Taken \ disturbed :
    /\ InFlight(s) = {}
    /\ \A r \in Requests : sha[r] = s => ~Guarding(r)

\* A submit nobody disturbed, at each of its awaits.
SubmitInv ==
  \A r \in Requests :
    sha[r] \notin disturbed =>
      /\ at[r] # "demote"
      /\ at[r] = "stat" => <<sha[r], saw[r]>> \in disk
      /\ at[r] = "record" => <<sha[r], bytes[r]>> \in disk
      /\ at[r] \in {"stat", "touch", "insert"} => path[sha[r]] \in Exts

\* A job nobody disturbed, before and while the worker reads its input.
JobInv ==
  \A r \in Requests :
    Guarding(r) /\ sha[r] \notin disturbed =>
      /\ path[sha[r]] \in Exts /\ job[r] # "missing"
      /\ job[r] = "reading" => <<sha[r], reread[r]>> \in disk

Kept == PassInv /\ FileInv /\ TakenInv /\ SubmitInv /\ JobInv

\* No file has vanished, no UPDATE of the purge has failed, no crash has happened.
Calm == faults + crashes = 0

\* A path has its file, until the pass removes it, disturbed or not.
BackedInv == \A s \in Shas : path[s] \in Exts /\ ~InHand(s) => <<s, path[s]>> \in disk

\* The path of a row in the SELECT does not change: a submit that is about to
\* write it is not of a stale image.
SelectInv ==
  /\ \A row \in stale : path[row[1]] = row[2]
  /\ \A r \in Requests :
       /\ InSelect(sha[r]) => at[r] \notin {"demote", "write", "record"}
       /\ InSelect(sha[r]) /\ at[r] = "stat" => saw[r] = path[sha[r]]

\* Nor can the next SELECT find the image of a submit that is about to write.
WriterInv ==
  \A r \in Requests :
    /\ at[r] = "stat" =>
         \/ saw[r] = path[sha[r]] \/ path[sha[r]] \notin Exts \/ sha[r] \in fresh
    /\ at[r] \in {"demote", "write", "record"} =>
         \/ path[sha[r]] \notin Exts \/ sha[r] \in fresh
         \/ at[r] = "demote" /\ InHand(sha[r])
    /\ at[r] = "record" => <<sha[r], bytes[r]>> \in disk

Calmly == PassInv /\ (Calm => BackedInv /\ SelectInv /\ WriterInv)

-----------------------------------------------------------------------------
(* Types.                                                                  *)

Types == TypeOK /\ BytesInv

LEMMA SubmitType ==
  ASSUME Types, NEW r \in Requests, Submit(r)
  PROVE  Types'
  <1> USE InputNulls DEF Types, TypeOK, BytesInv, RequestAt, Mid, Step, Elsewhere, NoBytes,
                         rowVars, jobVars, purgeVars, boundVars
  <1>1. CASE Lookup(r)
    BY <1>1 DEF Lookup, Uncached
  <1>2. CASE Stat(r)
    BY <1>2 DEF Stat
  <1>3. CASE Touch(r)
    BY <1>3 DEF Touch
  <1>4. CASE Demote(r)
    <2>1. path' \in [Shas -> Exts \cup {NoPath, NoRow}]
      BY <1>4 DEF Demote
    <2>2. saw' \in [Requests -> Exts \cup {NoPath, NoRow}]
      BY <1>4 DEF Demote
    <2> QED BY <1>4, <2>1, <2>2 DEF Demote, Uncached
  <1>5. CASE Write(r)
    BY <1>5 DEF Write
  <1>6. CASE Record(r)
    BY <1>6 DEF Record
  <1>7. CASE Insert(r)
    BY <1>7 DEF Insert, JobState
  <1> QED BY <1>1, <1>2, <1>3, <1>4, <1>5, <1>6, <1>7 DEF Submit

LEMMA WorkerType ==
  ASSUME Types, NEW r \in Requests, ReadPath(r) \/ ReadFile(r) \/ Hide(r) \/ Restore(r)
  PROVE  Types'
  <1> USE DEF Types, TypeOK, BytesInv, JobState, JobGoto, Meanwhile, Visibly,
              rowVars, requestVars, purgeVars, boundVars
  <1>1. CASE ReadPath(r)
    BY <1>1 DEF ReadPath
  <1>2. CASE ReadFile(r)
    BY <1>2 DEF ReadFile
  <1>3. CASE Hide(r)
    BY <1>3 DEF Hide
  <1>4. CASE Restore(r)
    BY <1>4 DEF Restore
  <1> QED BY <1>1, <1>2, <1>3, <1>4

LEMMA PurgeType ==
  ASSUME Types, Purge
  PROVE  Types'
  <1> USE DEF Types, TypeOK, BytesInv, Apart, requestVars, jobVars, boundVars
  <1>1. CASE SelectStale
    <2>1. stale' \subseteq Shas \X Exts /\ disturbed' \subseteq Shas
      BY <1>1 DEF SelectStale, Stale
    <2> QED BY <1>1, <2>1 DEF SelectStale
  <1>2. ASSUME NEW row \in stale, RemoveFile(row) PROVE Types'
    BY <1>2 DEF RemoveFile
  <1>3. ASSUME NEW row \in current, Nullify(row) PROVE Types'
    <2>1. row[1] \in Shas
      OBVIOUS
    <2>2. path' \in [Shas -> Exts \cup {NoPath, NoRow}]
      BY <1>3, <2>1 DEF Nullify
    <2> QED BY <1>3, <2>2 DEF Nullify
  <1>4. CASE NullifyFails
    <2>1. faults' \in 0 .. MaxFaults
      BY <1>4, InputBounds DEF NullifyFails
    <2> QED BY <1>4, <2>1 DEF NullifyFails, PassEnds
  <1> QED BY <1>1, <1>2, <1>3, <1>4 DEF Purge

LEMMA FaultType ==
  ASSUME Types,
         \/ \E s \in Shas : Age(s) \/ Lose(s)
         \/ Crash
         \/ \E r \in Requests : Drop(r)
  PROVE  Types'
  <1> USE DEF Types, TypeOK, BytesInv, rowVars, requestVars, jobVars, purgeVars, boundVars
  <1>1. ASSUME NEW s \in Shas, Age(s) PROVE Types'
    BY <1>1 DEF Age
  <1>2. ASSUME NEW s \in Shas, Lose(s) PROVE Types'
    <2>1. faults' \in 0 .. MaxFaults
      BY <1>2, InputBounds DEF Lose
    <2> QED BY <1>2, <2>1 DEF Lose
  <1>3. CASE Crash
    <2>1. crashes' \in 0 .. MaxCrashes
      BY <1>3, InputBounds DEF Crash
    <2>2. at' \in [Requests -> RequestAt] /\ job' \in [Requests -> JobState]
      BY <1>3 DEF Crash, RequestAt, JobState
    <2>3. disturbed' \subseteq Shas
      BY <1>3 DEF Crash, PassEnds
    <2>4. BytesInv'
      BY <1>3 DEF Crash
    <2> QED BY <1>3, <2>1, <2>2, <2>3, <2>4 DEF Crash, PassEnds
  <1>4. ASSUME NEW r \in Requests, Drop(r) PROVE Types'
    BY <1>4 DEF Drop, RequestAt
  <1> QED BY <1>1, <1>2, <1>3, <1>4

LEMMA InitTypes == Init => Types
  <1> SUFFICES ASSUME Init PROVE Types
    OBVIOUS
  <1>1. crashes \in 0 .. MaxCrashes /\ faults \in 0 .. MaxFaults
    BY InputBounds DEF Init
  <1> QED BY <1>1 DEF Init, Types, TypeOK, BytesInv, RequestAt, JobState

LEMMA StepTypes ==
  ASSUME Types, [Next]_vars
  PROVE  Types'
  <1>1. CASE UNCHANGED vars
    BY <1>1 DEF Types, TypeOK, BytesInv, vars, rowVars, requestVars, jobVars, purgeVars, boundVars
  <1> QED BY <1>1, SubmitType, WorkerType, PurgeType, FaultType DEF Next

LEMMA TypesHold == Spec => []Types
  BY InitTypes, StepTypes, PTL DEF Spec

\* The rows, the files, the submits, the jobs and the pass keep to their types.
THEOREM CacheTypes == Spec => []TypeOK
  BY TypesHold, PTL DEF Types
-----------------------------------------------------------------------------
(* The pass.                                                               *)

LEMMA InPurge ==
  ASSUME NEW s
  PROVE  s \in Taken <=> InHand(s) \/ InSelect(s)
  BY DEF Taken, InHand, InSelect

LEMMA Rows ==
  ASSUME Types, NEW row \in stale \cup current
  PROVE  row[1] \in Shas /\ row[2] \in Exts /\ row = <<row[1], row[2]>>
  BY DEF Types, TypeOK

\* One row per sha, and one in hand.
LEMMA StepPass ==
  ASSUME Types, PassInv, [Next]_vars
  PROVE  PassInv'
  <1> USE DEF PassInv
  <1>1. CASE SelectStale
    BY <1>1 DEF SelectStale, Apart
  <1>2. ASSUME NEW row \in stale, RemoveFile(row) PROVE PassInv'
    BY <1>2 DEF RemoveFile, Apart
  <1>3. ASSUME NEW row \in current, Nullify(row) PROVE PassInv'
    BY <1>3 DEF Nullify, Apart
  <1>4. CASE Cut
    BY <1>4 DEF Cut, Crash, NullifyFails, PassEnds
  <1>5. CASE UNCHANGED purgeVars
    BY <1>5 DEF purgeVars
  <1>6. Purge \/ Cut \/ UNCHANGED purgeVars
    BY DEF Next, vars, purgeVars, Drop, Submit, Lookup, Stat, Touch, Demote, Write, Record, Insert,
           Elsewhere, ReadPath, ReadFile, Meanwhile, Hide, Restore, Visibly, Age, Lose, Cut
  <1> QED BY <1>1, <1>2, <1>3, <1>4, <1>5, <1>6 DEF Purge, Cut

-----------------------------------------------------------------------------
(* What nobody disturbed.                                                  *)

\* Requests keep their hash and bytes, and what is disturbed stays disturbed.
LEMMA Standing ==
  ASSUME [Next]_vars
  PROVE  UNCHANGED <<sha, bytes>> /\ disturbed \subseteq disturbed'
  BY DEF Next, vars, requestVars, Drop, Submit, Lookup, Stat, Touch, Demote, Write, Record, Insert,
         Elsewhere, ReadPath, ReadFile, Meanwhile, Hide, Restore, Visibly, Age, Lose, Crash,
         Purge, SelectStale, RemoveFile, Nullify, NullifyFails, PassEnds, Apart

\* The steps that touch neither a path nor a file nor the row in hand.
FileStep == UNCHANGED <<path, disk, current>>

LEMMA FileSteps ==
  ASSUME [Next]_vars
  PROVE  \/ FileStep
         \/ \E r \in Requests : Demote(r) \/ Write(r) \/ Record(r)
         \/ \E row \in stale : RemoveFile(row)
         \/ \E row \in current : Nullify(row)
         \/ \E s \in Shas : Lose(s)
         \/ Cut
  BY DEF FileStep, Next, vars, rowVars, purgeVars, Drop, Submit, Lookup, Stat, Touch, Insert,
         Elsewhere, ReadPath, ReadFile, Meanwhile, Hide, Restore, Visibly, Age,
         Purge, SelectStale, Apart, Cut

LEMMA FileKept ==
  ASSUME Types, Kept, [Next]_vars
  PROVE  FileInv'
  <1> SUFFICES ASSUME NEW s \in Shas, s \notin disturbed', path'[s] \in Exts, ~InHand(s)'
               PROVE  <<s, path'[s]>> \in disk'
    BY DEF FileInv
  <1> USE InputNulls DEF Types, TypeOK, rowVars, jobVars, purgeVars, boundVars
  <1>1. s \notin disturbed
    BY Standing
  <1>2. CASE FileStep
    BY <1>1, <1>2 DEF FileStep, Kept, FileInv, InHand
  <1>3. ASSUME NEW r \in Requests, Demote(r) PROVE <<s, path'[s]>> \in disk'
    BY <1>1, <1>3 DEF Demote, Elsewhere, Kept, FileInv, InHand
  <1>4. ASSUME NEW r \in Requests, Write(r) PROVE <<s, path'[s]>> \in disk'
    BY <1>1, <1>4 DEF Write, Elsewhere, Kept, FileInv, InHand
  <1>5. ASSUME NEW r \in Requests, Record(r) PROVE <<s, path'[s]>> \in disk'
    <2>1. CASE sha[r] = s /\ path'[s] = bytes[r]
      BY <1>1, <1>5, <2>1 DEF Record, Step, Kept, SubmitInv
    <2>2. CASE ~(sha[r] = s /\ path'[s] = bytes[r])
      BY <1>1, <1>5, <2>2 DEF Record, Elsewhere, Kept, FileInv, InHand
    <2> QED BY <2>1, <2>2
  <1>6. ASSUME NEW row \in stale, RemoveFile(row) PROVE <<s, path'[s]>> \in disk'
    <2>1. row[1] # s
      BY <1>6 DEF RemoveFile, InHand
    <2>2. <<s, path[s]>> \in disk
      BY <1>1, <1>6 DEF RemoveFile, Kept, FileInv, PassInv, InHand
    <2>3. <<s, path[s]>> # row
      BY <2>1
    <2> QED BY <1>6, <2>2, <2>3 DEF RemoveFile
  <1>7. ASSUME NEW row \in current, Nullify(row) PROVE <<s, path'[s]>> \in disk'
    <2>1. row[1] \in Shas
      BY Rows
    <2>2. row[1] # s /\ path'[s] = path[s]
      BY <1>7, <2>1 DEF Nullify
    <2>3. ~InHand(s)
      BY <2>2 DEF InHand, Kept, PassInv
    <2> QED BY <1>1, <1>7, <2>2, <2>3 DEF Nullify, Kept, FileInv
  <1>8. ASSUME NEW l \in Shas, Lose(l) PROVE <<s, path'[s]>> \in disk'
    BY <1>1, <1>8 DEF Lose, Kept, FileInv, InHand
  <1>9. CASE Cut
    <2>1. ~InHand(s)
      BY <1>9 DEF Cut, Crash, NullifyFails, PassEnds, InHand
    <2> QED BY <1>1, <1>9, <2>1 DEF Cut, Crash, NullifyFails, PassEnds, Kept, FileInv
  <1> QED BY <1>2, <1>3, <1>4, <1>5, <1>6, <1>7, <1>8, <1>9, FileSteps

LEMMA TakenKept ==
  ASSUME Types, Kept, [Next]_vars
  PROVE  TakenInv'
  <1> SUFFICES ASSUME NEW s \in Taken', s \notin disturbed', NEW r \in Requests, sha[r] = s
               PROVE  at'[r] \notin Mid /\ ~Guarding(r)'
    BY Standing DEF TakenInv, InFlight
  <1> USE DEF Types, TypeOK
  <1>1. s \notin disturbed
    BY Standing
  <1>2. s \in Taken => at[r] \notin Mid /\ ~Guarding(r)
    BY <1>1 DEF Kept, TakenInv, InFlight
  <1>3. CASE SelectStale
    <2>1. s \in Stale /\ s \notin {q \in Stale : InFlight(q) # {}}
      BY <1>3, Standing DEF SelectStale, Taken, Kept, PassInv
    <2>2. InFlight(s) = {} /\ Referencing(s) = {}
      BY <2>1 DEF Stale
    <2> QED BY <1>3, <2>2 DEF SelectStale, Apart, requestVars, jobVars, InFlight, Referencing, Guarding
  <1>4. CASE \/ \E row \in stale : RemoveFile(row)
             \/ \E row \in current : Nullify(row)
    <2>1. s \in Taken
      BY <1>4 DEF RemoveFile, Nullify, Taken
    <2> QED BY <1>2, <1>4, <2>1 DEF RemoveFile, Nullify, Apart, requestVars, jobVars, Guarding
  <1>5. CASE Cut
    BY <1>5 DEF Cut, Crash, NullifyFails, PassEnds, Taken
  <1>6. CASE \E q \in Requests : Submit(q)
    <2>1. PICK q \in Requests : Submit(q)
      BY <1>6
    <2>2. s \in Taken
      BY <2>1 DEF Submit, Lookup, Stat, Touch, Demote, Write, Record, Insert, Elsewhere, purgeVars, Taken
    <2>3. at[q] = "new" => q # r
      BY <2>1, <2>2 DEF Submit, Lookup, Stat, Touch, Demote, Write, Record, Insert, Step
    <2>4. at[q] # "new" => at[q] \in Mid
      BY <2>1 DEF Submit, Lookup, Stat, Touch, Demote, Write, Record, Insert, Step, Mid
    <2>5. q # r
      BY <1>2, <2>2, <2>3, <2>4
    <2>6. at'[r] = at[r]
      BY <2>1, <2>5 DEF Submit, Lookup, Stat, Touch, Demote, Write, Record, Insert, Step
    <2>7. job'[r] = job[r] /\ UNCHANGED <<hidden, restored>>
      BY <2>1, <2>5 DEF Submit, Lookup, Stat, Touch, Demote, Write, Record, Insert, jobVars
    <2> QED BY <1>2, <2>2, <2>6, <2>7 DEF Guarding
  <1>7. CASE \E q \in Requests : ReadPath(q) \/ ReadFile(q)
    <2>1. PICK q \in Requests : ReadPath(q) \/ ReadFile(q)
      BY <1>7
    <2>2. s \in Taken /\ UNCHANGED <<at, hidden, restored>>
      BY <2>1 DEF ReadPath, ReadFile, Meanwhile, requestVars, purgeVars, Taken
    <2>3. job'[r] # "none" => job[r] # "none"
      BY <2>1 DEF ReadPath, ReadFile, JobGoto
    <2> QED BY <1>2, <2>2, <2>3 DEF Guarding
  <1>8. CASE \E q \in Requests : Hide(q) \/ Restore(q) \/ Drop(q)
    BY <1>2, <1>8 DEF Hide, Restore, Drop, Visibly, requestVars, jobVars, purgeVars, Taken, Guarding, Mid
  <1>9. CASE UNCHANGED <<requestVars, jobVars, purgeVars>>
    BY <1>2, <1>9 DEF requestVars, jobVars, purgeVars, Taken, Guarding
  <1> QED BY <1>3, <1>4, <1>5, <1>6, <1>7, <1>8, <1>9 DEF Next, vars, Purge, Cut, Age, Lose

\* Of an image nobody disturbs and the pass has not taken, a path stays a path
\* and a file stays.
LEMMA HeldKept ==
  ASSUME Types, Kept, [Next]_vars,
         NEW s \in Shas, s \notin disturbed', s \notin Taken
  PROVE  /\ path[s] \in Exts => path'[s] \in Exts
         /\ \A e \in Exts : <<s, e>> \in disk => <<s, e>> \in disk'
  <1> USE DEF Types, TypeOK
  <1>1. s \notin disturbed
    BY Standing
  <1>2. CASE FileStep
    BY <1>2 DEF FileStep
  <1>3. ASSUME NEW q \in Requests, Demote(q) \/ Write(q) \/ Record(q)
        PROVE  /\ path[s] \in Exts => path'[s] \in Exts
               /\ disk \subseteq disk'
    <2>1. CASE Demote(q)
      <3>1. sha[q] \in disturbed
        BY <2>1 DEF Demote, Step, Kept, SubmitInv
      <3> QED BY <1>1, <2>1, <3>1 DEF Demote
    <2>2. CASE Write(q)
      BY <2>2 DEF Write, rowVars
    <2>3. CASE Record(q)
      BY <2>3 DEF Record, Step, BytesInv, rowVars
    <2> QED BY <1>3, <2>1, <2>2, <2>3
  <1>4. ASSUME NEW row \in stale, RemoveFile(row)
        PROVE  /\ path'[s] = path[s]
               /\ \A e \in Exts : <<s, e>> \in disk => <<s, e>> \in disk'
    <2>1. row[1] # s
      BY DEF Taken
    <2> QED BY <1>4, <2>1 DEF RemoveFile
  <1>5. ASSUME NEW row \in current, Nullify(row)
        PROVE  path'[s] = path[s] /\ UNCHANGED disk
    <2>1. row[1] # s /\ row[1] \in Shas
      BY Rows DEF Taken
    <2> QED BY <1>5, <2>1 DEF Nullify
  <1>6. ASSUME NEW l \in Shas, Lose(l)
        PROVE  /\ path'[s] = path[s]
               /\ \A e \in Exts : <<s, e>> \in disk => <<s, e>> \in disk'
    BY <1>6 DEF Lose, rowVars
  <1>7. CASE Cut
    BY <1>7 DEF Cut, Crash, NullifyFails, PassEnds
  <1> QED BY <1>2, <1>3, <1>4, <1>5, <1>6, <1>7, FileSteps

\* A path beside which the pass is not at work has its file.
LEMMA BackedApart ==
  ASSUME Kept, NEW s \in Shas, s \notin disturbed, s \notin Taken, path[s] \in Exts
  PROVE  <<s, path[s]>> \in disk
  BY InPurge DEF Kept, FileInv

\* The awaits of a submit that is not the one that steps.
LEMMA OthersWait ==
  ASSUME Types, [Next]_vars, NEW r \in Requests, ~Submit(r), at'[r] \in Mid
  PROVE  at'[r] = at[r] /\ saw'[r] = saw[r]
  <1> USE DEF Types, TypeOK, requestVars
  <1>1. CASE \E q \in Requests : Submit(q)
    <2>1. PICK q \in Requests : Submit(q)
      BY <1>1
    <2>2. q # r
      BY <2>1
    <2>3. at'[r] = at[r]
      BY <2>1, <2>2 DEF Submit, Lookup, Stat, Touch, Demote, Write, Record, Insert, Step
    <2>4. saw'[r] = saw[r]
      BY <2>1, <2>2 DEF Submit, Lookup, Stat, Touch, Demote, Write, Record, Insert
    <2> QED BY <2>3, <2>4
  <1>2. CASE Crash
    BY <1>2 DEF Crash, Mid
  <1>3. CASE \E q \in Requests : Drop(q)
    BY <1>3 DEF Drop, Mid
  <1>4. CASE UNCHANGED requestVars
    BY <1>4
  <1> QED BY <1>1, <1>2, <1>3, <1>4
      DEF Next, vars, ReadPath, ReadFile, Meanwhile, Hide, Restore, Visibly, Age, Lose, Purge,
          SelectStale, RemoveFile, Nullify, NullifyFails, Apart

LEMMA SubmitKept ==
  ASSUME Types, Kept, [Next]_vars
  PROVE  SubmitInv'
  <1> SUFFICES ASSUME NEW r \in Requests, sha[r] \notin disturbed'
               PROVE  /\ at'[r] # "demote"
                      /\ at'[r] = "stat" => <<sha[r], saw'[r]>> \in disk'
                      /\ at'[r] = "record" => <<sha[r], bytes[r]>> \in disk'
                      /\ at'[r] \in {"stat", "touch", "insert"} => path'[sha[r]] \in Exts
    BY Standing DEF SubmitInv
  <1> USE DEF Types, TypeOK
  <1>1. sha[r] \notin disturbed /\ sha[r] \in Shas
    BY Standing
  <1>2. at[r] \in Mid => sha[r] \notin Taken
    BY <1>1 DEF Kept, TakenInv, InFlight
  <1>3. /\ at[r] # "demote"
        /\ at[r] = "stat" => <<sha[r], saw[r]>> \in disk
        /\ at[r] = "record" => <<sha[r], bytes[r]>> \in disk
        /\ at[r] \in {"stat", "touch", "insert"} => path[sha[r]] \in Exts
    BY <1>1 DEF Kept, SubmitInv
  <1> USE DEF Step, Elsewhere, rowVars, Mid
  <1>4. CASE Lookup(r)
    <2>1. sha[r] \notin Taken
      BY <1>4 DEF Lookup
    <2>2. path[sha[r]] \in Exts => <<sha[r], path[sha[r]]>> \in disk
      BY <1>1, <2>1, BackedApart
    <2> QED BY <1>4, <2>2 DEF Lookup, Uncached
  <1>5. CASE Stat(r)
    BY <1>3, <1>5 DEF Stat
  <1>6. CASE Touch(r)
    BY <1>3, <1>6 DEF Touch
  <1>7. CASE Demote(r)
    BY <1>3, <1>7 DEF Demote
  <1>8. CASE Write(r)
    BY <1>3, <1>8 DEF Write
  <1>9. CASE Record(r)
    <2>1. bytes[r] \in Exts
      BY <1>9 DEF Record, BytesInv
    <2> QED BY <1>3, <1>9, <2>1 DEF Record
  <1>10. CASE Insert(r)
    BY <1>10 DEF Insert
  <1>11. CASE ~Submit(r) /\ at'[r] \in Mid
    <2>1. at'[r] = at[r] /\ saw'[r] = saw[r]
      BY <1>11, OthersWait
    <2>2. sha[r] \notin Taken
      BY <1>2, <1>11, <2>1
    <2>3. /\ path[sha[r]] \in Exts => path'[sha[r]] \in Exts
          /\ \A e \in Exts : <<sha[r], e>> \in disk => <<sha[r], e>> \in disk'
      BY <1>1, <2>2, HeldKept
    <2>4. /\ <<sha[r], saw[r]>> \in disk => saw[r] \in Exts
          /\ <<sha[r], bytes[r]>> \in disk => bytes[r] \in Exts
      OBVIOUS
    <2> QED BY <1>3, <2>1, <2>3, <2>4
  <1>12. CASE at'[r] \notin Mid
    BY <1>12
  <1> QED BY <1>4, <1>5, <1>6, <1>7, <1>8, <1>9, <1>10, <1>11, <1>12 DEF Submit

LEMMA JobKept ==
  ASSUME Types, Kept, [Next]_vars
  PROVE  JobInv'
  <1> SUFFICES ASSUME NEW r \in Requests, Guarding(r)', sha[r] \notin disturbed'
               PROVE  /\ path'[sha[r]] \in Exts /\ job'[r] # "missing"
                      /\ job'[r] = "reading" => <<sha[r], reread'[r]>> \in disk'
    BY Standing DEF JobInv
  <1> USE DEF Types, TypeOK
  <1>1. sha[r] \notin disturbed /\ sha[r] \in Shas
    BY Standing
  <1>2. CASE Insert(r)
    <2>1. path[sha[r]] \in Exts
      BY <1>1, <1>2 DEF Insert, Step, Kept, SubmitInv
    <2> QED BY <1>2, <2>1 DEF Insert, rowVars
  <1>3. CASE ~Insert(r)
    <2>1. Guarding(r)
      BY <1>3 DEF Guarding, Next, vars, rowVars, jobVars, Drop, Submit, Lookup, Stat, Touch, Demote,
                  Write, Record, Insert, ReadPath, ReadFile, Meanwhile, Hide, Restore, Visibly,
                  JobGoto, Age, Lose, Purge, SelectStale, RemoveFile, Nullify, NullifyFails, Apart,
                  Crash
    <2>2. /\ path[sha[r]] \in Exts /\ job[r] # "missing"
          /\ job[r] = "reading" => <<sha[r], reread[r]>> \in disk
      BY <1>1, <2>1 DEF Kept, JobInv
    <2>3. sha[r] \notin Taken
      BY <1>1, <2>1 DEF Kept, TakenInv
    <2>4. /\ path'[sha[r]] \in Exts
          /\ \A e \in Exts : <<sha[r], e>> \in disk => <<sha[r], e>> \in disk'
      BY <1>1, <2>2, <2>3, HeldKept
    <2>5. <<sha[r], path[sha[r]]>> \in disk
      BY <1>1, <2>2, <2>3, BackedApart
    <2>6. CASE ReadPath(r)
      <3>1. job'[r] = "reading" /\ reread'[r] = path[sha[r]]
        BY <2>2, <2>6 DEF ReadPath, JobGoto
      <3> QED BY <2>2, <2>4, <2>5, <3>1
    <2>7. CASE ReadFile(r)
      <3>1. job'[r] = "read"
        BY <2>2, <2>7 DEF ReadFile, JobGoto
      <3> QED BY <2>4, <3>1
    <2>8. CASE ~ReadPath(r) /\ ~ReadFile(r)
      <3>1. /\ job'[r] = "missing" => job[r] = "missing"
            /\ job'[r] = "reading" => job[r] = "reading"
        <4>1. ASSUME NEW q \in Requests, ReadPath(q) \/ ReadFile(q) \/ Insert(q)
              PROVE  job'[r] = job[r]
          BY <1>3, <2>8, <4>1 DEF ReadPath, ReadFile, Insert, JobGoto
        <4>2. CASE Crash
          BY <4>2 DEF Crash
        <4>3. \/ Crash \/ UNCHANGED job
              \/ \E q \in Requests : ReadPath(q) \/ ReadFile(q) \/ Insert(q)
          BY DEF Next, vars, jobVars, Drop, Submit, Lookup, Stat, Touch, Demote, Write, Record,
                 Hide, Restore, Visibly, Age, Lose, Purge, SelectStale, RemoveFile, Nullify,
                 NullifyFails, Apart
        <4> QED BY <4>1, <4>2, <4>3
      <3>2. reread'[r] = reread[r]
        <4>1. ASSUME NEW q \in Requests, ReadPath(q) PROVE reread'[r] = reread[r]
          BY <2>8, <4>1 DEF ReadPath
        <4>2. UNCHANGED reread \/ \E q \in Requests : ReadPath(q)
          BY DEF Next, vars, jobVars, Drop, Submit, Lookup, Stat, Touch, Demote, Write, Record, Insert,
                 ReadFile, Hide, Restore, Visibly, Age, Lose, Purge, SelectStale, RemoveFile, Nullify,
                 NullifyFails, Apart, Crash
        <4> QED BY <4>1, <4>2
      <3>3. <<sha[r], reread[r]>> \in disk => reread[r] \in Exts
        OBVIOUS
      <3> QED BY <2>2, <2>4, <3>1, <3>2, <3>3
    <2> QED BY <2>6, <2>7, <2>8
  <1> QED BY <1>2, <1>3

LEMMA KeptFirst == Init => Kept
  <1> SUFFICES ASSUME Init PROVE Kept
    OBVIOUS
  <1>1. PassInv /\ FileInv /\ SubmitInv
    BY InputNulls DEF Init, PassInv, FileInv, SubmitInv
  <1>2. Taken = {} /\ \A r \in Requests : ~Guarding(r)
    BY DEF Init, Taken, Guarding
  <1> QED BY <1>1, <1>2 DEF Kept, TakenInv, JobInv

LEMMA KeptStays == Types /\ Kept /\ [Next]_vars => Kept'
  BY StepPass, FileKept, TakenKept, SubmitKept, JobKept DEF Kept

\* A job that was never deleted finds its input, for any number of images,
\* submits, jobs, faults and crashes, unless a purge pass came to the image
\* while a submit of it was under way, or the row was left without its file by an
\* accident, a crash or an UPDATE of the purge that failed.
THEOREM InputLostOnlyByOverlapHolds == Spec => []InputLostOnlyByOverlap
  <1>1. Init => Kept
    BY KeptFirst
  <1>2. Types /\ Kept /\ [Next]_vars => Kept'
    BY KeptStays
  <1>3. Types /\ Kept => InputLostOnlyByOverlap
    <2> SUFFICES ASSUME Types, Kept, NEW r \in Requests, Guarding(r), sha[r] \notin disturbed
                 PROVE  Backed(sha[r]) /\ job[r] # "missing"
      BY DEF InputLostOnlyByOverlap, Guarding
    <2>1. path[sha[r]] \in Exts /\ job[r] # "missing" /\ sha[r] \in Shas
      BY DEF Types, TypeOK, Kept, JobInv
    <2>2. sha[r] \notin Taken
      BY DEF Kept, TakenInv
    <2> QED BY <2>1, <2>2, BackedApart DEF Backed
  <1> QED BY <1>1, <1>2, <1>3, TypesHold, PTL DEF Spec

-----------------------------------------------------------------------------
(* A cache without faults and crashes, disturbed or not.                   *)

\* A calm step is no fault and no crash, and comes from a calm cache.
LEMMA CalmStep ==
  ASSUME Types, [Next]_vars, Calm'
  PROVE  Calm /\ ~Cut /\ \A s \in Shas : ~Lose(s)
  <1>1. faults \in Nat /\ crashes \in Nat
    BY InputBounds DEF Types, TypeOK
  <1>2. UNCHANGED boundVars \/ Cut \/ \E s \in Shas : Lose(s)
    BY DEF Next, vars, boundVars, Drop, Submit, Lookup, Stat, Touch, Demote, Write, Record, Insert,
           Elsewhere, ReadPath, ReadFile, Meanwhile, Hide, Restore, Visibly, Age,
           Purge, SelectStale, RemoveFile, Nullify, Apart, Cut
  <1>3. ~Cut
    BY <1>1 DEF Cut, Crash, NullifyFails, Calm
  <1>4. \A s \in Shas : ~Lose(s)
    BY <1>1 DEF Lose, Calm
  <1> QED BY <1>2, <1>3, <1>4 DEF boundVars, Calm

Quietly == BackedInv /\ SelectInv /\ WriterInv

LEMMA BackedKept ==
  ASSUME Types, PassInv, Quietly, [Next]_vars, Calm'
  PROVE  BackedInv'
  <1> SUFFICES ASSUME NEW s \in Shas, path'[s] \in Exts, ~InHand(s)'
               PROVE  <<s, path'[s]>> \in disk'
    BY DEF BackedInv
  <1> USE InputNulls DEF Types, TypeOK, rowVars, jobVars, purgeVars, boundVars
  <1>1. CASE FileStep
    BY <1>1 DEF FileStep, Quietly, BackedInv, InHand
  <1>2. ASSUME NEW r \in Requests, Demote(r) \/ Write(r) PROVE <<s, path'[s]>> \in disk'
    BY <1>2 DEF Demote, Write, Elsewhere, Quietly, BackedInv, InHand
  <1>3. ASSUME NEW r \in Requests, Record(r) PROVE <<s, path'[s]>> \in disk'
    <2>1. CASE sha[r] = s /\ path'[s] = bytes[r]
      BY <1>3, <2>1 DEF Record, Step, Quietly, WriterInv
    <2>2. CASE ~(sha[r] = s /\ path'[s] = bytes[r])
      BY <1>3, <2>2 DEF Record, Elsewhere, Quietly, BackedInv, InHand
    <2> QED BY <2>1, <2>2
  <1>4. ASSUME NEW row \in stale, RemoveFile(row) PROVE <<s, path'[s]>> \in disk'
    <2>1. row[1] # s
      BY <1>4 DEF RemoveFile, InHand
    <2>2. <<s, path[s]>> \in disk
      BY <1>4 DEF RemoveFile, Quietly, BackedInv, PassInv, InHand
    <2>3. <<s, path[s]>> # row
      BY <2>1
    <2> QED BY <1>4, <2>2, <2>3 DEF RemoveFile
  <1>5. ASSUME NEW row \in current, Nullify(row) PROVE <<s, path'[s]>> \in disk'
    <2>1. row[1] \in Shas
      BY Rows
    <2>2. row[1] # s /\ path'[s] = path[s]
      BY <1>5, <2>1 DEF Nullify
    <2>3. ~InHand(s)
      BY <2>2 DEF InHand, PassInv
    <2> QED BY <1>5, <2>2, <2>3 DEF Nullify, Quietly, BackedInv
  <1> QED BY <1>1, <1>2, <1>3, <1>4, <1>5, FileSteps, CalmStep

LEMMA SelectKept ==
  ASSUME Types, PassInv, Quietly, [Next]_vars, Calm'
  PROVE  SelectInv'
  <1> USE DEF Types, TypeOK
  <1>1. ASSUME NEW r \in Requests, Submit(r) PROVE SelectInv'
    <2> USE DEF Step, Elsewhere, purgeVars, rowVars, SelectInv, InSelect, Quietly
    <2>1. CASE Lookup(r)
      <3>1. InSelect(sha[r]) => path[sha[r]] \in Exts
        BY Rows
      <3> QED BY <2>1, <3>1 DEF Lookup
    <2>2. CASE Stat(r)
      <3>1. InSelect(sha[r]) => <<sha[r], saw[r]>> \in disk
        <4>1. ASSUME InSelect(sha[r]) PROVE path[sha[r]] \in Exts /\ saw[r] = path[sha[r]]
          BY <2>2, <4>1, Rows DEF Stat
        <4>2. ASSUME InSelect(sha[r]) PROVE ~InHand(sha[r])
          BY <4>2 DEF InHand, PassInv
        <4> QED BY <4>1, <4>2 DEF BackedInv
      <3> QED BY <2>2, <3>1 DEF Stat
    <2>3. CASE Touch(r)
      BY <2>3 DEF Touch
    <2>4. CASE Demote(r)
      <3>1. ~InSelect(sha[r])
        BY <2>4 DEF Demote
      <3> QED BY <2>4, <3>1 DEF Demote
    <2>5. CASE Write(r)
      BY <2>5 DEF Write
    <2>6. CASE Record(r)
      <3>1. ~InSelect(sha[r])
        BY <2>6 DEF Record
      <3> QED BY <2>6, <3>1 DEF Record
    <2>7. CASE Insert(r)
      BY <2>7 DEF Insert
    <2> QED BY <1>1, <2>1, <2>2, <2>3, <2>4, <2>5, <2>6, <2>7 DEF Submit
  <1>2. CASE SelectStale
    <2>1. \A row \in stale' : path[row[1]] = row[2] /\ row[1] \in Stale
      BY <1>2 DEF SelectStale
    <2>2. current = {}
      BY <1>2 DEF SelectStale, PassInv
    <2>3. ASSUME NEW r \in Requests, InSelect(sha[r])'
          PROVE  /\ at[r] \notin {"demote", "write", "record"}
                 /\ at[r] = "stat" => saw[r] = path[sha[r]]
      <3>1. sha[r] \in Stale
        BY <1>2, <2>1, <2>3 DEF InSelect, SelectStale, Apart, requestVars
      <3> QED BY <2>2, <3>1 DEF Stale, Quietly, WriterInv, InHand
    <2> QED BY <1>2, <2>1, <2>3 DEF SelectStale, Apart, requestVars, SelectInv
  <1>3. ASSUME NEW row \in stale, RemoveFile(row) PROVE SelectInv'
    BY <1>3 DEF RemoveFile, Apart, requestVars, Quietly, SelectInv, InSelect
  <1>4. ASSUME NEW row \in current, Nullify(row) PROVE SelectInv'
    <2>1. \A other \in stale : other[1] # row[1]
      BY DEF PassInv
    <2>2. \A other \in stale : path'[other[1]] = path[other[1]]
      BY <1>4, <2>1, Rows DEF Nullify
    <2>3. \A r \in Requests : InSelect(sha[r]) => path'[sha[r]] = path[sha[r]]
      BY <2>2 DEF InSelect
    <2> QED BY <1>4, <2>2, <2>3 DEF Nullify, Apart, requestVars, Quietly, SelectInv, InSelect
  <1>5. ASSUME NEW r \in Requests, Drop(r) PROVE SelectInv'
    BY <1>5 DEF Drop, rowVars, purgeVars, Quietly, SelectInv, InSelect
  <1>6. CASE UNCHANGED <<path, requestVars, purgeVars>>
    BY <1>6 DEF requestVars, purgeVars, Quietly, SelectInv, InSelect
  <1>7. \/ \E r \in Requests : Submit(r) \/ Drop(r)
        \/ Purge
        \/ UNCHANGED <<path, requestVars, purgeVars>>
    BY CalmStep DEF Cut, Next, vars, rowVars, ReadPath, ReadFile, Meanwhile, Hide, Restore, Visibly, Age
  <1> QED BY <1>1, <1>2, <1>3, <1>4, <1>5, <1>6, <1>7, CalmStep DEF Purge, Cut

LEMMA WriterKept ==
  ASSUME Types, PassInv, Quietly, [Next]_vars, Calm'
  PROVE  WriterInv'
  <1> USE InputNulls DEF Types, TypeOK
  <1>1. ASSUME NEW r \in Requests, Submit(r) PROVE WriterInv'
    <2> USE DEF Step, Elsewhere, purgeVars, rowVars, WriterInv, InHand, Quietly
    <2>1. CASE Lookup(r)
      BY <2>1 DEF Lookup, Uncached
    <2>2. CASE Stat(r)
      BY <2>2 DEF Stat, BackedInv
    <2>3. CASE Touch(r)
      BY <2>3 DEF Touch
    <2>4. CASE Demote(r)
      BY <2>4 DEF Demote, Uncached
    <2>5. CASE Write(r)
      BY <2>5 DEF Write
    <2>6. CASE Record(r)
      BY <2>6 DEF Record
    <2>7. CASE Insert(r)
      BY <2>7 DEF Insert
    <2> QED BY <1>1, <2>1, <2>2, <2>3, <2>4, <2>5, <2>6, <2>7 DEF Submit
  <1>2. CASE SelectStale
    BY <1>2 DEF SelectStale, Apart, requestVars, Quietly, WriterInv, InHand
  <1>3. ASSUME NEW row \in stale, RemoveFile(row) PROVE WriterInv'
    <2>1. \A r \in Requests : at[r] = "record" => <<sha[r], bytes[r]>> # row
      BY <1>3 DEF Quietly, SelectInv, InSelect
    <2>2. current = {}
      BY <1>3 DEF RemoveFile, PassInv
    <2> QED BY <1>3, <2>1, <2>2 DEF RemoveFile, Apart, requestVars, Quietly, WriterInv, InHand
  <1>4. ASSUME NEW row \in current, Nullify(row) PROVE WriterInv'
    <2>1. row[1] \in Shas
      BY Rows
    <2>2. \A s \in Shas : IF s = row[1] THEN path'[s] = NoPath ELSE path'[s] = path[s] /\ ~InHand(s)
      BY <1>4, <2>1 DEF Nullify, InHand, PassInv
    <2> QED BY <1>4, <2>2 DEF Nullify, Apart, requestVars, Quietly, WriterInv
  <1>5. ASSUME NEW r \in Requests, Drop(r) PROVE WriterInv'
    BY <1>5 DEF Drop, rowVars, purgeVars, Quietly, WriterInv, InHand
  <1>6. ASSUME NEW s \in Shas, Age(s) PROVE WriterInv'
    <2>1. \A r \in Requests : sha[r] = s => at[r] \notin Mid
      BY <1>6 DEF Age, InFlight
    <2> QED BY <1>6, <2>1 DEF Age, Mid, requestVars, purgeVars, Quietly, WriterInv, InHand
  <1>7. CASE UNCHANGED <<rowVars, disk, requestVars, purgeVars>>
    BY <1>7 DEF rowVars, requestVars, purgeVars, Quietly, WriterInv, InHand
  <1>8. \/ \E r \in Requests : Submit(r) \/ Drop(r)
        \/ Purge
        \/ \E s \in Shas : Age(s)
        \/ UNCHANGED <<rowVars, disk, requestVars, purgeVars>>
    BY CalmStep DEF Cut, Next, vars, ReadPath, ReadFile, Meanwhile, Hide, Restore, Visibly
  <1> QED BY <1>1, <1>2, <1>3, <1>4, <1>5, <1>6, <1>7, <1>8, CalmStep DEF Purge, Cut

\* As long as no file vanishes, no UPDATE of the purge fails and the server does
\* not crash, a row that claims a path has its file, but while the purge has that
\* row: whatever submits of the image, reads of it and passes interleave.
THEOREM DanglingOnlyUnderPurgeHolds == Spec => []DanglingOnlyUnderPurge
  <1>1. Init => Calmly
    BY InputNulls DEF Init, Calmly, PassInv, BackedInv, SelectInv, WriterInv, InSelect
  <1>2. Types /\ Calmly /\ [Next]_vars => Calmly'
    <2> SUFFICES ASSUME Types, Calmly, [Next]_vars PROVE Calmly'
      OBVIOUS
    <2>1. PassInv'
      BY StepPass DEF Calmly
    <2>2. ASSUME Calm' PROVE Quietly /\ PassInv
      BY <2>2, CalmStep DEF Calmly, Quietly
    <2>3. ASSUME Calm' PROVE BackedInv' /\ SelectInv' /\ WriterInv'
      BY <2>2, <2>3, BackedKept, SelectKept, WriterKept
    <2> QED BY <2>1, <2>3 DEF Calmly
  <1>3. Calmly => DanglingOnlyUnderPurge
    BY InPurge DEF Calmly, Calm, BackedInv, DanglingOnlyUnderPurge, Backed
  <1> QED BY <1>1, <1>2, <1>3, TypesHold, PTL DEF Spec

-----------------------------------------------------------------------------
(* The uploads that were turned away with a 500.                           *)

\* A request takes its next await, is cut, or stands still.
LEMMA RequestSteps ==
  ASSUME Types, [Next]_vars, NEW r \in Requests
  PROVE  \/ Submit(r)
         \/ at[r] \in Mid /\ at'[r] = "lost" /\ saw'[r] = saw[r]
         \/ at'[r] = at[r] /\ saw'[r] = saw[r]
  <1> USE DEF Types, TypeOK, requestVars
  <1>1. ASSUME NEW q \in Requests, Submit(q), q # r
        PROVE  at'[r] = at[r] /\ saw'[r] = saw[r]
    <2>1. at'[r] = at[r]
      BY <1>1 DEF Submit, Lookup, Stat, Touch, Demote, Write, Record, Insert, Step
    <2>2. saw'[r] = saw[r]
      BY <1>1 DEF Submit, Lookup, Stat, Touch, Demote, Write, Record, Insert
    <2> QED BY <2>1, <2>2
  <1>2. CASE Crash
    BY <1>2 DEF Crash
  <1>3. CASE \E q \in Requests : Drop(q)
    BY <1>3 DEF Drop
  <1>4. CASE UNCHANGED requestVars
    BY <1>4
  <1> QED BY <1>1, <1>2, <1>3, <1>4
      DEF Next, vars, ReadPath, ReadFile, Meanwhile, Hide, Restore, Visibly, Age, Lose, Purge,
          SelectStale, RemoveFile, Nullify, NullifyFails, Apart

\* The upload that inserted the row of an image: it had found none.
Inserter(q, s) ==
  /\ sha[q] = s /\ saw[q] = NoRow /\ bytes[q] \in Exts
  /\ at[q] \in {"insert", "accepted", "lost"}

\* What a request or the pass has seen has a row, and every row was inserted.
RowInv ==
  /\ \A r \in Requests :
       /\ saw[r] # NoRow => path[sha[r]] # NoRow
       /\ at[r] \in {"stat", "demote"} => saw[r] # NoRow
       /\ at[r] = "error500" => saw[r] = NoRow /\ path[sha[r]] # NoRow
  /\ \A row \in stale \cup current : path[row[1]] # NoRow
  /\ \A s \in Shas : path[s] # NoRow => \E q \in Requests : Inserter(q, s)

\* Rows are only added, by an upload that found none.
LEMMA RowsStay ==
  ASSUME Types, RowInv, [Next]_vars, NEW s \in Shas
  PROVE  /\ path[s] # NoRow => path'[s] # NoRow
         /\ path[s] = NoRow /\ path'[s] # NoRow =>
              \E r \in Requests : Record(r) /\ sha[r] = s
  <1> USE InputNulls DEF Types, TypeOK
  <1>1. CASE FileStep
    BY <1>1 DEF FileStep
  <1>2. ASSUME NEW r \in Requests, Demote(r)
        PROVE  (path[s] # NoRow <=> path'[s] # NoRow)
    BY <1>2 DEF Demote, Step, RowInv
  <1>3. ASSUME NEW r \in Requests, Write(r) PROVE path'[s] = path[s]
    BY <1>3 DEF Write, rowVars
  <1>4. ASSUME NEW r \in Requests, Record(r)
        PROVE  path'[s] # path[s] => sha[r] = s /\ path'[s] \in Exts
    <2>1. bytes[r] \in Exts
      BY <1>4 DEF Record, Step, BytesInv
    <2> QED BY <1>4, <2>1 DEF Record, rowVars
  <1>5. ASSUME NEW row \in stale, RemoveFile(row) PROVE path'[s] = path[s]
    BY <1>5 DEF RemoveFile
  <1>6. ASSUME NEW row \in current, Nullify(row)
        PROVE  (path[s] # NoRow <=> path'[s] # NoRow)
    BY <1>6 DEF Nullify, RowInv
  <1>7. ASSUME NEW l \in Shas, Lose(l) PROVE path'[s] = path[s]
    BY <1>7 DEF Lose, rowVars
  <1>8. CASE Cut
    BY <1>8 DEF Cut, Crash, NullifyFails, PassEnds
  <1> QED BY <1>1, <1>2, <1>3, <1>4, <1>5, <1>6, <1>7, <1>8, FileSteps

LEMMA InserterStays ==
  ASSUME Types, [Next]_vars, NEW q \in Requests, NEW s, Inserter(q, s)
  PROVE  Inserter(q, s)'
  <1>1. CASE Submit(q)
    <2>1. Insert(q)
      BY <1>1 DEF Submit, Lookup, Stat, Touch, Demote, Write, Record, Step, Inserter
    <2> QED BY <2>1, Standing DEF Insert, Step, Inserter, Types, TypeOK
  <1>2. CASE ~Submit(q)
    BY <1>2, RequestSteps, Standing DEF Inserter
  <1> QED BY <1>1, <1>2

LEMMA RowKept ==
  ASSUME Types, RowInv, [Next]_vars
  PROVE  RowInv'
  <1> USE InputNulls DEF Types, TypeOK
  <1>1. \A r \in Requests : sha'[r] = sha[r] /\ sha[r] \in Shas
    BY Standing
  <1>2. \A s \in Shas : path[s] # NoRow => path'[s] # NoRow
    BY RowsStay
  <1>3. ASSUME NEW r \in Requests
        PROVE  /\ saw'[r] # NoRow => path'[sha[r]] # NoRow
               /\ at'[r] \in {"stat", "demote"} => saw'[r] # NoRow
               /\ at'[r] = "error500" => saw'[r] = NoRow /\ path'[sha[r]] # NoRow
    <2> USE DEF Step, rowVars
    <2>1. CASE Lookup(r)
      BY <1>1, <1>2, <2>1 DEF Lookup, Uncached
    <2>2. CASE Stat(r) \/ Touch(r) \/ Write(r) \/ Insert(r)
      BY <1>1, <1>2, <2>2 DEF Stat, Touch, Write, Insert, RowInv
    <2>3. CASE Demote(r)
      BY <1>1, <1>2, <2>3 DEF Demote, Uncached, RowInv
    <2>4. CASE Record(r)
      BY <1>1, <1>2, <2>4 DEF Record, Conflict, RowInv
    <2>5. CASE ~Submit(r)
      BY <1>1, <1>2, <2>5, RequestSteps DEF RowInv
    <2> QED BY <2>1, <2>2, <2>3, <2>4, <2>5 DEF Submit
  <1>4. ASSUME NEW row \in stale' \cup current' PROVE path'[row[1]] # NoRow
    <2>1. CASE row \in stale \cup current
      BY <1>2, <2>1, Rows DEF RowInv
    <2>2. CASE row \notin stale \cup current
      <3>1. SelectStale
        BY <1>4, <2>2 DEF Next, vars, purgeVars, Drop, Submit, Lookup, Stat, Touch, Demote, Write,
               Record, Insert, Elsewhere, ReadPath, ReadFile, Meanwhile, Hide, Restore, Visibly, Age,
               Lose, Crash, Purge, RemoveFile, Nullify, NullifyFails, PassEnds, Apart
      <3> QED BY <1>2, <1>4, <2>2, <3>1 DEF SelectStale, Stale
    <2> QED BY <2>1, <2>2
  <1>5. ASSUME NEW s \in Shas, path'[s] # NoRow
        PROVE  \E q \in Requests : Inserter(q, s)'
    <2>1. CASE path[s] # NoRow
      BY <2>1, InserterStays DEF RowInv
    <2>2. CASE path[s] = NoRow
      <3>1. PICK r \in Requests : Record(r) /\ sha[r] = s
        BY <1>5, <2>2, RowsStay
      <3>2. saw[r] = NoRow /\ bytes[r] \in Exts
        BY <2>2, <3>1 DEF Record, Step, RowInv, BytesInv
      <3>3. at'[r] = "insert" /\ saw'[r] = saw[r]
        BY <2>2, <3>1 DEF Record, Conflict, Step
      <3> QED BY <3>1, <3>2, <3>3, Standing DEF Inserter
    <2> QED BY <2>1, <2>2
  <1> QED BY <1>1, <1>3, <1>4, <1>5 DEF RowInv

\* For any number of images, requests, crashes and faults: the 500 of an upload
\* is always the answer to a race for the first row of its image.
THEOREM ConflictOnlyByRaceHolds == Spec => []ConflictOnlyByRace
  <1>1. Init => RowInv
    BY InputNulls DEF Init, RowInv
  <1>2. Types /\ RowInv /\ [Next]_vars => RowInv'
    BY RowKept
  <1>3. Types /\ RowInv => ConflictOnlyByRace
    BY DEF Types, TypeOK, RowInv, Inserter, ConflictOnlyByRace
  <1> QED BY <1>1, <1>2, <1>3, TypesHold, PTL DEF Spec

-----------------------------------------------------------------------------
(* The cached files no row names.                                          *)

\* Why a file may be in the cache without its row naming it.
Reason(s, e) ==
  \E r \in Requests :
    /\ sha[r] = s /\ bytes[r] = e
    /\ \/ at[r] \in {"record", "lost"}
       \/ \E q \in Requests : sha[q] = s /\ bytes[q] \in Exts \ {e}

\* Every file, and every path, is of somebody's upload.
OwnedInv ==
  /\ \A row \in disk : \E r \in Requests : sha[r] = row[1] /\ bytes[r] = row[2]
  /\ \A s \in Shas : path[s] \in Exts => \E r \in Requests : sha[r] = s /\ bytes[r] = path[s]

\* A row somebody is about to insert is not one a pass has emptied.
SawInv ==
  \A r \in Requests :
    at[r] \in Mid /\ saw[r] = NoRow /\ sha[r] \notin disturbed => path[sha[r]] # NoPath

\* What the pass took and nobody disturbed still has its path, and once removed
\* no file.
HandInv ==
  \A row \in stale \cup current :
    row[1] \notin disturbed =>
      /\ path[row[1]] = row[2]
      /\ row \in current => row \notin disk \ unremoved

Strays == Kept /\ OwnedInv /\ SawInv /\ HandInv /\ StrayHasReason

LEMMA OwnedKept ==
  ASSUME Types, OwnedInv, [Next]_vars
  PROVE  OwnedInv'
  <1> USE InputNulls DEF Types, TypeOK
  <1>1. ASSUME NEW row \in disk' PROVE \E r \in Requests : sha[r] = row[1] /\ bytes[r] = row[2]
    <2>1. CASE row \in disk
      BY <2>1 DEF OwnedInv
    <2>2. CASE row \notin disk
      <3>1. PICK r \in Requests : Write(r)
        BY <1>1, <2>2, FileSteps DEF FileStep, Demote, Record, RemoveFile, Nullify, Lose, Cut, Crash,
            NullifyFails, PassEnds
      <3>2. row = <<sha[r], bytes[r]>>
        BY <1>1, <2>2, <3>1 DEF Write
      <3> QED BY <3>2
    <2> QED BY <2>1, <2>2
  <1>2. ASSUME NEW s \in Shas, path'[s] \in Exts
        PROVE  \E r \in Requests : sha[r] = s /\ bytes[r] = path'[s]
    <2>1. CASE path'[s] = path[s]
      BY <1>2, <2>1 DEF OwnedInv
    <2>2. CASE path'[s] # path[s]
      <3>1. PICK r \in Requests : Record(r)
        BY <1>2, <2>2, FileSteps DEF FileStep, Demote, Write, RemoveFile, Nullify, Lose, Cut, Crash,
            NullifyFails, PassEnds, rowVars
      <3> QED BY <1>2, <2>2, <3>1 DEF Record, rowVars
    <2> QED BY <2>1, <2>2
  <1> QED BY <1>1, <1>2, Standing DEF OwnedInv

\* Who changes the path of an image nobody disturbed.
LEMMA PathChange ==
  ASSUME Types, Kept, [Next]_vars, NEW s \in Shas, s \notin disturbed', path'[s] # path[s]
  PROVE  \/ \E r \in Requests : Record(r) /\ sha[r] = s /\ path'[s] = bytes[r] /\ UNCHANGED disk
         \/ \E row \in current :
              Nullify(row) /\ row[1] = s /\ path'[s] = NoPath /\ UNCHANGED disk
  <1> USE DEF Types, TypeOK
  <1>1. s \notin disturbed
    BY Standing
  <1>2. ASSUME NEW r \in Requests, Demote(r) PROVE FALSE
    BY <1>1, <1>2 DEF Demote, Step, Kept, SubmitInv
  <1> QED BY <1>2, FileSteps DEF FileStep, Write, Record, RemoveFile, Nullify, Lose, Cut, Crash,
            NullifyFails, PassEnds, rowVars

LEMMA SawKept ==
  ASSUME Types, Strays, [Next]_vars
  PROVE  SawInv'
  <1> SUFFICES ASSUME NEW r \in Requests, at'[r] \in Mid, saw'[r] = NoRow, sha[r] \notin disturbed',
                      path'[sha[r]] = NoPath
               PROVE  FALSE
    BY Standing DEF SawInv
  <1> USE InputNulls DEF Types, TypeOK
  <1>1. sha[r] \notin disturbed /\ sha[r] \in Shas
    BY Standing
  <1>2. CASE Lookup(r)
    BY <1>2 DEF Lookup, rowVars
  <1>3. CASE ~Lookup(r)
    <2>1. at[r] \in Mid /\ saw[r] = NoRow
      <3>1. CASE Submit(r)
        BY <1>3, <3>1 DEF Submit, Stat, Touch, Demote, Write, Record, Insert, Step, Mid
      <3>2. CASE ~Submit(r)
        BY <3>2, RequestSteps DEF Mid
      <3> QED BY <3>1, <3>2
    <2>2. path[sha[r]] # NoPath
      BY <1>1, <2>1 DEF Strays, SawInv
    <2>3. sha[r] \notin Taken
      BY <1>1, <2>1 DEF Strays, Kept, TakenInv, InFlight
    <2>4. ~ \E row \in current : row[1] = sha[r]
      BY <2>3 DEF Taken
    <2>5. PICK q \in Requests : Record(q) /\ path'[sha[r]] = bytes[q]
      BY <1>1, <2>2, <2>4, PathChange DEF Strays
    <2> QED BY <2>5 DEF Record, Step, BytesInv
  <1> QED BY <1>2, <1>3

LEMMA HandKept ==
  ASSUME Types, Strays, [Next]_vars
  PROVE  HandInv'
  <1> SUFFICES ASSUME NEW row \in stale' \cup current', row[1] \notin disturbed'
               PROVE  /\ path'[row[1]] = row[2]
                      /\ row \in current' => row \notin disk' \ unremoved'
    BY DEF HandInv
  <1> USE DEF Types, TypeOK
  <1>1. row[1] \notin disturbed
    BY Standing
  <1>2. CASE SelectStale
    <2>1. current' = {}
      BY <1>2 DEF SelectStale, Strays, Kept, PassInv
    <2>2. row \in stale'
      BY <2>1
    <2> QED BY <1>2, <2>1, <2>2 DEF SelectStale
  <1>3. CASE Cut
    BY <1>3 DEF Cut, Crash, NullifyFails, PassEnds
  <1>4. CASE ~SelectStale /\ ~Cut
    <2>1. /\ row \in stale \cup current
          /\ row \in current' /\ row \notin current => RemoveFile(row)
      BY <1>4 DEF Next, vars, purgeVars, Drop, Submit, Lookup, Stat, Touch, Demote, Write,
             Record, Insert, Elsewhere, ReadPath, ReadFile, Meanwhile, Hide, Restore, Visibly, Age,
             Lose, Purge, RemoveFile, Nullify, Apart, Cut
    <2>2. row[1] \in Shas /\ row[1] \in Taken /\ row = <<row[1], row[2]>>
      BY <2>1, Rows DEF Taken
    <2>3. \A r \in Requests : sha[r] = row[1] => at[r] \notin Mid
      BY <1>1, <2>2 DEF Strays, Kept, TakenInv, InFlight
    <2>4. path'[row[1]] = path[row[1]]
      <3>1. ASSUME NEW r \in Requests, Record(r) PROVE sha[r] # row[1]
        BY <2>3, <3>1 DEF Record, Step, Mid
      <3>2. ASSUME NEW other \in current, Nullify(other) PROVE other[1] # row[1]
        <4>1. current' = {} /\ stale' = stale
          BY <3>2 DEF Nullify
        <4>2. row \in stale
          BY <4>1
        <4> QED BY <4>2 DEF Strays, Kept, PassInv
      <3> QED BY <1>1, <2>2, <3>1, <3>2, PathChange DEF Strays
    <2>5. ASSUME row \in current' PROVE row \notin disk' \ unremoved'
      <3>1. CASE RemoveFile(row)
        BY <3>1 DEF RemoveFile
      <3>2. CASE row \in current
        <4>1. row \notin disk \ unremoved
          BY <1>1, <3>2 DEF Strays, HandInv
        <4>2. row \in disk' => row \in disk
          <5>1. ASSUME NEW r \in Requests, Write(r) PROVE row # <<sha[r], bytes[r]>>
            BY <2>3, <5>1 DEF Write, Step, Mid
          <5> QED BY <5>1, FileSteps DEF FileStep, Demote, Write, Record, RemoveFile, Nullify, Lose, Cut, Crash,
            NullifyFails, PassEnds
        <4>3. unremoved \subseteq unremoved'
          BY DEF Next, vars, purgeVars, Drop, Submit, Lookup, Stat, Touch, Demote, Write,
             Record, Insert, Elsewhere, ReadPath, ReadFile, Meanwhile, Hide, Restore, Visibly, Age,
             Lose, Purge, SelectStale, RemoveFile, Nullify, NullifyFails, PassEnds, Apart, Crash
        <4> QED BY <4>1, <4>2, <4>3
      <3> QED BY <2>1, <2>5, <3>1, <3>2
    <2>6. path[row[1]] = row[2]
      BY <1>1, <2>1 DEF Strays, HandInv
    <2> QED BY <2>4, <2>5, <2>6
  <1> QED BY <1>2, <1>3, <1>4

\* A reason stands until the row names the file.
LEMMA ReasonStays ==
  ASSUME Types, Strays, [Next]_vars, NEW s \in Shas, NEW e \in Exts,
         s \notin disturbed', path'[s] # e, Reason(s, e)
  PROVE  Reason(s, e)'
  <1> USE InputNulls DEF Types, TypeOK
  <1>1. PICK r \in Requests :
          /\ sha[r] = s /\ bytes[r] = e
          /\ \/ at[r] \in {"record", "lost"}
             \/ \E q \in Requests : sha[q] = s /\ bytes[q] \in Exts \ {e}
    BY DEF Reason
  <1>2. CASE \E q \in Requests : sha[q] = s /\ bytes[q] \in Exts \ {e}
    BY <1>1, <1>2, Standing DEF Reason
  <1>3. CASE Record(r)
    <2>1. path'[s] = path[s] /\ saw[r] = NoRow /\ path[s] # NoRow /\ at[r] \in Mid
      BY <1>1, <1>3 DEF Record, Conflict, Step, Mid, rowVars
    <2>2. path[s] # NoPath
      BY <1>1, <2>1, Standing DEF Strays, SawInv
    <2>3. PICK q \in Requests : sha[q] = s /\ bytes[q] = path[s]
      BY <2>1, <2>2 DEF Strays, OwnedInv
    <2> QED BY <1>1, <2>1, <2>2, <2>3, Standing DEF Reason
  <1>4. CASE at[r] \in {"record", "lost"} /\ ~Record(r)
    <2>1. at'[r] \in {"record", "lost"}
      <3>1. ~Submit(r)
        BY <1>4 DEF Submit, Lookup, Stat, Touch, Demote, Write, Insert, Step
      <3> QED BY <1>4, <3>1, RequestSteps
    <2> QED BY <1>1, <2>1, Standing DEF Reason
  <1> QED BY <1>1, <1>2, <1>3, <1>4

LEMMA StrayKept ==
  ASSUME Types, Strays, [Next]_vars
  PROVE  StrayHasReason'
  <1> SUFFICES ASSUME NEW s \in Shas, s \notin disturbed', NEW e \in Exts,
                      <<s, e>> \in disk' \ unremoved', path'[s] # e
               PROVE  Reason(s, e)'
    BY DEF StrayHasReason, Reason
  <1> USE DEF Types, TypeOK
  <1>1. s \notin disturbed
    BY Standing
  <1>2. CASE <<s, e>> \notin disk
    <2>1. PICK r \in Requests : Write(r)
      BY <1>2, FileSteps DEF FileStep, Demote, Record, RemoveFile, Nullify, Lose, Cut, Crash,
            NullifyFails, PassEnds
    <2>2. sha[r] = s /\ bytes[r] = e /\ at'[r] = "record"
      BY <1>2, <2>1 DEF Write, Step
    <2> QED BY <2>2, Standing DEF Reason
  <1>3. CASE <<s, e>> \in disk
    <2>1. <<s, e>> \in disk \ unremoved
      BY <1>3 DEF Next, vars, purgeVars, Drop, Submit, Lookup, Stat, Touch, Demote, Write,
             Record, Insert, Elsewhere, ReadPath, ReadFile, Meanwhile, Hide, Restore, Visibly, Age,
             Lose, Purge, SelectStale, RemoveFile, Nullify, NullifyFails, PassEnds, Apart, Crash
    <2>2. CASE path[s] # e
      BY <1>1, <2>1, <2>2, ReasonStays DEF Strays, StrayHasReason, Reason
    <2>3. CASE path[s] = e
      <3>1. ASSUME NEW row \in current, Nullify(row), row[1] = s PROVE FALSE
        <4>1. path[s] = row[2] /\ row \notin disk \ unremoved
          BY <1>1, <3>1 DEF Strays, HandInv
        <4> QED BY <2>1, <2>3, <3>1, <4>1, Rows
      <3>2. PICK q \in Requests : Record(q) /\ sha[q] = s /\ path'[s] = bytes[q]
        BY <2>3, <3>1, PathChange DEF Strays
      <3>3. bytes[q] \in Exts \ {e}
        BY <3>2 DEF Record, Step, BytesInv
      <3>4. PICK r \in Requests : sha[r] = s /\ bytes[r] = e
        BY <2>3 DEF Strays, OwnedInv
      <3> QED BY <3>2, <3>3, <3>4, Standing DEF Reason
    <2> QED BY <2>2, <2>3
  <1> QED BY <1>2, <1>3

\* For any number of images, extensions, requests, crashes and faults: a file
\* that stays in the cache for want of a row comes of a cut upload, of two
\* extensions, of a removal that failed or of a disturbance, and of nothing else.
THEOREM StrayHasReasonHolds == Spec => []StrayHasReason
  <1>1. Init => Strays
    BY KeptFirst, InputNulls DEF Init, Strays, OwnedInv, SawInv, HandInv, StrayHasReason
  <1>2. Types /\ Strays /\ [Next]_vars => Strays'
    BY KeptStays, OwnedKept, SawKept, HandKept, StrayKept DEF Strays
  <1>3. Strays => StrayHasReason
    BY DEF Strays
  <1> QED BY <1>1, <1>2, <1>3, TypesHold, PTL DEF Spec
=============================================================================
