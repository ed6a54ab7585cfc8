-------------------------- MODULE OutputFilesProofs --------------------------
(***************************************************************************)
(* What holds of OutputFiles for every set of jobs and of requests and     *)
(* every number of faults and crashes, proved with TLAPS: the files of a   *)
(* visible job are there, a purged job leaves none, and no row goes before *)
(* its grace is over.                                                      *)
(***************************************************************************)
EXTENDS OutputFiles, FiniteSetTheorems, SequenceTheorems, TLAPS

-----------------------------------------------------------------------------
(* The plan of the render task: per tier the JPEG, its column, the AVIF.   *)

Rests == {SubSeq(Plan, i + 1, Len(Plan)) : i \in 0 .. Len(Plan)}

LEMMA PlanSteps ==
  /\ Plan \in Seq(TierSet \X Chores)
  /\ \A k \in 1 .. Len(Plan) : Plan[k][2] = "jpeg" =>
       /\ k + 2 \in 1 .. Len(Plan)
       /\ Plan[k + 1] = <<Plan[k][1], "column">>
       /\ Plan[k + 2] = <<Plan[k][1], "avif">>
  /\ \A k \in 1 .. Len(Plan) : Plan[k][2] = "column" =>
       k + 1 \in 1 .. Len(Plan) /\ Plan[k + 1] = <<Plan[k][1], "avif">>
  /\ \A k \in 1 .. Len(Plan) : Plan[k][2] = "avif" =>
       k = Len(Plan) \/ Plan[k + 1][2] = "jpeg"
  <1>1. CASE Tiers = <<"thumb">>
    <2>1. TierSet = {"thumb"} /\ Len(Tiers) = 1 /\ Tiers[1] = "thumb"
      BY <1>1 DEF TierSet
    <2>2. Plan = [i \in 1 .. 3 |-> <<"thumb", <<"jpeg", "column", "avif">>[((i - 1) % 3) + 1]>>]
      BY <2>1 DEF Plan
    <2>3. Plan[1] = <<"thumb", "jpeg">> /\ Plan[2] = <<"thumb", "column">> /\ Plan[3] = <<"thumb", "avif">>
      BY <2>2
    <2>4. Len(Plan) = 3 /\ Plan \in Seq(TierSet \X Chores)
      BY <2>1, <2>2 DEF Chores
    <2>5. \A k \in 1 .. Len(Plan) : k = 1 \/ k = 2 \/ k = 3
      BY <2>4
    <2> QED BY <2>3, <2>4, <2>5
  <1>2. CASE Tiers = <<"thumb", "preview">>
    <2>1. TierSet = {"thumb", "preview"} /\ Len(Tiers) = 2 /\ Tiers[1] = "thumb" /\ Tiers[2] = "preview"
      BY <1>2 DEF TierSet
    <2>2. Plan = [i \in 1 .. 6 |->
                    <<Tiers[((i - 1) \div 3) + 1], <<"jpeg", "column", "avif">>[((i - 1) % 3) + 1]>>]
      BY <2>1 DEF Plan
    <2>3. /\ Plan[1] = <<"thumb", "jpeg">> /\ Plan[2] = <<"thumb", "column">>
          /\ Plan[3] = <<"thumb", "avif">>
          /\ Plan[4] = <<"preview", "jpeg">> /\ Plan[5] = <<"preview", "column">>
          /\ Plan[6] = <<"preview", "avif">>
      BY <2>1, <2>2
    <2>4. \A k \in 1 .. 6 : k = 1 \/ k = 2 \/ k = 3 \/ k = 4 \/ k = 5 \/ k = 6
      OBVIOUS
    <2>5. Len(Plan) = 6
      BY <2>2
    <2>6. \A k \in 1 .. 6 : Plan[k] \in TierSet \X Chores
      BY <2>1, <2>3, <2>4 DEF Chores
    <2>7. Plan \in Seq(TierSet \X Chores)
      BY <2>2, <2>6
    <2> QED BY <2>3, <2>4, <2>5, <2>7
  <1> QED BY <1>1, <1>2, OutputTiers

\* What is left of the plan, and what comes next.
LEMMA RestSteps ==
  ASSUME NEW s \in Rests, s # <<>>
  PROVE  /\ Head(s) \in TierSet \X Chores /\ Tail(s) \in Rests
         /\ Head(s)[2] = "jpeg" =>
              /\ Tail(s) # <<>> /\ Head(Tail(s)) = <<Head(s)[1], "column">>
              /\ Tail(Tail(s)) \in Rests
              /\ Tail(Tail(s)) # <<>> /\ Head(Tail(Tail(s))) = <<Head(s)[1], "avif">>
         /\ Head(s)[2] = "column" =>
              Tail(s) # <<>> /\ Head(Tail(s)) = <<Head(s)[1], "avif">>
         /\ Head(s)[2] = "avif" => Tail(s) = <<>> \/ Head(Tail(s))[2] = "jpeg"
  <1> DEFINE n == Len(Plan)
  <1>1. Plan \in Seq(TierSet \X Chores) /\ n \in Nat
    BY PlanSteps
  <1>2. PICK i \in 0 .. n : s = SubSeq(Plan, i + 1, n)
    BY DEF Rests
  <1>3. \A k \in 1 .. n : /\ Head(SubSeq(Plan, k, n)) = Plan[k]
                          /\ Tail(SubSeq(Plan, k, n)) = SubSeq(Plan, k + 1, n)
                          /\ SubSeq(Plan, k, n) # <<>>
    <2> SUFFICES ASSUME NEW k \in 1 .. n
                 PROVE  /\ Head(SubSeq(Plan, k, n)) = Plan[k]
                        /\ Tail(SubSeq(Plan, k, n)) = SubSeq(Plan, k + 1, n)
                        /\ SubSeq(Plan, k, n) # <<>>
      OBVIOUS
    <2>1. n \in k .. n /\ n \in Int /\ k \in Int
      BY <1>1
    <2>2. \A l \in k .. n : Plan[l] \in TierSet \X Chores
      BY <1>1
    <2>3. Len(SubSeq(Plan, k, n)) = n - k + 1
      BY <2>1, <2>2, SubSeqProperties
    <2>4. Len(SubSeq(Plan, k, n)) # 0
      BY <1>1, <2>3
    <2>5. SubSeq(Plan, k, n) # <<>>
      BY <2>4
    <2>6. /\ Head(SubSeq(Plan, k, n)) = Plan[k]
          /\ Tail(SubSeq(Plan, k, n)) = SubSeq(Plan, k + 1, n)
      BY <1>1, <2>1, HeadTailOfSubSeq
    <2> QED BY <2>5, <2>6
  <1>4. \A k \in 1 .. n + 1 : SubSeq(Plan, k, n) \in Rests
    <2> SUFFICES ASSUME NEW k \in 1 .. n + 1 PROVE SubSeq(Plan, k, n) \in Rests
      OBVIOUS
    <2>1. k - 1 \in 0 .. n /\ (k - 1) + 1 = k
      BY <1>1
    <2> QED BY <2>1 DEF Rests
  <1>5. i # n
    <2> SUFFICES ASSUME i = n PROVE FALSE
      OBVIOUS
    <2>1. n < n + 1 /\ n \in Int /\ n + 1 \in Int
      BY <1>1
    <2> QED BY <1>2, <2>1, SubSeqEmpty
  <1> DEFINE k == i + 1
  <1>6. k \in 1 .. n /\ k + 1 \in 1 .. n + 1
    BY <1>1, <1>5
  <1>7. Head(s) = Plan[k] /\ Tail(s) = SubSeq(Plan, k + 1, n)
    BY <1>2, <1>3, <1>6
  <1>8. Plan[k] \in TierSet \X Chores
    BY <1>1, <1>6
  <1> HIDE DEF n, k
  <1>9. ASSUME Plan[k][2] = "jpeg"
        PROVE  /\ k + 1 \in 1 .. n /\ k + 2 \in 1 .. n /\ (k + 1) + 1 = k + 2
               /\ (k + 2) + 1 \in 1 .. n + 1 /\ k + 2 \in 1 .. n + 1
               /\ Plan[k + 1] = <<Plan[k][1], "column">> /\ Plan[k + 2] = <<Plan[k][1], "avif">>
    BY <1>1, <1>6, <1>9, PlanSteps DEF n
  <1>10. ASSUME Plan[k][2] = "column"
         PROVE  k + 1 \in 1 .. n /\ Plan[k + 1] = <<Plan[k][1], "avif">>
    BY <1>6, <1>10, PlanSteps DEF n
  <1>11. ASSUME Plan[k][2] = "avif", k + 1 \in 1 .. n
         PROVE  Plan[k + 1][2] = "jpeg"
    BY <1>1, <1>6, <1>11, PlanSteps DEF n
  <1>12. k + 1 \notin 1 .. n => Tail(s) = <<>>
    <2> SUFFICES ASSUME k + 1 \notin 1 .. n PROVE Tail(s) = <<>>
      OBVIOUS
    <2>1. n < k + 1 /\ n \in Int /\ k + 1 \in Int
      BY <1>1, <1>6
    <2> QED BY <1>7, <2>1, SubSeqEmpty
  <1> QED BY <1>3, <1>4, <1>6, <1>7, <1>8, <1>9, <1>10, <1>11, <1>12

-----------------------------------------------------------------------------
(* Types.                                                                  *)

\* TypeOK, with what is left to render as a member of a set.
Types ==
  /\ rows \subseteq Jobs
  /\ status \in [Jobs -> {"open", "done", "cancelled"}]
  /\ deleted \in [Jobs -> {"no", "recent", "old"}]
  /\ recorded \in [Jobs -> SUBSET (TierSet \cup {"output"})]
  /\ disk \in [Jobs -> SUBSET File]
  /\ download = {} \/ \E j \in Jobs : download = {j}
  /\ render \in [Jobs -> Rests]
  /\ at \in [Requests -> Chores \cup {"new", "served", "failed"}]
  /\ want \in [Requests -> (Jobs \cup {NoJob}) \X TierSet \X Formats]
  /\ \A r \in Requests : at[r] \in Chores => want[r][1] \in Jobs
  /\ listed \subseteq Jobs \X SUBSET File
  /\ current \in Jobs \cup {NoJob} /\ doomed \subseteq File
  /\ doomed # {} => current # NoJob
  /\ rescued \subseteq Jobs
  /\ faults \in 0 .. MaxFaults /\ crashes \in 0 .. MaxCrashes

LEMMA TypesMean == Types => TypeOK
  <1> SUFFICES ASSUME Types PROVE TypeOK
    OBVIOUS
  <1>1. Cardinality(download) <= 1 /\ download \subseteq Jobs
    <2>1. CASE download = {}
      BY <2>1, FS_EmptySet
    <2>2. ASSUME NEW j \in Jobs, download = {j} PROVE Cardinality(download) <= 1 /\ download \subseteq Jobs
      BY <2>2, FS_Singleton
    <2> QED BY <2>1, <2>2 DEF Types
  <1>2. \A j \in Jobs : \E i \in 0 .. Len(Plan) : render[j] = SubSeq(Plan, i + 1, Len(Plan))
    BY DEF Types, Rests
  <1> QED BY <1>1, <1>2 DEF Types, TypeOK

LEMMA TiersMean == Tiers[1] \in TierSet /\ "output" \notin TierSet
  <1>1. CASE Tiers = <<"thumb">>
    BY <1>1 DEF TierSet
  <1>2. CASE Tiers = <<"thumb", "preview">>
    BY <1>2 DEF TierSet
  <1> QED BY <1>1, <1>2, OutputTiers

LEMMA PlanIsRest == Plan \in Rests /\ <<>> \in Rests
  <1>1. Len(Plan) \in Nat /\ Plan \in Seq(TierSet \X Chores)
    BY PlanSteps
  <1>2. Plan = SubSeq(Plan, 0 + 1, Len(Plan)) /\ 0 \in 0 .. Len(Plan)
    BY <1>1, SubSeqFull
  <1>3. <<>> = SubSeq(Plan, Len(Plan) + 1, Len(Plan)) /\ Len(Plan) \in 0 .. Len(Plan)
    <2>1. Len(Plan) < Len(Plan) + 1 /\ Len(Plan) \in Int /\ Len(Plan) + 1 \in Int
      BY <1>1
    <2> QED BY <1>1, <2>1, SubSeqEmpty
  <1> QED BY <1>2, <1>3 DEF Rests

LEMMA InitTypes == Init => Types
  <1> SUFFICES ASSUME Init PROVE Types
    OBVIOUS
  <1>1. faults \in 0 .. MaxFaults /\ crashes \in 0 .. MaxCrashes
    BY OutputBounds DEF Init
  <1>2. render \in [Jobs -> Rests]
    BY PlanIsRest DEF Init
  <1>3. want \in [Requests -> (Jobs \cup {NoJob}) \X TierSet \X Formats]
    BY TiersMean DEF Init, Formats
  <1> QED BY <1>1, <1>2, <1>3 DEF Init, Types, Chores

LEMMA WorkType ==
  ASSUME Types, NEW j \in Jobs, Download(j) \/ finalize_output(j) \/ Cancel(j) \/ Generate(j)
  PROVE  Types'
  <1> USE DEF Types, Elsewhere, requestVars, purgeVars, boundVars
  <1>1. CASE Download(j)
    BY <1>1 DEF Download, File
  <1>2. CASE finalize_output(j)
    BY <1>2, PlanIsRest DEF finalize_output
  <1>3. CASE Cancel(j)
    BY <1>3 DEF Cancel
  <1>4. CASE GenerateFile(j)
    <2>1. Head(render[j]) \in File /\ Tail(render[j]) \in Rests
      <3>1. render[j] \in Rests /\ render[j] # <<>> /\ Head(render[j])[2] \in Formats
        BY <1>4 DEF GenerateFile
      <3>2. Head(render[j]) \in TierSet \X Chores /\ Tail(render[j]) \in Rests
        BY <3>1, RestSteps
      <3>3. \A p \in TierSet \X Chores : p[2] \in Formats => p \in TierSet \X Formats
        OBVIOUS
      <3> QED BY <3>1, <3>2, <3>3 DEF File
    <2> DEFINE h == Head(render[j])
    <2>2. disk' = [disk EXCEPT ![j] = @ \cup {h}] /\ h \in File
      BY <1>4, <2>1 DEF GenerateFile, Store
    <2> HIDE DEF h
    <2>3. disk' \in [Jobs -> SUBSET File]
      BY <2>2
    <2>4. render' \in [Jobs -> Rests]
      BY <1>4, <2>1 DEF GenerateFile, RenderOn
    <2>5. UNCHANGED <<rows, status, deleted, recorded, download, at, want, listed, current, doomed, rescued, faults, crashes>>
      BY <1>4 DEF GenerateFile, RenderOn
    <2> QED BY <2>3, <2>4, <2>5
  <1>5. CASE GenerateColumn(j)
    <2>1. Head(render[j])[1] \in TierSet /\ Tail(render[j]) \in Rests
      <3>1. render[j] \in Rests /\ render[j] # <<>>
        BY <1>5 DEF GenerateColumn
      <3> QED BY <3>1, RestSteps
    <2> QED BY <1>5, <2>1 DEF GenerateColumn, Persist, RenderOn
  <1>6. CASE GenerateFails(j)
    <2>1. \E rest \in Rests : RenderOn(j, rest)
      <3>1. render[j] \in Rests /\ render[j] # <<>>
        BY <1>6 DEF GenerateFails
      <3>2. /\ Tail(render[j]) \in Rests
            /\ Head(render[j])[2] = "jpeg" => Tail(Tail(render[j])) \in Rests
        BY <3>1, RestSteps
      <3> QED BY <1>6, <3>2 DEF GenerateFails
    <2>2. faults' \in 0 .. MaxFaults
      BY <1>6, OutputBounds DEF GenerateFails, FailsOn, Fault
    <2>3. PICK rest \in Rests : RenderOn(j, rest)
      BY <2>1
    <2>4. render' \in [Jobs -> Rests]
      BY <2>3 DEF RenderOn
    <2>5. UNCHANGED <<rows, status, deleted, recorded, disk, download, at, want, listed, current, doomed, rescued, crashes>>
      BY <1>6, <2>3 DEF GenerateFails, RenderOn
    <2> QED BY <2>2, <2>4, <2>5
  <1> QED BY <1>1, <1>2, <1>3, <1>4, <1>5, <1>6 DEF Generate

LEMMA ServeType ==
  ASSUME Types, NEW r \in Requests,
         Ensure(r) \/ \E j \in Jobs, t \in TierSet, f \in Formats : serve_derived(r, j, t, f)
  PROVE  Types'
  <1> USE DEF Types, Goto, purgeVars, Formats, Chores
  <1>1. ASSUME NEW j \in Jobs, NEW t \in TierSet, NEW f \in Formats, serve_derived(r, j, t, f)
        PROVE  Types'
    <2>1. want' \in [Requests -> (Jobs \cup {NoJob}) \X TierSet \X Formats]
      BY <1>1 DEF serve_derived
    <2>2. want'[r][1] = j /\ \A q \in Requests \ {r} : want'[q] = want[q]
      BY <1>1 DEF serve_derived
    <2> QED BY <1>1, <2>1, <2>2 DEF serve_derived
  <1>2. at[r] \in Chores => want[r][1] \in Jobs /\ want[r][2] \in TierSet
    OBVIOUS
  <1>3. CASE EnsureFile(r)
    <2>1. <<want[r][2], at[r]>> \in File
      BY <1>2, <1>3 DEF EnsureFile, File
    <2> QED BY <1>2, <1>3, <2>1 DEF EnsureFile, Store
  <1>4. CASE EnsureColumn(r)
    BY <1>2, <1>4 DEF EnsureColumn, Persist
  <1>5. CASE EnsureFails(r)
    <2>1. faults' \in 0 .. MaxFaults
      BY <1>5, OutputBounds DEF EnsureFails, FailsOn, Fault
    <2> QED BY <1>5, <2>1 DEF EnsureFails
  <1> QED BY <1>1, <1>3, <1>4, <1>5 DEF Ensure

LEMMA DeleteType ==
  ASSUME Types, NEW j \in Jobs, delete_job(j) \/ restore_job(j) \/ Age(j)
  PROVE  Types'
  BY DEF Types, delete_job, restore_job, Age, SetDeleted, requestVars, purgeVars, boundVars

LEMMA PurgeType ==
  ASSUME Types, Purge
  PROVE  Types'
  <1> USE DEF Types, Apart, requestVars, boundVars
  <1>1. CASE SelectJobs
    <2>1. \A j \in Jobs : PurgedFiles(j) \in SUBSET File
      BY DEF PurgedFiles, Named, File, Formats, Output
    <2>2. listed' \subseteq Jobs \X SUBSET File
      BY <1>1, <2>1 DEF SelectJobs
    <2> QED BY <1>1, <2>2 DEF SelectJobs
  <1>2. ASSUME NEW row \in listed, NextRow(row) PROVE Types'
    <2>1. row[1] \in Jobs /\ row[2] \subseteq File
      OBVIOUS
    <2> QED BY <1>2, <2>1, OutputFinite DEF NextRow
  <1>3. ASSUME NEW f \in doomed, RemoveFile(f) PROVE Types'
    <2>1. faults' \in 0 .. MaxFaults /\ crashes' \in 0 .. MaxCrashes
      BY <1>3, OutputBounds DEF RemoveFile, Fault
    <2>2. disk' \in [Jobs -> SUBSET File] /\ doomed' \subseteq doomed
      BY <1>3 DEF RemoveFile
    <2> QED BY <1>3, <2>1, <2>2 DEF RemoveFile
  <1>4. CASE DeleteRow
    BY <1>4 DEF DeleteRow
  <1> QED BY <1>1, <1>2, <1>3, <1>4 DEF Purge

LEMMA CrashType ==
  ASSUME Types, Crash
  PROVE  Types'
  <1>1. crashes' \in 0 .. MaxCrashes
    BY OutputBounds DEF Types, Crash
  <1>2. at' \in [Requests -> Chores \cup {"new", "served", "failed"}]
        /\ \A r \in Requests : at'[r] \notin Chores
    BY DEF Types, Crash, Chores
  <1>3. render' \in [Jobs -> Rests]
    BY PlanIsRest DEF Crash
  <1> QED BY <1>1, <1>2, <1>3 DEF Types, Crash, rowVars

LEMMA TypesHold == Spec => []Types
  <1>1. Types /\ [Next]_vars => Types'
    <2> SUFFICES ASSUME Types, [Next]_vars PROVE Types'
      OBVIOUS
    <2>1. CASE UNCHANGED vars
      BY <2>1 DEF Types, vars, rowVars, requestVars, purgeVars, boundVars
    <2> QED BY <2>1, WorkType, ServeType, DeleteType, PurgeType, CrashType DEF Next
  <1> QED BY <1>1, InitTypes, PTL DEF Spec

\* The rows, the files, the tasks, the requests and the pass keep to their
\* types; the render task works through its plan in order.
THEOREM OutputTypes == Spec => []TypeOK
  BY TypesHold, TypesMean, PTL

-----------------------------------------------------------------------------
(* Who is at work on a job, and what the pass is at.                       *)

\* Nobody is at work on a job past its grace.
WorkInv == \A j \in Jobs : deleted[j] = "old" => ~AtWork(j)

\* The pass has jobs past their grace only, and a row it removed names nothing.
PassInv ==
  /\ \A j \in Jobs : ~Exists(j) => recorded[j] = {}
  /\ \A j \in Jobs \ rescued : Purging(j) \/ ~Exists(j) => deleted[j] = "old"

LEMMA WorkStep ==
  ASSUME Types, WorkInv, [Next]_vars
  PROVE  WorkInv'
  <1> SUFFICES ASSUME NEW i \in Jobs, deleted'[i] = "old", AtWork(i)' PROVE FALSE
    BY DEF WorkInv
  <1> USE DEF Types, AtWork, Serving
  <1>1. deleted[i] = "old" => i \notin download /\ render[i] = <<>> /\ \A r \in Requests : want[r][1] = i => at[r] \notin Chores
    BY DEF WorkInv
  <1>2. i \in download' \/ render'[i] # <<>> \/ \E r \in Requests : want'[r][1] = i /\ at'[r] \in Chores
    OBVIOUS
  <1>3. CASE deleted' = deleted
    <2>1. i \notin download /\ render[i] = <<>> /\ \A r \in Requests : want[r][1] = i => at[r] \notin Chores
      BY <1>1, <1>3
    <2>2. ASSUME NEW j \in Jobs, Download(j) PROVE FALSE
      BY <1>2, <1>3, <2>1, <2>2 DEF Download, Elsewhere, requestVars
    <2>3. ASSUME NEW j \in Jobs, finalize_output(j) PROVE FALSE
      BY <1>2, <1>3, <2>1, <2>3 DEF finalize_output, Elsewhere, requestVars
    <2>4. ASSUME NEW j \in Jobs, Cancel(j) PROVE FALSE
      BY <1>2, <1>3, <2>1, <2>4 DEF Cancel, Elsewhere, requestVars
    <2>5. ASSUME NEW j \in Jobs, Generate(j) PROVE FALSE
      BY <1>2, <1>3, <2>1, <2>5 DEF Generate, GenerateFile, GenerateColumn, GenerateFails, RenderOn, requestVars
    <2>6. ASSUME NEW r \in Requests, NEW j \in Jobs, NEW t \in TierSet, NEW f \in Formats, serve_derived(r, j, t, f)
          PROVE  FALSE
      <3>1. j # i
        BY <1>3, <2>6 DEF serve_derived, Visible
      <3> QED BY <1>2, <1>3, <2>1, <2>6, <3>1 DEF serve_derived, Goto
    <2>7. ASSUME NEW r \in Requests, Ensure(r) PROVE FALSE
      <3>1. want' = want /\ render' = render /\ download' = download
        BY <2>7 DEF Ensure, EnsureFile, EnsureColumn, EnsureFails, Goto
      <3>2. at[r] \in Chores /\ \A q \in Requests \ {r} : at'[q] = at[q]
        BY <2>7 DEF Ensure, EnsureFile, EnsureColumn, EnsureFails, Goto, Chores, Formats
      <3> QED BY <1>2, <2>1, <3>1, <3>2
    <2>8. CASE Purge
      BY <1>2, <2>1, <2>8 DEF Purge, SelectJobs, NextRow, RemoveFile, DeleteRow, Apart, requestVars
    <2>9. CASE Crash
      BY <1>2, <2>1, <2>9 DEF Crash, Chores
    <2>10. CASE UNCHANGED <<download, render, requestVars>>
      BY <1>2, <2>1, <2>10 DEF requestVars
    <2> QED BY <2>2, <2>3, <2>4, <2>5, <2>6, <2>7, <2>8, <2>9, <2>10
            DEF Next, vars, rowVars, delete_job, restore_job, Age, SetDeleted
  <1>4. CASE deleted' # deleted
    <2>1. PICK j \in Jobs : delete_job(j) \/ restore_job(j) \/ Age(j)
      <3>1. \A j \in Jobs : Download(j) \/ finalize_output(j) \/ Cancel(j) \/ Generate(j) => deleted' = deleted
        BY DEF Download, finalize_output, Cancel, Generate, GenerateFile, GenerateColumn, GenerateFails, RenderOn, Elsewhere
      <3>2. \A r \in Requests : /\ Ensure(r) => deleted' = deleted
                                /\ \A j \in Jobs, t \in TierSet, f \in Formats : serve_derived(r, j, t, f) => deleted' = deleted
        BY DEF Ensure, EnsureFile, EnsureColumn, EnsureFails, serve_derived, Goto
      <3>3. Purge \/ Crash \/ UNCHANGED vars => deleted' = deleted
        BY DEF Purge, SelectJobs, NextRow, RemoveFile, DeleteRow, Apart, Crash, vars, rowVars
      <3> QED BY <1>4, <3>1, <3>2, <3>3 DEF Next
    <2>2. download' = download /\ render' = render /\ at' = at /\ want' = want
      BY <2>1 DEF delete_job, restore_job, Age, SetDeleted, requestVars
    <2>3. i \in download \/ render[i] # <<>> \/ \E r \in Requests : want[r][1] = i /\ at[r] \in Chores
      BY <1>2, <2>2
    <2>4. deleted[i] # "old"
      BY <1>1, <2>3
    <2>5. j = i /\ Age(j)
      BY <2>1, <2>4 DEF delete_job, restore_job, Age, SetDeleted
    <2> QED BY <2>3, <2>5 DEF Age
  <1> QED BY <1>3, <1>4

LEMMA PassStep ==
  ASSUME Types, PassInv, [Next]_vars
  PROVE  PassInv' /\ \A j \in rows \ rows' : deleted[j] = "old" \/ j \in rescued
  <1> USE DEF Types, PassInv, Exists, Visible, Purging
  <1>1. ASSUME NEW j \in Jobs, Download(j) \/ finalize_output(j) \/ Cancel(j) \/ Generate(j)
        PROVE  PassInv' /\ rows' = rows
    <2>1. rows' = rows /\ deleted' = deleted /\ listed' = listed /\ current' = current /\ rescued' = rescued
      BY <1>1 DEF Download, finalize_output, Cancel, Generate, GenerateFile, GenerateColumn,
                  GenerateFails, RenderOn, Elsewhere, purgeVars
    <2>2. \A i \in Jobs : ~Exists(i) => recorded'[i] = recorded[i]
      BY <1>1 DEF Download, finalize_output, Cancel, Generate, GenerateFile, GenerateColumn,
                  GenerateFails, Persist
    <2> QED BY <2>1, <2>2
  <1>2. ASSUME NEW r \in Requests,
               Ensure(r) \/ \E j \in Jobs, t \in TierSet, f \in Formats : serve_derived(r, j, t, f)
        PROVE  PassInv' /\ rows' = rows
    <2>1. rows' = rows /\ deleted' = deleted /\ listed' = listed /\ current' = current /\ rescued' = rescued
      BY <1>2 DEF Ensure, EnsureFile, EnsureColumn, EnsureFails, serve_derived, Goto, purgeVars
    <2>2. \A i \in Jobs : ~Exists(i) => recorded'[i] = recorded[i]
      BY <1>2 DEF Ensure, EnsureFile, EnsureColumn, EnsureFails, serve_derived, Persist
    <2> QED BY <2>1, <2>2
  <1>3. ASSUME NEW j \in Jobs, delete_job(j) \/ restore_job(j) \/ Age(j)
        PROVE  PassInv' /\ rows' = rows
    <2>1. rows' = rows /\ recorded' = recorded /\ listed' = listed /\ current' = current
      BY <1>3 DEF delete_job, restore_job, Age, SetDeleted, purgeVars
    <2>2. ASSUME NEW i \in Jobs \ rescued', Purging(i) \/ ~Exists(i) PROVE deleted'[i] = "old"
      <3>1. rescued \subseteq rescued'
        BY <1>3 DEF delete_job, restore_job, Age
      <3>2. deleted[i] = "old"
        BY <2>2, <3>1
      <3>3. CASE i # j
        BY <1>3, <3>2, <3>3 DEF delete_job, restore_job, Age, SetDeleted
      <3>4. CASE i = j
        BY <1>3, <2>2, <3>2, <3>4 DEF delete_job, restore_job, Age, SetDeleted
      <3> QED BY <3>3, <3>4
    <2> QED BY <2>1, <2>2
  <1>4. ASSUME Purge PROVE PassInv' /\ \A j \in rows \ rows' : deleted[j] = "old" \/ j \in rescued
    <2> USE DEF Apart
    <2>1. CASE SelectJobs
      <3>1. \A row \in listed' : row[1] \in Jobs /\ deleted[row[1]] = "old"
        BY <2>1 DEF SelectJobs
      <3> QED BY <2>1, <3>1 DEF SelectJobs
    <2>2. ASSUME NEW row \in listed, NextRow(row) PROVE PassInv' /\ rows' = rows
      BY <2>2 DEF NextRow
    <2>3. ASSUME NEW f \in doomed, RemoveFile(f) PROVE PassInv' /\ rows' = rows
      BY <2>3 DEF RemoveFile
    <2>4. CASE DeleteRow
      <3>1. current \in Jobs /\ (current \notin rescued => deleted[current] = "old")
        BY <2>4 DEF DeleteRow
      <3>2. /\ rows' = rows \ {current} /\ listed' = listed /\ current' = NoJob
            /\ deleted' = deleted /\ rescued' = rescued
            /\ recorded'[current] = {} /\ \A i \in Jobs : i # current => recorded'[i] = recorded[i]
        BY <2>4, <3>1 DEF DeleteRow
      <3>3. \A i \in Jobs : ~Exists(i)' => recorded'[i] = {}
        BY <3>2
      <3>4. \A i \in Jobs \ rescued' : Purging(i)' \/ ~Exists(i)' => deleted'[i] = "old"
        BY <3>1, <3>2, OutputFinite
      <3> QED BY <3>1, <3>2, <3>3, <3>4
    <2> QED
      <3>1. SelectJobs => rows' = rows
        BY DEF SelectJobs
      <3> QED BY <1>4, <2>1, <2>2, <2>3, <2>4, <3>1 DEF Purge
  <1>5. CASE Crash
    BY <1>5, OutputFinite DEF Crash, rowVars
  <1>6. CASE UNCHANGED vars
    BY <1>6 DEF vars, rowVars, purgeVars
  <1> QED BY <1>1, <1>2, <1>3, <1>4, <1>5, <1>6 DEF Next

LEMMA PassHolds == Spec => [](Types /\ WorkInv /\ PassInv)
  <1>1. Init => WorkInv /\ PassInv
    <2> SUFFICES ASSUME Init PROVE WorkInv /\ PassInv
      OBVIOUS
    <2>1. WorkInv
      BY DEF Init, WorkInv
    <2>2. PassInv
      BY OutputFinite DEF Init, PassInv, Purging, Exists
    <2> QED BY <2>1, <2>2
  <1> QED BY <1>1, TypesHold, WorkStep, PassStep, PTL DEF Spec

\* A row goes only when its grace is over or its job was restored when the pass
\* was at it: the pass holds no other job (PassInv), however long it takes.
THEOREM GraceKept == Spec => GraceIsKept
  <1>1. Types /\ PassInv /\ [Next]_vars
          => [\A j \in rows \ rows' : deleted[j] = "old" \/ j \in rescued]_vars
    BY PassStep
  <1> QED BY <1>1, PassHolds, PTL DEF Spec, GraceIsKept

-----------------------------------------------------------------------------
(* The files a row names.                                                  *)

\* What is about to be recorded is on disk.
Stored(j) ==
  /\ j \in download => Output \in disk[j]
  /\ render[j] # <<>> /\ Head(render[j])[2] = "column" => <<Head(render[j])[1], "jpeg">> \in disk[j]
  /\ \A r \in Requests :
       want[r][1] = j /\ at[r] = "column" => <<want[r][2], "jpeg">> \in disk[j]

StoredInv == \A j \in Jobs \ rescued : Stored(j)

\* What a row names is on disk, until its grace is over.
NamedInv == \A j \in Jobs \ rescued : deleted[j] # "old" => Named(j) \subseteq disk[j]

Kept == Types /\ WorkInv /\ PassInv /\ StoredInv /\ NamedInv

LEMMA WorkStored ==
  ASSUME Kept, NEW j \in Jobs, Download(j) \/ finalize_output(j) \/ Cancel(j) \/ Generate(j)
  PROVE  StoredInv' /\ NamedInv'
  <1> SUFFICES ASSUME NEW i \in Jobs \ rescued'
               PROVE  Stored(i)' /\ (deleted'[i] # "old" => Named(i)' \subseteq disk'[i])
    BY DEF StoredInv, NamedInv
  <1> USE DEF Kept, Types
  <1>1. rescued' = rescued /\ deleted' = deleted /\ rows' = rows /\ at' = at /\ want' = want
    BY DEF Download, finalize_output, Cancel, Generate, GenerateFile, GenerateColumn, GenerateFails,
           RenderOn, Elsewhere, requestVars
  <1>2. Stored(i) /\ (deleted[i] # "old" => Named(i) \subseteq disk[i])
    BY <1>1 DEF StoredInv, NamedInv
  <1>3. CASE i # j
    <2>1. /\ disk'[i] = disk[i] /\ recorded'[i] = recorded[i] /\ render'[i] = render[i]
          /\ i \in download' => i \in download
      BY <1>3 DEF Download, finalize_output, Cancel, Generate, GenerateFile, GenerateColumn,
                  GenerateFails, RenderOn, Elsewhere, Store, Persist
    <2> QED BY <1>1, <1>2, <2>1 DEF Stored, Named
  <1>4. CASE i = j /\ Download(j)
    <2>1. /\ recorded' = recorded /\ render' = render /\ Output \in disk'[i] /\ disk[i] \subseteq disk'[i]
      BY <1>4 DEF Download
    <2> QED BY <1>1, <1>2, <2>1 DEF Stored, Named
  <1>5. CASE i = j /\ finalize_output(j)
    <2>1. disk' = disk /\ download' = {} /\ Output \in disk[i]
      BY <1>2, <1>5 DEF finalize_output, Stored
    <2>2. render'[i] = render[i] \/ render'[i] = Plan
      BY <1>5 DEF finalize_output
    <2>3. recorded'[i] = recorded[i] \/ recorded'[i] = recorded[i] \cup {"output"}
      BY <1>5 DEF finalize_output
    <2>4. Head(Plan)[2] # "column"
      BY PlanSteps, OutputTiers DEF Plan
    <2>5. Stored(i)'
      BY <1>1, <1>2, <2>1, <2>2, <2>4 DEF Stored
    <2>6. ASSUME deleted'[i] # "old" PROVE Named(i)' \subseteq disk'[i]
      <3>1. Named(i) \subseteq disk[i]
        BY <1>1, <1>2, <2>6
      <3>2. Named(i)' \subseteq Named(i) \cup {Output}
        BY <2>3, TiersMean DEF Named, File, Formats, Output
      <3> QED BY <2>1, <3>1, <3>2
    <2> QED BY <2>5, <2>6
  <1>6. CASE i = j /\ Cancel(j)
    <2>1. UNCHANGED <<recorded, disk, download, render>>
      BY <1>6 DEF Cancel
    <2> QED BY <1>1, <1>2, <2>1 DEF Stored, Named
  <1>7. CASE i = j /\ Generate(j)
    <2> DEFINE h == Head(render[i])
    <2>1. render[i] \in Rests /\ render[i] # <<>> /\ download' = download
      BY <1>7 DEF Generate, GenerateFile, GenerateColumn, GenerateFails, RenderOn
    <2>2. /\ h \in TierSet \X Chores /\ Tail(render[i]) \in Rests
          /\ h[2] = "jpeg" =>
               Head(Tail(render[i])) = <<h[1], "column">> /\ Head(Tail(Tail(render[i]))) = <<h[1], "avif">>
          /\ h[2] = "column" => Head(Tail(render[i])) = <<h[1], "avif">>
          /\ h[2] = "avif" => Tail(render[i]) = <<>> \/ Head(Tail(render[i]))[2] = "jpeg"
      BY <2>1, RestSteps
    <2>3. h = <<h[1], h[2]>> /\ h[1] \in TierSet /\ h[2] \in {"jpeg", "column", "avif"}
      BY <2>2 DEF Chores
    <2> HIDE DEF h
    <2>4. CASE GenerateFile(j)
      <3>1. /\ recorded' = recorded /\ disk'[i] = disk[i] \cup {h} /\ render'[i] = Tail(render[i])
            /\ h[2] \in Formats
        BY <1>7, <2>4 DEF GenerateFile, Store, RenderOn, h
      <3>2. Stored(i)'
        <4>1. render'[i] # <<>> /\ Head(render'[i])[2] = "column" => <<Head(render'[i])[1], "jpeg">> \in disk'[i]
          BY <2>2, <2>3, <3>1 DEF Formats
        <4> QED BY <1>1, <1>2, <2>1, <3>1, <4>1 DEF Stored
      <3> QED BY <1>1, <1>2, <3>1, <3>2 DEF Named
    <2>5. CASE GenerateColumn(j)
      <3>1. /\ disk' = disk /\ render'[i] = Tail(render[i]) /\ h[2] = "column"
            /\ recorded'[i] = recorded[i] \/ recorded'[i] = recorded[i] \cup {h[1]}
        BY <1>7, <2>5 DEF GenerateColumn, Persist, RenderOn, h
      <3>2. <<h[1], "jpeg">> \in disk[i]
        BY <1>2, <2>1, <3>1 DEF Stored, h
      <3>3. Head(render'[i])[2] # "column"
        <4>1. Head(render'[i]) = <<h[1], "avif">>
          BY <2>2, <3>1
        <4>2. <<h[1], "avif">>[2] # "column"
          OBVIOUS
        <4> QED BY <4>1, <4>2
      <3>4. Named(i)' \subseteq Named(i) \cup {<<h[1], "jpeg">>}
        BY <2>3, <3>1, TiersMean DEF Named, File, Formats, Output
      <3> QED BY <1>1, <1>2, <2>1, <3>1, <3>2, <3>3, <3>4 DEF Stored
    <2>6. CASE GenerateFails(j)
      <3>1. disk' = disk /\ recorded' = recorded
        BY <2>6 DEF GenerateFails
      <3>2. render'[i] = IF h[2] = "jpeg" THEN Tail(Tail(render[i])) ELSE Tail(render[i])
        BY <1>7, <2>6 DEF GenerateFails, RenderOn, h
      <3>3. render'[i] # <<>> => Head(render'[i])[2] # "column"
        BY <2>2, <2>3, <3>2
      <3> QED BY <1>1, <1>2, <2>1, <3>1, <3>3 DEF Stored, Named
    <2> QED BY <1>7, <2>4, <2>5, <2>6 DEF Generate
  <1> QED BY <1>3, <1>4, <1>5, <1>6, <1>7

LEMMA ServeStored ==
  ASSUME Kept, NEW r \in Requests,
         Ensure(r) \/ \E j \in Jobs, t \in TierSet, f \in Formats : serve_derived(r, j, t, f)
  PROVE  StoredInv' /\ NamedInv'
  <1> SUFFICES ASSUME NEW i \in Jobs \ rescued'
               PROVE  Stored(i)' /\ (deleted'[i] # "old" => Named(i)' \subseteq disk'[i])
    BY DEF StoredInv, NamedInv
  <1> USE DEF Kept, Types
  <1>1. rescued' = rescued /\ deleted' = deleted /\ rows' = rows /\ download' = download /\ render' = render
    BY DEF Ensure, EnsureFile, EnsureColumn, EnsureFails, serve_derived, Goto
  <1>2. Stored(i) /\ (deleted[i] # "old" => Named(i) \subseteq disk[i])
    BY <1>1 DEF StoredInv, NamedInv
  <1>3. \A q \in Requests \ {r} : at'[q] = at[q] /\ want'[q] = want[q]
    BY DEF Ensure, EnsureFile, EnsureColumn, EnsureFails, serve_derived, Goto
  <1>4. ASSUME disk[i] \subseteq disk'[i],
               want'[r][1] = i /\ at'[r] = "column" => <<want'[r][2], "jpeg">> \in disk'[i]
        PROVE  Stored(i)'
    BY <1>1, <1>2, <1>3, <1>4 DEF Stored
  <1>5. ASSUME NEW j \in Jobs, NEW t \in TierSet, NEW f \in Formats, serve_derived(r, j, t, f)
        PROVE  Stored(i)' /\ (deleted'[i] # "old" => Named(i)' \subseteq disk'[i])
    <2>1. disk' = disk /\ recorded' = recorded
      BY <1>5 DEF serve_derived
    <2>2. at'[r] # "column"
      BY <1>5 DEF serve_derived, Goto, Formats
    <2> QED BY <1>1, <1>2, <1>4, <2>1, <2>2 DEF Named
  <1>6. CASE EnsureFile(r)
    <2> DEFINE k == want[r][1]
    <2>1. /\ recorded' = recorded /\ want' = want /\ at[r] \in Formats /\ k \in Jobs
          /\ at'[r] = "column" => at[r] = "jpeg"
      BY <1>6 DEF EnsureFile, Goto, Formats, Chores
    <2>2. disk' = [disk EXCEPT ![k] = @ \cup {<<want[r][2], at[r]>>}]
      BY <1>6 DEF EnsureFile, Store
    <2> HIDE DEF k
    <2>3. disk[i] \subseteq disk'[i] /\ (k = i => <<want[r][2], at[r]>> \in disk'[i])
      BY <2>1, <2>2
    <2>4. want'[r][1] = i /\ at'[r] = "column" => <<want'[r][2], "jpeg">> \in disk'[i]
      BY <2>1, <2>3 DEF k
    <2>5. Stored(i)'
      BY <1>4, <2>3, <2>4
    <2> QED BY <1>1, <1>2, <2>1, <2>3, <2>5 DEF Named
  <1>7. CASE EnsureColumn(r)
    <2>1. disk' = disk /\ at'[r] # "column" /\ at[r] = "column"
      BY <1>7 DEF EnsureColumn, Goto
    <2>2. recorded'[i] = recorded[i] \/ (want[r][1] = i /\ recorded'[i] = recorded[i] \cup {want[r][2]})
      BY <1>7 DEF EnsureColumn, Persist
    <2>3. want[r][1] = i => <<want[r][2], "jpeg">> \in disk[i] /\ want[r][2] \in TierSet
      BY <1>2, <2>1 DEF Stored
    <2>4. want[r][1] = i => Named(i)' \subseteq Named(i) \cup {<<want[r][2], "jpeg">>}
      BY <2>2, <2>3, TiersMean DEF Named, File, Formats, Output
    <2>5. want[r][1] # i => Named(i)' = Named(i)
      BY <2>2 DEF Named
    <2> QED BY <1>1, <1>2, <1>4, <2>1, <2>3, <2>4, <2>5
  <1>8. CASE EnsureFails(r)
    <2>1. disk' = disk /\ recorded' = recorded /\ at'[r] # "column"
      BY <1>8 DEF EnsureFails, Goto
    <2> QED BY <1>1, <1>2, <1>4, <2>1 DEF Named
  <1> QED BY <1>5, <1>6, <1>7, <1>8 DEF Ensure

LEMMA DeleteStored ==
  ASSUME Kept, NEW j \in Jobs, delete_job(j) \/ restore_job(j) \/ Age(j)
  PROVE  StoredInv' /\ NamedInv'
  <1> USE DEF Kept, Types
  <1>1. /\ recorded' = recorded /\ disk' = disk /\ download' = download /\ render' = render
        /\ at' = at /\ want' = want /\ rows' = rows /\ rescued \subseteq rescued'
    BY DEF delete_job, restore_job, Age, SetDeleted, requestVars
  <1>2. StoredInv'
    BY <1>1 DEF StoredInv, Stored
  <1>3. ASSUME NEW i \in Jobs \ rescued', deleted'[i] # "old" PROVE Named(i) \subseteq disk[i]
    <2>1. CASE deleted[i] # "old"
      BY <1>1, <2>1 DEF NamedInv
    <2>2. CASE deleted[i] = "old"
      <3>1. j = i /\ restore_job(j)
        BY <1>3, <2>2 DEF delete_job, restore_job, Age, SetDeleted, Visible
      <3> QED BY <1>3, <3>1 DEF restore_job
    <2> QED BY <2>1, <2>2
  <1> QED BY <1>1, <1>2, <1>3 DEF NamedInv, Named

LEMMA PurgeStored ==
  ASSUME Kept, Purge
  PROVE  StoredInv' /\ NamedInv'
  <1> USE DEF Kept, Types
  <1>1. /\ deleted' = deleted /\ download' = download /\ render' = render
        /\ at' = at /\ want' = want /\ rescued' = rescued
    BY DEF Purge, SelectJobs, NextRow, RemoveFile, DeleteRow, Apart, requestVars
  <1>2. CASE UNCHANGED <<recorded, disk>>
    BY <1>1, <1>2 DEF StoredInv, Stored, NamedInv, Named
  <1>3. ASSUME NEW f \in doomed, RemoveFile(f) PROVE StoredInv' /\ NamedInv'
    <2>1. current \in Jobs /\ recorded' = recorded
      BY <1>3 DEF RemoveFile
    <2>2. \A i \in Jobs \ {current} : disk'[i] = disk[i]
      BY <1>3 DEF RemoveFile
    <2>3. current \notin rescued => deleted[current] = "old"
      BY <2>1 DEF PassInv, Purging
    <2>4. current \notin rescued => ~AtWork(current)
      BY <2>1, <2>3 DEF WorkInv
    <2>5. ASSUME NEW i \in Jobs \ rescued PROVE Stored(i)'
      <3>1. CASE i = current
        BY <1>1, <2>4, <2>5, <3>1 DEF Stored, AtWork, Serving, Chores
      <3>2. CASE i # current
        BY <1>1, <2>2, <3>2 DEF Stored, StoredInv
      <3> QED BY <3>1, <3>2
    <2>6. ASSUME NEW i \in Jobs \ rescued, deleted[i] # "old" PROVE Named(i)' \subseteq disk'[i]
      <3>1. i # current
        BY <2>3, <2>6
      <3> QED BY <2>1, <2>2, <2>6, <3>1 DEF NamedInv, Named
    <2> QED BY <1>1, <2>5, <2>6 DEF StoredInv, NamedInv
  <1>4. CASE DeleteRow
    <2>1. disk' = disk /\ \A i \in Jobs : recorded'[i] \subseteq recorded[i]
      BY <1>4 DEF DeleteRow
    <2> QED BY <1>1, <2>1 DEF StoredInv, Stored, NamedInv, Named
  <1> QED BY <1>2, <1>3, <1>4 DEF Purge, SelectJobs, NextRow

LEMMA KeptHolds == Spec => []Kept
  <1>1. Init => StoredInv /\ NamedInv
    <2> SUFFICES ASSUME Init PROVE StoredInv /\ NamedInv
      OBVIOUS
    <2>1. StoredInv
      BY DEF Init, StoredInv, Stored
    <2>2. NamedInv
      BY DEF Init, NamedInv, Named
    <2> QED BY <2>1, <2>2
  <1>2. Kept /\ [Next]_vars => StoredInv' /\ NamedInv'
    <2> SUFFICES ASSUME Kept, [Next]_vars PROVE StoredInv' /\ NamedInv'
      OBVIOUS
    <2>1. CASE Crash
      <3>1. /\ download' = {} /\ \A r \in Requests : at'[r] # "column"
            /\ \A j \in Jobs : render'[j] = <<>>
            /\ UNCHANGED <<rows, deleted, recorded, disk, rescued>>
        BY <2>1 DEF Crash, Kept, Types, rowVars, Chores
      <3> QED BY <3>1 DEF Kept, StoredInv, Stored, NamedInv, Named
    <2>2. CASE UNCHANGED vars
      BY <2>2 DEF vars, rowVars, requestVars, Kept, StoredInv, Stored, NamedInv, Named
    <2> QED BY <2>1, <2>2, WorkStored, ServeStored, DeleteStored, PurgeStored DEF Next
  <1>3. Kept => Types /\ WorkInv /\ PassInv /\ StoredInv /\ NamedInv
    BY DEF Kept
  <1>4. Types /\ WorkInv /\ PassInv /\ StoredInv /\ NamedInv => Kept
    BY DEF Kept
  <1> QED BY <1>1, <1>2, <1>3, <1>4, PassHolds, PTL DEF Spec

\* What the row of a visible job names is on disk, unless it was restored out of
\* the purge's hands: the worker, the render task and the requests record a
\* rendition after it is stored, and the pass has no file of a visible job.
THEOREM VisibleFilesAreThere == Spec => []VisibleFilesExist
  <1>1. Kept => VisibleFilesExist
    BY DEF Kept, NamedInv, VisibleFilesExist, Visible, Types
  <1> QED BY <1>1, KeptHolds, PTL

-----------------------------------------------------------------------------
(* Jobs that are not done.                                                 *)

\* Before it is done a job has at most its image, and no renditions.
Bare(j) ==
  /\ disk[j] \subseteq {Output} /\ recorded[j] = {}
  /\ render[j] = <<>> /\ \A r \in Requests : want[r][1] = j => at[r] \notin Chores

UndoneInv == \A j \in Jobs : status[j] # "done" => Bare(j)

LEMMA UndoneStep ==
  ASSUME Kept, UndoneInv, [Next]_vars
  PROVE  UndoneInv'
  <1> SUFFICES ASSUME NEW i \in Jobs, status'[i] # "done" PROVE Bare(i)'
    BY DEF UndoneInv
  <1> USE DEF Kept, Types, Bare
  <1>1. status[i] # "done" => Bare(i)
    BY DEF UndoneInv
  <1>2. ASSUME NEW j \in Jobs, Download(j) \/ finalize_output(j) \/ Cancel(j) PROVE Bare(i)'
    <2>1. at' = at /\ want' = want /\ status[i] # "done"
      BY <1>2 DEF Download, finalize_output, Cancel, Elsewhere, requestVars
    <2>2. recorded'[i] = recorded[i] /\ render'[i] = render[i] /\ disk'[i] \subseteq disk[i] \cup {Output}
      BY <1>2 DEF Download, finalize_output, Cancel
    <2> QED BY <1>1, <2>1, <2>2
  <1>3. ASSUME NEW j \in Jobs, Generate(j) PROVE Bare(i)'
    <2>1. at' = at /\ want' = want /\ status' = status /\ render[j] # <<>>
      BY <1>3 DEF Generate, GenerateFile, GenerateColumn, GenerateFails, RenderOn, requestVars
    <2>2. i # j
      BY <1>1, <2>1
    <2>3. recorded'[i] = recorded[i] /\ render'[i] = render[i] /\ disk'[i] = disk[i]
      BY <1>3, <2>2 DEF Generate, GenerateFile, GenerateColumn, GenerateFails, RenderOn, Store, Persist
    <2> QED BY <1>1, <2>1, <2>3
  <1>4. ASSUME NEW r \in Requests, NEW j \in Jobs, NEW t \in TierSet, NEW f \in Formats, serve_derived(r, j, t, f)
        PROVE  Bare(i)'
    <2>1. status' = status /\ render' = render /\ recorded' = recorded /\ disk' = disk /\ status[j] = "done"
      BY <1>4 DEF serve_derived, Goto
    <2>2. want'[r][1] = j /\ \A q \in Requests \ {r} : at'[q] = at[q] /\ want'[q] = want[q]
      BY <1>4 DEF serve_derived, Goto
    <2>3. i # j
      BY <2>1
    <2> QED BY <1>1, <2>1, <2>2, <2>3
  <1>5. ASSUME NEW r \in Requests, Ensure(r) PROVE Bare(i)'
    <2>1. status' = status /\ render' = render /\ want' = want /\ at[r] \in Chores
      BY <1>5 DEF Ensure, EnsureFile, EnsureColumn, EnsureFails, Goto, Formats, Chores
    <2>2. want[r][1] # i
      BY <1>1, <2>1
    <2>3. recorded'[i] = recorded[i] /\ disk'[i] = disk[i]
      BY <1>5, <2>2 DEF Ensure, EnsureFile, EnsureColumn, EnsureFails, Store, Persist
    <2>4. \A q \in Requests \ {r} : at'[q] = at[q]
      BY <1>5 DEF Ensure, EnsureFile, EnsureColumn, EnsureFails, Goto
    <2> QED BY <1>1, <2>1, <2>2, <2>3, <2>4
  <1>6. ASSUME NEW j \in Jobs, delete_job(j) \/ restore_job(j) \/ Age(j) PROVE Bare(i)'
    BY <1>1, <1>6 DEF delete_job, restore_job, Age, SetDeleted, requestVars
  <1>7. CASE Purge
    <2>1. UNCHANGED <<status, render, at, want>>
      BY <1>7 DEF Purge, SelectJobs, NextRow, RemoveFile, DeleteRow, Apart, requestVars
    <2>2. recorded'[i] \subseteq recorded[i] /\ disk'[i] \subseteq disk[i]
      BY <1>7 DEF Purge, SelectJobs, NextRow, RemoveFile, DeleteRow
    <2> QED BY <1>1, <2>1, <2>2
  <1>8. CASE Crash
    BY <1>1, <1>8 DEF Crash, rowVars, Chores
  <1>9. CASE UNCHANGED vars
    BY <1>1, <1>9 DEF vars, rowVars, requestVars
  <1> QED BY <1>2, <1>3, <1>4, <1>5, <1>6, <1>7, <1>8, <1>9 DEF Next

-----------------------------------------------------------------------------
(* Without a failed step and without a crash the columns lead to            *)
(* every file of a done job.                                               *)

Calm == faults + crashes = 0

\* The column of a tier is about to be set; its AVIF comes after that.
Pending(j, t) ==
  \/ render[j] # <<>> /\ Head(render[j]) = <<t, "column">>
  \/ \E r \in Requests : at[r] = "column" /\ want[r][1] = j /\ want[r][2] = t
AfterColumn(j, t) ==
  \/ render[j] # <<>> /\ Head(render[j]) = <<t, "avif">>
  \/ \E r \in Requests : at[r] = "avif" /\ want[r][1] = j /\ want[r][2] = t

\* The columns lead to every file of a done job, but for a JPEG just made ...
LedTo(j) ==
  /\ "output" \in recorded[j]
  /\ \A f \in disk[j] : f \in PurgedFiles(j) \/ (f[2] = "jpeg" /\ Pending(j, f[1]))
  /\ \A t \in TierSet : AfterColumn(j, t) => t \in recorded[j]

\* ... and the pass, once it has read them, has the names of all its files.
InPass(j) ==
  /\ \A row \in listed : row[1] = j => disk[j] \subseteq row[2]
  /\ current = j => disk[j] \subseteq doomed

Tidy(j) == IF Exists(j) THEN LedTo(j) /\ InPass(j) ELSE disk[j] = {}

TidyInv == \A j \in Jobs \ rescued : status[j] = "done" => Tidy(j)

\* The files a set of columns leads to, before a step and after it.
Led(columns, f) ==
  \/ f = Output /\ "output" \in columns
  \/ f \in TierSet \X Formats /\ f[1] \in columns

LEMMA PurgedMeans ==
  ASSUME NEW j, NEW f \in File
  PROVE  /\ f \in PurgedFiles(j) <=> Led(recorded[j], f)
         /\ f \in PurgedFiles(j)' <=> Led(recorded'[j], f)
  <1> USE TiersMean DEF PurgedFiles, Named, Led, File, Formats, Output
  <1>1. ASSUME NEW t \in TierSet
        PROVE  /\ t \in recorded[j] => <<t, "jpeg">> \in Named(j) \ {Output}
               /\ t \in recorded'[j] => <<t, "jpeg">> \in Named(j)' \ {Output}
    OBVIOUS
  <1>2. f \in PurgedFiles(j) => Led(recorded[j], f)
    OBVIOUS
  <1>3. f \in PurgedFiles(j)' => Led(recorded'[j], f)
    OBVIOUS
  <1>4. f = Output \/ \E t \in TierSet : f = <<t, "jpeg">> \/ f = <<t, "avif">>
    OBVIOUS
  <1>5. Led(recorded[j], f) => f \in PurgedFiles(j)
    <2>1. CASE f = Output
      BY <2>1
    <2>2. ASSUME NEW t \in TierSet, f = <<t, "jpeg">> \/ f = <<t, "avif">>, Led(recorded[j], f)
          PROVE  f \in PurgedFiles(j)
      <3>1. f[1] = t /\ f # Output
        BY <2>2
      <3>2. t \in recorded[j]
        BY <2>2, <3>1
      <3>3. <<t, "jpeg">> \in Named(j) \ {Output} /\ <<t, "jpeg">>[1] = t
        BY <1>1, <3>2
      <3> HIDE DEF Named, Output
      <3> QED BY <2>2, <3>3
    <2> QED BY <1>4, <2>1, <2>2
  <1>6. Led(recorded'[j], f) => f \in PurgedFiles(j)'
    <2>1. CASE f = Output
      BY <2>1
    <2>2. ASSUME NEW t \in TierSet, f = <<t, "jpeg">> \/ f = <<t, "avif">>, Led(recorded'[j], f)
          PROVE  f \in PurgedFiles(j)'
      <3>1. f[1] = t /\ f # Output
        BY <2>2
      <3>2. t \in recorded'[j]
        BY <2>2, <3>1
      <3>3. <<t, "jpeg">> \in Named(j)' \ {Output} /\ <<t, "jpeg">>[1] = t
        BY <1>1, <3>2
      <3> HIDE DEF Named, Output
      <3> QED BY <2>2, <3>3
    <2> QED BY <1>4, <2>1, <2>2
  <1> QED BY <1>2, <1>3, <1>5, <1>6

\* A step that leaves a job alone, but for files removed.
LEMMA LeftAlone ==
  ASSUME Types, NEW i \in Jobs, Tidy(i), Exists(i)' <=> Exists(i),
         disk'[i] \subseteq disk[i], recorded'[i] = recorded[i], render'[i] = render[i],
         \A r \in Requests :
           (at[r] \in Chores /\ want[r][1] = i) \/ (at'[r] \in Chores /\ want'[r][1] = i)
             => at'[r] = at[r] /\ want'[r] = want[r],
         Exists(i) => InPass(i)'
  PROVE  Tidy(i)'
  <1>1. CASE ~Exists(i)
    BY <1>1 DEF Tidy
  <1>2. CASE Exists(i)
    <2>1. \A t : Pending(i, t) => Pending(i, t)'
      BY DEF Pending, Chores
    <2>2. \A t : AfterColumn(i, t)' => AfterColumn(i, t)
      BY DEF AfterColumn, Chores
    <2>3. PurgedFiles(i)' = PurgedFiles(i)
      BY DEF PurgedFiles, Named
    <2>4. LedTo(i)'
      BY <1>2, <2>1, <2>2, <2>3 DEF Tidy, LedTo
    <2> QED BY <1>2, <2>4 DEF Tidy
  <1> QED BY <1>1, <1>2

\* A job somebody works on is out of the pass's hands and has its files.
LEMMA AtWorkIsSafe ==
  ASSUME Kept, NEW i \in Jobs \ rescued, AtWork(i)
  PROVE  Exists(i) /\ deleted[i] # "old" /\ ~Purging(i) /\ Named(i) \subseteq disk[i]
  BY DEF Kept, WorkInv, PassInv, NamedInv

LEMMA WorkTidy ==
  ASSUME Kept, UndoneInv, TidyInv, Calm, Calm',
         NEW j \in Jobs, Download(j) \/ finalize_output(j) \/ Cancel(j) \/ Generate(j)
  PROVE  TidyInv'
  <1> SUFFICES ASSUME NEW i \in Jobs \ rescued', status'[i] = "done" PROVE Tidy(i)'
    BY DEF TidyInv
  <1> USE DEF Kept, Types
  <1>1. /\ rows' = rows /\ deleted' = deleted /\ rescued' = rescued /\ at' = at /\ want' = want
        /\ listed' = listed /\ current' = current /\ doomed' = doomed
    BY DEF Download, finalize_output, Cancel, Generate, GenerateFile, GenerateColumn, GenerateFails,
           RenderOn, Elsewhere, requestVars, purgeVars
  <1>2. status[i] = "done" => Tidy(i)
    BY <1>1 DEF TidyInv
  <1>3. CASE UNCHANGED <<status, recorded, render>> /\ disk'[i] = disk[i]
    <2>1. Tidy(i) /\ (Exists(i) => InPass(i)')
      BY <1>1, <1>2, <1>3 DEF Tidy, InPass
    <2> QED BY <1>1, <1>3, <2>1, LeftAlone DEF Exists
  <1>4. CASE i # j
    <2>1. /\ disk'[i] = disk[i] /\ recorded'[i] = recorded[i] /\ render'[i] = render[i]
          /\ status[i] = "done"
      BY <1>4 DEF Download, finalize_output, Cancel, Generate, GenerateFile, GenerateColumn,
                  GenerateFails, RenderOn, Store, Persist
    <2>2. Tidy(i) /\ (Exists(i) => InPass(i)')
      BY <1>1, <1>2, <2>1 DEF Tidy, InPass
    <2> QED BY <1>1, <2>1, <2>2, LeftAlone DEF Exists
  <1>5. CASE i = j /\ (Download(j) \/ Cancel(j))
    BY <1>5 DEF Download, Cancel
  <1>6. ASSUME i = j, AtWork(i)
        PROVE  /\ Exists(i)' /\ InPass(i)' /\ Named(i) \subseteq disk[i]
               /\ LedTo(i)' => Tidy(i)'
    <2>1. Exists(i) /\ ~Purging(i) /\ Named(i) \subseteq disk[i]
      BY <1>1, <1>6, AtWorkIsSafe
    <2>2. Exists(i)' /\ InPass(i)'
      BY <1>1, <2>1 DEF Exists, InPass, Purging
    <2> QED BY <2>1, <2>2 DEF Tidy
  <1>7. CASE i = j /\ finalize_output(j)
    <2>1. CASE status[i] = "done"
      BY <1>3, <1>7, <2>1 DEF finalize_output
    <2>2. CASE status[i] # "done"
      <3>1. /\ recorded'[i] = recorded[i] \cup {"output"} /\ render'[i] = Plan /\ disk' = disk
            /\ AtWork(i)
        BY <1>7, <2>2 DEF finalize_output, AtWork
      <3>2. Bare(i)
        BY <2>2 DEF UndoneInv
      <3>3. Head(Plan)[2] = "jpeg"
        BY PlanSteps, OutputTiers DEF Plan
      <3>4. \A t \in TierSet : ~AfterColumn(i, t)'
        <4>1. \A t \in TierSet : Head(Plan) # <<t, "avif">>
          BY <3>3
        <4> QED BY <1>1, <3>1, <3>2, <4>1 DEF AfterColumn, Bare, Chores
      <3>5. \A f \in disk'[i] : f \in PurgedFiles(i)'
        <4>1. Output \in File /\ Led(recorded'[i], Output)
          BY <3>1 DEF File, Led
        <4>2. Output \in PurgedFiles(i)'
          BY <4>1, PurgedMeans
        <4> QED BY <3>1, <3>2, <4>2 DEF Bare
      <3>6. LedTo(i)'
        BY <3>1, <3>4, <3>5 DEF LedTo
      <3> QED BY <1>6, <1>7, <3>1, <3>6
    <2> QED BY <2>1, <2>2
  <1>8. CASE i = j /\ Generate(j)
    <2> DEFINE h == Head(render[i])
    <2>1. render[i] \in Rests /\ render[i] # <<>> /\ status' = status /\ AtWork(i)
      BY <1>8 DEF Generate, GenerateFile, GenerateColumn, GenerateFails, RenderOn, AtWork
    <2>2. /\ h \in TierSet \X Chores /\ Tail(render[i]) \in Rests
          /\ h[2] = "jpeg" => Tail(render[i]) # <<>> /\ Head(Tail(render[i])) = <<h[1], "column">>
          /\ h[2] = "column" => Head(Tail(render[i])) = <<h[1], "avif">>
          /\ h[2] = "avif" => Tail(render[i]) = <<>> \/ Head(Tail(render[i]))[2] = "jpeg"
      BY <2>1, RestSteps
    <2>3. h = <<h[1], h[2]>> /\ h[1] \in TierSet /\ h[2] \in {"jpeg", "column", "avif"}
      BY <2>2 DEF Chores
    <2>4. LedTo(i) /\ Exists(i) /\ Named(i) \subseteq disk[i]
      BY <1>2, <1>1, <2>1, AtWorkIsSafe DEF Tidy
    <2>5. \A t \in TierSet : h = <<t, "avif">> => t \in recorded[i]
      BY <2>1, <2>4 DEF LedTo, AfterColumn
    <2>6. \A t : Pending(i, t) => h = <<t, "column">> \/ Pending(i, t)'
      BY <1>1 DEF Pending
    <2>7. \A t : AfterColumn(i, t)' =>
            AfterColumn(i, t) \/ (render'[i] # <<>> /\ Head(render'[i]) = <<t, "avif">>)
      BY <1>1 DEF AfterColumn
    <2>8. \A f \in disk[i] : f \in PurgedFiles(i) \/ (f[2] = "jpeg" /\ Pending(i, f[1]))
      BY <2>4 DEF LedTo
    <2>9. disk[i] \subseteq File
      OBVIOUS
    <2>10. CASE GenerateFile(j)
      <3>1. /\ recorded' = recorded /\ disk'[i] = disk[i] \cup {h} /\ render'[i] = Tail(render[i])
            /\ h[2] \in Formats
        BY <1>8, <2>10 DEF GenerateFile, Store, RenderOn
      <3> HIDE DEF h
      <3>2. ASSUME NEW f \in disk[i] PROVE f \in PurgedFiles(i)' \/ (f[2] = "jpeg" /\ Pending(i, f[1])')
        <4>1. ASSUME f \in PurgedFiles(i) PROVE f \in PurgedFiles(i)'
          BY <2>9, <3>1, <4>1, PurgedMeans
        <4>2. \A t : h # <<t, "column">>
          BY <3>1 DEF Formats
        <4> QED BY <2>6, <2>8, <4>1, <4>2
      <3>3. ASSUME NEW f \in TierSet \X Formats, f = h
            PROVE  f \in PurgedFiles(i)' \/ (f[2] = "jpeg" /\ Pending(i, f[1])')
        <4>1. CASE f[2] = "jpeg"
          <5>1. render'[i] # <<>> /\ Head(render'[i]) = <<f[1], "column">>
            BY <2>2, <3>1, <3>3, <4>1
          <5>2. Pending(i, f[1])'
            BY <5>1 DEF Pending
          <5> QED BY <4>1, <5>2
        <4>2. CASE f[2] = "avif"
          <5>1. f[1] \in recorded[i]
            BY <2>3, <2>5, <3>3, <4>2
          <5>2. f \in File /\ Led(recorded'[i], f)
            BY <3>1, <5>1 DEF Led, File
          <5> QED BY <5>2, PurgedMeans
        <4> QED BY <3>1, <4>1, <4>2 DEF Formats
      <3>4. \A t \in TierSet : ~(render'[i] # <<>> /\ Head(render'[i]) = <<t, "avif">>)
        <4>1. CASE h[2] = "jpeg"
          BY <2>2, <3>1, <4>1
        <4>2. CASE h[2] = "avif"
          <5>1. \A t : <<t, "avif">>[2] # "jpeg"
            OBVIOUS
          <5>2. render'[i] # <<>> => Head(render'[i])[2] = "jpeg"
            BY <2>2, <3>1, <4>2
          <5> QED BY <5>1, <5>2
        <4> QED BY <3>1, <4>1, <4>2 DEF Formats
      <3>5. \A f \in disk'[i] : f \in PurgedFiles(i)' \/ (f[2] = "jpeg" /\ Pending(i, f[1])')
        <4>1. h \in TierSet \X Formats
          BY <2>3, <3>1
        <4> QED BY <3>1, <3>2, <3>3, <4>1
      <3>6. \A t \in TierSet : AfterColumn(i, t)' => t \in recorded'[i]
        BY <2>4, <2>7, <3>1, <3>4 DEF LedTo
      <3>7. LedTo(i)'
        BY <2>4, <3>1, <3>5, <3>6 DEF LedTo
      <3> QED BY <1>6, <1>8, <2>1, <3>7
    <2>11. CASE GenerateColumn(j)
      <3>1. /\ recorded'[i] = recorded[i] \cup {h[1]} /\ disk' = disk /\ render'[i] = Tail(render[i])
            /\ h[2] = "column"
        BY <1>8, <2>4, <2>11 DEF GenerateColumn, Persist, RenderOn
      <3> HIDE DEF h
      <3>2. ASSUME NEW f \in disk[i] PROVE f \in PurgedFiles(i)' \/ (f[2] = "jpeg" /\ Pending(i, f[1])')
        <4>1. ASSUME f \in PurgedFiles(i) PROVE f \in PurgedFiles(i)'
          <5>1. f \in File /\ Led(recorded[i], f)
            BY <2>9, <4>1, PurgedMeans
          <5>2. Led(recorded'[i], f)
            BY <3>1, <5>1 DEF Led
          <5> QED BY <5>1, <5>2, PurgedMeans
        <4>2. ASSUME f[2] = "jpeg", h = <<f[1], "column">> PROVE f \in PurgedFiles(i)'
          <5>1. f \in File /\ f # Output
            BY <2>9, <4>2 DEF Output
          <5>2. f \in TierSet \X Formats /\ f[1] = h[1]
            BY <4>2, <5>1 DEF File
          <5>3. Led(recorded'[i], f)
            BY <3>1, <5>2 DEF Led
          <5> QED BY <5>1, <5>3, PurgedMeans
        <4> QED BY <2>6, <2>8, <4>1, <4>2
      <3>3. \A t \in TierSet : Head(render'[i]) = <<t, "avif">> => t \in recorded'[i]
        <4>1. Head(render'[i]) = <<h[1], "avif">> /\ h[1] \in recorded'[i]
          BY <2>2, <3>1
        <4>2. \A t, u : <<t, "avif">> = <<u, "avif">> => t = u
          OBVIOUS
        <4> QED BY <4>1, <4>2
      <3>4. \A t \in TierSet : AfterColumn(i, t) => t \in recorded'[i]
        BY <2>4, <3>1 DEF LedTo
      <3>5. LedTo(i)'
        BY <2>4, <2>7, <3>1, <3>2, <3>3, <3>4 DEF LedTo
      <3> QED BY <1>6, <1>8, <2>1, <3>5
    <2>12. CASE GenerateFails(j)
      <3>1. Output \in disk[i]
        BY <2>4 DEF LedTo, Named, File
      <3>2. faults' = faults + 1 /\ crashes' = crashes
        BY <1>8, <2>12, <3>1 DEF GenerateFails, FailsOn, Fault, RenderOn
      <3>3. FALSE
        BY <3>2 DEF Calm
      <3> QED BY <3>3
    <2> QED BY <1>8, <2>10, <2>11, <2>12 DEF Generate
  <1> QED BY <1>4, <1>5, <1>7, <1>8

LEMMA ServeTidy ==
  ASSUME Kept, UndoneInv, TidyInv, Calm, Calm', NEW r \in Requests,
         Ensure(r) \/ \E j \in Jobs, t \in TierSet, f \in Formats : serve_derived(r, j, t, f)
  PROVE  TidyInv'
  <1> SUFFICES ASSUME NEW i \in Jobs \ rescued', status'[i] = "done" PROVE Tidy(i)'
    BY DEF TidyInv
  <1> USE DEF Kept, Types
  <1>1. /\ rows' = rows /\ deleted' = deleted /\ rescued' = rescued /\ status' = status /\ render' = render
        /\ listed' = listed /\ current' = current /\ doomed' = doomed
        /\ \A q \in Requests \ {r} : at'[q] = at[q] /\ want'[q] = want[q]
    BY DEF Ensure, EnsureFile, EnsureColumn, EnsureFails, serve_derived, Goto, purgeVars
  <1>2. Tidy(i)
    BY <1>1 DEF TidyInv
  <1>3. ASSUME NEW j \in Jobs, NEW t \in TierSet, NEW f \in Formats, serve_derived(r, j, t, f)
        PROVE  Tidy(i)'
    <2>1. disk' = disk /\ recorded' = recorded /\ at[r] = "new"
      BY <1>3 DEF serve_derived
    <2>2. want'[r] = <<j, t, f>> /\ want'[r][1] = j /\ want'[r][2] = t
      BY <1>3 DEF serve_derived
    <2>3. at'[r] = IF Ready(j, t, f) THEN "served" ELSE IF NeedsJpeg(j, t) THEN "jpeg" ELSE f
      BY <1>3 DEF serve_derived, Goto
    <2>4. at'[r] = "avif" => t \in recorded[j]
      BY <2>3 DEF NeedsJpeg, Ready
    <2>5. at'[r] # "column"
      BY <2>3 DEF Formats
    <2>6. \A u : Pending(i, u) => Pending(i, u)'
      BY <1>1, <2>1 DEF Pending
    <2>7. \A u \in TierSet : AfterColumn(i, u)' => AfterColumn(i, u) \/ (i = j /\ u = t /\ at'[r] = "avif")
      BY <1>1, <2>2 DEF AfterColumn
    <2>8. PurgedFiles(i)' = PurgedFiles(i)
      BY <2>1 DEF PurgedFiles, Named
    <2>9. Exists(i) => LedTo(i)'
      <3>1. SUFFICES ASSUME LedTo(i) PROVE LedTo(i)'
        BY <1>2 DEF Tidy
      <3>2. \A g \in disk'[i] : g \in PurgedFiles(i)' \/ (g[2] = "jpeg" /\ Pending(i, g[1])')
        BY <2>1, <2>6, <2>8, <3>1 DEF LedTo
      <3>3. \A u \in TierSet : AfterColumn(i, u)' => u \in recorded'[i]
        BY <2>1, <2>4, <2>7, <3>1 DEF LedTo
      <3> QED BY <2>1, <3>1, <3>2, <3>3 DEF LedTo
    <2> QED BY <1>1, <1>2, <2>1, <2>9 DEF Tidy, InPass, Exists
  <1>4. ASSUME Ensure(r), want[r][1] # i PROVE Tidy(i)'
    <2>1. want' = want /\ disk'[i] = disk[i] /\ recorded'[i] = recorded[i]
      BY <1>4 DEF Ensure, EnsureFile, EnsureColumn, EnsureFails, Store, Persist
    <2>2. Exists(i) => InPass(i)'
      BY <1>1, <1>2, <2>1 DEF Tidy, InPass
    <2> QED BY <1>1, <1>2, <1>4, <2>1, <2>2, LeftAlone DEF Exists
  <1>5. ASSUME Ensure(r), want[r][1] = i PROVE Tidy(i)'
    <2> DEFINE t == want[r][2]
    <2>1. want' = want /\ at[r] \in Chores /\ t \in TierSet /\ AtWork(i)
      BY <1>5 DEF Ensure, EnsureFile, EnsureColumn, EnsureFails, AtWork, Serving, Formats, Chores
    <2>2. Exists(i) /\ ~Purging(i) /\ Named(i) \subseteq disk[i]
      BY <1>1, <2>1, AtWorkIsSafe
    <2>3. LedTo(i) /\ (LedTo(i)' => Tidy(i)')
      BY <1>1, <1>2, <2>2 DEF Tidy, Exists, InPass, Purging
    <2>4. disk[i] \subseteq File
      OBVIOUS
    <2> HIDE DEF t
    <2>5. \A u : Pending(i, u) => Pending(i, u)' \/ (at[r] = "column" /\ u = t)
      BY <1>1, <2>1 DEF Pending, t
    <2>6. \A u : AfterColumn(i, u)' => AfterColumn(i, u) \/ (at'[r] = "avif" /\ u = t)
      BY <1>1, <2>1 DEF AfterColumn, t
    <2>7. CASE EnsureFile(r)
      <3>1. /\ at[r] \in Formats /\ recorded' = recorded
            /\ disk'[i] = disk[i] \cup {<<t, at[r]>>}
            /\ at'[r] = IF at[r] = "jpeg" THEN "column" ELSE "served"
        BY <1>5, <2>7 DEF EnsureFile, Store, Goto, t
      <3>2. PurgedFiles(i)' = PurgedFiles(i)
        BY <3>1 DEF PurgedFiles, Named
      <3>3. ASSUME NEW f \in disk[i] PROVE f \in PurgedFiles(i)' \/ (f[2] = "jpeg" /\ Pending(i, f[1])')
        BY <2>3, <2>5, <3>1, <3>2 DEF LedTo, Formats
      <3>4. ASSUME NEW f \in TierSet \X Formats, f = <<t, at[r]>>
            PROVE  f \in PurgedFiles(i)' \/ (f[2] = "jpeg" /\ Pending(i, f[1])')
        <4>1. f[1] = t /\ f[2] = at[r]
          BY <3>4
        <4>2. CASE at[r] = "jpeg"
          BY <1>5, <2>1, <3>1, <4>1, <4>2 DEF Pending, t
        <4>3. CASE at[r] = "avif"
          <5>1. AfterColumn(i, f[1])
            BY <1>5, <4>1, <4>3 DEF AfterColumn, t
          <5>2. f \in File /\ Led(recorded'[i], f)
            BY <2>1, <2>3, <3>1, <4>1, <5>1 DEF LedTo, Led, File
          <5> QED BY <5>2, PurgedMeans
        <4> QED BY <3>1, <4>2, <4>3 DEF Formats
      <3>5. <<t, at[r]>> \in TierSet \X Formats
        BY <2>1, <3>1
      <3>6. \A f \in disk'[i] : f \in PurgedFiles(i)' \/ (f[2] = "jpeg" /\ Pending(i, f[1])')
        BY <3>1, <3>3, <3>4, <3>5
      <3>7. \A u \in TierSet : AfterColumn(i, u)' => u \in recorded'[i]
        BY <2>3, <2>6, <3>1 DEF LedTo
      <3> QED BY <2>3, <3>1, <3>6, <3>7 DEF LedTo
    <2>8. CASE EnsureColumn(r)
      <3>1. disk' = disk /\ recorded'[i] = recorded[i] \cup {t}
        BY <1>5, <2>2, <2>8 DEF EnsureColumn, Persist, t
      <3>2. ASSUME NEW f \in disk[i] PROVE f \in PurgedFiles(i)' \/ (f[2] = "jpeg" /\ Pending(i, f[1])')
        <4>1. ASSUME f \in PurgedFiles(i) PROVE f \in PurgedFiles(i)'
          <5>1. f \in File /\ Led(recorded[i], f)
            BY <2>4, <4>1, PurgedMeans
          <5>2. Led(recorded'[i], f)
            BY <3>1, <5>1 DEF Led
          <5> QED BY <5>1, <5>2, PurgedMeans
        <4>2. ASSUME f[2] = "jpeg", f[1] = t PROVE f \in PurgedFiles(i)'
          <5>1. f \in File /\ f # Output
            BY <2>4, <4>2 DEF Output
          <5>2. f \in TierSet \X Formats
            BY <5>1 DEF File
          <5>3. Led(recorded'[i], f)
            BY <3>1, <4>2, <5>2 DEF Led
          <5> QED BY <5>1, <5>3, PurgedMeans
        <4> QED BY <2>3, <2>5, <4>1, <4>2 DEF LedTo
      <3>3. \A u \in TierSet : AfterColumn(i, u)' => u \in recorded'[i]
        BY <2>3, <2>6, <3>1 DEF LedTo
      <3> QED BY <2>3, <3>1, <3>2, <3>3 DEF LedTo
    <2>9. CASE EnsureFails(r)
      <3>1. Output \in disk[i]
        BY <2>2, <2>3 DEF LedTo, Named, File
      <3>2. faults' = faults + 1 /\ crashes' = crashes
        BY <1>5, <2>9, <3>1 DEF EnsureFails, FailsOn, Fault, Goto
      <3>3. FALSE
        BY <3>2 DEF Calm
      <3> QED BY <3>3
    <2> QED BY <1>5, <2>7, <2>8, <2>9 DEF Ensure
  <1> QED BY <1>3, <1>4, <1>5

LEMMA PurgeTidy ==
  ASSUME Kept, TidyInv, Purge, Calm, Calm'
  PROVE  TidyInv'
  <1> SUFFICES ASSUME NEW i \in Jobs \ rescued', status'[i] = "done" PROVE Tidy(i)'
    BY DEF TidyInv
  <1> USE DEF Kept, Types
  <1>1. /\ status' = status /\ deleted' = deleted /\ render' = render /\ rescued' = rescued
        /\ at' = at /\ want' = want
    BY DEF Purge, SelectJobs, NextRow, RemoveFile, DeleteRow, Apart, requestVars
  <1>2. Tidy(i)
    BY <1>1 DEF TidyInv
  <1>3. CASE SelectJobs
    <2>1. rows' = rows /\ recorded' = recorded /\ disk' = disk /\ current' = NoJob
      BY <1>3 DEF SelectJobs
    <2>2. ASSUME Exists(i), NEW row \in listed', row[1] = i PROVE disk[i] \subseteq row[2]
      <3>1. deleted[i] = "old" /\ row[2] = PurgedFiles(i)
        BY <1>3, <2>2 DEF SelectJobs
      <3>2. ~AtWork(i) /\ LedTo(i)
        BY <1>2, <2>2, <3>1 DEF WorkInv, Tidy
      <3>3. \A t : ~Pending(i, t)
        BY <3>2 DEF AtWork, Serving, Pending, Chores
      <3> QED BY <3>1, <3>2, <3>3 DEF LedTo
    <2>3. Exists(i) => InPass(i)'
      BY <2>1, <2>2, OutputFinite DEF InPass
    <2> QED BY <1>1, <1>2, <2>1, <2>3, LeftAlone DEF Exists
  <1>4. ASSUME NEW row \in listed, NextRow(row) PROVE Tidy(i)'
    <2>1. /\ rows' = rows /\ recorded' = recorded /\ disk' = disk
          /\ current' = row[1] /\ doomed' = row[2] /\ listed' \subseteq listed
      BY <1>4 DEF NextRow
    <2>2. Exists(i) => InPass(i)'
      BY <1>2, <2>1 DEF Tidy, InPass
    <2> QED BY <1>1, <1>2, <2>1, <2>2, LeftAlone DEF Exists
  <1>5. ASSUME NEW f \in doomed, RemoveFile(f) PROVE Tidy(i)'
    <2>1. /\ rows' = rows /\ recorded' = recorded /\ listed' = listed /\ current' = current
          /\ doomed' = doomed \ {f} /\ current \in Jobs
      BY <1>5 DEF RemoveFile
    <2>2. disk'[current] = disk[current] \ {f} /\ (i # current => disk'[i] = disk[i])
      <3>1. faults' # faults + 1 \/ crashes' # crashes
        BY OutputBounds DEF Calm
      <3> QED BY <1>5, <2>1, <3>1 DEF RemoveFile, Fault, boundVars
    <2>3. Exists(i) => InPass(i)'
      BY <1>2, <2>1, <2>2 DEF Tidy, InPass
    <2>4. disk'[i] \subseteq disk[i]
      BY <2>2
    <2> QED BY <1>1, <1>2, <2>1, <2>3, <2>4, LeftAlone DEF Exists
  <1>6. CASE DeleteRow
    <2>1. /\ rows' = rows \ {current} /\ disk' = disk /\ listed' = listed /\ current' = NoJob
          /\ doomed = {} /\ current \in Jobs
          /\ i # current => recorded'[i] = recorded[i]
      BY <1>6 DEF DeleteRow
    <2>2. CASE i = current
      BY <1>2, <2>1, <2>2 DEF Tidy, InPass, Exists
    <2>3. CASE i # current
      <3>1. Exists(i) => InPass(i)'
        BY <1>2, <2>1, OutputFinite DEF Tidy, InPass
      <3> QED BY <1>1, <1>2, <2>1, <2>3, <3>1, LeftAlone DEF Exists
    <2> QED BY <2>2, <2>3
  <1> QED BY <1>3, <1>4, <1>5, <1>6 DEF Purge

\* Every file of a done job is led to while nothing fails.
Tidily == Kept /\ UndoneInv /\ (Calm => TidyInv)

LEMMA TidyStep ==
  ASSUME Tidily, [Next]_vars, Calm'
  PROVE  TidyInv'
  <1> USE DEF Tidily
  <1>1. Calm
    <2> DEFINE Counted == faults' \in {faults, faults + 1} /\ crashes' \in {crashes, crashes + 1}
    <2>1. ASSUME NEW j \in Jobs, Download(j) \/ finalize_output(j) \/ Cancel(j) \/ Generate(j) PROVE Counted
      BY <2>1 DEF Download, finalize_output, Cancel, Generate, GenerateFile, GenerateColumn, GenerateFails,
                  RenderOn, Elsewhere, FailsOn, Fault, boundVars
    <2>2. ASSUME NEW r \in Requests,
                 Ensure(r) \/ \E j \in Jobs, t \in TierSet, f \in Formats : serve_derived(r, j, t, f)
          PROVE  Counted
      BY <2>2 DEF Ensure, EnsureFile, EnsureColumn, EnsureFails, serve_derived, Goto, FailsOn, Fault
    <2>3. ASSUME NEW j \in Jobs, delete_job(j) \/ restore_job(j) \/ Age(j) PROVE Counted
      BY <2>3 DEF delete_job, restore_job, Age, SetDeleted, boundVars
    <2>4. Purge => Counted
      BY DEF Purge, SelectJobs, NextRow, RemoveFile, Fault, DeleteRow, Apart, boundVars
    <2>5. Crash \/ UNCHANGED vars => Counted
      BY DEF Crash, vars, boundVars
    <2> HIDE DEF Counted
    <2>6. Counted
      BY <2>1, <2>2, <2>3, <2>4, <2>5 DEF Next
    <2>7. faults \in Nat /\ crashes \in Nat
      BY OutputBounds DEF Kept, Types
    <2>8. \A f, c \in Nat : \A g \in {f, f + 1}, d \in {c, c + 1} : g + d = 0 => f + c = 0
      OBVIOUS
    <2> QED BY <2>6, <2>7, <2>8 DEF Calm, Counted
  <1>2. ~Crash
    <2>1. Crash => crashes' = crashes + 1 /\ faults' = faults
      BY DEF Crash
    <2>2. faults \in Nat /\ crashes \in Nat
      BY OutputBounds DEF Kept, Types
    <2> QED BY <2>1, <2>2 DEF Calm
  <1>3. ASSUME UNCHANGED <<rows, status, recorded, disk, render, at, want, listed, current, doomed>>,
               rescued \subseteq rescued'
        PROVE  TidyInv'
    BY <1>1, <1>3 DEF TidyInv, Tidy, LedTo, InPass, Exists, Pending, AfterColumn, PurgedFiles, Named
  <1>4. ASSUME NEW j \in Jobs, delete_job(j) \/ restore_job(j) \/ Age(j) PROVE TidyInv'
    BY <1>3, <1>4 DEF delete_job, restore_job, Age, SetDeleted, requestVars, purgeVars
  <1>5. CASE UNCHANGED vars
    BY <1>3, <1>5 DEF vars, rowVars, requestVars, purgeVars
  <1> QED BY <1>1, <1>2, <1>4, <1>5, WorkTidy, ServeTidy, PurgeTidy DEF Next

\* A done job that is gone took all its files along, unless a step failed or
\* the server crashed: while it had its row the columns led to all its files but a
\* JPEG whose column was to come, and nobody is at work on it when the pass reads
\* them.
THEOREM PurgedWithoutTrace == Spec => []PurgeLeavesNothing
  <1>1. Init => UndoneInv /\ TidyInv
    <2> SUFFICES ASSUME Init PROVE UndoneInv /\ TidyInv
      OBVIOUS
    <2>1. UndoneInv
      BY DEF Init, UndoneInv, Bare, Chores
    <2>2. TidyInv
      BY DEF Init, TidyInv
    <2> QED BY <2>1, <2>2
  <1>2. Tidily /\ [Next]_vars /\ Kept' => Tidily'
    BY UndoneStep, TidyStep DEF Tidily
  <1>3. Tidily => PurgeLeavesNothing
    BY DEF Tidily, Calm, Kept, Types, TidyInv, Tidy, PurgeLeavesNothing
  <1>4. Init /\ Kept => Tidily
    BY <1>1 DEF Tidily
  <1> QED BY <1>2, <1>3, <1>4, KeptHolds, PTL DEF Spec
=============================================================================
