---------------------------- MODULE OutputFiles ----------------------------
(***************************************************************************)
(* The files a job leaves on disk, from its image under outputs/ to the    *)
(* renditions of src/derived_images.rs (a JPEG and an AVIF per tier), who   *)
(* writes them (the worker, its detached render task, serve_derived in     *)
(* src/images.rs) and who removes them (the job half of purge::run).       *)
(* Days pass over a deleted job only while nobody is at work on it.        *)
(***************************************************************************)
EXTENDS Naturals, FiniteSets, Sequences

CONSTANTS Jobs,
          Tiers,      \* the tiers, in the order they are rendered
          Requests,   \* requests for a rendition, each served once
          MaxFaults,  \* bound on rendering steps and removals that fail
          MaxCrashes, \* bound on crashes of the server
          NoJob

ASSUME OutputFinite == IsFiniteSet(Jobs) /\ IsFiniteSet(Requests) /\ NoJob \notin Jobs
ASSUME OutputTiers == Tiers \in {<<"thumb">>, <<"thumb", "preview">>}
ASSUME OutputBounds == MaxFaults \in Nat /\ MaxCrashes \in Nat

TierSet == {Tiers[i] : i \in 1 .. Len(Tiers)}
Formats == {"jpeg", "avif"}
Output == <<"output", "png">>
File == (TierSet \X Formats) \cup {Output}

\* generate_for_job: per tier the JPEG, its column, and the AVIF.
Chores == {"jpeg", "column", "avif"}
Plan == [i \in 1 .. 3 * Len(Tiers) |->
           <<Tiers[((i - 1) \div 3) + 1], <<"jpeg", "column", "avif">>[((i - 1) % 3) + 1]>>]

VARIABLES rows,     \* jobs with a row: all, until they are purged
          status,   \* [Jobs -> "open", "done", "cancelled"]; of a purged job, the last
          deleted,  \* [Jobs -> "no", "recent", "old"]; "old" is past the grace
          recorded, \* [Jobs -> columns set: "output" (output_path), the tiers']
          disk,     \* [Jobs -> SUBSET File]
          download, \* the job whose image is stored and whose UPDATE is to come
          render,   \* [Jobs -> what is left of generate_for_job]
          at,       \* [Requests -> position in serve_derived]
          want,     \* [Requests -> <<job, tier, format>>]
          listed,   \* <<job, files>> of the pass's SELECT not yet dealt with
          current,  \* the row the pass is at
          doomed,   \* the files of that row still to be removed
          rescued,  \* jobs restored when the purge was, or had been, at them
          faults, crashes

rowVars == <<rows, status, deleted, recorded>>
requestVars == <<at, want>>
purgeVars == <<listed, current, doomed>>
boundVars == <<faults, crashes>>
vars == <<rowVars, disk, download, render, requestVars, purgeVars, rescued, boundVars>>

TypeOK ==
  /\ rows \subseteq Jobs
  /\ status \in [Jobs -> {"open", "done", "cancelled"}]
  /\ deleted \in [Jobs -> {"no", "recent", "old"}]
  /\ recorded \in [Jobs -> SUBSET (TierSet \cup {"output"})]
  /\ disk \in [Jobs -> SUBSET File]
  /\ download \subseteq Jobs /\ Cardinality(download) <= 1
  /\ \A j \in Jobs : \E i \in 0 .. Len(Plan) : render[j] = SubSeq(Plan, i + 1, Len(Plan))
  /\ at \in [Requests -> Chores \cup {"new", "served", "failed"}]
  /\ want \in [Requests -> (Jobs \cup {NoJob}) \X TierSet \X Formats]
  /\ listed \subseteq Jobs \X SUBSET File
  /\ current \in Jobs \cup {NoJob} /\ doomed \subseteq File
  /\ rescued \subseteq Jobs
  /\ faults \in 0 .. MaxFaults /\ crashes \in 0 .. MaxCrashes

Init ==
  /\ rows = Jobs
  /\ status = [j \in Jobs |-> "open"]
  /\ deleted = [j \in Jobs |-> "no"]
  /\ recorded = [j \in Jobs |-> {}]
  /\ disk = [j \in Jobs |-> {}]
  /\ download = {}
  /\ render = [j \in Jobs |-> <<>>]
  /\ at = [r \in Requests |-> "new"]
  /\ want = [r \in Requests |-> <<NoJob, Tiers[1], "jpeg">>]
  /\ listed = {} /\ current = NoJob /\ doomed = {}
  /\ rescued = {}
  /\ faults = 0 /\ crashes = 0

Exists(j) == j \in rows
Visible(j) == Exists(j) /\ deleted[j] = "no"
Serving(j) == {r \in Requests : want[r][1] = j /\ at[r] \in Chores}
AtWork(j) == j \in download \/ render[j] # <<>> \/ Serving(j) # {}
Purging(j) == current = j \/ \E row \in listed : row[1] = j

\* Files the row names: its output, and the JPEG of every tier recorded.
Named(j) ==
  {f \in File : (f = Output /\ "output" \in recorded[j]) \/ (f[1] \in recorded[j] /\ f[2] = "jpeg")}

-----------------------------------------------------------------------------
(* The worker: the image lands under outputs/, then mark_done.             *)

Elsewhere == UNCHANGED <<rows, deleted, requestVars, purgeVars, rescued, boundVars>>

\* A job deleted in the queue is not started, and one deleted while it runs ends
\* within its timeout, so none is past its grace.
Download(j) ==
  /\ Exists(j) /\ status[j] = "open" /\ download = {} /\ deleted[j] # "old"
  /\ download' = {j}
  /\ disk' = [disk EXCEPT ![j] = @ \cup {Output}]
  /\ UNCHANGED <<status, recorded, render>> /\ Elsewhere

\* The UPDATE hits a job still running; then the render task is detached.
finalize_output(j) ==
  /\ j \in download /\ download' = {}
  /\ IF Exists(j) /\ status[j] = "open"
     THEN /\ status' = [status EXCEPT ![j] = "done"]
          /\ recorded' = [recorded EXCEPT ![j] = @ \cup {"output"}]
          /\ render' = [render EXCEPT ![j] = Plan]
     ELSE UNCHANGED <<status, recorded, render>>
  /\ UNCHANGED disk /\ Elsewhere

Cancel(j) ==
  /\ Exists(j) /\ status[j] = "open"
  /\ status' = [status EXCEPT ![j] = "cancelled"]
  /\ UNCHANGED <<recorded, disk, download, render>> /\ Elsewhere

-----------------------------------------------------------------------------
(* Renditions.  render_only reads the output and writes through a temporary *)
(* file; render_and_persist then sets the tier's column, by id alone.      *)

Store(j, f) == disk' = [disk EXCEPT ![j] = @ \cup {f}]
Persist(j, t) ==
  recorded' = [recorded EXCEPT ![j] = IF Exists(j) THEN @ \cup {t} ELSE @]

Fault == faults < MaxFaults /\ faults' = faults + 1
FailsOn(j, chore) ==
  \/ chore \in Formats /\ Output \notin disk[j] /\ faults' = faults
  \/ Fault

RenderOn(j, rest) ==
  /\ render' = [render EXCEPT ![j] = rest]
  /\ UNCHANGED <<rows, status, deleted, download, requestVars, purgeVars, rescued, crashes>>

GenerateFile(j) ==
  /\ render[j] # <<>> /\ Head(render[j])[2] \in Formats
  /\ Output \in disk[j]
  /\ Store(j, Head(render[j]))
  /\ RenderOn(j, Tail(render[j]))
  /\ UNCHANGED <<recorded, faults>>

GenerateColumn(j) ==
  /\ render[j] # <<>> /\ Head(render[j])[2] = "column"
  /\ Persist(j, Head(render[j])[1])
  /\ RenderOn(j, Tail(render[j]))
  /\ UNCHANGED <<disk, faults>>

ColumnThoughFailed(j) ==
  /\ render[j] # <<>>
  /\ FailsOn(j, Head(render[j])[2])
  /\ RenderOn(j, Tail(render[j]))
  /\ UNCHANGED <<recorded, disk>>

GenerateFailsAgainLater(j) ==
  /\ render[j] # <<>>
  /\ FailsOn(j, Head(render[j])[2])
  /\ RenderOn(j, Append(Tail(render[j]), Head(render[j])))
  /\ UNCHANGED <<recorded, disk>>

\* A failed JPEG takes its column with it; the next rendition is tried anyway.
GenerateFails(j) ==
  /\ render[j] # <<>>
  /\ FailsOn(j, Head(render[j])[2])
  /\ RenderOn(j, IF Head(render[j])[2] = "jpeg" THEN Tail(Tail(render[j])) ELSE Tail(render[j]))
  /\ UNCHANGED <<recorded, disk>>

Generate(j) == GenerateFile(j) \/ GenerateColumn(j) \/ GenerateFails(j)

-----------------------------------------------------------------------------
(* serve_derived, for one tier and the format negotiated.                  *)

Goto(r, l) ==
  /\ at' = [at EXCEPT ![r] = l]
  /\ UNCHANGED <<rows, status, deleted, download, render, purgeVars, rescued, crashes>>

\* What a request finds ready: a JPEG through its column, an AVIF by its name.
Ready(j, t, f) == <<t, f>> \in disk[j] /\ (f = "avif" \/ t \in recorded[j])
NeedsJpeg(j, t) == ~Ready(j, t, "jpeg")

\* The row, the fast path, and whether even an AVIF needs its JPEG made first.
serve_derived(r, j, t, f) ==
  /\ at[r] = "new" /\ Visible(j) /\ status[j] = "done"
  /\ want' = [want EXCEPT ![r] = <<j, t, f>>]
  /\ Goto(r, IF Ready(j, t, f) THEN "served" ELSE IF NeedsJpeg(j, t) THEN "jpeg" ELSE f)
  /\ UNCHANGED <<recorded, disk, faults>>

EnsureFile(r) ==
  LET j == want[r][1]  t == want[r][2] IN
  /\ at[r] \in Formats
  /\ Output \in disk[j]
  /\ Store(j, <<t, at[r]>>)
  /\ Goto(r, IF at[r] = "jpeg" THEN "column" ELSE "served")
  /\ UNCHANGED <<recorded, want, faults>>

\* After the JPEG of an AVIF request comes its AVIF; a JPEG asked for is made
\* and recorded once.
EnsureColumn(r) ==
  /\ at[r] = "column"
  /\ Persist(want[r][1], want[r][2])
  /\ Goto(r, IF want[r][3] = "avif" THEN "avif" ELSE "served")
  /\ UNCHANGED <<disk, want, faults>>

\* A failed AVIF falls back to the JPEG; anything else that fails is a 500.
EnsureFails(r) ==
  LET j == want[r][1]  t == want[r][2] IN
  /\ at[r] \in Chores
  /\ FailsOn(j, at[r])
  /\ Goto(r, IF at[r] = "avif" /\ <<t, "jpeg">> \in disk[j] THEN "served" ELSE "failed")
  /\ UNCHANGED <<recorded, disk, want>>

Ensure(r) == EnsureFile(r) \/ EnsureColumn(r) \/ EnsureFails(r)

-----------------------------------------------------------------------------
(* delete_job, restore_job, and the days in between.                       *)

SetDeleted(j, v) ==
  /\ deleted' = [deleted EXCEPT ![j] = v]
  /\ UNCHANGED <<rows, status, recorded, disk, download, render, requestVars, purgeVars, boundVars>>

delete_job(j) == Visible(j) /\ SetDeleted(j, "recent") /\ UNCHANGED rescued

restore_job(j) ==
  /\ Exists(j) /\ deleted[j] # "no"
  /\ SetDeleted(j, "no")
  /\ rescued' = IF Purging(j) \/ ~(Named(j) \subseteq disk[j]) THEN rescued \cup {j} ELSE rescued

\* The grace period runs out.
Age(j) ==
  /\ Exists(j) /\ deleted[j] = "recent" /\ ~AtWork(j)
  /\ SetDeleted(j, "old") /\ UNCHANGED rescued

-----------------------------------------------------------------------------
(* The job half of purge::run.                                             *)

Apart == UNCHANGED <<status, deleted, download, render, requestVars, rescued>>

\* The files of a row: those it names, and the AVIF beside every JPEG.
WithoutAvif(j) == Named(j)
PurgedFiles(j) == Named(j) \cup {<<f[1], "avif">> : f \in Named(j) \ {Output}}

SelectAllDeleted ==
  LET old == {j \in Jobs : Exists(j) /\ deleted[j] # "no"} IN
  /\ current = NoJob /\ listed = {} /\ old # {}
  /\ listed' = {<<j, PurgedFiles(j)>> : j \in old}
  /\ UNCHANGED <<rows, recorded, disk, current, doomed, boundVars>> /\ Apart

SelectJobs ==
  LET old == {j \in Jobs : Exists(j) /\ deleted[j] = "old"} IN
  /\ current = NoJob /\ listed = {} /\ old # {}
  /\ listed' = {<<j, PurgedFiles(j)>> : j \in old}
  /\ UNCHANGED <<rows, recorded, disk, current, doomed, boundVars>> /\ Apart

NextRow(row) ==
  /\ current = NoJob
  /\ current' = row[1] /\ doomed' = row[2]
  /\ listed' = listed \ {row}
  /\ UNCHANGED <<rows, recorded, disk, boundVars>> /\ Apart

\* A removal that fails is logged, and the row will go all the same.
RemoveFile(f) ==
  /\ doomed' = doomed \ {f}
  /\ \/ disk' = [disk EXCEPT ![current] = @ \ {f}] /\ UNCHANGED boundVars
     \/ /\ f \in disk[current] /\ UNCHANGED disk
        /\ Fault /\ UNCHANGED crashes
  /\ UNCHANGED <<rows, recorded, listed, current>> /\ Apart

RowKept ==
  /\ current # NoJob /\ doomed = {}
  /\ current' = NoJob
  /\ UNCHANGED <<rows, recorded, disk, listed, doomed, boundVars>> /\ Apart

\* DELETE FROM jobs WHERE id = ?
DeleteRow ==
  /\ current # NoJob /\ doomed = {}
  /\ current' = NoJob
  /\ rows' = rows \ {current}
  /\ recorded' = [recorded EXCEPT ![current] = {}]
  /\ UNCHANGED <<disk, listed, doomed, boundVars>> /\ Apart

Purge ==
  SelectJobs \/ (\E row \in listed : NextRow(row)) \/ (\E f \in doomed : RemoveFile(f)) \/ DeleteRow

\* A crash takes the render task, the requests and the pass; the job of the
\* worker goes back on the queue.
Crash ==
  /\ crashes < MaxCrashes /\ crashes' = crashes + 1
  /\ download' = {}
  /\ render' = [j \in Jobs |-> <<>>]
  /\ at' = [r \in Requests |-> IF at[r] \in Chores THEN "failed" ELSE at[r]]
  /\ listed' = {} /\ current' = NoJob /\ doomed' = {}
  /\ UNCHANGED <<rowVars, disk, want, rescued, faults>>

Next ==
  \/ \E j \in Jobs : Download(j) \/ finalize_output(j) \/ Cancel(j) \/ Generate(j)
  \/ \E r \in Requests : Ensure(r)
       \/ \E j \in Jobs, t \in TierSet, f \in Formats : serve_derived(r, j, t, f)
  \/ \E j \in Jobs : delete_job(j) \/ restore_job(j) \/ Age(j)
  \/ Purge \/ Crash

Spec == Init /\ [][Next]_vars

\* The purge task goes round every day and each of its steps ends.
FairSpec == Spec /\ WF_vars(Purge)

-----------------------------------------------------------------------------
(* Properties.                                                             *)

\* A done job that is hard-deleted takes all its files along: output, thumbs,
\* previews, and the AVIF files no column names, whoever rendered them.  A step
\* of rendering or a removal that failed, or a crash, may leave files behind.
PurgeLeavesNothing ==
  faults + crashes = 0 =>
    \A j \in Jobs : ~Exists(j) /\ status[j] = "done" /\ j \notin rescued => disk[j] = {}

\* What the row of a visible job names is on disk (unless it was restored out
\* of the purge's hands), whoever rendered it, failed to, or crashed.
VisibleFilesExist ==
  \A j \in Jobs : Visible(j) /\ j \notin rescued => Named(j) \subseteq disk[j]

\* Past its grace a deleted job goes, whatever the pass was interrupted by.
OldJobsGo ==
  \A j \in Jobs : deleted[j] = "old" ~> ~Exists(j) \/ deleted[j] = "no"

\* A row goes only when its grace is over, though the pass looked at deleted_at
\* long before; but for a job that was restored, and perhaps deleted once more,
\* with the pass at it: "Reverses a soft delete" (docs/API_CONTRACT.md) is then
\* undone for good.
GraceIsKept ==
  [][\A j \in rows \ rows' : deleted[j] = "old" \/ j \in rescued]_vars
=============================================================================
