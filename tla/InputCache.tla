----------------------------- MODULE InputCache -----------------------------
(***************************************************************************)
(* The input-image cache of zun-rust-server: `inputs` rows, the files under *)
(* cache/inputs/, the submits that look a hash up, reuse or upload it       *)
(* (resolve_input in src/handlers.rs, await by await), the worker that      *)
(* reads the file, and the daily purge that drops what is stale             *)
(* (src/purge.rs).  Days pass only while none of these is at work.          *)
(***************************************************************************)
EXTENDS Naturals, FiniteSets

CONSTANTS Shas,       \* image hashes
          Exts,       \* file extensions an upload may declare (jpg, png)
          Requests,   \* submit requests, each served once
          MaxCrashes, \* bound on crashes of the server
          MaxFaults,  \* bound on cached files that vanish by themselves, and on
                      \* UPDATEs of the purge that fail, together
          NoPath,     \* SQL NULL in inputs.path
          NoRow       \* no row with that sha256

ASSUME InputFinite == IsFiniteSet(Shas) /\ IsFiniteSet(Exts) /\ IsFiniteSet(Requests)
ASSUME InputBounds == MaxCrashes \in Nat /\ MaxFaults \in Nat
ASSUME InputNulls == NoPath \notin Exts /\ NoRow \notin Exts \cup {NoPath}

NoBytes == NoPath                        \* a request that sends the hash only

\* A submit: which await of resolve_input comes next, or the answer it got.
Mid == {"stat", "touch", "demote", "write", "record", "insert"}
RequestAt == Mid \cup {"new", "accepted", "needUpload", "error500", "lost"}

\* A job, named by the request that inserted it: what the worker knows of its
\* input.  "reading" stands between the SELECT of the path and fs::read.
JobState == {"none", "queued", "reading", "read", "missing"}

VARIABLES path,     \* [Shas -> Exts or NULL or no row]; inputs.path
          fresh,    \* shas whose last_used_at is within the TTL
          disk,     \* <<sha, ext>> of the files under cache/inputs/
          at,       \* [Requests -> RequestAt]
          sha,      \* [Requests -> Shas]; input_sha256
          bytes,    \* [Requests -> Exts or NoBytes]; the attached upload
          saw,      \* [Requests -> what its SELECT returned]
          job,      \* [Requests -> JobState]
          hidden,   \* jobs with deleted_at set
          restored, \* jobs that once were hidden and are not
          reread,   \* [Requests -> path the worker read for the job]
          purge,    \* "idle", or the pass is at work: "remove", "nullify"
          stale,    \* <<sha, path>> of the pass's SELECT not yet dealt with
          current,  \* the one whose file was just removed
          unremoved,\* those whose file could not be removed
          disturbed,\* shas a pass came to while a submit was at them, or that
                    \* lost their file to chance, or to a pass cut after it
          crashes, faults

rowVars == <<path, fresh>>
requestVars == <<at, sha, bytes, saw>>
jobVars == <<job, hidden, restored, reread>>
purgeVars == <<purge, stale, current, unremoved>>
boundVars == <<crashes, faults>>
vars == <<rowVars, disk, requestVars, jobVars, purgeVars, disturbed, boundVars>>

TypeOK ==
  /\ path \in [Shas -> Exts \cup {NoPath, NoRow}]
  /\ fresh \subseteq Shas
  /\ disk \subseteq Shas \X Exts
  /\ at \in [Requests -> RequestAt]
  /\ sha \in [Requests -> Shas]
  /\ bytes \in [Requests -> Exts \cup {NoBytes}]
  /\ saw \in [Requests -> Exts \cup {NoPath, NoRow}]
  /\ job \in [Requests -> JobState]
  /\ hidden \subseteq Requests /\ restored \subseteq Requests
  /\ reread \in [Requests -> Exts \cup {NoPath}]
  /\ purge \in {"idle", "remove", "nullify"}
  /\ stale \subseteq Shas \X Exts
  /\ current \subseteq Shas \X Exts
  /\ unremoved \subseteq Shas \X Exts
  /\ disturbed \subseteq Shas
  /\ crashes \in 0 .. MaxCrashes /\ faults \in 0 .. MaxFaults

Init ==
  /\ path = [s \in Shas |-> NoRow]
  /\ fresh = {} /\ disk = {}
  /\ at = [r \in Requests |-> "new"]
  /\ sha \in [Requests -> Shas]
  /\ bytes \in [Requests -> Exts \cup {NoBytes}]
  /\ saw = [r \in Requests |-> NoRow]
  /\ job = [r \in Requests |-> "none"]
  /\ hidden = {} /\ restored = {}
  /\ reread = [r \in Requests |-> NoPath]
  /\ purge = "idle" /\ stale = {} /\ current = {} /\ unremoved = {}
  /\ disturbed = {}
  /\ crashes = 0 /\ faults = 0

InFlight(s) == {r \in Requests : sha[r] = s /\ at[r] \in Mid}
Referencing(s) == {r \in Requests : job[r] # "none" /\ r \notin hidden /\ sha[r] = s}
Taken == {row[1] : row \in stale \cup current}      \* shas in the purge's hands
Backed(s) == path[s] \in Exts /\ <<s, path[s]>> \in disk

-----------------------------------------------------------------------------
(* submit_job: the bytes match the hash, then resolve_input.               *)

Step(r, from, to) == at[r] = from /\ at' = [at EXCEPT ![r] = to]
Elsewhere == UNCHANGED <<sha, bytes, purgeVars, boundVars>>

AlwaysUpload(r) == "write"

\* The answer to a hash no cached file backs: upload it, or write the upload.
Uncached(r) == IF bytes[r] = NoBytes THEN "needUpload" ELSE "write"

\* SELECT id, path FROM inputs WHERE sha256 = ?
Lookup(r) ==
  /\ Step(r, "new", IF path[sha[r]] \in Exts THEN "stat" ELSE Uncached(r))
  /\ saw' = [saw EXCEPT ![r] = path[sha[r]]]
  /\ disturbed' = disturbed \cup ({sha[r]} \cap Taken)
  /\ UNCHANGED <<rowVars, disk, jobVars>> /\ Elsewhere

\* fs::metadata of the path the row claims.
Stat(r) ==
  /\ Step(r, "stat", IF <<sha[r], saw[r]>> \in disk THEN "touch" ELSE "demote")
  /\ UNCHANGED <<rowVars, disk, saw, jobVars, disturbed>> /\ Elsewhere

\* The file is there: last_used_at is renewed and the upload is not written.
Touch(r) ==
  /\ Step(r, "touch", "insert")
  /\ fresh' = fresh \cup {sha[r]}
  /\ UNCHANGED <<path, disk, saw, jobVars, disturbed>> /\ Elsewhere

\* The file is gone: the row goes back to "needs upload".
Demote(r) ==
  /\ Step(r, "demote", Uncached(r))
  /\ path' = [path EXCEPT ![sha[r]] = NoPath]
  /\ saw' = [saw EXCEPT ![r] = NoPath]
  /\ UNCHANGED <<fresh, disk, jobVars, disturbed>> /\ Elsewhere

\* atomic_write to cache/inputs/<sha>.<ext>.
Write(r) ==
  /\ Step(r, "write", "record")
  /\ disk' = disk \cup {<<sha[r], bytes[r]>>}
  /\ UNCHANGED <<rowVars, saw, jobVars, disturbed>> /\ Elsewhere

ConflictOnNull(r) == saw[r] \notin Exts /\ path[sha[r]] # NoRow

\* The INSERT meets the row another upload has inserted since: sha256 is UNIQUE.
Conflict(r) == saw[r] = NoRow /\ path[sha[r]] # NoRow

\* INSERT when the SELECT found no row, UPDATE otherwise.
Record(r) ==
  /\ Step(r, "record", IF Conflict(r) THEN "error500" ELSE "insert")
  /\ IF Conflict(r)
     THEN UNCHANGED rowVars
     ELSE /\ path' = [path EXCEPT ![sha[r]] = bytes[r]]
          /\ fresh' = fresh \cup {sha[r]}
  /\ UNCHANGED <<disk, saw, jobVars, disturbed>> /\ Elsewhere

\* Back in submit_job: INSERT INTO jobs.
Insert(r) ==
  /\ Step(r, "insert", "accepted")
  /\ job' = [job EXCEPT ![r] = "queued"]
  /\ UNCHANGED <<rowVars, disk, saw, hidden, restored, reread, disturbed>> /\ Elsewhere

Submit(r) ==
  Lookup(r) \/ Stat(r) \/ Touch(r) \/ Demote(r) \/ Write(r) \/ Record(r) \/ Insert(r)

-----------------------------------------------------------------------------
(* The worker takes one job at a time and reads its input in two steps.    *)

JobGoto(r, st) == job' = [job EXCEPT ![r] = st]
Meanwhile ==
  UNCHANGED <<rowVars, disk, requestVars, hidden, restored, purgeVars, disturbed, boundVars>>

ReadPath(r) ==
  /\ job[r] = "queued" /\ r \notin hidden
  /\ \A q \in Requests : job[q] # "reading"
  /\ JobGoto(r, IF path[sha[r]] \in Exts THEN "reading" ELSE "missing")
  /\ reread' = [reread EXCEPT ![r] = IF path[sha[r]] \in Exts THEN path[sha[r]] ELSE NoPath]
  /\ Meanwhile

ReadFile(r) ==
  /\ job[r] = "reading"
  /\ JobGoto(r, IF <<sha[r], reread[r]>> \in disk THEN "read" ELSE "missing")
  /\ UNCHANGED reread /\ Meanwhile

\* delete_job and restore_job; hidden jobs do not protect their input.
Visibly == UNCHANGED <<rowVars, disk, requestVars, job, reread, purgeVars, disturbed, boundVars>>

Hide(r) ==
  /\ job[r] # "none" /\ r \notin hidden
  /\ hidden' = hidden \cup {r} /\ restored' = restored \ {r}
  /\ Visibly

Restore(r) ==
  /\ r \in hidden
  /\ hidden' = hidden \ {r} /\ restored' = restored \cup {r}
  /\ Visibly

-----------------------------------------------------------------------------
(* The input half of purge::run.                                           *)

Apart == UNCHANGED <<fresh, requestVars, jobVars, boundVars>>

StaleThoughReferenced == {s \in Shas : path[s] \in Exts /\ s \notin fresh}
Stale == {s \in Shas : path[s] \in Exts /\ s \notin fresh /\ Referencing(s) = {}}

SelectStale ==
  /\ purge = "idle" /\ Stale # {}
  /\ purge' = "remove"
  /\ stale' = {<<s, path[s]>> : s \in Stale}
  /\ disturbed' = disturbed \cup {s \in Stale : InFlight(s) # {}}
  /\ UNCHANGED <<path, disk, current, unremoved>> /\ Apart

RemoveElsewhere(row) ==
  /\ purge = "remove"
  /\ purge' = "nullify"
  /\ stale' = stale \ {row} /\ current' = {row}
  /\ UNCHANGED <<path, disk, unremoved, disturbed>> /\ Apart

\* remove_file; a failure is logged, and the row is emptied all the same.
RemoveFile(row) ==
  /\ purge = "remove"
  /\ purge' = "nullify"
  /\ stale' = stale \ {row} /\ current' = {row}
  /\ \/ disk' = disk \ {row} /\ UNCHANGED unremoved
     \/ row \in disk /\ UNCHANGED disk /\ unremoved' = unremoved \cup {row}
  /\ UNCHANGED <<path, disturbed>> /\ Apart

NullifyForgotten(row) ==
  /\ purge = "nullify"
  /\ purge' = IF stale = {} THEN "idle" ELSE "remove"
  /\ current' = {}
  /\ UNCHANGED <<path, disk, stale, unremoved, disturbed>> /\ Apart

\* UPDATE inputs SET path = NULL WHERE id = ?, whatever the path is by now.
Nullify(row) ==
  /\ purge = "nullify"
  /\ purge' = IF stale = {} THEN "idle" ELSE "remove"
  /\ current' = {}
  /\ path' = [path EXCEPT ![row[1]] = NoPath]
  /\ UNCHANGED <<disk, stale, unremoved, disturbed>> /\ Apart

\* What ends a pass between the two steps of a row: the row keeps its path, and
\* the file is gone.
PassEnds ==
  /\ purge' = "idle" /\ stale' = {} /\ current' = {}
  /\ disturbed' = disturbed \cup {row[1] : row \in current}
  /\ UNCHANGED <<path, fresh, disk, unremoved>>

\* The UPDATE fails, and `?` ends the pass; the next one is a day away.
NullifyFails ==
  /\ purge = "nullify"
  /\ faults < MaxFaults /\ faults' = faults + 1
  /\ PassEnds
  /\ UNCHANGED <<requestVars, jobVars, crashes>>

Purge ==
  \/ SelectStale
  \/ \E row \in stale : RemoveFile(row)
  \/ \E row \in current : Nullify(row)
  \/ NullifyFails

-----------------------------------------------------------------------------
(* Days, faults and crashes.                                               *)

\* The TTL runs out: days after the last use, so nothing is in flight.
Age(s) ==
  /\ s \in fresh /\ InFlight(s) = {} /\ purge = "idle"
  /\ fresh' = fresh \ {s}
  /\ UNCHANGED <<path, disk, requestVars, jobVars, purgeVars, disturbed, boundVars>>

\* Manual cleanup, a partial restore, disk corruption.
Lose(s) ==
  /\ faults < MaxFaults /\ faults' = faults + 1
  /\ Backed(s)
  /\ disk' = disk \ {<<s, path[s]>>}
  /\ disturbed' = disturbed \cup {s}
  /\ UNCHANGED <<rowVars, requestVars, jobVars, purgeVars, crashes>>

\* Requests and the purge pass are lost; the job being read is queued again.
Crash ==
  /\ crashes < MaxCrashes /\ crashes' = crashes + 1
  /\ at' = [r \in Requests |-> IF at[r] \in Mid THEN "lost" ELSE at[r]]
  /\ job' = [r \in Requests |-> IF job[r] = "reading" THEN "queued" ELSE job[r]]
  /\ PassEnds
  /\ UNCHANGED <<sha, bytes, saw, hidden, restored, reread, faults>>

\* The client is gone, or the request timed out: what it has done stays done.
Drop(r) ==
  /\ at[r] \in Mid /\ at' = [at EXCEPT ![r] = "lost"]
  /\ UNCHANGED <<rowVars, disk, sha, bytes, saw, jobVars, purgeVars, disturbed, boundVars>>

Next ==
  \/ \E r \in Requests : Drop(r) \/ Submit(r) \/ ReadPath(r) \/ ReadFile(r) \/ Hide(r) \/ Restore(r)
  \/ Purge
  \/ \E s \in Shas : Age(s) \/ Lose(s)
  \/ Crash

Spec == Init /\ [][Next]_vars

\* The purge task goes round every day and its steps end; a submit may hang for ever.
Fairness == WF_vars(Purge)
FairSpec == Spec /\ Fairness

-----------------------------------------------------------------------------
(* Properties.                                                             *)

\* Whatever uploads, reuses, worker reads and purges of one image interleave, a
\* job that was never deleted finds its input, unless a purge pass came to that
\* image while a submit of it was between its SELECT and INSERT (or the row was
\* left without its file by a loss, or by a pass that a crash or a failing UPDATE
\* cut short).
InputLostOnlyByOverlap ==
  \A r \in Requests :
    job[r] \in {"queued", "missing"} /\ r \notin hidden \cup restored /\ sha[r] \notin disturbed
      => Backed(sha[r]) /\ job[r] # "missing"

\* Whatever submits, demotions, uploads and passes interleave, a row that claims a
\* path has the file, but for a row in the hands of the purge between its two
\* steps.  The files are removed first, so a crash between the two, or an UPDATE
\* that fails, leaves such a row to the next submit or pass, as does a lost file.
DanglingOnlyUnderPurge ==
  faults + crashes = 0 =>
    \A s \in Shas : path[s] \in Exts /\ s \notin Taken => Backed(s)

\* What nobody uses or refers to leaves the cache, even if the server crashed
\* between the removal of a file and the update of its row.
StaleInputReclaimed ==
  \A s \in Shas :
    path[s] \in Exts /\ s \notin fresh
      ~> path[s] = NoPath \/ s \in fresh \/ Referencing(s) # {}

\* The purge goes by rows, so a cached file its row does not name stays for
\* good.  It only comes of an upload that has not recorded it yet or was cut
\* before it could, of two uploads of the image under two extensions (of which
\* the row names the last, or the one that won the race to insert it), of a
\* removal that failed, or of what disturbed the image.
StrayHasReason ==
  \A s \in Shas \ disturbed, e \in Exts :
    <<s, e>> \in disk \ unremoved /\ path[s] # e =>
      \E r \in Requests :
        /\ sha[r] = s /\ bytes[r] = e
        /\ \/ at[r] \in {"record", "lost"}
           \/ \E q \in Requests : sha[q] = s /\ bytes[q] \in Exts \ {e}

\* An upload is turned away with a 500 only if another upload of that image
\* found no row either and has inserted it: whoever sends the image again, or
\* sends it after a purge emptied its row, is not.
ConflictOnlyByRace ==
  \A r \in Requests :
    at[r] = "error500" =>
      \E q \in Requests \ {r} :
        /\ sha[q] = sha[r] /\ bytes[q] \in Exts
        /\ saw[r] = NoRow /\ saw[q] = NoRow
        /\ at[q] \in {"insert", "accepted", "lost"}
=============================================================================
