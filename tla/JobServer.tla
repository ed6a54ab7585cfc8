----------------------------- MODULE JobServer -----------------------------
(***************************************************************************)
(* The job engine of zun-rust-server: the single worker task of            *)
(* src/worker.rs, the job handlers of src/handlers.rs that run beside it,  *)
(* the process they live in (crash, shutdown, restart), and ComfyUI.       *)
(* One action per await: between two of them any other task may run.       *)
(***************************************************************************)
EXTENDS Backend

CONSTANTS Cancels,       \* cancel requests, each served once
          MaxCrashes,    \* bound on crashes and shutdowns of the server
          MaxDbFaults,   \* bound on failing SQLite statements
          MaxRestores,   \* bound on restore requests
          MaxDrops,      \* bound on the jobs whose submit or cancel is dropped
          WarmupOnStart  \* config.warmup_on_start

ASSUME CancelsAssumption == IsFiniteSet(Cancels)
ASSUME BoundsAssumption ==
  MaxCrashes \in Nat /\ MaxDbFaults \in Nat /\ MaxRestores \in Nat /\ MaxDrops \in Nat
ASSUME WarmupAssumption == WarmupOnStart \in BOOLEAN

\* The worker task: where it is in `run` and `process_job`.
Calls == {"upload", "submit", "history", "view"}     \* HTTP calls to ComfyUI
Busy == Calls \cup {"claimed", "connect", "record", "await", "interrupt",
                    "finish", "fail", "requeue"}     \* the job is claimed
WorkerAt == Busy \cup {"down", "boot", "fetch", "claim", "announce", "retreat",
                       "backoff", "pause", "idle", "stopped"}

\* The select! between two drains: entered with the queue found empty, or after a
\* requeue or a failed fetch, which leave the rest of the queue to the tick.
Waiting == {"idle", "pause"}

\* A cancel request: which UPDATE comes next, then interrupt and notify.
CancelAt == {"new", "queuedArm", "runningArm", "interrupt", "announce", "done", "notFound"}
InFlight == {"queuedArm", "runningArm", "interrupt", "announce"}

VARIABLES at,         \* the worker's position
          cur,        \* the job in the worker's hands
          prompt,     \* comfy_prompt_id, as process_job holds it
          link,       \* its connection: "none", "open", or "cut" by an outage
          inbox,      \* unread last frame of the ws: "none", "end", "error"
          cause,      \* the error process_job returned
          wake,       \* the one-slot mpsc channel holds a token
          sending,    \* jobs inserted whose handler has yet to send the token
          unannounced,\* jobs whose status changed since the last notify
          cancel,     \* [Cancels -> CancelAt]
          target,     \* [Cancels -> job asked for]
          abandoned,  \* jobs whose submit or cancel was dropped half-way
          files,      \* prompts whose image is stored under outputs/
          stranded,   \* jobs left running by a statement that failed
          stopping,   \* the shutdown watch channel holds TRUE
          warmed,     \* spawn_warmup is done with this boot
          crashes, dbFaults, restores

hands == <<cur, prompt, link, inbox, cause>>
requestVars == <<sending, cancel, target, abandoned, restores>>
processVars == <<stopping, warmed, crashes>>
faultVars == <<dbFaults, stranded>>
vars == <<rowVars, backendVars, at, hands, requestVars, processVars, faultVars,
          wake, unannounced, files>>

TypeOK ==
  /\ RowsTypeOK
  /\ BackendTypeOK
  /\ at \in WorkerAt
  /\ cur \in Jobs \cup {None}
  /\ prompt \in Prompts \cup {None}
  /\ link \in {"none", "open", "cut"}
  /\ inbox \in {"none", "end", "error"}
  /\ cause \in Causes \cup {NoError}
  /\ wake \in BOOLEAN
  /\ sending \subseteq Jobs
  /\ unannounced \subseteq Jobs
  /\ cancel \in [Cancels -> CancelAt]
  /\ target \in [Cancels -> Jobs \cup {None}]
  /\ abandoned \subseteq Jobs
  /\ files \subseteq Prompts
  /\ stranded \subseteq Jobs
  /\ stopping \in BOOLEAN
  /\ warmed \in BOOLEAN
  /\ crashes \in 0 .. MaxCrashes
  /\ dbFaults \in 0 .. MaxDbFaults
  /\ restores \in 0 .. MaxRestores

Init ==
  /\ RowsInit
  /\ BackendInit
  /\ at = "boot"
  /\ cur = None /\ prompt = None
  /\ link = "none" /\ inbox = "none" /\ cause = NoError
  /\ wake = FALSE
  /\ sending = {} /\ unannounced = {}
  /\ cancel = [c \in Cancels |-> "new"]
  /\ target = [c \in Cancels |-> None]
  /\ abandoned = {}
  /\ files = {} /\ stranded = {}
  /\ stopping = FALSE
  /\ warmed = ~WarmupOnStart
  /\ crashes = 0 /\ dbFaults = 0 /\ restores = 0

-----------------------------------------------------------------------------
(* The job_events watch channel: a status change stays unannounced until   *)
(* the next notify_job_change.  Nobody can watch a job before its INSERT,  *)
(* or while it is deleted (get_job answers 404).                           *)

Changed == {j \in Jobs : status[j] # "absent" /\ ~deleted[j] /\ status'[j] # status[j]}
Silently == unannounced' = unannounced \cup Changed
notify_job_change == unannounced' = {}

-----------------------------------------------------------------------------
(* The worker.  What a step of it leaves alone:                            *)

Goto(l) == at' = l
Aside == UNCHANGED <<requestVars, processVars, wake>>      \* not the worker's
Quiet == UNCHANGED <<rowVars, unannounced>>                \* no write, no notify
Sound == UNCHANGED faultVars                               \* no statement fails
LetGo == /\ cur' = None /\ prompt' = None
         /\ link' = "none" /\ inbox' = "none" /\ cause' = NoError
DbFault == dbFaults < MaxDbFaults /\ dbFaults' = dbFaults + 1

(* The drain loop (`run`). *)

Boot ==
  /\ at = "boot" /\ Goto("fetch")
  /\ reset_running_jobs /\ Silently
  /\ stranded' = {}
  /\ UNCHANGED <<backendVars, hands, files, dbFaults>> /\ Aside

\* The reset fails: the error is logged and the loop starts all the same.
BootFails ==
  /\ at = "boot" /\ Goto("fetch")
  /\ DbFault
  /\ stranded' = RowsIn(Jobs, "running")
  /\ UNCHANGED <<backendVars, hands, files>> /\ Quiet /\ Aside

WorkerStops ==
  /\ at \in Waiting \cup {"fetch"} /\ Goto("stopped")
  /\ stopping
  /\ UNCHANGED <<backendVars, hands, files>> /\ Quiet /\ Sound /\ Aside

fetch_oldest_queued ==
  /\ at = "fetch" /\ Goto("claim")
  /\ ~stopping
  /\ Fetchable # {}
  /\ cur' = Oldest(Fetchable)
  /\ UNCHANGED <<backendVars, prompt, link, inbox, cause, files>> /\ Quiet /\ Sound /\ Aside

FetchNothing ==
  /\ at = "fetch" /\ Goto("idle")
  /\ ~stopping
  /\ Fetchable = {}
  /\ UNCHANGED <<backendVars, hands, files>> /\ Quiet /\ Sound /\ Aside

FetchFails ==
  /\ at = "fetch" /\ Goto("pause")
  /\ ~stopping
  /\ DbFault
  /\ UNCHANGED <<backendVars, hands, files, stranded>> /\ Quiet /\ Aside

WakeUp ==
  /\ at \in Waiting /\ Goto("fetch")
  /\ wake /\ wake' = FALSE
  /\ UNCHANGED <<backendVars, hands, files, requestVars, processVars>> /\ Quiet /\ Sound

IdleTick ==
  /\ at \in Waiting /\ Goto("fetch")
  /\ UNCHANGED <<backendVars, hands, files>> /\ Quiet /\ Sound /\ Aside

\* The notify_job_change every round of the loop ends in.
Announce ==
  /\ at = "announce" /\ Goto("fetch")
  /\ notify_job_change
  /\ UNCHANGED <<rowVars, backendVars, hands, files>> /\ Sound /\ Aside

\* The unreachable arm: requeue, notify, sleep, and back to the select!.
Requeue ==
  /\ at = "requeue" /\ Goto("retreat")
  /\ requeue(cur) /\ Silently
  /\ LetGo
  /\ UNCHANGED <<backendVars, files>> /\ Sound /\ Aside

RequeueFails ==
  /\ at = "requeue" /\ Goto("retreat")
  /\ DbFault
  /\ stranded' = stranded \cup RowsIn({cur}, "running")
  /\ LetGo
  /\ UNCHANGED <<backendVars, files>> /\ Quiet /\ Aside

Retreat ==
  /\ at = "retreat" /\ Goto("backoff")
  /\ notify_job_change
  /\ UNCHANGED <<rowVars, backendVars, hands, files>> /\ Sound /\ Aside

BackoffEnds ==
  /\ at = "backoff" /\ Goto("pause")
  /\ UNCHANGED <<backendVars, hands, files>> /\ Quiet /\ Sound /\ Aside

\* Any other error of process_job: mark_failed.
Fail ==
  /\ at = "fail" /\ Goto("announce")
  /\ mark_failed(cur, cause) /\ Silently
  /\ LetGo
  /\ UNCHANGED <<backendVars, files>> /\ Sound /\ Aside

FailFails ==
  /\ at = "fail" /\ Goto("announce")
  /\ DbFault
  /\ stranded' = stranded \cup RowsIn({cur}, "running")
  /\ LetGo
  /\ UNCHANGED <<backendVars, files>> /\ Quiet /\ Aside

-----------------------------------------------------------------------------
(* One job (`process_job`), await by await.                                *)

MovesOn(from, to) ==
  /\ at = from /\ Goto(to)
  /\ UNCHANGED <<cur, cause>> /\ Sound /\ Aside

GivesUp(why) ==
  /\ Goto("fail")
  /\ cause' = why
  /\ UNCHANGED <<cur, prompt, link, inbox, files>> /\ Quiet /\ Aside

Claim ==
  /\ MovesOn("claim", "claimed")
  /\ Claimable(cur) # {}
  /\ mark_running(cur) /\ Silently
  /\ UNCHANGED <<backendVars, prompt, link, inbox, files>>

\* The row was cancelled or deleted since the fetch.
ClaimLost ==
  /\ at = "claim" /\ Goto("announce")
  /\ Claimable(cur) = {}
  /\ LetGo
  /\ UNCHANGED <<backendVars, files>> /\ Quiet /\ Sound /\ Aside

AnnounceClaim ==
  /\ MovesOn("claimed", "upload")
  /\ notify_job_change
  /\ link' = "open"
  /\ UNCHANGED <<rowVars, backendVars, prompt, inbox, files>>

\* Input row, template and file are there, and ComfyUI stores the upload.
Upload ==
  /\ MovesOn("upload", "connect")
  /\ up
  /\ link' = "open"
  /\ UNCHANGED <<backendVars, prompt, inbox, files>> /\ Quiet

connect_ws ==
  /\ MovesOn("connect", "submit")
  /\ up
  /\ link' = "open"
  /\ UNCHANGED <<backendVars, prompt, inbox, files>> /\ Quiet

submit_prompt ==
  /\ MovesOn("submit", "record")
  /\ AcceptPrompt(cur)
  /\ prompt' = NextPrompt
  /\ UNCHANGED <<link, inbox, files>> /\ Quiet

\* The prompt is accepted and the reply lost; a ConnectOnly call is not retried.
SubmitReplyLost ==
  /\ at = "submit"
  /\ AcceptPrompt(cur)
  /\ GivesUp("refused") /\ Sound

Record ==
  /\ MovesOn("record", "await")
  /\ update_comfy_prompt_id(cur, prompt)
  /\ UNCHANGED <<unannounced, backendVars, prompt, link, inbox, files>>

\* A progress frame, through the writer task; it is joined before "await" ends.
Progress ==
  /\ MovesOn("await", "await")
  /\ executing = prompt /\ link = "open" /\ inbox = "none"
  /\ write_progress(cur, 1)
  /\ notify_job_change
  /\ UNCHANGED <<backendVars, prompt, link, inbox, files>>

AwaitEnds ==
  /\ MovesOn("await", "history")
  /\ inbox = "end"
  /\ link' = "open" /\ inbox' = "none"
  /\ UNCHANGED <<backendVars, prompt, files>> /\ Quiet

AwaitFails ==
  /\ at = "await"
  /\ \/ inbox = "error" /\ GivesUp("execution")
     \/ link = "cut" /\ GivesUp("disconnected")
  /\ UNCHANGED backendVars /\ Sound

AwaitTimesOut ==
  /\ MovesOn("await", "interrupt")
  /\ UNCHANGED <<backendVars, prompt, link, inbox, files>> /\ Quiet

InterruptTimedOut ==
  /\ at = "interrupt"
  /\ Interrupt
  /\ GivesUp("timeout") /\ Sound

get_history ==
  /\ MovesOn("history", "view")
  /\ up
  /\ prompt \in succeeded
  /\ link' = "open"
  /\ UNCHANGED <<backendVars, prompt, inbox, files>> /\ Quiet

\* The entry is not a success, or the backend has lost its history.
HistoryFails ==
  /\ at = "history"
  /\ up
  /\ \/ prompt \in broken /\ GivesUp("execution")
     \/ prompt \notin succeeded \cup broken /\ GivesUp("disconnected")
  /\ UNCHANGED backendVars /\ Sound

\* Download the image and put it under outputs/ (view, atomic_write).
view ==
  /\ MovesOn("view", "finish")
  /\ up
  /\ files' = files \cup {prompt}
  /\ UNCHANGED <<backendVars, prompt, link, inbox>> /\ Quiet

\* A row no longer running hits no WHERE clause: the completion is discarded.
finalize_output ==
  /\ at = "finish" /\ Goto("announce")
  /\ mark_done(cur, prompt) /\ Silently
  /\ LetGo
  /\ UNCHANGED <<backendVars, files>> /\ Sound /\ Aside

UnreachableFailsJob ==
  /\ at \in Calls \cup {"connect"}
  /\ ~up
  /\ GivesUp("disconnected")
  /\ UNCHANGED backendVars /\ Sound

\* is_unreachable: no connection even after the retries, or no ws handshake; of
\* that any error counts, with the http calls answered beside it or not.
Unreachable ==
  /\ Goto("requeue")
  /\ (at \in Calls /\ net = "refusing") \/ at = "connect"
  /\ UNCHANGED <<backendVars, hands, files>> /\ Quiet /\ Sound /\ Aside

\* The input or the template is missing, or the image cannot be stored.
LocalFails ==
  /\ at \in {"upload", "view"}
  /\ GivesUp("refused")
  /\ UNCHANGED backendVars /\ Sound

\* The call is answered, with an error or garbage.
CallRefused ==
  /\ at \in Calls
  /\ up
  /\ GivesUp("refused")
  /\ UNCHANGED backendVars /\ Sound

\* The call is not answered at all: a timeout is not a connect error.
CallTimesOut ==
  /\ at \in Calls
  /\ net = "silent"
  /\ GivesUp("silence")
  /\ UNCHANGED backendVars /\ Sound

\* The backend went away under the request: not a connect error.
CallCut ==
  /\ at \in Calls
  /\ link = "cut"
  /\ GivesUp("disconnected")
  /\ UNCHANGED backendVars /\ Sound

\* A statement of process_job fails, and process_job with it.
StatementFails ==
  /\ at \in {"claim", "upload", "record", "finish"}
  /\ DbFault
  /\ GivesUp("database")
  /\ UNCHANGED <<backendVars, stranded>>

-----------------------------------------------------------------------------
(* Requests.  Delete and restore are one UPDATE and a notify that tells    *)
(* watchers nothing about the status; they are one step.                   *)

Serving == at # "down" /\ ~stopping
Unworked == UNCHANGED <<at, hands, files, faultVars, processVars>>

submit_job(j) ==
  /\ Serving
  /\ insert_job(j) /\ Silently
  /\ sending' = sending \cup {j}
  /\ UNCHANGED <<backendVars, cancel, target, abandoned, restores, wake>> /\ Unworked

SendWakeForgotten(j) ==
  /\ j \in sending
  /\ sending' = sending \ {j}
  /\ UNCHANGED <<wake, backendVars, cancel, target, abandoned, restores>> /\ Quiet /\ Unworked

SendWake(j) ==
  /\ j \in sending
  /\ sending' = sending \ {j}
  /\ wake' = TRUE
  /\ UNCHANGED <<backendVars, cancel, target, abandoned, restores>> /\ Quiet /\ Unworked

delete_job(j) ==
  /\ Serving
  /\ status[j] # "absent" /\ ~deleted[j]
  /\ set_deleted(j, TRUE) /\ notify_job_change
  /\ UNCHANGED <<backendVars, requestVars, wake>> /\ Unworked

restore_job(j) ==
  /\ Serving
  /\ restores < MaxRestores /\ restores' = restores + 1
  /\ deleted[j]
  /\ set_deleted(j, FALSE) /\ notify_job_change
  /\ UNCHANGED <<backendVars, sending, cancel, target, abandoned, wake>> /\ Unworked

CancelGoto(c, l) == cancel' = [cancel EXCEPT ![c] = l]
Cancelling == UNCHANGED <<sending, abandoned, restores, wake>> /\ Unworked

\* cancel_job, first UPDATE: running -> cancelled.
CancelRunning(c, j) ==
  /\ Serving
  /\ cancel[c] = "new" /\ status[j] # "absent"
  /\ target' = [target EXCEPT ![c] = j]
  /\ CancelGoto(c, IF status[j] = "running" THEN "interrupt" ELSE "queuedArm")
  /\ cancel_from(j, "running") /\ Silently
  /\ UNCHANGED backendVars /\ Cancelling

\* Second UPDATE: queued -> cancelled.
CancelQueued(c) ==
  /\ cancel[c] = "queuedArm"
  /\ CancelGoto(c, IF status[target[c]] = "queued" THEN "announce" ELSE "runningArm")
  /\ cancel_from(target[c], "queued") /\ Silently
  /\ UNCHANGED <<backendVars, target>> /\ Cancelling

\* Third UPDATE: the job may have been claimed between the first two.
CancelClaimed(c) ==
  /\ cancel[c] = "runningArm"
  /\ CancelGoto(c, IF status[target[c]] = "running" THEN "interrupt" ELSE "notFound")
  /\ cancel_from(target[c], "running") /\ Silently
  /\ UNCHANGED <<backendVars, target>> /\ Cancelling

CancelAnnounceSilent(c) ==
  /\ cancel[c] = "announce"
  /\ CancelGoto(c, "done")
  /\ UNCHANGED <<unannounced, rowVars, backendVars, target>> /\ Cancelling

CancelAnnounce(c) ==
  /\ cancel[c] = "announce"
  /\ CancelGoto(c, "done")
  /\ notify_job_change
  /\ UNCHANGED <<rowVars, backendVars, target>> /\ Cancelling

\* A request whose client left, or that took 120 s, is dropped at its next await:
\* the job is there but no token is sent for it ...
Abandon(j) == abandoned' = abandoned \cup {j} /\ Cardinality(abandoned') <= MaxDrops

SubmitDropped(j) ==
  /\ j \in sending
  /\ sending' = sending \ {j}
  /\ Abandon(j)
  /\ UNCHANGED <<backendVars, cancel, target, restores, wake>> /\ Quiet /\ Unworked

\* ... or the job is cancelled and neither ComfyUI nor the long-polls hear of it.
CancelDropped(c) ==
  /\ cancel[c] \in InFlight
  /\ CancelGoto(c, "done")
  /\ Abandon(target[c])
  /\ UNCHANGED <<backendVars, sending, target, restores, wake>> /\ Quiet /\ Unworked

-----------------------------------------------------------------------------
(* ComfyUI beside the server: what it does reaches the worker's ws.        *)

FramesOfAny(well) ==
  IF executing # None /\ link = "open"
  THEN inbox' \in (IF well THEN {"end"} ELSE {"end", "error"})
  ELSE inbox' = inbox

\* The frame that ends a prompt reaches the ws of the worker waiting for it.
Frames(well) ==
  IF executing = prompt /\ prompt # None /\ link = "open"
  THEN inbox' \in (IF well THEN {"end"} ELSE {"end", "error"})
  ELSE inbox' = inbox

Beside == UNCHANGED <<rowVars, at, cur, prompt, cause, requestVars, processVars, faultVars,
                      wake, unannounced, files>>

BackendStarts == StartPrompt /\ UNCHANGED <<link, inbox>> /\ Beside

BackendEnds ==
  /\ up
  /\ \E well \in BOOLEAN : EndPrompt(well) /\ Frames(well)
  /\ UNCHANGED link /\ Beside

Outage ==
  /\ GoAway
  /\ link' = IF link = "open" THEN "cut" ELSE link
  /\ UNCHANGED inbox /\ Beside

Silence == GoSilent /\ UNCHANGED <<link, inbox>> /\ Beside
Recovery == ComeBack /\ UNCHANGED <<link, inbox>> /\ Beside
-----------------------------------------------------------------------------
(* The server's other effects on ComfyUI, and the process itself.          *)

\* cancel_job's /interrupt, sent after the UPDATE has returned.
CancelInterrupt(c) ==
  /\ cancel[c] = "interrupt"
  /\ CancelGoto(c, "announce")
  /\ Interrupt
  /\ IF up /\ executing # None THEN Frames(FALSE) ELSE UNCHANGED inbox
  /\ UNCHANGED <<rowVars, at, cur, prompt, link, cause, files, faultVars, processVars,
                 sending, restores, target, abandoned, wake, unannounced>>

\* spawn_warmup submits its prompt, once a boot; it may as well give up.
WarmUp ==
  /\ at # "down" /\ ~warmed
  /\ warmed' = TRUE
  /\ AcceptPrompt(Warmup)
  /\ UNCHANGED <<rowVars, at, hands, requestVars, stopping, crashes, faultVars,
                 wake, unannounced, files>>

\* What is lost with the process: everything but SQLite and the files.
Dies ==
  /\ at' = "down"
  /\ LetGo
  /\ wake' = FALSE
  /\ sending' = {} /\ unannounced' = {} /\ stranded' = {}
  /\ cancel' = [c \in Cancels |-> IF cancel[c] \in InFlight THEN "done" ELSE cancel[c]]
  /\ UNCHANGED <<rowVars, backendVars, target, abandoned, restores, dbFaults, files, warmed>>

\* A kill, or a panicking task: `supervise` exits the process for it.
Crash ==
  /\ at # "down"
  /\ crashes < MaxCrashes /\ crashes' = crashes + 1
  /\ stopping' = FALSE
  /\ Dies

\* SIGTERM: no new requests; the worker stops between jobs.
Shutdown ==
  /\ Serving
  /\ crashes < MaxCrashes /\ crashes' = crashes + 1
  /\ stopping' = TRUE
  /\ UNCHANGED <<rowVars, backendVars, at, hands, requestVars, faultVars, warmed,
                 wake, unannounced, files>>

\* axum has drained the requests; main returns, even in the middle of a job.
Exit ==
  /\ at # "down" /\ stopping
  /\ sending = {} /\ \A c \in Cancels : cancel[c] \notin InFlight
  /\ stopping' = FALSE
  /\ Dies /\ UNCHANGED crashes

Restart ==
  /\ at = "down" /\ Goto("boot")
  /\ warmed' = ~WarmupOnStart
  /\ UNCHANGED <<rowVars, backendVars, hands, requestVars, stopping, crashes, faultVars,
                 wake, unannounced, files>>

-----------------------------------------------------------------------------
DrainLoop ==
  \/ Boot \/ BootFails \/ WorkerStops
  \/ fetch_oldest_queued \/ FetchNothing \/ FetchFails
  \/ WakeUp \/ IdleTick \/ Announce
  \/ Requeue \/ RequeueFails \/ Retreat \/ BackoffEnds
  \/ Fail \/ FailFails

ProcessJob ==
  \/ Claim \/ ClaimLost \/ AnnounceClaim \/ Upload \/ connect_ws
  \/ submit_prompt \/ SubmitReplyLost \/ Record
  \/ AwaitEnds \/ AwaitFails \/ AwaitTimesOut \/ InterruptTimedOut
  \/ get_history \/ HistoryFails \/ view \/ finalize_output
  \/ Unreachable \/ LocalFails \/ CallRefused \/ CallTimesOut \/ CallCut \/ StatementFails

CancelStep(c) ==
  CancelQueued(c) \/ CancelClaimed(c) \/ CancelInterrupt(c) \/ CancelAnnounce(c)

Next ==
  \/ DrainLoop \/ ProcessJob \/ Progress
  \/ \E j \in Jobs : submit_job(j) \/ SendWake(j) \/ SubmitDropped(j)
                     \/ delete_job(j) \/ restore_job(j)
  \/ \E c \in Cancels : CancelStep(c) \/ CancelDropped(c) \/ \E j \in Jobs : CancelRunning(c, j)
  \/ BackendStarts \/ BackendEnds \/ Outage \/ Silence \/ Recovery
  \/ WarmUp \/ Crash \/ Shutdown \/ Exit \/ Restart

Spec == Init /\ [][Next]_vars

\* The tokio tasks are scheduled, every call and sleep of the worker ends (each
\* has a timeout), handlers run on unless dropped, systemd restarts the process and
\* the backend comes back.  Nothing is asked of ComfyUI's execution, nor of its ws.
Fairness ==
  /\ WF_vars(DrainLoop \/ ProcessJob)
  /\ \A j \in Jobs : WF_vars(SendWake(j))
  /\ \A c \in Cancels : WF_vars(CancelStep(c))
  /\ WF_vars(Exit) /\ WF_vars(Restart) /\ WF_vars(Recovery)

FairSpec == Spec /\ Fairness

-----------------------------------------------------------------------------
(* Properties.                                                             *)

\* Single flight: a row is `running` only while the worker holds that job, or
\* until the next boot resets it, or because the statement meant to close it
\* failed (mark_failed and requeue only log their errors).
RunningIsHeld ==
  \A j \in Jobs : status[j] = "running" =>
    \/ at \in Busy /\ cur = j
    \/ at \in {"down", "boot"}
    \/ j \in stranded

\* A job is done exactly when it has an output; that output is on disk, comes
\* from a prompt submitted for this very job, and is the attempt the row names.
DoneHasOwnOutput ==
  \A j \in Jobs :
    /\ status[j] = "done" <=> output[j] # None
    /\ output[j] # None => /\ output[j] \in files
                           /\ owner[output[j]] = j
                           /\ promptId[j] = output[j]

\* The columns of an attempt never outlive it: whatever put a row back on the
\* queue, it looks as it did when it was inserted; and a finished bar is full.
ProgressMatchesStatus ==
  \A j \in Jobs :
    /\ status[j] \in {"absent", "queued"} =>
         progress[j] = 0 /\ promptId[j] = None /\ output[j] = None /\ error[j] = NoError
    /\ status[j] = "done" => progress[j] = 2

\* The strengthening that makes the invariants above inductive: what the
\* worker's hands hold of the attempt it is in ...
Holding == {"record", "await", "interrupt", "history", "view", "finish"}
HandsMatchRow ==
  /\ at \in Busy \ {"fail"} => status[cur] \in {"running", "cancelled"}
  /\ at \in Holding => prompt <= accepted /\ owner[prompt] = cur
  /\ at \in Holding \ {"record"} => promptId[cur] = prompt
  /\ at = "finish" => prompt \in files

\* ... and what a row that is not done has not got yet.
RowsConsistent ==
  \A j \in Jobs :
    /\ output[j] # None => output[j] <= accepted
    /\ status[j] = "running" => error[j] = NoError
    /\ deleted[j] => status[j] # "absent"
    /\ j \in stranded => dbFaults > 0

IInv ==
  /\ RunningIsHeld
  /\ DoneHasOwnOutput
  /\ ProgressMatchesStatus
  /\ HandsMatchRow
  /\ RowsConsistent

\* done, failed and cancelled are final: no late completion, failure, requeue,
\* reset or cancel changes the status, the output or the error of such a row.
TerminalIsFinal ==
  [][\A j \in Jobs : status[j] \in Terminal =>
       status'[j] = status[j] /\ output'[j] = output[j] /\ error'[j] = error[j]]_vars

\* A deleted job is never started, even if it was deleted after its fetch.
DeletedNeverStarts ==
  [][\A j \in Jobs : deleted[j] /\ status[j] = "queued" => status'[j] # "running"]_vars

\* An outage of the backend costs at most the one job that was in its hands; the
\* rest of the queue survives it, however long it lasts.  That is so as long as a
\* backend that is away refuses connections: is_unreachable does not hold of a call
\* that times out, and a silent backend takes the queue with it, job by job.
OutageFailsAtMostOne ==
  /\ Cardinality({j \in Jobs : error[j] = "disconnected"}) <= outages
  /\ silences = 0 => \A j \in Jobs : error[j] # "silence"

\* The one-slot channel loses no wake-up: a worker that found the queue empty does
\* not wait beside a job it could start unless a token is there, or about to be
\* sent.  Restored jobs wait for the tick, and so do the jobs left on the queue by
\* a requeue or a failed fetch (the worker is at "pause" then).
NoWakeLost ==
  at = "idle" /\ Fetchable \ abandoned # {} /\ restores = 0 => wake \/ sending # {}

\* The worker stops waiting for the end of its own prompt only, whatever else
\* runs on the GPU (the warm-up, a prompt given up on): what it heard, or acts
\* on, is backed by an entry in the history of a backend that never went away.
EndsWithOwnPrompt ==
  (inbox # "none" \/ at = "history") /\ outages = 0 => prompt \in succeeded \cup broken

\* Every change of a job's status is announced to the long-polls.
EveryChangeIsAnnounced ==
  \A j \in Jobs : j \in unannounced ~> j \notin unannounced \/ j \in abandoned

\* The queue drains: a job that is queued is finished, cancelled or deleted, unless
\* ComfyUI keeps refusing the ws it answers http beside: every handshake error is
\* "not reachable", and such a job goes round the queue for ever.
WsOpens == SF_vars(connect_ws)
QueueDrains ==
  WsOpens => \A j \in Jobs : status[j] = "queued" ~> (status[j] \in Terminal \/ deleted[j])

\* The rows as clients see them follow the lifecycle of JobLifecycle.
Lifecycle ==
  INSTANCE JobLifecycle WITH lost <- stranded, Images <- Prompts,
                             Faulty <- (MaxDbFaults > 0)
FollowsLifecycle == Lifecycle!Spec

-----------------------------------------------------------------------------
(* What comments and documents say of the program, which it does not do.   *)

\* src/src/handlers.rs, cancel_job: the /interrupt of a cancel must not abort "a
\* *different*, unrelated job that's actually running", the next one in turn.
CancelSparesNextJob ==
  [][\A c \in Cancels :
       cancel[c] = "interrupt" /\ cancel'[c] = "announce" /\ executing' # executing
         => executing # prompt \/ target[c] = cur]_vars
=============================================================================
