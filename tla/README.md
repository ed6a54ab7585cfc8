# A verification project for zun-rust-server

zun-rust-server is the single-user server between a phone and a ComfyUI
backend. A client submits a job (an image and a prompt); one worker task takes
the jobs one at a time through ComfyUI; the client follows them by long-poll,
browses the gallery, and may cancel, delete and restore. Everything durable is
in SQLite and in files under the data directory.

Source paths below are relative to `src/src/` unless they start with `src/`.

## 1. Inventory

| part | state it keeps | operations | what it must get right |
|---|---|---|---|
| job queue and worker (`worker.rs`) | `jobs` rows; the job in hand | claim, submit, await, finish, fail, requeue, reset at start, warm-up | one job at a time; final statuses stay final; an output is the job's own; the queue drains |
| job handlers (`handlers.rs`) | `jobs` rows | submit, cancel (three UPDATEs, `/interrupt`), delete, restore | cancel wins over a late completion and aborts nothing else; a deleted job is not started |
| wake-up and `job_events` channels (`state.rs`) | one token; one version counter | `try_send`, `recv`; `send_modify`, `changed` | no lost wake-up, no unannounced change |
| long-poll (`handlers.rs::get_job`) | a subscription per request | first read, subscribe, wait, re-read | no lost signal; an early answer is news; every poll ends |
| gallery (`handlers.rs::list_jobs`) | none (a cursor in the client) | one page | order, no repetition, no gap under concurrent changes |
| input cache (`handlers.rs::resolve_input`, `purge.rs`) | `inputs` rows, `cache/inputs/` | look up, reuse, demote, upload; purge | a job finds its input; stale inputs leave |
| output and derived images (`derived_images.rs`, `images.rs`, `purge.rs`) | three path columns, `outputs/`, `thumbs/`, `previews/` | store, render detached or lazily, purge | columns name files that exist; a purged job takes its files along |
| prompt catalog (`custom_prompts.rs`) | `custom_prompts` rows | create, patch, delete | patches do not undo each other; deletion is final |
| ComfyUI client (`comfy.rs`) | the try of a call | upload, submit, ws, history, view, interrupt, retries | a submission is not repeated; "unreachable" means that nothing was submitted |
| workflow templates (`workflow.rs`) | none | fill the placeholders | ComfyUI is sent what the user typed |
| error redaction (`error.rs`) | none | redact and cut a message | a failed job says why |
| backups (`backup.rs`, `paths.rs::Staged`) | dated snapshots, staging files | snapshot, prune, once a day | a dated file is a whole database; nothing leaves its window early; nothing piles up |
| process (`main.rs`) | shutdown flag | supervise, graceful shutdown | a dead task brings the process down; a restart recovers |
| health and capabilities (`lib.rs`), auth, config, logging, input listing | | | see section 8 |

How they interact: the handlers and the worker share nothing but the rows, the
two channels and ComfyUI. Every SQL statement is atomic, and between two awaits
any other task may run: that is the grain of every model here. The purge, the
render task and the image handlers share files under names derived from the job
id. ComfyUI is shared by the worker, the interrupts of the cancel handler and
the warm-up, and outlives the process.

Hard: three-statement cancel against claim, requeue and completion; `/interrupt`
aimed at "whatever executes"; crashes with a prompt still on the GPU; rows and
files changed in separate steps by purge, submit and render; wake-ups sent after
a commit; requests dropped at any await (120 s, or the client gone); retries
over replies that are lost or late. PROJECT.json lists every such hazard at its
line under `hazards`.

## 2. Modules

- **JobRows** - the status columns of `jobs` and every statement that writes
  them: a set of rows hit by the WHERE clause, and the columns rewritten. A job
  is its rank in the drain order `(created_at, id)`.
- **Backend** - ComfyUI, external: modelled from how `comfy.rs` and `worker.rs`
  use it. Prompts run one at a time in order; an outage refuses connections and
  loses queue and history, a silence answers nothing and loses nothing (`net`).
- **JobServer** - composes both with the worker (`at` is its position in `run`
  and `process_job`, `cur`, `prompt`, `link`, `inbox` what it holds), the
  handlers, the wake-up channel, the warm-up and the process (crash, SIGTERM,
  restart).
- **JobLifecycle** - what clients may rely on: the abstract status machine that
  JobServer implements (`FollowsLifecycle`).
- **ComfyClient** - the client half of `comfy.rs`: one call at a time, try by
  try. `net` is what a connection meets; `late` counts the submits that were
  given up on and may still be carried out, `accepted` the prompts ComfyUI
  queued since the last submit began.
- **CallPromise** - what `submit_prompt` promises, however often it is tried:
  the abstract specification ComfyClient implements (`SubmitKeepsPromise`).
- **Workflow**, **Redaction** - the two pure algorithms, each beside a reference
  definition of what it is for (`Filled`, `Redacted`).
- **JobAttempt** - composes the three: one job from the queue to its end, with
  every try of every call, the workflow sent, the way out by the error's class,
  the message stored, and the process that dies, restarts and finds the row.
- **Backup** - the loop of `backup::spawn` beside a clock.
- **InputCache** - submits of images, the worker's two-step read, the purge.
- **OutputFiles** - the files of a job, their columns, rendering and purge.
- **LongPoll** - one row, its writers, polls with a window.
- **Gallery** - one walk through the pages.
- **PromptCatalog** - one prompt under concurrent patches.
- **JobServerProofs**, **JobAttemptProofs** (with the client's),
  **BackupProofs**, **InputCacheProofs**, **OutputFilesProofs**,
  **LongPollProofs**, **GalleryProofs**, **PromptCatalogProofs** - the theorems
  (section 6).
- **MC...** - the instances TLC checks; PROJECT.json names the configuration of
  each run.

InputCache, OutputFiles, LongPoll, Gallery, PromptCatalog and JobAttempt are
separate from JobServer on purpose. Each meets the engine through one row or one
file only, at statements that are repeated in the module (LongPoll's `Claim` is
JobRows' `mark_running` seen by one watcher), and a product of them with the
engine would not fit in TLC. JobServer and JobAttempt cut the same worker at two
grains: in JobServer a call is one step, and rivals (cancels, other jobs, the
warm-up) are there; in JobAttempt a call is its tries, and the job is alone.

### How the code maps to actions

An action is what happens between two awaits. `process_job` is the chain `Claim,
AnnounceClaim, Upload, connect_ws, submit_prompt, Record, AwaitEnds,
get_history, view, finalize_output`. Its ways out are `Unreachable` (requeue),
`LocalFails`, `CallRefused`, `CallTimesOut`, `CallCut`, `AwaitFails`,
`AwaitTimesOut`, `HistoryFails`, `StatementFails` (mark_failed). `cancel_job` is
`CancelRunning, CancelQueued, CancelClaimed, CancelInterrupt, CancelAnnounce`. A
request dropped half-way is `SubmitDropped` and `CancelDropped`, in InputCache
and PromptCatalog `Drop`, in LongPoll `Dropped`; in OutputFiles a dropped
request leaves what `EnsureFails` leaves, and a dropped long-poll changes
nothing. `resolve_input` is `Lookup, Stat, Touch | Demote, Write, Record,
Insert`. A purge pass is a SELECT, then per row its removals and its statement.
A graceful shutdown may end the process in the middle of a job (`Exit`), because
`main` returns as soon as axum has drained.

A try of a call is `Connects | Refused | TimesOut`, then ComfyUI's `Serve`, then
`Answered | Rejected | Breaks | CutNoticed | TimesOut`; `Fails` is the body of
`with_retry` after an error, and `BackoffEnds` its sleep. The arms of
`process_job` that end an attempt are `CallFails` (by `is_unreachable`),
`FailsWith` and `Done`. A backup round is `StartVacuum, EndVacuum, rename,
PruneFile..., PruneEnds, WakeUp`, and `SnapshotFails` is the `?` of any of its
steps with the Drop of `Staged`.

Abstractions:

- `progress` has three values: reset, some fraction, full. A frame's fraction
  and the 2% throttle are not told apart.
- In JobServer `error_message` is one of six causes. In JobAttempt it is a
  sequence of words, a word its brackets, core and punctuation, and a character
  its width in bytes: what the cut at a byte count depends on.
- A workflow is the function from the leaves of its JSON to their values; both
  passes keep the shape. A prompt is a name in it and a sequence of words in an
  error.
- Times are abstract: `started_at` and `completed_at` are left out; "past the
  grace period", "older than the TTL" are flags that flip only while nothing is
  in flight on that row, since they take days.
- In JobServer the retries of one HTTP call are folded into the call: it
  succeeds, is refused, is cut, times out, or is unreachable. ComfyClient takes
  them apart. A ws handshake fails whenever it likes, ComfyUI there or not.
- In Backup the clock ticks a few times a day; a round takes less than two
  ticks, and an age past the window is "old".
- The writer task that stores progress is one step with the frame it stores; it
  is joined before the job goes on, and its UPDATE is gated on the status.

Variables that only a property reads (`stranded`, `unannounced`, `disturbed`,
`rescued`, `missed`, `rivals`, `steady`, `abandoned`, `reached`, `mute`, `credit`,
`stuck`) record history. No guard reads them, but for the bound on `abandoned`.

## 3. Runs

The passing runs; each ends within four minutes on two cores. The runs
that TLC refutes are in section 7. The types of LongPoll and Gallery are theorems
(section 6) and have no run.

| run | question |
|---|---|
| `engine` (TypeOK, RunningIsHeld, DoneHasOwnOutput, ProgressMatchesStatus, EndsWithOwnPrompt, TerminalIsFinal) | One job, the warm-up prompt on the same GPU, an outage, a crash or shutdown, a failing statement and a cancel: the row invariants hold, final statuses stay final, and the worker stops waiting for its own prompt only. |
| `queue` (NoWakeLost, OutageFailsAtMostOne, DeletedNeverStarts) | Two jobs, deletes, a restore, a backend that refuses connections and one that is silent, and ws handshakes that fail beside a working http: no wake-up is lost, a deleted job is never started, and an outage costs at most the job in flight, unless it is a silent one. |
| `drain` (QueueDrains, EveryChangeIsAnnounced, FollowsLifecycle) | Under the fairness of the tokio tasks, through an outage, a crash, a cancel and a dropped request, and even if ComfyUI never finishes a prompt: the queue drains unless its ws keeps failing, every change of status reaches the long-polls, and the row follows the abstract lifecycle. |
| `cache` (TypeOK, InputLostOnlyByOverlap, DanglingOnlyUnderPurge, StrayHasReason, ConflictOnlyByRace, StaleInputReclaimed) | Two submits of one image or two under two extensions, the worker, deletes, restores, purges whose removals may fail, a crash, and a vanished file or a failing UPDATE of the purge: a visible job loses its input only when a purge overlapped its submit, a file without a row has its reason, an upload is refused only by a race, and what is stale leaves the cache. |
| `files` (TypeOK, VisibleFilesExist, PurgeLeavesNothing, GraceIsKept, OldJobsGo) | Detached and lazy rendering of both tiers, two requests, a rendition or a removal that fails, a crash, cancel, delete, restore and purge: a visible row names only files on disk, a purged done job leaves none unless a step failed, a job goes only past its grace period unless it was restored under a pass, and an old job goes. |
| `poll` (NoSignalLost, EarlyAnswerIsNews, PollsEnd) | A poll beside the worker, its progress writer, other jobs, and cancels, deletes and restores that may be dropped before their notify: no other signal after the subscription is lost, an early answer is news, and every poll is answered. |
| `gallery` (NewestFirstOnce, NothingSkipped) | A filtered walk, two jobs a page and three ids a second, beside everything that can happen to the rows: in order, no job twice, no steady job skipped. |
| `catalog` (TypeOK, AcknowledgedStays) | Three concurrent patches, a delete and dropped requests: only patches that overlapped undo what another was told is stored. |
| `attempt` (GpuTimeRepeatedOnlyByOutage, NeverReachedIsRequeued, SentAsTyped, FailureIsExplained, SubmitKeepsPromise, JobSettles) | One job and every try of every call to ComfyUI, over two outages (refusing or silent), lost replies, late requests and a kill: ComfyUI is given the job's prompt once more only after an outage or a kill, an attempt that never got through is requeued, what is sent and stored is what the user typed and the redacted reason, and the job settles unless its message is one that panics the worker. |
| `backup` (DatedAreWhole, TempsHaveReason, KeptForWindow, OldOnesGo) | Daily rounds that drift through the day, any step failing, two stops anywhere: a dated file is a whole database, staging files outlive a round only if the process stopped in it or their unlink failed, no snapshot leaves early, and old ones leave. |

## 4. Bounds, and why they are enough

JobServer: the invariants relate a row to the hands of the one worker, so one
job shows every interleaving on a row (`engine`, `drain`), and two jobs show
what one does to the next (`queue`, `stray_interrupt`). In `engine` three
prompts are the warm-up, a dead attempt and the attempt after it. One crash, one
outage, one failed statement, one restore and one cancel each leave the code
once; the theorems of section 6 drop all these bounds. `NumPrompts` bounds the
submissions: where a behaviour needs a prompt beyond the bound, `submit_prompt`
is disabled, and so is `SubmitReplyLost`; the worker then leaves by another exit
of the same await. `MaxOutages`, `MaxSilences`, `MaxCrashes`, `MaxDbFaults`,
`MaxRestores` and `MaxDrops` count down to nothing. A silence is in `queue`,
where the difference between refusing and silent is the question; to the rows of
`engine` and `drain` it is one more way for a call to fail, and they have none,
for their size. A dropped request is in `drain`, whose properties depend on it;
the row invariants of `engine` do not, as the proofs show, and in `queue`, where
it would only take a job out of `NoWakeLost`, that is left to the theorem.
`drain` has no restore, for its size: a restored job is a queued one that waits
for the tick, and `queue` has it.

InputCache: two requests are a rival pair, or a job and the submit that suffers;
two extensions give a second path for the same hash; two hashes give the purge's
list two rows; one fault (`MaxFaults`) is a file that vanishes or an UPDATE of
the purge that fails. OutputFiles: both tiers, because the order of rendering is
across tiers; two requests, because two may render the same file beside the
detached task; jobs meet only in the pass's list and are otherwise independent,
so the run has one. LongPoll: polls do not see each other and one signal reaches
them all, so one poll stands for any; progress has three levels and may fall, so
that two changes may coalesce between two reads, or undo each other. Any number
of cancels, deletes and restores may be dropped. Gallery: three ids in a second
and two jobs a page are the smallest where a page ends inside a second and jobs
can be inserted both above and below the cursor. PromptCatalog: three patches
are an overlapping pair and a later one, two columns one that may be NULL and
one that may not.

JobAttempt: three attempts are those of the code; two outages are one that sets
a call to be retried and one that ends it, each refusing or silent; a kill adds
what outlives the process. The six prompts are one that fits the message, one
cut behind a character, one cut inside one, one with a path, and the names of
two placeholders; a message is cut at 9 bytes instead of 400, which is where
those differ. The template has one leaf of each kind. Backup: a window of two
days of two ticks is the smallest with snapshots of three dates at once, inside
and outside of it; one fault is a removal, of a snapshot or of a staging file,
that fails, or a prune that breaks off; two stops give a restart on the day of a
snapshot, twice.

Deadlock is checked for Backup, which never stops. It is not for the others:
they stop legitimately once their requests are served and their bounds used up.

## 5. Fairness

`drain` assumes that the worker task is scheduled (`DrainLoop`, `ProcessJob`):
every HTTP call has a 60 s timeout, the ws handshake 10 s, the wait for a prompt
the job's own (`AwaitTimesOut`), and both sleeps end. Nothing is asked of
ComfyUI's execution. `QueueDrains` does ask something of its ws, as its premise
`WsOpens`: a handshake that is possible again and again succeeds at last.
Without it TLC refutes the property, by the loop of section 7; the other
properties do not need it. The fairness of the worker is one weak fairness for
the whole task, not one per action: which way a call ends is up to the
environment. Handlers that have begun run on unless dropped (`SendWake`,
`CancelStep`), a stopping process exits, systemd (`Restart=on-failure` or the
operator) starts it again, an outage ends. `cache` and `files` assume that the
daily pass is taken and its steps end; a submit or a renderer may hang. `poll`
assumes that a begun request is polled, and its timer fires; writers may owe
their notify for ever. No fairness is assumed of clients, of ComfyUI's execution
or of faults.

`attempt` and `poison` assume that the worker goes on, that the client's own
steps are taken (`Own`: it connects or is refused, its timeout fires, its
backoff ends), and that an outage ends; nothing is asked of what ComfyUI does
with a call, and none of `Serve`, `Answered`, `Rejected` is fair. A request that
may be dropped is not one that may hang: in `drain`, `SendWake` and
`CancelStep` are fair as long as the request is there. `backup` assumes that the
task is scheduled, systemd restarts the process, and time goes on.

## 6. Proofs

Checked by TLAPS for every value of the constants that the named assumptions of
each module allow: finite sets of actors, natural numbers as bounds, texts made
of characters (`MessageConstants`). Every invariant, action property and
refinement of a passing run is proved; its liveness is not. Where the property
is not inductive, the invariant that is stands in the module of the proofs, each
conjunct with its reason.

*The job engine* (JobServerProofs, up to *Refinement*). For every number of jobs,
prompts and cancels and every bound on faults.

*Type correctness* (`TypeCorrect`, `TypesKept`). `TypeOK` is not inductive: a
busy worker must hold a job, an in-flight cancel a target, a holding worker a
prompt. `TypeInv` adds these. One lemma per statement of JobRows shows what it
keeps; each group of actions has one lemma with a step per action.

*Safety* (`Inductive`, then `SingleFlight`, `OutputIsOwn`, `ProgressIsHonest`).
`RunningIsHeld`, `DoneHasOwnOutput` and `ProgressMatchesStatus` are not inductive
either: at `finish`, mark_done writes the prompt the worker holds, so one must
know that it is the one the row names and the job owns, and that its image is
stored. `IInv` (defined in JobServer) adds `HandsMatchRow`, which ties the
worker's hands to the row from claim to close (the row is running, or a cancel
got there first), and `RowsConsistent`, which says what an open row has not got
yet. The key fact is that a row leaves `running` only by the worker, by a cancel,
or by the reset of a boot, when the worker holds nothing.

*Action properties* (`FinalIsFinal`, `DeletedStaysIdle`). `StepIsStatement`
reduces every step of the engine to one of JobRows' statements or to none; the
statements' WHERE clauses then give both properties.

*Whose end it is* (`EndIsOwn`). `PromptInv` adds that prompt ids are never
reused - nothing pending or executing is newer than the last one accepted - and
that what the worker has heard, or acts on at `history`, is of a prompt that
neither waits nor executes any more and that succeeded or broke, unless an
outage lost it.

*The price of an outage* (`OutageIsCheap`). `OutageInv` counts: the jobs that
failed with a lost connection are no more than the outages, and one fewer while
the job in hand is bound to join them (`Suffers`: its socket is cut, its prompt
is gone from ComfyUI, or it is already given up on). A new outage pays for the
one that begins to suffer. `SilenceInv` is the other half: no row, and not the
job in hand, has the cause of a call without an answer as long as ComfyUI was
never silent (`CauseIsOwn`: each cause is given by its own actions).

*The wake-up* (`WakeIsNotLost`). `WakeInv`: without restores, a worker that idles
beside jobs it could start has the signal in the channel's one slot, or each of
those jobs has its sender on the way. A worker idles only where its fetch found
nothing; after a requeue, an outage or a failed fetch it is at `pause`, beside a
queue it knows is not empty, and waits for the tick.

*The announcements* (`ChangesAreTold`). The safety half of
`EveryChangeIsAnnounced`: a change of status nobody has been told of is owed a
notify (`Owed`), by the worker at a place from which it notifies, by the cancel
that made it, or by the claim to come of a job that a boot put back on the queue;
or its request was dropped, and the long-polls have their tick. What fairness then
adds is only that each of these comes to its notify. The drain loop's early exits
are where this could go wrong: a requeue, a failed statement and an unreachable
backend each leave by a place in `Notifying`, or write nothing.

*Refinement* (`ImplementsLifecycle`). Under the mapping `lost <- stranded`,
`Images <- Prompts`, every step is a step of JobLifecycle or a stutter. `Start`
requires that nobody else is running, which is `SingleFlight`; `Finish` gives an
image, which needs the type invariant.

*The client* (the first part of JobAttemptProofs, for every MAX_ATTEMPTS and any
number of outages). `SubmitImplementsPromise`: with retries, lost replies,
timeouts and late requests hidden, `submit_prompt` is a call that queues at most
one prompt, did queue one if it answers Ok, and neither did nor will if it is
classed unreachable. The invariant it needs is `OnlyLastTryReaches`: ConnectOnly
retries only what never connected, so whatever ComfyUI took belongs to the last
try.

*The job's attempts* (JobAttemptProofs, for every MAX_ATTEMPTS, any number of
outages and kills, and every template and prompt). `WorkerRunsClient`: every step
of JobAttempt is a step of ComfyClient or leaves it alone, so the client's
theorems hold in the worker's hands (`WorkerSubmitsOnce`). `TypedIsSent` follows
from `BuildFills`, which computes the two passes over any template. The budget
(`GpuTimeIsPaidFor`) is not inductive: it must be known what is still owed.
`Budget` says that the credit covers the late requests and, if the job is on its
way to a submit or to a requeue (`MaySubmit`), one prompt more; `Placed` ties the
worker's place to the call under way and to the network, so that a call after the
submit leads to a requeue only while ComfyUI refuses, an outage already counted.
`Placed` also gives `UnreachedIsRequeued`.

*The redaction* (JobAttemptProofs, for every text and every limit).
`RedactsAsAsked`: unless it panics, the loop of `redact_internal`, which pushes
word after word, stops at the limit and cuts at a byte, returns what its comment
asks for: the redacted words, whole or cut to the longest run of whole
characters within the limit and marked. `PanicsInsideCharacter` is the exact
condition of the panic behind the run `poison`: the redacted text reaches the
limit, and no character ends at that byte. `AtMostMaxLen` bounds the result. The
loop and the byte count are recursive functions; what they compute is proved by
climbing an interval one number at a time (`Climb`: a set of numbers with no
least number outside it is all of them, from the library's well-foundedness of
<), and by unrolling each function at one step (`StepByStep`, `BytesUpTo`,
`PushesExists`). The words pushed so far are a prefix of the whole text
(`PrefixIs`), and more words have more bytes (`LongerIsMore`): so the first word
to reach the limit decides the same cut as the whole text would
(`LoopCutsWhole`). `FailureIsTold` carries this to the row: the message a failed
job has is the redacted reason of its own failure, as the attempt that ends
knows it and no other writes it.

*The backups* (BackupProofs, for every window, day length and bound).
`NoHalfBackup` rests on the staging file being whole at the rename;
`NoTempLeak` on there being at most one at a time, and on counting the unlinks of
it that fail; `KeptThroughWindow` on the
file that prune removes being stale, and on a rename replacing a file only with
a newer one of its date.

*The input cache* (InputCacheProofs, for any number of images, submits, faults
and crashes). `InputLostOnlyByOverlap` speaks of a job at the moment it reads;
what keeps it true is `Kept`, about the images no purge pass came to while a
submit of them was under way, and that were not left without their file by an
accident, a crash or an UPDATE of the pass that failed. Their path has its file
until the pass removes it (`FileInv`); a submit at each of its awaits, and the
job it inserts, rely on that file (`SubmitInv`, `JobInv`); and what the pass
took undisturbed has no submit at it and no job that guards it (`TakenInv`),
which is what the WHERE clause of the SELECT buys. `StrayHasReason` builds on
`Kept`: every file and every path is of somebody's upload (`OwnedInv`); a row
somebody is about to insert is not one a pass has emptied (`SawInv`); and what
the pass has undisturbed in hand still has the path it read, and once removed no
file (`HandInv`), so that emptying the row leaves nothing behind.
`ConflictOnlyByRace` needs that rows are only added, and by an upload that found
none (`RowInv`, `RowsStay`). `DanglingOnlyUnderPurge` needs no such exception,
but calm, without faults and crashes (`Calmly`): the path of a row in the SELECT
stays what it was (`SelectInv`), since a submit about to write is never of a
stale image (`WriterInv`: the image has no path, or is fresh, or is in the
pass's hands).

*The files of a job* (OutputFilesProofs, for any number of jobs and requests,
one tier or both). `OutputTypes` includes that the render task's remaining work
is a suffix of its plan, so that after a JPEG comes its column and then its
AVIF. `WorkInv` is the modelled timing: nobody is still at work on a job whose
grace is over. With it and `PassInv` (the pass has only such jobs) the pass and
the renderers never meet, but at a job restored out of its hands, which
`rescued` names. Then a file about to be named is stored (`StoredInv`) and a
named one is there (`NamedInv`): `VisibleFilesAreThere`. `PurgedWithoutTrace`
needs the converse, `TidyInv`: without failures and crashes every file of a done
job is one its columns lead to, or a JPEG whose column comes next; AVIF is made
only after the column; and what the pass read of a row covers all its files.

*The long-poll* (LongPollProofs, for any number of polls and writers). Both
properties are inductive beside the types: a commit leaves a notify owed
(`WritersOwe`), a notify reaches whoever is subscribed (`SignalsReach`), a request
dropped before its notify marks whom it fails to reach (`DropsMiss`), and a poll
gives its signal up only to read the row again.

*The gallery* (GalleryProofs, for every clock, number of ids and page size). A
page is modelled by the rank of each job below the cursor. That ranks give an
enumeration - every number up to the page's length is the rank of exactly one
job - is a counting argument over finite sets (`RanksAreNumbers`,
`RanksAreTaken`). From it a page is strictly descending, below the cursor, and
leaves out no job above its last one (`PageHolds`). `WalkInv` carries from page
to page that nothing shown lies below the cursor, so that a job submitted or
restored beside the walk is listed by a later page or by none, and that a steady
job matches.

*The prompt catalog* (PromptCatalogProofs, for any number of patches). `OwnInv`: a
copy on its way to the row carries what its patch asked for. `KeptInv`: what a
patch wrote is in the row, and in every copy taken since, until another patch of
the column has had its turn or a rival wrote back a copy it held meanwhile
(`Lost`).

Only model-checked: all liveness (`QueueDrains`, `EveryChangeIsAnnounced`,
`StaleInputReclaimed`, `OldJobsGo`, `PollsEnd`, `JobSettles`, `OldOnesGo`), since
fairness and ENABLED are out of the prover's reach.

## 7. Where the code and its documents disagree

Two disagreements are runs that TLC refutes; PROJECT.json `findings` quotes the
lines.

| run | property | the code |
|---|---|---|
| `stray_interrupt` | CancelSparesNextJob | The /interrupt of a cancel, sent after its UPDATE, hits the next job if the cancelled one ended in between. |
| `poison` | EveryJobSettles | A failed job's message is cut at byte 400; inside a character that panics the worker. The process restarts, the reset puts the row back, and the job does it again: no later job is ever reached. |

Two more are exceptions written into properties that otherwise hold, so that each
run shows that they are the only ones:

- *The purge's SELECT misses a submit in flight* that is past its lookup, and
  removes the file of the job it then inserts (purge.rs:161, against purge.rs:4-6,
  "no active job references them"). `InputLostOnlyByOverlap` excepts just that.
- *A job restored under the purge* is hard-deleted though it is visible: the
  DELETE does not look at deleted_at again (purge.rs:152, against
  API_CONTRACT.md:325, restore "Reverses a soft delete"). `GraceIsKept` excepts
  just that.

One more is a translation of the code that a document contradicts: an explicit
`null` in a PATCH is read by serde as the field being absent, so it clears nothing
(custom_prompts.rs:40, against API_CONTRACT.md:182); PromptCatalog's `Parsed` is
this.

The models show these as well. They have no run of their own; where one would
break a property of section 3, the property excepts it, and the entry says so:

- *404 for an open job.* `cancel_job` retries the running arm because claiming
  is "the only transition out of queued" (handlers.rs:713-715). A requeue is
  another: claimed before the second UPDATE, requeued before the third, the job
  is open and the cancel answers 404.
- *The lifecycle diagram* of the API contract (API_CONTRACT.md:390-395) has no
  arrow back to `queued`; `requeue` and the start-up reset take it. JobLifecycle
  has it as `Retry` and `Recover`.
- *The interrupt of a timeout* (worker.rs:464) ends whatever executes. If the
  job's prompt is still pending in ComfyUI behind the warm-up or a dead attempt,
  that one is ended, and the prompt given up on stays queued.
- *After `UNREACHABLE_BACKOFF`* the worker goes to the idle wait, not to the
  queue (worker.rs:80), so a requeued job waits for the tick as well.
- *Orphaned files.* When a JPEG rendition fails and its AVIF succeeds, no column
  names the AVIF and it outlives the row (derived_images.rs:79, against
  images.rs:127-128). When a cancel beats a completion, the image already stored
  stays under outputs/ (worker.rs:557), since no column ever names it.
  `PurgeLeavesNothing` is stated for done jobs and failure-free histories for
  these reasons.
- *Before the subscription.* The row a long-poll compares with is read before it
  subscribes (handlers.rs:587, 600); a change in between shows only at the next
  tick. `missed` marks the poll, and `NoSignalLost` excepts it.
- *A full last page* carries a cursor, and an empty page follows
  (handlers.rs:499, against API_CONTRACT.md:282).
- *Overlapping patches.* A PATCH writes back columns it did not name, over what
  another wrote since its SELECT (custom_prompts.rs:175). `AcknowledgedStays`
  shows that only overlapping patches suffer.
- *A silent outage.* A connection that times out is not a connect error
  (comfy.rs:79): a backend that is silent (a host that is down behind a router
  that drops, a process that hangs) fails the job that a refusing one would
  requeue, and then every other job on the queue, one after the other, against
  worker.rs:64-68 and comfy.rs:63-66. `OutageFailsAtMostOne` counts the outages
  that refuse or cut, and says that no call fails so without a silence;
  `NeverReachedIsRequeued` excepts it (`mute`). A proxy that answers for a dead
  ComfyUI with an HTTP error is in the models a call that is refused while
  ComfyUI is `up`, and fails its job as well.
- *A ws that never opens* beside a working http requeues its job for ever, and
  everything behind it waits (worker.rs:68, comfy.rs:267-277). `QueueDrains` and
  `JobSettles` assume that this ends (`WsOpens`).
- *The prompt `SEED_PLACEHOLDER`* is replaced by the seed, a number, since the
  second pass looks at what the first has put in (workflow.rs:177).
  `SentAsTyped` excepts this one text.
- *Dropped requests.* A submit dropped between its INSERT and the wake-up waits
  for the idle tick; a cancel dropped after its UPDATE neither interrupts
  ComfyUI nor announces, and a dropped delete or restore does not announce
  either (handlers.rs:104, :731, :662-756): a poll that is held beside the row
  learns of it from its tick (`NoSignalLost` and `EveryChangeIsAnnounced` except
  these, by `missed` and `abandoned`). An upload dropped between the write of
  the cache file and its row leaves a file the purge, which goes by rows, never
  finds (handlers.rs:373); so does the loser of two uploads of one image under
  two extensions. `StrayHasReason` says that nothing else does but a removal
  that fails.
- *A removal that fails* is logged, and the purge deletes or empties the row all
  the same (purge.rs:147, :184): the file stays for good, since the next pass
  goes by rows.
- *An UPDATE of the purge that fails* after the file is removed ends the pass
  (purge.rs:187-190): the row keeps a path without its file, until a submit of
  the image or a later pass comes to it. `DanglingOnlyUnderPurge` is stated for
  histories without it, `InputLostOnlyByOverlap` excepts the image
  (`disturbed`).
- *Staging files* a stop leaves are never collected, nor are those whose unlink
  fails, which the Drop of `Staged` ignores (paths.rs:80-83); `TempsHaveReason`
  says that nothing else leaves any.

## 8. Not modelled

- *Authentication, configuration, logging, capabilities, input listing,
  hashing*: stateless, or read once.
- *Health*: one number cached for 60 s, which any caller may refresh.
- *Loading and describing the templates* (`load_registry`, `workflow_support`):
  once, at start, from files baked into the binary.
- *Prompt resolution*: one row read, or the request itself, copied into the job.
- *The sweep of ComfyUI's directories* and *dry runs* of the purge.
- *Parsing, validation and content negotiation*: they refuse or label a request
  before it changes anything.
- *Migrations*: once, at start.

## 9. Plan

1. What clients may conclude from JobLifecycle alone (an end is final, a lost job
   is told of), as theorems about it that ImplementsLifecycle hands to the engine.
2. Abstract specifications of the cache (a hash is there or is asked for) and
   of the gallery walk (a monotone listing), refined by InputCache and Gallery.
3. The sweep of ComfyUI's directories, beside the prompts that still write there.
