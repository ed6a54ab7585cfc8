------------------------------ MODULE LongPoll ------------------------------
(***************************************************************************)
(* GET /jobs/{id}?wait=: a request that reads one job's row, subscribes to *)
(* the job_events watch channel and is held until the row changes          *)
(* (get_job in src/handlers.rs), beside the writers of that row, each of   *)
(* which commits its UPDATE and then notifies: the worker and its progress *)
(* task (src/worker.rs), and the requests that cancel, delete and restore, *)
(* which may be dropped between the two (one of each kind at a time).      *)
(***************************************************************************)
EXTENDS Naturals, FiniteSets

CONSTANTS Polls,       \* requests, each served once
          Levels,      \* progress runs through 0 .. Levels
          MaxRequeues  \* bound on requeues

ASSUME PollsAssumption == IsFiniteSet(Polls)
ASSUME LevelsAssumption == Levels \in Nat /\ MaxRequeues \in Nat

Open == {"queued", "running"}
Views == {"queued", "running", "done", "failed", "cancelled"} \X (0 .. Levels)
NoView == <<"none", 0>>
Requesters == {"cancel", "delete", "restore"}
Writers == {"worker", "progress"} \cup Requesters
Held == {"top", "wait", "reread"}        \* the loop: window, wake-up, re-read
PollAt == Held \cup {"new", "subscribe", "answered", "notFound"}

VARIABLES view,      \* <<status, progress>> of the row
          hidden,    \* deleted_at IS NOT NULL
          pending,   \* writers whose UPDATE is committed and whose notify is not
          requeues,
          at,        \* [Polls -> PollAt]
          initial,   \* [Polls -> the row the poll compares with]
          answer,    \* [Polls -> the row it answered with]
          ready,     \* polls whose receiver holds an unseen version
          over,      \* polls whose window has ended
          missed     \* polls whose row changed without a signal to come of it

rowVars == <<view, hidden, pending, requeues>>
pollVars == <<at, initial, answer, ready, over, missed>>
vars == <<rowVars, pollVars>>

TypeOK ==
  /\ view \in Views
  /\ hidden \in BOOLEAN
  /\ pending \subseteq Writers
  /\ requeues \in 0 .. MaxRequeues
  /\ at \in [Polls -> PollAt]
  /\ initial \in [Polls -> Views \cup {NoView}]
  /\ answer \in [Polls -> Views \cup {NoView}]
  /\ ready \subseteq Polls /\ over \subseteq Polls /\ missed \subseteq Polls

Init ==
  /\ view = <<"queued", 0>>
  /\ hidden = FALSE
  /\ pending = {}
  /\ requeues = 0
  /\ at = [p \in Polls |-> "new"]
  /\ initial = [p \in Polls |-> NoView]
  /\ answer = [p \in Polls |-> NoView]
  /\ ready = {} /\ over = {} /\ missed = {}

Subscribed == {p \in Polls : at[p] \in Held}
News(p) == hidden \/ view # initial[p]

-----------------------------------------------------------------------------
(* The writers.  A writer is back for its next UPDATE after its notify.    *)

Owes(w) == w \notin pending /\ pending' = pending \cup {w} /\ UNCHANGED pollVars
Write(w, st, level) == Owes(w) /\ view' = <<st, level>> /\ UNCHANGED hidden

Claim == view[1] = "queued" /\ ~hidden /\ Write("worker", "running", 0) /\ UNCHANGED requeues

\* Decreases are written through: every node of a workflow starts over.  The
\* progress writer is joined before the job is closed.
Progress ==
  /\ view[1] = "running"
  /\ \E level \in (0 .. Levels) \ {view[2]} : Write("progress", "running", level)
  /\ UNCHANGED requeues

Close ==
  /\ view[1] = "running" /\ "progress" \notin pending
  /\ \/ Write("worker", "done", Levels)
     \/ Write("worker", "failed", view[2])
  /\ UNCHANGED requeues

Requeue ==
  /\ view[1] = "running" /\ "progress" \notin pending
  /\ requeues < MaxRequeues /\ requeues' = requeues + 1
  /\ Write("worker", "queued", 0)

Cancel == view[1] \in Open /\ Write("cancel", "cancelled", view[2]) /\ UNCHANGED requeues

\* delete_job and restore_job.
SetHidden(flag) ==
  /\ hidden # flag /\ hidden' = flag
  /\ Owes(IF flag THEN "delete" ELSE "restore")
  /\ UNCHANGED <<view, requeues>>

Signal(polls) ==
  /\ ready' = ready \cup polls /\ missed' = missed \ polls
  /\ UNCHANGED <<view, hidden, requeues, at, initial, answer, over>>

notify_waiting(w) ==
  /\ w \in pending /\ pending' = pending \ {w}
  /\ Signal({p \in Polls : at[p] = "wait"})

\* Every receiver, whatever its request is doing, holds an unseen version.
notify_job_change(w) ==
  /\ w \in pending /\ pending' = pending \ {w}
  /\ Signal(Subscribed)

\* The client of the request goes, or its timeout comes: cancel_job may still wait
\* for /interrupt, each of them for the answer to its UPDATE.
Dropped(w) ==
  /\ w \in pending \cap Requesters /\ pending' = pending \ {w}
  /\ missed' = missed \cup {p \in Subscribed : News(p)}
  /\ UNCHANGED <<view, hidden, requeues, at, initial, answer, ready, over>>

\* The channel is one for all jobs.
NotifyOther == Signal(Subscribed) /\ UNCHANGED pending

-----------------------------------------------------------------------------
(* get_job with a window.                                                  *)

Goto(p, l) == at' = [at EXCEPT ![p] = l] /\ UNCHANGED rowVars
Answer(p, v) == answer' = [answer EXCEPT ![p] = v]

\* A terminal job is answered at once, a deleted one not found.
FirstRead(p) ==
  /\ at[p] = "new"
  /\ IF hidden THEN Goto(p, "notFound") /\ UNCHANGED <<initial, answer>>
     ELSE /\ initial' = [initial EXCEPT ![p] = view]
          /\ IF view[1] \in Open
             THEN Goto(p, "subscribe") /\ UNCHANGED answer
             ELSE Goto(p, "answered") /\ Answer(p, view)
  /\ UNCHANGED <<ready, over, missed>>

\* A new receiver has seen the version there is.
Subscribe(p) ==
  /\ at[p] = "subscribe" /\ Goto(p, "top")
  /\ ready' = ready \ {p}
  /\ missed' = IF News(p) /\ pending = {} THEN missed \cup {p} ELSE missed
  /\ UNCHANGED <<initial, answer, over>>

TopIgnoresWindow(p) ==
  /\ at[p] = "top" /\ Goto(p, "wait")
  /\ UNCHANGED <<initial, answer, ready, over, missed>>

\* The top of the loop: past the deadline the row first read is the answer.
Top(p) ==
  /\ at[p] = "top"
  /\ IF p \in over
     THEN Goto(p, "answered") /\ Answer(p, initial[p])
     ELSE Goto(p, "wait") /\ UNCHANGED answer
  /\ UNCHANGED <<initial, ready, over, missed>>

\* timeout_at(wake_by, events.changed()): the signal, seen by this very call ...
WakeOnChange(p) ==
  /\ at[p] = "wait" /\ p \in ready
  /\ Goto(p, "reread")
  /\ ready' = ready \ {p}
  /\ UNCHANGED <<initial, answer, over, missed>>

\* ... or the fallback tick, or the deadline.
WakeOnTime(p) ==
  /\ at[p] = "wait" /\ Goto(p, "reread")
  /\ UNCHANGED <<initial, answer, ready, over, missed>>

RereadAnswers(p) ==
  /\ at[p] = "reread"
  /\ IF hidden THEN Goto(p, "notFound") /\ UNCHANGED answer
     ELSE Goto(p, "answered") /\ Answer(p, view)
  /\ UNCHANGED <<initial, ready, over, missed>>

Reread(p) ==
  /\ at[p] = "reread"
  /\ IF hidden THEN Goto(p, "notFound") /\ UNCHANGED answer
     ELSE IF view # initial[p] THEN Goto(p, "answered") /\ Answer(p, view)
     ELSE Goto(p, "top") /\ UNCHANGED answer
  /\ UNCHANGED <<initial, ready, over, missed>>

\* The deadline passes while the poll is held.
Elapse(p) ==
  /\ at[p] \in Held /\ p \notin over
  /\ over' = over \cup {p}
  /\ UNCHANGED <<rowVars, at, initial, answer, ready, missed>>

get_job(p) ==
  FirstRead(p) \/ Subscribe(p) \/ Top(p) \/ WakeOnChange(p) \/ WakeOnTime(p) \/ Reread(p)

Next ==
  \/ Claim \/ Progress \/ Close \/ Requeue \/ Cancel
  \/ \E w \in Writers : notify_job_change(w) \/ Dropped(w)
  \/ SetHidden(TRUE) \/ SetHidden(FALSE) \/ NotifyOther
  \/ \E p \in Polls : get_job(p) \/ Elapse(p)

Spec == Init /\ [][Next]_vars

\* A request that has begun is polled to its end, and its timer fires.
Fairness == \A p \in Polls : WF_vars(at[p] # "new" /\ get_job(p)) /\ WF_vars(Elapse(p))
FairSpec == Spec /\ Fairness

-----------------------------------------------------------------------------
(* Properties.                                                             *)

\* A wake-up is never lost: a poll that is held beside a row other than the one
\* it first read has the signal, or a writer is still to give it.  Two changes
\* are excepted, of which only the tick tells, as nothing signals any more: one
\* that came, notify and all, before the poll subscribed, and one of which the
\* cancel, delete or restore was dropped between its UPDATE and its notify.
NoSignalLost ==
  \A p \in Polls :
    at[p] \in {"top", "wait"} /\ News(p) /\ p \notin missed => p \in ready \/ pending # {}

\* A poll that answers inside its window has something new to say, however
\* often other jobs, restores or the tick woke it.
EarlyAnswerIsNews ==
  \A p \in Polls :
    at[p] = "answered" /\ initial[p][1] \in Open /\ p \notin over => answer[p] # initial[p]

\* Every poll that begins is answered.
PollsEnd == \A p \in Polls : at[p] # "new" ~> at[p] \in {"answered", "notFound"}
=============================================================================
