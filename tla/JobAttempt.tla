----------------------------- MODULE JobAttempt -----------------------------
(***************************************************************************)
(* One job in the hands of the worker, with what JobServer folds into one  *)
(* step taken apart: the tries of each call to ComfyUI (ComfyClient), the  *)
(* workflow that is sent (Workflow), the way out of process_job by the     *)
(* error's class, and the message that is stored (Redaction); then the     *)
(* process that dies of a panic, restarts, and finds the job again.        *)
(***************************************************************************)
EXTENDS ComfyClient, Workflow, Redaction, Integers

CONSTANTS Template,   \* the job's workflow template
          Prompts,    \* prompts a user may send: name for JSON, words in an error
          Seed,       \* the job's seed, a JSON number
          Plain,      \* the words of any error without user text or secrets
          WithUrl,    \* the words of a reqwest error
          MaxKills,   \* bound on kills of the process
          None

ASSUME AttemptConstants == Template \in Templates /\ MaxKills \in Nat
ASSUME MessageConstants ==
  Plain \in Texts /\ WithUrl \in Texts /\ \A t \in Prompts : t.words \in Texts

Image == "zun_<sha>.jpg"
Prefix == "zun_<job>"

\* Where `run` and process_job are; a member of Calls when a call is under way.
At == Calls \cup {"idle", "claimed", "await", "interrupt", "fail", "requeue", "down"}

VARIABLES status,  \* of the row: "queued", "running", "done", "failed"
          stored,  \* its error_message
          at,
          text,    \* the job's prompt, a member of Prompts
          sent,    \* the workflow of the last submit
          why,     \* the error process_job returned
          reached, \* this attempt got a connection to ComfyUI
          mute,    \* ComfyUI was silent while this attempt ran
          kills,
          credit   \* prompts of this job ComfyUI may still be given: one, and
                   \* one for every outage or death of the process

jobVars == <<status, stored, at, text, sent, why, reached, mute, kills>>
vars == <<clientVars, jobVars, credit>>

Whys == Errors \cup {NoError, "input", "execution", "closed", "deadline", "history"}

TypeOK ==
  /\ ClientTypeOK
  /\ status \in {"queued", "running", "done", "failed"}
  /\ at \in At
  /\ text \in Prompts
  /\ why \in Whys
  /\ reached \in BOOLEAN /\ mute \in BOOLEAN
  /\ kills \in 0 .. MaxKills
  /\ credit \in Int

Init ==
  /\ ClientInit
  /\ status = "queued" /\ stored = None
  /\ at = "idle"
  /\ text \in Prompts
  /\ sent = None /\ why = NoError
  /\ reached = FALSE /\ mute = FALSE
  /\ kills = 0
  /\ credit = 1

-----------------------------------------------------------------------------
(* process_job.                                                            *)

Goto(l) == at' = l
Resting == UNCHANGED clientVars
Rest == UNCHANGED <<text, kills, credit>>

Claim ==
  /\ at = "idle" /\ Goto("claimed")
  /\ status = "queued" /\ status' = "running"
  /\ reached' = FALSE /\ mute' = (net = "silent")
  /\ why' = NoError
  /\ UNCHANGED <<stored, sent>> /\ Resting /\ Rest

\* Input row, template and file are there.
ReadInput ==
  /\ at = "claimed" /\ Goto("upload")
  /\ Begin("upload")
  /\ UNCHANGED <<status, stored, sent, why, reached, mute>> /\ Rest

FailsWith(e) ==
  /\ Goto("fail") /\ why' = e
  /\ UNCHANGED <<status, stored, sent, reached, mute>> /\ Resting /\ Rest

InputMissing == at = "claimed" /\ FailsWith("input")

Returned(c) == at = c /\ phase = "over"
Ok(c) == Returned(c) /\ error = NoError
NextCall(from, to) ==
  /\ Ok(from) /\ Goto(to)
  /\ Begin(to)
  /\ UNCHANGED <<status, stored, why, reached, mute>> /\ Rest

Uploaded == NextCall("upload", "connect") /\ UNCHANGED sent

Connected ==
  /\ NextCall("connect", "submit")
  /\ sent' = build_edit_workflow(Template, text.name, Image, Prefix, Seed)

Submitted ==
  /\ Ok("submit") /\ Goto("await")
  /\ UNCHANGED <<status, stored, sent, why, reached, mute>> /\ Resting /\ Rest

\* await_completion: the frame that ends the prompt, its execution_error, the
\* end of the stream, or the job's deadline.
AwaitEnds ==
  /\ at = "await" /\ Goto("history")
  /\ net = "up"
  /\ Begin("history")
  /\ UNCHANGED <<status, stored, sent, why, reached, mute>> /\ Rest

AwaitFails == at = "await" /\ (FailsWith("execution") \/ FailsWith("closed"))

AwaitTimesOut ==
  /\ at = "await" /\ Goto("interrupt")
  /\ UNCHANGED <<status, stored, sent, why, reached, mute>> /\ Resting /\ Rest

\* Sent once and its outcome ignored.
Interrupted == at = "interrupt" /\ FailsWith("deadline")

HistoryTells ==
  \/ NextCall("history", "view") /\ UNCHANGED sent
  \/ Ok("history") /\ FailsWith("history")

Done ==
  /\ Ok("view") /\ Goto("idle")
  /\ status' = "done"
  /\ UNCHANGED <<stored, sent, why, reached, mute>> /\ Resting /\ Rest

RequeuesOnAnyError ==
  /\ at \in Calls /\ Returned(at) /\ error # NoError
  /\ Goto("requeue") /\ why' = error
  /\ UNCHANGED <<status, stored, sent, reached, mute>> /\ Resting /\ Rest

\* `run` looks at the class of the error.
CallFails ==
  /\ at \in Calls /\ Returned(at) /\ error # NoError
  /\ Goto(IF is_unreachable(at, error) THEN "requeue" ELSE "fail")
  /\ why' = error
  /\ UNCHANGED <<status, stored, sent, reached, mute>> /\ Resting /\ Rest

\* Back on the queue, after the backoff.
Requeue ==
  /\ at = "requeue" /\ Goto("idle")
  /\ status' = "queued"
  /\ UNCHANGED <<stored, sent, why, reached, mute>> /\ Resting /\ Rest

\* The chain the worker formats; only execution_error quotes the workflow.
Message(e, t) ==
  CASE e = "execution" -> Plain \o t.words
    [] e \in Errors    -> WithUrl
    [] OTHER           -> Plain
Storable == [e \in Whys |-> [t \in Prompts |-> redact_internal(Message(e, t))]]

MarkFailed ==
  /\ at = "fail" /\ Goto("idle")
  /\ Storable[why][text] # Panic
  /\ stored' = Storable[why][text]
  /\ status' = "failed"
  /\ UNCHANGED <<sent, why, reached, mute>> /\ Resting /\ Rest

\* The worker task panics; supervise exits the process.
MessagePanics ==
  /\ at = "fail" /\ Goto("down")
  /\ Storable[why][text] = Panic
  /\ credit' = credit + 1
  /\ UNCHANGED <<status, stored, sent, why, reached, mute, text, kills>> /\ Resting

\* systemd starts the process again: reset_running_jobs.
Restart ==
  /\ at = "down" /\ Goto("idle")
  /\ status' = IF status = "running" THEN "queued" ELSE status
  /\ UNCHANGED <<stored, sent, why, reached, mute>> /\ Resting /\ Rest

Kill ==
  /\ at # "down" /\ Goto("down")
  /\ kills < MaxKills /\ kills' = kills + 1
  /\ Abandon
  /\ credit' = credit + 1
  /\ UNCHANGED <<status, stored, text, sent, why, reached, mute>>

Worker ==
  \/ Claim \/ ReadInput \/ InputMissing \/ Uploaded \/ Connected \/ Submitted
  \/ AwaitEnds \/ AwaitFails \/ AwaitTimesOut \/ Interrupted
  \/ HistoryTells \/ Done \/ CallFails \/ Requeue
  \/ MarkFailed \/ MessagePanics \/ Restart

-----------------------------------------------------------------------------
(* The tries of the call under way, and ComfyUI.                           *)

Spend == credit' = credit - (accepted' - accepted)

Trying ==
  /\ Try \/ Serve \/ ServeLate
  /\ Spend
  /\ reached' = (reached \/ phase' = "flight")
  /\ UNCHANGED <<status, stored, at, text, sent, why, mute, kills>>

NetGoes ==
  /\ \E how \in {"refusing", "silent"} :
       GoAway(how) /\ mute' = (mute \/ how = "silent")
  /\ credit' = credit + 1
  /\ UNCHANGED <<status, stored, at, text, sent, why, reached, kills>>

NetReturns == ComeBack /\ UNCHANGED <<jobVars, credit>>

Next == Worker \/ Trying \/ NetGoes \/ NetReturns \/ Kill

Spec == Init /\ [][Next]_vars

\* The client's timers fire (every try has a timeout), the worker goes on (its wait
\* for the prompt has a deadline), systemd restarts the process and the backend
\* comes back.  Nothing is asked of what ComfyUI does with a call.
Fairness ==
  /\ WF_vars(Worker)
  /\ WF_vars(Own /\ Trying)
  /\ WF_vars(NetReturns)

FairSpec == Spec /\ Fairness

-----------------------------------------------------------------------------
(* Properties.                                                             *)

\* Retries, requeues and restarts taken together, ComfyUI is given a job's prompt
\* once, and at most once more for each time it went away or the process died: no
\* lost reply, late request or misread error spends the GPU on a job again.
GpuTimeRepeatedOnlyByOutage == credit >= 0

\* "ComfyUI isn't there" is not the job's fault: an attempt that never got a
\* connection fails its job only if ComfyUI was silent, neither there nor refusing
\* (a connection that times out is not a connect error).
NeverReachedIsRequeued ==
  at = "fail" /\ why \in Errors /\ ~reached => mute

\* ComfyUI is sent the template with the user's prompt, the image, the prefix and
\* the seed in their places, whatever the user typed, the names of the other
\* placeholders included; but for the one text the second pass takes for the seed.
SentAsTyped ==
  sent # None /\ text.name # SEED => sent = Filled(Template, text.name, Image, Prefix, Seed)

\* A failed job tells why: its message is the redacted error, cut to MaxLen bytes.
FailureIsExplained ==
  status = "failed" => stored = Redacted(Message(why, text))

\* Unless ComfyUI keeps refusing the ws it answers http beside, a job leaves the
\* queue, if its message does not panic the worker.
WsOpens == <>[](at = "requeue" => call # "connect")
Poisonous == Storable["execution"][text] = Panic
JobSettles ==
  WsOpens => (status = "queued" ~> status \in {"done", "failed"} \/ Poisonous)

\* src/src/main.rs: a task that panics takes the process down "so systemd's
\* `Restart=on-failure` notices and recovers it"; the job it died of included.
EveryJobSettles ==
  WsOpens => (status = "queued" ~> status \in {"done", "failed"})
=============================================================================
