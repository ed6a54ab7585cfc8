------------------------------ MODULE JobRows ------------------------------
(***************************************************************************)
(* The `jobs` table and the SQL statements that write its status columns   *)
(* (src/worker.rs, src/handlers.rs).  Every statement is one atomic step   *)
(* of SQLite: a set of rows is hit by the WHERE clause, and the columns of *)
(* the rows hit are rewritten.  A job is named by its rank in the order    *)
(* (created_at, id) in which the worker drains the queue.                  *)
(***************************************************************************)
EXTENDS Naturals, FiniteSets

CONSTANTS NumJobs,     \* rows the clients may insert
          NumPrompts   \* ComfyUI prompt ids; a bound no run reaches

ASSUME NumJobsAssumption == NumJobs \in Nat \ {0}
ASSUME NumPromptsAssumption == NumPrompts \in Nat

Jobs == 1 .. NumJobs
Prompts == 1 .. NumPrompts
None == 0              \* SQL NULL, and "no job", "no prompt"

Open == {"queued", "running"}
Terminal == {"done", "failed", "cancelled"}
Status == {"absent"} \cup Open \cup Terminal

\* What error_message tells apart: a refused request or missing input, a run
\* ComfyUI ended in error, the job's timeout, a lost connection, a call that
\* met with silence, SQLite.
Causes == {"refused", "execution", "timeout", "disconnected", "silence", "database"}
NoError == "none"

\* progress: 0.0 as the statements reset it, 1 for whatever fraction the last
\* frame carried, 2 for the 1.0 of mark_done.
ProgressLevels == 0 .. 2

VARIABLES status,     \* [Jobs -> Status]; "absent" before the INSERT
          deleted,    \* [Jobs -> BOOLEAN]; deleted_at IS NOT NULL
          progress,   \* [Jobs -> ProgressLevels]
          promptId,   \* [Jobs -> Prompts or NULL]; comfy_prompt_id
          output,     \* [Jobs -> Prompts or NULL]; the run output_path came from
          error       \* [Jobs -> Causes or NULL]; error_message

rowVars == <<status, deleted, progress, promptId, output, error>>

RowsTypeOK ==
  /\ status \in [Jobs -> Status]
  /\ deleted \in [Jobs -> BOOLEAN]
  /\ progress \in [Jobs -> ProgressLevels]
  /\ promptId \in [Jobs -> Prompts \cup {None}]
  /\ output \in [Jobs -> Prompts \cup {None}]
  /\ error \in [Jobs -> Causes \cup {NoError}]

RowsInit ==
  /\ status = [j \in Jobs |-> "absent"]
  /\ deleted = [j \in Jobs |-> FALSE]
  /\ progress = [j \in Jobs |-> 0]
  /\ promptId = [j \in Jobs |-> None]
  /\ output = [j \in Jobs |-> None]
  /\ error = [j \in Jobs |-> NoError]

-----------------------------------------------------------------------------
(* WHERE clauses, and the columns a statement rewrites in the rows it hits. *)

RowsIn(S, st) == {j \in S : status[j] = st}
Put(column, hit, v) == [j \in Jobs |-> IF j \in hit THEN v ELSE column[j]]

-----------------------------------------------------------------------------
(* Statements.  A mutant of a statement stands before it.                  *)

insert_job(j) ==
  /\ status[j] = "absent"
  /\ status' = Put(status, {j}, "queued")
  /\ UNCHANGED <<deleted, progress, promptId, output, error>>

Fetchable == {j \in Jobs : status[j] = "queued" /\ ~deleted[j]}

Oldest(S) == CHOOSE j \in S : \A k \in S : j <= k

claimable_though_deleted(j) == RowsIn({j}, "queued")
Claimable(j) == {k \in {j} : status[k] = "queued" /\ ~deleted[k]}

mark_running(j) ==
  /\ status' = Put(status, Claimable(j), "running")
  /\ progress' = Put(progress, Claimable(j), 0)
  /\ UNCHANGED <<deleted, promptId, output, error>>

prompt_id_not_recorded(j, p) == UNCHANGED rowVars

\* The one statement that is not gated on the row's status.
update_comfy_prompt_id(j, p) ==
  /\ promptId' = Put(promptId, {j}, p)
  /\ UNCHANGED <<status, deleted, progress, output, error>>

write_progress(j, v) ==
  /\ progress' = Put(progress, RowsIn({j}, "running"), v)
  /\ UNCHANGED <<status, deleted, promptId, output, error>>

mark_done_ungated(j, p) ==
  /\ status' = Put(status, {j}, "done")
  /\ output' = Put(output, {j}, p)
  /\ progress' = Put(progress, {j}, 2)
  /\ UNCHANGED <<deleted, promptId, error>>

mark_done(j, p) ==
  LET hit == RowsIn({j}, "running") IN
  /\ status' = Put(status, hit, "done")
  /\ output' = Put(output, hit, p)
  /\ progress' = Put(progress, hit, 2)
  /\ UNCHANGED <<deleted, promptId, error>>

mark_failed_ungated(j, cause) ==
  /\ status' = Put(status, {j}, "failed")
  /\ error' = Put(error, {j}, cause)
  /\ UNCHANGED <<deleted, progress, promptId, output>>

mark_failed_misspelt(j, cause) ==
  /\ status' = Put(status, RowsIn({j}, "running"), "error")
  /\ UNCHANGED <<deleted, progress, promptId, output, error>>

mark_failed(j, cause) ==
  LET hit == RowsIn({j}, "running") IN
  /\ status' = Put(status, hit, "failed")
  /\ error' = Put(error, hit, cause)
  /\ UNCHANGED <<deleted, progress, promptId, output>>

requeue_keeping_attempt(j) ==
  /\ status' = Put(status, RowsIn({j}, "running"), "queued")
  /\ UNCHANGED <<deleted, progress, promptId, output, error>>

requeue(j) ==
  LET hit == RowsIn({j}, "running") IN
  /\ status' = Put(status, hit, "queued")
  /\ progress' = Put(progress, hit, 0)
  /\ promptId' = Put(promptId, hit, None)
  /\ UNCHANGED <<deleted, output, error>>

reset_nothing == UNCHANGED rowVars

reset_running_jobs ==
  LET hit == RowsIn(Jobs, "running") IN
  /\ status' = Put(status, hit, "queued")
  /\ progress' = Put(progress, hit, 0)
  /\ promptId' = Put(promptId, hit, None)
  /\ error' = Put(error, hit, NoError)
  /\ UNCHANGED <<deleted, output>>

\* The three UPDATEs of cancel_job differ only in the status they match.
cancel_from(j, st) ==
  /\ status' = Put(status, RowsIn({j}, st), "cancelled")
  /\ UNCHANGED <<deleted, progress, promptId, output, error>>

set_deleted(j, flag) ==
  /\ deleted' = Put(deleted, {j}, flag)
  /\ UNCHANGED <<status, progress, promptId, output, error>>
=============================================================================
