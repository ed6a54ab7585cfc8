---------------------------- MODULE JobLifecycle ----------------------------
(***************************************************************************)
(* What the server promises its clients about a job's row, whatever the    *)
(* worker, the handlers, ComfyUI and the process do underneath: the status *)
(* machine of src/docs/API_CONTRACT.md, extended by the way back from      *)
(* running to queued that the code has (requeue, reset_running_jobs).      *)
(***************************************************************************)
CONSTANTS Jobs, Images, None,
          Faulty    \* a statement may fail and leave a row behind

VARIABLES status, deleted,
          output,   \* [Jobs -> Images or None]
          lost      \* rows left running by a failed statement

vars == <<status, deleted, output, lost>>

Init ==
  /\ status = [j \in Jobs |-> "absent"]
  /\ deleted = [j \in Jobs |-> FALSE]
  /\ output = [j \in Jobs |-> None]
  /\ lost = {}

Running == {j \in Jobs : status[j] = "running"}
Becomes(j, from, to) == status[j] = from /\ status' = [status EXCEPT ![j] = to]

Submit(j) == Becomes(j, "absent", "queued") /\ UNCHANGED <<deleted, output, lost>>

\* One job at a time, and never one the client has deleted.
Start(j) ==
  /\ ~deleted[j]
  /\ Running \subseteq lost
  /\ Becomes(j, "queued", "running")
  /\ UNCHANGED <<deleted, output, lost>>

\* A job is done exactly when it gets its image.
Finish(j, i) ==
  /\ Becomes(j, "running", "done")
  /\ output' = [output EXCEPT ![j] = i]
  /\ UNCHANGED <<deleted, lost>>

Fail(j) == Becomes(j, "running", "failed") /\ UNCHANGED <<deleted, output, lost>>
Retry(j) == Becomes(j, "running", "queued") /\ UNCHANGED <<deleted, output, lost>>

Cancel(j) ==
  /\ Becomes(j, "queued", "cancelled") \/ Becomes(j, "running", "cancelled")
  /\ UNCHANGED <<deleted, output, lost>>

Hide(j) ==
  /\ status[j] # "absent"
  /\ deleted' = [deleted EXCEPT ![j] = ~deleted[j]]
  /\ UNCHANGED <<status, output, lost>>

\* A restart puts every interrupted job back.
Recover ==
  /\ status' = [j \in Jobs |-> IF j \in Running THEN "queued" ELSE status[j]]
  /\ lost' = {}
  /\ UNCHANGED <<deleted, output>>

Lose == Faulty /\ lost' \in SUBSET Jobs /\ UNCHANGED <<status, deleted, output>>

Next ==
  \/ \E j \in Jobs : \/ Submit(j) \/ Start(j) \/ Fail(j) \/ Retry(j)
                     \/ Cancel(j) \/ Hide(j)
                     \/ \E i \in Images : Finish(j, i)
  \/ Recover
  \/ Lose

Spec == Init /\ [][Next]_vars
=============================================================================
